------------------------------- MODULE EvoDB -------------------------------
(***************************************************************************)
(* CEvoDB: two overlay transactions stacked on a leveldb database          *)
(* (evo/evodb.{h,cpp}, CDBTransaction in dbwrapper.h).                     *)
(*                                                                         *)
(*    curDBTransaction  --Commit-->  rootDBTransaction                     *)
(*    rootDBTransaction --Commit-->  rootBatch --WriteBatch--> db          *)
(*                                                                         *)
(* An overlay is a record: writes maps a key to the value written over the *)
(* parent (NoVal: none), deletes is the set of keys erased from the parent.*)
(* Every method runs under CEvoDB::cs, so every method is one action.      *)
(***************************************************************************)
EXTENDS Integers, FiniteSets, Totals

CONSTANTS
    Key,            \* keys handled through the transactions
    RawKey,         \* keys that no transaction writes (quorum data, the old best block)
    Val,            \* serialized values
    NoVal,          \* "not present"
    KeySize,        \* serialized size of a key
    ValSize         \* serialized size of a value

ASSUME KeyAssumption == IsFiniteSet(Key) /\ Key \cap RawKey = {}
ASSUME NoValAssumption == NoVal \notin Val
ASSUME SizeAssumption ==
    /\ KeySize \in [Key -> Nat]
    /\ ValSize \in [Val -> Nat]

VARIABLES
    db,             \* leveldb content
    batch,          \* rootBatch: a batch not yet written to db
    root,           \* rootDBTransaction: writes and deletes
    cur,            \* curDBTransaction: writes and deletes
    mem,            \* memoryUsage of the two transactions
    open,           \* a CEvoDBScopedCommitter is alive and undecided
    writeFailed,    \* WriteBatch threw and has not succeeded since
    up              \* the process runs: CEvoDB is constructed

vars == <<db, batch, root, cur, mem, open, writeFailed, up>>

AllKey == Key \cup RawKey
MaybeVal == Val \cup {NoVal}
Overlay == [writes : [Key -> MaybeVal], deletes : SUBSET Key]
Empty == [writes |-> [k \in Key |-> NoVal], deletes |-> {}]

\* Types of the layers; the current transaction is empty while nobody holds a
\* CEvoDBScopedCommitter.  (MemoryUsageExact below fixes mem.)
TypeOK ==
    /\ db \in [AllKey -> MaybeVal]
    /\ batch \in Overlay
    /\ root \in Overlay
    /\ cur \in Overlay
    /\ open \in BOOLEAN
    /\ writeFailed \in BOOLEAN
    /\ up \in BOOLEAN
    /\ ~open => cur = Empty

Written(t) == {k \in Key : t.writes[k] # NoVal}
Touched(t) == Written(t) \cup t.deletes

----------------------------------------------------------------------------
(* CDBTransaction *)

\* Mutant: the key stays in deletes.
WriteKeepsDelete(t, k, v) == [t EXCEPT !.writes[k] = v]

Write(t, k, v) ==
    [writes  |-> [t.writes EXCEPT ![k] = v],
     deletes |-> t.deletes \ {k}]

Erase(t, k) ==
    [writes  |-> [t.writes EXCEPT ![k] = NoVal],
     deletes |-> t.deletes \cup {k}]

\* Read and Exists: deletes hide the parent, then writes, then the parent.
Read(t, parent, k) ==
    IF k \in Key /\ k \in t.deletes THEN NoVal
    ELSE IF k \in Key /\ t.writes[k] # NoVal THEN t.writes[k]
    ELSE parent[k]

View(t, parent) == [k \in AllKey |-> Read(t, parent, k)]

\* Commit erases every deleted key in the target, then writes every write.
CommitTo(t, target) ==
    [writes  |-> [k \in Key |-> IF t.writes[k] # NoVal THEN t.writes[k]
                                ELSE IF k \in t.deletes THEN NoVal
                                ELSE target.writes[k]],
     deletes |-> (target.deletes \cup t.deletes) \ Written(t)]

\* The bytes a written (deleted) key accounts for in memoryUsage.
WriteUsage(t, k) ==
    IF t.writes[k] = NoVal THEN 0 ELSE KeySize[k] + ValSize[t.writes[k]]
DeleteUsage(t, k) == IF k \in t.deletes THEN KeySize[k] ELSE 0

\* Mutant: the size of the overwritten value is not subtracted.
WriteDeltaLeaks(t, k, v) == KeySize[k] + ValSize[v] - DeleteUsage(t, k)

\* How Write and Erase move memoryUsage.
WriteDelta(t, k, v) ==
    KeySize[k] + ValSize[v] - WriteUsage(t, k) - DeleteUsage(t, k)
EraseDelta(t, k) == KeySize[k] - DeleteUsage(t, k) - WriteUsage(t, k)

\* Commit calls Erase for the keys of deletes and Write for those of writes,
\* no key for both: the target's memoryUsage loses what it held of them and
\* gains what this transaction holds.
Size(t) == [k \in Key |-> WriteUsage(t, k) + DeleteUsage(t, k)]

CommitDelta(t, target) ==
    Total(Size(t), Touched(t)) - Total(Size(target), Touched(t))

----------------------------------------------------------------------------
(* CEvoDB *)

Init ==
    /\ db \in [AllKey -> MaybeVal]
    /\ batch = Empty
    /\ root = Empty
    /\ cur = Empty
    /\ mem = [root |-> 0, cur |-> 0]
    /\ open = FALSE
    /\ writeFailed = FALSE
    /\ up = TRUE

\* A failed WriteBatch only requests a shutdown: blocks are still connected, in
\* transactions, until the threads are stopped.
BeginTransaction ==
    /\ up /\ ~open
    /\ open' = TRUE
    /\ UNCHANGED <<db, batch, root, cur, mem, writeFailed, up>>

\* The processing of special transactions, inside a transaction.
WriteCur(k, v) ==
    /\ open
    /\ cur' = Write(cur, k, v)
    /\ mem' = [mem EXCEPT !.cur = @ + WriteDelta(cur, k, v)]
    /\ UNCHANGED <<db, batch, root, open, writeFailed, up>>

EraseCur(k) ==
    /\ open
    /\ cur' = Erase(cur, k)
    /\ mem' = [mem EXCEPT !.cur = @ + EraseDelta(cur, k)]
    /\ UNCHANGED <<db, batch, root, open, writeFailed, up>>

CommitCurTransaction ==
    /\ open
    /\ open' = FALSE
    /\ root' = CommitTo(cur, root)
    /\ cur' = Empty
    /\ mem' = [root |-> mem.root + CommitDelta(cur, root), cur |-> 0]
    /\ UNCHANGED <<db, batch, writeFailed, up>>

\* Mutant: the destructor does not roll back.
RollbackForgotten ==
    /\ open
    /\ open' = FALSE
    /\ UNCHANGED <<db, batch, root, cur, mem, writeFailed, up>>

\* ~CEvoDBScopedCommitter() of a transaction nobody committed.
RollbackCurTransaction ==
    /\ open
    /\ open' = FALSE
    /\ cur' = Empty
    /\ mem' = [mem EXCEPT !.cur = 0]
    /\ UNCHANGED <<db, batch, root, writeFailed, up>>

\* Mutants of CommitRootTransaction: the exception of WriteBatch is swallowed;
\* rootBatch is cleared before the exception is passed on.
CommitRootSwallowsError ==
    /\ up /\ ~open
    /\ LET pending == CommitTo(root, batch) IN
        \/ /\ db' = View(pending, db)
           /\ batch' = Empty
        \/ /\ batch' = pending
           /\ UNCHANGED db
    /\ root' = Empty
    /\ mem' = [mem EXCEPT !.root = 0]
    /\ UNCHANGED <<cur, open, writeFailed, up>>

CommitRootDropsBatch ==
    /\ up /\ ~open
    /\ \/ /\ db' = View(CommitTo(root, batch), db)
          /\ writeFailed' = FALSE
       \/ /\ writeFailed' = TRUE
          /\ UNCHANGED db
    /\ batch' = Empty
    /\ root' = Empty
    /\ mem' = [mem EXCEPT !.root = 0]
    /\ UNCHANGED <<cur, open, up>>

\* The callers of CommitRootTransaction hold no transaction (the method
\* asserts that cur is clean).  WriteBatch either applies the whole batch or
\* throws; when it throws, rootBatch is not cleared, and the next flush appends
\* to it and tries again.
CommitRootTransaction ==
    /\ up /\ ~open
    /\ LET pending == CommitTo(root, batch) IN
        \/ /\ db' = View(pending, db)
           /\ batch' = Empty
           /\ writeFailed' = FALSE
        \/ /\ batch' = pending
           /\ writeFailed' = TRUE
           /\ UNCHANGED db
    /\ root' = Empty
    /\ mem' = [mem EXCEPT !.root = 0]
    /\ UNCHANGED <<cur, open, up>>

\* GetRawDB().Write.  The upgrades at start-up write keys that transactions write
\* too.  They run after the root transaction was committed and hold no
\* transaction; all that was written since is the best block's key, which they
\* do not write: no layer holds a key they write.
RawWrite(k, v) ==
    /\ up
    /\ k \in Key => ~open /\ k \notin Touched(root) \cup Touched(batch)
    /\ db' = [db EXCEPT ![k] = v]
    /\ UNCHANGED <<batch, root, cur, mem, open, writeFailed, up>>

\* GetRawDB().Erase, of the best block's key in the old format.
RawErase(k) ==
    /\ up
    /\ db' = [db EXCEPT ![k] = NoVal]
    /\ UNCHANGED <<batch, root, cur, mem, open, writeFailed, up>>

\* The process dies, with what is only in memory ...
Crash ==
    /\ up /\ up' = FALSE
    /\ batch' = Empty
    /\ root' = Empty
    /\ cur' = Empty
    /\ mem' = [root |-> 0, cur |-> 0]
    /\ open' = FALSE
    /\ writeFailed' = FALSE
    /\ UNCHANGED db

\* ... and CEvoDB is constructed again.
Restart ==
    /\ ~up /\ up' = TRUE
    /\ UNCHANGED <<db, batch, root, cur, mem, open, writeFailed>>

Next ==
    \/ BeginTransaction
    \/ \E k \in Key, v \in Val : WriteCur(k, v)
    \/ \E k \in Key : EraseCur(k)
    \/ CommitCurTransaction
    \/ RollbackCurTransaction
    \/ CommitRootTransaction
    \/ \E k \in AllKey, v \in Val : RawWrite(k, v)
    \/ \E k \in RawKey : RawErase(k)
    \/ Crash
    \/ Restart

Spec == Init /\ [][Next]_vars

----------------------------------------------------------------------------
(* Properties *)

\* What the two layers and an unwritten batch add up to.
Committed == View(root, View(batch, db))
Working == View(cur, Committed)

Store == INSTANCE TxStore
    WITH Key <- AllKey, working <- Working, committed <- Committed, durable <- db

\* The layered database implements the transactional store: a rollback leaves
\* no trace, a commit is all or nothing, erased keys stay erased through both
\* commits, the upgrades' raw writes are not shadowed by a layer, and only a
\* crash loses what is not durable: a failed WriteBatch keeps it all in
\* rootBatch, below what later transactions commit.
StoreSpec == Store!Spec

\* A key is never both written and deleted in a layer (Write and Erase keep
\* the two containers apart; the iterator and Commit rely on it).
LayersDisjoint ==
    \A t \in {batch, root, cur} : Written(t) \cap t.deletes = {}

\* GetMemoryUsage is exact: the incremental accounting of Write, Erase and
\* Commit equals the size of what the layer holds.  FlushStateToDisk decides
\* from it whether the evodb cache is too large.
MemoryUsageExact == mem.root = Total(Size(root), Key) /\ mem.cur = Total(Size(cur), Key)

\* What CEvoDB::Read returns: curDBTransaction, rootDBTransaction, leveldb.
Reads == View(cur, View(root, db))

\* CEvoDB::Read does not look into rootBatch.  It is right all the same, as long
\* as no WriteBatch has thrown; from then on until one succeeds, a key may read
\* as it is on disk, older than what was committed.
ReadsAreCurrent ==
    \A k \in AllKey : Reads[k] = Working[k] \/ (writeFailed /\ Reads[k] = db[k])

=============================================================================
