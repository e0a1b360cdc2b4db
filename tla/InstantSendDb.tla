---------------------------- MODULE InstantSendDb ----------------------------
(***************************************************************************)
(* The store of InstantSend locks (CInstantSendDb, llmq/instantsend.cpp)   *)
(* as operators on its state, a record.  The leveldb keys are              *)
(*   islocks     DB_ISLOCK_BY_HASH                                         *)
(*   byTxid      DB_HASH_BY_TXID                                           *)
(*   byOutpoint  DB_HASH_BY_OUTPOINT                                       *)
(*   mined       DB_MINED_BY_HEIGHT_AND_HASH, pairs <<height, lock>>       *)
(*   archived    DB_ARCHIVED_BY_HASH                                       *)
(*   archivedAt  DB_ARCHIVED_BY_HEIGHT_AND_HASH, pairs <<height, lock>>    *)
(* and the members in memory are the three LRU caches and                  *)
(* best_confirmed_height.  Every method runs under cs_db and ends in at    *)
(* most one batch, so that each is one operator here.  A lock stands for   *)
(* its own hash.                                                           *)
(***************************************************************************)
EXTENDS Naturals, FiniteSets

CONSTANTS Tx,             \* transactions
          Outpoint,       \* what they spend
          Lock,           \* InstantSend locks
          Inputs,         \* [Tx -> SUBSET Outpoint], a transaction's vin
          Creator,        \* [Outpoint -> Tx \cup {None}], whose output it is
          TxOf,           \* [Lock -> Tx], islock.txid
          Deterministic,  \* the locks with a cycleHash
          MaxHeight,      \* heights of blocks are 0 .. MaxHeight
          None            \* a null hash or pointer, a missing key

\* Two locks of one transaction are its non-deterministic and its
\* deterministic one: BLS signatures are unique, and of two deterministic
\* ones the second is not stored.
ASSUME DbAssumption ==
    /\ MaxHeight \in Nat
    /\ Inputs \in [Tx -> SUBSET Outpoint]
    /\ Creator \in [Outpoint -> Tx \cup {None}]
    /\ TxOf \in [Lock -> Tx]
    /\ Deterministic \subseteq Lock
    /\ None \notin Tx /\ None \notin Lock
    /\ \A t \in Tx : Inputs[t] # {}
    /\ \A k, l \in Lock \ Deterministic : TxOf[k] = TxOf[l] => k = l

InputsOf(l) == Inputs[TxOf[l]]

Conflict(s, t) == s # t /\ Inputs[s] \cap Inputs[t] # {}

Db == [islocks       : SUBSET Lock,
       byTxid        : [Tx -> Lock \cup {None}],
       byOutpoint    : [Outpoint -> Lock \cup {None}],
       mined         : SUBSET ((0 .. MaxHeight) \X Lock),
       archived      : SUBSET Lock,
       archivedAt    : SUBSET ((0 .. MaxHeight) \X Lock),
       confirmed     : 0 .. MaxHeight,
       islockCache   : [Lock -> {"unknown", "absent", "present"}],
       txidCache     : [Tx -> Lock \cup {None}],
       outpointCache : [Outpoint -> Lock \cup {None}]]

NoCaches(d) ==
    [d EXCEPT !.confirmed     = 0,
              !.islockCache   = [l \in Lock |-> "unknown"],
              !.txidCache     = [t \in Tx |-> None],
              !.outpointCache = [o \in Outpoint |-> None]]

EmptyDb ==
    [islocks       |-> {},
     byTxid        |-> [t \in Tx |-> None],
     byOutpoint    |-> [o \in Outpoint |-> None],
     mined         |-> {},
     archived      |-> {},
     archivedAt    |-> {},
     confirmed     |-> 0,
     islockCache   |-> [l \in Lock |-> "unknown"],
     txidCache     |-> [t \in Tx |-> None],
     outpointCache |-> [o \in Outpoint |-> None]]

-----------------------------------------------------------------------------
(* Reads.  What a read puts into a cache is the step CacheRead below, which *)
(* any thread may take at any time.                                        *)

GetInstantSendLockByHash(d, l) ==
    IF /\ l # None
       /\ \/ d.islockCache[l] = "present"
          \/ d.islockCache[l] = "unknown" /\ l \in d.islocks
      THEN l
      ELSE None

GetInstantSendLockHashByTxid(d, t) ==
    IF d.txidCache[t] # None THEN d.txidCache[t] ELSE d.byTxid[t]

GetInstantSendLockByTxid(d, t) ==
    GetInstantSendLockByHash(d, GetInstantSendLockHashByTxid(d, t))

GetInstantSendLockByInput(d, o) ==
    GetInstantSendLockByHash(d,
        IF d.outpointCache[o] # None THEN d.outpointCache[o] ELSE d.byOutpoint[o])

KnownInstantSendLock(d, l) ==
    GetInstantSendLockByHash(d, l) # None \/ l \in d.archived

IsLocked(d, t) == KnownInstantSendLock(d, GetInstantSendLockHashByTxid(d, t))

\* The locks of other transactions that t's inputs meet.
GetConflictingLock(d, t) ==
    {l \in Lock : TxOf[l] # t /\ \E o \in Inputs[t] : GetInstantSendLockByInput(d, o) = l}

\* A read fills the cache it missed; a full cache forgets an entry.
CacheIslock(d, l) ==
    [d EXCEPT !.islockCache[l] = IF l \in d.islocks THEN "present" ELSE "absent"]

CacheTxid(d, t) == [d EXCEPT !.txidCache[t] = d.byTxid[t]]

CacheOutpoint(d, o) == [d EXCEPT !.outpointCache[o] = d.byOutpoint[o]]

-----------------------------------------------------------------------------
(* Writes. *)

\* Mutant: the cache entry that says the lock is absent is left as it is.
WriteNewKeepsIslockCache(d, l) ==
    [d EXCEPT !.islocks        = @ \cup {l},
              !.byTxid[TxOf[l]] = l,
              !.byOutpoint     = [o \in Outpoint |-> IF o \in InputsOf(l) THEN l ELSE @[o]],
              !.txidCache[TxOf[l]] = l,
              !.outpointCache  = [o \in Outpoint |-> IF o \in InputsOf(l) THEN l ELSE @[o]]]

WriteNewInstantSendLock(d, l) ==
    [d EXCEPT !.islocks        = @ \cup {l},
              !.byTxid[TxOf[l]] = l,
              !.byOutpoint     = [o \in Outpoint |-> IF o \in InputsOf(l) THEN l ELSE @[o]],
              !.islockCache[l] = "present",
              !.txidCache[TxOf[l]] = l,
              !.outpointCache  = [o \in Outpoint |-> IF o \in InputsOf(l) THEN l ELSE @[o]]]

\* RemoveInstantSendLock for each lock of R, all of them in the database.
EraseKeys(d, R) ==
    [d EXCEPT !.islocks    = @ \ R,
              !.byTxid     = [t \in Tx |-> IF \E l \in R : TxOf[l] = t THEN None ELSE @[t]],
              !.byOutpoint = [o \in Outpoint |-> IF \E l \in R : o \in InputsOf(l) THEN None ELSE @[o]]]

\* The part of RemoveInstantSendLock for keep_cache = false.
EraseCaches(d, R) ==
    [d EXCEPT
        !.islockCache   = [l \in Lock |-> IF l \in R THEN "unknown" ELSE @[l]],
        !.txidCache     = [t \in Tx |-> IF \E l \in R : TxOf[l] = t THEN None ELSE @[t]],
        !.outpointCache = [o \in Outpoint |-> IF \E l \in R : o \in InputsOf(l) THEN None ELSE @[o]]]

Archive(d, R, h) ==
    [d EXCEPT !.archived = @ \cup R, !.archivedAt = @ \cup ({h} \X R)]

RemoveAndArchiveInstantSendLock(d, l, h) ==
    Archive(EraseCaches(EraseKeys(d, {l}), {l}), {l}, h)

\* The stored locks that spend an output of T, found through byOutpoint, and
\* those that spend an output of a transaction they lock, and so on: the
\* least set that has all its children.
Children(d, T) ==
    {l \in d.islocks : \E o \in Outpoint : Creator[o] \in T /\ d.byOutpoint[o] = l}

Chained(d, T) ==
    {l \in d.islocks : \A S \in SUBSET d.islocks :
                          Children(d, T \cup {TxOf[k] : k \in S}) \subseteq S => l \in S}

\* For each lock of L.  One that is no longer in the database is looked for
\* without the cache, is remembered as absent and leaves its cached indexes
\* behind.
RemoveChainedInstantSendLocks(d, L, h) ==
    LET chained == Chained(d, {TxOf[l] : l \in L})
        R       == chained \cup (L \cap d.islocks)
    IN  [Archive(EraseCaches(EraseKeys(d, R), R), chained \cup L, h) EXCEPT
            !.islockCache = [l \in Lock |-> IF l \in L \ d.islocks THEN "absent" ELSE @[l]]]

WriteInstantSendLockMined(d, l, h) == [d EXCEPT !.mined = @ \cup {<<h, l>>}]

\* WriteBlockInstantSendLocks and RemoveBlockInstantSendLocks for a block at
\* height h with the transactions T.
MinedKeys(d, T, h) ==
    {<<h, l>> : l \in {GetInstantSendLockHashByTxid(d, t) : t \in T} \ {None}}

WriteBlockInstantSendLocks(d, T, h) == [d EXCEPT !.mined = @ \cup MinedKeys(d, T, h)]

RemoveBlockInstantSendLocks(d, T, h) == [d EXCEPT !.mined = @ \ MinedKeys(d, T, h)]

\* The locks mined up to height h leave the database, but not the caches.
ConfirmedKeys(d, h) == {k \in d.mined : k[1] <= h}

RemoveConfirmedInstantSendLocks(d, h) ==
    LET keys == ConfirmedKeys(d, h)
        R    == {k[2] : k \in keys}
    IN  IF h <= d.confirmed
          THEN d
          ELSE [EraseKeys(d, R \cap d.islocks) EXCEPT
                    !.confirmed   = h,
                    !.mined       = @ \ keys,
                    !.archived    = @ \cup R,
                    !.archivedAt  = @ \cup keys,
                    !.islockCache = [l \in Lock |->
                        IF l \notin R THEN @[l]
                        ELSE IF l \in d.islocks THEN "present" ELSE "absent"]]

\* Until a height that is negative for a young chain: until > 0 is the guard.
RemoveArchivedInstantSendLocks(d, h, keep) ==
    LET keys == {k \in d.archivedAt : k[1] + keep <= h}
    IN  IF h <= keep
          THEN d
          ELSE [d EXCEPT !.archivedAt = @ \ keys,
                         !.archived   = @ \ {k[2] : k \in keys}]

=============================================================================
