----------------------------- MODULE InstantSend -----------------------------
(***************************************************************************)
(* One node's InstantSend locks (CInstantSendManager, llmq/instantsend.cpp)*)
(* between the threads that touch them:                                    *)
(*   - the message thread takes in locks and transactions;                 *)
(*   - validation (any thread that holds cs_main) accepts transactions to  *)
(*     the mempool and changes the active chain, and queues notifications; *)
(*   - the scheduler thread runs the queued notifications one by one;      *)
(*   - the "isman" worker thread processes the pending locks.              *)
(* A step is what happens between two releases of a lock that another      *)
(* thread may be waiting for (cs_main with mempool.cs, cs, cs_db).         *)
(* The node is not a masternode: what it would sign is in module Signing.  *)
(***************************************************************************)
EXTENDS InstantSendDb, Sequences

CONSTANTS Block, Genesis,
          Parent,        \* [Block -> Block]
          Height,        \* [Block -> 0 .. MaxHeight]
          Content,       \* [Block -> Seq(Tx)], pblock->vtx without the coinbase
          KeepArchived,  \* the 100 blocks an archived lock is remembered
          MaxQueue       \* notifications waiting at a time (a bound)

\* The quorums lock at most one of two transactions that spend the same
\* coin; the store does not refuse a second one.
ASSUME OneLockPerCoin ==
    \A k, l \in Lock : TxOf[k] = TxOf[l] \/ InputsOf(k) \cap InputsOf(l) = {}

ASSUME ChainAssumption ==
    /\ Genesis \in Block
    /\ None \notin Block
    /\ Parent \in [Block -> Block]
    /\ Height \in [Block -> 0 .. MaxHeight]
    /\ Content \in [Block -> Seq(Tx)]
    /\ KeepArchived \in Nat
    /\ MaxQueue \in Nat

VARIABLES tip,        \* ::ChainActive().Tip()
          failed,     \* blocks marked BLOCK_FAILED_VALID
          chainLock,  \* the block of the best ChainLock, or None
          announced,  \* the last block NotifyChainLock was sent for
          mempool,    \* transactions of the mempool
          atmp,       \* a transaction past AcceptToMemoryPool's checks, or None
          txindex,    \* the block the transaction index names
          queue,      \* notifications for the scheduler thread
          cb,         \* where the notification at the head of queue stands
          pending,    \* pendingInstantSendLocks
          noTx,       \* pendingNoTxInstantSendLocks
          nonLocked,  \* nonLockedTxs and nonLockedTxsByOutpoints
          db,         \* the CInstantSendDb
          worker,     \* ProcessInstantSendLock on the worker thread
          rivalBlocks \* the blocks ResolveBlockConflicts goes through

chainVars == <<tip, failed, chainLock, announced, txindex>>
poolVars  == <<mempool, atmp>>
isVars    == <<pending, noTx, nonLocked>>
vars == <<chainVars, poolVars, queue, cb, isVars, db, worker, rivalBlocks>>

-----------------------------------------------------------------------------
(* Blocks and transactions. *)

\* b and the blocks before it: the least set with b and the parents of its
\* members.
Chain ==
    [b \in Block |-> {c \in Block : \A S \in SUBSET Block :
                        b \in S /\ (\A x \in S \ {Genesis} : Parent[x] \in S) => c \in S}]

Txs(b) == {Content[b][i] : i \in DOMAIN Content[b]}

ChainTxs(b) == {t \in Tx : \E c \in Chain[b] : t \in Txs(c)}

HasChainLock(b) == chainLock # None /\ b \in Chain[chainLock]

\* A branch that a known ChainLock rules out.
Conflicting(b) == chainLock # None /\ chainLock \notin Chain[b] /\ b \notin Chain[chainLock]

Descendants(b) == {c \in Block : b \in Chain[c]}

\* cs_main and mempool.cs are free.
Free == atmp = None

-----------------------------------------------------------------------------
(* nonLockedTxs: what is known and not locked, with the children seen so   *)
(* far; an entry without its transaction (tx = FALSE) only holds children. *)

Parents(t) == {Creator[o] : o \in Inputs[t]} \ {None}

NoEntry == [known |-> FALSE, tx |-> FALSE, mined |-> None, children |-> {}]

NothingTracked == [txs |-> [t \in Tx |-> NoEntry], byOutpoint |-> [o \in Outpoint |-> None]]

\* AddNonLockedTx: an entry that exists only has its block changed.
Track(n, t, b) ==
    IF n.txs[t].known
      THEN [n EXCEPT !.txs[t].mined = b]
      ELSE [txs |-> [s \in Tx |->
                        IF s = t THEN [known |-> TRUE, tx |-> TRUE, mined |-> b, children |-> {}]
                        ELSE IF s \in Parents(t)
                          THEN [n.txs[s] EXCEPT !.known = TRUE, !.children = @ \cup {t}]
                          ELSE n.txs[s]],
            byOutpoint |-> [o \in Outpoint |->
                        IF o \in Inputs[t] /\ n.byOutpoint[o] = None THEN t ELSE n.byOutpoint[o]]]

\* RemoveNonLockedTx for the transactions T.  The outpoints go whichever
\* transaction they name, and an entry that only held children of T goes too.
Untrack(T, n) ==
    LET spenders == {t \in T : n.txs[t].tx}
        gone(s)  == {t \in spenders : s \in Parents(t)}
        empty(s) == gone(s) # {} /\ ~n.txs[s].tx /\ n.txs[s].children \subseteq gone(s)
    IN  [txs |-> [s \in Tx |-> IF s \in T \/ empty(s)
                                 THEN NoEntry
                                 ELSE [n.txs[s] EXCEPT !.children = @ \ gone(s)]],
         byOutpoint |-> [o \in Outpoint |->
                            IF \E t \in spenders : o \in Inputs[t] THEN None ELSE n.byOutpoint[o]]]

\* A lock that waits for t goes back to pendingInstantSendLocks, one of them.
Waiting(t) == {l \in noTx : TxOf[l] = t}

MoveToPending(l) ==
    /\ noTx' = noTx \ {l}
    /\ pending' = pending \cup {l}

-----------------------------------------------------------------------------
(* Notifications and the mempool. *)

\* What is queued at one time: notifications for the transactions T, or for
\* the blocks S, which the conflicting transactions T left the mempool for.
Note(kind, T, S) ==
    IF T \cup S = {} THEN <<>> ELSE <<[kind |-> kind, txs |-> T, blocks |-> S]>>

\* Whether t may stand in a mempool of the transactions P on the chain of b.
Spendable(t, b, P) ==
    /\ t \notin ChainTxs(b)
    /\ \A s \in ChainTxs(b) : ~Conflict(s, t)
    /\ Parents(t) \subseteq ChainTxs(b) \cup P

\* The largest part of T in which every transaction has its parents, where
\* not in P.
Closed(T, P) ==
    UNION {S \in SUBSET T : \A t \in S : Parents(t) \subseteq S \cup P}

\* removeRecursive of the transactions T: they and their descendants.
WithDescendants(T) == mempool \ Closed(mempool \ T, ChainTxs(tip))

\* The mempool after the chain moved from tip to b: transactions of the new
\* blocks leave, what conflicts with them is removed, and those of the old
\* blocks are accepted again where AcceptToMemoryPool takes them.
PoolAfter(b, d) ==
    Closed({t \in (mempool \cup ChainTxs(tip)) \ ChainTxs(b) :
                /\ \A s \in ChainTxs(b) : ~Conflict(s, t)
                /\ t \notin mempool => GetConflictingLock(d, t) = {}},
           ChainTxs(b))

\* The chain moves to b with its notifications in the order of ConnectTip,
\* DisconnectTip, UpdateMempoolForReorg and ActivateBestChain.
MoveTip(b, d) ==
    LET pool       == PoolAfter(b, d)
        removed    == mempool \ (pool \cup ChainTxs(b))
        conflicted == WithDescendants({t \in mempool : \E s \in ChainTxs(b) : Conflict(s, t)})
    IN  /\ tip' = b
        /\ mempool' = pool
        /\ queue' = queue \o Note("disconnected", {}, Chain[tip] \ Chain[b])
                          \o Note("removed", removed, {})
                          \o Note("added", pool \ mempool, {})
                          \o (IF b \in Chain[tip] THEN <<>>
                              ELSE Note("connected", conflicted, Chain[b] \ Chain[tip]))

-----------------------------------------------------------------------------
(* Validation, under cs_main. *)

Enqueue(notes) == queue' = queue \o notes

Bounded == Len(queue') <= MaxQueue

\* What AcceptToMemoryPool does after its check against the stored locks: a
\* transaction that a lock waits for drives out what conflicts with it, even
\* when its inputs are then found missing.
Admit(t) ==
    LET rivals == {s \in mempool : Conflict(s, t)}
        out    == WithDescendants(rivals)
        valid  == Spendable(t, tip, mempool \ out)
    IN  /\ Free
        /\ t \notin mempool
        /\ Waiting(t) # {} \/ rivals = {}
        /\ valid \/ rivals # {}
        /\ mempool' = mempool \ out
        /\ Enqueue(Note("removed", out, {}))
        /\ atmp' = IF valid THEN t ELSE None
        /\ Len(queue') < MaxQueue
        /\ UNCHANGED <<chainVars, cb, isVars, db, worker, rivalBlocks>>

\* Mutant: without the check against stored locks.
AcceptIgnoresLocks(t) == Admit(t)

AcceptToMemoryPool(t) == GetConflictingLock(db, t) = {} /\ Admit(t)

\* Still under the same cs_main and mempool.cs.
AddToMempool ==
    /\ ~Free
    /\ mempool' = mempool \cup {atmp}
    /\ Enqueue(Note("added", {atmp}, {}))
    /\ atmp' = None
    /\ UNCHANGED <<chainVars, cb, isVars, db, worker, rivalBlocks>>

\* RemoveConflictingLock
RemoveConflictingLock(d, L) == RemoveChainedInstantSendLocks(d, L, Height[tip])

\* A peer sends a transaction that is refused for a conflict: what ProcessMessage
\* then does is TransactionRemovedFromMempool on the message thread.
RefuseTx(t) ==
    LET l == GetInstantSendLockByTxid(db, t)
    IN  /\ Free
        /\ t \notin mempool \cup ChainTxs(tip)
        /\ txindex[t] = None
        /\ \/ GetConflictingLock(db, t) # {}
           \/ Waiting(t) = {} /\ \E s \in mempool : Conflict(s, t)
        /\ l # None
        /\ db' = RemoveConflictingLock(db, {l})
        /\ UNCHANGED <<chainVars, poolVars, queue, cb, isVars, worker, rivalBlocks>>

\* The blocks of b's branch that ConnectBlock refuses for a conflict with a
\* lock, and the locks it prunes because the block has a ChainLock.
NewBlocks(b) == Chain[b] \ Chain[tip]

\* Mutant: a lock refuses a block with a ChainLock too.
RejectedDespiteChainLock(b) ==
    {c \in NewBlocks(b) : \E t \in Txs(c) : GetConflictingLock(db, t) # {}}

Rejected(b) ==
    {c \in NewBlocks(b) : ~HasChainLock(c) /\ \E t \in Txs(c) : GetConflictingLock(db, t) # {}}

Pruned(b) == UNION {GetConflictingLock(db, t) : t \in UNION {Txs(c) : c \in NewBlocks(b)}}

ActivateBestChain(b) ==
    /\ Free
    /\ b # tip
    /\ Chain[b] \cap failed = {}
    /\ ~Conflicting(b)
    /\ Height[b] > Height[tip] \/ Conflicting(tip)
    /\ \/ /\ Rejected(b) # {}
          /\ failed' = failed \cup UNION {Descendants(c) : c \in Rejected(b)}
          /\ UNCHANGED <<tip, mempool, queue, db>>
       \/ /\ Rejected(b) = {}
          /\ db' = IF Pruned(b) = {} THEN db ELSE RemoveConflictingLock(db, Pruned(b))
          /\ MoveTip(b, db')
          /\ Bounded
          /\ failed' = failed
    /\ UNCHANGED <<chainLock, announced, txindex, atmp, cb, isVars, worker, rivalBlocks>>

\* A new best ChainLock, on a branch that has the last one.
NewChainLock(b) ==
    /\ b \notin {Genesis, chainLock}
    /\ chainLock = None \/ chainLock \in Chain[b]
    /\ chainLock' = b
    /\ UNCHANGED <<tip, failed, announced, txindex, poolVars, queue, cb, isVars, db, worker, rivalBlocks>>

\* EnforceBestChainLock, which the scheduler repeats: the failure flags of
\* the branch are reset, and once the block is in the active chain it is
\* announced.  Module ChainLocks has it in detail.
EnforceBestChainLock ==
    /\ chainLock # None
    /\ Free
    /\ \/ /\ chainLock \in failed
          /\ failed' = failed \ (Chain[chainLock] \cup Descendants(chainLock))
          /\ UNCHANGED <<announced, queue>>
       \/ /\ chainLock \in Chain[tip]
          /\ announced # chainLock
          /\ announced' = chainLock
          /\ Enqueue(Note("chainlock", {}, {chainLock}))
          /\ Bounded
          /\ failed' = failed
    /\ UNCHANGED <<tip, chainLock, txindex, poolVars, cb, isVars, db, worker, rivalBlocks>>

-----------------------------------------------------------------------------
(* Incoming locks. *)

\* ProcessMessageInstantSendLock
ProcessMessageInstantSendLock(l) ==
    /\ l \notin pending \cup noTx
    /\ ~KnownInstantSendLock(db, l)
    /\ pending' = pending \cup {l}
    /\ UNCHANGED <<chainVars, poolVars, queue, cb, noTx, nonLocked, db, worker, rivalBlocks>>

-----------------------------------------------------------------------------
(* The scheduler thread. *)

CbIdle == [step |-> "start", tx |-> None, block |-> None, lock |-> None, txs |-> <<>>]

Due(kind) == cb.step = "start" /\ queue # <<>> /\ Head(queue).kind = kind

\* The next transaction or block of the first note is taken, blocks in the
\* order in which they were connected or disconnected.
TakeTx(t) ==
    /\ t \in Head(queue).txs
    /\ queue' = Note(Head(queue).kind, Head(queue).txs \ {t}, {}) \o Tail(queue)

TakeBlock(b) ==
    LET note == Head(queue)
        left == note.blocks \ {b}
    IN  /\ b \in note.blocks
        /\ \A c \in left : IF note.kind = "disconnected" THEN Height[c] < Height[b]
                                                          ELSE Height[c] > Height[b]
        /\ queue' = (IF left = {} THEN <<>> ELSE Note(note.kind, note.txs, left)) \o Tail(queue)

\* AddNonLockedTx
AddNonLockedTx(t, b) ==
    /\ nonLocked' = Track(nonLocked, t, b)
    /\ IF Waiting(t) = {} THEN UNCHANGED <<pending, noTx>>
                          ELSE \E l \in Waiting(t) : MoveToPending(l)

\* The transactions that RemoveMempoolConflictsForLock takes out.
Swept(l) == WithDescendants({s \in mempool : Conflict(s, TxOf[l])})

SweepMempool(l) ==
    /\ Free
    /\ mempool' = mempool \ Swept(l)
    /\ nonLocked' = Untrack({s \in mempool : Conflict(s, TxOf[l])}, nonLocked)
    /\ Enqueue(Note("removed", Swept(l), {}))

TransactionAddedToMempool(t) ==
    /\ Due("added")
    /\ TakeTx(t)
    /\ \/ /\ Waiting(t) = {}
          /\ cb' = [cb EXCEPT !.step = "track", !.tx = t]
          /\ UNCHANGED <<pending, noTx>>
       \/ \E l \in Waiting(t) :
              /\ MoveToPending(l)
              /\ cb' = [cb EXCEPT !.step = "sweep", !.lock = l]
    /\ UNCHANGED <<chainVars, poolVars, nonLocked, db, worker, rivalBlocks>>

AddedTrack ==
    /\ cb.step = "track"
    /\ AddNonLockedTx(cb.tx, None)
    /\ cb' = CbIdle
    /\ UNCHANGED <<chainVars, poolVars, queue, db, worker, rivalBlocks>>

AddedSweep ==
    /\ cb.step = "sweep"
    /\ SweepMempool(cb.lock)
    /\ cb' = CbIdle
    /\ UNCHANGED <<chainVars, atmp, pending, noTx, db, worker, rivalBlocks>>

TransactionRemovedFromMempool(t) ==
    LET l == GetInstantSendLockByTxid(db, t)
    IN  /\ Due("removed")
        /\ TakeTx(t)
        /\ Free
        /\ db' = IF l = None THEN db ELSE RemoveConflictingLock(db, {l})
        /\ UNCHANGED <<chainVars, poolVars, cb, isVars, worker, rivalBlocks>>

BlockConnected(b) ==
    /\ Due("connected")
    /\ TakeBlock(b)
    /\ nonLocked' = Untrack(Head(queue).txs, nonLocked)
    /\ cb' = [cb EXCEPT !.step = "txs", !.block = b, !.txs = Content[b]]
    /\ UNCHANGED <<chainVars, poolVars, pending, noTx, db, worker, rivalBlocks>>

\* Mutant: the block's ChainLock is not asked for.
ConnectedTxIgnoresChainLock ==
    /\ cb.step = "txs"
    /\ cb.txs # <<>>
    /\ cb' = [cb EXCEPT !.step = IF IsLocked(db, Head(cb.txs)) THEN "locked" ELSE "unlocked"]
    /\ UNCHANGED <<chainVars, poolVars, queue, isVars, db, worker, rivalBlocks>>

\* The next transaction of the block: whether it is locked is read first.
ConnectedTx ==
    /\ cb.step = "txs"
    /\ cb.txs # <<>>
    /\ cb' = [cb EXCEPT !.step = IF IsLocked(db, Head(cb.txs)) \/ HasChainLock(cb.block)
                                  THEN "locked" ELSE "unlocked"]
    /\ UNCHANGED <<chainVars, poolVars, queue, isVars, db, worker, rivalBlocks>>

ConnectedTrack ==
    /\ \/ /\ cb.step = "unlocked"
          /\ AddNonLockedTx(Head(cb.txs), cb.block)
       \/ /\ cb.step = "locked"
          /\ nonLocked' = Untrack({Head(cb.txs)}, nonLocked)
          /\ UNCHANGED <<pending, noTx>>
    /\ cb' = [cb EXCEPT !.step = "txs", !.txs = Tail(@)]
    /\ UNCHANGED <<chainVars, poolVars, queue, db, worker, rivalBlocks>>

\* WriteBlockInstantSendLocks, and then the transaction index in its turn.
ConnectedEnd ==
    LET b == cb.block
    IN  /\ cb.step = "txs"
        /\ cb.txs = <<>>
        /\ db' = WriteBlockInstantSendLocks(db, Txs(b), Height[b])
        /\ txindex' = [t \in Tx |-> IF t \in Txs(b) THEN b ELSE txindex[t]]
        /\ cb' = CbIdle
        /\ UNCHANGED <<tip, failed, chainLock, announced, poolVars, queue, isVars, worker, rivalBlocks>>

BlockDisconnected(b) ==
    /\ Due("disconnected")
    /\ TakeBlock(b)
    /\ db' = RemoveBlockInstantSendLocks(db, Txs(b), Height[b])
    /\ UNCHANGED <<chainVars, poolVars, cb, isVars, worker, rivalBlocks>>

\* NotifyChainLock: HandleFullyConfirmedBlock, first cs_db and then cs.
HandleFullyConfirmedBlock(b) ==
    /\ Due("chainlock")
    /\ TakeBlock(b)
    /\ db' = RemoveConfirmedInstantSendLocks(db, Height[b])
    /\ cb' = [cb EXCEPT !.step = "cleanup", !.block = b]
    /\ UNCHANGED <<chainVars, poolVars, isVars, worker, rivalBlocks>>

ConfirmedCleanup ==
    LET b == cb.block
    IN  /\ cb.step = "cleanup"
        /\ db' = RemoveArchivedInstantSendLocks(db, Height[b], KeepArchived)
        /\ nonLocked' = Untrack({t \in Tx : nonLocked.txs[t].mined \in Chain[b]}, nonLocked)
        /\ cb' = CbIdle
        /\ UNCHANGED <<chainVars, poolVars, queue, pending, noTx, worker, rivalBlocks>>

-----------------------------------------------------------------------------
(* The worker thread: ProcessPendingInstantSendLocks takes a lock out of   *)
(* the pending ones and ProcessInstantSendLock goes through these steps.   *)

Asleep == [pc |-> "idle", lock |-> None, tx |-> None, mined |-> None]

ProcessPendingInstantSendLocks(l) ==
    /\ worker.pc = "idle"
    /\ l \in pending
    /\ pending' = pending \ {l}
    /\ worker' = [worker EXCEPT !.pc = "lookup", !.lock = l]
    /\ UNCHANGED <<chainVars, poolVars, queue, cb, noTx, nonLocked, db, rivalBlocks>>

\* A known lock is dropped, and so is one whose transaction the transaction
\* index finds in a block with a ChainLock.
LookupTx ==
    LET l == worker.lock
        t == TxOf[l]
        b == IF t \in mempool THEN None ELSE txindex[t]
    IN  /\ worker.pc = "lookup"
        /\ Free
        /\ worker' = IF KnownInstantSendLock(db, l) \/ (b # None /\ HasChainLock(b))
                       THEN Asleep
                       ELSE [worker EXCEPT !.pc    = "same",
                                           !.tx    = IF t \in mempool \/ b # None THEN t ELSE None,
                                           !.mined = b]
        /\ UNCHANGED <<chainVars, poolVars, queue, cb, isVars, db, rivalBlocks>>

\* A deterministic lock replaces the other one of its transaction.
CheckSameTx ==
    LET l    == worker.lock
        same == GetInstantSendLockByTxid(db, TxOf[l])
    IN  /\ worker.pc = "same"
        /\ worker' = IF same \in Deterministic THEN Asleep
                                               ELSE [worker EXCEPT !.pc = "store"]
        /\ db' = IF same # None /\ same \notin Deterministic /\ l \in Deterministic
                   THEN RemoveAndArchiveInstantSendLock(db, same, Height[tip])
                   ELSE db
        /\ UNCHANGED <<chainVars, poolVars, queue, cb, isVars, rivalBlocks>>

StoreLock ==
    LET l == worker.lock
    IN  /\ worker.pc = "store"
        /\ worker' = [worker EXCEPT !.pc = IF worker.mined # None THEN "mine" ELSE "untrack"]
        /\ IF worker.tx # None
             THEN db' = WriteNewInstantSendLock(db, l) /\ noTx' = noTx
             ELSE db' = db /\ noTx' = noTx \cup {l}
        /\ UNCHANGED <<chainVars, poolVars, queue, cb, pending, nonLocked, rivalBlocks>>

StoreMined ==
    /\ worker.pc = "mine"
    /\ db' = WriteInstantSendLockMined(db, worker.lock, Height[worker.mined])
    /\ worker' = [worker EXCEPT !.pc = "untrack", !.mined = None]
    /\ UNCHANGED <<chainVars, poolVars, queue, cb, isVars, rivalBlocks>>

UntrackLocked ==
    /\ worker.pc = "untrack"
    /\ nonLocked' = Untrack({TxOf[worker.lock]}, nonLocked)
    /\ worker' = [worker EXCEPT !.pc = "resolve"]
    /\ UNCHANGED <<chainVars, poolVars, queue, cb, pending, noTx, db, rivalBlocks>>

\* ResolveBlockConflicts: blocks of tracked transactions that spend an input
\* of the lock.
MinedRivals(l) ==
    {s \in Tx : /\ s # TxOf[l]
                /\ \E o \in InputsOf(l) : nonLocked.byOutpoint[o] = s
                /\ nonLocked.txs[s].tx
                /\ nonLocked.txs[s].mined # None}

CollectConflicts ==
    LET blocks == {nonLocked.txs[s].mined : s \in MinedRivals(worker.lock)}
    IN  /\ worker.pc = "resolve"
        /\ worker' = [worker EXCEPT !.pc = IF blocks = {} THEN "sweep" ELSE "judge"]
        /\ rivalBlocks' = blocks
        /\ UNCHANGED <<chainVars, poolVars, queue, cb, isVars, db>>

\* A ChainLock on one of the blocks prunes the lock; otherwise the blocks
\* are going to be invalidated.
JudgeConflicts ==
    /\ worker.pc = "judge"
    /\ \/ /\ \E b \in rivalBlocks : HasChainLock(b)
          /\ Free
          /\ db' = RemoveConflictingLock(db, {worker.lock})
          /\ worker' = [worker EXCEPT !.pc = "sweep"]
          /\ rivalBlocks' = {}
       \/ /\ \A b \in rivalBlocks : ~HasChainLock(b)
          /\ db' = db
          /\ worker' = [worker EXCEPT !.pc = "invalidate"]
          /\ rivalBlocks' = rivalBlocks
    /\ UNCHANGED <<chainVars, poolVars, queue, cb, isVars>>

\* InvalidateBlock; without the locked transaction the flags are reset, so
\* that the block may come back.
InvalidateBlock(b) ==
    LET known == worker.lock \notin noTx
        rest  == rivalBlocks \ {b}
    IN  /\ worker.pc = "invalidate"
        /\ b \in rivalBlocks
        /\ Free
        /\ nonLocked' = Untrack({s \in Tx : nonLocked.txs[s].mined = b
                                               /\ Conflict(s, TxOf[worker.lock])}, nonLocked)
        /\ failed' = IF known THEN failed \cup Descendants(b)
                              ELSE failed \ (Chain[b] \cup Descendants(b))
        /\ IF b \in Chain[tip] THEN MoveTip(Parent[b], db)
                               ELSE UNCHANGED <<tip, mempool, queue>>
        /\ worker' = [worker EXCEPT !.pc = IF rest = {} THEN "sweep" ELSE @]
        /\ rivalBlocks' = rest
        /\ UNCHANGED <<chainLock, announced, txindex, atmp, cb, pending, noTx, db>>

WorkerSweep ==
    /\ worker.pc = "sweep"
    /\ IF worker.tx # None
         THEN SweepMempool(worker.lock)
         ELSE UNCHANGED <<mempool, nonLocked, queue>>
    /\ worker' = Asleep
    /\ UNCHANGED <<chainVars, atmp, cb, pending, noTx, db, rivalBlocks>>

-----------------------------------------------------------------------------
\* Any thread may read the store, which fills a cache it misses, and a full
\* cache drops an entry.
CacheRead ==
    /\ \/ \E l \in Lock : db.islockCache[l] = "unknown" /\ db' = CacheIslock(db, l)
       \/ \E t \in Tx : db.txidCache[t] = None /\ db' = CacheTxid(db, t)
       \/ \E o \in Outpoint : db.outpointCache[o] = None /\ db' = CacheOutpoint(db, o)
    /\ UNCHANGED <<chainVars, poolVars, queue, cb, isVars, worker, rivalBlocks>>

CacheEvict ==
    /\ \/ \E l \in Lock : db.islockCache[l] # "unknown" /\ db' = [db EXCEPT !.islockCache[l] = "unknown"]
       \/ \E t \in Tx : db.txidCache[t] # None /\ db' = [db EXCEPT !.txidCache[t] = None]
       \/ \E o \in Outpoint : db.outpointCache[o] # None /\ db' = [db EXCEPT !.outpointCache[o] = None]
    /\ UNCHANGED <<chainVars, poolVars, queue, cb, isVars, worker, rivalBlocks>>

\* The process dies and starts again: the databases and the block index are
\* what is left.
Crash ==
    /\ db' = NoCaches(db)
    /\ mempool' = {} /\ atmp' = None
    /\ queue' = <<>> /\ cb' = CbIdle
    /\ pending' = {} /\ noTx' = {}
    /\ nonLocked' = NothingTracked
    /\ worker' = Asleep /\ rivalBlocks' = {}
    /\ chainLock' = None /\ announced' = None
    /\ UNCHANGED <<tip, failed, txindex>>

Init ==
    /\ tip = Genesis
    /\ failed = {}
    /\ chainLock = None
    /\ announced = None
    /\ mempool = {}
    /\ atmp = None
    /\ txindex = [t \in Tx |-> None]
    /\ queue = <<>>
    /\ cb = CbIdle
    /\ pending = {}
    /\ noTx = {}
    /\ nonLocked = NothingTracked
    /\ db = EmptyDb
    /\ worker = Asleep
    /\ rivalBlocks = {}

Validation ==
    \/ \E t \in Tx : AcceptToMemoryPool(t) \/ RefuseTx(t)
    \/ AddToMempool
    \/ \E b \in Block : ActivateBestChain(b) \/ NewChainLock(b)
    \/ EnforceBestChainLock

Scheduler ==
    \/ \E t \in Tx : TransactionAddedToMempool(t) \/ TransactionRemovedFromMempool(t)
    \/ AddedTrack \/ AddedSweep
    \/ \E b \in Block : BlockConnected(b) \/ BlockDisconnected(b) \/ HandleFullyConfirmedBlock(b)
    \/ ConnectedTx \/ ConnectedTrack \/ ConnectedEnd
    \/ ConfirmedCleanup

WorkThread ==
    \/ \E l \in Lock : ProcessPendingInstantSendLocks(l)
    \/ LookupTx \/ CheckSameTx \/ StoreLock \/ StoreMined
    \/ UntrackLocked \/ CollectConflicts \/ JudgeConflicts
    \/ \E b \in Block : InvalidateBlock(b)
    \/ WorkerSweep

Next ==
    \/ Validation
    \/ \E l \in Lock : ProcessMessageInstantSendLock(l)
    \/ Scheduler
    \/ WorkThread
    \/ CacheRead
    \/ CacheEvict
    \/ Crash

Spec == Init /\ [][Next]_vars

\* The scheduler thread goes on, who holds cs_main lets it go, and the scheduler
\* repeats EnforceBestChainLock, which activates the chain it finds not active.
\* That activation waits for a short queue and for cs_main, which others take
\* too.  Nothing is assumed of the worker thread.
Fairness ==
    /\ WF_vars(AddToMempool)
    /\ WF_vars(Scheduler)
    /\ SF_vars(EnforceBestChainLock)
    /\ SF_vars(\E b \in Block : chainLock \in Chain[b] /\ ActivateBestChain(b))

FairSpec == Spec /\ Fairness

-----------------------------------------------------------------------------
(* Properties. *)

TypeOK ==
    /\ tip \in Block
    /\ failed \subseteq Block
    /\ chainLock \in Block \cup {None}
    /\ announced \in Block \cup {None}
    /\ mempool \subseteq Tx
    /\ atmp \in Tx \cup {None}
    /\ txindex \in [Tx -> Block \cup {None}]
    /\ queue \in Seq([kind : {"added", "removed", "connected", "disconnected", "chainlock"},
                       txs : SUBSET Tx, blocks : SUBSET Block])
    /\ pending \subseteq Lock
    /\ noTx \subseteq Lock
    /\ nonLocked \in [txs : [Tx -> [known : BOOLEAN, tx : BOOLEAN, mined : Block \cup {None},
                                     children : SUBSET Tx]],
                       byOutpoint : [Outpoint -> Tx \cup {None}]]
    /\ cb \in [step : {"start", "track", "sweep", "txs", "locked", "unlocked", "cleanup"},
               tx : Tx \cup {None}, block : Block \cup {None}, lock : Lock \cup {None}, txs : Seq(Tx)]
    /\ db \in Db
    /\ worker \in [pc : {"idle", "lookup", "same", "store", "mine", "untrack", "resolve",
                         "judge", "invalidate", "sweep"},
                   lock : Lock \cup {None}, tx : Tx \cup {None}, mined : Block \cup {None}]
    /\ rivalBlocks \subseteq Block

\* A lock of the store is found through each of its indexes and through the
\* caches before them, by the hash, by the transaction and by every input:
\* GetInstantSendLockByHash, GetInstantSendLockByTxid and
\* GetInstantSendLockByInput, on which IsLocked and GetConflictingLock rest.
StoredLockIsFound ==
    \A l \in db.islocks :
        /\ GetInstantSendLockByHash(db, l) = l
        /\ GetInstantSendLockByTxid(db, TxOf[l]) = l
        /\ \A o \in InputsOf(l) : GetInstantSendLockByInput(db, o) = l

\* The worker stored l and has not yet been through RemoveMempoolConflictsForLock.
SweepAhead(l) ==
    /\ worker.lock = l
    /\ worker.tx # None
    /\ worker.pc \in {"mine", "untrack", "resolve", "judge", "invalidate", "sweep"}

\* No transaction of the mempool conflicts with a stored lock, unless the
\* worker that stored it is on its way to remove the conflicts: the check of
\* AcceptToMemoryPool and the removal are under mempool.cs, and the lock is
\* stored before the removal.
MempoolHasNoRival ==
    \A l \in db.islocks, t \in mempool : Conflict(t, TxOf[l]) => SweepAhead(l)

\* Once the notification of a ChainLock is done, nonLockedTxs has no
\* transaction as mined in a block of its chain: HandleFullyConfirmedBlock
\* removes what the notifications of its blocks added, and none adds it again.
ConfirmedIsNotTracked ==
    announced # None /\ cb.step # "cleanup" /\ (\A i \in DOMAIN queue : queue[i].kind # "chainlock")
        => \A t \in Tx : nonLocked.txs[t].mined \notin Chain[announced]

\* No thread has anything left to do for a lock or a notification.
Settled ==
    /\ queue = <<>> /\ cb.step = "start" /\ pending = {} /\ worker.pc = "idle" /\ Free
    /\ chainLock = announced
    /\ chainLock # None => chainLock \in Chain[tip]

\* A stored lock does away with a block that mined a conflicting transaction,
\* unless the block has a ChainLock, as feature_llmq_is_cl_conflicts.py has it:
\* ResolveBlockConflicts finds the block through nonLockedTxs.
StoredLockWinsOverBlock ==
    Settled => \A l \in db.islocks, c \in Chain[tip] :
        HasChainLock(c) \/ \A t \in Txs(c) : ~Conflict(t, TxOf[l])

\* A ChainLocked block becomes part of the active chain, whatever locks its
\* transactions conflict with: ConnectBlock prunes them, and a block that
\* ResolveBlockConflicts or ConnectBlock marked as failed is reconsidered.
ChainLockPrevails ==
    chainLock # None ~> (chainLock = None \/ chainLock \in Chain[tip])

=============================================================================
