# A TLA+ model of the PirateCash node

PirateCash is a Dash (Bitcoin) node with masternodes, long-living masternode
quorums (LLMQs), ChainLocks, InstantSend and proof-of-stake blocks. This directory
models the parts of it whose correctness depends on the order in which things
happen: crashes between two writes, and threads that release a lock between two
steps. Source paths are relative to the repository; line numbers for every
definition are in `PROJECT.json` under `map`.

## 1. Inventory

| Part | State | Operations that change it | What is hard |
|---|---|---|---|
| Evo database (`evo/evodb`, `dbwrapper.h`) | leveldb, root batch, root and current transaction | read, write, erase, commit, roll back, flush | layers must add up to a transactional store, also when a write throws |
| Coins cache (`coins.cpp`) | FRESH and DIRTY entries | add, spend, flush, uncache | flags over several layers |
| Chain state (`validation.cpp`, `txdb.cpp`, `init.cpp`) | coins database, block index, evodb, caches, tip | connect, disconnect, flush, replay, verify, reindex | three databases, written one after another, and a process that may die anywhere |
| ChainLocks (`llmq/chainlocks.cpp`, parts of `validation.cpp`) | best ChainLock, conflict flags, signed height | CLSIG from a peer or a recovered signature, header, block, enforcement, signing | three threads, two locks, neither held throughout |
| Signing (`llmq/signing.cpp`, `llmq/signing_shares.cpp`) | votes, shares, recovered signatures | vote, share, recover, truncate, clean up | one message per id, whatever is forgotten |
| InstantSend (`llmq/instantsend.cpp`) | lock database, pending locks, unlocked transactions | lock, mine, confirm, conflict, retry | locks and transactions in either order, on several threads |
| Scheduler and validation interface (`scheduler.cpp`, `validationinterface.cpp`) | task queue, callback queue | add, process, stop | order, no callback lost, no wait for nobody |
| Quorum block processor, quorum manager, DKG | mined commitments, caches, phase | process, undo, scan, messages | caches against reorganisations, the phase thread against bursts of blocks |
| Masternode list, special transactions (`evo/`) | list diffs, snapshots, caches | process, undo | caches by block, rebuilt lists |
| Sporks, governance, masternode sync, CoinJoin | signed values; objects and votes; stage; session | messages, timers | messages in either order, timers against handlers |
| Mempool, peers, wallet, RPC, GUI, cryptography | | | see section 8 |

ConnectTip and DisconnectTip drive the special transactions, the masternode list and
the quorum block processor, all of which write to evodb inside one transaction.
ChainLocks act on validation (conflict flags, `InvalidateBlock`-like disconnection)
and are consulted by it in `AcceptBlockHeader` and `ConnectBlock`. The signing manager
feeds ChainLocks and InstantSend with recovered signatures. InstantSend hears of
blocks and of ChainLocks through the validation interface, whose notifications the
scheduler's thread executes. Sporks switch both.

`PROJECT.json` lists every part under `components` and what can go wrong under
`hazards`, the most consequential ones, each at its line. A hazard without a property
has a note.

## 2. Modules

| Module | Models |
|---|---|
| `TxStore` | what the evo database promises: a working, a committed and a durable content |
| `EvoDB`, `MCEvoDB` | `CEvoDB` and `CDBTransaction`: two overlays and a batch over leveldb |
| `DBTransactionIterator` | the merging cursor over an overlay and its parent |
| `CoinViews` | what the coins caches promise: a stack of whole coin sets |
| `CoinsCache`, `MCCoinsCache` | `CCoinsViewCache`: a scratch cache over the tip's cache over the database |
| `Totals` | sums of sizes over a set, for the memory accounting of the two above |
| `Chainstate`, `MCChainstate` | coins database, block index and evodb through flushes, crashes, start-up and reindexing |
| `ChainLocks`, `MCChainLocks` | the ChainLocks handler and the part of validation it acts on |
| `Signing`, `MCSigning` | votes, shares and recovered signatures on every masternode of a network |
| `InstantSendDb` | the lock database with its indexes and caches |
| `InstantSend`, `MCInstantSend` | a node's handling of locks on its threads |
| `CallbackQueue` | what the validation interface promises: a FIFO queue, one callback at a time |
| `Scheduler`, `MCScheduler` | `CScheduler`, `SingleThreadedSchedulerClient` and their shutdown |
| `EvoDBProofs`, `DBTransactionIteratorProofs`, `CoinsCacheProofs`, `ChainstateProofs`, `ChainLocksProofs`, `SigningProofs`, `InstantSendProofs`, `SchedulerProofs` | theorems |

**EvoDB.** Every method runs under `CEvoDB::cs`, so every method is one action. An
overlay is a function of written values and a set of erased keys; `mem` is the
incrementally kept memory usage. `CommitRootTransaction` either writes the whole batch or
throws, and then keeps `rootBatch`; the node goes on, in further transactions, and the
next flush appends to it. The upgrades at start-up write and erase past the layers, some of
it under keys that transactions write too. `StoreSpec` is `TxStore!Spec` under the mapping
*durable* = db, *committed* = root over batch over db, *working* = cur over that; only a
crash takes back what is not durable.

**DBTransactionIterator.** Keys are integers in the order of `DataStreamCmp`. The
content is fixed, Seek and Next come in any order.

**CoinsCache.** Level 1 is the cache over the database, level 2 the cache in which
ConnectTip, DisconnectTip and TestBlockValidity work. Reading fills every level it
passes. `FlushScratch` is `BatchWrite` of the parent cache as one step, the entries it
creates, erases and modifies as sets; the two `logic_error`s are modelled.
`ViewsSpec` is `CoinViews!Spec` with what `GetCoin` answers at each level.

**Chainstate.** `pc` is the point in the running handler at which something durable was
written last; all of it runs under `cs_main`, so the only interleaving is with the death
of the process (`Crash`, at the points in `CrashAt`) and with failing writes (`FailAt`: of
the block index, the coins, evodb). A write that fails only requests a shutdown
(`AbortNode`): the node processes blocks until `Shutdown()` has stopped its threads, and
then flushes twice. Two assertions can end the process on the way, `TipAssertionFails` and
`AssertionFails`. `dirty` is `setDirtyBlockIndex`, emptied before it is written. The user may
start with `-reindex-chainstate` at any time; `wiped` remembers that one of these starts wiped
evodb and did not get to the coins. The coins cache is an overlay per coin (none, add, spend).
`WritePartialBatch(S)` takes any non-empty set of dirty coins, since the batch
boundaries depend on hash order and size. evodb is reduced to the best block it names and
the set of blocks whose special transactions it has processed: this is the interface
EvoDB proves. Blocks are valid; `Needs` are the collaterals that registrations look up.

**ChainLocks.** A step is what a thread does under one acquisition of `cs` or
`cs_main`. `pc`, `blk` and `saw` are a thread's position, block and earlier reads.
`reorgFrom` is set while `ActivateBestChain` keeps `cs_main` over several steps. A CLSIG
is the block it locks; only CLSIGs with a valid signature are modelled. Whether the
transactions of a tip are safe to sign is a free choice. `FindMostWorkChain` is
`MostWorkFrom`; the flags it spreads to descendants follow from the flagged ancestor.

**Signing.** Time is a number that every member's tip follows at its own lag, so that
members may select different quorums for one id. Votes are on disk and survive a crash
(of the process: the write is not synced); shares and what is only queued do not. Any
share that was sent may arrive at any member, late or never. Clean-up drops votes and
signatures older than `MaxAge`, truncation keeps only the hash of a signature.
`ReSign` is the `allowReSign` of InstantSend's callers; the RPC's explicit quorum hash is
left out.

**InstantSend.** `InstantSendDb` has the stored, mined and archived locks, the two
indexes, and caches from which any entry may vanish. In `InstantSend` a step is what a
thread does under one acquisition: the message thread queues a lock, the worker thread
looks the transaction and its block up, writes the lock and removes conflicts, the
scheduler thread executes notifications, validation connects and disconnects. Adjacent
critical sections whose order cannot be observed are merged: `RemoveMempoolConflicts`
with `RemoveConflictedTx`, a read with `RemoveConflictingLock`, `InvalidateBlock` with
`ResetBlockFailureFlags`. One lock is pending at a time, a rejected branch leaves the tip
unchanged, the order within one batch of notifications is free. The node is synced and
no masternode, the sporks are on, DIP8 is active, the database is upgraded.

**Scheduler.** An agent's `pc` is its place between two acquisitions of a mutex. `Main`
runs PrepareShutdown, adders are threads that add callbacks and may wait for them
(`SyncWithValidationInterfaceQueue`, `LimitValidationInterfaceQueue`), `Importer` are
those of them that PrepareShutdown joins, like ThreadImport. A callback that throws
and a clock that goes backwards are left out.

## 3. Runs that pass

| Run | Shows |
|---|---|
| `evodb` | the layers implement `TxStore`, with crashes, raw writes and failing batches; memory accounting is exact; no layer both writes and erases a key; a read, which skips `rootBatch`, returns what the layers hold, or, while a batch that failed is waiting, what is on disk |
| `iterator` | the cursor yields each visible key once, in order, for every content of four keys |
| `coins_cache` | the caches implement `CoinViews`; FRESH and DIRTY mean what `coins.h` says of them; neither `logic_error` can be thrown; memory accounting is exact; no addition, spending or flush is lost |
| `chainstate` | with a crash at any point, reorganisations and reindexing at any time: a coins database that names a best block holds exactly its coins; an interrupted transition is only resumed to its own target (`BatchWrite`'s assertion); the block index on disk covers what the coins database names; a node past start-up has coins and tip at one block, and evodb too unless a reindex has wiped it and not the coins; an interrupted transition starts where evodb stands, with the same exception |
| `chainstate_write_errors` | when writes of the block index, the coins and evodb fail and the node goes on until the shutdown: evodb on disk only moves to a block at which the coins database has arrived |
| `chainstate_dbcrash` | without reorganisations and collateral lookups, crashes during the coins flush or its recovery never need a reindex, and recovery ends |
| `chainlocks` | regular node: an announced ChainLock is never reorganised away, the best ChainLock is the enforced one once its header is known, flagged blocks are not active, and the ChainLock gets on the active chain |
| `chainlocks_masternode` | masternode that gets CLSIGs for two blocks of a branch on two threads: nothing flagged, and nothing above a flagged block, is signed; the best ChainLock is the enforced one once its header is known, also after it fell back |
| `signing` | with crashes, lost and late shares and members that select different quorums: what a member signed stays covered by its vote while the quorum can be selected, and a quorum recovers one message per id |
| `instantsend` | a lock is found through all its indexes and caches, the mempool has no rival of a stored lock, confirmed transactions are not tracked, and a ChainLocked block gets on the active chain |
| `scheduler` | callbacks run one at a time in the order they were added, none is stranded, `stop(true)` runs all, waiting threads return, and the shutdown ends if no import is running |

Each property of these runs has a mutant in `PROJECT.json`: a plausible wrong version of
one definition under which TLC reports that property.

## 4. Where code and comment disagree

The first row is a run of `PROJECT.json`; the others are configurations kept here, each
with one property that TLC finds violated.

| Configuration | Statement | What happens |
|---|---|---|
| `MCChainLocksTwoThreads.cfg` (run `chainlocks_two_threads`) | `chainlocks.cpp:112`: "no need to process/relay older CLSIGs" | compared (111) and assigned (131) under two acquisitions of `cs`: a lower CLSIG replaces a higher one. If then a branch leaves above the lower one, an announced block can go |
| `MCChainstateTwoDatabases.cfg` | `feature_dbcrash.py:26`: "restart until recovery succeeds" | a crash between the coins flush and the evodb commit is refused at every restart until a reindex |
| `MCChainstateRollforward.cfg` | `validation.cpp:4809`: "ignoring that it may already have been applied" | `ProcessSpecialTxsInBlock` looks up a collateral (`deterministicmns.cpp:1281`) that the interrupted flush has already erased for a later block |
| `MCChainstateLostBatch.cfg` | `txdb.cpp:126`: "In the last batch, mark the database as consistent with hashBlock again." | entries are erased from the cache before a `WriteBatch` that throws; the flush at shutdown (`init.cpp:305`) then marks the database consistent without them |
| `MCChainstateOtherTip.cfg` | `txdb.cpp:88`: `assert(old_heads[0] == hashBlock)` | a batch of coins fails after another one was written; the node goes on, connects or disconnects a block, and the next flush is for another block than the transition in the database |
| `MCChainstateLostIndex.cfg` | `validation.cpp:2599`: the coins are flushed "only ... if the blocks / block index write was also done" | `setDirtyBlockIndex` is emptied before the write that fails (2585), so that the flush of `Shutdown()` writes the coins and not the lost entries |
| `MCChainstateWipedEvoDB.cfg` | `validation.cpp:2049`: the check of evodb's best block is there "to ensure evodb consistency" | `-reindex-chainstate` wipes evodb (`init.cpp:2000`) and stops before it wipes the coins (2079); started without the flag and with a coins flush to replay, the node goes on with an evodb that lacks the earlier blocks |
| `MCChainLocksSignsConflict.cfg` | `chainlocks.cpp:276`: "don't sign if another conflicting CLSIG is already present" | `InternalHasConflictingChainLock` answers false for a tip above the locked height: such a tip on another branch, to which the ChainLock has not been applied yet, is signed |
| `MCChainLocksLateHeader.cfg` | `chainlocks.cpp:156`: the chain is enforced when the header comes in later | a header accepted between the lookup (127) and the assignment (132) is matched by neither side |
| `MCSigningConflict.cfg` | `signing.cpp:894`: "it shouldn't be possible to get conflicting recovered signatures" | members at different tips select different quorums (896), and each recovers its own message |
| `MCInstantSendRival.cfg` | `feature_llmq_is_cl_conflicts.py:243`: the lock disconnects blocks with a conflicting transaction "even though the nodes don't know the locked transaction yet" | a block with a rival is connected before the lock is stored, and the process dies between the store and `ResolveBlockConflicts`: `nonLockedTxs`, through which the block is found, is in memory only, and the block stays |
| `MCSchedulerImport.cfg` | the shutdown ends | ThreadImport may wait in `SyncWithValidationInterfaceQueue` (`validation.cpp:3111`) while PrepareShutdown has stopped the scheduler (251) and joins ThreadImport (253) before it runs the callbacks (258): both wait for ever |

Seen in traces, without a configuration of their own: two changes of the spork while a thread is inside `CheckActiveState`
skip the reset, and two threads there at once drop a valid ChainLock; with more than one
scheduler thread a task may run before its time (the node starts one); in InstantSend, a
late "removed" notification removes a lock whose transaction is back in the mempool,
`BlockDisconnected` keeps `pindexMined`, `RemoveNonLockedTx` erases outpoints that
another transaction owns, and `RemoveConflictedTx` (`instantsend.cpp:1312`) builds a
request id from the whole input, so that entries of `inputRequestIds` stay.

## 5. Bounds

* `evodb`: two keys, two values of different size, one raw key. A key's fate in the
  layers is independent of other keys; a second key shows that, and two values show
  overwriting and its accounting.
* `iterator`: four keys give every pattern of skipping between two yielded keys.
* `coins_cache`: two outpoints, two coins of different usage, two levels, one block.
* `Chainstate` runs: a chain of five blocks and, where reorganisations matter, a branch
  of two. Coins are created, spent a block later, spent on one branch only and used as
  collateral, so a flush can cut between any two related changes. `DIP3Height` is inside
  the chain; `ReorgFloor` keeps reorganisations above it, because the activation is
  buried on every network. `CheckDepth` is smaller than the chain. With failing writes the
  chain is shorter, since each write has more outcomes; an index that lost the entry of a
  parent is not started from (`LoadIndex`), so that run does not check for deadlock.
* `ChainLocks` runs: two branches above a common chain; one lock on the regular node,
  where the theorems cover any number, and two on the masternode, where they race. They
  are on one branch: the quorums of section 4's `MCSigningConflict.cfg` apart, no two
  CLSIGs conflict. `chainlocks_masternode` has the smaller tree and no change of the spork,
  to stay within some 2.5 million states. `MaxToggles` bounds spork changes. In the passing runs blocks come only from the thread that also brings CLSIGs
  (`BlocksFromRPC = FALSE`); another source of blocks gives `MCChainLocksLateHeader.cfg`.
* `signing`: three masternodes, members of a quorum with threshold two that is followed
  by one with other members; one id, two messages, time enough for a vote to expire
  after its quorum has retired.
* `instantsend`: two transactions that spend one coin, a lock for one, two blocks above
  genesis that mine one or the other; two notifications wait at a time. Locks that
  replace each other (deterministic ones) are not in the instance; the theorems cover them.
* `scheduler`: two threads that serve, two that add, one timer, two callbacks, and a
  limit of 0, so that every adder waits. Three callbacks were checked once (1,857,613
  states).

## 6. Fairness

`Chainstate!FairSpec` is weakly fair to the steps of `AppInitMain` and to the last batch
of a flush: they run in one thread that waits for nobody, and a finite cache is written
with finitely many batches. `RecoverySucceeds` assumes that crashes stop.
`ChainLocks!FairSpec` is weakly fair to each thread's own steps, to `ActivateBestChain`
(called after every accepted block and by enforcement) and to the task the scheduler
repeats every five seconds. Nothing is assumed about messages, blocks or sporks.
`InstantSend!FairSpec` is weakly fair to the scheduler thread and to the thread that
holds `cs_main`, and strongly fair to `EnforceBestChainLock` and to the activation it
asks for: the scheduler repeats it for ever, and it waits for a lock that others take
too. Nothing is assumed of the worker. `Scheduler!FairSpec` is weakly fair to every
thread that can go on, to callbacks that return and to time; nobody has to add a
callback or ask for a shutdown.

## 7. Proofs

TLAPS checks the theorems for every value of the constants that satisfies the named
assumptions, which TLC evaluates in the runs. Every safety invariant and action property
of section 3 is also a theorem; the conditions some of them need are stated in the
theorem. Section 4 shows why: without them the property is false. (`KnownLockIsEnforced` is
proved for a regular node; for a masternode it is only model-checked, with CLSIGs on one
branch.)

**EvoDB** (`KeyAssumption`, `NoValAssumption`, `SizeAssumption`). The two overlays
implement `TxStore` (`ImplementsTxStore`), with `TypeCorrect`, `DisjointLayers`,
`CurrentReads`. The inductive invariant is TypeOK and LayersDisjoint; the key lemma is
`ViewCommitTo`: committing a layer into its parent changes no read. `UsageIsExact`: the
usage kept by differences is the sum of the sizes. `Commit` needs LayersDisjoint for
it: a key counted twice in the child would be charged once.

**Totals.** A sum over a set is written as the number of elements of a set of pairs, so
that its laws (`TotalSplit`, `TotalWithout`, `TotalSame`, `TotalZero`) follow from the
theorems on cardinality. A fold would need induction.

**DBTransactionIterator** (`MaxKeyAssumption`). `TypeCorrect`, `ChosenIsValid`,
`YieldsInOrder`, for any number of keys. `Positions`: each cursor stands on the first key
of its side at or after the place of the scan, and `curIsParent` points at the smaller.

**CoinsCache** (`OutpointAssumption`, `SpentAssumption`, `NullAssumption`,
`UsageAssumption`). `TypeCorrect`, `FlagsMeaning`, `NoLogicError`, `ImplementsViews`,
`EffectsSeen`. The inductive invariant is TypeOK, FlagsAreTrue and NeverThrows together:
a FRESH entry over an unspent coin would lose a spending at the next flush, and an entry
that is not DIRTY must agree with the view below. `UsageIsExact` adds the accounting; a
coin without an entry is spent and takes nothing, so the sum may be taken over all
outpoints, and `BatchWrite` splits it into created, modified, erased and other entries.

**Chainstate** (`TreeAssumption`, `CoinAssumption`, `ParameterAssumption`).
* For every failing write: `TypeCorrect`, and `EvoDBIsNeverAhead`, whose invariant says that
  evodb in memory names the block it has on disk or the cache's, and that before a commit
  the coins database has arrived at the cache's.
* `TransitionIsResumed` and `CoinsDbIsExact`, if writes of coins do not fail
  (`MCChainstateOtherTip.cfg` and `MCChainstateLostBatch.cfg` show why). A pending transition
  goes to the block of the cache (`MarkerInv`). During a transition from a to b the coins on
  disk contain what both have and nothing that neither has (`Between`). Any batch keeps it,
  rolling a block forward moves its lower end, and with both ends equal it is equality.
* `IndexIsAhead`, if writes of the block index do not fail (`MCChainstateLostIndex.cfg`): the
  index in memory is what is on disk and what is dirty.
* `NodeIsConsistent` and `ReplayIsSound`, if no write fails and nothing below `DIP3Height` is
  disconnected: after that, evodb could hold records that none of the checks of a start
  looks at. `Aligned` says at each point of each handler to which block evodb in memory
  and on disk belongs, as long as no reindex has wiped evodb and not the coins.
* `StartNeedsNoReindex` under `Benign`: crashes only while coins are flushed, no
  reorganisation, no collateral lookups.

**ChainLocks** (`TreeAssumption`, `StartAssumption`). `Unflagged` and `TypeCorrect` hold on
every node. That ancestors are ordered by height and that two ancestors of a block are on
one chain are lemmas, by the least counterexample.
* `KnownLock`, `BestOnlyRises`: no masternode and blocks from the peers' thread. Then one
  thread processes CLSIGs and headers, so that none comes between lookup and assignment.
* `LockIsFinal` under `Regular(a)`: no masternode, at most one change of the spork, DIP8
  active before the first fork. The invariant (`Order`, `Enforcing`, `Final`) says that
  announced, enforced and best ChainLock are ordered, that an enforcement under way
  goes on with a ChainLock at least as high, and that everything off the announced
  branch is flagged or cannot be activated. Any number of locks on any branches.
* `SignsUnflagged`, on every node: the tip that is about to be signed has its whole chain in
  the index, unflagged (`SignInv`). Only the thread that signs flags blocks of the index.

**Signing** (`QuorumAssumption`: thresholds are majorities; `RetireAssumption`: a quorum
can be selected for less time, four days, than votes are kept, a week). `VotesBind`,
`OneMessage`, without `ReSign`: a share signed again for InstantSend does not renew the
vote's age. `IInv` adds that a member signs one message per quorum and id (`SignsOnce`),
that shares held were sent and that a recovered signature has its shares; two
majorities share a member.

**InstantSend** (`DbAssumption`, `OneLockPerCoin`, `ChainAssumption`). `LocksAreFound`,
`NoRivalStays`, from `IInv` (the database is good, the worker has a transaction of its lock).
`TypeCorrect` and `ConfirmedStaysUntracked`, from `ConfInv`: when the announced
ChainLock's own notification is behind, later ones see the ChainLock and track nothing of
its chain, and earlier ones are done, since one thread executes them in order.
`Chain` is the least set closed under parents, not a recursion.

**Scheduler** (`SchedulerAssumption`). `Implements` (`CallbackQueue`), `NeverStranded`, for any
number of threads, from `IInv` (one thread executes callbacks; a waiting callback has a
task or a thread that will look again). `DrainIsComplete` for at least one thread and no
`Importer`, which could add a callback while the queue drains.

Only model-checked: liveness (`RecoverySucceeds`, `LockGetsEnforced`, `ChainLockPrevails`,
`SyncReturns`, `ShutdownCompletes`), because the prover does not reason about fairness. Facts
about numbers and heights are proved by the least counterexample; induction over data and
recursive definitions are out of its reach, which is why `Chain` and `Total` are closed forms.

## 8. Not modelled

Consensus rules on the content of blocks and transactions, cryptography, leveldb's
inside (a batch is atomic, and durable once written), pruning and block files, the
optional indexes, a full `-reindex`, sockets, peers, wallet, RPC and GUI; sporks, the
quorum block processor and quorum caches, DKG, masternode lists, governance, CoinJoin
and masternode sync. In InstantSend, the masternode's own signing, the limits and the expiry
of the mempool; in Scheduler, callbacks added after the last `FlushBackgroundCallbacks`.
Reasons are under `components`.
