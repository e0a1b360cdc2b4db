----------------------------- MODULE Chainstate -----------------------------
(***************************************************************************)
(* The persistent chain state of the node across crashes: the coins        *)
(* database, the evo database and the block index, how ConnectTip,         *)
(* DisconnectTip and FlushStateToDisk write them, and how the node starts  *)
(* from what a crash left (ReplayBlocks, LoadChainTip, VerifyDB).          *)
(*                                                                         *)
(* All of this code runs under cs_main, so the only interleavings are with *)
(* the death of the process; pc is the point of the running handler where  *)
(* something durable was written last.  A leveldb batch is atomic and a    *)
(* finished WriteBatch survives the process.                               *)
(*                                                                         *)
(* The evo database is an EvoDB!Store: its content is reduced to the best  *)
(* block it names and the set of blocks whose special transactions it has  *)
(* processed; ConnectBlock's transaction commits or rolls back as a whole. *)
(***************************************************************************)
EXTENDS Integers, Sequences, FiniteSets

CONSTANTS
    Block, Genesis, NoBlock,
    Parent,         \* [Block \ {Genesis} -> Block]
    Height,         \* [Block -> Nat]
    Anc,            \* [Block -> SUBSET Block]: the block and its ancestors
    Coin,
    Spends,         \* coins a block spends
    Creates,        \* coins a block adds
    Needs,          \* collateral coins its special transactions look up
    Utxo,           \* the coin set after a block
    DIP3Height,     \* first height at which evodb is checked
    DIP3EnforcementHeight,
    CheckDepth,     \* -checkblocks
    ReorgFloor,     \* the height of the highest block that is never disconnected
    CrashAt,        \* the points at which the process may die
    FailAt          \* the writes that may fail: of the block index, the coins, evodb

ASSUME TreeAssumption ==
    /\ Genesis \in Block /\ NoBlock \notin Block
    /\ Parent \in [Block \ {Genesis} -> Block]
    /\ Height \in [Block -> Nat] /\ Height[Genesis] = 0
    /\ \A b \in Block \ {Genesis} : Height[b] = Height[Parent[b]] + 1
    /\ Anc \in [Block -> SUBSET Block] /\ Anc[Genesis] = {Genesis}
    /\ \A b \in Block \ {Genesis} : Anc[b] = {b} \cup Anc[Parent[b]]

\* Blocks are valid: they spend and look up coins that exist before them, and
\* what they add is new.  ConnectBlock skips the coinbase of the genesis block.
ASSUME CoinAssumption ==
    /\ Spends \in [Block -> SUBSET Coin]
    /\ Creates \in [Block -> SUBSET Coin]
    /\ Needs \in [Block -> SUBSET Coin]
    /\ Utxo \in [Block -> SUBSET Coin] /\ Utxo[Genesis] = {}
    /\ Spends[Genesis] = {} /\ Creates[Genesis] = {}
    /\ \A b \in Block \ {Genesis} :
         /\ Utxo[b] = (Utxo[Parent[b]] \ Spends[b]) \cup Creates[b]
         /\ Spends[b] \subseteq Utxo[Parent[b]]
         /\ Needs[b] \subseteq Utxo[Parent[b]]
         /\ Creates[b] \cap Utxo[Parent[b]] = {}

ASSUME ParameterAssumption ==
    /\ DIP3Height \in Nat /\ DIP3Height >= 2
    /\ CheckDepth \in Nat \ {0}
    /\ DIP3EnforcementHeight \in Nat /\ DIP3EnforcementHeight >= DIP3Height
    /\ ReorgFloor \in Nat
    /\ FailAt \subseteq {"index", "coins", "evo"}

VARIABLES
    dIndex, dCoins, dBest, dHeads, dEvo,            \* on disk
    index, dirty, tip, cache, cacheBest, evo,       \* in memory
    pc, target, stage,                              \* the running handler
    wiped       \* a reindex has wiped evodb and not yet the coins (a history variable)

disk == <<dIndex, dCoins, dBest, dHeads, dEvo>>
memory == <<index, dirty, tip, cache, cacheBest, evo>>
vars == <<dIndex, dCoins, dBest, dHeads, dEvo,
          index, dirty, tip, cache, cacheBest, evo, pc, target, stage, wiped>>

MaybeBlock == Block \cup {NoBlock}
EvoContent == [best : MaybeBlock, mined : SUBSET Block]
EmptyEvo == [best |-> NoBlock, mined |-> {}]

Running == {"run", "ifneeded", "coins", "evo", "stopping"}
Starting == {"replay", "roll", "rcoins", "rcommit", "loadtip", "verify"}
Points == Running \cup Starting \cup {"down", "failed", "wipe"}

\* Types; dirty is setDirtyBlockIndex, as far as the index database lacks its
\* entries.  cache is what CoinsTip() holds over the coins database, per coin:
\* no change, added, or spent.  target is the block SetTip installs when
\* FlushStateToDisk returns, during start-up the block reached by the replay
\* or by VerifyDB.  stage is 1 when the shutdown is requested, and 2 and 3 at
\* the two forced flushes of Shutdown().
TypeOK ==
    /\ dIndex \subseteq Block /\ index \subseteq Block /\ dirty \subseteq index
    /\ dCoins \subseteq Coin
    /\ cache \in [Coin -> {"none", "add", "spend"}]
    /\ {dBest, tip, cacheBest, target} \subseteq MaybeBlock
    /\ dHeads = <<>> \/ dHeads \in Block \X MaybeBlock
    /\ dHeads # <<>> => dBest = NoBlock
    /\ dEvo \in EvoContent /\ evo \in EvoContent
    /\ pc \in Points
    /\ stage \in 0 .. 3
    /\ wiped \in BOOLEAN

----------------------------------------------------------------------------
(* Coins views *)

Clean == [c \in Coin |-> "none"]

\* What CoinsTip() answers.
CoinsView == {c \in Coin : cache[c] = "add" \/ (cache[c] = "none" /\ c \in dCoins)}

Dirty == {c \in Coin : cache[c] # "none"}

\* Spending the coins of S, then adding those of A, in a cache.
Update(ch, S, A) ==
    [c \in Coin |-> IF c \in A THEN "add" ELSE IF c \in S THEN "spend" ELSE ch[c]]

\* The coins database after a batch with the cached changes of S.
Written(S) == {c \in Coin : IF c \in S THEN cache[c] = "add" ELSE c \in dCoins}

Dropped(S) == [c \in Coin |-> IF c \in S THEN "none" ELSE cache[c]]

\* AbortNode, or a request of the user: a flag is set and the node goes on.
StartShutdown == pc' = "run" /\ stage' = 1

\* Shutdown(), once the threads that work on the chain have ended.
FirstFlush == pc' = "stopping" /\ stage' = 2

\* The process is gone, and with it what was only in memory.
ProcessEnds ==
    /\ pc' = "down"
    /\ index' = {} /\ dirty' = {} /\ tip' = NoBlock
    /\ cache' = Clean /\ cacheBest' = NoBlock
    /\ evo' = EmptyEvo
    /\ target' = NoBlock /\ stage' = 0

----------------------------------------------------------------------------
(* The running node *)

\* AcceptBlock
AcceptBlock(b) ==
    /\ pc = "run"
    /\ b \notin index /\ Parent[b] \in index
    /\ index' = index \cup {b}
    /\ dirty' = dirty \cup {b}
    /\ UNCHANGED <<disk, tip, cache, cacheBest, evo, pc, target, stage, wiped>>

DIP3Active(b) == Height[b] >= DIP3Height

\* ProcessSpecialTxsInBlock and WriteBestBlock in the evodb transaction.
Processed(e, b) ==
    [best |-> b, mined |-> IF DIP3Active(b) THEN e.mined \cup {b} ELSE e.mined]

ExtendsTip(b) == IF b = Genesis THEN tip = NoBlock ELSE Parent[b] = tip

\* ConnectBlock's check of evodb.
EvoDBBehind(b) == b # Genesis /\ DIP3Active(b) /\ evo.best # Parent[b]

\* ConnectTip up to FlushStateToDisk: the coins view and evodb must stand at
\* the parent, then they move together.  The genesis block touches neither.  A
\* valid block whose coins the view does not have is rejected.  The index
\* entry becomes dirty unless the block was found valid before.
ConnectTip(b) ==
    /\ pc = "run"
    /\ b \in index
    /\ ExtendsTip(b)
    /\ cacheBest = tip
    /\ IF EvoDBBehind(b)
         THEN StartShutdown /\ UNCHANGED <<dirty, cache, cacheBest, evo, target>>
         ELSE /\ Spends[b] \cup Needs[b] \subseteq CoinsView
              /\ cacheBest' = b
              /\ target' = b
              /\ cache' = Update(cache, Spends[b], Creates[b])
              /\ evo' = IF b = Genesis THEN evo ELSE Processed(evo, b)
              /\ dirty' \in {dirty, dirty \cup ({b} \ (dIndex \cup {Genesis}))}
              /\ pc' = "ifneeded"
              /\ UNCHANGED stage
    /\ UNCHANGED <<disk, index, tip, wiped>>

\* Mutant: evodb's best block is not verified.
UndoIgnoresEvoDB(b, e, view) ==
    \/ ~(Creates[b] \subseteq view)
    \/ Spends[b] \cap view # {}

\* DisconnectBlock fails or is unclean.
CannotUndo(b, e, view) ==
    \/ DIP3Active(b) /\ e.best # b
    \/ ~(Creates[b] \subseteq view)
    \/ Spends[b] \cap view # {}

\* DisconnectTip up to FlushStateToDisk.
DisconnectTip ==
    /\ pc = "run"
    /\ tip # NoBlock /\ Height[tip] > ReorgFloor
    /\ cacheBest = tip
    /\ IF CannotUndo(tip, evo, CoinsView)
         THEN StartShutdown /\ UNCHANGED <<cache, cacheBest, evo, target>>
         ELSE /\ cache' = Update(cache, Creates[tip], Spends[tip])
              /\ cacheBest' = Parent[tip]
              /\ target' = Parent[tip]
              /\ evo' = [best |-> Parent[tip], mined |-> evo.mined \ {tip}]
              /\ pc' = "ifneeded"
              /\ UNCHANGED stage
    /\ UNCHANGED <<disk, index, dirty, tip, wiped>>

\* The assertions that the coins view stands at the tip, in ConnectBlock and in
\* DisconnectTip, end the process after a flush that failed.
TipAssertionFails ==
    /\ pc = "run" /\ cacheBest # tip
    /\ \/ \E b \in index : ExtendsTip(b)
       \/ tip # NoBlock /\ Height[tip] > ReorgFloor
    /\ ProcessEnds
    /\ UNCHANGED <<disk, wiped>>

\* FlushStateToDisk(IF_NEEDED) with the caches below their limits; SetTip.
FlushNotNeeded ==
    /\ pc = "ifneeded"
    /\ tip' = target
    /\ pc' = "run"
    /\ UNCHANGED <<disk, index, dirty, cache, cacheBest, evo, target, stage, wiped>>

\* WriteBatchSync: the dirty entries reach the index database.
WriteIndex == dIndex' = dIndex \cup dirty /\ dirty' = {}

\* FlushStateToDisk(PERIODIC) that only writes the block index.
PeriodicWrite ==
    /\ pc = "run"
    /\ WriteIndex
    /\ UNCHANGED <<dCoins, dBest, dHeads, dEvo, index, tip, cache, cacheBest, evo, pc, target,
                   stage, wiped>>

\* Mutants of FlushStateToDisk: the block index is not written; evodb is
\* committed before the coins.
FlushWithoutIndex ==
    /\ pc \in {"ifneeded", "run", "stopping"}
    /\ cacheBest # NoBlock
    /\ target' = IF pc = "run" THEN tip ELSE target
    /\ pc' = "coins"
    /\ UNCHANGED <<disk, memory, stage, wiped>>

FlushEvoDBFirst ==
    /\ pc \in {"ifneeded", "run", "stopping"}
    /\ cacheBest # NoBlock
    /\ target' = IF pc = "run" THEN tip ELSE target
    /\ WriteIndex
    /\ dEvo' = evo
    /\ pc' = "coins"
    /\ UNCHANGED <<dCoins, dBest, dHeads, index, tip, cache, cacheBest, evo, stage, wiped>>

\* A full flush: needed after a block, periodic, or forced at shutdown.  The
\* block index is written before the coins that refer to it.
FlushStateToDisk ==
    /\ pc \in {"ifneeded", "run", "stopping"}
    /\ cacheBest # NoBlock
    /\ target' = IF pc = "run" THEN tip ELSE target
    /\ WriteIndex
    /\ pc' = "coins"
    /\ UNCHANGED <<dCoins, dBest, dHeads, dEvo, index, tip, cache, cacheBest, evo, stage, wiped>>

\* The tip the coins database moves away from (BatchWrite's old_tip).
OldTip == IF dHeads # <<>> THEN dHeads[2] ELSE dBest

\* BatchWrite's assert(old_heads[0] == hashBlock).
Resumes == dHeads # <<>> => dHeads[1] = cacheBest

AssertionFails ==
    /\ pc = "coins" /\ ~Resumes
    /\ ProcessEnds
    /\ UNCHANGED <<disk, wiped>>

\* CCoinsViewDB::BatchWrite: a batch that is full is written; its coins have
\* left the cache.  The first one also marks the transition in the database.
WritePartialBatch(S) ==
    /\ pc \in {"coins", "rcoins"} /\ Resumes
    /\ S # {} /\ S \subseteq Dirty
    /\ dHeads' = <<cacheBest, OldTip>>
    /\ dBest' = NoBlock
    /\ dCoins' = Written(S)
    /\ cache' = Dropped(S)
    /\ UNCHANGED <<dIndex, dEvo, index, dirty, tip, cacheBest, evo, pc, target, stage, wiped>>

\* Mutant: DB_HEAD_BLOCKS is not erased.
FinalBatchKeepsHeads ==
    /\ pc \in {"coins", "rcoins"}
    /\ dBest' = cacheBest
    /\ dCoins' = Written(Dirty)
    /\ cache' = Clean
    /\ pc' = IF pc = "coins" THEN "evo" ELSE "rcommit"
    /\ UNCHANGED <<dIndex, dHeads, dEvo, index, dirty, tip, cacheBest, evo, target, stage, wiped>>

\* The last batch carries the remaining coins and ends the transition.
WriteFinalBatch ==
    /\ pc \in {"coins", "rcoins"} /\ Resumes
    /\ dHeads' = <<>>
    /\ dBest' = cacheBest
    /\ dCoins' = Written(Dirty)
    /\ cache' = Clean
    /\ pc' = IF pc = "coins" THEN "evo" ELSE "rcommit"
    /\ UNCHANGED <<dIndex, dEvo, index, dirty, tip, cacheBest, evo, target, stage, wiped>>

\* FlushStateToDisk returns: SetTip, or on with the shutdown.
FlushReturns ==
    \/ /\ stage \in {0, 1}
       /\ pc' = "run" /\ tip' = target
       /\ UNCHANGED <<index, dirty, cache, cacheBest, evo, target, stage>>
    \/ /\ stage = 2
       /\ pc' = "stopping" /\ stage' = 3
       /\ UNCHANGED <<memory, target>>
    \/ /\ stage = 3
       /\ ProcessEnds

\* A write of FlushStateToDisk failed: AbortNode.  ConnectTip and DisconnectTip
\* leave the tip where it is, and Shutdown() goes on.  What is left in the
\* cache and in setDirtyBlockIndex is ch and d.
FlushFails(ch, d) ==
    \/ /\ stage \in {0, 1}
       /\ StartShutdown
       /\ cache' = ch /\ dirty' = d
       /\ UNCHANGED <<index, tip, cacheBest, evo, target>>
    \/ /\ stage = 2
       /\ pc' = "stopping" /\ stage' = 3
       /\ cache' = ch /\ dirty' = d
       /\ UNCHANGED <<index, tip, cacheBest, evo, target>>
    \/ /\ stage = 3
       /\ ProcessEnds

\* evoDb->CommitRootTransaction() at the end of the flush.
CommitEvoDB ==
    /\ pc = "evo"
    /\ dEvo' = evo
    /\ FlushReturns
    /\ UNCHANGED <<dIndex, dCoins, dBest, dHeads, wiped>>

\* The start is given up: "Please restart with -reindex or -reindex-chainstate".
Fails == pc' = "failed"

\* There is no disk space, or WriteBatchSync throws after the dirty entries
\* have been taken out of setDirtyBlockIndex.
WriteIndexFails ==
    /\ "index" \in FailAt
    /\ pc \in {"ifneeded", "run", "stopping"}
    /\ \E d \in {dirty, {}} : FlushFails(cache, d)
    /\ UNCHANGED <<disk, wiped>>

\* WriteBatch throws for the coins in S: they have left the cache and did not
\* reach the database.  (There is no S when it is disk space that is missing.)
\* In ReplayBlocks the exception ends the start.
WriteBatchThrows(S) ==
    /\ "coins" \in FailAt
    /\ S \subseteq Dirty
    /\ S = {} \/ Resumes
    /\ \/ /\ pc = "coins"
          /\ FlushFails(Dropped(S), dirty)
       \/ /\ pc = "rcoins"
          /\ Fails
          /\ cache' = Clean /\ cacheBest' = NoBlock
          /\ UNCHANGED <<index, dirty, tip, evo, target, stage>>
    /\ UNCHANGED <<disk, wiped>>

\* CommitRootTransaction throws: its batch is kept for the next try.
CommitEvoDBThrows ==
    /\ "evo" \in FailAt
    /\ \/ /\ pc = "evo"
          /\ FlushFails(cache, dirty)
       \/ /\ pc = "rcommit"
          /\ Fails
          /\ UNCHANGED <<memory, target, stage>>
    /\ UNCHANGED <<disk, wiped>>

\* The user stops the node; VerifyDB gives up at the next block.
RequestShutdown ==
    /\ \/ pc = "run" /\ stage = 0 /\ StartShutdown /\ UNCHANGED cache
       \/ pc = "verify" /\ FirstFlush /\ cache' = Clean
    /\ UNCHANGED <<disk, index, dirty, tip, cacheBest, evo, target, wiped>>

\* Until Shutdown() has stopped them, the threads of the node still process
\* blocks.
Shutdown ==
    /\ pc = "run" /\ stage = 1
    /\ FirstFlush
    /\ UNCHANGED <<disk, memory, target, wiped>>

\* Shutdown() without a best block: only the block index is written, and not
\* even that when the coins views were not created (CanFlushToDisk).
ShutdownEmpty ==
    /\ pc = "stopping" /\ cacheBest = NoBlock
    /\ dIndex' \in {dIndex, dIndex \cup dirty}
    /\ ProcessEnds
    /\ UNCHANGED <<dCoins, dBest, dHeads, dEvo, wiped>>

\* The process dies; or, at "wipe", a shutdown request ends the load loop
\* before the coins are opened, and nothing is flushed.
Crash ==
    /\ pc \in CrashAt
    /\ ProcessEnds
    /\ UNCHANGED <<disk, wiped>>

----------------------------------------------------------------------------
(* Start-up: AppInitMain's load loop *)

\* LoadBlockIndex and LoadGenesisBlock.  An index with an entry whose parent was
\* lost in a failed write is not started from here.
LoadIndex ==
    /\ \A b \in dIndex \ {Genesis} : Parent[b] \in dIndex
    /\ index' = dIndex \cup {Genesis}
    /\ dirty' = {Genesis} \ dIndex

\* CEvoDB is opened, then the block index.
LoadBlockIndex ==
    /\ pc = "down"
    /\ LoadIndex
    /\ evo' = dEvo
    /\ pc' = "replay"
    /\ UNCHANGED <<disk, tip, cache, cacheBest, target, stage, wiped>>

\* An interrupted transition that ReplayBlocks cannot finish: it names a block
\* that is not in the index, or it crossed a fork.
CannotReplay(new, old) ==
    \/ new \notin index
    \/ old # NoBlock /\ (old \notin index \/ old \notin Anc[new])

\* Mutant: an interrupted transition is taken for a finished one.
ReplaySkipped ==
    /\ pc = "replay"
    /\ cacheBest' = IF dHeads = <<>> THEN dBest ELSE dHeads[1]
    /\ pc' = "rcommit"
    /\ UNCHANGED <<disk, index, dirty, tip, cache, evo, target, stage, wiped>>

\* ReplayBlocks: nothing to do, not recoverable, or roll forward from the old
\* tip (from the genesis block when there is none).
ReplayBlocks ==
    /\ pc = "replay"
    /\ \/ /\ dHeads = <<>>
          /\ cacheBest' = dBest
          /\ pc' = "rcommit"
          /\ UNCHANGED target
       \/ /\ dHeads # <<>> /\ CannotReplay(dHeads[1], dHeads[2])
          /\ Fails
          /\ UNCHANGED <<cacheBest, target>>
       \/ /\ dHeads # <<>> /\ ~CannotReplay(dHeads[1], dHeads[2])
          /\ target' = IF dHeads[2] = NoBlock THEN Genesis ELSE dHeads[2]
          /\ pc' = "roll"
          /\ UNCHANGED cacheBest
    /\ UNCHANGED <<disk, index, dirty, tip, cache, evo, stage, wiped>>

\* Mutants of RollforwardBlock: inputs are not spent again; inputs must exist.
RollforwardAddsOnly(b) ==
    /\ pc = "roll"
    /\ b \in Anc[dHeads[1]] \ {Genesis} /\ Parent[b] = target
    /\ Needs[b] \subseteq CoinsView
    /\ cache' = Update(cache, {}, Creates[b])
    /\ evo' = [Processed(evo, b) EXCEPT !.best = evo.best]
    /\ target' = b
    /\ UNCHANGED <<disk, index, dirty, tip, cacheBest, pc, stage, wiped>>

RollforwardNeedsInputs(b) ==
    /\ pc = "roll"
    /\ b \in Anc[dHeads[1]] \ {Genesis} /\ Parent[b] = target
    /\ \/ /\ ~(Needs[b] \cup Spends[b] \subseteq CoinsView)
          /\ Fails
          /\ cache' = Clean
          /\ UNCHANGED <<evo, target>>
       \/ /\ Needs[b] \cup Spends[b] \subseteq CoinsView
          /\ cache' = Update(cache, Spends[b], Creates[b])
          /\ evo' = [Processed(evo, b) EXCEPT !.best = evo.best]
          /\ target' = b
          /\ UNCHANGED pc
    /\ UNCHANGED <<disk, index, dirty, tip, cacheBest, stage, wiped>>

\* RollforwardBlock: special transactions first, against the coins as the
\* interrupted flush left them; then coins are spent and added again.
RollforwardBlock(b) ==
    /\ pc = "roll"
    /\ b \in Anc[dHeads[1]] \ {Genesis} /\ Parent[b] = target
    /\ \/ /\ ~(Needs[b] \subseteq CoinsView)
          /\ Fails
          /\ cache' = Clean
          /\ UNCHANGED <<evo, target>>
       \/ /\ Needs[b] \subseteq CoinsView
          /\ cache' = Update(cache, Spends[b], Creates[b])
          /\ evo' = [Processed(evo, b) EXCEPT !.best = evo.best]
          /\ target' = b
          /\ UNCHANGED pc
    /\ UNCHANGED <<disk, index, dirty, tip, cacheBest, stage, wiped>>

\* The end of ReplayBlocks: both databases move to the new tip.  The coins are
\* flushed next; the evodb transaction only goes to the root transaction.
ReplayDone ==
    /\ pc = "roll" /\ target = dHeads[1]
    /\ cacheBest' = dHeads[1]
    /\ evo' = [evo EXCEPT !.best = dHeads[1]]
    /\ pc' = "rcoins"
    /\ UNCHANGED <<disk, index, dirty, tip, cache, target, stage, wiped>>

\* Mutant: the load loop is entered again.
CommitAndReload ==
    /\ pc = "rcommit"
    /\ dEvo' = evo
    /\ pc' = "replay"
    /\ UNCHANGED <<dIndex, dCoins, dBest, dHeads, memory, target, stage, wiped>>

\* "flush evodb": the transaction of ReplayBlocks becomes durable.
CommitReplayedEvoDB ==
    /\ pc = "rcommit"
    /\ dEvo' = evo
    /\ pc' = "loadtip"
    /\ UNCHANGED <<dIndex, dCoins, dBest, dHeads, memory, target, stage, wiped>>

\* The coins view, the block index and evodb do not fit together.
CannotLoadTip ==
    \/ cacheBest = NoBlock /\ dEvo # EmptyEvo
    \/ cacheBest # NoBlock /\ cacheBest \notin index
    \/ cacheBest # NoBlock /\ dEvo.best = NoBlock /\ Height[cacheBest] > 1

\* CQuorumBlockProcessor::UpgradeDB writes these blocks' commitments again.
Reprocessed ==
    IF cacheBest # NoBlock /\ dEvo.best # cacheBest
      THEN {b \in Anc[cacheBest] : Height[b] >= DIP3EnforcementHeight}
      ELSE {}

\* LoadChainTip, the emptiness check and the two evodb upgrades.  An evodb
\* without a best block gets one (in the root transaction); the commitments go
\* to the database directly.
LoadChainTip ==
    /\ pc = "loadtip"
    /\ \/ /\ CannotLoadTip
          /\ Fails
          /\ UNCHANGED <<tip, target, evo, dEvo>>
       \/ /\ ~CannotLoadTip
          /\ tip' = cacheBest
          /\ target' = cacheBest
          /\ dEvo' = [dEvo EXCEPT !.mined = @ \cup Reprocessed]
          /\ evo' = [best  |-> IF evo.best = NoBlock THEN cacheBest ELSE evo.best,
                     mined |-> evo.mined \cup Reprocessed]
          /\ pc' = "verify"
    /\ UNCHANGED <<dIndex, dCoins, dBest, dHeads, index, dirty, cache, cacheBest, stage, wiped>>

\* The blocks that VerifyDB looks at.
ToVerify ==
    IF tip = NoBlock THEN {}
    ELSE {b \in Anc[tip] \ {Genesis} : Height[b] > Height[tip] - CheckDepth}

\* VerifyDB at level 3 undoes the last CheckDepth blocks in memory, one at a
\* time: cache holds its view, target the block it has reached.  Its evodb
\* transaction follows, so evodb can only be found at the wrong block at the tip.
VerifyBlock ==
    /\ pc = "verify"
    /\ target \in ToVerify
    /\ LET evoThere == IF target = tip THEN evo ELSE [evo EXCEPT !.best = target]
       IN  \/ /\ CannotUndo(target, evoThere, CoinsView)
              /\ Fails
              /\ cache' = Clean
              /\ UNCHANGED target
           \/ /\ ~CannotUndo(target, evoThere, CoinsView)
              /\ cache' = Update(cache, Creates[target], Spends[target])
              /\ target' = Parent[target]
              /\ UNCHANGED pc
    /\ UNCHANGED <<disk, index, dirty, tip, cacheBest, evo, stage, wiped>>

\* The temporary view and evodb transaction are dropped; the node runs.
VerifyDone ==
    /\ pc = "verify"
    /\ target \notin ToVerify
    /\ cache' = Clean
    /\ target' = NoBlock
    /\ pc' = "run"
    /\ UNCHANGED <<disk, index, dirty, tip, cacheBest, evo, stage, wiped>>

\* The user gives up the rebuild that is offered: Shutdown() follows.
Exit ==
    /\ pc = "failed"
    /\ FirstFlush
    /\ UNCHANGED <<disk, memory, target, wiped>>

\* A start with -reindex-chainstate, whenever the user asks for it: CEvoDB is
\* opened with fWipe ...
WipeEvoDB ==
    /\ pc = "down"
    /\ LoadIndex
    /\ dEvo' = EmptyEvo
    /\ wiped' = TRUE
    /\ pc' = "wipe"
    /\ UNCHANGED <<dIndex, dCoins, dBest, dHeads, tip, cache, cacheBest, evo, target, stage>>

\* ... and the coins database later; the chain is then connected again.
WipeCoins ==
    /\ pc = "wipe"
    /\ dCoins' = {} /\ dBest' = NoBlock /\ dHeads' = <<>>
    /\ pc' = "run"
    /\ wiped' = FALSE
    /\ UNCHANGED <<dIndex, dEvo, memory, target, stage>>

Init ==
    /\ dIndex = {} /\ dCoins = {} /\ dBest = NoBlock /\ dHeads = <<>>
    /\ dEvo = EmptyEvo
    /\ index = {} /\ dirty = {} /\ tip = NoBlock /\ cache = Clean /\ cacheBest = NoBlock
    /\ evo = EmptyEvo
    /\ pc = "down" /\ target = NoBlock /\ stage = 0 /\ wiped = FALSE

\* What the running node may do; which block ActivateBestChainStep connects or
\* disconnects next is left open.
Operate ==
    \/ \E b \in Block : AcceptBlock(b) \/ ConnectTip(b)
    \/ DisconnectTip \/ TipAssertionFails
    \/ FlushNotNeeded \/ PeriodicWrite \/ FlushStateToDisk \/ WriteIndexFails
    \/ \E S \in SUBSET Coin : WritePartialBatch(S) \/ WriteBatchThrows(S)
    \/ AssertionFails \/ WriteFinalBatch \/ CommitEvoDB \/ CommitEvoDBThrows
    \/ RequestShutdown \/ Shutdown \/ ShutdownEmpty \/ Crash

\* The steps of AppInitMain.
StartUp ==
    \/ LoadBlockIndex \/ ReplayBlocks
    \/ \E b \in Block : RollforwardBlock(b)
    \/ ReplayDone \/ CommitReplayedEvoDB \/ LoadChainTip
    \/ VerifyBlock \/ VerifyDone

Next == Operate \/ StartUp \/ Exit \/ WipeEvoDB \/ WipeCoins

Spec == Init /\ [][Next]_vars

\* A start that is not disturbed goes on: AppInitMain runs in one thread.
FairSpec == Spec /\ WF_vars(StartUp) /\ WF_vars(WriteFinalBatch) /\ WF_vars(WipeCoins)

----------------------------------------------------------------------------
(* Properties *)

\* The evodb content that belongs to a chain.
MinedOn(b) == {a \in Anc[b] : DIP3Active(a)}

\* A coins database that names a best block holds exactly that block's coins:
\* whatever flush, replay or verification a crash interrupts, a partly written
\* database is never taken for a finished one.
CoinsDbMatchesBestBlock == dBest # NoBlock => dCoins = Utxo[dBest]

\* A node that accepts blocks has its coins view, its evodb and its tip at the
\* same block, after any sequence of crashes, replays and reindexing; except
\* that evodb may lack blocks after a -reindex-chainstate that did not get to
\* the coins database (EvoDBIsComplete).
RunningNodeConsistent ==
    pc = "run" /\ tip # NoBlock =>
        /\ cacheBest = tip
        /\ CoinsView = Utxo[tip]
        /\ DIP3Active(tip) /\ ~wiped => evo = [best |-> tip, mined |-> MinedOn(tip)]

\* ConnectBlock's check of evodb's best block is there "to ensure evodb
\* consistency": it lets a node go on only when evodb has processed the whole
\* chain.
EvoDBIsComplete ==
    pc = "run" /\ tip # NoBlock /\ DIP3Active(tip) /\ evo.best = tip =>
        evo.mined = MinedOn(tip)

\* BatchWrite's assert(old_heads[0] == hashBlock): an interrupted transition is
\* only ever resumed to the block it was going to.
TransitionResumed == pc \in {"coins", "rcoins"} => Resumes

\* An interrupted transition starts where evodb still stands, so replaying the
\* special transactions from the old tip is right; unless a reindex has wiped
\* evodb and not the coins.
ReplayStartsAtEvoDB ==
    dHeads # <<>> /\ dHeads[2] # NoBlock /\ DIP3Active(dHeads[2]) /\ ~wiped =>
        dEvo = [best |-> dHeads[2], mined |-> MinedOn(dHeads[2])]

\* Whatever write fails and whatever crash follows, evodb on disk only moves to
\* a block at which the coins database has arrived: FlushStateToDisk and the
\* start-up commit evodb after the coins, and the batch that a failed commit
\* left is never written for another block.
EvoDBFollowsCoins ==
    [][dEvo'.best \notin {dEvo.best, NoBlock} => dHeads = <<>> /\ dEvo'.best = dBest]_vars

\* Every block the coins database names is in the block index on disk.
IndexCoversCoins ==
    ({dBest} \cup {dHeads[i] : i \in DOMAIN dHeads}) \ {NoBlock} \subseteq dIndex

\* The node always starts again without a reindex.
NeverNeedsReindex == pc # "failed"

\* Once the process stops dying, a start that a crash made necessary succeeds
\* (or the user stops the node): ReplayBlocks finishes the interrupted flush.
RecoverySucceeds ==
    <>[][~Crash]_vars => [](pc = "down" => <>(pc \in {"run", "stopping"}))

\* Rolling a block forward does not fail on coins that later blocks of the
\* interrupted flush have already spent.
RollforwardIgnoresApplied == [][pc = "roll" => pc' # "failed"]_vars

=============================================================================
