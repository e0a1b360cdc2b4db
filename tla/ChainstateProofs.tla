-------------------------- MODULE ChainstateProofs --------------------------
(***************************************************************************)
(* Theorems about Chainstate, for every block tree.                        *)
(***************************************************************************)
EXTENDS Chainstate, WellFoundedInduction, TLAPS

----------------------------------------------------------------------------
(* Types *)

\* The points at which a coins batch is written, or has just been written,
\* have a block to move to; a replay has a transition to finish.
Control ==
    /\ pc \in {"coins", "rcoins", "evo"} => cacheBest # NoBlock
    /\ pc \in {"roll", "rcoins"} => dHeads # <<>>

Shape == TypeOK /\ Control

\* The states a coin can have in the cache are kept by every change of it.
LEMMA CacheType ==
    ASSUME TypeOK
    PROVE  /\ Clean \in [Coin -> {"none", "add", "spend"}]
           /\ \A S : Dropped(S) \in [Coin -> {"none", "add", "spend"}]
           /\ \A S, A : Update(cache, S, A) \in [Coin -> {"none", "add", "spend"}]
           /\ \A S : Written(S) \subseteq Coin
  BY Zenon DEF TypeOK, Clean, Dropped, Update, Written

\* The contents evodb can get.
LEMMA EvoType ==
    ASSUME TypeOK
    PROVE  /\ EmptyEvo \in EvoContent
           /\ \A b \in Block : Processed(evo, b) \in EvoContent
           /\ \A b \in Block : [Processed(evo, b) EXCEPT !.best = evo.best] \in EvoContent
           /\ \A b \in Block : [evo EXCEPT !.best = b] \in EvoContent
           /\ \A b \in Block, a \in MaybeBlock :
                [best |-> a, mined |-> evo.mined \ {b}] \in EvoContent
           /\ \A S \in SUBSET Block, a \in MaybeBlock :
                [best |-> a, mined |-> evo.mined \cup S] \in EvoContent
           /\ \A S \in SUBSET Block :
                [dEvo EXCEPT !.mined = @ \cup S] \in EvoContent
<1> USE DEF TypeOK, EvoContent, MaybeBlock
<1>1. EmptyEvo \in EvoContent
  BY Zenon DEF EmptyEvo
<1>2. ASSUME NEW b \in Block
      PROVE  /\ Processed(evo, b) \in EvoContent
             /\ [Processed(evo, b) EXCEPT !.best = evo.best] \in EvoContent
             /\ [evo EXCEPT !.best = b] \in EvoContent
  BY Zenon DEF Processed
<1>3. ASSUME NEW b \in Block, NEW a \in MaybeBlock
      PROVE  [best |-> a, mined |-> evo.mined \ {b}] \in EvoContent
  BY Zenon
<1>4. ASSUME NEW S \in SUBSET Block, NEW a \in MaybeBlock
      PROVE  /\ [best |-> a, mined |-> evo.mined \cup S] \in EvoContent
             /\ [dEvo EXCEPT !.mined = @ \cup S] \in EvoContent
  BY Zenon
<1> QED BY Zenon, <1>1, <1>2, <1>3, <1>4, TreeAssumption

LEMMA AllPoints ==
    Points = {"run", "ifneeded", "coins", "evo", "stopping", "replay", "roll", "rcoins",
              "rcommit", "loadtip", "verify", "down", "failed", "wipe"}
  BY Zenon DEF Points, Running, Starting

LEMMA AllStages == 0 .. 3 = {0, 1, 2, 3}
  BY SMT

\* The process is gone: everything in memory has its initial value.
LEMMA EndsShape ==
    ASSUME TypeOK, ProcessEnds, dIndex' \subseteq Block, UNCHANGED <<dCoins, dBest, dHeads>>,
           dEvo' \in EvoContent, UNCHANGED wiped
    PROVE  Shape'
  BY CacheType, EvoType, AllPoints
  DEF Shape, Control, TypeOK, ProcessEnds, MaybeBlock

\* A failed flush goes on with what it left in the cache and in setDirtyBlockIndex.
LEMMA FlushFailsShape ==
    ASSUME Shape, NEW ch \in [Coin -> {"none", "add", "spend"}], NEW d \in SUBSET index,
           FlushFails(ch, d), UNCHANGED <<disk, wiped>>
    PROVE  Shape'
<1>1. CASE stage = 3 /\ ProcessEnds
  BY Zenon, <1>1, EndsShape DEF Shape, TypeOK, disk
<1>2. CASE pc' = "run" \/ pc' = "stopping"
  BY Zenon, <1>2, AllPoints, AllStages
  DEF FlushFails, Shape, Control, TypeOK, disk, StartShutdown, ProcessEnds
<1> QED BY Zenon, <1>1, <1>2 DEF FlushFails, StartShutdown

LEMMA ShapeInit == Init => Shape
<1>1. Clean \in [Coin -> {"none", "add", "spend"}] /\ EmptyEvo \in EvoContent
  BY Zenon DEF Clean, EmptyEvo, EvoContent, MaybeBlock
<1> QED BY Zenon, <1>1, AllPoints, AllStages DEF Init, Shape, Control, TypeOK, MaybeBlock

LEMMA ShapeStep == Shape /\ [Next]_vars => Shape'
<1> SUFFICES ASSUME Shape, [Next]_vars PROVE Shape'
  BY Zenon
<1> USE TreeAssumption, CacheType, EvoType, AllPoints, AllStages
    DEF Shape, Control, TypeOK, disk, memory, StartShutdown, FirstFlush, Fails, MaybeBlock
<1>1. ASSUME NEW b \in Block, AcceptBlock(b) PROVE Shape'
  BY Zenon, <1>1 DEF AcceptBlock
<1>2. ASSUME NEW b \in Block, ConnectTip(b) PROVE Shape'
  BY <1>2 DEF ConnectTip
<1>3. CASE DisconnectTip
  <2>1. tip \in Block \ {Genesis} /\ Parent[tip] \in Block
    BY <1>3, ParameterAssumption DEF DisconnectTip
  <2> QED BY <1>3, <2>1 DEF DisconnectTip
<1>4. CASE FlushNotNeeded
  BY <1>4 DEF FlushNotNeeded
<1>5. CASE PeriodicWrite
  BY Zenon, <1>5 DEF PeriodicWrite, WriteIndex
<1>6. CASE FlushStateToDisk
  BY <1>6 DEF FlushStateToDisk, WriteIndex
<1>7. ASSUME NEW S \in SUBSET Coin, WritePartialBatch(S) PROVE Shape'
  <2>1. <<cacheBest, OldTip>> \in Block \X MaybeBlock
    BY Zenon, <1>7 DEF WritePartialBatch, OldTip
  <2> QED BY <1>7, <2>1 DEF WritePartialBatch
<1>8. ASSUME NEW S \in SUBSET Coin, WriteBatchThrows(S) PROVE Shape'
  <2>1. CASE pc = "coins" /\ FlushFails(Dropped(S), dirty)
    BY Zenon, <1>8, <2>1, FlushFailsShape DEF WriteBatchThrows
  <2>2. CASE pc = "rcoins"
    BY <1>8, <2>2 DEF WriteBatchThrows
  <2> QED BY Zenon, <1>8, <2>1, <2>2 DEF WriteBatchThrows
<1>9. CASE WriteFinalBatch
  BY <1>9 DEF WriteFinalBatch
<1>10. CASE CommitEvoDB
  <2>1. CASE stage \in {0, 1}
    BY <1>10, <2>1 DEF CommitEvoDB, FlushReturns
  <2>2. CASE stage = 2
    BY <1>10, <2>2 DEF CommitEvoDB, FlushReturns
  <2>3. CASE stage = 3
    BY <1>10, <2>3, EndsShape DEF CommitEvoDB, FlushReturns
  <2> QED BY Zenon, <2>1, <2>2, <2>3
<1>11. CASE CommitEvoDBThrows
  <2>1. CASE pc = "evo" /\ FlushFails(cache, dirty)
    BY Zenon, <1>11, <2>1, FlushFailsShape DEF CommitEvoDBThrows
  <2>2. CASE pc = "rcommit"
    BY <1>11, <2>2 DEF CommitEvoDBThrows
  <2> QED BY Zenon, <1>11, <2>1, <2>2 DEF CommitEvoDBThrows
<1>12. CASE RequestShutdown
  BY <1>12 DEF RequestShutdown
<1>13. CASE ShutdownEmpty
  BY Zenon, <1>13, EndsShape DEF ShutdownEmpty
<1>14. CASE Crash
  BY Zenon, <1>14, EndsShape DEF Crash
<1>15. CASE LoadBlockIndex
  BY Zenon, <1>15 DEF LoadBlockIndex, LoadIndex
<1>16. CASE ReplayBlocks
  <2>1. dHeads # <<>> => dHeads[2] \in MaybeBlock
    BY Zenon
  <2> QED BY <1>16, <2>1 DEF ReplayBlocks
<1>17. ASSUME NEW b \in Block, RollforwardBlock(b) PROVE Shape'
  BY <1>17 DEF RollforwardBlock
<1>18. CASE ReplayDone
  <2>1. dHeads[1] \in Block
    BY Zenon, <1>18 DEF ReplayDone
  <2> QED BY <1>18, <2>1 DEF ReplayDone
<1>19. CASE CommitReplayedEvoDB
  BY Zenon, <1>19 DEF CommitReplayedEvoDB
<1>20. CASE LoadChainTip
  <2>1. Reprocessed \in SUBSET Block
    <3>1. cacheBest # NoBlock => Anc[cacheBest] \subseteq Block
      BY Zenon, TreeAssumption DEF TypeOK, MaybeBlock
    <3> QED BY ONLY Zenon, <3>1 DEF Reprocessed
  <2>2. evo.best \in MaybeBlock
    BY Zenon DEF EvoContent
  <2>3. dEvo' \in EvoContent /\ evo' \in EvoContent
    <3>1. CASE UNCHANGED <<dEvo, evo>>
      BY Zenon, <3>1
    <3>2. CASE /\ dEvo' = [dEvo EXCEPT !.mined = @ \cup Reprocessed]
               /\ evo' = [best  |-> IF evo.best = NoBlock THEN cacheBest ELSE evo.best,
                          mined |-> evo.mined \cup Reprocessed]
      BY Zenon, <2>1, <2>2, <3>2
    <3> QED BY Zenon, <1>20, <3>1, <3>2 DEF LoadChainTip
  <2> QED BY <1>20, <2>3 DEF LoadChainTip
<1>21. CASE VerifyBlock
  <2>1. target \in Block \ {Genesis} /\ Parent[target] \in Block
    BY Zenon, <1>21 DEF VerifyBlock, ToVerify
  <2> QED BY <1>21, <2>1 DEF VerifyBlock
<1>22. CASE VerifyDone
  BY <1>22 DEF VerifyDone
<1>23. CASE Exit
  BY Zenon, <1>23 DEF Exit
<1>24. CASE WipeEvoDB
  BY Zenon, <1>24 DEF WipeEvoDB, LoadIndex
<1>25. CASE WipeCoins
  <2>1. wiped' \in BOOLEAN /\ dCoins' \subseteq Coin /\ dBest' \in MaybeBlock /\ dHeads' = <<>>
    BY Zenon, <1>25 DEF WipeCoins
  <2>2. pc' \in Points /\ pc' \notin {"coins", "evo", "rcoins", "roll"}
    BY Zenon, <1>25 DEF WipeCoins
  <2>3. UNCHANGED <<dIndex, index, dirty, cache, tip, cacheBest, target, dEvo, evo, stage>>
    BY Zenon, <1>25 DEF WipeCoins
  <2>4. dBest' = NoBlock
    BY Zenon, <1>25 DEF WipeCoins
  <2> QED BY ONLY Shape, <2>1, <2>2, <2>3, <2>4 DEF Shape, Control, TypeOK
<1>26. CASE UNCHANGED vars
  BY Zenon, <1>26 DEF vars
<1>27. CASE TipAssertionFails
  BY Zenon, <1>27, EndsShape DEF TipAssertionFails
<1>28. CASE AssertionFails
  BY Zenon, <1>28, EndsShape DEF AssertionFails
<1>29. CASE WriteIndexFails
  <2>1. PICK d \in SUBSET index : FlushFails(cache, d)
    BY Zenon, <1>29 DEF WriteIndexFails
  <2> QED BY Zenon, <1>29, <2>1, FlushFailsShape DEF WriteIndexFails
<1>30. CASE Shutdown
  BY Zenon, <1>30 DEF Shutdown
<1> QED
  BY Zenon, <1>1, <1>2, <1>3, <1>4, <1>5, <1>6, <1>7, <1>8, <1>9, <1>10, <1>11, <1>12, <1>13, <1>14,
     <1>15, <1>16, <1>17, <1>18, <1>19, <1>20, <1>21, <1>22, <1>23, <1>24, <1>25, <1>26, <1>27, <1>28,
     <1>29, <1>30
  DEF Next, Operate, StartUp

\* Type correctness: whatever is written, lost or replayed, the databases and
\* the memory of the node stay well formed, and the transition marker excludes
\* a best block in the coins database.
THEOREM TypeCorrect == Spec => []TypeOK
<1>1. Shape => TypeOK
  BY Zenon DEF Shape
<1> QED BY <1>1, ShapeInit, ShapeStep, PTL DEF Spec

----------------------------------------------------------------------------
(* The transition marker.  It is an invariant as long as the writes of the *)
(* coins do not fail: after a failed one the node may connect another block *)
(* while the transition is pending.                                        *)

\* The points at which no transition of the coins database is pending.
Settled == {"run", "ifneeded", "evo", "rcommit", "loadtip", "verify"}

\* A pending transition goes to the block of the cache; the forced flushes are
\* the second and third stage.
MarkerInv ==
    /\ pc \in Settled => dHeads = <<>>
    /\ dHeads # <<>> /\ cacheBest # NoBlock => dHeads[1] = cacheBest
    /\ pc = "stopping" => stage \in {2, 3}

Marked == Shape /\ MarkerInv

LEMMA MarkedInit == Init => Marked
  BY Zenon, ShapeInit DEF Init, Marked, MarkerInv, Settled

LEMMA MarkedStep ==
    ASSUME "coins" \notin FailAt
    PROVE  Marked /\ [Next]_vars => Marked'
<1> SUFFICES ASSUME Marked, [Next]_vars PROVE MarkerInv'
  BY Zenon, ShapeStep DEF Marked
<1> USE DEF Marked, Shape, Control, MarkerInv, Settled,
            disk, memory, StartShutdown, FirstFlush, Fails
<1>s. 0 # 2 /\ 0 # 3 /\ 1 # 2 /\ 1 # 3
  BY SMT
<1>0. ASSUME ProcessEnds PROVE MarkerInv'
  BY Zenon, <1>0 DEF ProcessEnds
<1>f. ASSUME NEW ch, NEW d, FlushFails(ch, d), UNCHANGED dHeads, pc = "stopping" \/ dHeads = <<>>
      PROVE  MarkerInv'
  <2>1. CASE stage \in {0, 1} /\ StartShutdown /\ UNCHANGED cacheBest
    <3>1. pc # "stopping"
      BY Zenon, <2>1, <1>s
    <3> QED BY Zenon, <1>f, <2>1, <3>1
  <2>2. CASE pc' = "stopping" /\ stage' = 3 /\ UNCHANGED cacheBest
    BY Zenon, <1>f, <2>2
  <2> QED BY Zenon, <1>0, <1>f, <2>1, <2>2 DEF FlushFails
<1>1. ASSUME NEW b \in Block, AcceptBlock(b) PROVE MarkerInv'
  BY Zenon, <1>1 DEF AcceptBlock
<1>2. ASSUME NEW b \in Block, ConnectTip(b) PROVE MarkerInv'
  BY Zenon, <1>2 DEF ConnectTip
<1>3. CASE DisconnectTip
  BY Zenon, <1>3 DEF DisconnectTip
<1>4. CASE FlushNotNeeded
  BY Zenon, <1>4 DEF FlushNotNeeded
<1>5. CASE PeriodicWrite
  BY Zenon, <1>5 DEF PeriodicWrite
<1>6. CASE FlushStateToDisk
  BY Zenon, <1>6 DEF FlushStateToDisk
<1>7. ASSUME NEW S \in SUBSET Coin, WritePartialBatch(S) PROVE MarkerInv'
  <2>1. dHeads'[1] = cacheBest
    BY <1>7 DEF WritePartialBatch
  <2> QED BY Zenon, <1>7, <2>1 DEF WritePartialBatch
<1>8. ASSUME NEW S \in SUBSET Coin, WriteBatchThrows(S) PROVE MarkerInv'
  BY Zenon, <1>8 DEF WriteBatchThrows
<1>9. CASE WriteFinalBatch
  BY Zenon, <1>9 DEF WriteFinalBatch
<1>10. CASE CommitEvoDB
  BY Zenon, <1>0, <1>10 DEF CommitEvoDB, FlushReturns
<1>11. CASE CommitEvoDBThrows
  BY Zenon, <1>f, <1>11 DEF CommitEvoDBThrows
<1>12. CASE RequestShutdown
  BY Zenon, <1>12 DEF RequestShutdown
<1>13. CASE ShutdownEmpty
  BY Zenon, <1>0, <1>13 DEF ShutdownEmpty
<1>14. CASE Crash
  BY Zenon, <1>0, <1>14 DEF Crash
<1>15. CASE LoadBlockIndex
  BY Zenon, <1>15 DEF LoadBlockIndex
<1>16. CASE ReplayBlocks
  BY Zenon, <1>16 DEF ReplayBlocks
<1>17. ASSUME NEW b \in Block, RollforwardBlock(b) PROVE MarkerInv'
  BY Zenon, <1>17 DEF RollforwardBlock
<1>18. CASE ReplayDone
  BY Zenon, <1>18 DEF ReplayDone
<1>19. CASE CommitReplayedEvoDB
  BY Zenon, <1>19 DEF CommitReplayedEvoDB
<1>20. CASE LoadChainTip
  BY Zenon, <1>20 DEF LoadChainTip
<1>21. CASE VerifyBlock
  BY Zenon, <1>21 DEF VerifyBlock
<1>22. CASE VerifyDone
  BY Zenon, <1>22 DEF VerifyDone
<1>23. CASE Exit
  BY Zenon, <1>23 DEF Exit
<1>24. CASE WipeEvoDB
  BY Zenon, <1>24 DEF WipeEvoDB
<1>25. CASE WipeCoins
  BY Zenon, <1>25 DEF WipeCoins
<1>26. CASE UNCHANGED vars
  BY Zenon, <1>26 DEF vars
<1>27. CASE TipAssertionFails
  BY Zenon, <1>0, <1>27 DEF TipAssertionFails
<1>28. CASE AssertionFails
  BY Zenon, <1>0, <1>28 DEF AssertionFails
<1>29. CASE WriteIndexFails
  BY Zenon, <1>f, <1>29 DEF WriteIndexFails
<1>30. CASE Shutdown
  BY Zenon, <1>30 DEF Shutdown
<1> QED
  BY Zenon, <1>1, <1>2, <1>3, <1>4, <1>5, <1>6, <1>7, <1>8, <1>9, <1>10, <1>11, <1>12, <1>13, <1>14,
     <1>15, <1>16, <1>17, <1>18, <1>19, <1>20, <1>21, <1>22, <1>23, <1>24, <1>25, <1>26, <1>27, <1>28,
     <1>29, <1>30
  DEF Next, Operate, StartUp

\* As long as the writes of the coins do not fail, BatchWrite's assertion
\* old_heads[0] == hashBlock cannot either: whatever crashes and whatever other
\* writes fail, an interrupted transition of the coins database is only resumed
\* to the block it was going to.
THEOREM TransitionIsResumed ==
    ASSUME "coins" \notin FailAt
    PROVE  Spec => []TransitionResumed
<1>1. Marked => TransitionResumed
  BY Zenon DEF Marked, MarkerInv, TransitionResumed, Resumes, Shape, Control
<1> QED BY <1>1, MarkedInit, MarkedStep, PTL DEF Spec

----------------------------------------------------------------------------
(* The block index, as long as its own writes do not fail *)

\* The index in memory is the one on disk and the dirty entries, both hold the
\* ancestors of their blocks, and every block the node works on is in them.
IndexInv ==
    /\ dBest \in dIndex \cup {NoBlock}
    /\ dHeads # <<>> => dHeads[1] \in dIndex /\ dHeads[2] \in dIndex \cup {NoBlock}
    /\ pc # "down" => index = dIndex \cup dirty
    /\ IF pc = "down" THEN index = {} ELSE Genesis \in index
    /\ \A b \in index : Anc[b] \subseteq index
    /\ \A b \in dIndex : Anc[b] \subseteq dIndex
    /\ {cacheBest, tip, target} \subseteq index \cup {NoBlock}
    /\ pc \in {"coins", "rcoins"} => cacheBest \in dIndex

Indexed == Shape /\ IndexInv

\* A block is one of its ancestors, and so is its parent.
LEMMA AncParent ==
    /\ \A b \in Block : b \in Anc[b]
    /\ \A b \in Block \ {Genesis} : Parent[b] \in Anc[b]
  BY Zenon, TreeAssumption

LEMMA IndexedInit == Init => Indexed
  BY Zenon, ShapeInit DEF Init, Indexed, IndexInv

LEMMA IndexedStep ==
    ASSUME "index" \notin FailAt
    PROVE  Indexed /\ [Next]_vars => Indexed'
<1> SUFFICES ASSUME Indexed, [Next]_vars PROVE IndexInv'
  BY Zenon, ShapeStep DEF Indexed
<1> USE DEF Indexed, Shape, Control, TypeOK, IndexInv,
            disk, memory, StartShutdown, FirstFlush, Fails, MaybeBlock
<1>0. ASSUME ProcessEnds, UNCHANGED <<dBest, dHeads>>,
             \/ UNCHANGED dIndex
             \/ dIndex' = index /\ pc # "down"
      PROVE  IndexInv'
  BY Zenon, <1>0 DEF ProcessEnds
<1>f. ASSUME NEW ch, FlushFails(ch, dirty), UNCHANGED disk, pc # "down"
      PROVE  IndexInv'
  BY Zenon, <1>0, <1>f DEF FlushFails
<1>l. ASSUME LoadIndex, pc = "down", UNCHANGED <<dIndex, dBest, dHeads, tip, cacheBest, target>>,
             pc' \in {"replay", "wipe"}
      PROVE  IndexInv'
  <2>1. index' = dIndex' \cup dirty' /\ Genesis \in index'
    BY Zenon, <1>l DEF LoadIndex
  <2>2. \A b \in index' : Anc[b] \subseteq index'
    BY Zenon, <1>l, TreeAssumption DEF LoadIndex
  <2> QED BY Zenon, <1>l, <2>1, <2>2
<1>1. ASSUME NEW b \in Block, AcceptBlock(b) PROVE IndexInv'
  <2>1. b # Genesis
    BY Zenon, <1>1 DEF AcceptBlock
  <2>2. Anc[b] \subseteq index'
    BY <1>1, <2>1, TreeAssumption DEF AcceptBlock
  <2>3. index' = dIndex' \cup dirty'
    BY Zenon, <1>1 DEF AcceptBlock
  <2> QED BY Zenon, <1>1, <2>2, <2>3 DEF AcceptBlock
<1>2. ASSUME NEW b \in Block, ConnectTip(b) PROVE IndexInv'
  <2>1. index' = dIndex' \cup dirty'
    BY Zenon, <1>2 DEF ConnectTip
  <2> QED BY Zenon, <1>2, <2>1 DEF ConnectTip
<1>3. CASE DisconnectTip
  <2>1. tip \in Block \ {Genesis}
    BY <1>3, ParameterAssumption, TreeAssumption DEF DisconnectTip
  <2>2. Parent[tip] \in index
    BY Zenon, <1>3, <2>1, AncParent, TreeAssumption DEF DisconnectTip
  <2> QED BY Zenon, <1>3, <2>2 DEF DisconnectTip
<1>4. CASE FlushNotNeeded
  BY Zenon, <1>4 DEF FlushNotNeeded
<1>w. ASSUME WriteIndex, pc # "down", UNCHANGED index PROVE dIndex' = index /\ index' = dIndex' \cup dirty'
  BY Zenon, <1>w DEF WriteIndex
<1>5. CASE PeriodicWrite
  BY Zenon, <1>5, <1>w DEF PeriodicWrite
<1>6. CASE FlushStateToDisk
  BY Zenon, <1>6, <1>w DEF FlushStateToDisk
<1>7. ASSUME NEW S \in SUBSET Coin, WritePartialBatch(S) PROVE IndexInv'
  BY Zenon, <1>7 DEF WritePartialBatch, OldTip
<1>8. ASSUME NEW S \in SUBSET Coin, WriteBatchThrows(S) PROVE IndexInv'
  BY Zenon, <1>f, <1>8 DEF WriteBatchThrows
<1>9. CASE WriteFinalBatch
  BY Zenon, <1>9 DEF WriteFinalBatch
<1>10. CASE CommitEvoDB
  BY Zenon, <1>0, <1>10 DEF CommitEvoDB, FlushReturns
<1>11. CASE CommitEvoDBThrows
  BY Zenon, <1>f, <1>11 DEF CommitEvoDBThrows
<1>12. CASE RequestShutdown
  BY Zenon, <1>12 DEF RequestShutdown
<1>13. CASE ShutdownEmpty
  BY Zenon, <1>0, <1>13 DEF ShutdownEmpty
<1>14. CASE Crash
  BY Zenon, <1>0, <1>14 DEF Crash
<1>15. CASE LoadBlockIndex
  BY Zenon, <1>15, <1>l DEF LoadBlockIndex
<1>16. CASE ReplayBlocks
  BY <1>16 DEF ReplayBlocks, CannotReplay
<1>17. ASSUME NEW b \in Block, RollforwardBlock(b) PROVE IndexInv'
  <2>1. b \in index
    BY Zenon, <1>17 DEF RollforwardBlock
  <2> QED BY <1>17, <2>1 DEF RollforwardBlock
<1>18. CASE ReplayDone
  BY Zenon, <1>18 DEF ReplayDone
<1>19. CASE CommitReplayedEvoDB
  BY Zenon, <1>19 DEF CommitReplayedEvoDB
<1>20. CASE LoadChainTip
  BY <1>20 DEF LoadChainTip
<1>21. CASE VerifyBlock
  <2>1. target \in Block \ {Genesis} /\ target \in index
    BY Zenon, <1>21, TreeAssumption DEF VerifyBlock, ToVerify
  <2>2. Parent[target] \in index
    BY Zenon, <2>1, AncParent
  <2> QED BY Zenon, <1>21, <2>2 DEF VerifyBlock
<1>22. CASE VerifyDone
  BY Zenon, <1>22 DEF VerifyDone
<1>23. CASE Exit
  BY Zenon, <1>23 DEF Exit
<1>24. CASE WipeEvoDB
  BY Zenon, <1>24, <1>l DEF WipeEvoDB
<1>25. CASE WipeCoins
  BY Zenon, <1>25 DEF WipeCoins
<1>26. CASE UNCHANGED vars
  BY Zenon, <1>26 DEF vars
<1>27. CASE TipAssertionFails
  BY Zenon, <1>0, <1>27 DEF TipAssertionFails
<1>28. CASE AssertionFails
  BY Zenon, <1>0, <1>28 DEF AssertionFails
<1>29. CASE WriteIndexFails
  BY Zenon, <1>29 DEF WriteIndexFails
<1>30. CASE Shutdown
  BY Zenon, <1>30 DEF Shutdown
<1> QED
  BY Zenon, <1>1, <1>2, <1>3, <1>4, <1>5, <1>6, <1>7, <1>8, <1>9, <1>10, <1>11, <1>12, <1>13, <1>14,
     <1>15, <1>16, <1>17, <1>18, <1>19, <1>20, <1>21, <1>22, <1>23, <1>24, <1>25, <1>26, <1>27, <1>28,
     <1>29, <1>30
  DEF Next, Operate, StartUp

\* FlushStateToDisk writes the block index before the coins, so as long as the
\* writes of the index do not fail, the index on disk has every block the coins
\* database names, after any crash and whatever other writes fail.
THEOREM IndexIsAhead ==
    ASSUME "index" \notin FailAt
    PROVE  Spec => []IndexCoversCoins
<1>1. Indexed => IndexCoversCoins
  <2> SUFFICES ASSUME Indexed PROVE IndexCoversCoins
    BY Zenon
  <2> USE DEF Indexed, Shape, TypeOK, IndexInv, IndexCoversCoins
  <2>1. CASE dHeads = <<>>
    BY <2>1
  <2>2. CASE dHeads \in Block \X MaybeBlock
    <3>1. PICK new \in Block, old \in MaybeBlock : dHeads = <<new, old>>
      BY <2>2
    <3>2. DOMAIN dHeads = 1 .. 2 /\ dHeads # <<>>
      BY <3>1
    <3>3. dHeads[1] \in dIndex /\ dHeads[2] \in dIndex \cup {NoBlock}
      BY Zenon, <3>2
    <3>4. ASSUME NEW i \in 1 .. 2 PROVE dHeads[i] \in dIndex \cup {NoBlock}
      BY <3>3, i = 1 \/ i = 2
    <3> QED BY Zenon, <3>2, <3>4
  <2> QED BY Zenon, <2>1, <2>2
<1> QED BY <1>1, IndexedInit, IndexedStep, PTL DEF Spec

----------------------------------------------------------------------------
(* evodb follows the coins, whichever writes fail.  What is committed is at  *)
(* the block the coins database has just reached, or where evodb was.       *)

\* The points at which the coins database has reached the block of the cache, and
\* those at which a node without a best block may get one.
Reached == {"evo", "rcommit"}
Unset == {"replay", "roll", "rcommit", "loadtip", "verify", "run", "ifneeded", "wipe"}

FollowInv ==
    /\ pc = "down" => evo = EmptyEvo
    /\ pc \in Reached => dHeads = <<>> /\ dBest = cacheBest
    /\ pc \in {"replay", "roll"} => evo.best = dEvo.best
    /\ cacheBest # NoBlock => evo.best \in {dEvo.best, cacheBest}
    /\ pc \in Unset /\ cacheBest = NoBlock => evo.best = dEvo.best
    /\ pc = "stopping" => stage \in {2, 3}

Follows == Shape /\ FollowInv

LEMMA FollowsInit == Init => Follows
  BY Zenon, ShapeInit DEF Init, Follows, FollowInv, Reached, Unset

LEMMA FollowsStep ==
    Follows /\ [Next]_vars =>
      /\ Follows'
      /\ dEvo'.best \notin {dEvo.best, NoBlock} => dHeads = <<>> /\ dEvo'.best = dBest
<1> DEFINE Step == dEvo'.best \notin {dEvo.best, NoBlock} => dHeads = <<>> /\ dEvo'.best = dBest
           Goal == FollowInv' /\ Step
<1> SUFFICES ASSUME Follows, [Next]_vars PROVE Goal
  BY Zenon, ShapeStep DEF Follows
<1>a. NoBlock \notin Block /\ \A b \in Block \ {Genesis} : Parent[b] \in Block
  BY Zenon, TreeAssumption
<1>b. EmptyEvo.best = NoBlock
  BY Zenon DEF EmptyEvo
<1>c. /\ \A b : Processed(evo, b).best = b
      /\ \A b : [Processed(evo, b) EXCEPT !.best = evo.best].best = evo.best
      /\ \A b : [evo EXCEPT !.best = b].best = b
      /\ \A M : [dEvo EXCEPT !.mined = M].best = dEvo.best
  BY Zenon DEF Follows, Shape, TypeOK, EvoContent, Processed
<1>s. 0 # 2 /\ 0 # 3 /\ 1 # 2 /\ 1 # 3
  BY SMT
<1> USE <1>a DEF Follows, Shape, Control, FollowInv, Reached, Unset,
                 disk, memory, StartShutdown, FirstFlush, Fails
<1>0. ASSUME ProcessEnds PROVE FollowInv'
  BY Zenon, <1>0 DEF ProcessEnds
<1>f. ASSUME NEW ch, NEW d, FlushFails(ch, d), UNCHANGED disk,
             pc \in {"ifneeded", "run", "stopping", "coins", "evo"}
      PROVE  Goal
  <2>1. stage \in {0, 1} => pc # "stopping"
    BY Zenon, <1>s
  <2> QED BY Zenon, <1>0, <1>f, <2>1 DEF FlushFails
<1>1. ASSUME NEW b \in Block, AcceptBlock(b) PROVE Goal
  BY Zenon, <1>1 DEF AcceptBlock
<1>2. ASSUME NEW b \in Block, ConnectTip(b) PROVE Goal
  <2>1. CASE EvoDBBehind(b)
    BY Zenon, <1>2, <2>1 DEF ConnectTip
  <2>2. CASE ~EvoDBBehind(b)
    <3>0. pc = "run" /\ UNCHANGED <<dBest, dHeads, dEvo>>
      BY Zenon, <1>2 DEF ConnectTip
    <3>1. /\ cacheBest' = b /\ pc' = "ifneeded"
          /\ evo' = IF b = Genesis THEN evo ELSE Processed(evo, b)
      BY Zenon, <1>2, <2>2 DEF ConnectTip
    <3>2. b = Genesis => cacheBest = NoBlock
      BY Zenon, <1>2 DEF ConnectTip, ExtendsTip
    <3>3. evo'.best \in {dEvo.best, b}
      BY Zenon, <1>c, <3>0, <3>1, <3>2
    <3> QED BY Zenon, <3>0, <3>1, <3>3
  <2> QED BY Zenon, <2>1, <2>2
<1>3. CASE DisconnectTip
  <2>1. CASE CannotUndo(tip, evo, CoinsView)
    BY Zenon, <1>3, <2>1 DEF DisconnectTip
  <2>2. CASE ~CannotUndo(tip, evo, CoinsView)
    <3>1. tip \in Block \ {Genesis}
      BY <1>3, ParameterAssumption, TreeAssumption DEF DisconnectTip, TypeOK, MaybeBlock
    <3>2. /\ cacheBest' = Parent[tip] /\ pc' = "ifneeded"
          /\ evo' = [best |-> Parent[tip], mined |-> evo.mined \ {tip}]
      BY Zenon, <1>3, <2>2 DEF DisconnectTip
    <3>3. UNCHANGED <<dBest, dHeads, dEvo>> /\ evo'.best = Parent[tip]
      BY Zenon, <1>3, <3>2 DEF DisconnectTip
    <3> QED BY Zenon, <3>1, <3>2, <3>3
  <2> QED BY Zenon, <2>1, <2>2
<1>4. CASE FlushNotNeeded
  BY Zenon, <1>4 DEF FlushNotNeeded
<1>5. CASE PeriodicWrite
  BY Zenon, <1>5 DEF PeriodicWrite
<1>6. CASE FlushStateToDisk
  BY Zenon, <1>6 DEF FlushStateToDisk
<1>7. ASSUME NEW S \in SUBSET Coin, WritePartialBatch(S) PROVE Goal
  BY Zenon, <1>7 DEF WritePartialBatch
<1>8. ASSUME NEW S \in SUBSET Coin, WriteBatchThrows(S) PROVE Goal
  BY Zenon, <1>f, <1>8 DEF WriteBatchThrows
<1>9. CASE WriteFinalBatch
  BY Zenon, <1>9 DEF WriteFinalBatch
<1>10. CASE CommitEvoDB
  <2>0. /\ pc = "evo" /\ dEvo' = evo /\ dHeads = <<>> /\ dBest = cacheBest /\ cacheBest # NoBlock
        /\ UNCHANGED <<dHeads, dBest>> /\ FlushReturns
    BY Zenon, <1>10 DEF CommitEvoDB
  <2>1. Step
    BY Zenon, <2>0
  <2>2. CASE /\ UNCHANGED <<evo, cacheBest>>
             /\ pc' = "run" \/ (pc' = "stopping" /\ stage' = 3)
    BY Zenon, <2>0, <2>1, <2>2
  <2> QED BY Zenon, <1>0, <2>0, <2>1, <2>2 DEF FlushReturns
<1>11. CASE CommitEvoDBThrows
  BY Zenon, <1>f, <1>11 DEF CommitEvoDBThrows
<1>12. CASE RequestShutdown
  BY Zenon, <1>12 DEF RequestShutdown
<1>13. CASE ShutdownEmpty
  BY Zenon, <1>0, <1>13 DEF ShutdownEmpty
<1>14. CASE Crash
  BY Zenon, <1>0, <1>14 DEF Crash
<1>15. CASE LoadBlockIndex
  BY Zenon, <1>15 DEF LoadBlockIndex
<1>16. CASE ReplayBlocks
  BY Zenon, <1>16 DEF ReplayBlocks
<1>17. ASSUME NEW b \in Block, RollforwardBlock(b) PROVE Goal
  <2>1. UNCHANGED <<dHeads, dBest, dEvo, cacheBest>> /\ evo'.best = evo.best
        /\ pc = "roll" /\ pc' \in {"roll", "failed"}
    BY Zenon, <1>c, <1>17 DEF RollforwardBlock
  <2> QED BY Zenon, <2>1
<1>18. CASE ReplayDone
  <2>1. /\ dHeads[1] \in Block /\ cacheBest' = dHeads[1] /\ evo'.best = dHeads[1] /\ pc' = "rcoins"
        /\ UNCHANGED disk
    BY Zenon, <1>c, <1>18 DEF ReplayDone, TypeOK
  <2> QED BY Zenon, <2>1
<1>19. CASE CommitReplayedEvoDB
  BY Zenon, <1>19 DEF CommitReplayedEvoDB
<1>20. CASE LoadChainTip
  <2>1. CASE CannotLoadTip
    BY Zenon, <1>20, <2>1 DEF LoadChainTip
  <2>2. CASE ~CannotLoadTip
    <3>1. /\ pc = "loadtip" /\ pc' = "verify" /\ UNCHANGED <<dHeads, dBest, cacheBest>>
          /\ dEvo' = [dEvo EXCEPT !.mined = @ \cup Reprocessed]
          /\ evo' = [best  |-> IF evo.best = NoBlock THEN cacheBest ELSE evo.best,
                     mined |-> evo.mined \cup Reprocessed]
      BY Zenon, <1>20, <2>2 DEF LoadChainTip
    <3>2. dEvo'.best = dEvo.best /\ evo'.best = IF evo.best = NoBlock THEN cacheBest ELSE evo.best
      BY Zenon, <1>c, <3>1
    <3> QED BY Zenon, <3>1, <3>2
  <2> QED BY Zenon, <2>1, <2>2
<1>21. CASE VerifyBlock
  BY Zenon, <1>21 DEF VerifyBlock
<1>22. CASE VerifyDone
  BY Zenon, <1>22 DEF VerifyDone
<1>23. CASE Exit
  BY Zenon, <1>23 DEF Exit
<1>24. CASE WipeEvoDB
  <2>1. dEvo' = EmptyEvo /\ evo' = EmptyEvo /\ pc' = "wipe" /\ UNCHANGED <<dHeads, dBest, cacheBest>>
    BY Zenon, <1>24 DEF WipeEvoDB
  <2> QED BY Zenon, <1>b, <2>1
<1>25. CASE WipeCoins
  BY Zenon, <1>25 DEF WipeCoins
<1>26. CASE UNCHANGED vars
  BY Zenon, <1>26 DEF vars
<1>27. CASE TipAssertionFails
  BY Zenon, <1>0, <1>27 DEF TipAssertionFails
<1>28. CASE AssertionFails
  BY Zenon, <1>0, <1>28 DEF AssertionFails
<1>29. CASE WriteIndexFails
  BY Zenon, <1>f, <1>29 DEF WriteIndexFails
<1>30. CASE Shutdown
  BY Zenon, <1>30 DEF Shutdown
<1> QED
  BY Zenon, <1>1, <1>2, <1>3, <1>4, <1>5, <1>6, <1>7, <1>8, <1>9, <1>10, <1>11, <1>12, <1>13, <1>14,
     <1>15, <1>16, <1>17, <1>18, <1>19, <1>20, <1>21, <1>22, <1>23, <1>24, <1>25, <1>26, <1>27, <1>28,
     <1>29, <1>30
  DEF Next, Operate, StartUp

\* evodb only moves to the best block of a coins database that is not in the
\* middle of a transition, whichever writes failed before, wherever the process
\* died, and whatever was wiped.
THEOREM EvoDBIsNeverAhead == Spec => EvoDBFollowsCoins
<1>1. Follows /\ [Next]_vars =>
        [dEvo'.best \notin {dEvo.best, NoBlock} => dHeads = <<>> /\ dEvo'.best = dBest]_vars
  BY Zenon, FollowsStep
<1> QED BY <1>1, FollowsInit, FollowsStep, PTL DEF Spec, EvoDBFollowsCoins

----------------------------------------------------------------------------
(* The coins database is exact: as long as its own writes do not fail, a     *)
(* database that names a best block holds exactly the coins of that block.   *)
(* This is not inductive.  What carries it is that a database in the middle  *)
(* of a transition holds every coin that both ends of the transition have    *)
(* and no coin that neither end has; rolling a block forward keeps that for  *)
(* the block reached, and when the new end is reached nothing is left open.  *)

\* The coins at a block; a database without one is empty.
UtxoAt(b) == IF b = NoBlock THEN {} ELSE Utxo[b]

\* A set of coins on the way from a to b.
Between(S, a, b) ==
    /\ UtxoAt(a) \cap UtxoAt(b) \subseteq S
    /\ S \subseteq UtxoAt(a) \cup UtxoAt(b)

\* The database, at rest and in a transition.
DbInv ==
    /\ dHeads = <<>> => dCoins = UtxoAt(dBest)
    /\ dHeads # <<>> => Between(dCoins, dHeads[2], dHeads[1])

\* The view over it: exact, except while VerifyDB uses the cache for its own
\* view and while blocks are rolled forward.
ViewInv ==
    /\ cacheBest # NoBlock /\ pc # "verify" => CoinsView = Utxo[cacheBest]
    /\ pc \in {"run", "ifneeded", "rcommit", "loadtip"} => CoinsView = UtxoAt(cacheBest)
    /\ pc \in {"rcommit", "loadtip", "verify"} => dBest = cacheBest
    /\ pc \in {"down", "replay", "roll", "wipe"} => cacheBest = NoBlock
    /\ pc \in {"down", "replay", "wipe", "rcommit", "loadtip"} => cache = Clean
    /\ pc = "roll" => target \in Block /\ Between(CoinsView, target, dHeads[1])

Exact == Marked /\ DbInv /\ ViewInv

----------------------------------------------------------------------------
(* What the operations do to the view *)

LEMMA ViewSame == UNCHANGED <<dCoins, cache>> => CoinsView' = CoinsView
  BY Zenon DEF CoinsView

LEMMA ViewUpdate ==
    ASSUME NEW S, NEW A \in SUBSET Coin,
           cache' = Update(cache, S, A), UNCHANGED dCoins
    PROVE  CoinsView' = (CoinsView \ S) \cup A
  BY Zenon DEF CoinsView, Update

LEMMA ViewClean == dCoins \subseteq Coin /\ cache = Clean => CoinsView = dCoins
  BY Zenon DEF CoinsView, Clean

LEMMA ViewCleanNext == dCoins' \subseteq Coin /\ cache' = Clean => CoinsView' = dCoins'
  BY Zenon DEF CoinsView, Clean

\* A batch moves changes from the cache to the database; the view stays.
LEMMA ViewWritten ==
    ASSUME TypeOK, NEW S, S \subseteq Dirty
    PROVE  /\ Written(S) = (CoinsView \cap S) \cup (dCoins \ S)
           /\ dCoins' = Written(S) /\ cache' = Dropped(S) => CoinsView' = CoinsView
  BY Zenon DEF TypeOK, CoinsView, Dirty, Written, Dropped

LEMMA AllWritten ==
    ASSUME TypeOK
    PROVE  Written(Dirty) = CoinsView
  BY Zenon DEF TypeOK, CoinsView, Dirty, Written

\* Connecting and disconnecting a block are inverse on exact coin sets.
LEMMA BlockCoins ==
    ASSUME NEW b \in Block \ {Genesis}
    PROVE  /\ (Utxo[Parent[b]] \ Spends[b]) \cup Creates[b] = Utxo[b]
           /\ (Utxo[b] \ Creates[b]) \cup Spends[b] = Utxo[Parent[b]]
  BY Zenon, CoinAssumption

\* Rolling a block forward over coins that later blocks have changed already.
LEMMA RollCoins ==
    ASSUME NEW b \in Block \ {Genesis}, NEW new \in Block, NEW V,
           Between(V, Parent[b], new)
    PROVE  Between((V \ Spends[b]) \cup Creates[b], b, new)
  BY CoinAssumption, TreeAssumption DEF Between, UtxoAt

\* At the end of the way nothing is left open.
LEMMA BetweenEnds ==
    ASSUME NEW b \in Block, NEW S, Between(S, b, b)
    PROVE  S = Utxo[b]
<1>1. UtxoAt(b) = Utxo[b]
  BY Zenon, TreeAssumption DEF UtxoAt
<1>2. S \subseteq Utxo[b] /\ Utxo[b] \subseteq S
  BY Zenon, <1>1 DEF Between
<1> QED BY <1>2

\* A batch leaves the database between the two ends.
LEMMA BatchCoins ==
    ASSUME NEW D, NEW V, NEW S, NEW a, NEW b, Between(D, a, b), V = UtxoAt(b)
    PROVE  Between((V \cap S) \cup (D \ S), a, b)
  BY Zenon DEF Between

LEMMA ExactInit == Init => Exact
  BY SMTT(30), MarkedInit, ViewClean, CoinAssumption
  DEF Init, Exact, DbInv, ViewInv, UtxoAt

LEMMA ExactStep ==
    ASSUME "coins" \notin FailAt
    PROVE  Exact /\ [Next]_vars => Exact'
<1> DEFINE Goal == DbInv' /\ ViewInv'
<1> SUFFICES ASSUME Exact, [Next]_vars PROVE Goal
  BY Zenon, MarkedStep DEF Exact
<1>a. Marked /\ Marked'
  BY Zenon, MarkedStep DEF Exact
<1>b. TypeOK /\ TypeOK' /\ Control /\ MarkerInv
  BY Zenon, <1>a DEF Marked, Shape
<1>c. dCoins \subseteq Coin /\ dCoins' \subseteq Coin
  BY Zenon, <1>b DEF TypeOK
<1> USE <1>b, <1>c, ViewSame, ViewClean, ViewCleanNext
    DEF Exact, DbInv, ViewInv, MarkerInv, Settled, Control,
        disk, memory, StartShutdown, FirstFlush, Fails
<1>0. ASSUME ProcessEnds, UNCHANGED <<dCoins, dBest, dHeads>> PROVE Goal
  BY Zenon, <1>0 DEF ProcessEnds
<1>f. ASSUME NEW d, FlushFails(cache, d), UNCHANGED disk,
             pc \in {"ifneeded", "run", "evo", "stopping"}
      PROVE  Goal
  <2>1. CASE stage \in {0, 1} /\ StartShutdown /\ UNCHANGED <<cache, cacheBest>>
    <3>1. pc # "stopping"
      BY <2>1
    <3>2. CoinsView' = UtxoAt(cacheBest)
      BY Zenon, <1>f, <2>1, <3>1 DEF UtxoAt
    <3> QED BY Zenon, <1>f, <2>1, <3>2
  <2>2. CASE pc' = "stopping" /\ UNCHANGED <<cache, cacheBest>>
    BY Zenon, <1>f, <2>2
  <2> QED BY Zenon, <1>0, <1>f, <2>1, <2>2 DEF FlushFails
<1>1. ASSUME NEW b \in Block, AcceptBlock(b) PROVE Goal
  BY Zenon, <1>1 DEF AcceptBlock
<1>2. ASSUME NEW b \in Block, ConnectTip(b) PROVE Goal
  <2>1. CASE EvoDBBehind(b)
    BY <1>2, <2>1 DEF ConnectTip
  <2>2. CASE ~EvoDBBehind(b)
    <3>1. CoinsView' = (CoinsView \ Spends[b]) \cup Creates[b]
      BY <1>2, <2>2, ViewUpdate, CoinAssumption DEF ConnectTip
    <3>2. CoinsView' = Utxo[b]
      <4>1. CASE b = Genesis
        BY Zenon, <1>2, <3>1, <4>1, CoinAssumption DEF ConnectTip, ExtendsTip, UtxoAt
      <4>2. CASE b # Genesis
        BY <1>2, <3>1, <4>2, BlockCoins, TreeAssumption
        DEF ConnectTip, ExtendsTip, UtxoAt
      <4> QED BY Zenon, <4>1, <4>2
    <3> QED BY Zenon, <1>2, <2>2, <3>2, TreeAssumption DEF ConnectTip, UtxoAt
  <2> QED BY Zenon, <2>1, <2>2
<1>3. CASE DisconnectTip
  <2>1. CASE CannotUndo(tip, evo, CoinsView)
    BY <1>3, <2>1 DEF DisconnectTip
  <2>2. CASE ~CannotUndo(tip, evo, CoinsView)
    <3>1. tip \in Block \ {Genesis}
      BY <1>3, ParameterAssumption, TreeAssumption DEF DisconnectTip, TypeOK, MaybeBlock
    <3>2. CoinsView' = (CoinsView \ Creates[tip]) \cup Spends[tip]
      BY <1>3, <2>2, <3>1, ViewUpdate, CoinAssumption DEF DisconnectTip
    <3>3. CoinsView' = Utxo[Parent[tip]]
      BY Zenon, <1>3, <3>1, <3>2, BlockCoins DEF DisconnectTip
    <3>4. /\ pc = "run" /\ pc' = "ifneeded" /\ cacheBest' = Parent[tip]
          /\ UNCHANGED <<dCoins, dBest, dHeads>>
      BY Zenon, <1>3, <2>2 DEF DisconnectTip
    <3>5. CoinsView' = UtxoAt(cacheBest')
      BY Zenon, <3>1, <3>3, <3>4, TreeAssumption DEF UtxoAt
    <3> QED BY Zenon, <3>3, <3>4, <3>5
  <2> QED BY Zenon, <2>1, <2>2
<1>4. CASE FlushNotNeeded
  BY Zenon, <1>4 DEF FlushNotNeeded
<1>5. CASE PeriodicWrite
  BY Zenon, <1>5 DEF PeriodicWrite
<1>6. CASE FlushStateToDisk
  BY <1>6 DEF FlushStateToDisk
<1>7. ASSUME NEW S \in SUBSET Coin, WritePartialBatch(S) PROVE Goal
  <2>1. CoinsView' = CoinsView
    BY Zenon, <1>7, ViewWritten DEF WritePartialBatch
  <2>2. Between(dCoins, OldTip, cacheBest)
    BY Zenon, <1>7 DEF WritePartialBatch, OldTip, Between
  <2>3. Between(dCoins', OldTip, cacheBest)
    <3>1. dCoins' = (CoinsView \cap S) \cup (dCoins \ S)
      BY Zenon, <1>7, ViewWritten DEF WritePartialBatch
    <3>2. CoinsView = UtxoAt(cacheBest)
      BY Zenon, <1>7 DEF WritePartialBatch, UtxoAt
    <3> QED BY Zenon, <2>2, <3>1, <3>2, BatchCoins
  <2> QED BY Zenon, <1>7, <2>1, <2>3 DEF WritePartialBatch
<1>8. ASSUME NEW S \in SUBSET Coin, WriteBatchThrows(S) PROVE Goal
  BY Zenon, <1>8 DEF WriteBatchThrows
<1>9. CASE WriteFinalBatch
  <2>1. dCoins' = Utxo[cacheBest] /\ CoinsView' = Utxo[cacheBest]
    BY Zenon, <1>9, AllWritten DEF WriteFinalBatch
  <2> QED BY Zenon, <1>9, <2>1 DEF WriteFinalBatch, UtxoAt
<1>10. CASE CommitEvoDB
  <2>1. CoinsView = UtxoAt(cacheBest)
    BY Zenon, <1>10 DEF CommitEvoDB, UtxoAt
  <2> QED BY Zenon, <1>0, <1>10, <2>1 DEF CommitEvoDB, FlushReturns
<1>11. CASE CommitEvoDBThrows
  BY Zenon, <1>f, <1>11 DEF CommitEvoDBThrows
<1>12. CASE RequestShutdown
  <2>1. CASE pc = "run"
    BY <1>12, <2>1 DEF RequestShutdown
  <2>2. CASE pc = "verify"
    BY <1>12, <2>2 DEF RequestShutdown, UtxoAt
  <2> QED BY Zenon, <1>12, <2>1, <2>2 DEF RequestShutdown
<1>13. CASE ShutdownEmpty
  BY Zenon, <1>0, <1>13 DEF ShutdownEmpty
<1>14. CASE Crash
  BY Zenon, <1>0, <1>14 DEF Crash
<1>15. CASE LoadBlockIndex
  BY Zenon, <1>15 DEF LoadBlockIndex
<1>16. CASE ReplayBlocks
  <2>1. CASE dHeads = <<>>
    BY Zenon, <1>16, <2>1 DEF ReplayBlocks, UtxoAt
  <2>2. CASE dHeads # <<>> /\ CannotReplay(dHeads[1], dHeads[2])
    BY Zenon, <1>16, <2>2 DEF ReplayBlocks
  <2>3. CASE dHeads # <<>> /\ ~CannotReplay(dHeads[1], dHeads[2])
    <3>1. target' \in Block /\ UtxoAt(target') = UtxoAt(dHeads[2])
      BY Zenon, <1>16, <2>3, TreeAssumption, CoinAssumption
      DEF ReplayBlocks, UtxoAt, TypeOK, MaybeBlock
    <3>2. Between(CoinsView', target', dHeads'[1])
      BY Zenon, <1>16, <2>3, <3>1 DEF ReplayBlocks, Between
    <3> QED BY Zenon, <1>16, <2>3, <3>1, <3>2 DEF ReplayBlocks
  <2> QED BY Zenon, <2>1, <2>2, <2>3
<1>17. ASSUME NEW b \in Block, RollforwardBlock(b) PROVE Goal
  <2>1. CASE ~(Needs[b] \subseteq CoinsView)
    BY Zenon, <1>17, <2>1 DEF RollforwardBlock
  <2>2. CASE Needs[b] \subseteq CoinsView
    <3>1. CoinsView' = (CoinsView \ Spends[b]) \cup Creates[b]
      BY <1>17, <2>2, ViewUpdate, CoinAssumption DEF RollforwardBlock
    <3>2. dHeads[1] \in Block
      BY Zenon, <1>17 DEF RollforwardBlock, TypeOK
    <3>3. Between(CoinsView, Parent[b], dHeads[1]) /\ b \in Block \ {Genesis}
      BY Zenon, <1>17 DEF RollforwardBlock
    <3>4. Between(CoinsView', b, dHeads[1])
      BY ONLY Zenon, <3>1, <3>2, <3>3, RollCoins
    <3> QED BY Zenon, <1>17, <2>2, <3>4 DEF RollforwardBlock
  <2> QED BY Zenon, <2>1, <2>2
<1>18. CASE ReplayDone
  <2>1. CoinsView = Utxo[dHeads[1]]
    <3>1. Between(CoinsView, dHeads[1], dHeads[1]) /\ dHeads[1] \in Block
      BY Zenon, <1>18 DEF ReplayDone
    <3> QED BY ONLY Zenon, <3>1, BetweenEnds
  <2> QED BY Zenon, <1>18, <2>1 DEF ReplayDone
<1>19. CASE CommitReplayedEvoDB
  BY Zenon, <1>19 DEF CommitReplayedEvoDB
<1>20. CASE LoadChainTip
  BY Zenon, <1>20 DEF LoadChainTip
<1>21. CASE VerifyBlock
  <2>1. pc = "verify" /\ dHeads' = <<>> /\ UNCHANGED <<dCoins, dBest, dHeads, tip, cacheBest>>
    BY Zenon, <1>21 DEF VerifyBlock
  <2>2. CASE pc' = "verify"
    BY Zenon, <2>1, <2>2
  <2>3. CASE pc' = "failed" /\ cache' = Clean
    <3>1. CoinsView' = UtxoAt(cacheBest)
      <4>1. CoinsView' = dCoins
        BY ONLY Zenon, <1>c, <2>1, <2>3, ViewCleanNext
      <4>2. dBest = cacheBest /\ dCoins = UtxoAt(dBest)
        BY Zenon, <1>21, <2>1 DEF VerifyBlock
      <4> QED BY ONLY Zenon, <4>1, <4>2
    <3>2. cacheBest # NoBlock => CoinsView' = Utxo[cacheBest]
      BY ONLY Zenon, <3>1 DEF UtxoAt
    <3>3. DbInv'
      BY Zenon, <1>21, <2>1
    <3>4. ViewInv'
      BY Zenon, <2>1, <2>3, <3>2
    <3> QED BY Zenon, <2>3, <3>3, <3>4
  <2> QED BY Zenon, <1>21, <2>2, <2>3 DEF VerifyBlock
<1>22. CASE VerifyDone
  BY Zenon, <1>22 DEF VerifyDone, UtxoAt
<1>23. CASE Exit
  BY <1>23 DEF Exit
<1>24. CASE WipeEvoDB
  BY Zenon, <1>24 DEF WipeEvoDB
<1>25. CASE WipeCoins
  BY Zenon, <1>25 DEF WipeCoins, UtxoAt
<1>26. CASE UNCHANGED vars
  BY Zenon, <1>26 DEF vars
<1>27. CASE TipAssertionFails
  BY Zenon, <1>0, <1>27 DEF TipAssertionFails
<1>28. CASE AssertionFails
  BY Zenon, <1>0, <1>28 DEF AssertionFails
<1>29. CASE WriteIndexFails
  BY Zenon, <1>f, <1>29 DEF WriteIndexFails
<1>30. CASE Shutdown
  BY Zenon, <1>30 DEF Shutdown
<1> QED
  BY Zenon, <1>1, <1>2, <1>3, <1>4, <1>5, <1>6, <1>7, <1>8, <1>9, <1>10, <1>11, <1>12, <1>13, <1>14,
     <1>15, <1>16, <1>17, <1>18, <1>19, <1>20, <1>21, <1>22, <1>23, <1>24, <1>25, <1>26, <1>27, <1>28,
     <1>29, <1>30
  DEF Next, Operate, StartUp

\* A coins database that names a best block holds exactly the coins of that
\* block, whatever flush, replay, verification or shutdown the process died in,
\* and whatever writes of the block index and of evodb failed, as long as the
\* writes of the coins do not.
THEOREM CoinsDbIsExact ==
    ASSUME "coins" \notin FailAt
    PROVE  Spec => []CoinsDbMatchesBestBlock
<1>1. Exact => CoinsDbMatchesBestBlock
  BY Zenon DEF Exact, Marked, Shape, TypeOK, DbInv, UtxoAt, CoinsDbMatchesBestBlock
<1> QED BY <1>1, ExactInit, ExactStep, PTL DEF Spec

----------------------------------------------------------------------------
(* The tip, as long as no write fails *)

\* Where the handlers are: the block SetTip installs is the one the cache is at.
TipInv ==
    /\ pc \in {"run", "verify"} => tip = cacheBest
    /\ pc = "ifneeded" => target = cacheBest
    /\ pc \in {"coins", "evo"} /\ stage \in {0, 1} => target = cacheBest
    /\ pc \in {"down", "wipe"} => tip = NoBlock

Placed == Exact /\ Indexed /\ TipInv

LEMMA PlacedInit == Init => Placed
  BY Zenon, ExactInit, IndexedInit DEF Init, Placed, TipInv

LEMMA PlacedStep ==
    ASSUME FailAt = {}
    PROVE  Placed /\ [Next]_vars => Placed'
<1> SUFFICES ASSUME Placed, [Next]_vars PROVE TipInv'
  BY Zenon, ExactStep, IndexedStep DEF Placed
<1>a. ViewInv /\ MarkerInv
  BY Zenon DEF Placed, Exact, Marked
<1> USE <1>a DEF Placed, TipInv, ViewInv, MarkerInv, disk, memory, StartShutdown, FirstFlush, Fails
<1>s. 0 # 2 /\ 0 # 3 /\ 1 # 2 /\ 1 # 3
  BY SMT
<1>0. ASSUME ProcessEnds PROVE TipInv'
  BY Zenon, <1>0 DEF ProcessEnds
<1>1. ASSUME NEW b \in Block, AcceptBlock(b) PROVE TipInv'
  BY Zenon, <1>1 DEF AcceptBlock
<1>2. ASSUME NEW b \in Block, ConnectTip(b) PROVE TipInv'
  BY Zenon, <1>2 DEF ConnectTip
<1>3. CASE DisconnectTip
  BY Zenon, <1>3 DEF DisconnectTip
<1>4. CASE FlushNotNeeded
  BY Zenon, <1>4 DEF FlushNotNeeded
<1>5. CASE PeriodicWrite
  BY Zenon, <1>5 DEF PeriodicWrite
<1>6. CASE FlushStateToDisk
  BY Zenon, <1>6, <1>s DEF FlushStateToDisk
<1>7. ASSUME NEW S \in SUBSET Coin, WritePartialBatch(S) PROVE TipInv'
  BY Zenon, <1>7 DEF WritePartialBatch
<1>8. ASSUME NEW S \in SUBSET Coin, WriteBatchThrows(S) PROVE TipInv'
  BY Zenon, <1>8 DEF WriteBatchThrows
<1>9. CASE WriteFinalBatch
  BY Zenon, <1>9 DEF WriteFinalBatch
<1>10. CASE CommitEvoDB
  BY Zenon, <1>0, <1>10 DEF CommitEvoDB, FlushReturns
<1>11. CASE CommitEvoDBThrows
  BY Zenon, <1>11 DEF CommitEvoDBThrows
<1>12. CASE RequestShutdown
  BY Zenon, <1>12 DEF RequestShutdown
<1>13. CASE ShutdownEmpty
  BY Zenon, <1>0, <1>13 DEF ShutdownEmpty
<1>14. CASE Crash
  BY Zenon, <1>0, <1>14 DEF Crash
<1>15. CASE LoadBlockIndex
  BY Zenon, <1>15 DEF LoadBlockIndex
<1>16. CASE ReplayBlocks
  BY Zenon, <1>16 DEF ReplayBlocks
<1>17. ASSUME NEW b \in Block, RollforwardBlock(b) PROVE TipInv'
  BY Zenon, <1>17 DEF RollforwardBlock
<1>18. CASE ReplayDone
  BY Zenon, <1>18 DEF ReplayDone
<1>19. CASE CommitReplayedEvoDB
  BY Zenon, <1>19 DEF CommitReplayedEvoDB
<1>20. CASE LoadChainTip
  BY Zenon, <1>20 DEF LoadChainTip
<1>21. CASE VerifyBlock
  BY Zenon, <1>21 DEF VerifyBlock
<1>22. CASE VerifyDone
  BY Zenon, <1>22 DEF VerifyDone
<1>23. CASE Exit
  BY Zenon, <1>23 DEF Exit
<1>24. CASE WipeEvoDB
  BY Zenon, <1>24 DEF WipeEvoDB
<1>25. CASE WipeCoins
  BY Zenon, <1>25 DEF WipeCoins
<1>26. CASE UNCHANGED vars
  BY Zenon, <1>26 DEF vars
<1>27. CASE TipAssertionFails
  BY Zenon, <1>0, <1>27 DEF TipAssertionFails
<1>28. CASE AssertionFails
  BY Zenon, <1>0, <1>28 DEF AssertionFails
<1>29. CASE WriteIndexFails
  BY Zenon, <1>29 DEF WriteIndexFails
<1>30. CASE Shutdown
  BY Zenon, <1>30 DEF Shutdown
<1> QED
  BY Zenon, <1>1, <1>2, <1>3, <1>4, <1>5, <1>6, <1>7, <1>8, <1>9, <1>10, <1>11, <1>12, <1>13, <1>14,
     <1>15, <1>16, <1>17, <1>18, <1>19, <1>20, <1>21, <1>22, <1>23, <1>24, <1>25, <1>26, <1>27, <1>28,
     <1>29, <1>30
  DEF Next, Operate, StartUp

----------------------------------------------------------------------------
(* Heights, by the least-number principle *)

\* The order of the natural numbers.
Less == {ss \in Nat \X Nat : ss[1] < ss[2]}

LEMMA LessWellFounded == IsWellFoundedOn(Less, Nat)
  BY Zenon, NatLessThanWellFounded DEF OpToRel, Less

\* A set of numbers that is not empty has a least member.
LEMMA LeastNumber ==
    ASSUME NEW T \in SUBSET Nat, T # {}
    PROVE  \E n \in T : \A m \in T : ~(m < n)
<1>1. \E x \in T : \A y \in T : ~ (<<y, x>> \in Less)
  BY Zenon, LessWellFounded, WFMin
<1>2. \A x, y \in Nat : y < x => <<y, x>> \in Less
  BY Zenon DEF Less
<1> QED BY Zenon, <1>1, <1>2

\* No ancestor of a block is higher than the block.
LEMMA AncHeight == \A b \in Block : \A a \in Anc[b] : Height[a] <= Height[b]
<1> DEFINE Wrong(b) == \E a \in Anc[b] : ~(Height[a] <= Height[b])
           T == {n \in Nat : \E b \in Block : Height[b] = n /\ Wrong(b)}
<1>1. CASE T = {}
  BY Zenon, <1>1, TreeAssumption
<1>2. CASE T # {}
  <2>1. PICK n \in T : \A m \in T : ~(m < n)
    BY ONLY Zenon, <1>2, LeastNumber
  <2>2. PICK b \in Block : Height[b] = n /\ Wrong(b)
    BY Zenon, <2>1
  <2>3. b # Genesis
    BY <2>2, TreeAssumption
  <2>4. Parent[b] \in Block /\ Height[Parent[b]] \in Nat /\ Height[b] = Height[Parent[b]] + 1
    BY Zenon, <2>3, TreeAssumption
  <2>5. Height[Parent[b]] < n
    BY <2>2, <2>4
  <2>6. Height[Parent[b]] \notin T
    BY Zenon, <2>1, <2>5
  <2>7. \A a \in Anc[Parent[b]] : Height[a] <= Height[Parent[b]]
    BY Zenon, <2>4, <2>6
  <2>8. Anc[b] = {b} \cup Anc[Parent[b]] /\ Anc[Parent[b]] \subseteq Block
    BY Zenon, <2>3, <2>4, TreeAssumption
  <2>9. \A a \in Anc[b] : Height[a] <= Height[b]
    <3> SUFFICES ASSUME NEW a \in Anc[b] PROVE Height[a] <= Height[b]
      BY Zenon
    <3>1. CASE a = b
      BY <2>4, <3>1
    <3>2. CASE a \in Anc[Parent[b]]
      BY <2>4, <2>7, <2>8, <3>2, TreeAssumption
    <3> QED BY Zenon, <2>8, <3>1, <3>2
  <2> QED BY Zenon, <2>2, <2>9
<1> QED BY Zenon, <1>1, <1>2

\* A block is not above itself.
LEMMA NotAbove ==
    ASSUME NEW b \in Block \ {Genesis}
    PROVE  b \notin Anc[Parent[b]] /\ Parent[b] # b
  BY AncHeight, TreeAssumption

----------------------------------------------------------------------------
(* What evodb holds for a chain *)

\* The block is one at which evodb is checked.
Active(b) == b # NoBlock /\ DIP3Active(b)

\* A content of evodb that belongs to the chain up to b; below the activation
\* height it holds nothing, and its best block does not matter.
Fresh(e, b) ==
    /\ Active(b) => e = [best |-> b, mined |-> MinedOn(b)]
    /\ ~Active(b) => e.mined = {} /\ ~Active(e.best)

\* A content that the checks of evodb's best block tell from one that belongs to b.
Behind(e, b) == Active(b) /\ e.best # b

\* What a fresh content holds at a block at which evodb is checked.
LEMMA FreshMeans ==
    ASSUME NEW e, NEW b, Fresh(e, b), Active(b)
    PROVE  e.best = b /\ e.mined = MinedOn(b)
<1>1. e = [best |-> b, mined |-> MinedOn(b)]
  BY Zenon DEF Fresh
<1> QED BY ONLY <1>1

\* An empty evodb is what belongs below the activation height.
LEMMA EmptyEvoMeaning ==
    /\ EmptyEvo.best = NoBlock /\ EmptyEvo.mined = {}
    /\ ~Active(NoBlock)
    /\ \A b \in MaybeBlock : Fresh(EmptyEvo, b) \/ Behind(EmptyEvo, b)
    /\ \A b \in MaybeBlock : ~Active(b) => Fresh(EmptyEvo, b)
    /\ Fresh(EmptyEvo, NoBlock)
  BY Zenon DEF EmptyEvo, Active, Fresh, Behind

\* evodb is not checked at the genesis block.
LEMMA GenesisInactive == ~Active(Genesis)
  BY TreeAssumption, ParameterAssumption DEF Active, DIP3Active

\* From the activation height on evodb is checked at every block.
LEMMA ActiveUp ==
    /\ \A b \in Block \ {Genesis} : Active(Parent[b]) => Active(b)
    /\ \A b \in Block : \A a \in Anc[b] : Active(a) => Active(b)
<1> USE TreeAssumption, ParameterAssumption DEF Active, DIP3Active
<1>1. ASSUME NEW b \in Block, NEW a \in Anc[b], Active(a) PROVE Active(b)
  <2>1. Height[a] <= Height[b] /\ Height[a] \in Nat /\ Height[b] \in Nat
    BY Zenon, AncHeight
  <2> QED BY <1>1, <2>1
<1> QED BY Zenon, <1>1, AncParent

\* The blocks evodb has processed on a chain.
LEMMA MinedMember == \A b \in Block : \A a : a \in MinedOn(b) <=> a \in Anc[b] /\ Active(a)
<1>1. \A b \in Block : \A a \in Anc[b] : a # NoBlock
  BY Zenon, TreeAssumption
<1> QED BY Zenon, <1>1 DEF MinedOn, Active

\* Below the activation height evodb has processed nothing.
LEMMA MinedBelow == \A b \in Block : ~Active(b) => MinedOn(b) = {}
<1> SUFFICES ASSUME NEW b \in Block, ~Active(b), NEW a \in MinedOn(b) PROVE FALSE
  BY Zenon
<1> QED BY Zenon, ActiveUp, MinedMember

\* What a block adds to them.
LEMMA MinedNext ==
    ASSUME NEW b \in Block \ {Genesis}
    PROVE  /\ Active(b) => MinedOn(b) = MinedOn(Parent[b]) \cup {b}
           /\ ~Active(b) => MinedOn(b) = MinedOn(Parent[b])
           /\ MinedOn(b) \ {b} = MinedOn(Parent[b])
<1>1. Anc[b] = {b} \cup Anc[Parent[b]] /\ Parent[b] \in Block
  BY Zenon, TreeAssumption
<1>2. \A a : a \in MinedOn(b) <=> (a = b \/ a \in Anc[Parent[b]]) /\ Active(a)
  BY Zenon, <1>1, MinedMember
<1>3. \A a : a \in MinedOn(Parent[b]) <=> a \in Anc[Parent[b]] /\ Active(a)
  BY Zenon, <1>1, MinedMember
<1> QED BY Zenon, <1>2, <1>3, NotAbove

\* Processing a block on top of a fresh content, and undoing it.
LEMMA FreshNext ==
    ASSUME NEW b \in Block \ {Genesis}, NEW e, Fresh(e, Parent[b])
    PROVE  Fresh(Processed(e, b), b)
<1>1. e.mined = MinedOn(Parent[b])
  <2>1. Parent[b] \in Block
    BY Zenon, TreeAssumption
  <2>2. CASE Active(Parent[b])
    BY Zenon, <2>2, FreshMeans
  <2>3. CASE ~Active(Parent[b])
    BY Zenon, <2>1, <2>3, MinedBelow DEF Fresh
  <2> QED BY Zenon, <2>2, <2>3
<1>2. Active(b) <=> DIP3Active(b)
  BY Zenon, TreeAssumption DEF Active
<1>3. CASE Active(b)
  BY Zenon, <1>1, <1>2, <1>3, MinedNext DEF Fresh, Processed
<1>4. CASE ~Active(b)
  BY Zenon, <1>1, <1>2, <1>4, MinedNext, MinedBelow DEF Fresh, Processed
<1> QED BY Zenon, <1>3, <1>4

LEMMA FreshUndo ==
    ASSUME NEW b \in Block \ {Genesis}, NEW e, Fresh(e, b), Active(Parent[b])
    PROVE  Fresh([best |-> Parent[b], mined |-> e.mined \ {b}], Parent[b])
<1>1. e.mined = MinedOn(b)
  BY Zenon, ActiveUp, FreshMeans
<1>2. e.mined \ {b} = MinedOn(Parent[b])
  BY Zenon, <1>1, MinedNext
<1> QED BY Zenon, <1>2 DEF Fresh

\* When the coins database moves from a to b, evodb is still where it belongs
\* or is seen to be behind.
LEMMA FreshOrBehind ==
    ASSUME NEW a \in MaybeBlock, NEW b \in MaybeBlock, NEW e, Fresh(e, a),
           Active(a) => Active(b)
    PROVE  Fresh(e, b) \/ Behind(e, b)
<1>1. CASE Active(a)
  <2>1. e.best = a
    BY Zenon, <1>1, FreshMeans
  <2> QED BY Zenon, <1>1, <2>1 DEF Behind
<1>2. CASE ~Active(a)
  <2>1. e.mined = {} /\ ~Active(e.best)
    BY Zenon, <1>2 DEF Fresh
  <2> QED BY Zenon, <2>1 DEF Fresh, Behind
<1> QED BY Zenon, <1>1, <1>2

----------------------------------------------------------------------------
(* The two databases and the memory of the node.  Once a reindex has wiped  *)
(* evodb and not yet the coins, the two are unrelated; until then, and after *)
(* the coins are wiped too, evodb follows the coins.                        *)

\* evodb on disk belongs to the block the coins database names, or is seen to be
\* behind it; during a transition it belongs to the old tip.
DiskEvo ==
    /\ dHeads = <<>> => Fresh(dEvo, dBest) \/ Behind(dEvo, dBest)
    /\ dHeads # <<>> => Fresh(dEvo, dHeads[2])

\* A start has found evodb behind the coins and nothing has changed since.
Lagging ==
    /\ Behind(evo, cacheBest) /\ Behind(dEvo, cacheBest)
    /\ cache = Clean /\ dHeads = <<>> /\ dBest = cacheBest

\* The points after which the node flushes and stops, and those at which evodb on
\* disk belongs to the old tip.
Stopping == {"coins", "evo", "stopping", "failed"}
Flushed == {"run", "ifneeded", "rcoins"}

\* What the node in memory knows, at each point of its handlers.
MemoryEvo ==
    /\ pc \in {"replay", "loadtip"} => evo = dEvo
    /\ pc = "rcommit" => Fresh(evo, cacheBest) \/ evo = dEvo
    /\ pc = "evo" => dBest = cacheBest
    /\ pc \in Flushed => Fresh(evo, cacheBest) /\ Fresh(dEvo, OldTip)
    /\ pc \in Stopping /\ cacheBest # NoBlock =>
         /\ Lagging \/ (Fresh(evo, cacheBest) /\ (pc # "evo" => Fresh(dEvo, OldTip)))
         /\ pc \in {"coins", "evo"} /\ stage \in {0, 1} => Fresh(evo, cacheBest)
    /\ pc = "verify" =>
         /\ \/ Fresh(evo, cacheBest) /\ Fresh(dEvo, cacheBest)
            \/ Behind(evo, cacheBest) /\ Behind(dEvo, cacheBest)
         /\ Active(tip) /\ target # tip => evo.best = tip
    /\ pc \in {"run", "ifneeded"} \/ cacheBest # NoBlock => (Active(OldTip) => Active(cacheBest))

\* The block a replay starts from, and the replay under way.
StartOf(old) == IF old = NoBlock THEN Genesis ELSE old

RollEvo ==
    pc = "roll" =>
      /\ dHeads[2] = NoBlock \/ dHeads[2] \in Anc[dHeads[1]]
      /\ evo.mined = MinedOn(target)

EvoInv == DiskEvo /\ MemoryEvo /\ RollEvo

\* Nothing of evodb is in memory while the process is down or wipes evodb.
WipeInv ==
    /\ pc \in {"down", "wipe"} => evo = EmptyEvo
    /\ pc = "wipe" => dEvo = EmptyEvo

\* The inductive invariant.
Aligned == Placed /\ WipeInv /\ (~wiped => EvoInv)

LEMMA AlignedInit == Init => Aligned
  BY Zenon, PlacedInit, EmptyEvoMeaning
  DEF Init, Aligned, EvoInv, DiskEvo, MemoryEvo, RollEvo, WipeInv, Flushed, Stopping, OldTip

\* What the two wipes do to it.
LEMMA WipeStep == WipeInv /\ [Next]_vars => WipeInv'
<1> SUFFICES ASSUME WipeInv, [Next]_vars PROVE WipeInv'
  BY Zenon
<1> USE DEF WipeInv, disk, memory, StartShutdown, FirstFlush, Fails
<1>0. ASSUME ProcessEnds PROVE WipeInv'
  BY Zenon, <1>0 DEF ProcessEnds
<1>1. CASE pc' \notin {"down", "wipe"}
  BY Zenon, <1>1
<1>2. CASE WipeEvoDB
  BY Zenon, <1>2 DEF WipeEvoDB
<1>3. CASE UNCHANGED vars
  BY Zenon, <1>3 DEF vars
<1>4. ProcessEnds \/ pc' \notin {"down", "wipe"} \/ WipeEvoDB \/ UNCHANGED vars
  BY Zenon
  DEF Next, Operate, StartUp, AcceptBlock, ConnectTip, DisconnectTip, TipAssertionFails,
      FlushNotNeeded, PeriodicWrite, FlushStateToDisk, WriteIndexFails, WritePartialBatch,
      WriteBatchThrows, AssertionFails, WriteFinalBatch, CommitEvoDB, CommitEvoDBThrows,
      RequestShutdown, Shutdown, ShutdownEmpty, Crash, LoadBlockIndex, ReplayBlocks,
      RollforwardBlock, ReplayDone, CommitReplayedEvoDB, LoadChainTip, VerifyBlock, VerifyDone,
      Exit, WipeCoins, FlushReturns, FlushFails
<1> QED BY Zenon, <1>0, <1>1, <1>2, <1>3, <1>4

LEMMA WipedStep == [Next]_vars => UNCHANGED wiped \/ WipeEvoDB \/ WipeCoins
  BY Zenon
  DEF vars, Next, Operate, StartUp, AcceptBlock, ConnectTip, DisconnectTip, TipAssertionFails,
      FlushNotNeeded, PeriodicWrite, FlushStateToDisk, WriteIndexFails, WritePartialBatch,
      WriteBatchThrows, AssertionFails, WriteFinalBatch, CommitEvoDB, CommitEvoDBThrows,
      RequestShutdown, Shutdown, ShutdownEmpty, Crash, LoadBlockIndex, ReplayBlocks,
      RollforwardBlock, ReplayDone, CommitReplayedEvoDB, LoadChainTip, VerifyBlock, VerifyDone,
      Exit

LEMMA WipedEvo ==
    ASSUME Placed, WipeInv, WipeCoins
    PROVE  EvoInv'
<1>1. /\ pc = "wipe" /\ pc' = "run" /\ dHeads' = <<>> /\ dBest' = NoBlock
      /\ dEvo = EmptyEvo /\ evo = EmptyEvo /\ UNCHANGED <<dEvo, evo, cacheBest>>
  BY Zenon DEF WipeCoins, WipeInv, memory
<1>2. cacheBest = NoBlock
  BY Zenon, <1>1 DEF Placed, Exact, ViewInv
<1> QED
  BY Zenon, <1>1, <1>2, EmptyEvoMeaning
  DEF EvoInv, DiskEvo, MemoryEvo, RollEvo, Flushed, Stopping, OldTip

\* Blocks are disconnected only above DIP3Height.
LEMMA StillActive ==
    ASSUME ReorgFloor >= DIP3Height, NEW b \in Block, Height[b] \in Nat, Height[b] + 1 > ReorgFloor
    PROVE  Active(b)
<1>1. Height[b] >= DIP3Height
  BY ParameterAssumption
<1> QED BY Zenon, <1>1, TreeAssumption DEF Active, DIP3Active

LEMMA EvoStep ==
    ASSUME FailAt = {}, ReorgFloor >= DIP3Height
    PROVE  Placed /\ WipeInv /\ EvoInv /\ [Next]_vars /\ ~wiped' => EvoInv'
<1> DEFINE Goal == DiskEvo' /\ MemoryEvo' /\ RollEvo'
<1> SUFFICES ASSUME Placed, WipeInv, EvoInv, [Next]_vars, ~wiped' PROVE Goal
  BY Zenon DEF EvoInv
<1>a. Placed /\ Placed' /\ DiskEvo /\ MemoryEvo /\ RollEvo
  BY Zenon, PlacedStep DEF EvoInv
<1>b. TypeOK /\ TypeOK' /\ Control /\ MarkerInv /\ IndexInv /\ DbInv /\ ViewInv /\ TipInv
      /\ Control' /\ MarkerInv' /\ ViewInv' /\ TipInv'
  BY Zenon, <1>a DEF Placed, Exact, Marked, Indexed, Shape
<1>c. dCoins \in SUBSET Coin
  BY Zenon, <1>b DEF TypeOK
<1>d. dHeads # <<>> => dHeads[1] \in Block /\ dHeads[2] \in MaybeBlock
  BY Zenon, <1>b DEF TypeOK
<1> USE <1>a, <1>b, <1>c, <1>d, ViewSame, EmptyEvoMeaning
    DEF MarkerInv, Settled, Control, ViewInv, TipInv,
        DiskEvo, MemoryEvo, RollEvo, Flushed, Stopping, OldTip,
        disk, memory, StartShutdown, FirstFlush, Fails
<1>0. ASSUME ProcessEnds, UNCHANGED <<dCoins, dBest, dHeads>>,
             \/ UNCHANGED dEvo
             \/ dHeads = <<>> /\ (Fresh(dEvo', dBest) \/ Behind(dEvo', dBest))
      PROVE  Goal
  BY Zenon, <1>0 DEF ProcessEnds
<1>1. ASSUME NEW b \in Block, AcceptBlock(b) PROVE Goal
  BY Zenon, <1>1 DEF AcceptBlock, Lagging
<1>2. ASSUME NEW b \in Block, ConnectTip(b) PROVE Goal
  <2>0. pc = "run" /\ UNCHANGED <<dIndex, dCoins, dBest, dHeads, dEvo, index, tip>>
    BY Zenon, <1>2 DEF ConnectTip
  <2>1. CASE EvoDBBehind(b)
    BY Zenon, <1>2, <2>1 DEF ConnectTip
  <2>2. CASE ~EvoDBBehind(b)
    <3>1. /\ cacheBest' = b /\ pc' = "ifneeded"
          /\ evo' = IF b = Genesis THEN evo ELSE Processed(evo, b)
          /\ IF b = Genesis THEN tip = NoBlock ELSE Parent[b] = tip
      BY Zenon, <1>2, <2>2 DEF ConnectTip, ExtendsTip
    <3>2. Fresh(evo', b) /\ (Active(OldTip) => Active(b))
      <4>1. CASE b = Genesis
        <5>1. evo' = evo /\ cacheBest = NoBlock
          BY Zenon, <2>0, <3>1, <4>1
        <5> QED BY Zenon, <2>0, <4>1, <5>1, GenesisInactive DEF Fresh
      <4>2. CASE b # Genesis
        <5>1. /\ evo' = Processed(evo, b) /\ Parent[b] = cacheBest /\ b \in Block \ {Genesis}
              /\ Fresh(evo, cacheBest) /\ (Active(OldTip) => Active(cacheBest))
          BY Zenon, <2>0, <3>1, <4>2
        <5> QED BY ONLY Zenon, <5>1, FreshNext, ActiveUp
      <4> QED BY Zenon, <4>1, <4>2
    <3> QED BY Zenon, <2>0, <3>1, <3>2
  <2> QED BY Zenon, <2>1, <2>2
<1>3. CASE DisconnectTip
  <2>0. pc = "run" /\ UNCHANGED <<dIndex, dCoins, dBest, dHeads, dEvo, index, tip>>
    BY Zenon, <1>3 DEF DisconnectTip
  <2>1. CASE CannotUndo(tip, evo, CoinsView)
    BY Zenon, <1>3, <2>1 DEF DisconnectTip
  <2>2. CASE ~CannotUndo(tip, evo, CoinsView)
    <3>1. /\ cacheBest' = Parent[tip] /\ pc' = "ifneeded"
          /\ evo' = [best |-> Parent[tip], mined |-> evo.mined \ {tip}]
      BY Zenon, <1>3, <2>2 DEF DisconnectTip
    <3>2. tip \in Block \ {Genesis}
      BY <1>3, ParameterAssumption, TreeAssumption DEF DisconnectTip, TypeOK, MaybeBlock
    <3>3. Parent[tip] \in Block /\ Height[tip] \in Nat /\ Height[Parent[tip]] \in Nat
          /\ Height[tip] = Height[Parent[tip]] + 1 /\ Height[tip] > ReorgFloor
      BY ZenonT(40), <1>3, <3>2, TreeAssumption DEF DisconnectTip
    <3>4. Active(Parent[tip])
      <4>1. Height[Parent[tip]] + 1 > ReorgFloor
        BY Zenon, <3>3
      <4> QED BY Zenon, <3>3, <4>1, StillActive
    <3>5. Fresh(evo', Parent[tip])
      BY Zenon, <2>0, <3>1, <3>2, <3>4, FreshUndo
    <3> QED BY Zenon, <2>0, <3>1, <3>4, <3>5
  <2> QED BY Zenon, <2>1, <2>2
<1>4. CASE FlushNotNeeded
  BY Zenon, <1>4 DEF FlushNotNeeded
<1>5. CASE PeriodicWrite
  BY Zenon, <1>5 DEF PeriodicWrite
<1>6. CASE FlushStateToDisk
  BY <1>6 DEF FlushStateToDisk, Lagging
<1>7. ASSUME NEW S \in SUBSET Coin, WritePartialBatch(S) PROVE Goal
  <2>1. cache # Clean
    BY Zenon, <1>7 DEF WritePartialBatch, Dirty, Clean
  <2>2. dHeads' = <<cacheBest, OldTip>> /\ dHeads'[1] = cacheBest /\ dHeads'[2] = OldTip /\ dHeads' # <<>>
    BY Zenon, <1>7 DEF WritePartialBatch
  <2>3. pc \in {"coins", "rcoins"} /\ cacheBest # NoBlock /\ Fresh(evo, cacheBest) /\ Fresh(dEvo, OldTip)
    BY Zenon, <1>7, <2>1 DEF WritePartialBatch, Lagging
  <2> QED BY Zenon, <1>7, <2>2, <2>3 DEF WritePartialBatch
<1>8. ASSUME NEW S \in SUBSET Coin, WriteBatchThrows(S) PROVE Goal
  BY Zenon, <1>8 DEF WriteBatchThrows
<1>9. CASE WriteFinalBatch
  <2>1. pc \in {"coins", "rcoins"} /\ cacheBest # NoBlock /\ cacheBest \in MaybeBlock
        /\ OldTip \in MaybeBlock
    BY Zenon, <1>9 DEF WriteFinalBatch, TypeOK
  <2>2. CASE Lagging
    BY Zenon, <1>9, <2>1, <2>2 DEF WriteFinalBatch, Lagging
  <2>3. CASE ~Lagging
    <3>1. Fresh(evo, cacheBest) /\ Fresh(dEvo, OldTip)
      BY Zenon, <2>1, <2>3
    <3>2. Fresh(dEvo, cacheBest) \/ Behind(dEvo, cacheBest)
      BY Zenon, <2>1, <3>1, FreshOrBehind
    <3> QED BY Zenon, <1>9, <2>1, <3>1, <3>2 DEF WriteFinalBatch
  <2> QED BY Zenon, <2>2, <2>3
<1>10. CASE CommitEvoDB
  <2>0. /\ pc = "evo" /\ dEvo' = evo /\ dHeads = <<>> /\ cacheBest # NoBlock
        /\ UNCHANGED <<dCoins, dBest, dHeads>> /\ FlushReturns /\ dBest = cacheBest
    BY Zenon, <1>10 DEF CommitEvoDB
  <2>1. Lagging \/ Fresh(evo, cacheBest)
    BY Zenon, <2>0
  <2>2. CASE stage \in {0, 1} /\ pc' = "run" /\ UNCHANGED <<cache, cacheBest, evo>>
    <3>1. Fresh(evo, cacheBest)
      BY Zenon, <2>0, <2>2
    <3> QED BY Zenon, <2>0, <2>2, <3>1
  <2>3. CASE pc' = "stopping" /\ UNCHANGED <<cache, cacheBest, evo>>
    BY ZenonT(40), <2>0, <2>1, <2>3 DEF Lagging
  <2>4. CASE ProcessEnds
    BY ZenonT(40), <1>0, <2>0, <2>1, <2>4 DEF Lagging
  <2> QED BY Zenon, <2>0, <2>2, <2>3, <2>4 DEF FlushReturns
<1>11. CASE CommitEvoDBThrows
  BY Zenon, <1>11 DEF CommitEvoDBThrows
<1>12. CASE RequestShutdown
  <2>1. CASE pc = "run"
    BY Zenon, <1>12, <2>1 DEF RequestShutdown
  <2>2. CASE pc = "verify"
    BY Zenon, <1>12, <2>2 DEF RequestShutdown, Lagging
  <2> QED BY Zenon, <1>12, <2>1, <2>2 DEF RequestShutdown
<1>13. CASE ShutdownEmpty
  BY Zenon, <1>0, <1>13 DEF ShutdownEmpty
<1>14. CASE Crash
  BY Zenon, <1>0, <1>14 DEF Crash
<1>15. CASE LoadBlockIndex
  BY Zenon, <1>15 DEF LoadBlockIndex
<1>16. CASE ReplayBlocks
  <2>0. pc = "replay" /\ UNCHANGED <<dIndex, dCoins, dBest, dHeads, dEvo, index, tip, cache, evo, stage>>
        /\ cacheBest = NoBlock /\ cache = Clean /\ evo = dEvo
    BY Zenon, <1>16 DEF ReplayBlocks
  <2>1. CASE dHeads = <<>>
    BY Zenon, <1>16, <2>0, <2>1 DEF ReplayBlocks
  <2>2. CASE dHeads # <<>> /\ CannotReplay(dHeads[1], dHeads[2])
    <3>1. pc' = "failed" /\ UNCHANGED cacheBest
      BY Zenon, <1>16, <2>2 DEF ReplayBlocks
    <3> QED BY Zenon, <2>0, <2>2, <3>1
  <2>3. CASE dHeads # <<>> /\ ~CannotReplay(dHeads[1], dHeads[2])
    <3> DEFINE s == StartOf(dHeads[2])
    <3>1. pc' = "roll" /\ UNCHANGED cacheBest /\ target' = s
      BY Zenon, <1>16, <2>3 DEF ReplayBlocks, StartOf
    <3>2. s \in Block
      BY Zenon, <2>3, TreeAssumption DEF StartOf, MaybeBlock
    <3>5. dHeads[2] = NoBlock \/ dHeads[2] \in Anc[dHeads[1]]
      BY Zenon, <2>3 DEF CannotReplay
    <3>6. dEvo.mined = MinedOn(s)
      <4>0. Fresh(dEvo, dHeads[2])
        BY Zenon, <2>3
      <4>1. CASE Active(dHeads[2])
        BY Zenon, <4>0, <4>1, FreshMeans DEF StartOf, Active
      <4>2. CASE ~Active(dHeads[2])
        <5>1. ~Active(s)
          BY Zenon, <4>2, GenesisInactive DEF StartOf
        <5> QED BY Zenon, <3>2, <4>0, <4>2, <5>1, MinedBelow DEF Fresh
      <4> QED BY Zenon, <4>1, <4>2
    <3> QED BY Zenon, <2>0, <2>3, <3>1, <3>5, <3>6
  <2> QED BY Zenon, <2>1, <2>2, <2>3
<1>17. ASSUME NEW b \in Block, RollforwardBlock(b) PROVE Goal
  <2>0. /\ pc = "roll" /\ dHeads # <<>> /\ b \in Block \ {Genesis} /\ b \in Anc[dHeads[1]]
        /\ Parent[b] = target /\ cacheBest = NoBlock
        /\ UNCHANGED <<dCoins, dBest, dHeads, dEvo, cacheBest, stage>>
    BY Zenon, <1>17 DEF RollforwardBlock
  <2>2. CASE ~(Needs[b] \subseteq CoinsView)
    <3>1. pc' = "failed"
      BY Zenon, <1>17, <2>2 DEF RollforwardBlock
    <3> QED BY Zenon, <2>0, <3>1
  <2>3. CASE Needs[b] \subseteq CoinsView
    <3>1. /\ cache' = Update(cache, Spends[b], Creates[b]) /\ target' = b
          /\ evo' = [Processed(evo, b) EXCEPT !.best = evo.best]
          /\ UNCHANGED pc
      BY Zenon, <1>17, <2>3 DEF RollforwardBlock
    <3>4. evo'.mined = MinedOn(b)
      <4>1. evo'.mined = IF DIP3Active(b) THEN evo.mined \cup {b} ELSE evo.mined
        BY Zenon, <3>1 DEF Processed
      <4>2. DIP3Active(b) <=> Active(b)
        BY Zenon, TreeAssumption DEF Active
      <4> QED BY ZenonT(40), <2>0, <4>1, <4>2, MinedNext
    <3> QED BY Zenon, <2>0, <3>1, <3>4
  <2> QED BY Zenon, <2>2, <2>3
<1>18. CASE ReplayDone
  <2>0. /\ pc = "roll" /\ dHeads # <<>> /\ target = dHeads[1] /\ cacheBest' = dHeads[1] /\ pc' = "rcoins"
        /\ evo' = [evo EXCEPT !.best = dHeads[1]]
        /\ UNCHANGED <<dCoins, dBest, dHeads, dEvo>>
    BY Zenon, <1>18 DEF ReplayDone
  <2>2. Fresh(dEvo, dHeads[2])
    BY Zenon, <2>0
  <2>3. Fresh(evo', dHeads[1])
    <3>1. evo' = [best |-> dHeads[1], mined |-> MinedOn(dHeads[1])]
      BY Zenon, <2>0, <2>2 DEF TypeOK, EvoContent
    <3>2. ~Active(dHeads[1]) => MinedOn(dHeads[1]) = {}
      BY Zenon, <2>0, MinedBelow
    <3> QED BY Zenon, <3>1, <3>2 DEF Fresh
  <2>4. Active(dHeads[2]) => Active(dHeads[1])
    BY Zenon, <2>0, ActiveUp
  <2> QED BY Zenon, <2>0, <2>2, <2>3, <2>4
<1>19. CASE CommitReplayedEvoDB
  BY Zenon, <1>19 DEF CommitReplayedEvoDB
<1>20. CASE LoadChainTip
  <2>0. /\ pc = "loadtip" /\ evo = dEvo /\ dBest = cacheBest /\ dHeads = <<>> /\ cache = Clean
        /\ cacheBest \in MaybeBlock
        /\ UNCHANGED <<dIndex, dCoins, dBest, dHeads, index, cache, cacheBest, stage>>
    BY Zenon, <1>20 DEF LoadChainTip, TypeOK
  <2>1. CASE CannotLoadTip
    <3>1. pc' = "failed" /\ UNCHANGED <<evo, dEvo>>
      BY Zenon, <1>20, <2>1 DEF LoadChainTip
    <3> QED BY Zenon, <2>0, <3>1 DEF Lagging
  <2>2. CASE ~CannotLoadTip
    <3>1. /\ pc' = "verify" /\ tip' = cacheBest /\ target' = cacheBest
          /\ dEvo' = [dEvo EXCEPT !.mined = @ \cup Reprocessed]
          /\ evo' = [best  |-> IF evo.best = NoBlock THEN cacheBest ELSE evo.best,
                     mined |-> evo.mined \cup Reprocessed]
      BY Zenon, <1>20, <2>2 DEF LoadChainTip
    <3>2. /\ dEvo'.best = dEvo.best /\ dEvo'.mined = dEvo.mined \cup Reprocessed
          /\ evo'.best = IF dEvo.best = NoBlock THEN cacheBest ELSE dEvo.best
          /\ evo'.mined = dEvo.mined \cup Reprocessed
          /\ dEvo' = [best |-> dEvo'.best, mined |-> dEvo'.mined]
          /\ evo' = [best |-> evo'.best, mined |-> evo'.mined]
          /\ dEvo = [best |-> dEvo.best, mined |-> dEvo.mined]
      BY Zenon, <2>0, <3>1 DEF TypeOK, EvoContent
    <3>3. CASE Active(cacheBest)
      <4>1. dEvo.best # NoBlock
        <5>1. cacheBest # NoBlock /\ Height[cacheBest] > 1
          BY <2>0, <3>3, ParameterAssumption, TreeAssumption DEF Active, DIP3Active, MaybeBlock
        <5> QED BY ZenonT(40), <2>2, <5>1 DEF CannotLoadTip
      <4>2. CASE dEvo.best = cacheBest
        <5>1. Reprocessed = {}
          BY Zenon, <4>2 DEF Reprocessed
        <5>2. evo' = dEvo /\ dEvo' = dEvo
          BY Zenon, <3>2, <4>1, <5>1
        <5>3. Fresh(dEvo, cacheBest)
          BY Zenon, <2>0, <4>2 DEF Behind
        <5> QED BY Zenon, <2>0, <3>1, <5>2, <5>3
      <4>3. CASE dEvo.best # cacheBest
        <5>1. Behind(evo', cacheBest) /\ Behind(dEvo', cacheBest)
          BY Zenon, <3>2, <3>3, <4>1, <4>3 DEF Behind
        <5> QED BY Zenon, <2>0, <3>1, <5>1
      <4> QED BY Zenon, <4>2, <4>3
    <3>4. CASE ~Active(cacheBest)
      <4>1. Reprocessed = {}
        <5> SUFFICES ASSUME NEW a \in Reprocessed PROVE FALSE
          BY Zenon
        <5>1. cacheBest \in Block /\ a \in Anc[cacheBest] /\ Height[a] >= DIP3EnforcementHeight
          BY Zenon, <2>0 DEF Reprocessed, MaybeBlock
        <5>2. Height[a] <= Height[cacheBest] /\ Height[a] \in Nat /\ Height[cacheBest] \in Nat
          BY ZenonT(40), <5>1, AncHeight, TreeAssumption
        <5>3. Active(cacheBest)
          BY <5>1, <5>2, ParameterAssumption, TreeAssumption DEF Active, DIP3Active
        <5> QED BY Zenon, <3>4, <5>3
      <4>2. dEvo.mined = {} /\ ~Active(dEvo.best)
        BY Zenon, <2>0, <3>4 DEF Fresh, Behind
      <4>3. Fresh(evo', cacheBest) /\ Fresh(dEvo', cacheBest)
        BY Zenon, <3>2, <3>4, <4>1, <4>2 DEF Fresh
      <4> QED BY Zenon, <2>0, <3>1, <3>4, <4>3
    <3> QED BY Zenon, <3>3, <3>4
  <2> QED BY Zenon, <2>1, <2>2
<1>21. CASE VerifyBlock
  <2>0. /\ pc = "verify" /\ dHeads = <<>> /\ dBest = cacheBest /\ tip = cacheBest /\ target \in ToVerify
        /\ UNCHANGED <<dIndex, dCoins, dBest, dHeads, dEvo, index, tip, cacheBest, evo, stage>>
    BY Zenon, <1>21 DEF VerifyBlock
  <2>1. CASE pc' = "failed" /\ cache' = Clean
    BY Zenon, <2>0, <2>1 DEF Lagging
  <2>2. CASE /\ pc' = "verify"
             /\ ~CannotUndo(target, IF target = tip THEN evo ELSE [evo EXCEPT !.best = target], CoinsView)
    <3>1. Active(tip) => evo.best = tip
      <4>1. CASE target = tip
        BY Zenon, <2>2, <4>1 DEF CannotUndo, Active
      <4>2. CASE target # tip
        BY Zenon, <2>0, <4>2
      <4> QED BY Zenon, <4>1, <4>2
    <3> QED BY Zenon, <2>0, <2>2, <3>1
  <2>3. \/ pc' = "failed" /\ cache' = Clean
        \/ /\ pc' = "verify"
           /\ ~CannotUndo(target, IF target = tip THEN evo ELSE [evo EXCEPT !.best = target], CoinsView)
    BY Zenon, <1>21, <2>0 DEF VerifyBlock
  <2> QED BY Zenon, <2>1, <2>2, <2>3
<1>22. CASE VerifyDone
  <2>0. /\ pc = "verify" /\ dHeads = <<>> /\ dBest = cacheBest /\ tip = cacheBest /\ target \notin ToVerify
        /\ UNCHANGED <<dIndex, dCoins, dBest, dHeads, dEvo, index, tip, cacheBest, evo, stage>>
        /\ pc' = "run"
    BY Zenon, <1>22 DEF VerifyDone
  <2>1. Active(tip) => target # tip
    <3> SUFFICES ASSUME Active(tip) PROVE tip \in ToVerify
      BY Zenon, <2>0
    <3>1. tip \in Block /\ tip # Genesis /\ tip # NoBlock
      BY ZenonT(40), GenesisInactive DEF Active, TypeOK, MaybeBlock
    <3>2. Height[tip] > Height[tip] - CheckDepth
      BY <3>1, ParameterAssumption, TreeAssumption
    <3> QED BY Zenon, <3>1, <3>2, AncParent DEF ToVerify
  <2>2. Fresh(evo, cacheBest) /\ Fresh(dEvo, cacheBest)
    BY Zenon, <2>0, <2>1 DEF Behind
  <2> QED BY Zenon, <2>0, <2>2
<1>23. CASE Exit
  BY Zenon, <1>23 DEF Exit, Lagging
<1>24. CASE WipeEvoDB
  BY Zenon, <1>24 DEF WipeEvoDB
<1>25. CASE WipeCoins
  BY Zenon, <1>25, WipedEvo DEF EvoInv
<1>26. CASE UNCHANGED vars
  <2>1. /\ UNCHANGED <<dCoins, dBest, dHeads, dEvo, cache, cacheBest, evo>>
        /\ UNCHANGED <<tip, pc, target, stage>>
    BY Zenon, <1>26 DEF vars
  <2>2. CoinsView' = CoinsView /\ (Lagging' <=> Lagging)
    BY Zenon, <2>1 DEF Lagging
  <2>3. DiskEvo' /\ RollEvo'
    BY Zenon, <2>1, <2>2
  <2>4. MemoryEvo'
    BY Zenon, <2>1, <2>2
  <2> QED BY Zenon, <2>3, <2>4
<1>27. CASE TipAssertionFails
  BY Zenon, <1>0, <1>27 DEF TipAssertionFails
<1>28. CASE AssertionFails
  BY Zenon, <1>0, <1>28 DEF AssertionFails
<1>29. CASE WriteIndexFails
  BY Zenon, <1>29 DEF WriteIndexFails
<1>30. CASE Shutdown
  BY Zenon, <1>30 DEF Shutdown
<1> QED
  BY ZenonT(40), <1>1, <1>2, <1>3, <1>4, <1>5, <1>6, <1>7, <1>8, <1>9, <1>10, <1>11, <1>12, <1>13, <1>14,
     <1>15, <1>16, <1>17, <1>18, <1>19, <1>20, <1>21, <1>22, <1>23, <1>24, <1>25, <1>26, <1>27, <1>28,
     <1>29, <1>30
  DEF Next, Operate, StartUp

LEMMA AlignedStep ==
    ASSUME FailAt = {}, ReorgFloor >= DIP3Height
    PROVE  Aligned /\ [Next]_vars => Aligned'
<1> SUFFICES ASSUME Aligned, [Next]_vars PROVE Aligned'
  BY Zenon
<1>1. Placed /\ Placed' /\ WipeInv /\ WipeInv'
  BY Zenon, PlacedStep, WipeStep DEF Aligned
<1>2. ASSUME ~wiped' PROVE EvoInv'
  <2>1. CASE WipeCoins
    BY Zenon, <1>1, <2>1, WipedEvo
  <2>2. CASE ~WipeCoins
    <3>1. ~wiped
      BY Zenon, <1>2, <2>2, WipedStep DEF WipeEvoDB
    <3> QED BY Zenon, <1>1, <1>2, <3>1, EvoStep DEF Aligned
  <2> QED BY Zenon, <2>1, <2>2
<1> QED BY Zenon, <1>1, <1>2 DEF Aligned

\* A node that accepts blocks has coins view, evodb and tip at the same block
\* after any sequence of crashes at any point, replays, failed starts and
\* reindexing, when no write fails and no block below the height at which
\* DisconnectBlock checks evodb is disconnected.  For evodb that excludes the
\* node that a crash took between the two wipes of a reindex.
THEOREM NodeIsConsistent ==
    ASSUME FailAt = {}, ReorgFloor >= DIP3Height
    PROVE  Spec => []RunningNodeConsistent
<1>1. Aligned => RunningNodeConsistent
  BY Zenon
  DEF Aligned, Placed, Exact, ViewInv, TipInv, EvoInv, MemoryEvo, Flushed, Fresh, Active,
      RunningNodeConsistent
<1> QED BY <1>1, AlignedInit, AlignedStep, PTL DEF Spec

\* ReplayBlocks starts rolling special transactions forward from where evodb
\* really stands: an interrupted flush of the coins leaves evodb exactly at the
\* tip the transition started from, unless an interrupted reindex wiped it.
THEOREM ReplayIsSound ==
    ASSUME FailAt = {}, ReorgFloor >= DIP3Height
    PROVE  Spec => []ReplayStartsAtEvoDB
<1>1. Aligned => ReplayStartsAtEvoDB
  BY Zenon DEF Aligned, EvoInv, DiskEvo, Fresh, Active, ReplayStartsAtEvoDB
<1> QED BY <1>1, AlignedInit, AlignedStep, PTL DEF Spec

----------------------------------------------------------------------------
(* Starts that succeed *)

\* The conditions under which a crash never costs a reindex: the process only
\* dies while coins are flushed, no special transaction looks up a collateral,
\* and no block is disconnected.
Benign ==
    /\ FailAt = {}
    /\ CrashAt \subseteq {"coins", "rcoins"}
    /\ \A b \in Block : Needs[b] = {} /\ Height[b] <= ReorgFloor

\* evodb stands at b, for the checks of a start.
StandsAt(e, b) ==
    /\ b = NoBlock => e = EmptyEvo
    /\ b \notin {NoBlock, Genesis} => e.best = b

\* The points at which the coins view has its best block.
Loaded == {"run", "ifneeded", "coins", "evo", "stopping", "rcoins", "rcommit", "loadtip", "verify"}

\* The inductive invariant: on disk evodb stands at the tip the coins database
\* moves away from, which is an ancestor of the one it moves to.
Startable ==
    /\ pc \notin {"evo", "rcommit", "wipe"} => StandsAt(dEvo, OldTip)
    /\ pc \in Loaded => StandsAt(evo, cacheBest)
    /\ pc \in {"replay", "loadtip"} => evo = dEvo
    /\ pc = "evo" => dBest = cacheBest
    /\ cacheBest # NoBlock => OldTip = NoBlock \/ OldTip \in Anc[cacheBest]
    /\ pc \in {"run", "ifneeded"} /\ cacheBest = NoBlock => OldTip = NoBlock
    /\ dHeads # <<>> => dHeads[2] = NoBlock \/ dHeads[2] \in Anc[dHeads[1]]
    /\ pc = "verify" => CoinsView = UtxoAt(target)
    /\ pc \in {"down", "wipe"} => evo = EmptyEvo
    /\ pc = "wipe" => dEvo = EmptyEvo
    /\ pc # "failed"

\* A block can be undone on the coins it left.
LEMMA UndoPossible ==
    ASSUME NEW b \in Block \ {Genesis}, NEW e, DIP3Active(b) => e.best = b
    PROVE  ~CannotUndo(b, e, Utxo[b])
  BY CoinAssumption DEF CannotUndo

LEMMA StartableInit == Init => Startable
  BY Zenon DEF Init, Startable, StandsAt, Loaded, OldTip, EmptyEvo

LEMMA StartableStep ==
    ASSUME Benign
    PROVE  Placed /\ Startable /\ [Next]_vars => Startable'
<1> SUFFICES ASSUME Placed, Startable, [Next]_vars PROVE Startable'
  BY Zenon
<1>a. Placed /\ Placed'
  BY Zenon, PlacedStep DEF Benign
<1>b. TypeOK /\ TypeOK' /\ Control /\ MarkerInv /\ IndexInv /\ DbInv /\ ViewInv /\ TipInv
      /\ Control' /\ MarkerInv' /\ ViewInv' /\ TipInv'
  BY Zenon, <1>a DEF Placed, Exact, Marked, Indexed, Shape
<1>c. dCoins \subseteq Coin /\ dCoins' \subseteq Coin
  BY Zenon, <1>b DEF TypeOK
<1>d. dHeads # <<>> => dHeads[1] \in Block /\ dHeads[2] \in MaybeBlock
  BY Zenon, <1>b DEF TypeOK
<1>e. FailAt = {}
  BY Zenon DEF Benign
<1>f. cacheBest \in MaybeBlock /\ NoBlock \notin Block
  BY Zenon, <1>b, TreeAssumption DEF TypeOK
<1> USE <1>b, <1>c, <1>d, <1>e, <1>f, ViewSame
    DEF MarkerInv, Settled, Control, ViewInv, TipInv, Startable, Loaded, OldTip,
        disk, memory, StartShutdown, FirstFlush, Fails
<1>0. ASSUME ProcessEnds, UNCHANGED <<dBest, dHeads>>, StandsAt(dEvo', OldTip)
      PROVE  Startable'
  BY Zenon, <1>0 DEF ProcessEnds
<1>1. ASSUME NEW b \in Block, AcceptBlock(b) PROVE Startable'
  BY Zenon, <1>1 DEF AcceptBlock
<1>2. ASSUME NEW b \in Block, ConnectTip(b) PROVE Startable'
  <2>0. pc = "run" /\ UNCHANGED <<dIndex, dCoins, dBest, dHeads, dEvo, index, tip>>
        /\ tip = cacheBest /\ (IF b = Genesis THEN tip = NoBlock ELSE Parent[b] = tip)
    BY Zenon, <1>2 DEF ConnectTip, ExtendsTip
  <2>1. ~EvoDBBehind(b)
    <3> SUFFICES ASSUME b # Genesis, DIP3Active(b) PROVE evo.best = Parent[b]
      BY Zenon DEF EvoDBBehind
    <3>1. Parent[b] = tip /\ tip \in Block
      BY Zenon, <2>0, TreeAssumption
    <3>2. tip # Genesis
      BY <3>1, TreeAssumption, ParameterAssumption DEF DIP3Active
    <3> QED BY Zenon, <2>0, <3>1, <3>2 DEF StandsAt
  <2>2. /\ cacheBest' = b /\ pc' = "ifneeded"
        /\ evo' = IF b = Genesis THEN evo ELSE Processed(evo, b)
    BY Zenon, <1>2, <2>1 DEF ConnectTip
  <2>3. StandsAt(evo', b)
    BY Zenon, <2>2 DEF StandsAt, Processed
  <2>4. OldTip = NoBlock \/ OldTip \in Anc[b]
    BY Zenon, <2>0, TreeAssumption
  <2> QED BY Zenon, <2>0, <2>2, <2>3, <2>4
<1>3. CASE DisconnectTip
  <2>1. tip \in Block /\ Height[tip] > ReorgFloor
    BY Zenon, <1>3 DEF DisconnectTip, TypeOK, MaybeBlock
  <2> QED BY <2>1, TreeAssumption, ParameterAssumption DEF Benign
<1>4. CASE FlushNotNeeded
  BY Zenon, <1>4 DEF FlushNotNeeded
<1>5. CASE PeriodicWrite
  BY Zenon, <1>5 DEF PeriodicWrite
<1>6. CASE FlushStateToDisk
  BY Zenon, <1>6 DEF FlushStateToDisk
<1>7. ASSUME NEW S \in SUBSET Coin, WritePartialBatch(S) PROVE Startable'
  <2>1. dHeads' = <<cacheBest, OldTip>> /\ dHeads'[1] = cacheBest /\ dHeads'[2] = OldTip /\ dHeads' # <<>>
    BY Zenon, <1>7 DEF WritePartialBatch
  <2> QED BY Zenon, <1>7, <2>1 DEF WritePartialBatch
<1>8. ASSUME NEW S \in SUBSET Coin, WriteBatchThrows(S) PROVE Startable'
  BY Zenon, <1>8 DEF WriteBatchThrows
<1>9. CASE WriteFinalBatch
  <2>1. cacheBest \in Anc[cacheBest]
    BY Zenon, <1>9, AncParent DEF WriteFinalBatch, MaybeBlock
  <2> QED BY Zenon, <1>9, <2>1 DEF WriteFinalBatch
<1>10. CASE CommitEvoDB
  <2>0. /\ pc = "evo" /\ dEvo' = evo /\ dHeads = <<>> /\ cacheBest # NoBlock
        /\ UNCHANGED <<dCoins, dBest, dHeads>> /\ FlushReturns /\ dBest = cacheBest
    BY Zenon, <1>10 DEF CommitEvoDB
  <2>1. CASE pc' = "run" /\ UNCHANGED <<cache, cacheBest, evo>>
    BY Zenon, <2>0, <2>1
  <2>2. CASE pc' = "stopping" /\ UNCHANGED <<cache, cacheBest, evo>>
    BY Zenon, <2>0, <2>2
  <2>3. CASE ProcessEnds
    BY Zenon, <1>0, <2>0, <2>3
  <2> QED BY Zenon, <2>0, <2>1, <2>2, <2>3 DEF FlushReturns
<1>11. CASE CommitEvoDBThrows
  BY Zenon, <1>11 DEF CommitEvoDBThrows
<1>12. CASE RequestShutdown
  BY Zenon, <1>12 DEF RequestShutdown
<1>13. CASE ShutdownEmpty
  BY Zenon, <1>0, <1>13 DEF ShutdownEmpty
<1>14. CASE Crash
  BY Zenon, <1>0, <1>14 DEF Crash, Benign
<1>15. CASE LoadBlockIndex
  BY Zenon, <1>15 DEF LoadBlockIndex
<1>16. CASE ReplayBlocks
  <2>0. pc = "replay" /\ UNCHANGED <<dIndex, dCoins, dBest, dHeads, dEvo, index, tip, cache, evo, stage>>
        /\ cacheBest = NoBlock /\ evo = dEvo
    BY Zenon, <1>16 DEF ReplayBlocks
  <2>1. CASE dHeads = <<>>
    <3>1. dBest # NoBlock => dBest \in Anc[dBest]
      BY Zenon, AncParent DEF TypeOK, MaybeBlock
    <3> QED BY Zenon, <1>16, <2>0, <2>1, <3>1 DEF ReplayBlocks
  <2>2. CASE dHeads # <<>>
    <3>1. ~CannotReplay(dHeads[1], dHeads[2])
      BY Zenon, <2>0, <2>2 DEF CannotReplay, IndexInv
    <3> QED BY Zenon, <1>16, <2>0, <2>2, <3>1 DEF ReplayBlocks
  <2> QED BY Zenon, <2>1, <2>2
<1>17. ASSUME NEW b \in Block, RollforwardBlock(b) PROVE Startable'
  <2>1. Needs[b] \subseteq CoinsView
    BY Zenon DEF Benign
  <2> QED BY Zenon, <1>17, <2>1 DEF RollforwardBlock
<1>18. CASE ReplayDone
  <2>0. /\ pc = "roll" /\ dHeads # <<>> /\ cacheBest' = dHeads[1] /\ pc' = "rcoins"
        /\ evo' = [evo EXCEPT !.best = dHeads[1]]
        /\ UNCHANGED <<dCoins, dBest, dHeads, dEvo>>
    BY Zenon, <1>18 DEF ReplayDone
  <2>1. StandsAt(evo', dHeads[1])
    <3>1. evo'.best = dHeads[1]
      BY Zenon, <2>0 DEF TypeOK, EvoContent
    <3> QED BY Zenon, <2>0, <3>1 DEF StandsAt
  <2> QED BY Zenon, <2>0, <2>1
<1>19. CASE CommitReplayedEvoDB
  BY Zenon, <1>19 DEF CommitReplayedEvoDB
<1>20. CASE LoadChainTip
  <2>0. /\ pc = "loadtip" /\ evo = dEvo /\ dBest = cacheBest /\ dHeads = <<>> /\ cache = Clean
        /\ StandsAt(dEvo, cacheBest) /\ CoinsView = UtxoAt(cacheBest)
        /\ UNCHANGED <<dIndex, dCoins, dBest, dHeads, index, cache, cacheBest, stage>>
    BY Zenon, <1>20 DEF LoadChainTip
  <2>1. ~CannotLoadTip
    <3>1. cacheBest # NoBlock => cacheBest \in index
      BY Zenon DEF IndexInv
    <3>2. cacheBest # NoBlock /\ Height[cacheBest] > 1 => dEvo.best = cacheBest
      <4>1. Height[Genesis] = 0
        BY Zenon, TreeAssumption
      <4>2. Height[cacheBest] > 1 => cacheBest # Genesis
        BY <4>1
      <4> QED BY Zenon, <2>0, <4>2 DEF StandsAt
    <3> QED BY Zenon, <2>0, <3>1, <3>2 DEF CannotLoadTip, StandsAt
  <2>2. /\ pc' = "verify" /\ tip' = cacheBest /\ target' = cacheBest
        /\ dEvo' = [dEvo EXCEPT !.mined = @ \cup Reprocessed]
        /\ evo' = [best  |-> IF evo.best = NoBlock THEN cacheBest ELSE evo.best,
                   mined |-> evo.mined \cup Reprocessed]
    BY Zenon, <1>20, <2>1 DEF LoadChainTip
  <2>3. dEvo \in [best : MaybeBlock, mined : SUBSET Block]
    BY Zenon DEF TypeOK, EvoContent
  <2>4. StandsAt(evo', cacheBest) /\ StandsAt(dEvo', cacheBest)
    <3>1. CASE cacheBest = NoBlock
      <4>1. Reprocessed = {} /\ dEvo = EmptyEvo
        BY Zenon, <2>0, <3>1 DEF Reprocessed, StandsAt
      <4>2. evo' = EmptyEvo /\ dEvo' = EmptyEvo
        BY Zenon, <2>0, <2>2, <3>1, <4>1 DEF EmptyEvo
      <4> QED BY Zenon, <3>1, <4>2 DEF StandsAt
    <3>2. CASE cacheBest # NoBlock
      <4>1. dEvo'.best = dEvo.best /\ evo'.best = IF dEvo.best = NoBlock THEN cacheBest ELSE dEvo.best
        BY Zenon, <2>0, <2>2, <2>3
      <4> QED BY Zenon, <2>0, <3>2, <4>1 DEF StandsAt
    <3> QED BY Zenon, <3>1, <3>2
  <2> QED BY Zenon, <2>0, <2>2, <2>4
<1>21. CASE VerifyBlock
  <2>0. /\ pc = "verify" /\ tip = cacheBest /\ target \in ToVerify
        /\ UNCHANGED <<dIndex, dCoins, dBest, dHeads, dEvo, index, tip, cacheBest, evo, stage>>
    BY Zenon, <1>21 DEF VerifyBlock
  <2>1. target \in Block \ {Genesis} /\ Parent[target] \in Block /\ target # NoBlock
    BY <2>0, TreeAssumption DEF ToVerify, TypeOK, MaybeBlock
  <2>2. CoinsView = Utxo[target]
    BY Zenon, <2>0, <2>1 DEF UtxoAt
  <2> DEFINE e == IF target = tip THEN evo ELSE [evo EXCEPT !.best = target]
  <2>3. e.best = target
    <3>1. CASE target = tip
      BY Zenon, <2>0, <2>1, <3>1 DEF StandsAt
    <3>2. CASE target # tip
      BY Zenon, <3>2 DEF TypeOK, EvoContent
    <3> QED BY Zenon, <3>1, <3>2
  <2>4. ~CannotUndo(target, e, CoinsView)
    BY Zenon, <2>1, <2>2, <2>3, UndoPossible
  <2>5. /\ cache' = Update(cache, Creates[target], Spends[target])
        /\ target' = Parent[target] /\ UNCHANGED pc
    BY Zenon, <1>21, <2>4 DEF VerifyBlock
  <2>6. CoinsView' = (CoinsView \ Creates[target]) \cup Spends[target]
    BY <2>0, <2>1, <2>5, ViewUpdate, CoinAssumption
  <2>7. CoinsView' = UtxoAt(target')
    BY Zenon, <2>1, <2>2, <2>5, <2>6, BlockCoins DEF UtxoAt
  <2> QED BY Zenon, <2>0, <2>5, <2>7
<1>22. CASE VerifyDone
  BY Zenon, <1>22 DEF VerifyDone
<1>23. CASE Exit
  BY Zenon, <1>23 DEF Exit
<1>24. CASE WipeEvoDB
  BY Zenon, <1>24 DEF WipeEvoDB
<1>25. CASE WipeCoins
  <2>1. /\ pc = "wipe" /\ pc' = "run" /\ dHeads' = <<>> /\ dBest' = NoBlock
        /\ dEvo = EmptyEvo /\ evo = EmptyEvo /\ cacheBest = NoBlock
        /\ UNCHANGED <<dEvo, evo, cacheBest>>
    BY Zenon, <1>25 DEF WipeCoins
  <2>2. StandsAt(EmptyEvo, NoBlock)
    BY Zenon DEF StandsAt
  <2> QED BY Zenon, <2>1, <2>2
<1>26. CASE UNCHANGED vars
  <2>1. /\ UNCHANGED <<dCoins, dBest, dHeads, dEvo, cache, cacheBest, evo>>
        /\ UNCHANGED <<tip, pc, target, stage>>
    BY Zenon, <1>26 DEF vars
  <2> QED BY Zenon, <2>1
<1>27. CASE TipAssertionFails
  BY Zenon, <1>27 DEF TipAssertionFails
<1>28. CASE AssertionFails
  BY Zenon, <1>28 DEF AssertionFails, Resumes
<1>29. CASE WriteIndexFails
  BY Zenon, <1>29 DEF WriteIndexFails
<1>30. CASE Shutdown
  BY Zenon, <1>30 DEF Shutdown
<1> QED
  BY ZenonT(40), <1>1, <1>2, <1>3, <1>4, <1>5, <1>6, <1>7, <1>8, <1>9, <1>10, <1>11, <1>12, <1>13, <1>14,
     <1>15, <1>16, <1>17, <1>18, <1>19, <1>20, <1>21, <1>22, <1>23, <1>24, <1>25, <1>26, <1>27, <1>28,
     <1>29, <1>30
  DEF Next, Operate, StartUp

\* A node that only dies while it flushes coins, and neither reorganises nor
\* looks up collaterals while it replays, never gives up a start.
THEOREM StartNeedsNoReindex ==
    ASSUME Benign
    PROVE  Spec => []NeverNeedsReindex
<1>1. FailAt = {}
  BY Zenon DEF Benign
<1>2. Startable => NeverNeedsReindex
  BY Zenon DEF Startable, NeverNeedsReindex
<1> QED BY <1>1, <1>2, PlacedInit, PlacedStep, StartableInit, StartableStep, PTL DEF Spec
=============================================================================
