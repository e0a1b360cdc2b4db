----------------------------- MODULE ChainLocks -----------------------------
(***************************************************************************)
(* CChainLocksHandler of one node: CLSIGs that arrive on the message       *)
(* handler thread or are made from recovered signatures on another one,    *)
(* the scheduler thread that enforces the best ChainLock and signs the     *)
(* tip, and the part of validation that ChainLocks act on (headers, block  *)
(* data, the conflict and failure flags, ActivateBestChain).               *)
(*                                                                         *)
(* A step is what a thread does under one acquisition of cs or cs_main,    *)
(* so threads interleave wherever the code releases them.  Only CLSIGs     *)
(* with a valid signature are modelled, and for those the height is the    *)
(* height of the block; a CLSIG is the block it locks.  Every block has    *)
(* the same work.                                                          *)
(***************************************************************************)
EXTENDS Integers

CONSTANTS
    Block, Genesis, NoBlock,
    Parent, Height, Anc,    \* as in Chainstate
    Known,                  \* blocks known and connected at the start, a chain
    StartTip,               \* its last block
    Lock,                   \* blocks for which a CLSIG can exist
    Net, Recoverer,         \* the threads that call ProcessNewChainLock
    Scheduler,              \* the thread of CChainLocksHandler::scheduler
    fMasternodeMode,
    BlocksFromRPC,          \* blocks also come from threads other than Net
    DIP8Height,
    ActiveAtStart,          \* ChainLocks were found active before the first step
    MaxToggles              \* bound on changes of SPORK_19_CHAINLOCKS_ENABLED

ASSUME TreeAssumption ==
    /\ Genesis \in Block /\ NoBlock \notin Block
    /\ Parent \in [Block \ {Genesis} -> Block]
    /\ Height \in [Block -> Nat] /\ Height[Genesis] = 0
    /\ \A b \in Block \ {Genesis} : Height[b] = Height[Parent[b]] + 1
    /\ Anc \in [Block -> SUBSET Block] /\ Anc[Genesis] = {Genesis}
    /\ \A b \in Block \ {Genesis} : Anc[b] = {b} \cup Anc[Parent[b]]

ASSUME StartAssumption ==
    /\ StartTip \in Block /\ Known = Anc[StartTip]
    /\ Lock \subseteq Block
    /\ Net # Recoverer /\ Net # Scheduler /\ Recoverer # Scheduler
    /\ fMasternodeMode \in BOOLEAN /\ BlocksFromRPC \in BOOLEAN
    /\ ActiveAtStart \in BOOLEAN
    /\ DIP8Height \in Nat /\ MaxToggles \in Nat

Handler == {Net, Recoverer}
Thread == Handler \cup {Scheduler}

VARIABLES
    index, have,            \* headers and blocks in the block index
    conflict, failed,       \* BLOCK_CONFLICT_CHAINLOCK, BLOCK_FAILED_MASK
    tip,
    reorgFrom,              \* the starting tip while ActivateBestChain keeps cs_main
    spork, toggles,
    isEnabled, isEnforced,
    best,                   \* bestChainLock
    bestIndex,              \* bestChainLockBlockIndex, bestChainLockWithKnownBlock
    lastNotify,             \* lastNotifyChainLockBlockIndex
    lastSigned,
    seen,                   \* seenChainLocks
    pc, blk, saw,           \* per thread: where it is, its block, what it read
    signed                  \* blocks handed to AsyncSignIfMember

chain == <<index, have, conflict, failed, tip, reorgFrom>>
flags == <<isEnabled, isEnforced>>
locks == <<best, bestIndex, lastNotify>>
vars == <<index, have, conflict, failed, tip, reorgFrom, spork, toggles,
          isEnabled, isEnforced, best, bestIndex, lastNotify, lastSigned, seen,
          pc, blk, saw, signed>>

MaybeBlock == Block \cup {NoBlock}
HandlerPoints == {"idle", "check", "flags", "reset", "seen", "lookup", "known", "unknown"}
SchedulerPoints == {"idle", "check", "flags", "reset", "enforce", "mark", "activate",
                    "notify", "sign", "signcheck", "dosign"}

\* Types; at a block of its own a thread always has one, and flagged blocks
\* are in the index.
TypeOK ==
    /\ have \subseteq index /\ index \subseteq Block
    /\ conflict \subseteq index /\ failed \subseteq index
    /\ tip \in have
    /\ {reorgFrom, best, bestIndex, lastNotify, lastSigned} \subseteq MaybeBlock
    /\ bestIndex \in index \cup {NoBlock}
    /\ seen \subseteq Lock /\ signed \subseteq Block
    /\ pc \in [Thread -> HandlerPoints \cup SchedulerPoints]
    /\ blk \in [Thread -> MaybeBlock]
    /\ \A t \in Handler : pc[t] \in HandlerPoints \ {"idle"} => blk[t] \in Lock
    /\ pc[Scheduler] \in SchedulerPoints
    /\ toggles \in 0 .. MaxToggles

HeightOf(b) == IF b = NoBlock THEN -1 ELSE Height[b]

\* cs_main is free.
MainFree == reorgFrom = NoBlock

Goto(t, p) == pc' = [pc EXCEPT ![t] = p]

\* The thread has nothing more to do.
Ends(t) ==
    /\ Goto(t, "idle")
    /\ blk' = [blk EXCEPT ![t] = NoBlock]

NothingSeen == [dip8 |-> FALSE, old |-> FALSE]

----------------------------------------------------------------------------
(* Queries *)

InternalHasConflictingChainLock(b) ==
    /\ isEnforced
    /\ bestIndex # NoBlock
    /\ Height[b] <= Height[bestIndex]
    /\ b \notin Anc[bestIndex]

DIP8Active == tip # Genesis /\ Height[Parent[tip]] >= DIP8Height

----------------------------------------------------------------------------
(* CheckActiveState, called by every thread first *)

Continue(t) == IF t = Scheduler THEN "enforce" ELSE "seen"

ReadActiveState(t) ==
    /\ pc[t] = "check" /\ MainFree
    /\ saw' = [saw EXCEPT ![t] = [dip8 |-> DIP8Active, old |-> isEnforced]]
    /\ Goto(t, "flags")
    /\ UNCHANGED <<chain, spork, toggles, flags, locks, lastSigned, seen, blk, signed>>

WriteActiveState(t) ==
    /\ pc[t] = "flags"
    /\ isEnabled' = spork
    /\ isEnforced' = (saw[t].dip8 /\ spork)
    /\ Goto(t, IF ~saw[t].old /\ isEnforced' THEN "reset" ELSE Continue(t))
    /\ saw' = [saw EXCEPT ![t] = NothingSeen]
    /\ UNCHANGED <<chain, spork, toggles, locks, lastSigned, seen, blk, signed>>

\* ChainLocks became active: what is left from an earlier time is dropped.
ResetChainLocks(t) ==
    /\ pc[t] = "reset"
    /\ best' = NoBlock /\ bestIndex' = NoBlock /\ lastNotify' = NoBlock
    /\ Goto(t, Continue(t))
    /\ UNCHANGED <<chain, spork, toggles, flags, lastSigned, seen, blk, saw, signed>>

----------------------------------------------------------------------------
(* ProcessNewChainLock *)

\* ProcessMessage: a CLSIG from a peer.
ProcessMessage(l) ==
    /\ pc[Net] = "idle"
    /\ spork
    /\ blk' = [blk EXCEPT ![Net] = l]
    /\ Goto(Net, "check")
    /\ UNCHANGED <<chain, spork, toggles, flags, locks, lastSigned, seen, saw, signed>>

\* The signature of what this node signed was recovered.
HandleNewRecoveredSig ==
    /\ pc[Recoverer] = "idle"
    /\ isEnabled
    /\ lastSigned \in Lock
    /\ HeightOf(best) < HeightOf(lastSigned)
    /\ blk' = [blk EXCEPT ![Recoverer] = lastSigned]
    /\ Goto(Recoverer, "check")
    /\ UNCHANGED <<chain, spork, toggles, flags, locks, lastSigned, seen, saw, signed>>

\* Known CLSIGs and CLSIGs that are not higher than the best one are dropped.
CheckSeen(t) ==
    /\ pc[t] = "seen"
    /\ seen' = seen \cup {blk[t]}
    /\ IF blk[t] \in seen \/ Height[blk[t]] <= HeightOf(best)
         THEN Ends(t)
         ELSE Goto(t, "lookup") /\ UNCHANGED blk
    /\ UNCHANGED <<chain, spork, toggles, flags, locks, lastSigned, saw, signed>>

\* VerifyRecoveredSig succeeds; LookupBlockIndex.
LookupBlockIndex(t) ==
    /\ pc[t] = "lookup" /\ MainFree
    /\ Goto(t, IF blk[t] \in index THEN "known" ELSE "unknown")
    /\ UNCHANGED <<chain, spork, toggles, flags, locks, lastSigned, seen, blk, saw, signed>>

\* Mutant: the block index is set for an unknown block, too.
SetUnknownBlock(t) ==
    /\ pc[t] \in {"known", "unknown"}
    /\ best' = blk[t] /\ bestIndex' = blk[t]
    /\ Ends(t)
    /\ UNCHANGED <<chain, spork, toggles, flags, lastNotify, lastSigned, seen, saw, signed>>

\* The best ChainLock is replaced and relayed; enforcing it is scheduled when
\* its block is known.
SetBestChainLock(t) ==
    /\ pc[t] \in {"known", "unknown"}
    /\ best' = blk[t]
    /\ bestIndex' = IF pc[t] = "known" THEN blk[t] ELSE bestIndex
    /\ Ends(t)
    /\ UNCHANGED <<chain, spork, toggles, flags, lastNotify, lastSigned, seen, saw, signed>>

----------------------------------------------------------------------------
(* Validation *)

\* Whether the thread that brings a block is free to do so.
MayDeliver == BlocksFromRPC \/ pc[Net] = "idle"

\* Mutant: a header that comes late is not matched with the best ChainLock.
HeaderNotMatched(b) ==
    /\ MainFree /\ MayDeliver
    /\ b \notin index /\ Parent[b] \in index \ conflict /\ Anc[b] \cap failed = {}
    /\ index' = index \cup {b}
    /\ conflict' = IF InternalHasConflictingChainLock(b) THEN conflict \cup {b} ELSE conflict
    /\ UNCHANGED <<have, failed, tip, reorgFrom, spork, toggles, flags, best, bestIndex,
                   lastNotify, lastSigned, seen, pc, blk, saw, signed>>

\* BlockManager::AcceptBlockHeader and CChainLocksHandler::AcceptedBlockHeader.
AcceptBlockHeader(b) ==
    /\ MainFree /\ MayDeliver
    /\ b \notin index /\ Parent[b] \in index \ conflict /\ Anc[b] \cap failed = {}
    /\ index' = index \cup {b}
    /\ IF InternalHasConflictingChainLock(b)
         THEN conflict' = conflict \cup {b} /\ UNCHANGED bestIndex
         ELSE bestIndex' = (IF b = best THEN b ELSE bestIndex) /\ UNCHANGED conflict
    /\ UNCHANGED <<have, failed, tip, reorgFrom, spork, toggles, flags, best, lastNotify,
                   lastSigned, seen, pc, blk, saw, signed>>

\* AcceptBlock: the data of a block whose header is not flagged.
AcceptBlock(b) ==
    /\ MainFree /\ MayDeliver
    /\ b \in index \ (have \cup conflict \cup failed)
    /\ have' = have \cup {b}
    /\ UNCHANGED <<index, conflict, failed, tip, reorgFrom, spork, toggles, flags, locks,
                   lastSigned, seen, pc, blk, saw, signed>>

\* FindMostWorkChain: blocks that are on the active chain already are not
\* looked at again.  The flags it spreads to the descendants of a flagged block
\* follow from that block and are not kept.
MostWorkFrom(top, bad) ==
    LET C == {b \in index : Anc[b] \ Anc[top] \subseteq have \ (conflict \cup bad)}
    IN  {b \in C : \A c \in C : Height[c] <= Height[b]}
MostWork == MostWorkFrom(tip, failed)
Path(b) == Anc[b] \ Anc[tip]

\* What ActivateBestChain goes for: more work than the tip has or, when a
\* reorganisation has failed, the tip it started from.
Wanted ==
    LET W == MostWork
    IN  IF tip \in W THEN (W \cap {reorgFrom}) \ {tip} ELSE W

\* ActivateBestChainStep ends at the first block with more work than the tip.
StepEnds(b) == {x \in Path(b) : x = b \/ Height[x] = Height[tip] + 1}
StepEnd(b) == CHOOSE x \in StepEnds(b) : \A y \in StepEnds(b) : Height[x] <= Height[y]

\* cs_main is kept until the new tip is no worse than the one it started from,
\* or no better chain is left.
Release(new, bad) ==
    LET start == IF MainFree THEN tip ELSE reorgFrom
        W     == MostWorkFrom(new, bad)
        over  == Height[new] > Height[start] \/ new = start \/ (new \in W /\ start \notin W)
    IN  reorgFrom' \in IF over THEN {NoBlock}
                       ELSE {start} \cup {x \in {NoBlock} : Height[new] = Height[start]}

\* Mutant: ConnectBlock does not look at ChainLocks.
ConnectUnchecked(b) ==
    /\ tip' = StepEnd(b) /\ Release(StepEnd(b), failed)
    /\ UNCHANGED <<index, have, conflict, failed, spork, toggles, flags, locks, lastSigned,
                   seen, pc, blk, saw, signed>>

\* One ActivateBestChainStep towards b.  ConnectBlock refuses a block that
\* conflicts with the ChainLock known by then.
ActivateBestChain(b) ==
    /\ LET bad == {x \in Path(StepEnd(b)) : InternalHasConflictingChainLock(x)}
       IN  \/ /\ bad = {}
              /\ tip' = StepEnd(b) /\ Release(StepEnd(b), failed)
              /\ UNCHANGED failed
           \/ \E x \in bad :
              /\ \A y \in bad : Height[x] <= Height[y]
              /\ failed' = failed \cup {y \in Path(b) : x \in Anc[y]}
              /\ tip' = Parent[x] /\ Release(Parent[x], failed')
    /\ UNCHANGED <<index, have, conflict, spork, toggles, flags, locks, lastSigned, seen, pc,
                   blk, saw, signed>>

SporkUpdated ==
    /\ toggles < MaxToggles
    /\ toggles' = toggles + 1
    /\ spork' = ~spork
    /\ UNCHANGED <<chain, flags, locks, lastSigned, seen, pc, blk, saw, signed>>

----------------------------------------------------------------------------
(* The scheduler thread *)

\* A task: the one that runs every 5 seconds, after a new tip, or after a new
\* ChainLock.  As the first may come at any time, so may any of them.
RunTask ==
    /\ pc[Scheduler] = "idle"
    /\ Goto(Scheduler, "check")
    /\ UNCHANGED <<chain, spork, toggles, flags, locks, lastSigned, seen, blk, saw, signed>>

\* Behind EnforceBestChainLock only some of them go on to TrySignChainTip.
AfterEnforce ==
    /\ pc' \in {[pc EXCEPT ![Scheduler] = p] : p \in {"idle", "sign"}}
    /\ blk' = [blk EXCEPT ![Scheduler] = NoBlock]

\* EnforceBestChainLock: what to enforce is read under cs ...
EnforceBestChainLock ==
    /\ pc[Scheduler] = "enforce"
    /\ IF isEnforced /\ bestIndex # NoBlock
         THEN blk' = [blk EXCEPT ![Scheduler] = bestIndex] /\ Goto(Scheduler, "mark")
         ELSE AfterEnforce
    /\ UNCHANGED <<chain, spork, toggles, flags, locks, lastSigned, seen, saw, signed>>

\* The blocks next to the chain of the enforced block, from the active chain on.
Siblings(b) ==
    {s \in index \ ({Genesis} \cup Path(b)) :
        \E w \in Path(b) : w # Genesis /\ Parent[s] = Parent[w]}

\* Mutant: nothing is disconnected.
EnforceFlagsOnly ==
    LET b == blk[Scheduler]
    IN  /\ pc[Scheduler] = "mark" /\ MainFree
        /\ conflict' = conflict \cup Siblings(b)
        /\ failed' = IF b \in failed \/ b \notin have
                       THEN failed \ (Anc[b] \cup {y \in index : b \in Anc[y]}) ELSE failed
        /\ Goto(Scheduler, "activate")
        /\ UNCHANGED <<index, have, tip, reorgFrom, spork, toggles, flags, locks, lastSigned,
                       seen, blk, saw, signed>>

\* Mutant: blocks of the active chain are left alone.
EnforceNothingActive ==
    /\ pc[Scheduler] = "mark" /\ MainFree
    /\ conflict' = conflict \cup (Siblings(blk[Scheduler]) \ Anc[tip])
    /\ Goto(Scheduler, "activate")
    /\ UNCHANGED <<index, have, failed, tip, reorgFrom, spork, toggles, flags, locks,
                   lastSigned, seen, blk, saw, signed>>

\* ... EnforceBlock flags them, after disconnecting the active chain down to
\* their parent, and takes failure flags off the enforced chain ...
EnforceBlock ==
    LET b == blk[Scheduler]
        dead == {y \in Anc[tip] : \E s \in Siblings(b) : s \in Anc[y]}
    IN  /\ pc[Scheduler] = "mark" /\ MainFree
        /\ conflict' = conflict \cup Siblings(b) \cup dead
        /\ tip' \in IF dead = {} THEN {tip}
                    ELSE {a \in Anc[tip] : \E s \in dead \cap Siblings(b) : a = Parent[s]}
        /\ failed' = IF b \in failed \/ b \notin have
                       THEN failed \ (Anc[b] \cup {y \in index : b \in Anc[y]}) ELSE failed
        /\ Goto(Scheduler, "activate")
        /\ UNCHANGED <<index, have, reorgFrom, spork, toggles, flags, locks, lastSigned,
                       seen, blk, saw, signed>>

\* ... ActivateBestChain has run, unless the block is on the active chain ...
ChainActivated ==
    /\ pc[Scheduler] = "activate" /\ MainFree
    /\ IF blk[Scheduler] \in Anc[tip]
         THEN Goto(Scheduler, "notify") /\ UNCHANGED blk
         ELSE tip \in MostWork /\ AfterEnforce
    /\ UNCHANGED <<chain, spork, toggles, flags, locks, lastSigned, seen, saw, signed>>

\* ... and NotifyChainLock is sent once.
NotifyChainLock ==
    /\ pc[Scheduler] = "notify"
    /\ lastNotify' = blk[Scheduler]
    /\ AfterEnforce
    /\ UNCHANGED <<chain, spork, toggles, flags, best, bestIndex, lastSigned, seen, saw, signed>>

\* Mutant: the best header is signed instead of the tip.
SignBestHeader(E) ==
    /\ pc[Scheduler] = "sign" /\ MainFree
    /\ seen' = seen \ E
    /\ IF fMasternodeMode /\ isEnabled /\ tip # Genesis
         THEN /\ \E b \in index :
                   /\ \A c \in index : Height[c] <= Height[b]
                   /\ blk' = [blk EXCEPT ![Scheduler] = b]
              /\ Goto(Scheduler, "signcheck")
         ELSE Ends(Scheduler)
    /\ UNCHANGED <<chain, spork, toggles, flags, locks, lastSigned, saw, signed>>

\* Cleanup forgets the CLSIGs that were seen long ago (E).
Cleanup(E) == seen' = seen \ E

\* TrySignChainTip: after Cleanup the tip is read under cs_main ...
TrySignChainTip(E) ==
    /\ pc[Scheduler] = "sign" /\ MainFree
    /\ Cleanup(E)
    /\ IF fMasternodeMode /\ isEnabled /\ tip # Genesis
         THEN blk' = [blk EXCEPT ![Scheduler] = tip] /\ Goto(Scheduler, "signcheck")
         ELSE Ends(Scheduler)
    /\ UNCHANGED <<chain, spork, toggles, flags, locks, lastSigned, saw, signed>>

\* ... it must be new and must not conflict, and its transactions safe (which
\* depends on InstantSend and on their age, and may go either way) ...
CheckTip ==
    /\ pc[Scheduler] = "signcheck"
    /\ LET b == blk[Scheduler]
       IN  \/ /\ HeightOf(lastSigned) # Height[b]
              /\ HeightOf(best) < Height[b]
              /\ ~InternalHasConflictingChainLock(b)
              /\ Goto(Scheduler, "dosign")
              /\ UNCHANGED blk
           \/ Ends(Scheduler)
    /\ UNCHANGED <<chain, spork, toggles, flags, locks, lastSigned, seen, saw, signed>>

\* ... and is signed unless a CLSIG as high has come in meanwhile.
SignTip ==
    /\ pc[Scheduler] = "dosign"
    /\ LET b == blk[Scheduler]
       IN  IF HeightOf(best) >= Height[b]
             THEN UNCHANGED <<lastSigned, signed>>
             ELSE lastSigned' = b /\ signed' = signed \cup {b}
    /\ Ends(Scheduler)
    /\ UNCHANGED <<chain, spork, toggles, flags, locks, seen, saw>>

----------------------------------------------------------------------------
Init ==
    /\ index = Known /\ have = Known /\ conflict = {} /\ failed = {}
    /\ tip = StartTip /\ reorgFrom = NoBlock
    /\ spork = TRUE /\ toggles = 0
    /\ isEnabled = ActiveAtStart /\ isEnforced = (ActiveAtStart /\ DIP8Active)
    /\ best = NoBlock /\ bestIndex = NoBlock /\ lastNotify = NoBlock
    /\ lastSigned = NoBlock /\ seen = {}
    /\ pc = [t \in Thread |-> "idle"]
    /\ blk = [t \in Thread |-> NoBlock]
    /\ saw = [t \in Thread |-> NothingSeen]
    /\ signed = {}

HandlerStep(t) ==
    \/ ReadActiveState(t) \/ WriteActiveState(t) \/ ResetChainLocks(t)
    \/ t \in Handler /\ (CheckSeen(t) \/ LookupBlockIndex(t) \/ SetBestChainLock(t))

ReceiveLock ==
    \/ \E l \in Lock : ProcessMessage(l)
    \/ HandleNewRecoveredSig

Validate ==
    \E b \in Wanted : ActivateBestChain(b)

ReceiveBlock ==
    \E b \in Block \ {Genesis} : AcceptBlockHeader(b) \/ AcceptBlock(b)

SchedulerStep ==
    \/ EnforceBestChainLock \/ EnforceBlock \/ ChainActivated \/ NotifyChainLock
    \/ \E E \in {{}, seen} : TrySignChainTip(E)
    \/ CheckTip \/ SignTip

Next ==
    \/ \E t \in Thread : HandlerStep(t)
    \/ ReceiveLock \/ Validate \/ ReceiveBlock \/ SchedulerStep
    \/ RunTask \/ SporkUpdated

Spec == Init /\ [][Next]_vars

\* Every thread runs on, ActivateBestChain is called after every block, and
\* the scheduler runs its periodic task.
FairSpec ==
    /\ Spec
    /\ \A t \in Thread : WF_vars(HandlerStep(t))
    /\ WF_vars(Validate) /\ WF_vars(SchedulerStep)
    /\ WF_vars(RunTask)

----------------------------------------------------------------------------
(* Properties *)

\* A ChainLock the node has announced (NotifyChainLock) is final: as long as it
\* is the best one and enforced, no reorganisation takes the active chain off
\* it, whatever headers, blocks and failing connects come in between.  This is
\* about a regular node: on a masternode two threads process CLSIGs, and the
\* best one may fall back to a lower one (BestNeverDecreases).
AnnouncedLockIsFinal ==
    lastNotify # NoBlock /\ lastNotify = bestIndex /\ isEnforced /\ MainFree
        /\ (\A t \in Thread : pc[t] # "reset") =>
        lastNotify \in Anc[tip]

\* Once its header is known, the best ChainLock is the one that is enforced;
\* "when the block or the header later comes in, we will enforce the correct
\* chain" (ProcessNewChainLock).
KnownLockIsEnforced ==
    best \in index /\ (\A t \in Handler : pc[t] \notin {"known", "unknown", "lookup"}) =>
        bestIndex = best

\* The best ChainLock is only replaced by a higher one, except when ChainLocks
\* become active.
BestNeverDecreases ==
    [][best' # best => HeightOf(best') > HeightOf(best) \/ best' = NoBlock]_vars

\* No block on the active chain carries the conflict flag.
ActiveChainUnflagged == Anc[tip] \cap conflict = {}

\* A masternode never signs a block that it has flagged as conflicting with a
\* ChainLock, or one on top of it, whatever CLSIGs, headers and blocks come in
\* between reading the tip and signing it.
SignsNoFlaggedBlock == [][\A b \in signed' \ signed : Anc[b] \cap conflict = {}]_vars

\* "don't sign if another conflicting CLSIG is already present"
\* (TrySignChainTip): what is signed is on one chain with the best ChainLock.
SignsWithBestLock ==
    [][\A b \in signed' \ signed :
          isEnforced /\ bestIndex # NoBlock => bestIndex \in Anc[b] \/ b \in Anc[bestIndex]]_vars

\* The best ChainLock gets on the active chain when its chain is there,
\* unless it is replaced or ChainLocks are switched off.
LockGetsEnforced ==
    \A l \in Lock :
        (bestIndex = l /\ Anc[l] \subseteq have /\ isEnforced) ~>
            (l \in Anc[tip] \/ bestIndex # l \/ ~spork)
=============================================================================
