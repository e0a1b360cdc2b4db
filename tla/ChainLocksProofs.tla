-------------------------- MODULE ChainLocksProofs --------------------------
(***************************************************************************)
(* For every tree of blocks: no block of the active chain carries the      *)
(* conflict flag, and none that a masternode signs; the type invariant     *)
(* holds; and on a regular node the best ChainLock is enforced once its    *)
(* header is known, only ever rises and, once announced, is never          *)
(* reorganised away.                                                       *)
(***************************************************************************)
EXTENDS ChainLocks, WellFoundedInduction, TLAPS

----------------------------------------------------------------------------
(* Block trees *)

\* The order of the natural numbers.
Less == {ss \in Nat \X Nat : ss[1] < ss[2]}

LEMMA LessWellFounded == IsWellFoundedOn(Less, Nat)
  BY Zenon, NatLessThanWellFounded DEF OpToRel, Less

\* A set of numbers that is not empty has a least member.
LEMMA LeastNumber ==
    ASSUME NEW T \in SUBSET Nat, T # {}
    PROVE  \E n \in T : \A m \in T : ~(m < n)
  <1>1. \E x \in T : \A y \in T : ~ (<<y, x>> \in Less)
    BY Zenon, LessWellFounded, WFMin
  <1>2. \A x, y \in Nat : y < x => <<y, x>> \in Less
    BY DEF Less
  <1> QED
    BY Zenon, <1>1, <1>2

\* The ancestors of b form one chain without gaps that ends in b.
OneChain(b) ==
    /\ \A a \in Anc[b] : Anc[a] \subseteq Anc[b] /\ Height[a] <= Height[b]
    /\ \A a, c \in Anc[b] : Height[a] <= Height[c] => a \in Anc[c]
    /\ \A h \in 0 .. Height[b] : \E a \in Anc[b] : Height[a] = h

LEMMA ChainGrows ==
    ASSUME NEW b \in Block, b # Genesis, OneChain(Parent[b])
    PROVE  OneChain(b)
  <1>1. /\ Parent[b] \in Block /\ Height[Parent[b]] \in Nat /\ Height[b] = Height[Parent[b]] + 1
        /\ Anc[b] = {b} \cup Anc[Parent[b]] /\ Anc[Parent[b]] \subseteq Block
    BY Zenon, TreeAssumption
  <1>2. Height[b] \in Nat /\ \A a \in Anc[Parent[b]] : Height[a] \in Nat /\ Height[a] <= Height[Parent[b]]
    BY Zenon, <1>1, TreeAssumption DEF OneChain
  <1>3. \A a \in Anc[Parent[b]] : Height[a] <= Height[b] /\ ~(Height[b] <= Height[a])
    BY ONLY <1>1, <1>2
  <1>4. Height[b] <= Height[b]
    BY ONLY <1>2
  <1>5. \A a \in Anc[b] : Anc[a] \subseteq Anc[b] /\ Height[a] <= Height[b]
    BY Zenon, <1>1, <1>3, <1>4 DEF OneChain
  <1>6. \A a, c \in Anc[b] : Height[a] <= Height[c] => a \in Anc[c]
    BY Zenon, <1>1, <1>3 DEF OneChain
  <1>7. ASSUME NEW h \in 0 .. Height[b] PROVE \E a \in Anc[b] : Height[a] = h
    <2>1. h = Height[b] \/ h \in 0 .. Height[Parent[b]]
      BY ONLY <1>1, <1>2, h \in 0 .. Height[b]
    <2> QED
      BY Zenon, <1>1, <2>1 DEF OneChain
  <1> QED
    BY Zenon, <1>5, <1>6, <1>7 DEF OneChain

\* By induction over the heights: a block that were no end of a chain would have
\* a lower one below it.
LEMMA Ancestry == \A b \in Block : OneChain(b)
  <1> DEFINE T == {n \in Nat : \E b \in Block : Height[b] = n /\ ~OneChain(b)}
  <1>1. CASE T = {}
    BY Zenon, <1>1, TreeAssumption
  <1>2. CASE T # {}
    <2>1. PICK n \in T : \A m \in T : ~(m < n)
      BY ONLY Zenon, <1>2, LeastNumber
    <2>2. PICK b \in Block : Height[b] = n /\ ~OneChain(b)
      BY Zenon, <2>1
    <2>3. OneChain(Genesis)
      BY TreeAssumption DEF OneChain
    <2>4. /\ Parent[b] \in Block /\ Height[Parent[b]] \in Nat
          /\ Height[b] = Height[Parent[b]] + 1 /\ b # Genesis
      BY Zenon, <2>2, <2>3, TreeAssumption
    <2>5. Height[Parent[b]] < n
      BY ONLY <2>2, <2>4
    <2>6. OneChain(Parent[b])
      BY Zenon, <2>1, <2>4, <2>5
    <2> QED
      BY Zenon, <2>2, <2>4, <2>6, ChainGrows
  <1> QED
    BY Zenon, <1>1, <1>2

LEMMA TreeFacts ==
    ASSUME NEW b \in Block
    PROVE  /\ Anc[b] \subseteq Block /\ b \in Anc[b] /\ Height[b] \in Nat
           /\ \A a \in Anc[b] : /\ Anc[a] \subseteq Anc[b]
                                /\ Height[a] \in Nat /\ Height[a] <= Height[b]
                                /\ Height[a] = Height[b] => a = b
           /\ \A a, c \in Anc[b] : Height[a] <= Height[c] => a \in Anc[c]
           /\ \A h \in 0 .. Height[b] : \E a \in Anc[b] : Height[a] = h
  <1>1. Anc[b] \subseteq Block /\ b \in Anc[b] /\ Height[b] \in Nat
    BY Zenon, TreeAssumption
  <1>2. ASSUME NEW a \in Anc[b], Height[a] = Height[b], a # b PROVE FALSE
    <2>1. b # Genesis /\ Parent[b] \in Block /\ a \in Anc[Parent[b]]
      BY <1>2, TreeAssumption
    <2>2. Height[a] <= Height[Parent[b]] /\ Height[Parent[b]] \in Nat
          /\ Height[b] = Height[Parent[b]] + 1
      BY Zenon, <2>1, TreeAssumption, Ancestry DEF OneChain
    <2> QED
      BY <1>2, <2>2
  <1> QED
    BY Zenon, <1>1, <1>2, TreeAssumption, Ancestry DEF OneChain

LEMMA ParentFacts ==
    ASSUME NEW b \in Block, b # Genesis
    PROVE  /\ Parent[b] \in Block /\ Anc[b] = {b} \cup Anc[Parent[b]]
           /\ Height[b] = Height[Parent[b]] + 1
           /\ b \notin Anc[Parent[b]]
  <1>1. /\ Parent[b] \in Block /\ Anc[b] = {b} \cup Anc[Parent[b]]
        /\ Height[b] = Height[Parent[b]] + 1
    BY Zenon, TreeAssumption
  <1>2. b \notin Anc[Parent[b]]
    BY <1>1, TreeFacts
  <1> QED
    BY Zenon, <1>1, <1>2

LEMMA GenesisIsAncestor ==
    ASSUME NEW b \in Block
    PROVE  Genesis \in Anc[b]
  <1>1. PICK a \in Anc[b] : Height[a] = 0
    BY TreeFacts
  <1>2. a = Genesis
    <2>1. ASSUME a # Genesis PROVE FALSE
      <3>1. a \in Block
        BY Zenon, TreeFacts
      <3>2. Height[a] = Height[Parent[a]] + 1 /\ Parent[a] \in Block
        BY Zenon, <2>1, <3>1, ParentFacts
      <3>3. Height[Parent[a]] \in Nat
        BY Zenon, <3>2, TreeFacts
      <3> QED
        BY <1>1, <3>2, <3>3
    <2> QED
      BY Zenon, <2>1
  <1> QED
    BY Zenon, <1>2

----------------------------------------------------------------------------
(* The inductive invariants *)

Enforcer == {"mark", "activate", "notify"}
Signer == {"signcheck", "dosign"}

\* Where threads stand, and that what they enforce is in the index.
Points ==
    /\ pc \in [Thread -> HandlerPoints \cup SchedulerPoints]
    /\ blk \in [Thread -> MaybeBlock]
    /\ best \in MaybeBlock
    /\ bestIndex \in index \cup {NoBlock}
    /\ lastNotify \in index \cup {NoBlock}
    /\ \A t \in Handler : /\ pc[t] \in HandlerPoints
                          /\ pc[t] # "idle" => blk[t] \in Block \cap Lock
                          /\ pc[t] = "known" => blk[t] \in index
    /\ pc[Scheduler] \in SchedulerPoints
    /\ pc[Scheduler] \in Enforcer => blk[Scheduler] \in index
    /\ pc[Scheduler] \in Signer => blk[Scheduler] \in Block

\* The active chain is there and carries no flag.
ChainInv ==
    /\ have \subseteq index /\ index \subseteq Block
    /\ tip \in Block /\ reorgFrom \in MaybeBlock
    /\ Anc[tip] \subseteq have
    /\ Anc[tip] \cap conflict = {}
    /\ Anc[tip] \cap failed = {}

----------------------------------------------------------------------------
(* Activation *)

\* A step of ActivateBestChain ends on a branch that is there and carries no
\* flag beyond the active chain.
LEMMA Activation ==
    ASSUME ChainInv, NEW b \in Wanted
    PROVE  /\ b \in index \ Anc[tip] /\ StepEnd(b) \in Anc[b] \ Anc[tip]
           /\ Path(b) \subseteq have \ (conflict \cup failed)
           /\ Path(StepEnd(b)) \subseteq Path(b)
  <1> DEFINE e == StepEnd(b)
  <1>1. tip \in Block /\ tip \in index /\ tip \in Anc[tip]
    BY Zenon, TreeFacts DEF ChainInv
  <1>2. tip \in {c \in index : Anc[c] \ Anc[tip] \subseteq have \ (conflict \cup failed)}
    BY Zenon, <1>1
  <1>3. /\ b \in index /\ b # tip /\ Height[tip] <= Height[b]
        /\ Anc[b] \ Anc[tip] \subseteq have \ (conflict \cup failed)
    BY Zenon, <1>1, <1>2 DEF Wanted, MostWork, MostWorkFrom
  <1>4. b \in Block /\ b \in Anc[b] /\ Height[b] \in Nat /\ Height[tip] \in Nat
    BY Zenon, <1>1, <1>3, TreeFacts DEF ChainInv
  <1>5. b \notin Anc[tip]
    <2>1. ASSUME b \in Anc[tip] PROVE FALSE
      <3>1. Height[b] <= Height[tip] /\ (Height[b] = Height[tip] => b = tip)
        BY Zenon, <1>1, <2>1, TreeFacts
      <3> QED
        BY <1>3, <1>4, <3>1
    <2> QED
      BY Zenon, <2>1
  <1>6. b \in StepEnds(b)
    BY Zenon, <1>4, <1>5 DEF StepEnds, Path
  <1>7. \A x \in StepEnds(b) : x \in Block /\ Height[x] \in Nat
                               /\ (x = b \/ Height[x] = Height[tip] + 1)
    BY Zenon, <1>4, TreeFacts DEF StepEnds, Path
  <1>8. \E x \in StepEnds(b) : \A y \in StepEnds(b) : Height[x] <= Height[y]
    <2>1. CASE \A y \in StepEnds(b) : Height[b] <= Height[y]
      BY Zenon, <2>1, <1>6
    <2>2. CASE \E y \in StepEnds(b) : ~(Height[b] <= Height[y])
      <3>1. PICK y \in StepEnds(b) : ~(Height[b] <= Height[y])
        BY Zenon, <2>2
      <3>2. Height[y] = Height[tip] + 1 /\ Height[y] < Height[b]
        BY <3>1, <1>4, <1>7
      <3>3. \A z \in StepEnds(b) : Height[y] <= Height[z]
        BY <3>2, <1>4, <1>7
      <3> QED
        BY Zenon, <3>3
    <2> QED
      BY Zenon, <2>1, <2>2
  <1>9. e \in StepEnds(b)
    BY Zenon, <1>8 DEF StepEnd
  <1>10. e \in Anc[b] \ Anc[tip]
    BY Zenon, <1>9 DEF StepEnds, Path
  <1>11. Anc[e] \subseteq Anc[b]
    BY Zenon, <1>4, <1>10, TreeFacts
  <1> QED
    BY Zenon, <1>3, <1>5, <1>10, <1>11 DEF Path

\* The blocks it connects have a parent, which is below them.
LEMMA PathFacts ==
    ASSUME ChainInv, NEW b \in Block, NEW x \in Path(b)
    PROVE  /\ x \in Block /\ x # Genesis /\ x \in Anc[b] /\ x \notin Anc[tip]
           /\ Parent[x] \in Block /\ Height[Parent[x]] < Height[x]
           /\ Anc[x] = {x} \cup Anc[Parent[x]] /\ Anc[x] \subseteq Anc[b]
           /\ x \notin Anc[Parent[x]]
  <1>1. x \in Block /\ x \in Anc[b] /\ x \notin Anc[tip] /\ Anc[x] \subseteq Anc[b]
    BY Zenon, TreeFacts DEF Path
  <1>2. x # Genesis
    BY Zenon, <1>1, GenesisIsAncestor DEF ChainInv
  <1>3. Height[Parent[x]] \in Nat
    BY Zenon, <1>1, <1>2, ParentFacts, TreeFacts
  <1> QED
    BY <1>1, <1>2, <1>3, ParentFacts

LEMMA ReleaseType ==
    ASSUME ChainInv, NEW new, NEW bad, Release(new, bad)
    PROVE  reorgFrom' \in MaybeBlock
  BY Zenon DEF Release, ChainInv, MaybeBlock, MainFree

LEMMA ActivateKeepsChain ==
    ASSUME ChainInv, NEW b \in Wanted, ActivateBestChain(b)
    PROVE  ChainInv'
  <1> DEFINE e == StepEnd(b)
             bad == {x \in Path(e) : InternalHasConflictingChainLock(x)}
  <1>1. /\ b \in Block /\ e \in Block /\ e \in Anc[b] /\ Anc[e] \subseteq Anc[b]
        /\ Path(b) \subseteq have \ (conflict \cup failed) /\ Path(e) \subseteq Path(b)
    BY Zenon, Activation, TreeFacts DEF ChainInv
  <1>2. UNCHANGED <<index, have, conflict>>
    BY Zenon DEF ActivateBestChain
  <1>3. CASE bad = {} /\ tip' = e /\ Release(e, failed) /\ UNCHANGED failed
    <2>1. Anc[tip'] \subseteq Anc[tip] \cup Path(b)
      BY Zenon, <1>1, <1>3 DEF Path
    <2>2. reorgFrom' \in MaybeBlock
      BY Zenon, <1>3, ReleaseType
    <2> QED
      BY Zenon, <1>1, <1>2, <1>3, <2>1, <2>2 DEF ChainInv
  <1>4. ASSUME NEW x \in bad,
               failed' = failed \cup {y \in Path(b) : x \in Anc[y]},
               tip' = Parent[x], Release(Parent[x], failed')
        PROVE  ChainInv'
    <2>1. x \in Path(e)
      BY Zenon
    <2>2. /\ x \in Block /\ x \in Anc[e] /\ x \notin Anc[Parent[x]] /\ Parent[x] \in Block
          /\ Anc[x] = {x} \cup Anc[Parent[x]] /\ Anc[x] \subseteq Anc[e]
      BY Zenon, <1>1, <2>1, PathFacts
    <2>3. Anc[tip'] \subseteq Anc[tip] \cup Path(b)
      BY Zenon, <1>1, <1>4, <2>2 DEF Path
    <2>4. \A y \in Anc[tip'] : x \notin Anc[y]
      BY Zenon, <1>4, <2>2, TreeFacts
    <2>5. reorgFrom' \in MaybeBlock
      BY Zenon, <1>4, ReleaseType
    <2> QED
      BY Zenon, <1>1, <1>2, <1>4, <2>2, <2>3, <2>4, <2>5 DEF ChainInv
  <1> QED
    BY Zenon, <1>3, <1>4 DEF ActivateBestChain

\* EnforceBlock leaves the flagged blocks behind: of the blocks of the active
\* chain one at most is next to the enforced chain.
LEMMA EnforceKeepsChain ==
    ASSUME ChainInv, Points, EnforceBlock
    PROVE  ChainInv'
  <1> DEFINE b == blk[Scheduler]
             dead == {y \in Anc[tip] : \E s \in Siblings(b) : s \in Anc[y]}
  <1>1. b \in Block /\ UNCHANGED <<index, have, reorgFrom>> /\ failed' \subseteq failed
        /\ conflict' = conflict \cup Siblings(b) \cup dead
    BY Zenon DEF EnforceBlock, Points, ChainInv, Enforcer
  <1>2. \A s \in Siblings(b) : s \in Block /\ s # Genesis
    BY Zenon DEF Siblings, ChainInv
  <1>3. CASE dead = {}
    <2>1. tip' = tip
      BY Zenon, <1>3 DEF EnforceBlock
    <2>2. Anc[tip] \cap Siblings(b) = {}
      BY Zenon, <1>2, <1>3, TreeFacts
    <2> QED
      BY Zenon, <1>1, <1>3, <2>1, <2>2 DEF ChainInv
  <1>4. CASE dead # {}
    <2>1. PICK s \in dead \cap Siblings(b) : tip' = Parent[s] /\ tip' \in Anc[tip]
      BY Zenon, <1>4 DEF EnforceBlock
    <2>2. /\ s \in Block /\ s # Genesis /\ s \in Anc[tip] /\ tip \in Block
          /\ Parent[s] \in Block /\ s \notin Anc[Parent[s]]
          /\ Height[s] = Height[Parent[s]] + 1 /\ Anc[s] = {s} \cup Anc[Parent[s]]
          /\ Height[s] \in Nat /\ Height[Parent[s]] \in Nat
      BY Zenon, <1>2, <2>1, ParentFacts, TreeFacts DEF ChainInv
    <2>3. Anc[tip'] \subseteq Anc[tip]
      BY Zenon, <2>1, <2>2, TreeFacts DEF ChainInv
    <2>4. \A r \in Siblings(b) : r \notin Anc[tip']
      <3>1. SUFFICES ASSUME NEW r \in Siblings(b), r \in Anc[tip'] PROVE FALSE
        BY Zenon
      <3>2. PICK w \in Path(b) : w # Genesis /\ Parent[s] = Parent[w]
        BY Zenon, <2>1 DEF Siblings
      <3>3. PICK v \in Path(b) : v # Genesis /\ Parent[r] = Parent[v]
        BY Zenon, <3>1 DEF Siblings
      <3>4. /\ v \in Block /\ v \notin Anc[tip] /\ r \in Block /\ r # Genesis
            /\ r \in Anc[tip] /\ v \in Anc[b]
            /\ w \in Block /\ w \notin Anc[tip] /\ w \in Anc[b]
        BY Zenon, <1>1, <1>2, <2>3, <3>1, <3>2, <3>3, PathFacts
      <3>5. Height[r] = Height[v] /\ Height[s] = Height[w]
            /\ Height[r] \in Nat /\ Height[w] \in Nat
        BY <2>2, <3>2, <3>3, <3>4, ParentFacts, TreeFacts
      <3>6. Height[r] <= Height[Parent[s]]
        BY Zenon, <2>1, <2>2, <3>1, TreeFacts
      <3>7. v \in Anc[w]
        BY <1>1, <2>2, <3>4, <3>5, <3>6, TreeFacts
      <3>8. v # w
        BY <2>2, <3>5, <3>6
      <3>9. v \in Anc[Parent[s]]
        BY <3>2, <3>4, <3>7, <3>8, ParentFacts
      <3> QED
        BY Zenon, <2>1, <2>3, <3>4, <3>9
    <2>5. Anc[tip'] \cap dead = {}
      <3>1. \A y \in Anc[tip'] : Anc[y] \subseteq Anc[tip']
        BY Zenon, <2>1, <2>2, TreeFacts
      <3> QED
        BY Zenon, <2>4, <3>1
    <2>6. tip' \in Block
      BY Zenon, <2>1, <2>2
    <2> QED
      BY Zenon, <1>1, <2>3, <2>4, <2>5, <2>6 DEF ChainInv
  <1> QED
    BY Zenon, <1>3, <1>4
----------------------------------------------------------------------------
(* The active chain *)

\* A thread that goes to p with the block c.
LEMMA ThreadMoves ==
    ASSUME Points, NEW t \in Thread, NEW p, NEW c \in MaybeBlock,
           pc' = [pc EXCEPT ![t] = p], blk' = [blk EXCEPT ![t] = c],
           index \subseteq index', best' \in MaybeBlock,
           bestIndex' \in index' \cup {NoBlock}, lastNotify' \in index' \cup {NoBlock},
           t \in Handler => /\ p \in HandlerPoints
                            /\ p # "idle" => c \in Block \cap Lock
                            /\ p = "known" => c \in index',
           t = Scheduler => /\ p \in SchedulerPoints
                            /\ p \in Enforcer => c \in index'
                            /\ p \in Signer => c \in Block
    PROVE  Points'
  <1>1. p \in HandlerPoints \cup SchedulerPoints
    BY Zenon DEF Thread
  <1>2. pc' \in [Thread -> HandlerPoints \cup SchedulerPoints] /\ blk' \in [Thread -> MaybeBlock]
    BY Zenon, <1>1 DEF Points
  <1>3. \A s \in Thread : /\ pc'[s] = IF s = t THEN p ELSE pc[s]
                          /\ blk'[s] = IF s = t THEN c ELSE blk[s]
    BY Zenon DEF Points
  <1>4. Scheduler \in Thread /\ \A s \in Handler : s \in Thread
    BY Zenon DEF Thread
  <1>5. \A s \in Handler : /\ pc'[s] \in HandlerPoints
                           /\ pc'[s] # "idle" => blk'[s] \in Block \cap Lock
                           /\ pc'[s] = "known" => blk'[s] \in index'
    BY Zenon, <1>3, <1>4 DEF Points
  <1>6. /\ pc'[Scheduler] \in SchedulerPoints
        /\ pc'[Scheduler] \in Enforcer => blk'[Scheduler] \in index'
        /\ pc'[Scheduler] \in Signer => blk'[Scheduler] \in Block
    BY Zenon, <1>3, <1>4 DEF Points
  <1> QED
    BY Zenon, <1>2, <1>5, <1>6 DEF Points

\* A thread keeps its block.
LEMMA SameBlock ==
    ASSUME Points, NEW t \in Thread, blk' = blk
    PROVE  blk' = [blk EXCEPT ![t] = blk[t]] /\ blk[t] \in MaybeBlock
  BY Zenon DEF Points

\* The steps of CheckActiveState and ProcessNewChainLock.
LEMMA HandlerKeeps ==
    ASSUME Points, ChainInv, NEW t \in Thread, HandlerStep(t)
    PROVE  Points' /\ ChainInv'
  <1>1. ChainInv'
    BY Zenon DEF HandlerStep, ReadActiveState, WriteActiveState, ResetChainLocks, CheckSeen,
           LookupBlockIndex, SetBestChainLock, ChainInv, chain
  <1>2. CASE ReadActiveState(t)
    <2>1. /\ pc' = [pc EXCEPT ![t] = "flags"] /\ blk' = blk /\ index' = index
          /\ UNCHANGED <<best, bestIndex, lastNotify>>
      BY Zenon, <1>2 DEF ReadActiveState, Goto, chain, locks
    <2>2. t \in Handler => blk[t] \in Block \cap Lock
      BY Zenon, <1>2 DEF ReadActiveState, Points
    <2> QED
      BY Zenon, <1>1, <2>1, <2>2, SameBlock, ThreadMoves
      DEF Points, HandlerPoints, SchedulerPoints, Enforcer, Signer
  <1>3. CASE WriteActiveState(t) \/ ResetChainLocks(t)
    <2>1. PICK p \in {"reset", Continue(t)} : pc' = [pc EXCEPT ![t] = p]
      BY Zenon, <1>3 DEF WriteActiveState, ResetChainLocks, Goto
    <2>2. /\ blk' = blk /\ index' = index /\ best' \in {best, NoBlock}
          /\ bestIndex' \in {bestIndex, NoBlock} /\ lastNotify' \in {lastNotify, NoBlock}
      BY Zenon, <1>3 DEF WriteActiveState, ResetChainLocks, chain, locks
    <2>3. t \in Handler => blk[t] \in Block \cap Lock
      BY Zenon, <1>3 DEF WriteActiveState, ResetChainLocks, Points
    <2>4. t = Scheduler => p \in {"reset", "enforce"}
      BY Zenon, <2>1 DEF Continue
    <2>5. t \in Handler => p \in {"reset", "seen"}
      BY Zenon, <2>1, StartAssumption DEF Continue, Handler
    <2>6. /\ best' \in MaybeBlock /\ bestIndex' \in index' \cup {NoBlock}
          /\ lastNotify' \in index' \cup {NoBlock}
      BY Zenon, <2>2 DEF Points, MaybeBlock
    <2> QED
      BY Zenon, <1>1, <2>1, <2>2, <2>3, <2>4, <2>5, <2>6, SameBlock, ThreadMoves
      DEF HandlerPoints, SchedulerPoints, Enforcer, Signer
  <1>4. CASE t \in Handler /\ CheckSeen(t)
    <2>1. index' = index /\ UNCHANGED <<best, bestIndex, lastNotify>> /\ t # Scheduler
      BY Zenon, <1>4, StartAssumption DEF CheckSeen, chain, locks, Handler
    <2>2. CASE Ends(t)
      BY Zenon, <1>1, <2>1, <2>2, ThreadMoves DEF Ends, Goto, Points, HandlerPoints, MaybeBlock
    <2>3. CASE Goto(t, "lookup") /\ blk' = blk
      <3>1. blk[t] \in Block \cap Lock
        BY Zenon, <1>4 DEF CheckSeen, Points
      <3> QED
        BY Zenon, <1>1, <2>1, <2>3, <3>1, SameBlock, ThreadMoves DEF Goto, Points, HandlerPoints
    <2> QED
      BY Zenon, <1>4, <2>2, <2>3 DEF CheckSeen
  <1>5. CASE t \in Handler /\ LookupBlockIndex(t)
    <2>1. index' = index /\ UNCHANGED <<best, bestIndex, lastNotify, blk>> /\ t # Scheduler
      BY Zenon, <1>5, StartAssumption DEF LookupBlockIndex, chain, locks, Handler
    <2>2. PICK p \in {"known", "unknown"} : pc' = [pc EXCEPT ![t] = p]
                                           /\ (p = "known" => blk[t] \in index)
      BY Zenon, <1>5 DEF LookupBlockIndex, Goto
    <2>3. blk[t] \in Block \cap Lock
      BY Zenon, <1>5 DEF LookupBlockIndex, Points
    <2> QED
      BY Zenon, <1>1, <2>1, <2>2, <2>3, SameBlock, ThreadMoves DEF Points, HandlerPoints
  <1>6. CASE t \in Handler /\ SetBestChainLock(t)
    <2>1. index' = index /\ lastNotify' = lastNotify /\ t # Scheduler /\ Ends(t)
          /\ best' = blk[t] /\ bestIndex' = (IF pc[t] = "known" THEN blk[t] ELSE bestIndex)
      BY Zenon, <1>6, StartAssumption DEF SetBestChainLock, chain, Handler
    <2>2. best' \in MaybeBlock /\ bestIndex' \in index' \cup {NoBlock}
      BY Zenon, <1>6, <2>1 DEF Points
    <2> QED
      BY Zenon, <1>1, <2>1, <2>2, ThreadMoves DEF Ends, Goto, Points, HandlerPoints, MaybeBlock
  <1> QED
    BY Zenon, <1>1, <1>2, <1>3, <1>4, <1>5, <1>6 DEF HandlerStep

LEMMA ReceiveLockKeeps ==
    ASSUME Points, ChainInv, ReceiveLock
    PROVE  Points' /\ ChainInv'
  <1>1. CASE \E l \in Lock : ProcessMessage(l)
    BY <1>1, StartAssumption
    DEF ProcessMessage, Goto, Points, ChainInv, locks, chain, Handler, Thread, HandlerPoints,
        SchedulerPoints, Enforcer, Signer, MaybeBlock
  <1>2. CASE HandleNewRecoveredSig
    BY Zenon, <1>2, StartAssumption
    DEF HandleNewRecoveredSig, Goto, Points, ChainInv, locks, chain, Handler, Thread,
        HandlerPoints, SchedulerPoints, Enforcer, Signer, MaybeBlock
  <1> QED
    BY Zenon, <1>1, <1>2 DEF ReceiveLock

LEMMA ReceiveBlockKeeps ==
    ASSUME Points, ChainInv, ReceiveBlock
    PROVE  Points' /\ ChainInv'
  <1>1. PICK b \in Block \ {Genesis} : AcceptBlockHeader(b) \/ AcceptBlock(b)
    BY Zenon DEF ReceiveBlock
  <1>2. CASE AcceptBlockHeader(b)
    <2>1. b \notin Anc[tip] /\ conflict' \subseteq conflict \cup {b}
          /\ UNCHANGED <<have, failed, tip, reorgFrom>> /\ index' = index \cup {b}
      BY Zenon, <1>2 DEF AcceptBlockHeader, ChainInv
    <2>2. ChainInv'
      BY Zenon, <2>1 DEF ChainInv
    <2>3. Points'
      BY Zenon, <1>2 DEF AcceptBlockHeader, Points, MaybeBlock
    <2> QED
      BY Zenon, <2>2, <2>3
  <1>3. CASE AcceptBlock(b)
    BY Zenon, <1>3 DEF AcceptBlock, Points, ChainInv, locks
  <1> QED
    BY Zenon, <1>1, <1>2, <1>3

LEMMA SchedulerKeeps ==
    ASSUME Points, ChainInv, SchedulerStep
    PROVE  Points' /\ ChainInv'
  <1>1. CASE EnforceBestChainLock
    BY <1>1, StartAssumption
    DEF EnforceBestChainLock, AfterEnforce, Goto, Points, ChainInv, locks, chain, Handler,
        Thread, HandlerPoints, SchedulerPoints, Enforcer, Signer, MaybeBlock
  <1>2. CASE EnforceBlock
    <2>1. Points'
      BY Zenon, <1>2, StartAssumption
      DEF EnforceBlock, Goto, Points, locks, Handler, Thread, HandlerPoints,
          SchedulerPoints, Enforcer, Signer
    <2> QED
      BY Zenon, <1>2, <2>1, EnforceKeepsChain
  <1>3. CASE ChainActivated
    <2>1. ChainInv' /\ index' = index /\ UNCHANGED <<best, bestIndex, lastNotify>>
      BY Zenon, <1>3 DEF ChainActivated, ChainInv, chain, locks
    <2>2. Scheduler \in Thread /\ Scheduler \notin Handler
      BY Zenon, StartAssumption DEF Thread, Handler
    <2>3. pc[Scheduler] \in Enforcer
      BY Zenon, <1>3 DEF ChainActivated, Enforcer
    <2>4. CASE Goto(Scheduler, "notify") /\ UNCHANGED blk
      BY Zenon, <2>1, <2>2, <2>3, <2>4, SameBlock, ThreadMoves DEF Goto, Points, SchedulerPoints, Signer
    <2>5. CASE AfterEnforce
      <3>1. PICK p \in {"idle", "sign"} : pc' = [pc EXCEPT ![Scheduler] = p]
        BY Zenon, <2>5 DEF AfterEnforce
      <3>2. blk' = [blk EXCEPT ![Scheduler] = NoBlock] /\ NoBlock \in MaybeBlock
        BY Zenon, <2>5 DEF AfterEnforce, MaybeBlock
      <3> QED
        BY Zenon, <2>1, <2>2, <3>1, <3>2, ThreadMoves DEF Points, SchedulerPoints, Enforcer, Signer
    <2> QED
      BY Zenon, <1>3, <2>4, <2>5 DEF ChainActivated
  <1>4. CASE NotifyChainLock
    BY <1>4, StartAssumption
    DEF NotifyChainLock, AfterEnforce, Points, ChainInv, chain, Handler, Thread,
        HandlerPoints, SchedulerPoints, Enforcer, Signer, MaybeBlock
  <1>5. CASE \E E \in {{}, seen} : TrySignChainTip(E)
    BY <1>5, StartAssumption
    DEF TrySignChainTip, Ends, Goto, Points, ChainInv, locks, chain, Handler, Thread,
        HandlerPoints, SchedulerPoints, Enforcer, Signer, MaybeBlock
  <1>6. CASE CheckTip
    BY <1>6, StartAssumption
    DEF CheckTip, Ends, Goto, Points, ChainInv, locks, chain, Handler, Thread,
        HandlerPoints, SchedulerPoints, Enforcer, Signer, MaybeBlock
  <1>7. CASE SignTip
    BY Zenon, <1>7, StartAssumption
    DEF SignTip, Ends, Goto, Points, ChainInv, locks, chain, Handler, Thread,
        HandlerPoints, SchedulerPoints, Enforcer, Signer, MaybeBlock
  <1> QED
    BY Zenon, <1>1, <1>2, <1>3, <1>4, <1>5, <1>6, <1>7 DEF SchedulerStep

LEMMA ChainInit ==
    ASSUME Init
    PROVE  Points /\ ChainInv
  <1>1. Points
    BY Zenon DEF Init, Points, MaybeBlock, HandlerPoints, SchedulerPoints, Enforcer, Signer, Handler,
           Thread
  <1>2. ChainInv
    BY Zenon, StartAssumption, TreeFacts DEF Init, ChainInv, MaybeBlock
  <1> QED
    BY Zenon, <1>1, <1>2

LEMMA ChainStep ==
    ASSUME Points, ChainInv, [Next]_vars
    PROVE  Points' /\ ChainInv'
  <1>1. CASE \E t \in Thread : HandlerStep(t)
    BY Zenon, <1>1, HandlerKeeps
  <1>2. CASE ReceiveLock
    BY Zenon, <1>2, ReceiveLockKeeps
  <1>3. CASE Validate
    <2>1. PICK b \in Wanted : ActivateBestChain(b)
      BY Zenon, <1>3 DEF Validate
    <2>2. Points'
      BY Zenon, <2>1 DEF ActivateBestChain, Points, locks
    <2> QED
      BY Zenon, <2>1, <2>2, ActivateKeepsChain
  <1>4. CASE ReceiveBlock
    BY Zenon, <1>4, ReceiveBlockKeeps
  <1>5. CASE SchedulerStep
    BY Zenon, <1>5, SchedulerKeeps
  <1>6. CASE RunTask
    BY Zenon, <1>6, StartAssumption
    DEF RunTask, Goto, Points, ChainInv, locks, chain, Handler, Thread, HandlerPoints,
        SchedulerPoints, Enforcer, Signer
  <1>7. CASE SporkUpdated
    BY Zenon, <1>7 DEF SporkUpdated, Points, ChainInv, locks, chain
  <1>8. CASE UNCHANGED vars
    BY Zenon, <1>8 DEF vars, Points, ChainInv
  <1> QED
    BY Zenon, <1>1, <1>2, <1>3, <1>4, <1>5, <1>6, <1>7, <1>8 DEF Next

\* No block of the active chain carries the conflict flag: whatever
\* EnforceBlock flags it has disconnected before, and FindMostWorkChain and
\* AcceptBlockHeader keep flagged blocks off the active chain, for every tree
\* of blocks and every interleaving of the threads.
THEOREM Unflagged == Spec => []ActiveChainUnflagged
  <1>1. Init => Points /\ ChainInv
    BY Zenon, ChainInit
  <1>2. Points /\ ChainInv /\ [Next]_vars => (Points /\ ChainInv)'
    BY Zenon, ChainStep
  <1>3. ChainInv => ActiveChainUnflagged
    BY Zenon DEF ChainInv, ActiveChainUnflagged
  <1> QED
    BY <1>1, <1>2, <1>3, PTL DEF Spec
----------------------------------------------------------------------------
(* Threads and heights *)

\* The three threads are different.
LEMMA Threads ==
    /\ Net \in Thread /\ Recoverer \in Thread /\ Scheduler \in Thread
    /\ Net \in Handler /\ Recoverer \in Handler /\ Scheduler \notin Handler
    /\ Net # Recoverer /\ Net # Scheduler /\ Recoverer # Scheduler
    /\ \A t \in Thread : t = Net \/ t = Recoverer \/ t = Scheduler
    /\ \A t \in Handler : t = Net \/ t = Recoverer
  BY Zenon, StartAssumption DEF Thread, Handler

\* Where the threads are after one of them moved.
LEMMA Moved ==
    ASSUME Points, NEW t \in Thread, NEW p, pc' = [pc EXCEPT ![t] = p]
    PROVE  \A s \in Thread : pc'[s] = IF s = t THEN p ELSE pc[s]
  BY Zenon DEF Points

LEMMA MovedBlock ==
    ASSUME Points, NEW t \in Thread, NEW c, blk' = [blk EXCEPT ![t] = c]
    PROVE  \A s \in Thread : blk'[s] = IF s = t THEN c ELSE blk[s]
  BY Zenon DEF Points

\* x and y are the same, or x is lower.
Below(x, y) == x = y \/ HeightOf(x) < HeightOf(y)

LEMMA HeightOfFacts ==
    ASSUME NEW x \in MaybeBlock
    PROVE  HeightOf(x) \in Int /\ HeightOf(x) >= -1 /\ (x # NoBlock => HeightOf(x) >= 0)
  BY TreeAssumption DEF HeightOf, MaybeBlock

LEMMA BelowFacts ==
    ASSUME NEW x \in MaybeBlock, NEW y \in MaybeBlock, NEW z \in MaybeBlock
    PROVE  /\ Below(x, x) /\ Below(NoBlock, x)
           /\ Below(x, y) => HeightOf(x) <= HeightOf(y)
           /\ Below(x, y) /\ Below(y, z) => Below(x, z)
           /\ Below(x, y) /\ Below(y, x) => x = y
  <1>1. HeightOf(x) \in Int /\ HeightOf(y) \in Int /\ HeightOf(z) \in Int
        /\ HeightOf(NoBlock) = -1 /\ (x # NoBlock => HeightOf(x) >= 0)
    BY Zenon, HeightOfFacts DEF HeightOf
  <1> QED
    BY <1>1 DEF Below
----------------------------------------------------------------------------
(* Types *)

Types ==
    /\ conflict \subseteq index /\ failed \subseteq index
    /\ lastSigned \in MaybeBlock /\ seen \subseteq Lock /\ signed \subseteq Block
    /\ toggles \in 0 .. MaxToggles

LEMMA TypesStep ==
    ASSUME Points, ChainInv, Types, [Next]_vars
    PROVE  Types'
  <1>1. CASE \E t \in Thread : HandlerStep(t)
    <2>1. PICK t \in Thread : HandlerStep(t)
      BY Zenon, <1>1
    <2>2. UNCHANGED <<index, conflict, failed, lastSigned, signed, toggles>>
      BY Zenon, <2>1 DEF HandlerStep, ReadActiveState, WriteActiveState, ResetChainLocks, CheckSeen,
                  LookupBlockIndex, SetBestChainLock, chain
    <2>3. seen' = seen \/ (seen' = seen \cup {blk[t]} /\ t \in Handler /\ pc[t] # "idle")
      BY Zenon, <2>1 DEF HandlerStep, ReadActiveState, WriteActiveState, ResetChainLocks, CheckSeen,
                  LookupBlockIndex, SetBestChainLock
    <2> QED
      BY Zenon, <2>2, <2>3 DEF Types, Points
  <1>2. CASE ReceiveBlock
    BY Zenon, <1>2 DEF ReceiveBlock, AcceptBlockHeader, AcceptBlock, Types
  <1>3. CASE Validate
    <2>1. PICK b \in Wanted : ActivateBestChain(b)
      BY Zenon, <1>3 DEF Validate
    <2>2. Path(b) \subseteq have /\ have \subseteq index
      BY Zenon, <2>1, Activation DEF ChainInv
    <2> QED
      BY Zenon, <2>1, <2>2 DEF ActivateBestChain, Types
  <1>4. CASE ReceiveLock \/ RunTask \/ SporkUpdated
    BY <1>4, StartAssumption
    DEF Types, ReceiveLock, ProcessMessage, HandleNewRecoveredSig, RunTask, SporkUpdated, chain
  <1>5. CASE SchedulerStep
    <2>1. /\ conflict' \subseteq index' /\ failed' \subseteq index'
          /\ seen' \subseteq seen /\ toggles' = toggles
      BY ZenonT(40), <1>5 DEF Types, SchedulerStep, EnforceBestChainLock, EnforceBlock, ChainActivated,
                  NotifyChainLock, TrySignChainTip, Cleanup, CheckTip, SignTip, chain, ChainInv,
                  Siblings
    <2>2. \/ UNCHANGED <<lastSigned, signed>>
          \/ /\ pc[Scheduler] \in Signer
             /\ lastSigned' = blk[Scheduler] /\ signed' = signed \cup {blk[Scheduler]}
      BY Zenon, <1>5 DEF SchedulerStep, EnforceBestChainLock, EnforceBlock, ChainActivated,
                  NotifyChainLock, TrySignChainTip, CheckTip, SignTip, Signer
    <2> QED
      BY Zenon, <2>1, <2>2 DEF Types, Points, MaybeBlock
  <1>6. CASE UNCHANGED vars
    BY Zenon, <1>6 DEF vars, Types
  <1> QED
    BY Zenon, <1>1, <1>2, <1>3, <1>4, <1>5, <1>6 DEF Next

\* The type invariant, for every tree of blocks: flagged blocks are in the
\* index, and a thread that processes a CLSIG has the block of one.
THEOREM TypeCorrect == Spec => []TypeOK
  <1>1. Init => Types
    BY StartAssumption DEF Init, Types, MaybeBlock
  <1>2. Points /\ ChainInv /\ Types /\ [Next]_vars => (Points /\ ChainInv /\ Types)'
    BY Zenon, ChainStep, TypesStep
  <1>3. Points /\ ChainInv /\ Types => TypeOK
    <2>1. ChainInv => tip \in have
      BY Zenon, TreeFacts DEF ChainInv
    <2>2. Points /\ ChainInv /\ Types =>
            {reorgFrom, best, bestIndex, lastNotify, lastSigned} \subseteq MaybeBlock
      BY Zenon DEF Points, ChainInv, Types, MaybeBlock
    <2>3. Points => \A t \in Handler : pc[t] \in HandlerPoints \ {"idle"} => blk[t] \in Lock
      BY Zenon DEF Points
    <2> QED
      BY Zenon, <2>1, <2>2, <2>3 DEF TypeOK, Points, ChainInv, Types
  <1> QED
    BY <1>1, <1>2, <1>3, ChainInit, PTL DEF Spec
----------------------------------------------------------------------------
(* The best ChainLock of a regular node *)

\* Only the network thread processes ChainLocks.
OnlyNet ==
    /\ pc[Recoverer] = "idle" /\ lastSigned = NoBlock
    /\ pc[Scheduler] \notin {"signcheck", "dosign"}

\* The CLSIG in hand is higher than the best one, and a header that it has not
\* found does not come in before it is set.
Knows ==
    /\ Below(bestIndex, best)
    /\ pc[Net] \in {"lookup", "known", "unknown"} => HeightOf(best) < Height[blk[Net]]
    /\ pc[Net] = "unknown" => blk[Net] \notin index
    /\ best \in index => bestIndex = best

LEMMA OnlyNetStep ==
    ASSUME fMasternodeMode = FALSE, Points, OnlyNet, [Next]_vars
    PROVE  OnlyNet'
  <1>1. /\ pc \in [Thread -> HandlerPoints \cup SchedulerPoints]
        /\ Net \in Thread /\ Recoverer \in Thread /\ Scheduler \in Thread
        /\ Net # Recoverer /\ Net # Scheduler /\ Recoverer # Scheduler
    BY Zenon, Threads DEF Points
  <1>2. CASE \E t \in Thread : HandlerStep(t)
    <2>1. PICK t \in Thread : HandlerStep(t)
      BY Zenon, <1>2
    <2>2. pc[t] # "idle" /\ lastSigned' = lastSigned
      BY Zenon, <2>1 DEF HandlerStep, ReadActiveState, WriteActiveState, ResetChainLocks, CheckSeen,
                  LookupBlockIndex, SetBestChainLock
    <2>3. PICK p \in HandlerPoints \cup {"enforce"} : pc' = [pc EXCEPT ![t] = p]
      BY Zenon, <2>1 DEF HandlerStep, ReadActiveState, WriteActiveState, ResetChainLocks, CheckSeen,
                  LookupBlockIndex, SetBestChainLock, Goto, Ends, Continue, HandlerPoints
    <2> QED
      BY Zenon, <1>1, <2>2, <2>3 DEF OnlyNet, HandlerPoints
  <1>3. CASE ReceiveLock
    <2>1. ~HandleNewRecoveredSig
      BY Zenon, StartAssumption, TreeAssumption DEF HandleNewRecoveredSig, OnlyNet
    <2>2. lastSigned' = lastSigned /\ pc' = [pc EXCEPT ![Net] = "check"]
      BY Zenon, <1>3, <2>1 DEF ReceiveLock, ProcessMessage, Goto
    <2> QED
      BY Zenon, <1>1, <2>2 DEF OnlyNet
  <1>4. CASE Validate \/ ReceiveBlock \/ SporkUpdated \/ UNCHANGED vars
    BY Zenon, <1>4 DEF OnlyNet, Validate, ActivateBestChain, ReceiveBlock, AcceptBlockHeader,
                AcceptBlock, SporkUpdated, vars
  <1>5. CASE SchedulerStep \/ RunTask
    <2>1. lastSigned' = lastSigned
      BY ZenonT(40), <1>5 DEF OnlyNet, SchedulerStep, EnforceBestChainLock, EnforceBlock, ChainActivated,
                  NotifyChainLock, TrySignChainTip, CheckTip, SignTip, RunTask
    <2>2. PICK p \in {"idle", "check", "mark", "activate", "notify", "sign"} :
              pc' = [pc EXCEPT ![Scheduler] = p]
      BY Zenon, <1>5 DEF OnlyNet, SchedulerStep, EnforceBestChainLock, EnforceBlock, ChainActivated,
                  NotifyChainLock, TrySignChainTip, CheckTip, SignTip, RunTask, Goto, Ends,
                  AfterEnforce
    <2> QED
      BY Zenon, <1>1, <2>1, <2>2 DEF OnlyNet
  <1> QED
    BY Zenon, <1>2, <1>3, <1>4, <1>5 DEF Next

\* A step that leaves the ChainLocks and the index alone, and does not bring
\* the network thread further.
LEMMA KnowsKept ==
    ASSUME Knows, UNCHANGED <<best, bestIndex, index>>,
           \/ pc'[Net] = pc[Net] /\ blk'[Net] = blk[Net]
           \/ pc'[Net] \in {"idle", "check", "flags", "reset", "seen"}
    PROVE  Knows'
  <1>1. HeightOf(best)' = HeightOf(best) /\ Below(bestIndex, best)' = Below(bestIndex, best)
    BY Zenon DEF HeightOf, Below
  <1> QED
    BY Zenon, <1>1 DEF Knows

\* ProcessNewChainLock.
LEMMA KnowsProcess ==
    ASSUME Points, ChainInv, Knows, CheckSeen(Net) \/ LookupBlockIndex(Net) \/ SetBestChainLock(Net)
    PROVE  Knows' /\ (best' # best => HeightOf(best)' > HeightOf(best))
  <1>1. Points /\ Net \in Thread /\ blk[Net] \in Block /\ index \subseteq Block /\ best \in MaybeBlock
    BY Zenon, Threads DEF Points, ChainInv, CheckSeen, LookupBlockIndex, SetBestChainLock
  <1>2. /\ HeightOf(best) \in Int /\ Height[blk[Net]] \in Nat
        /\ HeightOf(blk[Net]) = Height[blk[Net]] /\ index' = index
    BY ZenonT(40), <1>1, HeightOfFacts, TreeFacts, TreeAssumption
    DEF HeightOf, CheckSeen, LookupBlockIndex, SetBestChainLock, chain
  <1>3. CASE CheckSeen(Net)
    <2>1. UNCHANGED <<best, bestIndex>>
      BY Zenon, <1>3 DEF CheckSeen, locks
    <2>2. CASE Ends(Net)
      <3>1. pc'[Net] = "idle"
        BY Zenon, <1>1, <2>2 DEF Ends, Goto, Points
      <3> QED
        BY Zenon, <1>2, <2>1, <3>1, KnowsKept
    <2>3. CASE Goto(Net, "lookup") /\ blk' = blk /\ ~(Height[blk[Net]] <= HeightOf(best))
      <3>1. pc'[Net] = "lookup" /\ HeightOf(best) < Height[blk[Net]]
        BY <1>1, <1>2, <2>3 DEF Goto, Points
      <3>2. HeightOf(best)' = HeightOf(best) /\ Below(bestIndex, best)' = Below(bestIndex, best)
        BY Zenon, <2>1 DEF HeightOf, Below
      <3> QED
        BY Zenon, <1>2, <2>1, <2>3, <3>1, <3>2 DEF Knows
    <2> QED
      BY Zenon, <1>3, <2>2, <2>3 DEF CheckSeen
  <1>4. CASE LookupBlockIndex(Net)
    <2>1. UNCHANGED <<best, bestIndex, blk>> /\ pc[Net] = "lookup"
      BY ZenonT(40), <1>4 DEF LookupBlockIndex, locks
    <2>2. pc'[Net] = IF blk[Net] \in index THEN "known" ELSE "unknown"
      BY Zenon, <1>1, <1>4 DEF LookupBlockIndex, Goto, Points
    <2>3. HeightOf(best)' = HeightOf(best) /\ Below(bestIndex, best)' = Below(bestIndex, best)
      BY Zenon, <2>1 DEF HeightOf, Below
    <2> QED
      BY Zenon, <1>2, <2>1, <2>2, <2>3 DEF Knows
  <1>5. CASE SetBestChainLock(Net)
    <2>1. /\ pc[Net] \in {"known", "unknown"} /\ best' = blk[Net] /\ pc'[Net] = "idle"
          /\ bestIndex' = IF pc[Net] = "known" THEN blk[Net] ELSE bestIndex
      BY Zenon, <1>1, <1>5 DEF SetBestChainLock, Ends, Goto, Points
    <2>2. HeightOf(best) < Height[blk[Net]] /\ HeightOf(best)' = Height[blk[Net]]
      BY Zenon, <1>2, <2>1 DEF Knows, HeightOf
    <2>3. Below(bestIndex, best)'
      <3>1. bestIndex \in MaybeBlock /\ Below(bestIndex, best)
        BY Zenon DEF Points, ChainInv, MaybeBlock, Knows
      <3>2. HeightOf(bestIndex) <= HeightOf(best) /\ HeightOf(bestIndex) \in Int
        BY Zenon, <1>1, <3>1, BelowFacts, HeightOfFacts
      <3>3. HeightOf(bestIndex) < HeightOf(blk[Net])
        BY <1>2, <2>2, <3>2
      <3>4. bestIndex' = blk[Net] \/ bestIndex' = bestIndex
        BY Zenon, <2>1
      <3> QED
        BY Zenon, <2>1, <3>3, <3>4 DEF Below, HeightOf
    <2>4. best' \in index' => bestIndex' = best'
      BY Zenon, <1>2, <2>1 DEF Knows
    <2> QED
      BY Zenon, <2>1, <2>2, <2>3, <2>4 DEF Knows
  <1> QED
    BY Zenon, <1>3, <1>4, <1>5

LEMMA KnowsStep ==
    ASSUME fMasternodeMode = FALSE, BlocksFromRPC = FALSE, Points, ChainInv, OnlyNet, Knows,
           [Next]_vars
    PROVE  /\ Knows'
           /\ best' # best => HeightOf(best)' > HeightOf(best) \/ best' = NoBlock
  <1>1. Points /\ Net \in Thread /\ Scheduler \in Thread /\ Net # Scheduler
        /\ NoBlock \notin index /\ index \subseteq Block
    BY Zenon, Threads, TreeAssumption DEF ChainInv
  <1>2. CASE \E t \in Thread : HandlerStep(t)
    <2>1. PICK t \in Thread : HandlerStep(t)
      BY Zenon, <1>2
    <2>2. t = Net \/ t = Scheduler
      BY ZenonT(40), <2>1, Threads
      DEF OnlyNet, HandlerStep, ReadActiveState, WriteActiveState, ResetChainLocks, CheckSeen,
          LookupBlockIndex, SetBestChainLock
    <2>3. CASE ReadActiveState(t) \/ WriteActiveState(t)
      <3>1. UNCHANGED <<best, bestIndex, index, blk>>
        BY Zenon, <2>3 DEF ReadActiveState, WriteActiveState, locks, chain
      <3>2. PICK p \in {"flags", "reset", Continue(t)} : pc' = [pc EXCEPT ![t] = p]
        BY Zenon, <2>3 DEF ReadActiveState, WriteActiveState, Goto
      <3>3. pc'[Net] = pc[Net] \/ pc'[Net] \in {"flags", "reset", "seen"}
        BY Zenon, <1>1, <2>2, <3>2 DEF Points, Continue
      <3> QED
        BY Zenon, <3>1, <3>3, KnowsKept
    <2>4. CASE ResetChainLocks(t)
      <3>1. /\ best' = NoBlock /\ bestIndex' = NoBlock /\ index' = index /\ blk' = blk
            /\ pc[t] = "reset" /\ pc' = [pc EXCEPT ![t] = Continue(t)]
        BY Zenon, <2>4 DEF ResetChainLocks, chain, Goto
      <3>2. pc'[Net] = pc[Net] \/ pc'[Net] = "seen"
        BY Zenon, <1>1, <2>2, <3>1 DEF Points, Continue
      <3>3. pc[Net] \in {"lookup", "known", "unknown"} => blk[Net] \in Block
        BY Zenon, <1>1, Threads DEF Points
      <3>4. HeightOf(best)' = -1 /\ Below(bestIndex, best)'
        BY Zenon, <3>1 DEF HeightOf, Below
      <3>5. pc[Net] \in {"lookup", "known", "unknown"} => -1 < Height[blk[Net]]
        BY <3>3, TreeFacts
      <3>6. /\ pc'[Net] \in {"lookup", "known", "unknown"} => HeightOf(best)' < Height[blk'[Net]]
            /\ best' \notin index'
        BY Zenon, <1>1, <3>1, <3>2, <3>4, <3>5
      <3>7. pc'[Net] = "unknown" => blk'[Net] \notin index'
        BY Zenon, <3>1, <3>2 DEF Knows
      <3> QED
        BY Zenon, <3>1, <3>4, <3>6, <3>7 DEF Knows
    <2>5. CASE t \in Handler /\ (CheckSeen(t) \/ LookupBlockIndex(t) \/ SetBestChainLock(t))
      <3>1. t = Net
        BY Zenon, <2>2, <2>5, Threads
      <3> QED
        BY Zenon, <2>5, <3>1, KnowsProcess
    <2> QED
      BY Zenon, <2>1, <2>3, <2>4, <2>5 DEF HandlerStep
  <1>3. CASE ReceiveLock
    <2>1. ~HandleNewRecoveredSig
      BY Zenon, StartAssumption, TreeAssumption DEF HandleNewRecoveredSig, OnlyNet
    <2>2. UNCHANGED <<best, bestIndex, index>> /\ pc' = [pc EXCEPT ![Net] = "check"]
      BY Zenon, <1>3, <2>1 DEF ReceiveLock, ProcessMessage, Goto, locks, chain
    <2>3. pc'[Net] = "check"
      BY Zenon, <1>1, <2>2 DEF Points
    <2> QED
      BY Zenon, <2>2, <2>3, KnowsKept
  <1>4. CASE ReceiveBlock
    <2>1. PICK b \in Block \ {Genesis} : AcceptBlockHeader(b) \/ AcceptBlock(b)
      BY Zenon, <1>4 DEF ReceiveBlock
    <2>2. CASE AcceptBlock(b)
      BY Zenon, <2>2, KnowsKept DEF AcceptBlock, locks
    <2>3. CASE AcceptBlockHeader(b)
      <3>1. /\ pc[Net] = "idle" /\ b \notin index /\ index' = index \cup {b}
            /\ UNCHANGED <<best, pc, blk>>
        BY Zenon, <2>3 DEF AcceptBlockHeader, MayDeliver
      <3>2. CASE b # best
        <4>1. bestIndex' = bestIndex
          BY Zenon, <2>3, <3>2 DEF AcceptBlockHeader
        <4>2. Below(bestIndex, best)' = Below(bestIndex, best)
          BY Zenon, <3>1, <4>1 DEF Below, HeightOf
        <4> QED
          BY Zenon, <3>1, <3>2, <4>1, <4>2 DEF Knows
      <3>3. CASE b = best
        <4>1. bestIndex # NoBlock => bestIndex \in index /\ HeightOf(bestIndex) < HeightOf(best)
          BY Zenon, <3>1, <3>3 DEF Points, Knows, Below
        <4>2. bestIndex # NoBlock => Height[bestIndex] < Height[b] /\ Height[bestIndex] \in Nat
                                     /\ Height[b] \in Nat
          BY Zenon, <1>1, <3>3, <4>1, TreeFacts, TreeAssumption DEF HeightOf
        <4>3. ~InternalHasConflictingChainLock(b)
          BY <4>2 DEF InternalHasConflictingChainLock
        <4>4. bestIndex' = best
          BY Zenon, <2>3, <3>3, <4>3 DEF AcceptBlockHeader
        <4>5. Below(bestIndex, best)'
          BY Zenon, <3>1, <4>4 DEF Below
        <4> QED
          BY Zenon, <3>1, <4>4, <4>5 DEF Knows
      <3> QED
        BY Zenon, <3>1, <3>2, <3>3
    <2> QED
      BY Zenon, <2>1, <2>2, <2>3
  <1>5. CASE Validate \/ SporkUpdated \/ UNCHANGED vars
    BY ZenonT(40), <1>5, KnowsKept
    DEF Validate, ActivateBestChain, SporkUpdated, vars, locks, chain
  <1>6. CASE SchedulerStep \/ RunTask
    <2>1. UNCHANGED <<best, bestIndex, index>>
      BY ZenonT(40), <1>6 DEF SchedulerStep, EnforceBestChainLock, EnforceBlock, ChainActivated,
                  NotifyChainLock, TrySignChainTip, CheckTip, SignTip, RunTask, locks, chain
    <2>2. \E p : pc' = [pc EXCEPT ![Scheduler] = p]
      BY Zenon, <1>6 DEF SchedulerStep, EnforceBestChainLock, EnforceBlock, ChainActivated,
                  NotifyChainLock, TrySignChainTip, CheckTip, SignTip, RunTask, Goto, Ends,
                  AfterEnforce
    <2>3. blk' = blk \/ \E c : blk' = [blk EXCEPT ![Scheduler] = c]
      BY Zenon, <1>6 DEF SchedulerStep, EnforceBestChainLock, EnforceBlock, ChainActivated,
                  NotifyChainLock, TrySignChainTip, CheckTip, SignTip, RunTask, Ends,
                  AfterEnforce
    <2>4. pc'[Net] = pc[Net] /\ blk'[Net] = blk[Net]
      BY Zenon, <1>1, <2>2, <2>3 DEF Points
    <2> QED
      BY ZenonT(40), <2>1, <2>4, KnowsKept
  <1> QED
    BY Zenon, <1>2, <1>3, <1>4, <1>5, <1>6 DEF Next

LEMMA KnowsInvariant ==
    ASSUME fMasternodeMode = FALSE, BlocksFromRPC = FALSE
    PROVE  Spec => [](Points /\ ChainInv /\ OnlyNet /\ Knows)
  <1>1. Init => OnlyNet /\ Knows
    BY Zenon, Threads, StartAssumption, TreeAssumption DEF Init, OnlyNet, Knows, Below
  <1>2. /\ Points /\ ChainInv /\ OnlyNet /\ Knows
        /\ [Next]_vars
        => (Points /\ ChainInv /\ OnlyNet /\ Knows)'
    BY Zenon, ChainStep, OnlyNetStep, KnowsStep
  <1> QED
    BY <1>1, <1>2, ChainInit, PTL DEF Spec

\* On a regular node that gets its blocks from its peers, a ChainLock whose
\* header is known is the one that is enforced: the header of a CLSIG that came
\* first finds it when it comes in later (AcceptedBlockHeader), for every tree
\* of blocks, every set of CLSIGs and however often the spork changes.
THEOREM KnownLock ==
    ASSUME fMasternodeMode = FALSE, BlocksFromRPC = FALSE
    PROVE  Spec => []KnownLockIsEnforced
  <1>1. Knows => KnownLockIsEnforced
    BY Zenon DEF Knows, KnownLockIsEnforced
  <1> QED
    BY <1>1, KnowsInvariant, PTL

\* On such a node ProcessNewChainLock replaces the best ChainLock only by a
\* higher one; it is dropped when ChainLocks become active.
THEOREM BestOnlyRises ==
    ASSUME fMasternodeMode = FALSE, BlocksFromRPC = FALSE
    PROVE  Spec => BestNeverDecreases
  <1>1. /\ Points /\ ChainInv /\ OnlyNet /\ Knows
        /\ [Next]_vars
        => [best' # best => HeightOf(best') > HeightOf(best) \/ best' = NoBlock]_vars
    BY Zenon, KnowsStep DEF HeightOf
  <1> QED
    BY <1>1, KnowsInvariant, PTL DEF Spec, BestNeverDecreases

----------------------------------------------------------------------------
(* A lock that was announced stays: the active chain holds no flagged      *)
(* block, so the chain a reorganisation started from stays a candidate of  *)
(* FindMostWorkChain, and no chain that ConnectBlock refuses because of    *)
(* the ChainLock can end it (Settled).  A lock that was announced becomes  *)
(* the best one a second time only if the best ChainLock were replaced by  *)
(* one that is not higher (Order), and the locks of a time when ChainLocks *)
(* were not enforced are dropped before they are enforced (Enforcing).     *)

\* The part of a branch that is no higher than l is part of l's chain.
Compatible(t, l) == \A z \in Anc[t] : Height[z] <= Height[l] => z \in Anc[l]

\* A chain that is there and carries no flag.
Clean(r) == Anc[r] \subseteq have \ (conflict \cup failed)

\* The active chain holds l or, in the middle of a reorganisation, can only
\* come to hold it again.
Settled(l) ==
    IF reorgFrom = NoBlock
      THEN l \in Anc[tip]
      ELSE l \in Anc[reorgFrom] /\ Clean(reorgFrom) /\ Compatible(tip, l)

\* The best ChainLock is enforced, and has been announced or is about to be.
Announced ==
    /\ isEnforced = TRUE /\ bestIndex # NoBlock
    /\ lastNotify = bestIndex \/ (pc[Scheduler] = "notify" /\ blk[Scheduler] = bestIndex)

Final == Announced => Settled(bestIndex)

\* What was announced, what is being enforced, the best ChainLock with a known
\* block and the best ChainLock, each no higher than the next.
Enforced == IF pc[Scheduler] \in Enforcer THEN blk[Scheduler] ELSE lastNotify

Order ==
    /\ pc[Recoverer] = "idle" /\ lastSigned = NoBlock
    /\ pc[Scheduler] \notin {"signcheck", "dosign"}
    /\ Below(lastNotify, Enforced) /\ Below(Enforced, bestIndex) /\ Below(bestIndex, best)
    /\ pc[Net] \in {"lookup", "known", "unknown"} => HeightOf(best) < Height[blk[Net]]

\* No ChainLock is known.
Blank ==
    /\ best = NoBlock /\ bestIndex = NoBlock /\ lastNotify = NoBlock
    /\ pc[Scheduler] \notin Enforcer

\* DIP8 was active before the first fork, at block a.
Buried(a) ==
    /\ a \in Anc[StartTip] /\ a # Genesis /\ Height[Parent[a]] >= DIP8Height
    /\ \A b \in Block : a \in Anc[b] \/ b \in Anc[a]

\* ChainLocks are enforced as long as the spork is on, once they have been.
Enforcing(a) ==
    /\ spork \in BOOLEAN /\ isEnforced \in BOOLEAN
    /\ saw \in [Thread -> [dip8 : BOOLEAN, old : BOOLEAN]]
    /\ toggles \in {0, 1} /\ (toggles = 0 <=> spork = TRUE)
    /\ a \in Anc[tip] /\ (reorgFrom # NoBlock => a \in Anc[reorgFrom])
    /\ \A t \in Thread : pc[t] = "flags" => saw[t].dip8 = TRUE
    /\ isEnforced = FALSE /\ spork = TRUE => Blank /\ pc[Net] \in {"idle", "check", "flags"}
    /\ pc[Net] = "reset" => Blank
    /\ pc[Net] = "flags" /\ spork = TRUE /\ saw[Net].old = FALSE => Blank
----------------------------------------------------------------------------
(* Reorganisations that a ChainLock ends *)

\* A chain compatible with l that is as high as l holds l.
LEMMA CompatibleHolds ==
    ASSUME NEW t \in Block, NEW l \in Block, Compatible(t, l), Height[l] <= Height[t]
    PROVE  l \in Anc[t]
  <1>1. Height[l] \in Nat /\ Height[t] \in Nat /\ Height[l] \in 0 .. Height[t]
    BY TreeFacts
  <1>2. PICK z \in Anc[t] : Height[z] = Height[l]
    BY Zenon, <1>1, TreeFacts
  <1>3. z \in Anc[l]
    BY <1>1, <1>2 DEF Compatible
  <1> QED
    BY Zenon, <1>2, <1>3, TreeFacts

\* While the chain it started from is clean, a reorganisation only ends on a
\* chain that is as high.
LEMMA ReleaseHigh ==
    ASSUME ChainInv, NEW new \in Block, NEW bad, NEW start \in Block, Release(new, bad),
           start = (IF MainFree THEN tip ELSE reorgFrom),
           Anc[start] \subseteq have \ (conflict \cup bad)
    PROVE  /\ reorgFrom' \in {NoBlock, start}
           /\ reorgFrom' = NoBlock => Height[start] <= Height[new]
  <1>1. start \in index /\ Height[start] \in Nat /\ Height[new] \in Nat
    BY Zenon, TreeFacts DEF ChainInv
  <1> DEFINE C == {c \in index : Anc[c] \ Anc[new] \subseteq have \ (conflict \cup bad)}
  <1>2. start \in C
    BY Zenon, <1>1
  <1>3. new \in MostWorkFrom(new, bad) => Height[start] <= Height[new]
    BY Zenon, <1>2 DEF MostWorkFrom
  <1> HIDE DEF C
  <1> DEFINE W == MostWorkFrom(new, bad)
             over == Height[new] > Height[start] \/ new = start \/ (new \in W /\ start \notin W)
  <1>4. over => Height[start] <= Height[new]
    BY <1>1, <1>3
  <1>5. reorgFrom' \in IF over THEN {NoBlock}
                       ELSE {start} \cup {x \in {NoBlock} : Height[new] = Height[start]}
    BY Zenon DEF Release
  <1>6. CASE over
    BY Zenon, <1>4, <1>5, <1>6
  <1>7. CASE ~over
    <2>1. reorgFrom' \in {start} \cup {x \in {NoBlock} : Height[new] = Height[start]}
      BY Zenon, <1>5, <1>7
    <2> HIDE DEF over
    <2>2. Height[new] = Height[start] => Height[start] <= Height[new]
      BY ONLY <1>1
    <2> QED
      BY Zenon, <1>1, <2>1, <2>2, TreeAssumption
  <1> QED
    BY Zenon, <1>6, <1>7

\* ActivateBestChain does not end off an announced ChainLock.
LEMMA ActivationSettles ==
    ASSUME ChainInv, NEW b \in Wanted, ActivateBestChain(b), isEnforced = TRUE,
           bestIndex \in Block, Settled(bestIndex)
    PROVE  Settled(bestIndex)'
  <1> DEFINE e == StepEnd(b)
             l == bestIndex
             start == IF MainFree THEN tip ELSE reorgFrom
             bad == {x \in Path(e) : InternalHasConflictingChainLock(x)}
  <1>1. /\ b \in Block /\ e \in Block /\ e \in Anc[b] /\ Anc[e] \subseteq Anc[b] /\ tip \in Block
        /\ Path(b) \subseteq have \ (conflict \cup failed) /\ Path(e) \subseteq Path(b)
    BY Zenon, Activation, TreeFacts DEF ChainInv
  <1>2. start \in Block /\ l \in Anc[start] /\ Clean(start) /\ Compatible(tip, l)
    <2>1. CASE MainFree
      <3>1. start = tip /\ l \in Anc[tip]
        BY Zenon, <2>1 DEF MainFree, Settled
      <3>2. Compatible(tip, l)
        BY Zenon, <1>1, <3>1, TreeFacts DEF Compatible
      <3> QED
        BY Zenon, <1>1, <3>1, <3>2 DEF Clean, ChainInv
    <2>2. CASE ~MainFree
      BY Zenon, <2>2 DEF MainFree, Settled, ChainInv, MaybeBlock
    <2> QED
      BY ZenonT(40), <2>1, <2>2
  <1>3. start \in Block /\ Height[l] \in Nat /\ Height[start] \in Nat /\ Height[l] <= Height[start]
    BY Zenon, <1>2, TreeFacts
  <1>4. \A z \in Path(e) : z \notin bad /\ Height[z] <= Height[l] => z \in Anc[l]
    <2>1. l # NoBlock /\ isEnforced = TRUE
      BY Zenon, TreeAssumption
    <2> QED
      BY Zenon, <2>1 DEF InternalHasConflictingChainLock
  <1>5. UNCHANGED <<have, conflict, bestIndex>>
    BY Zenon DEF ActivateBestChain, locks
  <1>8. bad \subseteq {x \in Path(e) : Height[x] <= Height[l] /\ x \notin Anc[l]}
    BY Zenon DEF InternalHasConflictingChainLock
  <1>9. ASSUME NEW n \in Block, NEW g, Anc[start] \subseteq have \ (conflict \cup g), Release(n, g)
        PROVE  /\ reorgFrom' \in {NoBlock, start}
               /\ reorgFrom' = NoBlock => Height[start] <= Height[n]
    BY Zenon, <1>2, <1>9, ReleaseHigh
  <1>10. ActivateBestChain(b) =>
           \/ bad = {} /\ tip' = e /\ Release(e, failed) /\ UNCHANGED failed
           \/ \E x \in bad : /\ \A y \in bad : Height[x] <= Height[y]
                             /\ failed' = failed \cup {y \in Path(b) : x \in Anc[y]}
                             /\ tip' = Parent[x] /\ Release(Parent[x], failed')
    BY Zenon DEF ActivateBestChain
  <1> HIDE DEF e, start, bad
  <1>6. CASE bad = {} /\ tip' = e /\ Release(e, failed) /\ UNCHANGED failed
    <2>1. Compatible(e, l)
      BY ZenonT(40), <1>2, <1>4, <1>6 DEF Compatible, Path
    <2>2. reorgFrom' \in {NoBlock, start} /\ (reorgFrom' = NoBlock => Height[start] <= Height[e])
      BY Zenon, <1>1, <1>2, <1>6, <1>9 DEF Clean
    <2>3. CASE reorgFrom' = NoBlock
      <3>1. Height[l] <= Height[e] /\ Height[e] \in Nat
        BY <1>1, <1>3, <2>2, <2>3, TreeFacts
      <3>2. l \in Anc[e]
        BY Zenon, <1>1, <2>1, <3>1, CompatibleHolds
      <3> QED
        BY Zenon, <1>5, <1>6, <2>3, <3>2 DEF Settled
    <2>4. CASE reorgFrom' = start /\ reorgFrom' # NoBlock
      BY Zenon, <1>2, <1>5, <1>6, <2>1, <2>4 DEF Settled, Clean, Compatible
    <2> QED
      BY Zenon, <2>2, <2>3, <2>4
  <1>7. ASSUME NEW x \in bad, \A y \in bad : Height[x] <= Height[y],
               failed' = failed \cup {y \in Path(b) : x \in Anc[y]},
               tip' = Parent[x], Release(Parent[x], failed')
        PROVE  Settled(bestIndex)'
    <2>1. /\ x \in Path(e) /\ Height[x] <= Height[l] /\ x \notin Anc[l]
      BY Zenon, <1>8
    <2>2. /\ x \in Block /\ Parent[x] \in Block /\ Height[Parent[x]] < Height[x]
          /\ Anc[x] = {x} \cup Anc[Parent[x]] /\ Anc[x] \subseteq Anc[e]
          /\ Height[x] \in Nat /\ Height[Parent[x]] \in Nat
      BY Zenon, <1>1, <2>1, PathFacts, TreeFacts
    <2>3. \A y \in Anc[start] : x \notin Anc[y]
      <3>1. \A y \in Anc[start] : Anc[y] \subseteq Anc[start]
        BY Zenon, <1>2, TreeFacts
      <3>2. x \notin Anc[start]
        BY Zenon, <1>2, <2>1, TreeFacts
      <3> QED
        BY Zenon, <3>1, <3>2
    <2>4. Anc[start] \subseteq have \ (conflict \cup failed')
      BY Zenon, <1>2, <1>7, <2>3 DEF Clean
    <2>5. /\ reorgFrom' \in {NoBlock, start}
          /\ reorgFrom' = NoBlock => Height[start] <= Height[Parent[x]]
      BY Zenon, <1>7, <2>2, <2>4, <1>9
    <2>6. reorgFrom' = start /\ reorgFrom' # NoBlock
      BY <1>3, <2>1, <2>2, <2>5
    <2>7. Compatible(Parent[x], l)
      <3>1. SUFFICES ASSUME NEW z \in Anc[Parent[x]], Height[z] <= Height[l]
                     PROVE  z \in Anc[l]
        BY Zenon DEF Compatible
      <3>2. CASE z \in Anc[tip]
        BY Zenon, <1>2, <3>1, <3>2 DEF Compatible
      <3>3. CASE z \notin Anc[tip]
        <4>1. z \in Path(e)
          BY Zenon, <2>2, <3>3 DEF Path
        <4>2. Height[z] <= Height[Parent[x]] /\ Height[z] \in Nat
          BY Zenon, <2>2, TreeFacts
        <4>3. z \notin bad
          BY <1>7, <2>2, <4>2
        <4> QED
          BY Zenon, <1>4, <3>1, <4>1, <4>3
      <3> QED
        BY Zenon, <3>2, <3>3
    <2> QED
      BY Zenon, <1>2, <1>5, <1>7, <2>4, <2>6, <2>7 DEF Settled, Clean, Compatible
  <1> QED
    BY Zenon, <1>6, <1>7, <1>10
----------------------------------------------------------------------------
(* The order of the ChainLocks *)

\* DIP8 is active on every chain that holds the block a.
LEMMA DIP8Holds ==
    ASSUME NEW a, Buried(a), tip \in Block, a \in Anc[tip]
    PROVE  DIP8Active
  <1>1. a \in Block /\ a # Genesis /\ tip # Genesis
    BY Zenon, TreeAssumption, TreeFacts DEF Buried
  <1>2. /\ Height[a] <= Height[tip]
        /\ Height[a] = Height[Parent[a]] + 1 /\ Height[tip] = Height[Parent[tip]] + 1
        /\ Height[Parent[a]] \in Nat /\ Height[Parent[tip]] \in Nat
    BY Zenon, <1>1, ParentFacts, TreeFacts
  <1>3. Height[Parent[a]] >= DIP8Height
    BY Zenon DEF Buried
  <1> QED
    BY <1>1, <1>2, <1>3, StartAssumption DEF DIP8Active

\* A regular node, on which the spork is switched off at most once.
Regular(a) == fMasternodeMode = FALSE /\ MaxToggles <= 1 /\ Buried(a)

Inv(a) == Points /\ ChainInv /\ Order /\ Enforcing(a)

\* The blocks that are compared.
LEMMA Compared ==
    ASSUME Points, ChainInv
    PROVE  /\ best \in MaybeBlock /\ bestIndex \in MaybeBlock /\ lastNotify \in MaybeBlock
           /\ Enforced \in MaybeBlock
  BY Zenon, Threads DEF Points, ChainInv, MaybeBlock, Enforced

LEMMA OrderRead ==
    ASSUME NEW a, Regular(a), Inv(a), NEW t \in Thread, ReadActiveState(t)
    PROVE  Order' /\ Enforcing(a)'
  <1>1. /\ pc[t] = "check" /\ pc' = [pc EXCEPT ![t] = "flags"]
        /\ saw \in [Thread -> [dip8 : BOOLEAN, old : BOOLEAN]]
        /\ saw' = [saw EXCEPT ![t] = [dip8 |-> DIP8Active, old |-> isEnforced]]
        /\ UNCHANGED <<tip, reorgFrom, spork, toggles, isEnforced, best, bestIndex, lastNotify,
                       lastSigned, blk>>
    BY Zenon DEF ReadActiveState, Goto, chain, flags, locks, Inv, Enforcing
  <1>2. DIP8Active = TRUE
    BY Zenon, DIP8Holds DEF Regular, Inv, Enforcing, ChainInv
  <1>3. \A s \in Thread : pc'[s] = IF s = t THEN "flags" ELSE pc[s]
    BY Zenon, <1>1, Moved DEF Inv
  <1>4. Enforced' = Enforced /\ (Blank => Blank')
    BY <1>1, <1>3, Threads DEF Enforced, Blank, Enforcer
  <1>5. Order'
    BY <1>1, <1>3, <1>4, Threads DEF Inv, Order, Below, HeightOf
  <1>6. [dip8 |-> DIP8Active, old |-> isEnforced] \in [dip8 : BOOLEAN, old : BOOLEAN]
    BY Zenon, <1>2 DEF Inv, Enforcing
  <1>7. saw' \in [Thread -> [dip8 : BOOLEAN, old : BOOLEAN]]
    BY Zenon, <1>1, <1>6
  <1>8. /\ \A s \in Thread : s # t => saw'[s] = saw[s]
        /\ saw'[t].dip8 = TRUE /\ saw'[t].old = isEnforced
    BY Zenon, <1>1, <1>2
  <1>9. \A s \in Thread : pc'[s] = "flags" => saw'[s].dip8 = TRUE
    BY Zenon, <1>3, <1>8 DEF Inv, Enforcing
  <1>10. pc'[Net] = "flags" /\ spork = TRUE /\ saw'[Net].old = FALSE => Blank'
    BY Zenon, <1>3, <1>4, <1>8, Threads DEF Inv, Enforcing
  <1>11. isEnforced = FALSE /\ spork = TRUE => Blank' /\ pc'[Net] \in {"idle", "check", "flags"}
    BY Zenon, <1>3, <1>4, Threads DEF Inv, Enforcing
  <1>12. pc'[Net] = "reset" => Blank'
    BY Zenon, <1>3, <1>4, Threads DEF Inv, Enforcing
  <1> QED
    BY Zenon, <1>1, <1>5, <1>7, <1>9, <1>10, <1>11, <1>12 DEF Inv, Enforcing

LEMMA OrderWrite ==
    ASSUME NEW a, Regular(a), Inv(a), NEW t \in Thread, WriteActiveState(t)
    PROVE  Order' /\ Enforcing(a)' /\ isEnforced' = spork
  <1>1. /\ pc[t] = "flags" /\ spork \in BOOLEAN /\ saw[t].dip8 = TRUE /\ saw[t].old \in BOOLEAN
        /\ saw' = [saw EXCEPT ![t] = NothingSeen]
        /\ UNCHANGED <<tip, reorgFrom, spork, toggles, best, bestIndex, lastNotify,
                       lastSigned, blk>>
    BY Zenon DEF WriteActiveState, chain, locks, Inv, Enforcing
  <1>2. isEnforced' = spork
    BY Zenon, <1>1 DEF WriteActiveState
  <1>3. PICK p \in {"reset", "enforce", "seen"} :
            /\ pc' = [pc EXCEPT ![t] = p]
            /\ p = "reset" => saw[t].old = FALSE /\ spork = TRUE
    BY Zenon, <1>1, <1>2 DEF WriteActiveState, Goto, Continue
  <1>4. \A s \in Thread : pc'[s] = IF s = t THEN p ELSE pc[s]
    BY ZenonT(40), <1>3, Moved DEF Inv
  <1>5. Enforced' = Enforced /\ (Blank => Blank')
    BY Zenon, <1>1, <1>4, Threads DEF Enforced, Blank, Enforcer
  <1>6. Order'
    BY Zenon, <1>1, <1>4, <1>5, Threads DEF Inv, Order, Below, HeightOf
  <1>7. saw' \in [Thread -> [dip8 : BOOLEAN, old : BOOLEAN]]
    BY Zenon, <1>1 DEF Inv, Enforcing, NothingSeen
  <1>8. \A s \in Thread : s # t => saw'[s] = saw[s]
    BY Zenon, <1>1 DEF Inv, Enforcing
  <1>9. \A s \in Thread : pc'[s] = "flags" => saw'[s].dip8 = TRUE
    BY Zenon, <1>4, <1>8 DEF Inv, Enforcing
  <1>10. pc'[Net] = "flags" /\ spork = TRUE /\ saw'[Net].old = FALSE => Blank'
    BY Zenon, <1>4, <1>5, <1>8, Threads DEF Inv, Enforcing
  <1>11. pc'[Net] = "reset" => Blank'
    BY Zenon, <1>1, <1>3, <1>4, <1>5, Threads DEF Inv, Enforcing
  <1> QED
    BY Zenon, <1>1, <1>2, <1>6, <1>7, <1>9, <1>10, <1>11 DEF Inv, Enforcing

LEMMA OrderReset ==
    ASSUME NEW a, Regular(a), Inv(a), NEW t \in Thread, ResetChainLocks(t)
    PROVE  Order' /\ Enforcing(a)'
  <1>1. /\ pc[t] = "reset" /\ best' = NoBlock /\ bestIndex' = NoBlock /\ lastNotify' = NoBlock
        /\ UNCHANGED <<tip, reorgFrom, spork, toggles, isEnforced, lastSigned, blk, saw>>
    BY Zenon DEF ResetChainLocks, chain, flags
  <1>2. PICK p \in {"enforce", "seen"} : pc' = [pc EXCEPT ![t] = p]
    BY Zenon DEF ResetChainLocks, Goto, Continue
  <1>3. \A s \in Thread : pc'[s] = IF s = t THEN p ELSE pc[s]
    BY Zenon, <1>2, Moved DEF Inv
  <1>4. Blank'
    BY Zenon, <1>1, <1>3, Threads DEF Blank, Enforcer, Inv, Order, Enforcing
  <1>5. pc'[Net] \in {"lookup", "known", "unknown"} => -1 < Height[blk[Net]]
    <2>1. pc'[Net] \in {"lookup", "known", "unknown"} => blk[Net] \in Block
      BY Zenon, <1>3, Threads DEF Inv, Points
    <2> QED
      BY <2>1, TreeFacts
  <1>6. Order'
    BY Zenon, <1>1, <1>3, <1>4, <1>5, Threads DEF Inv, Order, Below, HeightOf, Enforced, Blank
  <1>7. Enforcing(a)'
    BY Zenon, <1>1, <1>3, <1>4, Threads DEF Inv, Enforcing
  <1> QED
    BY Zenon, <1>6, <1>7
\* The steps that only move threads or only change the ChainLocks.
LEMMA EnforcingKept ==
    ASSUME NEW a, Inv(a), UNCHANGED <<spork, toggles, isEnforced, saw>>,
           a \in Anc[tip'], reorgFrom' # NoBlock => a \in Anc[reorgFrom'],
           \A s \in Thread : pc'[s] = "flags" => pc[s] = "flags",
           pc'[Net] = "reset" => pc[Net] = "reset",
           pc[Net] \in {"idle", "check", "flags"} =>
               pc'[Net] \in {"idle", "check", "flags"} /\ (Blank => Blank'),
           Blank /\ pc[Net] = "reset" => Blank'
    PROVE  Enforcing(a)'
  <1>1. /\ pc'[Net] = "flags" => pc[Net] = "flags"
        /\ \A s \in Thread : pc'[s] = "flags" => saw'[s].dip8 = TRUE
    BY Zenon, Threads DEF Inv, Enforcing
  <1>2. isEnforced' = FALSE /\ spork' = TRUE => Blank' /\ pc'[Net] \in {"idle", "check", "flags"}
    BY Zenon DEF Inv, Enforcing
  <1>3. pc'[Net] = "reset" => Blank'
    BY Zenon DEF Inv, Enforcing
  <1>4. pc'[Net] = "flags" /\ spork' = TRUE /\ saw'[Net].old = FALSE => Blank'
    BY Zenon, <1>1 DEF Inv, Enforcing
  <1> QED
    BY Zenon, <1>1, <1>2, <1>3, <1>4 DEF Inv, Enforcing

LEMMA OrderProcess ==
    ASSUME NEW a, Regular(a), Inv(a), NEW t \in Handler,
           CheckSeen(t) \/ LookupBlockIndex(t) \/ SetBestChainLock(t)
    PROVE  Order' /\ Enforcing(a)'
  <1>1. /\ t = Net /\ t \in Thread /\ pc[Net] \in {"seen", "lookup", "known", "unknown"}
        /\ blk[Net] \in Block /\ Height[blk[Net]] \in Nat
        /\ UNCHANGED <<tip, reorgFrom, spork, toggles, isEnforced, lastNotify, lastSigned, saw>>
    <2>1. pc[t] \in {"seen", "lookup", "known", "unknown"}
      BY Zenon DEF CheckSeen, LookupBlockIndex, SetBestChainLock
    <2>2. t = Net
      BY Zenon, <2>1, Threads DEF Inv, Order
    <2>3. blk[Net] \in Block
      BY Zenon, <2>1, <2>2, Threads DEF Inv, Points
    <2> QED
      BY Zenon, <2>1, <2>2, <2>3, Threads, TreeFacts
      DEF CheckSeen, LookupBlockIndex, SetBestChainLock, chain, flags, locks
  <1>2. PICK p \in {"idle", "lookup", "known", "unknown"} :
            /\ pc' = [pc EXCEPT ![Net] = p]
            /\ p # "idle" => blk' = blk /\ best' = best /\ HeightOf(best) < Height[blk[Net]]
    <2>1. CASE CheckSeen(t)
      <3>1. HeightOf(best) \in Int
        BY Zenon, HeightOfFacts DEF Inv, Points
      <3> QED
        BY <1>1, <2>1, <3>1 DEF CheckSeen, Goto, Ends, locks
    <2>2. CASE LookupBlockIndex(t)
      BY Zenon, <1>1, <2>2 DEF LookupBlockIndex, Goto, locks, Inv, Order
    <2>3. CASE SetBestChainLock(t)
      BY Zenon, <1>1, <2>3 DEF SetBestChainLock, Goto, Ends
    <2> QED
      BY Zenon, <2>1, <2>2, <2>3
  <1>3. \A s \in Thread : pc'[s] = IF s = Net THEN p ELSE pc[s]
    BY ZenonT(40), <1>2, Moved, Threads DEF Inv
  <1>4. \A s \in Thread : s # Net => blk'[s] = blk[s]
    <2>1. blk' = blk \/ blk' = [blk EXCEPT ![Net] = NoBlock]
      BY Zenon, <1>1 DEF CheckSeen, LookupBlockIndex, SetBestChainLock, Ends
    <2> QED
      BY <2>1, MovedBlock, Threads DEF Inv
  <1>5. Enforced' = Enforced
    BY Zenon, <1>1, <1>3, <1>4, Threads DEF Enforced
  <1>6. Below(Enforced, bestIndex') /\ Below(bestIndex', best')
    <2>1. CASE UNCHANGED <<best, bestIndex>>
      BY Zenon, <2>1 DEF Inv, Order
    <2>2. CASE SetBestChainLock(t)
      <3>1. /\ best' = blk[Net] /\ bestIndex' \in {bestIndex, blk[Net]}
            /\ HeightOf(best) < Height[blk[Net]]
        BY Zenon, <1>1, <2>2 DEF SetBestChainLock, Inv, Order
      <3>2. blk[Net] \in MaybeBlock /\ blk[Net] # NoBlock
        BY Zenon, <1>1, TreeAssumption DEF MaybeBlock
      <3>3. Below(best, blk[Net])
        BY Zenon, <3>1, <3>2 DEF Below, HeightOf
      <3>4. Below(bestIndex, blk[Net]) /\ Below(Enforced, blk[Net]) /\ Below(blk[Net], blk[Net])
        BY Zenon, <3>2, <3>3, Compared, BelowFacts DEF Inv, Order
      <3> QED
        BY Zenon, <3>1, <3>4 DEF Inv, Order
    <2> QED
      BY Zenon, <2>1, <2>2 DEF CheckSeen, LookupBlockIndex, locks
  <1>7. Order'
    <2>1. pc'[Net] \in {"lookup", "known", "unknown"} => HeightOf(best') < Height[blk'[Net]]
      BY Zenon, <1>2, <1>3, Threads
    <2>2. Below(lastNotify', Enforced')
      BY Zenon, <1>1, <1>5 DEF Inv, Order
    <2>3. Below(Enforced', bestIndex')
      BY Zenon, <1>5, <1>6
    <2>4. pc'[Recoverer] = "idle" /\ pc'[Scheduler] = pc[Scheduler] /\ lastSigned' = NoBlock
      BY Zenon, <1>1, <1>3, Threads DEF Inv, Order
    <2>5. pc'[Scheduler] \notin {"signcheck", "dosign"}
      BY Zenon, <2>4 DEF Inv, Order
    <2> HIDE DEF Inv
    <2> QED
      BY Zenon, <1>6, <2>1, <2>2, <2>3, <2>4, <2>5 DEF Order, Below, HeightOf
  <1>8. Enforcing(a)'
    <2>1. \A s \in Thread : pc'[s] = "flags" => pc[s] = "flags"
      BY Zenon, <1>2, <1>3
    <2>2. pc'[Net] # "reset"
      BY Zenon, <1>2, <1>3, Threads
    <2>3. a \in Anc[tip'] /\ (reorgFrom' # NoBlock => a \in Anc[reorgFrom'])
      BY Zenon, <1>1 DEF Inv, Enforcing
    <2> QED
      BY Zenon, <1>1, <2>1, <2>2, <2>3, EnforcingKept
  <1> QED
    BY Zenon, <1>7, <1>8

LEMMA OrderReceive ==
    ASSUME NEW a, Regular(a), Inv(a), ReceiveLock
    PROVE  Order' /\ Enforcing(a)'
  <1>1. PICK l \in Lock : ProcessMessage(l)
    BY Zenon, StartAssumption, TreeAssumption DEF ReceiveLock, HandleNewRecoveredSig, Inv, Order
  <1>2. /\ pc[Net] = "idle" /\ pc' = [pc EXCEPT ![Net] = "check"]
        /\ blk' = [blk EXCEPT ![Net] = l]
        /\ UNCHANGED <<tip, reorgFrom, spork, toggles, isEnforced, best, bestIndex, lastNotify,
                       lastSigned, saw>>
    BY Zenon, <1>1 DEF ProcessMessage, Goto, chain, flags, locks
  <1>3. \A s \in Thread : /\ pc'[s] = IF s = Net THEN "check" ELSE pc[s]
                          /\ blk'[s] = IF s = Net THEN l ELSE blk[s]
    <2>1. \A s \in Thread : pc'[s] = IF s = Net THEN "check" ELSE pc[s]
      BY Zenon, <1>2, Moved, Threads DEF Inv
    <2>2. \A s \in Thread : blk'[s] = IF s = Net THEN l ELSE blk[s]
      BY Zenon, <1>2, MovedBlock, Threads DEF Inv
    <2> QED
      BY Zenon, <2>1, <2>2
  <1>4. Enforced' = Enforced /\ (Blank => Blank')
    BY Zenon, <1>2, <1>3, Threads DEF Enforced, Blank
  <1>5. Order'
    BY <1>2, <1>3, <1>4, Threads DEF Inv, Order, Below, HeightOf
  <1>6. Enforcing(a)'
    <2>1. /\ \A s \in Thread : pc'[s] = "flags" => pc[s] = "flags"
          /\ pc'[Net] = "check"
      BY Zenon, <1>3, Threads
    <2>2. a \in Anc[tip'] /\ (reorgFrom' # NoBlock => a \in Anc[reorgFrom'])
      BY Zenon, <1>2 DEF Inv, Enforcing
    <2> QED
      BY Zenon, <1>2, <1>4, <2>1, <2>2, EnforcingKept
  <1> QED
    BY Zenon, <1>5, <1>6

LEMMA OrderBlock ==
    ASSUME NEW a, Regular(a), Inv(a), ReceiveBlock
    PROVE  Order' /\ Enforcing(a)'
  <1>1. PICK b \in Block \ {Genesis} : AcceptBlockHeader(b) \/ AcceptBlock(b)
    BY Zenon DEF ReceiveBlock
  <1>2. /\ UNCHANGED <<tip, reorgFrom, spork, toggles, isEnforced, best, lastNotify, lastSigned,
                       pc, blk, saw>>
        /\ bestIndex' = bestIndex \/ bestIndex' = best
        /\ best = NoBlock => bestIndex' = bestIndex
    BY Zenon, <1>1, TreeAssumption DEF AcceptBlockHeader, AcceptBlock, locks, flags
  <1>3. Enforced' = Enforced /\ (Blank => Blank')
    BY Zenon, <1>2 DEF Enforced, Blank
  <1>4. Below(Enforced, bestIndex') /\ Below(bestIndex', best)
    <2>1. Below(Enforced, bestIndex) /\ Below(bestIndex, best)
      BY Zenon DEF Inv, Order
    <2>2. {Enforced, bestIndex, best} \subseteq MaybeBlock
      BY Zenon, Compared DEF Inv
    <2>3. Below(Enforced, best) /\ Below(best, best)
      BY Zenon, <2>1, <2>2, BelowFacts
    <2> QED
      BY Zenon, <1>2, <2>1, <2>3
  <1>5. Order'
    <2>1. HeightOf(best)' = HeightOf(best)
      BY Zenon, <1>2 DEF HeightOf
    <2>2. Below(lastNotify', Enforced') /\ Below(Enforced', bestIndex') /\ Below(bestIndex', best')
      BY Zenon, <1>2, <1>3, <1>4 DEF Inv, Order
    <2> QED
      BY Zenon, <1>2, <2>1, <2>2 DEF Inv, Order, Below, HeightOf
  <1>6. Enforcing(a)'
    <2>1. a \in Anc[tip'] /\ (reorgFrom' # NoBlock => a \in Anc[reorgFrom'])
      BY Zenon, <1>2 DEF Inv, Enforcing
    <2> QED
      BY Zenon, <1>2, <1>3, <2>1, EnforcingKept
  <1> QED
    BY Zenon, <1>5, <1>6
\* Blocks off the active chain build on the block a.
LEMMA Anchor ==
    ASSUME NEW a, Buried(a), ChainInv, a \in Anc[tip], NEW x \in Block, x \notin Anc[tip]
    PROVE  x # Genesis /\ a \in Anc[x] /\ a \in Anc[Parent[x]]
  <1>1. x # Genesis
    BY Zenon, GenesisIsAncestor DEF ChainInv
  <1>2. x \notin Anc[a]
    BY Zenon, TreeFacts DEF ChainInv
  <1>3. a \in Anc[x] /\ a # x
    BY Zenon, <1>2 DEF Buried
  <1> QED
    BY <1>1, <1>3, ParentFacts

\* Neither ActivateBestChain nor EnforceBlock leaves the block a.
LEMMA ValidateAnchor ==
    ASSUME NEW a, Buried(a), ChainInv, a \in Anc[tip],
           reorgFrom # NoBlock => a \in Anc[reorgFrom],
           NEW b \in Wanted, ActivateBestChain(b)
    PROVE  a \in Anc[tip'] /\ (reorgFrom' # NoBlock => a \in Anc[reorgFrom'])
  <1>1. StepEnd(b) \in Block /\ StepEnd(b) \notin Anc[tip] /\ b \in Block
    BY Zenon, Activation, TreeFacts DEF ChainInv
  <1>2. a \in Anc[tip']
    <2>1. CASE tip' = StepEnd(b)
      BY Zenon, <1>1, <2>1, Anchor
    <2>2. CASE \E x \in Path(StepEnd(b)) : tip' = Parent[x]
      BY Zenon, <1>1, <2>2, Anchor, PathFacts
    <2> QED
      BY Zenon, <2>1, <2>2 DEF ActivateBestChain
  <1>3. reorgFrom' \in {NoBlock, tip, reorgFrom}
    BY Zenon DEF ActivateBestChain, Release
  <1> QED
    BY Zenon, <1>2, <1>3

LEMMA EnforceAnchor ==
    ASSUME NEW a, Buried(a), ChainInv, a \in Anc[tip], blk[Scheduler] \in Block, EnforceBlock
    PROVE  a \in Anc[tip']
  <1>1. CASE tip' = tip
    BY Zenon, <1>1
  <1>2. CASE \E s \in Siblings(blk[Scheduler]) : tip' = Parent[s]
    <2>1. PICK w \in Path(blk[Scheduler]) : tip' = Parent[w]
      BY Zenon, <1>2 DEF Siblings
    <2>2. w \in Block /\ w \notin Anc[tip]
      BY Zenon, <2>1, PathFacts
    <2> QED
      BY Zenon, <2>1, <2>2, Anchor
  <1> QED
    BY Zenon, <1>1, <1>2 DEF EnforceBlock

LEMMA OrderValidate ==
    ASSUME NEW a, Regular(a), Inv(a), NEW b \in Wanted, ActivateBestChain(b)
    PROVE  Order' /\ Enforcing(a)'
  <1>1. UNCHANGED <<spork, toggles, isEnforced, best, bestIndex, lastNotify, lastSigned, pc, blk,
                    saw>>
    BY Zenon DEF ActivateBestChain, flags, locks
  <1>2. ChainInv /\ Buried(a) /\ a \in Anc[tip] /\ (reorgFrom # NoBlock => a \in Anc[reorgFrom])
    BY Zenon DEF Inv, Regular, Enforcing
  <1>4. a \in Anc[tip'] /\ (reorgFrom' # NoBlock => a \in Anc[reorgFrom'])
    BY Zenon, <1>2, ValidateAnchor
  <1>6. Order'
    BY Zenon, <1>1 DEF Inv, Order, Below, HeightOf, Enforced
  <1>7. Blank => Blank'
    BY Zenon, <1>1 DEF Blank
  <1> QED
    BY Zenon, <1>1, <1>4, <1>6, <1>7, EnforcingKept

\* A step of the scheduler thread that leaves the best ChainLock alone.
LEMMA SchedulerOrder ==
    ASSUME NEW a, Regular(a), Inv(a), NEW p, pc' = [pc EXCEPT ![Scheduler] = p],
           p \notin {"flags", "signcheck", "dosign"},
           \A s \in Thread : s # Scheduler => blk'[s] = blk[s],
           UNCHANGED <<spork, toggles, isEnforced, saw, best, bestIndex, lastSigned>>,
           a \in Anc[tip'], reorgFrom' # NoBlock => a \in Anc[reorgFrom'],
           Blank => lastNotify' = NoBlock /\ p \notin Enforcer,
           Below(lastNotify', IF p \in Enforcer THEN blk'[Scheduler] ELSE lastNotify'),
           Below(IF p \in Enforcer THEN blk'[Scheduler] ELSE lastNotify', bestIndex)
    PROVE  Order' /\ Enforcing(a)'
  <1>1. \A s \in Thread : pc'[s] = IF s = Scheduler THEN p ELSE pc[s]
    <2>1. Points /\ Scheduler \in Thread
      BY Zenon, Threads DEF Inv
    <2> QED
      BY Zenon, <2>1 DEF Points
  <1>2. pc'[Net] = pc[Net] /\ pc'[Recoverer] = pc[Recoverer] /\ pc'[Scheduler] = p
        /\ blk'[Net] = blk[Net]
    BY Zenon, <1>1, Threads
  <1>3. Blank => Blank'
    BY Zenon, <1>2 DEF Blank
  <1>4. \A s \in Thread : pc'[s] = "flags" => pc[s] = "flags"
    BY Zenon, <1>1
  <1>5. Enforcing(a)'
    BY Zenon, <1>2, <1>3, <1>4, EnforcingKept
  <1>6. Below(lastNotify', Enforced') /\ Below(Enforced', bestIndex')
    BY Zenon, <1>2 DEF Enforced
  <1>7. Order'
    BY Zenon, <1>2, <1>6 DEF Inv, Order, Below, HeightOf
  <1> QED
    BY Zenon, <1>5, <1>7

LEMMA OrderScheduler ==
    ASSUME NEW a, Regular(a), Inv(a), SchedulerStep \/ RunTask
    PROVE  Order' /\ Enforcing(a)'
  <1>1. /\ ChainInv /\ Buried(a) /\ a \in Anc[tip]
        /\ (reorgFrom # NoBlock => a \in Anc[reorgFrom])
        /\ Below(lastNotify, Enforced) /\ Below(Enforced, bestIndex)
        /\ Below(lastNotify, lastNotify) /\ Below(lastNotify, bestIndex)
        /\ Below(bestIndex, bestIndex)
    BY Zenon, Compared, BelowFacts DEF Inv, Regular, Enforcing, Order
  <1>2. pc[Scheduler] \notin {"signcheck", "dosign"}
    BY Zenon DEF Inv, Order
  <1>3. ASSUME NEW c, blk' = [blk EXCEPT ![Scheduler] = c]
        PROVE  blk'[Scheduler] = c /\ \A s \in Thread : s # Scheduler => blk'[s] = blk[s]
    <2>1. Points /\ Scheduler \in Thread
      BY Zenon, Threads DEF Inv
    <2> QED
      BY Zenon, <1>3, <2>1 DEF Points
  <1>4. CASE EnforceBestChainLock
    <2>1. UNCHANGED <<tip, reorgFrom, spork, toggles, isEnforced, saw, best, bestIndex, lastNotify,
                      lastSigned>>
      BY Zenon, <1>4 DEF EnforceBestChainLock, chain, flags, locks
    <2>2. CASE bestIndex # NoBlock /\ pc' = [pc EXCEPT ![Scheduler] = "mark"]
               /\ blk' = [blk EXCEPT ![Scheduler] = bestIndex]
      BY Zenon, <1>1, <1>3, <2>1, <2>2, SchedulerOrder DEF Blank, Enforcer
    <2>3. CASE AfterEnforce
      <3>1. PICK p \in {"idle", "sign"} : pc' = [pc EXCEPT ![Scheduler] = p]
        BY Zenon, <2>3 DEF AfterEnforce
      <3>2. \A s \in Thread : s # Scheduler => blk'[s] = blk[s]
        BY Zenon, <1>3, <2>3 DEF AfterEnforce
      <3> QED
        BY Zenon, <1>1, <2>1, <3>1, <3>2, SchedulerOrder DEF Blank, Enforcer
    <2> QED
      BY Zenon, <1>4, <2>2, <2>3 DEF EnforceBestChainLock, Goto
  <1>5. CASE EnforceBlock
    <2>1. /\ UNCHANGED <<reorgFrom, spork, toggles, isEnforced, saw, best, bestIndex, lastNotify,
                         lastSigned, blk>>
          /\ pc[Scheduler] = "mark" /\ pc' = [pc EXCEPT ![Scheduler] = "activate"]
          /\ blk[Scheduler] \in Block
      BY Zenon, <1>5 DEF EnforceBlock, Goto, flags, locks, Inv, Points, ChainInv, Enforcer
    <2>2. a \in Anc[tip']
      BY Zenon, <1>1, <1>5, <2>1, EnforceAnchor
    <2>3. Enforced = blk[Scheduler] /\ ~Blank
      BY Zenon, <2>1 DEF Enforced, Blank, Enforcer
    <2> QED
      BY Zenon, <1>1, <2>1, <2>2, <2>3, SchedulerOrder DEF Enforcer
  <1>6. CASE ChainActivated
    <2>1. /\ UNCHANGED <<tip, reorgFrom, spork, toggles, isEnforced, saw, best, bestIndex, lastNotify,
                         lastSigned>>
          /\ pc[Scheduler] = "activate"
      BY Zenon, <1>6 DEF ChainActivated, chain, flags, locks
    <2>2. Enforced = blk[Scheduler] /\ ~Blank
      BY Zenon, <2>1 DEF Enforced, Blank, Enforcer
    <2>3. CASE pc' = [pc EXCEPT ![Scheduler] = "notify"] /\ blk' = blk
      BY Zenon, <1>1, <2>1, <2>2, <2>3, SchedulerOrder DEF Enforcer
    <2>4. CASE AfterEnforce
      <3>1. PICK p \in {"idle", "sign"} : pc' = [pc EXCEPT ![Scheduler] = p]
        BY Zenon, <2>4 DEF AfterEnforce
      <3>2. \A s \in Thread : s # Scheduler => blk'[s] = blk[s]
        BY Zenon, <1>3, <2>4 DEF AfterEnforce
      <3> QED
        BY Zenon, <1>1, <2>1, <2>2, <3>1, <3>2, SchedulerOrder DEF Enforcer
    <2> QED
      BY Zenon, <1>6, <2>3, <2>4 DEF ChainActivated, Goto
  <1>7. CASE NotifyChainLock
    <2>1. /\ UNCHANGED <<tip, reorgFrom, spork, toggles, isEnforced, saw, best, bestIndex,
                         lastSigned>>
          /\ pc[Scheduler] = "notify" /\ lastNotify' = blk[Scheduler] /\ AfterEnforce
      BY Zenon, <1>7 DEF NotifyChainLock, chain, flags
    <2>2. Enforced = blk[Scheduler] /\ ~Blank
      BY Zenon, <2>1 DEF Enforced, Blank, Enforcer
    <2>3. PICK p \in {"idle", "sign"} : pc' = [pc EXCEPT ![Scheduler] = p]
      BY Zenon, <2>1 DEF AfterEnforce
    <2>4. \A s \in Thread : s # Scheduler => blk'[s] = blk[s]
      BY Zenon, <1>3, <2>1 DEF AfterEnforce
    <2>5. Below(lastNotify', lastNotify') /\ Below(lastNotify', bestIndex)
      BY Zenon, <1>1, <2>1, <2>2 DEF Below
    <2> QED
      BY ZenonT(40), <1>1, <2>1, <2>2, <2>3, <2>4, <2>5, SchedulerOrder DEF Enforcer
  <1>8. CASE \E E \in {{}, seen} : TrySignChainTip(E)
    <2>1. /\ UNCHANGED <<tip, reorgFrom, spork, toggles, isEnforced, saw, best, bestIndex, lastNotify,
                         lastSigned>>
          /\ Ends(Scheduler)
      BY Zenon, <1>8 DEF TrySignChainTip, chain, flags, locks, Regular
    <2>2. /\ pc' = [pc EXCEPT ![Scheduler] = "idle"]
          /\ \A s \in Thread : s # Scheduler => blk'[s] = blk[s]
      BY Zenon, <1>3, <2>1 DEF Ends, Goto
    <2> QED
      BY Zenon, <1>1, <2>1, <2>2, SchedulerOrder DEF Blank, Enforcer
  <1>9. CASE RunTask
    <2>1. /\ UNCHANGED <<tip, reorgFrom, spork, toggles, isEnforced, saw, best, bestIndex, lastNotify,
                         lastSigned, blk>>
          /\ pc' = [pc EXCEPT ![Scheduler] = "check"]
      BY Zenon, <1>9 DEF RunTask, Goto, chain, flags, locks
    <2> QED
      BY Zenon, <1>1, <2>1, SchedulerOrder DEF Blank, Enforcer
  <1> QED
    BY Zenon, <1>2, <1>4, <1>5, <1>6, <1>7, <1>8, <1>9 DEF SchedulerStep, CheckTip, SignTip
LEMMA OrderSpork ==
    ASSUME NEW a, Regular(a), Inv(a), SporkUpdated
    PROVE  Order' /\ Enforcing(a)'
  <1>1. /\ UNCHANGED <<tip, reorgFrom, isEnforced, saw, best, bestIndex, lastNotify, lastSigned,
                       pc, blk>>
        /\ toggles < MaxToggles /\ toggles' = toggles + 1
    BY Zenon DEF SporkUpdated, chain, flags, locks
  <1>2. toggles \in {0, 1} /\ (toggles = 0 <=> spork = TRUE)
    BY Zenon DEF Inv, Enforcing
  <1>3. toggles = 0 /\ toggles' = 1
    BY <1>1, <1>2, StartAssumption DEF Regular
  <1>4. spork' = FALSE
    BY Zenon, <1>2, <1>3 DEF SporkUpdated
  <1>5. Order'
    BY Zenon, <1>1 DEF Inv, Order, Below, HeightOf, Enforced
  <1>6. Blank => Blank'
    BY Zenon, <1>1 DEF Blank
  <1>7. toggles' \in {0, 1} /\ (toggles' = 0 <=> spork' = TRUE) /\ spork' \in BOOLEAN
    <2>1. toggles' \in {0, 1} /\ toggles' # 0
      BY <1>3
    <2>2. spork' # TRUE /\ spork' \in BOOLEAN
      BY Zenon, <1>4
    <2> QED
      BY Zenon, <2>1, <2>2
  <1>8. Enforcing(a)'
    BY Zenon, <1>1, <1>4, <1>6, <1>7 DEF Inv, Enforcing
  <1> QED
    BY Zenon, <1>5, <1>8

LEMMA OrderInit ==
    ASSUME NEW a, Regular(a), Init
    PROVE  Inv(a)
  <1>1. Points /\ ChainInv
    BY Zenon, ChainInit
  <1>2. \A t \in Thread : pc[t] = "idle" /\ blk[t] = NoBlock
    BY Zenon DEF Init
  <1>3. Order
    BY Zenon, <1>2, Threads DEF Init, Order, Below, Enforced, Enforcer
  <1>4. Blank
    BY Zenon, <1>2, Threads DEF Init, Blank, Enforcer
  <1>5. saw \in [Thread -> [dip8 : BOOLEAN, old : BOOLEAN]]
    BY Zenon DEF Init, NothingSeen
  <1>6. spork = TRUE /\ spork \in BOOLEAN /\ toggles = 0
    BY Zenon DEF Init
  <1>7. isEnforced \in BOOLEAN
    BY Zenon DEF Init
  <1>8. a \in Anc[tip] /\ reorgFrom = NoBlock
    BY Zenon DEF Init, Regular, Buried
  <1>9. Enforcing(a)
    BY Zenon, <1>2, <1>4, <1>5, <1>6, <1>7, <1>8, Threads DEF Enforcing
  <1> QED
    BY Zenon, <1>1, <1>3, <1>9 DEF Inv

LEMMA OrderStep ==
    ASSUME NEW a, Regular(a), Inv(a), [Next]_vars
    PROVE  Inv(a)'
  <1>1. Points' /\ ChainInv'
    BY Zenon, ChainStep DEF Inv
  <1>2. CASE \E t \in Thread : HandlerStep(t)
    BY Zenon, <1>1, <1>2, OrderRead, OrderWrite, OrderReset, OrderProcess DEF HandlerStep, Inv
  <1>3. CASE ReceiveLock
    BY Zenon, <1>1, <1>3, OrderReceive DEF Inv
  <1>4. CASE Validate
    BY Zenon, <1>1, <1>4, OrderValidate DEF Validate, Inv
  <1>5. CASE ReceiveBlock
    BY Zenon, <1>1, <1>5, OrderBlock DEF Inv
  <1>6. CASE SchedulerStep \/ RunTask
    BY Zenon, <1>1, <1>6, OrderScheduler DEF Inv
  <1>7. CASE SporkUpdated
    BY Zenon, <1>1, <1>7, OrderSpork DEF Inv
  <1>8. CASE UNCHANGED vars
    <2>1. Order' /\ Enforcing(a)'
      BY <1>8 DEF vars, Inv, Order, Enforcing, Blank, Below, HeightOf, Enforced
    <2> QED
      BY Zenon, <1>1, <2>1 DEF Inv
  <1> QED
    BY Zenon, <1>2, <1>3, <1>4, <1>5, <1>6, <1>7, <1>8 DEF Next
----------------------------------------------------------------------------
(* Announced ChainLocks *)

\* A step that announces nothing new and leaves the chain alone.
LEMMA FinalKept ==
    ASSUME Final, Announced' => Announced /\ bestIndex' = bestIndex,
           UNCHANGED <<tip, reorgFrom>>,
           reorgFrom # NoBlock => UNCHANGED <<have, conflict, failed>>
    PROVE  Final'
  <1>1. SUFFICES ASSUME Announced' PROVE Settled(bestIndex)'
    BY Zenon DEF Final
  <1>2. Settled(bestIndex) /\ bestIndex' = bestIndex
    BY Zenon, <1>1 DEF Final
  <1> QED
    BY Zenon, <1>2 DEF Settled, Clean, Compatible

\* A ChainLock that becomes the best one with a known block has not been
\* announced and is not being announced.
LEMMA NewLock ==
    ASSUME NEW a, Inv(a), NEW l \in Block,
           HeightOf(best) < Height[l] \/ (l = best /\ l \notin index)
    PROVE  lastNotify # l /\ (pc[Scheduler] = "notify" => blk[Scheduler] # l)
  <1>1. /\ Below(lastNotify, best) /\ Below(Enforced, best)
        /\ HeightOf(lastNotify) <= HeightOf(best) /\ HeightOf(Enforced) <= HeightOf(best)
    BY Zenon, Compared, BelowFacts DEF Inv, Order
  <1>2. HeightOf(l) = Height[l] /\ Height[l] \in Nat /\ l # NoBlock
    BY Zenon, TreeAssumption DEF HeightOf
  <1>3. HeightOf(best) \in Int
    BY Zenon, HeightOfFacts DEF Inv, Points
  <1>4. pc[Scheduler] = "notify" => Enforced = blk[Scheduler] /\ blk[Scheduler] \in index
    BY Zenon DEF Enforced, Enforcer, Inv, Points
  <1>5. CASE HeightOf(best) < Height[l]
    <2>1. lastNotify # l
      BY <1>1, <1>2, <1>3, <1>5
    <2>2. Enforced # l
      BY <1>1, <1>2, <1>3, <1>5
    <2> QED
      BY Zenon, <1>4, <2>1, <2>2
  <1>6. CASE l = best /\ l \notin index
    BY Zenon, <1>2, <1>4, <1>6 DEF Inv, Points
  <1> QED
    BY Zenon, <1>5, <1>6

LEMMA FinalHandler ==
    ASSUME NEW a, Regular(a), Inv(a), Final, NEW t \in Thread, HandlerStep(t)
    PROVE  Final'
  <1>1. UNCHANGED <<tip, reorgFrom, have, conflict, failed>>
    BY Zenon DEF HandlerStep, ReadActiveState, WriteActiveState, ResetChainLocks, CheckSeen,
           LookupBlockIndex, SetBestChainLock, chain
  <1>2. ASSUME pc[t] # "notify" \/ t # Scheduler,
               NEW p, pc' = [pc EXCEPT ![t] = p], p # "notify"
        PROVE  pc'[Scheduler] = "notify" => pc[Scheduler] = "notify" /\ t # Scheduler
    <2>1. \A s \in Thread : pc'[s] = IF s = t THEN p ELSE pc[s]
      BY Zenon, <1>2, Moved DEF Inv
    <2> QED
      BY Zenon, <1>2, <2>1, Threads
  <1>3. CASE ReadActiveState(t)
    <2>1. pc'[Scheduler] = "notify" => pc[Scheduler] = "notify"
      BY Zenon, <1>2, <1>3 DEF ReadActiveState, Goto
    <2>2. UNCHANGED <<isEnforced, bestIndex, lastNotify, blk>>
      BY Zenon, <1>3 DEF ReadActiveState, flags, locks
    <2> QED
      BY Zenon, <1>1, <2>1, <2>2, FinalKept DEF Announced
  <1>4. CASE WriteActiveState(t)
    <2>1. pc'[Scheduler] = "notify" => pc[Scheduler] = "notify"
      BY Zenon, <1>2, <1>4 DEF WriteActiveState, Goto, Continue
    <2>2. UNCHANGED <<spork, bestIndex, lastNotify, blk>> /\ isEnforced' = spork
      BY Zenon, <1>4, OrderWrite DEF WriteActiveState, locks
    <2>3. isEnforced' = TRUE /\ bestIndex # NoBlock => isEnforced = TRUE
      BY Zenon, <2>2 DEF Inv, Enforcing, Blank
    <2> QED
      BY Zenon, <1>1, <2>1, <2>2, <2>3, FinalKept DEF Announced
  <1>5. CASE ResetChainLocks(t)
    BY Zenon, <1>5 DEF ResetChainLocks, Final, Announced
  <1>6. CASE t \in Handler /\ (CheckSeen(t) \/ LookupBlockIndex(t) \/ SetBestChainLock(t))
    <2>1. /\ t = Net /\ blk[Net] \in Block
          /\ pc[Net] \in {"known", "unknown"} => HeightOf(best) < Height[blk[Net]]
      <3>1. t # Recoverer
        BY Zenon, <1>6 DEF CheckSeen, LookupBlockIndex, SetBestChainLock, Inv, Order
      <3>2. t = Net /\ pc[t] # "idle"
        BY Zenon, <1>6, <3>1, Threads DEF CheckSeen, LookupBlockIndex, SetBestChainLock
      <3> QED
        BY Zenon, <3>2, Threads DEF Inv, Points, Order
    <2>2. pc'[Scheduler] = pc[Scheduler]
      <3>1. \E p \in {"idle", "lookup", "known", "unknown"} : pc' = [pc EXCEPT ![Net] = p]
        BY Zenon, <1>6, <2>1 DEF CheckSeen, LookupBlockIndex, SetBestChainLock, Goto, Ends
      <3> QED
        BY Zenon, <3>1, Threads DEF Inv, Points
    <2>3. blk'[Scheduler] = blk[Scheduler]
      <3>1. blk' = blk \/ blk' = [blk EXCEPT ![Net] = NoBlock]
        BY Zenon, <1>6, <2>1 DEF CheckSeen, LookupBlockIndex, SetBestChainLock, Ends
      <3> QED
        BY Zenon, <3>1, Threads DEF Inv, Points
    <2>4. UNCHANGED <<isEnforced, lastNotify>>
      BY Zenon, <1>6 DEF CheckSeen, LookupBlockIndex, SetBestChainLock, flags, locks
    <2>5. CASE bestIndex' = bestIndex
      BY Zenon, <1>1, <2>2, <2>3, <2>4, <2>5, FinalKept DEF Announced
    <2>6. CASE bestIndex' # bestIndex
      <3>1. bestIndex' = blk[Net] /\ HeightOf(best) < Height[blk[Net]]
        BY Zenon, <1>6, <2>1, <2>6
        DEF CheckSeen, LookupBlockIndex, SetBestChainLock, locks
      <3>2. ~Announced'
        BY ZenonT(40), <2>1, <2>2, <2>3, <2>4, <3>1, NewLock DEF Announced
      <3> QED
        BY Zenon, <1>1, <3>2, FinalKept
    <2> QED
      BY Zenon, <2>5, <2>6
  <1> QED
    BY Zenon, <1>3, <1>4, <1>5, <1>6 DEF HandlerStep

LEMMA FinalScheduler ==
    ASSUME NEW a, Regular(a), Inv(a), Final, SchedulerStep \/ RunTask
    PROVE  Final'
  <1>1. pc[Scheduler] \notin {"signcheck", "dosign"}
    BY Zenon DEF Inv, Order
  <1>2. ASSUME NEW p, pc' = [pc EXCEPT ![Scheduler] = p] PROVE pc'[Scheduler] = p
    BY Zenon, <1>2, Threads DEF Inv, Points
  <1>3. ASSUME AfterEnforce PROVE pc'[Scheduler] # "notify"
    <2>1. PICK p \in {"idle", "sign"} : pc' = [pc EXCEPT ![Scheduler] = p]
      BY Zenon, <1>3 DEF AfterEnforce
    <2> QED
      BY Zenon, <1>2, <2>1
  <1>4. CASE EnforceBestChainLock \/ RunTask \/ \E E \in {{}, seen} : TrySignChainTip(E)
    <2>1. UNCHANGED <<tip, reorgFrom, have, conflict, failed, isEnforced, bestIndex, lastNotify>>
      BY Zenon, <1>4 DEF EnforceBestChainLock, RunTask, TrySignChainTip, chain, flags, locks
    <2>2. pc'[Scheduler] # "notify"
      <3>1. CASE AfterEnforce
        BY Zenon, <1>3, <3>1
      <3>2. CASE \E p \in {"mark", "check", "idle"} : pc' = [pc EXCEPT ![Scheduler] = p]
        BY Zenon, <1>2, <3>2
      <3> QED
        BY Zenon, <1>4, <3>1, <3>2
        DEF EnforceBestChainLock, RunTask, TrySignChainTip, Goto, Ends, Regular
    <2> QED
      BY Zenon, <2>1, <2>2, FinalKept DEF Announced
  <1>5. CASE EnforceBlock
    <2>1. /\ MainFree /\ pc[Scheduler] = "mark" /\ pc'[Scheduler] = "activate"
          /\ UNCHANGED <<reorgFrom, isEnforced, bestIndex, lastNotify>>
      BY Zenon, <1>2, <1>5 DEF EnforceBlock, Goto, flags, locks
    <2>2. SUFFICES ASSUME Announced' PROVE Settled(bestIndex)'
      BY Zenon DEF Final
    <2>3. Announced /\ lastNotify = bestIndex
      BY Zenon, <2>1, <2>2 DEF Announced
    <2>4. bestIndex \in Anc[tip]
      BY Zenon, <2>1, <2>3 DEF Final, Settled, MainFree
    <2>5. blk[Scheduler] = bestIndex
      <3>1. Enforced = blk[Scheduler]
        BY Zenon, <2>1 DEF Enforced, Enforcer
      <3> QED
        BY Zenon, <2>3, <3>1, Compared, BelowFacts DEF Inv, Order
    <2>6. Path(blk[Scheduler]) = {}
      <3>1. Anc[bestIndex] \subseteq Anc[tip]
        BY Zenon, <2>4, TreeFacts DEF Inv, ChainInv
      <3> QED
        BY Zenon, <2>5, <3>1 DEF Path
    <2>7. tip' = tip
      BY Zenon, <1>5, <2>6 DEF EnforceBlock, Siblings
    <2> QED
      BY Zenon, <2>1, <2>4, <2>7 DEF Settled, MainFree
  <1>6. CASE ChainActivated
    <2>1. /\ MainFree
          /\ UNCHANGED <<tip, reorgFrom, have, conflict, failed, isEnforced, bestIndex, lastNotify>>
      BY Zenon, <1>6 DEF ChainActivated, chain, flags, locks
    <2>2. CASE AfterEnforce
      BY Zenon, <1>3, <2>1, <2>2, FinalKept DEF Announced
    <2>3. CASE blk[Scheduler] \in Anc[tip] /\ blk' = blk
      <3>1. SUFFICES ASSUME Announced' PROVE Settled(bestIndex)'
        BY Zenon DEF Final
      <3>2. CASE lastNotify = bestIndex
        <4>1. Announced
          BY Zenon, <2>1, <3>1, <3>2 DEF Announced
        <4> QED
          BY Zenon, <2>1, <3>1, <4>1, FinalKept DEF Final
      <3>3. CASE blk[Scheduler] = bestIndex
        BY Zenon, <2>1, <2>3, <3>3 DEF Settled, MainFree
      <3> QED
        BY Zenon, <2>1, <2>3, <3>1, <3>2, <3>3 DEF Announced
    <2> QED
      BY Zenon, <1>6, <2>2, <2>3 DEF ChainActivated
  <1>7. CASE NotifyChainLock
    <2>1. /\ UNCHANGED <<tip, reorgFrom, have, conflict, failed, isEnforced, bestIndex>>
          /\ pc[Scheduler] = "notify" /\ lastNotify' = blk[Scheduler] /\ AfterEnforce
      BY Zenon, <1>7 DEF NotifyChainLock, chain, flags
    <2> QED
      BY Zenon, <1>3, <2>1, FinalKept DEF Announced
  <1> QED
    BY ZenonT(40), <1>1, <1>4, <1>5, <1>6, <1>7 DEF SchedulerStep, CheckTip, SignTip

LEMMA FinalStep ==
    ASSUME NEW a, Regular(a), Inv(a), Final, [Next]_vars
    PROVE  Final'
  <1>1. CASE \E t \in Thread : HandlerStep(t)
    BY Zenon, <1>1, FinalHandler
  <1>2. CASE ReceiveLock
    <2>1. PICK l \in Lock : ProcessMessage(l)
      BY Zenon, <1>2, StartAssumption, TreeAssumption DEF ReceiveLock, HandleNewRecoveredSig, Inv, Order
    <2>2. UNCHANGED <<tip, reorgFrom, have, conflict, failed, isEnforced, bestIndex, lastNotify>>
      BY Zenon, <2>1 DEF ProcessMessage, chain, flags, locks
    <2>3. pc' = [pc EXCEPT ![Net] = "check"] /\ blk' = [blk EXCEPT ![Net] = l]
      BY Zenon, <2>1 DEF ProcessMessage, Goto
    <2>4. pc'[Scheduler] = pc[Scheduler] /\ blk'[Scheduler] = blk[Scheduler]
      BY Zenon, <2>3, Threads DEF Inv, Points
    <2> QED
      BY Zenon, <2>2, <2>4, FinalKept DEF Announced
  <1>3. CASE Validate
    <2>1. PICK b \in Wanted : ActivateBestChain(b)
      BY Zenon, <1>3 DEF Validate
    <2>2. UNCHANGED <<isEnforced, bestIndex, lastNotify, pc, blk>>
      BY Zenon, <2>1 DEF ActivateBestChain, flags, locks
    <2>3. SUFFICES ASSUME Announced' PROVE Settled(bestIndex)'
      BY Zenon DEF Final
    <2>4. Announced
      BY Zenon, <2>2, <2>3 DEF Announced
    <2>5. Settled(bestIndex) /\ isEnforced = TRUE
      BY Zenon, <2>4 DEF Final, Announced
    <2>6. bestIndex \in Block
      BY Zenon, <2>4 DEF Announced, Inv, Points, ChainInv
    <2> QED
      BY Zenon, <2>1, <2>5, <2>6, ActivationSettles DEF Inv
  <1>4. CASE ReceiveBlock
    <2>1. PICK b \in Block \ {Genesis} : AcceptBlockHeader(b) \/ AcceptBlock(b)
      BY Zenon, <1>4 DEF ReceiveBlock
    <2>2. /\ MainFree /\ UNCHANGED <<tip, reorgFrom, isEnforced, best, lastNotify, pc, blk>>
          /\ bestIndex' = bestIndex \/ (bestIndex' = b /\ b = best /\ b \notin index)
      BY Zenon, <2>1 DEF AcceptBlockHeader, AcceptBlock, flags, locks
    <2>3. CASE bestIndex' = bestIndex
      BY Zenon, <2>2, <2>3, FinalKept DEF Announced, MainFree
    <2>4. CASE bestIndex' = b /\ b = best /\ b \notin index
      <3>1. ~Announced'
        BY Zenon, <2>2, <2>4, NewLock DEF Announced
      <3> QED
        BY Zenon, <2>2, <3>1, FinalKept DEF MainFree
    <2> QED
      BY Zenon, <2>2, <2>3, <2>4
  <1>5. CASE SchedulerStep \/ RunTask
    BY Zenon, <1>5, FinalScheduler
  <1>6. CASE SporkUpdated
    BY Zenon, <1>6, FinalKept DEF SporkUpdated, Announced, chain, flags, locks
  <1>7. CASE UNCHANGED vars
    BY ZenonT(40), <1>7, FinalKept DEF vars, Announced
  <1> QED
    BY Zenon, <1>1, <1>2, <1>3, <1>4, <1>5, <1>6, <1>7 DEF Next

\* On a regular node a ChainLock that was announced stays on the active chain
\* while it is the best one and enforced, for every tree of blocks, every set
\* of ChainLocks (on one branch or on several) and every interleaving of
\* CLSIGs, headers, blocks, failing connects and the scheduler thread; when
\* DIP8 was active before the first fork and the spork is switched off at most
\* once.
THEOREM LockIsFinal ==
    ASSUME NEW a \in Block, Regular(a)
    PROVE  Spec => []AnnouncedLockIsFinal
  <1>1. Init => Inv(a) /\ Final
    BY Zenon, OrderInit DEF Init, Final, Announced
  <1>2. Inv(a) /\ Final /\ [Next]_vars => (Inv(a) /\ Final)'
    BY Zenon, OrderStep, FinalStep
  <1>3. Inv(a) /\ Final => AnnouncedLockIsFinal
    <2>1. Inv(a) /\ isEnforced => isEnforced = TRUE
      BY Zenon DEF Inv, Enforcing
    <2>2. Announced /\ Final /\ MainFree => bestIndex \in Anc[tip]
      BY Zenon DEF Final, Settled, MainFree
    <2> QED
      BY Zenon, <2>1, <2>2 DEF AnnouncedLockIsFinal, Announced
  <1> QED
    BY <1>1, <1>2, <1>3, PTL DEF Spec

----------------------------------------------------------------------------
(* Signing.  Only EnforceBlock, on the scheduler thread itself, flags blocks *)
(* that the node already has; a new header is flagged when it comes in, and *)
(* nothing in the index builds on it yet.                                   *)

\* The tip that is about to be signed: its chain is in the index, unflagged.
SignInv ==
    pc[Scheduler] \in Signer =>
        Anc[blk[Scheduler]] \subseteq index /\ Anc[blk[Scheduler]] \cap conflict = {}

\* A step that flags no block of the index, and leaves the scheduler where it is
\* or does not bring it to signing.
LEMMA SignKept ==
    ASSUME SignInv, index \subseteq index', conflict' \cap index \subseteq conflict,
           \/ pc'[Scheduler] \notin Signer
           \/ pc[Scheduler] \in Signer /\ blk'[Scheduler] = blk[Scheduler]
    PROVE  SignInv'
  BY Zenon DEF SignInv

LEMMA SignHandler ==
    ASSUME Points, SignInv, NEW t \in Thread, HandlerStep(t)
    PROVE  SignInv'
  <1>1. Points /\ Scheduler \in Thread /\ t \in Thread
    BY Zenon, Threads
  <1>2. UNCHANGED <<index, conflict>>
    BY Zenon DEF HandlerStep, ReadActiveState, WriteActiveState, ResetChainLocks, CheckSeen,
           LookupBlockIndex, SetBestChainLock, chain
  <1>3. PICK p \in HandlerPoints \cup {"enforce"} : pc' = [pc EXCEPT ![t] = p]
    BY Zenon DEF HandlerStep, ReadActiveState, WriteActiveState, ResetChainLocks, CheckSeen,
           LookupBlockIndex, SetBestChainLock, Goto, Ends, Continue, HandlerPoints
  <1>4. blk' = blk \/ blk' = [blk EXCEPT ![t] = NoBlock]
    BY Zenon DEF HandlerStep, ReadActiveState, WriteActiveState, ResetChainLocks, CheckSeen,
           LookupBlockIndex, SetBestChainLock, Ends
  <1>5. p \notin Signer
    BY Zenon, <1>3 DEF HandlerPoints, Signer
  <1>6. t # Scheduler => pc'[Scheduler] = pc[Scheduler] /\ blk'[Scheduler] = blk[Scheduler]
    BY Zenon, <1>1, <1>3, <1>4 DEF Points
  <1>7. t = Scheduler => pc'[Scheduler] \notin Signer
    BY Zenon, <1>1, <1>3, <1>5 DEF Points
  <1> QED
    BY Zenon, <1>2, <1>6, <1>7, SignKept

LEMMA SignScheduler ==
    ASSUME Points, ChainInv, SignInv, SchedulerStep \/ RunTask
    PROVE  SignInv'
  <1>1. Points /\ Scheduler \in Thread
    BY Zenon, Threads
  <1>2. CASE \E E \in {{}, seen} : TrySignChainTip(E)
    <2>1. UNCHANGED <<index, conflict>>
      BY Zenon, <1>2 DEF TrySignChainTip, chain
    <2>2. CASE Ends(Scheduler)
      <3>1. pc'[Scheduler] = "idle"
        BY Zenon, <1>1, <2>2 DEF Ends, Goto, Points
      <3> QED
        BY Zenon, <2>1, <3>1, SignKept DEF Signer
    <2>3. CASE blk' = [blk EXCEPT ![Scheduler] = tip]
      <3>1. blk'[Scheduler] = tip
        BY Zenon, <1>1, <2>3 DEF Points
      <3>2. Anc[tip] \subseteq index /\ Anc[tip] \cap conflict = {}
        BY Zenon DEF ChainInv
      <3> QED
        BY Zenon, <2>1, <3>1, <3>2 DEF SignInv
    <2> QED
      BY Zenon, <1>2, <2>2, <2>3 DEF TrySignChainTip
  <1>3. CASE CheckTip \/ SignTip
    <2>1. UNCHANGED <<index, conflict>> /\ pc[Scheduler] \in Signer
      BY Zenon, <1>3 DEF CheckTip, SignTip, chain, Signer
    <2>2. pc'[Scheduler] = "idle" \/ blk' = blk
      BY Zenon, <1>1, <1>3 DEF CheckTip, SignTip, Ends, Goto, Points
    <2> QED
      BY Zenon, <2>1, <2>2, SignKept DEF Signer
  <1>4. CASE EnforceBestChainLock \/ EnforceBlock \/ ChainActivated \/ NotifyChainLock \/ RunTask
    <2>1. PICK p \in {"idle", "check", "mark", "activate", "notify", "sign"} :
              pc' = [pc EXCEPT ![Scheduler] = p]
      BY Zenon, <1>4 DEF EnforceBestChainLock, EnforceBlock, ChainActivated, NotifyChainLock,
                  RunTask, Goto, AfterEnforce
    <2>2. pc'[Scheduler] \notin Signer
      BY Zenon, <1>1, <2>1 DEF Points, Signer
    <2> QED
      BY Zenon, <2>2 DEF SignInv
  <1> QED
    BY Zenon, <1>2, <1>3, <1>4 DEF SchedulerStep

LEMMA SignStep ==
    ASSUME Points, ChainInv, SignInv, [Next]_vars
    PROVE  SignInv'
  <1>1. Points /\ Scheduler \in Thread /\ Net # Scheduler /\ Recoverer # Scheduler
    BY Zenon, Threads
  <1>2. CASE \E t \in Thread : HandlerStep(t)
    BY Zenon, <1>2, SignHandler
  <1>3. CASE ReceiveLock
    <2>1. PICK t \in {Net, Recoverer} : \E l : pc' = [pc EXCEPT ![t] = "check"]
                                             /\ blk' = [blk EXCEPT ![t] = l]
      BY Zenon, <1>3 DEF ReceiveLock, ProcessMessage, HandleNewRecoveredSig, Goto
    <2>2. pc'[Scheduler] = pc[Scheduler] /\ blk'[Scheduler] = blk[Scheduler]
      BY Zenon, <1>1, <2>1 DEF Points
    <2>3. UNCHANGED <<index, conflict>>
      BY Zenon, <1>3 DEF ReceiveLock, ProcessMessage, HandleNewRecoveredSig, chain
    <2> QED
      BY Zenon, <2>2, <2>3, SignKept
  <1>4. CASE ReceiveBlock
    <2>1. /\ pc' = pc /\ blk' = blk /\ index \subseteq index'
          /\ conflict' \cap index \subseteq conflict
      BY Zenon, <1>4 DEF ReceiveBlock, AcceptBlockHeader, AcceptBlock
    <2> QED
      BY Zenon, <2>1, SignKept
  <1>5. CASE Validate \/ SporkUpdated \/ UNCHANGED vars
    <2>1. UNCHANGED <<index, conflict, pc, blk>>
      BY Zenon, <1>5 DEF Validate, ActivateBestChain, SporkUpdated, chain, vars
    <2> QED
      BY Zenon, <2>1, SignKept
  <1>6. CASE SchedulerStep \/ RunTask
    BY Zenon, <1>6, SignScheduler
  <1> QED
    BY Zenon, <1>2, <1>3, <1>4, <1>5, <1>6 DEF Next

\* What a masternode signs is not flagged, nor is anything below it: the tip
\* TrySignChainTip has read in another critical section is signed after any
\* CLSIGs, headers, blocks, reorganisations and spork changes, for every tree
\* of blocks, every set of CLSIGs and wherever blocks come from.
THEOREM SignsUnflagged == Spec => SignsNoFlaggedBlock
  <1> DEFINE Signed == \A b \in signed' \ signed : Anc[b] \cap conflict = {}
  <1>1. Init => Points /\ ChainInv /\ SignInv
    <2>1. Init => pc[Scheduler] \notin Signer
      BY Zenon, Threads DEF Init, Signer
    <2> QED
      BY Zenon, <2>1, ChainInit DEF SignInv
  <1>2. Points /\ ChainInv /\ SignInv /\ [Next]_vars => (Points /\ ChainInv /\ SignInv)'
    BY Zenon, ChainStep, SignStep
  <1>3. Points /\ ChainInv /\ SignInv /\ [Next]_vars => [Signed]_vars
    <2> SUFFICES ASSUME SignInv, Next, NEW b \in signed' \ signed
                 PROVE  Anc[b] \cap conflict = {}
      BY Zenon
    <2>1. SignTip
      BY Zenon DEF Next, HandlerStep, ReadActiveState, WriteActiveState, ResetChainLocks,
             CheckSeen, LookupBlockIndex, SetBestChainLock, ReceiveLock, ProcessMessage,
             HandleNewRecoveredSig, Validate, ActivateBestChain, ReceiveBlock, AcceptBlockHeader,
             AcceptBlock, SchedulerStep, EnforceBestChainLock, EnforceBlock, ChainActivated,
             NotifyChainLock, TrySignChainTip, CheckTip, RunTask, SporkUpdated
    <2>2. pc[Scheduler] = "dosign" /\ (signed' = signed \/ signed' = signed \cup {blk[Scheduler]})
      BY Zenon, <2>1 DEF SignTip
    <2>3. b = blk[Scheduler]
      BY Zenon, <2>2
    <2> QED
      BY Zenon, <2>2, <2>3 DEF SignInv, Signer
  <1> QED
    BY <1>1, <1>2, <1>3, PTL DEF Spec, SignsNoFlaggedBlock

=============================================================================
