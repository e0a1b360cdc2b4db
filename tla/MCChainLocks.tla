---------------------------- MODULE MCChainLocks ----------------------------
(***************************************************************************)
(* A block tree for ChainLocks: after c0 and c1 the branches a2, a3 and    *)
(* b2, b3 compete, and d3 with a3.                                         *)
(***************************************************************************)
EXTENDS ChainLocks

MCBlock == {"c0", "c1", "a2", "a3", "d3", "b2", "b3"}

MCParent == [b \in MCBlock \ {"c0"} |->
    CASE b = "c1" -> "c0"
      [] b \in {"a2", "b2"} -> "c1"
      [] b \in {"a3", "d3"} -> "a2"
      [] b = "b3" -> "b2"]

MCHeight == [b \in MCBlock |->
    CASE b = "c0" -> 0
      [] b = "c1" -> 1
      [] b \in {"a2", "b2"} -> 2
      [] OTHER -> 3]

MCAnc == [b \in MCBlock |->
    CASE b = "c0" -> {"c0"}
      [] b = "c1" -> {"c0", "c1"}
      [] b \in {"a2", "b2"} -> {"c0", "c1", b}
      [] b \in {"a3", "d3"} -> {"c0", "c1", "a2", b}
      [] b = "b3" -> {"c0", "c1", "b2", "b3"}]

\* The same tree without d3.
SmallBlock == MCBlock \ {"d3"}
SmallParent == [b \in SmallBlock \ {"c0"} |-> MCParent[b]]
SmallHeight == [b \in SmallBlock |-> MCHeight[b]]
SmallAnc == [b \in SmallBlock |-> MCAnc[b]]

MCKnown == {"c0", "c1"}
OneLock == {"a2"}
OneBranch == {"a2", "a3"}
TwoBranches == {"a2", "b3"}
=============================================================================
