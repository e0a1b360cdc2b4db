----------------------------- MODULE MCSigning -----------------------------
(***************************************************************************)
(* Two quorums that follow each other at height 2: one of our three        *)
(* masternodes and then one of strangers, or two of disjoint pairs.        *)
(***************************************************************************)
EXTENDS Signing, TLC

CONSTANTS m1, m2, m3, m4, q1, q2

OneOfOurs == [q \in Quorum |-> IF q = q1 THEN {m1, m2, m3} ELSE {}]
DisjointMembers == [q \in Quorum |-> IF q = q1 THEN {m1, m2} ELSE {m3, m4}]
Two == [q \in Quorum |-> 2]
TwoAndOne == [q \in Quorum |-> IF q = q1 THEN 2 ELSE 1]
Successive == [h \in Height |-> [id \in Id |-> IF h < 2 THEN q1 ELSE q2]]
Symmetry == Permutations(Masternode) \cup Permutations(Msg)
=============================================================================
