------------------------------ MODULE MCEvoDB ------------------------------
(* A small instance of EvoDB: two transactional keys, one raw key and two  *)
(* values of different size.                                               *)
EXTENDS EvoDB

CONSTANTS k1, k2, r1, v1, v2

MCKeySize == [k \in Key |-> IF k = k1 THEN 1 ELSE 3]
MCValSize == [v \in Val |-> IF v = v1 THEN 2 ELSE 7]

=============================================================================
