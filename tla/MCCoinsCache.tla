---------------------------- MODULE MCCoinsCache ----------------------------
(* Two coins of different size, so that mixing them up shows. *)
EXTENDS CoinsCache

CONSTANTS c1, c2

MCUsage == [c \in {c1, c2, Spent} |-> IF c = Spent THEN 0 ELSE IF c = c1 THEN 1 ELSE 2]

=============================================================================
