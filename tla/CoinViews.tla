----------------------------- MODULE CoinViews -----------------------------
(***************************************************************************)
(* What a stack of coin views promises: the database (level 0), the tip    *)
(* (level 1) and the scratch view in which one block is connected or       *)
(* disconnected (level 2) each hold a whole set of coins.  A change is     *)
(* made at the top, and reaches a lower level only as a whole.  The        *)
(* caches that implement this are in CoinsCache.tla.                       *)
(***************************************************************************)
EXTENDS Naturals

CONSTANTS Outpoint, Coin, Spent, Block

VARIABLES
    coins,      \* coins[l][o]: the coin of level l at o, or Spent
    best,       \* best[l]: the block whose state level l represents
    open        \* "yes" while a scratch view exists

vars == <<coins, best, open>>

Top == IF open = "yes" THEN 2 ELSE 1

\* Without a scratch view level 2 is what a new one would start from.
Init ==
    /\ \E c \in [Outpoint -> Coin \cup {Spent}] : coins = [l \in 0..2 |-> c]
    /\ \E b \in Block : best = [l \in 0..2 |-> b]
    /\ open = "no"

Put(o, c) ==
    /\ coins' = [l \in 0..2 |-> IF l < Top THEN coins[l] ELSE [coins[l] EXCEPT ![o] = c]]
    /\ UNCHANGED <<best, open>>

Name(b) ==
    /\ best' = [l \in 0..2 |-> IF l < Top THEN best[l] ELSE b]
    /\ UNCHANGED <<coins, open>>

Open ==
    /\ open = "no"
    /\ open' = "yes"
    /\ UNCHANGED <<coins, best>>

Discard ==
    /\ open = "yes"
    /\ open' = "no"
    /\ coins' = [coins EXCEPT ![2] = coins[1]]
    /\ best' = [best EXCEPT ![2] = best[1]]

Flush ==
    /\ coins' = [coins EXCEPT ![Top - 1] = coins[Top]]
    /\ best' = [best EXCEPT ![Top - 1] = best[Top]]
    /\ UNCHANGED open

Next ==
    \/ \E o \in Outpoint, c \in Coin \cup {Spent} : Put(o, c)
    \/ \E b \in Block : Name(b)
    \/ Open
    \/ Discard
    \/ Flush

Spec == Init /\ [][Next]_vars

=============================================================================
