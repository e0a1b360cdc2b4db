------------------------------- MODULE Totals -------------------------------
(***************************************************************************)
(* Sums of sizes: the elements x of S, each with f[x] bytes of its own,    *)
(* have Total(f, S) bytes.  Counting them, instead of folding over S,      *)
(* leaves it to the theorems on cardinality how a total changes.           *)
(***************************************************************************)
EXTENDS Integers, FiniteSets

Bytes(f, S) == UNION {{x} \X (1 .. f[x]) : x \in S}

Total(f, S) == Cardinality(Bytes(f, S))

=============================================================================
