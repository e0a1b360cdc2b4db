--------------------------- MODULE MCInstantSend ---------------------------
(***************************************************************************)
(* Two transactions that spend the same coin, t1 with a lock and t2        *)
(* without one, and blocks that mine one or the other.                     *)
(***************************************************************************)
EXTENDS InstantSend

MCTx       == {"t1", "t2"}
MCOutpoint == {"coin"}
MCInputs   == [t \in MCTx |-> {"coin"}]
MCCreator  == [o \in MCOutpoint |-> "none"]
MCLock     == {"n1"}
MCTxOf     == [l \in MCLock |-> "t1"]

MCBlock   == {"g", "a1", "b1"}
MCParent  == [b \in MCBlock |-> "g"]
MCHeight  == [b \in MCBlock |-> IF b = "g" THEN 0 ELSE 1]
MCContent == [b \in MCBlock |-> CASE b = "a1" -> <<"t1">> [] b = "b1" -> <<"t2">> [] OTHER -> <<>>]

=============================================================================
