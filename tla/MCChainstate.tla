---------------------------- MODULE MCChainstate ----------------------------
(***************************************************************************)
(* A block tree for Chainstate: the chain b0 .. b4 and a branch f3, f4     *)
(* that leaves it at height 2.  b2 spends what b1 created; b3 registers a  *)
(* masternode with collateral c2 and b4 spends that collateral; b4 and f4  *)
(* spend what their parents created; b3 and f3 conflict over c2.           *)
(***************************************************************************)
EXTENDS Chainstate

MCBlock == {"b0", "b1", "b2", "b3", "b4", "f3", "f4"}
MCParent == [b \in MCBlock \ {"b0"} |->
               CASE b = "b1" -> "b0" [] b = "b2" -> "b1" [] b \in {"b3", "f3"} -> "b2"
                 [] b = "b4" -> "b3" [] b = "f4" -> "f3"]
MCHeight == [b \in MCBlock |->
               CASE b = "b0" -> 0 [] b = "b1" -> 1 [] b = "b2" -> 2
                 [] b \in {"b3", "f3"} -> 3 [] b \in {"b4", "f4"} -> 4]
Common == {"b0", "b1", "b2"}
MCAnc == [b \in MCBlock |->
               CASE b = "b0" -> {"b0"} [] b = "b1" -> {"b0", "b1"} [] b = "b2" -> Common
                 [] b = "b3" -> Common \cup {"b3"} [] b = "b4" -> Common \cup {"b3", "b4"}
                 [] b = "f3" -> Common \cup {"f3"} [] b = "f4" -> Common \cup {"f3", "f4"}]

MCCoin == {"c1", "c2", "c3", "c4"}
MCSpends == [b \in MCBlock |->
               CASE b = "b2" -> {"c1"} [] b = "b4" -> {"c2", "c3"} [] b = "f3" -> {"c2"}
                 [] b = "f4" -> {"c4"} [] OTHER -> {}]
MCCreates == [b \in MCBlock |->
               CASE b = "b1" -> {"c1"} [] b = "b2" -> {"c2"} [] b = "b3" -> {"c3"}
                 [] b = "f3" -> {"c4"} [] OTHER -> {}]
MCUtxo == [b \in MCBlock |->
               CASE b = "b1" -> {"c1"} [] b = "b2" -> {"c2"} [] b = "b3" -> {"c2", "c3"}
                 [] b = "f3" -> {"c4"} [] OTHER -> {}]

MCNeeds == [b \in MCBlock |-> IF b = "b3" THEN {"c2"} ELSE {}]
NoNeeds == [b \in MCBlock |-> {}]

\* The process may die anywhere, or only while coins are being flushed.
AnyPoint == Points \ {"down"}
FlushingCoins == {"coins", "rcoins"}

\* Without a branch there is no reorganisation: every block stays.
Linear == {"b0", "b1", "b2", "b3", "b4"}
On(f) == [b \in Linear |-> f[b]]
LinearParent == [b \in Linear \ {"b0"} |-> MCParent[b]]
LinearHeight == On(MCHeight)
LinearAnc == On(MCAnc)
LinearSpends == On(MCSpends)
LinearCreates == On(MCCreates)
LinearUtxo == On(MCUtxo)
LinearNeeds == On(MCNeeds)
LinearNoNeeds == On(NoNeeds)
\* The chain cut at height 3.
Short == {"b0", "b1", "b2", "b3"}
ShortCoin == {"c1", "c2", "c3"}
OnShort(f) == [b \in Short |-> f[b]]
ShortParent == [b \in Short \ {"b0"} |-> MCParent[b]]
ShortHeight == OnShort(MCHeight)
ShortAnc == OnShort(MCAnc)
ShortSpends == OnShort(MCSpends)
ShortCreates == OnShort(MCCreates)
ShortUtxo == OnShort(MCUtxo)
ShortNeeds == OnShort(MCNeeds)

=============================================================================
