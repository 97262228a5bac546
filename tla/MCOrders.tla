------------------------------ MODULE MCOrders ------------------------------
(* Instances of Orders for TLC. *)
EXTENDS Orders, TLC

UpgradePrice == "basic" :> [monthly |-> 2, reset_traffic |-> 1] @@ "pro" :> [onetime |-> 3]
NoSubs == {}
EndedSub == {[plan |-> "basic", expires |-> 0]}
Symmetry == Permutations(Users)

=============================================================================
