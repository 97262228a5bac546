--------------------------- MODULE MCCommissions ---------------------------
(* Instances of Commissions for TLC. *)
EXTENDS Commissions, TLC

CONSTANTS alice, bob, carol, bank, card

\* Bob was invited by Alice and Alice by Carol.
Invited == {bob :> alice @@ alice :> carol @@ carol :> None}

\* The administrator grants Alice a cent, and may make Bob her inviter: a cycle.
AliceSaves == [commission : {1}, inviter : {carol, bob}]

\* Every order counts, shared by three levels of inviters; or first orders only, to one
\* level and paid into the wallet, confirmed by hand.
TwoPolicies ==
  {[auto |-> TRUE, closed |-> FALSE, firstTime |-> FALSE, levels |-> <<50, 50, 0>>, limit |-> 1],
   [auto |-> FALSE, closed |-> TRUE, firstTime |-> TRUE, levels |-> <<100>>, limit |-> 0]}

TheMethods == bank :> "transfer" @@ card :> "card"

=============================================================================
