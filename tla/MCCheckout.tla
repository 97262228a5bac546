----------------------------- MODULE MCCheckout -----------------------------
(* Instances of Checkout for TLC: one order and two methods, the fee of one of *)
(* them changing; or two buyers' orders that share the sweep's batch of one.   *)
EXTENDS Checkout, TLC

CONSTANTS u1, u2
VARIABLE part

OnePrice == "basic" :> [monthly |-> 1]
FeesOrOff == {0, 1, Off}
NoSubs == {}

MCInit ==
    /\ Init /\ part \in {"pages", "queue"}
    /\ fee["m2"] = 0 /\ (part = "queue" => fee["m1"] = Off)
MCNext ==
    /\ Next /\ UNCHANGED part
    /\ fee'["m2"] = fee["m2"]
    /\ part = "pages" => orders'[2] = orders[2] /\ credited' = credited
    /\ part = "queue" =>
          /\ fee' = fee /\ balance'[u2] = 0
          /\ \A m \in Methods : attempts'[<<2, m>>] = attempts[<<2, m>>]
MCSpec == MCInit /\ [][MCNext]_<<vars, part>> /\ Fairness
=============================================================================
