------------------------------ MODULE MCLedgers ------------------------------
(* Instances for TLC of the components that keep counts: a behaviour is       *)
(* about one of them, the others rest.                                        *)
EXTENDS Vouchers, Traffic, DeviceState, Distributors

VARIABLE part

Form(type, money) ==
    [type |-> type, on |-> TRUE, perUser |-> IF type = "purchase" THEN 0 ELSE 1,
     share |-> IF type = "purchase" THEN 0 ELSE 1, festival |-> 2,
     rewards |-> {[money |-> m, traffic |-> 0] : m \in money}, validity |-> IF type = "plan" THEN 1 ELSE 0, who |-> "any", cooldown |-> 0]
MCForms == {Form("mystery", {1, 3}), Form("plan", {0}), [Form("plan", {0}) EXCEPT !.validity = 0], Form("purchase", {0}),
            [Form("general", {2}) EXCEPT !.perUser = 2, !.festival = 3, !.who = "invited", !.cooldown = 1]}
MCInviterOf == [u \in Redeemers |-> IF u = "bob" THEN "ann" ELSE Nothing]
MCCodeLives == {-1, 1}

Counted(n) == [u \in Riders |-> n]
MCReports == {[id |-> "r1", traffic |-> Counted(1)], [id |-> "r1", traffic |-> Counted(3)],
              [id |-> "r2", traffic |-> Counted(1)]}
MCMonthDays == <<3, 1, 2>>
MCPrices == [onetime |-> 5, monthly |-> 1]
MCOffers == {[show |-> TRUE, sell |-> TRUE, renew |-> TRUE, audience |-> Dealers],
             [show |-> FALSE, sell |-> TRUE, renew |-> TRUE, audience |-> {}],
             [show |-> TRUE, sell |-> TRUE, renew |-> FALSE, audience |-> Dealers]}


AtRest ==
    /\ part # "renewals" => offer.show /\ offer.renew
    /\ part \notin {"count", "calendar"} => TrafficInit(0, LastDay)
    /\ part \notin {"gifts", "coupons"} => plan.months = 1 /\ \A u \in Redeemers : wallets[u].months = 0

Init ==
    /\ DevicesInit /\ DistributorsInit
    /\ \/ part \in {"gifts", "coupons", "devices", "sales", "renewals", "handover"}
       \/ part = "count" /\ TrafficInit(0, LastDay)
       \/ part = "calendar" /\ \E how \in {0, 1, 3, 4}, d \in 1..LastDay : TrafficInit(how, d)
    /\ VouchersInit /\ AtRest

BobsOrder ==
    /\ Len(sales') <= 1 /\ (\A i \in DOMAIN sales' : sales'[i].user = "bob" /\ sales'[i].status # "cancelled")
    /\ ~wallets'["ann"].banned

Next ==
    /\ \/ /\ (part = "gifts" /\ GiftsNext /\ BobsOrder) \/ (part = "coupons" /\ CouponsNext)
          /\ UNCHANGED <<trafficVars, deviceVars, distributorVars>>
       \/ /\ (part = "count" /\ CountingNext /\ day' <= 4) \/ (part = "calendar" /\ CalendarNext)
          /\ UNCHANGED <<voucherVars, deviceVars, distributorVars>>
       \/ /\ part = "devices" /\ DevicesNext
             /\ tick' + failures' + (IF generation'["n2"] > 0 THEN 1 ELSE 0) <= LastTick
          /\ UNCHANGED <<voucherVars, trafficVars, distributorVars>>
       \/ /\ \/ part = "sales" /\ ((day >= 2 /\ (Selling \/ Settling \/ UpdateDealer(Clerk, "banned")) /\ UNCHANGED trafficVars)
                                      \/ Tomorrow)
             \/ part = "renewals" /\ (((Selling \/ Managing) /\ UNCHANGED trafficVars) \/ Tomorrow)
                    /\ Len(deals') <= 1 /\ dealers'[Clerk] = "open"
             \/ part = "handover" /\ (Selling \/ Handing) /\ Len(bills') <= 2 /\ Len(deals') <= 1 /\ UNCHANGED trafficVars
          /\ bills' # <<>> => bills'[1].dealer = "d1"
          /\ UNCHANGED <<voucherVars, deviceVars>>
    /\ UNCHANGED part

Spec == Init /\ [][Next]_<<voucherVars, trafficVars, deviceVars, distributorVars, part>>
=============================================================================
