----------------------------- MODULE Distributors -----------------------------
(***************************************************************************)
(* Distributors sell subscriptions of their own: the sale makes a customer *)
(* account and an order that is completed at once and paid for later, when *)
(* an administrator settles a distributor's orders of a month.  A renewal  *)
(* carries an idempotency key.  The customer opens the link, registers a   *)
(* device and is given the configuration, in three transactions.           *)
(*                                                                         *)
(* Days and months are those of module Traffic.  The customers' texts,     *)
(* speed and traffic limits and next reset are left out; no account of a   *)
(* customer is banned, since the panel bans only people.                   *)
(***************************************************************************)
EXTENDS Traffic

CONSTANTS
    Dealers,        \* distributors
    Clerk,          \* an administrator
    Prices,         \* of the plan, by period
    Offers,         \* what the plan's form may say: show, sell, renew, audience
    Capacity,       \* the plan's capacity_limit
    PlanDevices,    \* the plan's distributor_hwid_limit
    Handsets,       \* hardware ids
    Callers,        \* subscription requests in progress
    RenewKeys,      \* idempotency keys of renewals
    MaxBills,       \* bound: orders
    MaxAmends,      \* bound: edits by an administrator
    LastSale        \* bound: the last day

NoKey == "none"
orderPeriodMonths == [monthly |-> 1, quarterly |-> 3, half_yearly |-> 6, yearly |-> 12, two_yearly |-> 24, three_yearly |-> 36]

ASSUME DistributorConstants ==
    /\ {Capacity, PlanDevices, MaxBills} \subseteq Nat \ {0} /\ {MaxAmends, LastSale} \subseteq Nat
    /\ \A p \in DOMAIN Prices : Prices[p] \in Nat \ {0}
    /\ DOMAIN Prices \subseteq {"onetime"} \cup DOMAIN orderPeriodMonths /\ NoKey \notin RenewKeys
    /\ Clerk \notin Dealers
    /\ \A o \in Offers : o.audience \subseteq Dealers

VARIABLES
    dealers,        \* users: whether a distributor may sell, and the administrator settle
    offer,          \* the plan
    bills,          \* orders with a distributor_order_id
    deals,          \* distributor_subscriptions, each with its customer's account
    settlements,    \* what each settlement answered
    visits,         \* subscription requests between their transactions
    amends,
    answers         \* renewals that were answered (ghost)

distributorVars == <<dealers, offer, bills, deals, settlements, visits, amends, answers>>

Away == [at |-> "away"]
AnyMonth == -1
Deals == DOMAIN deals
BillsOf(s) == {b \in DOMAIN bills : bills[b].deal = s}
LastBill(s) == Max(BillsOf(s))
Revenue(bs) == SumFunctionOnSet([b \in DOMAIN bills |-> Prices[bills[b].period]], bs)
ByAdministrator == amends < MaxAmends /\ amends' = amends + 1

-----------------------------------------------------------------------------
\* Sales and renewals.

requireAvailableDistributor(d) == dealers[d] = "open"

\* A sale runs its months over the end of a shorter month, a renewal stops there.
addOrderMonths(d, months) == Start(MonthOf(d) + months) + DayOf(d)
addDistributorMonthsNoOverflow(d, months) == calendarAnchor(MonthOf(d) + months, d)

Bill(d, s, p, key, before, after) ==
    [dealer |-> d, deal |-> s, period |-> p, key |-> key, before |-> before, after |-> after,
     made |-> day, paid |-> 0]
Live(e) == e = Never \/ e >= day

\* The customers of one plan fill its capacity while they have not expired.
CreateDistributorOrder(d, p) ==
    LET s == Len(deals) + 1
        expiry == IF p = "onetime" THEN Never ELSE addOrderMonths(day, orderPeriodMonths[p])
    IN
    /\ Len(bills) < MaxBills
    /\ requireAvailableDistributor(d) /\ d \in offer.audience /\ offer.show /\ offer.sell
    /\ Cardinality({t \in Deals : Live(deals[t].expiry)}) < Capacity
    /\ bills' = Append(bills, Bill(d, s, p, NoKey, Never, expiry))
    /\ deals' = Append(deals, [dealer |-> d, origin |-> Len(bills) + 1, expiry |-> expiry, used |-> FALSE,
                    delivery |-> "pending", settled |-> FALSE, issued |-> FALSE, connected |-> FALSE,
                    enabled |-> TRUE, limit |-> PlanDevices, devices |-> {},
                    opened |-> 0, most |-> PlanDevices, amended |-> FALSE])
    /\ UNCHANGED <<dealers, offer, settlements, visits, amends, answers>>

createDistributorOrder(d, p) == CreateDistributorOrder(d, p)
legacyCreateOrder(d, p) == CreateDistributorOrder(d, p)

\* An entitlement without an end cannot be renewed: its expiry does not read as a number.
Renewable(s) ==
    /\ deals[s].delivery # "closed" /\ deals[s].expiry # Never
    /\ offer.renew /\ (offer.show \/ deals[s].expiry > day)

Renew(d, s, p, key) ==
    LET before == deals[s].expiry
        expired == before <= day
        after == addDistributorMonthsNoOverflow(IF expired THEN day ELSE before, orderPeriodMonths[p])
    IN
    /\ Len(bills) < MaxBills /\ Renewable(s)
    /\ bills' = Append(bills, Bill(d, s, p, key, before, after))
    /\ deals' = [deals EXCEPT ![s] = [deals[s] EXCEPT !.expiry = after, !.used = ~expired /\ deals[s].used]]

\* The order a key already made is the answer, if it was for the same subscription and period.
RenewDistributorOrder(d, s, p, key) ==
    LET Made == {b \in DOMAIN bills : bills[b].dealer = d /\ bills[b].key = key} IN
    /\ requireAvailableDistributor(d) /\ deals[s].dealer = d /\ p # "onetime"
    /\ IF Made = {} THEN Renew(d, s, p, key)
       ELSE /\ \A b \in Made : bills[b].deal = s /\ bills[b].period = p
            /\ UNCHANGED <<bills, deals>>
    /\ answers' = answers \cup {[dealer |-> d, key |-> key, deal |-> s, period |-> p]}
    /\ UNCHANGED <<dealers, offer, settlements, visits, amends>>

renewDistributorOrder(d, s, p, key) == RenewDistributorOrder(d, s, p, key)
legacyRenewDistributorOrder(d, s, p, key) == RenewDistributorOrder(d, s, p, key)

-----------------------------------------------------------------------------
\* What the pages show, and the money.

distributorSettlementMonthRange(m, b) == m = AnyMonth \/ MonthOf(bills[b].made) = m
distributorOrderWhere(d, m, settled, b) ==
    /\ distributorSettlementMonthRange(m, b)
    /\ bills[b].dealer = d /\ deals[bills[b].deal].dealer = d
    /\ (bills[b].paid # 0) = settled

ListDistributorOrders(d, m, settled) == {b \in DOMAIN bills : distributorOrderWhere(d, m, settled, b)}
StreamDistributorOrderExport(d, m) ==
    ListDistributorOrders(d, m, TRUE) \cup ListDistributorOrders(d, m, FALSE)
PreviewDistributorSettlement(d, m) ==
    {b \in DOMAIN bills : bills[b].dealer = d /\ bills[b].paid = 0 /\ distributorSettlementMonthRange(m, b)}

\* Whether a page offers to renew: its own reading of the customer's account and the plan.
enrichDistributorOrder(b) ==
    LET s == bills[b].deal IN
    [origin |-> deals[s].origin = b, settled |-> bills[b].paid # 0,
     canRenew |-> /\ deals[s].origin = b /\ deals[s].expiry # Never /\ deals[s].delivery # "closed"
                  /\ offer.renew /\ (offer.show \/ deals[s].expiry > day)]
enrichDistributorOrders(bs) == [b \in bs |-> enrichDistributorOrder(b)]

requireDistributorRole(d) == dealers[d] # "revoked"

\* Mutant: the orders are paid before the subscriptions are looked for.
SettleOrdersFirst(d, m) ==
    LET due == PreviewDistributorSettlement(d, m) IN
    /\ requireDistributorRole(d) /\ due # {}
    /\ bills' = [b \in DOMAIN bills |-> IF b \in due THEN [bills[b] EXCEPT !.paid = Len(settlements) + 1] ELSE bills[b]]
    /\ deals' = [s \in Deals |-> [deals[s] EXCEPT
                    !.settled = @ \/ (deals[s].origin \in due /\ bills'[deals[s].origin].paid = 0)]]
    /\ settlements' = Append(settlements, [dealer |-> d, month |-> m, count |-> Cardinality(due), total |-> Revenue(due)])
    /\ UNCHANGED <<dealers, offer, visits, amends, answers>>

\* A subscription is settled with its first order; whatever was ordered since the preview is settled too.
SettleDistributorOrders(d, m) ==
    LET due == PreviewDistributorSettlement(d, m) IN
    /\ requireDistributorRole(d) /\ dealers[Clerk] = "open" /\ due # {}
    /\ deals' = [s \in Deals |-> [deals[s] EXCEPT !.settled = @ \/ deals[s].origin \in due]]
    /\ bills' = [b \in DOMAIN bills |-> IF b \in due THEN [bills[b] EXCEPT !.paid = Len(settlements) + 1] ELSE bills[b]]
    /\ settlements' = Append(settlements, [dealer |-> d, month |-> m, count |-> Cardinality(due), total |-> Revenue(due)])
    /\ UNCHANGED <<dealers, offer, visits, amends, answers>>

settleAdminDistributorOrders(d, m) == SettleDistributorOrders(d, m)
legacyAdminSettleDistributorOrders(d, m) == SettleDistributorOrders(d, m)

-----------------------------------------------------------------------------
\* Handing the subscription over.

Deliver(s, was, now) == deals[s].delivery = was /\ deals' = [deals EXCEPT ![s].delivery = now]
OnlyDeals == UNCHANGED <<dealers, offer, bills, settlements, answers>>

\* The link is good once.
ClaimDistributorSubscription(s) ==
    /\ deals[s].delivery = "pending"
    /\ deals' = [deals EXCEPT ![s] = [deals[s] EXCEPT !.delivery = "claimed", !.opened = deals[s].opened + 1]]
    /\ OnlyDeals /\ UNCHANGED <<visits, amends>>

claimDistributorSubscription(s) == ClaimDistributorSubscription(s)

requireDistributor(d) == dealers[d] = "open"

CloseDistributorDelivery(d, s) ==
    /\ requireDistributor(d) /\ deals[s].dealer = d
    /\ Deliver(s, "pending", "closed") /\ OnlyDeals /\ UNCHANGED <<visits, amends>>

legacyCloseDistributorDelivery(d, s) == CloseDistributorDelivery(d, s)

AvailableAt(s) == deals[s].expiry = Never \/ deals[s].expiry > day

\* A known device passes, a new one while there is room, any one where the check is off.
AuthorizeDistributorHWID(s, h) ==
    IF ~deals[s].enabled \/ h \in deals[s].devices THEN UNCHANGED deals
    ELSE /\ Cardinality(deals[s].devices) < deals[s].limit
         /\ deals' = [deals EXCEPT ![s].devices = @ \cup {h}]

admitSubscriptionDelivery(v, s, h) ==
    /\ visits[v] = Away /\ AuthorizeDistributorHWID(s, h)
    /\ visits' = [visits EXCEPT ![v] = [at |-> "admitted", deal |-> s]]
    /\ OnlyDeals /\ UNCHANGED amends

MarkDistributorSubscriptionClaimed(v) ==
    LET s == visits[v].deal IN
    /\ visits[v].at = "admitted"
    /\ Deliver(s, "pending", "claimed") \/ (deals[s].delivery # "pending" /\ UNCHANGED deals)
    /\ visits' = [visits EXCEPT ![v].at = "rendering"]
    /\ OnlyDeals /\ UNCHANGED amends

\* A closed subscription is served too, and leaves no trace.
MarkDistributorConfigIssued(v) ==
    LET s == visits[v].deal IN
    /\ visits[v].at = "rendering"
    /\ deals' = [deals EXCEPT ![s].issued = @ \/ deals[s].delivery = "claimed"]
    /\ visits' = [visits EXCEPT ![v] = Away]
    /\ OnlyDeals /\ UNCHANGED amends

markSubscriptionConfigIssued(v) == MarkDistributorConfigIssued(v)

\* The request: the device is let in, the delivery marked, the configuration rendered and marked.
serveClientSubscription(v, s, h) ==
    \/ AvailableAt(s) /\ admitSubscriptionDelivery(v, s, h)
    \/ MarkDistributorSubscriptionClaimed(v)
    \/ markSubscriptionConfigIssued(v)
legacyClientAppConfigV1(v, s, h) == serveClientSubscription(v, s, h)

\* A request fails at any of its steps.
serveFails(v) ==
    /\ visits[v] # Away /\ visits' = [visits EXCEPT ![v] = Away]
    /\ OnlyDeals /\ UNCHANGED <<deals, amends>>

\* A report of traffic by a node; the first one after the configuration was issued is the connection.
recordConnection(s) ==
    /\ deals' = [deals EXCEPT ![s] = [deals[s] EXCEPT !.used = TRUE, !.connected = deals[s].connected \/ deals[s].issued]]
    /\ OnlyDeals /\ UNCHANGED <<visits, amends>>

-----------------------------------------------------------------------------
\* Administrators.

UpdateDistributorEntitlement(s, expiry) ==
    /\ ByAdministrator
    /\ deals' = [deals EXCEPT ![s] = [deals[s] EXCEPT !.expiry = expiry, !.amended = TRUE]]
    /\ OnlyDeals /\ UNCHANGED visits

updateAdminDistributorEntitlement(s, expiry) == UpdateDistributorEntitlement(s, expiry)
legacyAdminUpdateDistributorEntitlement(s, expiry) == UpdateDistributorEntitlement(s, expiry)

\* A lower limit leaves the registered devices alone.
UpdateDistributorHWIDSettings(s, enabled, limit) ==
    /\ ByAdministrator
    /\ deals' = [deals EXCEPT ![s] = [deals[s] EXCEPT !.enabled = enabled, !.limit = limit, !.most = Max({deals[s].most, limit})]]
    /\ OnlyDeals /\ UNCHANGED visits

updateAdminDistributorHWID(s, enabled, limit) == UpdateDistributorHWIDSettings(s, enabled, limit)
legacyAdminUpdateDistributorHWID(s, enabled, limit) == UpdateDistributorHWIDSettings(s, enabled, limit)

ListDistributorHWIDDevices(s) == deals[s].devices
DeleteDistributorHWIDDevice(s, h) ==
    /\ h \in ListDistributorHWIDDevices(s)
    /\ deals' = [deals EXCEPT ![s].devices = @ \ {h}]
    /\ OnlyDeals /\ UNCHANGED <<visits, amends>>

deleteAdminDistributorHWIDDevice(s, h) == DeleteDistributorHWIDDevice(s, h)
legacyAdminDeleteDistributorHWIDDevice(s, h) == DeleteDistributorHWIDDevice(s, h)

UpdateDealer(d, standing) ==
    /\ ByAdministrator /\ dealers[d] # standing /\ dealers' = [dealers EXCEPT ![d] = standing]
    /\ UNCHANGED <<offer, bills, deals, settlements, visits, answers>>
UpdateOffer(o) ==
    /\ ByAdministrator /\ offer # o /\ offer' = o
    /\ UNCHANGED <<dealers, bills, deals, settlements, visits, answers>>

Tomorrow ==
    /\ day < LastSale /\ day' = day + 1
    /\ UNCHANGED <<riders, gates, receipts, resets, method, moves, counted, told, charged, reckoned>>
    /\ UNCHANGED distributorVars

DistributorsInit ==
    /\ dealers = [d \in Dealers \cup {Clerk} |-> "open"] /\ offer \in Offers
    /\ bills = <<>> /\ deals = <<>> /\ settlements = <<>>
    /\ visits = [v \in Callers |-> Away] /\ amends = 0 /\ answers = {}

Selling ==
    \/ \E d \in Dealers, p \in DOMAIN Prices : createDistributorOrder(d, p) \/ legacyCreateOrder(d, p)
    \/ \E d \in Dealers, s \in Deals, p \in DOMAIN Prices, k \in RenewKeys :
        renewDistributorOrder(d, s, p, k) \/ legacyRenewDistributorOrder(d, s, p, k)
    \/ \E d \in Dealers, s \in Deals : legacyCloseDistributorDelivery(d, s)
Settling ==
    \E d \in Dealers, m \in {AnyMonth} \cup 0..MonthOf(day) :
        settleAdminDistributorOrders(d, m) \/ legacyAdminSettleDistributorOrders(d, m)
Handing ==
    \/ \E s \in Deals : claimDistributorSubscription(s) \/ recordConnection(s)
    \/ \E v \in Callers, s \in Deals, h \in Handsets :
        serveClientSubscription(v, s, h) \/ legacyClientAppConfigV1(v, s, h)
    \/ \E v \in Callers : serveFails(v)
    \/ \E s \in Deals, h \in Handsets :
        deleteAdminDistributorHWIDDevice(s, h) \/ legacyAdminDeleteDistributorHWIDDevice(s, h)
    \/ \E s \in Deals, on \in BOOLEAN, n \in 1..Cardinality(Handsets) :
        updateAdminDistributorHWID(s, on, n) \/ legacyAdminUpdateDistributorHWID(s, on, n)
Managing ==
    \/ \E s \in Deals, e \in {Never, day, day + 2} :
        updateAdminDistributorEntitlement(s, e) \/ legacyAdminUpdateDistributorEntitlement(s, e)
    \/ \E d \in Dealers \cup {Clerk}, x \in {"open", "banned", "revoked"} : UpdateDealer(d, x)
    \/ \E o \in Offers : UpdateOffer(o)

\* The whole trade, while nothing else moves but the day.
DistributorsSpec ==
    /\ DistributorsInit /\ day = 0
    /\ [][((Selling \/ Settling \/ Handing \/ Managing) /\ UNCHANGED trafficVars) \/ Tomorrow]_<<trafficVars, distributorVars>>

-----------------------------------------------------------------------------
\* Properties

\* Money (distributor_operations.go SettleDistributorOrders, distributor_queries.go): an order is in
\* one settlement of its own distributor and month, whose answer is what it settled; a subscription
\* is settled exactly when its first order is; and the list, the export and the preview count the
\* same orders.
SettledOnce ==
    /\ \A i \in DOMAIN settlements :
        LET paid == {b \in DOMAIN bills : bills[b].paid = i} IN
        /\ Cardinality(paid) = settlements[i].count /\ Revenue(paid) = settlements[i].total
        /\ \A b \in paid : /\ bills[b].dealer = settlements[i].dealer
                           /\ settlements[i].month \in {AnyMonth, MonthOf(bills[b].made)}
    /\ \A s \in Deals : deals[s].settled <=> bills[deals[s].origin].paid # 0
    /\ \A d \in Dealers, m \in {AnyMonth} \cup 0..MonthOf(day) :
        /\ ListDistributorOrders(d, m, FALSE) = PreviewDistributorSettlement(d, m)
        /\ StreamDistributorOrderExport(d, m) \ ListDistributorOrders(d, m, TRUE) = PreviewDistributorSettlement(d, m)

\* Renewals (distributors.go RenewDistributorOrder): every answered key stands for one renewal of the
\* distributor's, of the subscription and period that were asked for; the renewals of a subscription
\* follow on each other without a gap and end in the month that was sold, however short; and what a
\* page offers to renew, the store renews.
RenewalsKept ==
    /\ \A a \in answers :
        Cardinality({b \in DOMAIN bills : bills[b].dealer = a.dealer /\ bills[b].key = a.key}) = 1
            /\ \E b \in BillsOf(a.deal) : bills[b].key = a.key /\ bills[b].period = a.period
    /\ \A b \in DOMAIN bills : bills[b].key # NoKey =>
        LET from == Max({bills[b].before, bills[b].made}) IN
        /\ bills[b].after > from
        /\ MonthOf(bills[b].after) = MonthOf(from) + orderPeriodMonths[bills[b].period]
    /\ \A s \in Deals : ~deals[s].amended =>
        /\ deals[s].expiry = bills[LastBill(s)].after
        /\ \A b \in BillsOf(s) : bills[b].key # NoKey =>
            bills[b].before = bills[Max({c \in BillsOf(s) : c < b})].after
    /\ \A b \in DOMAIN bills : enrichDistributorOrders(DOMAIN bills)[b].canRenew => Renewable(bills[b].deal)

\* Delivery (distributor_operations.go, subscription_admission.go): a link opens at most once and
\* never after it was closed; a configuration is on record only for a claimed subscription and a
\* connection only after a configuration; and there are never more devices than some limit allowed.
HandedOver ==
    \A s \in Deals :
        /\ deals[s].opened <= 1 /\ (deals[s].delivery = "closed" => deals[s].opened = 0)
        /\ deals[s].issued => deals[s].delivery = "claimed"
        /\ deals[s].connected => deals[s].issued
        /\ Cardinality(deals[s].devices) <= deals[s].most

\* The distributors' trade as a whole: the money, the renewals and the deliveries.
DealsSound == SettledOnce /\ RenewalsKept /\ HandedOver
=============================================================================
