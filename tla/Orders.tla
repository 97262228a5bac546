------------------------------- MODULE Orders -------------------------------
(* The orders of a panel: internal/store/orders.go with the wallet writes of  *)
(* commissions.go and admin_users.go that race with it.                       *)
(*                                                                            *)
(* Every operation is one SQLite transaction under the store's write lock, so *)
(* every action is one step.  Data is kept as far as money and entitlement    *)
(* need it: amounts are integers of a small currency, instants are integers,  *)
(* a month is Month ticks, and whatever decides an amount without being part  *)
(* of this state (traffic used, coupon, user discount, feature switches) is a *)
(* choice inside the action.                                                  *)
EXTENDS Integers, FiniteSets, FiniteSetsExt

CONSTANTS
    Users, Plans,
    Methods,      \* payment methods
    Price,        \* Price[p]: the periods plan p is sold for, with their prices
    Discounts,    \* discounts a coupon and the user's own rate may add up to
    AssignTotals, \* totals an administrator gives an assigned order
    AssignPeriods, \* periods an administrator assigns (the plan need not be sold for them)
    Grants,       \* amounts of commission a user may move to the wallet
    Edited,       \* users an administrator edits
    AdminSubs,    \* subscriptions an administrator may give a user
    Imports,      \* users who may have an imported order in processing
    MaxOrders,    \* bound on the number of orders
    MaxMoney,     \* maxOrderMoneyCents and the CHECK of users.balance
    MaxCredited,  \* bound on what one wallet is given from outside
    Month, Timeout, Grace, Lease, Backoff, BatchLimit,
    MaxNow        \* bound on the clock

NoPlan == "no plan"
Never == -1
NoMethod == "no method"

\* orderPeriodMonths; a period outside its domain is not recurring.
Months == [monthly |-> 1, quarterly |-> 3, half_yearly |-> 6, yearly |-> 12,
           two_yearly |-> 24, three_yearly |-> 36]
Recurring == DOMAIN Months
Periods == Recurring \cup {"onetime", "reset_traffic"}

ASSUME OrdersConstants ==
    /\ MaxOrders \in Nat /\ MaxMoney \in Nat /\ MaxCredited \in Nat /\ MaxNow \in Nat
    /\ Month \in Nat \ {0} /\ Timeout \in Nat \ {0} /\ Grace \in Nat /\ Lease \in Nat
    /\ Backoff \in Nat \ {0} /\ BatchLimit \in Nat \ {0}
    /\ NoPlan \notin Plans /\ NoMethod \notin Methods
    /\ Methods \cap {"none", "trade", "admin"} = {}
    /\ AdminSubs \subseteq [plan : Plans \cup {NoPlan}, expires : Nat \cup {Never}]
    /\ Imports \subseteq Users /\ Edited \subseteq Users /\ Discounts \subseteq Nat
    /\ AssignPeriods \subseteq Periods /\ AssignTotals \subseteq 0..MaxMoney /\ Grants \subseteq Nat \ {0}
    /\ \A p \in Plans : DOMAIN Price[p] \subseteq Periods
    /\ \A p \in Plans : \A d \in DOMAIN Price[p] : Price[p][d] \in 0..MaxMoney

VARIABLES
    now,
    balance,   \* users.balance
    credited,  \* net amount the wallet was given from outside (history variable)
    sub,       \* users.plan_id and users.expired_at
    form,      \* the administrator's edit form per user
    orders,    \* the orders table; an id not yet inserted holds NoOrder
    attempts   \* payment_checkout_attempts, UNIQUE(order_id, payment_id)

orderVars == <<now, balance, credited, sub, form, orders, attempts>>

OrderIds == 1..MaxOrders
Money == 0..MaxMoney
Instants == 0..MaxNow
Types == {"new", "renewal", "upgrade", "reset_traffic"}
Statuses == {"absent", "pending", "processing", "cancelled", "completed", "discounted"}
Active == {"pending", "processing"}
Settled == {"completed", "discounted"}
Callbacks == {"none", "trade", "admin"} \cup Methods

Subscription == [plan : Plans \cup {NoPlan}, expires : Nat \cup {Never}]
Form == [open : BOOLEAN, fresh : BOOLEAN, balance : Money]
Order == [user : Users \cup {"nobody"}, plan : Plans \cup {NoPlan}, period : Periods,
          type : Types, status : Statuses,
          original : Money, discount : Nat, total : Money, bal : Money,
          surplus : Nat, credit : Nat, sids : SUBSET OrderIds,
          pay : Methods \cup {NoMethod}, handling : Nat, callback : Callbacks,
          created : Nat, events : Nat, retryAfter : Nat]
Attempt == [st : {"none", "creating", "created", "failed"}, amount : Nat, at : Nat]

NoOrder == [user |-> "nobody", plan |-> NoPlan, period |-> "monthly", type |-> "new",
            status |-> "absent", original |-> 0, discount |-> 0, total |-> 0, bal |-> 0,
            surplus |-> 0, credit |-> 0, sids |-> {}, pay |-> NoMethod, handling |-> 0,
            callback |-> "none", created |-> 0, events |-> 0, retryAfter |-> 0]
NoAttempt == [st |-> "none", amount |-> 0, at |-> 0]
NoForm == [open |-> FALSE, fresh |-> FALSE, balance |-> 0]

\* A row an import left in processing: paid, but its entitlement not yet applied.
Imported(u, p, d) ==
    [NoOrder EXCEPT !.user = u, !.plan = p, !.period = d, !.status = "processing",
                    !.original = Price[p][d], !.total = Price[p][d]]

OrdersInit ==
    /\ now = 0
    /\ balance = [u \in Users |-> 0]
    /\ credited = [u \in Users |-> 0]
    /\ sub = [u \in Users |-> [plan |-> NoPlan, expires |-> Never]]
    /\ form = [u \in Users |-> NoForm]
    /\ attempts = [a \in OrderIds \X Methods |-> NoAttempt]
    /\ \/ orders = [i \in OrderIds |-> NoOrder]
       \/ \E u \in Imports, p \in Plans : \E d \in DOMAIN Price[p] :
             orders = [i \in OrderIds |-> IF i = 1 THEN Imported(u, p, d) ELSE NoOrder]

-----------------------------------------------------------------------------
(* Reading the tables *)

Least(a, b) == IF a < b THEN a ELSE b
Greatest(a, b) == IF a < b THEN b ELSE a

NewId(i) == \A j \in OrderIds : orders[j].status # "absent" <=> j < i
HasActive(u) == \E i \in OrderIds : orders[i].user = u /\ orders[i].status \in Active
Subscribed(u) == sub[u].expires = Never \/ sub[u].expires > now
OnOtherPlan(u, p) == sub[u].plan # NoPlan /\ sub[u].plan # p
OnPlan(u, p) == sub[u].plan = p

\* What an order was worth to its buyer: money, wallet and converted value less change.
PaidValue(o) == o.total + o.bal + o.surplus - o.credit
CompletedOf(u) == {i \in OrderIds : orders[i].user = u /\ orders[i].status = "completed"}

\* Mutant: a page that has been made no longer stands in the way of a cancellation.
ActiveCheckoutCreating(i) == \E m \in Methods : attempts[<<i, m>>].st = "creating"

\* hasActivePaymentCheckoutTx
ActiveCheckout(i) == \E m \in Methods : attempts[<<i, m>>].st \in {"creating", "created"}

-----------------------------------------------------------------------------
(* CreateOrder *)

OrderType(u, p, d) ==
    CASE d = "reset_traffic" -> "reset_traffic"
      [] d # "reset_traffic" /\ OnOtherPlan(u, p) /\ Subscribed(u) -> "upgrade"
      [] d # "reset_traffic" /\ OnPlan(u, p) /\ Subscribed(u) -> "renewal"
      [] OTHER -> "new"

\* AssignOrder counts an assignment on the same permanent plan as a new purchase.
AssignedType(u, p, d) ==
    IF OrderType(u, p, d) = "renewal" /\ sub[u].expires = Never THEN "new" ELSE OrderType(u, p, d)

NoSurplus == [amount |-> 0, ids |-> {}]

\* The part of calculateOrderSurplus for a permanent subscription: the newest one-time
\* order, scaled by the share of its traffic that is left.
PermanentSurplus(u) ==
    LET onetime == {i \in CompletedOf(u) : orders[i].period = "onetime"}
        last == Max(onetime)
    IN  IF onetime = {} \/ PaidValue(orders[last]) <= 0 THEN {NoSurplus}
        ELSE {[amount |-> a, ids |-> {i \in CompletedOf(u) : orders[i].period # "reset_traffic"}] :
                  a \in {n \in Money : n <= PaidValue(orders[last])}}

\* Mutant: change that was paid out to the wallet is counted again.
RecurringSurplusGross(u) ==
    LET ids == {i \in CompletedOf(u) : orders[i].period \in Recurring}
        paid == SumFunctionOnSet([i \in ids |-> orders[i].total + orders[i].bal + orders[i].surplus], ids)
    IN  IF ids = {} THEN {NoSurplus}
        ELSE {[amount |-> a, ids |-> ids] : a \in {n \in Money : n <= paid}}

\* ... and for a recurring one: all recurring orders, scaled by the share of the time
\* they bought that is left, or of their traffic when the switch asks for the smaller.
RecurringSurplus(u) ==
    LET ids == {i \in CompletedOf(u) : orders[i].period \in Recurring}
        paid == SumFunctionOnSet([i \in ids |-> PaidValue(orders[i])], ids)
        months == SumFunctionOnSet([i \in ids |-> Months[orders[i].period]], ids)
        first == Min({orders[i].created : i \in ids})
        left == Greatest(0, first + months * Month - now)
    IN  IF ids = {} \/ paid = 0 THEN {NoSurplus}
        ELSE IF paid > MaxMoney THEN {}
        ELSE {[amount |-> a, ids |-> ids] : a \in {n \in Money : n * months * Month <= paid * left}}

\* surplus_enable is a switch of the administrator's.
Surplus(u) == {NoSurplus} \cup
              (IF sub[u].expires = Never THEN PermanentSurplus(u) ELSE RecurringSurplus(u))

\* validateOrderPurchase for a plan that is shown, sold and renewable.
Purchasable(u, p, d) == d = "reset_traffic" => Subscribed(u) /\ OnPlan(u, p)

\* Mutant: money writes leave admin_revision alone (no trigger).
TouchNever(U) == form' = form

\* A money write advances admin_revision (explicitly or by the trigger
\* users_money_admin_revision), so a form loaded before it is stale.
Touch(U) == form' = [u \in Users |-> IF u \in U THEN [form[u] EXCEPT !.fresh = FALSE] ELSE form[u]]

\* Mutant: surplus beyond what is due is dropped instead of given as change.
ChargeNoChange(due, surplus, funds) ==
    LET open == Greatest(0, due - surplus)
        wallet == Least(funds, open)
    IN  [total |-> open - wallet, bal |-> wallet, credit |-> 0]

\* What is due is met by the surplus first, then by the wallet; the rest is to be paid.
Charge(due, surplus, funds) ==
    LET open == Greatest(0, due - surplus)
        wallet == Least(funds, open)
    IN  [total |-> open - wallet, bal |-> wallet, credit |-> Greatest(0, surplus - due)]

CreateOrder(u, p, d) ==
    /\ ~HasActive(u) /\ d \in DOMAIN Price[p] /\ Purchasable(u, p, d)
    /\ \E i \in OrderIds, cut \in Discounts,
          s \in (IF OrderType(u, p, d) = "upgrade" THEN Surplus(u) ELSE {NoSurplus}) :
          LET discount == Least(cut, Price[p][d])
              charge == Charge(Price[p][d] - discount, s.amount, balance[u])
          IN  /\ NewId(i)
              /\ orders' = [orders EXCEPT ![i] =
                    [NoOrder EXCEPT !.user = u, !.plan = p, !.period = d,
                        !.type = OrderType(u, p, d), !.status = "pending",
                        !.original = Price[p][d], !.discount = discount,
                        !.total = charge.total, !.bal = charge.bal,
                        !.surplus = s.amount, !.credit = charge.credit,
                        !.sids = s.ids, !.created = now]]
              /\ balance' = [balance EXCEPT ![u] = balance[u] - charge.bal]
              /\ Touch(IF charge.bal > 0 THEN {u} ELSE {})
    /\ UNCHANGED <<now, credited, sub, attempts>>

AssignOrder(u, p, d) ==
    /\ ~HasActive(u)
    /\ \E i \in OrderIds, total \in AssignTotals :
          /\ NewId(i)
          /\ orders' = [orders EXCEPT ![i] =
                [NoOrder EXCEPT !.user = u, !.plan = p, !.period = d,
                    !.type = AssignedType(u, p, d), !.status = "pending",
                    !.original = total, !.total = total, !.created = now]]
    /\ UNCHANGED <<now, balance, credited, sub, form, attempts>>

-----------------------------------------------------------------------------
(* Ending orders.  C is cancelled, S completed and Q quarantined in one        *)
(* transaction; a user has at most one active order, so no wallet is written   *)
(* twice.                                                                      *)

OrderOf(u, S) == CHOOSE i \in S : orders[i].user = u
In(u, S) == \E i \in S : orders[i].user = u

\* completeOrderTx: the entitlement applied at the moment of completion.
Entitled(s, o) ==
    CASE o.period = "reset_traffic" -> s
      [] o.period = "onetime" -> [plan |-> o.plan, expires |-> Never]
      [] OTHER -> LET base == IF o.type = "upgrade" THEN now ELSE Greatest(now, s.expires)
                  IN  [plan |-> o.plan, expires |-> base + Months[o.period] * Month]

\* Mutant: the orders paid in kind are not marked.
ConvertedNone(S) == {}

\* The orders a completion of S converts: UPDATE orders SET status = 4 ... AND status = 3.
Converted(S) ==
    {j \in OrderIds : /\ orders[j].status = "completed" /\ orders[j].period # "reset_traffic"
                      /\ \E i \in S : j \in orders[i].sids /\ orders[j].user = orders[i].user}

Cancelled(o) == [o EXCEPT !.status = "cancelled"]
Quarantined(o) == [o EXCEPT !.retryAfter = now + Backoff]
Released(o) == [o EXCEPT !.retryAfter = 0]
Discounted(o) == [o EXCEPT !.status = "discounted"]
\* callback_no = COALESCE(callback_no, ?)
Completed(o, callback) ==
    [o EXCEPT !.status = "completed", !.events = o.events + 1,
              !.callback = IF o.callback = "none" THEN callback ELSE o.callback]

RefundFits(i) == orders[i].bal = 0 \/ orders[i].bal <= MaxMoney - balance[orders[i].user]
CreditFits(i) == balance[orders[i].user] + orders[i].credit <= MaxMoney

\* Mutant: a cancelled order keeps the wallet's share.
EndBalanceNoRefund(u, C, S) ==
    IF In(u, S) THEN balance[u] + orders[OrderOf(u, S)].credit ELSE balance[u]

EndBalance(u, C, S) ==
    IF In(u, C) THEN balance[u] + orders[OrderOf(u, C)].bal
    ELSE IF In(u, S) THEN balance[u] + orders[OrderOf(u, S)].credit
    ELSE balance[u]

EndSub(u, S) == IF In(u, S) THEN Entitled(sub[u], orders[OrderOf(u, S)]) ELSE sub[u]

\* completeOrderTx always advances admin_revision, a refund does when it moves money.
Touched(C, S) == {u \in Users : In(u, S) \/ (In(u, C) /\ orders[OrderOf(u, C)].bal > 0)}

EndOrders(C, S, Q, callback, table) ==
    /\ orders' = [i \in OrderIds |->
                    CASE i \in S -> Completed(table[i], callback)
                      [] i \in C -> Cancelled(table[i])
                      [] i \in Q -> Quarantined(table[i])
                      [] i \in Converted(S) -> Discounted(table[i])
                      [] OTHER -> table[i]]
    /\ balance' = [u \in Users |-> EndBalance(u, C, S)]
    /\ sub' = [u \in Users |-> EndSub(u, S)]
    /\ Touch(Touched(C, S))
    /\ UNCHANGED <<now, credited, attempts>>

\* Mutant: cancels whatever is not yet cancelled.
CancelOrderAny(i) ==
    /\ orders[i].status \notin {"absent", "cancelled"} /\ ~ActiveCheckout(i) /\ RefundFits(i)
    /\ EndOrders({i}, {}, {}, "none", orders)

\* CancelOrder and CancelAdminOrder.
CancelOrder(i) ==
    /\ orders[i].status = "pending" /\ ~ActiveCheckout(i) /\ RefundFits(i)
    /\ EndOrders({i}, {}, {}, "none", orders)

\* A user checks out an order with nothing left to pay.
CompleteOrder(i) ==
    /\ orders[i].status = "pending" /\ orders[i].total = 0 /\ CreditFits(i)
    /\ EndOrders({}, {i}, {}, "trade", orders)

\* Mutant: a second click completes the order again.
CompletePendingOrderAgain(i) ==
    /\ orders[i].status \in {"pending", "completed"} /\ CreditFits(i)
    /\ EndOrders({}, {i}, {}, "admin", orders)

\* An administrator marks a pending order as paid.
CompletePendingOrder(i) ==
    /\ orders[i].status = "pending" /\ CreditFits(i)
    /\ EndOrders({}, {i}, {}, "admin", orders)

-----------------------------------------------------------------------------
(* The scheduler's sweep *)

\* Mutant: a call that has not answered yet protects nothing.
ProtectedCreated(i) ==
    /\ orders[i].created > now - Timeout - Grace
    /\ \E m \in Methods : attempts[<<i, m>>].st = "created" /\ attempts[<<i, m>>].at > now - Grace

\* A checkout that may still be paid protects a timed-out order, up to a hard limit.
Protected(i) ==
    /\ orders[i].created > now - Timeout - Grace
    /\ \E m \in Methods : LET a == attempts[<<i, m>>]
                          IN  \/ a.st = "creating" /\ a.at > now - Lease
                              \/ a.st = "created" /\ a.at > now - Grace

\* Mutant: an order set aside is selected again at once.
StaleAgain(i) ==
    \/ orders[i].status = "processing"
    \/ orders[i].status = "pending" /\ orders[i].created <= now - Timeout /\ ~Protected(i)

Stale(i) ==
    /\ \/ orders[i].status = "processing"
       \/ orders[i].status = "pending" /\ orders[i].created <= now - Timeout /\ ~Protected(i)
    /\ orders[i].retryAfter <= now

StaleOrders == {i \in OrderIds : Stale(i)}
Earlier(j, i) == orders[j].created < orders[i].created \/ (orders[j].created = orders[i].created /\ j < i)
Batch == {i \in StaleOrders : Cardinality({j \in StaleOrders : Earlier(j, i)}) < BatchLimit}

\* An overflowing refund sets one order aside; an overflowing credit aborts the batch.
ProcessStaleOrders ==
    LET pending == {i \in Batch : orders[i].status = "pending"}
        paid == {i \in Batch : orders[i].status = "processing"}
        refunded == {i \in pending : RefundFits(i)}
    IN  /\ Batch # {}
        /\ \A i \in paid : CreditFits(i)
        /\ EndOrders(refunded, paid, pending \ refunded, "trade",
                     [i \in OrderIds |-> IF i \in refunded THEN Released(orders[i]) ELSE orders[i]])

-----------------------------------------------------------------------------
(* Other writers of the wallet *)

\* TransferCommission; the commission it comes from is not part of this model.
TransferCommission(u, amount) ==
    /\ balance[u] <= MaxMoney - amount /\ credited[u] + amount <= MaxCredited
    /\ balance' = [balance EXCEPT ![u] = balance[u] + amount]
    /\ credited' = [credited EXCEPT ![u] = credited[u] + amount]
    /\ Touch({u})
    /\ UNCHANGED <<now, sub, orders, attempts>>

\* An administrator opens the edit form of a user ...
LoadUserForm(u) ==
    /\ form' = [form EXCEPT ![u] = [open |-> TRUE, fresh |-> TRUE, balance |-> balance[u]]]
    /\ form[u] # form'[u]
    /\ UNCHANGED <<now, balance, credited, sub, orders, attempts>>

\* ... and saves it.  The form holds the balance as an absolute value: the administrator
\* means to move the wallet by the difference to the balance the form showed.
UpdateAdminUser(u, value, s) ==
    /\ form[u].open /\ form[u].fresh
    /\ credited[u] + value - form[u].balance \in 0..MaxCredited
    /\ balance' = [balance EXCEPT ![u] = value]
    /\ credited' = [credited EXCEPT ![u] = credited[u] + value - form[u].balance]
    /\ sub' = [sub EXCEPT ![u] = s]
    /\ form' = [form EXCEPT ![u] = NoForm]
    /\ UNCHANGED <<now, orders, attempts>>

Tick ==
    /\ now < MaxNow
    /\ now' = now + 1
    /\ UNCHANGED <<balance, credited, sub, form, orders, attempts>>

Purchase == \E u \in Users, p \in Plans, d \in Periods : CreateOrder(u, p, d)
Assign == \E u \in Users, p \in Plans, d \in AssignPeriods : AssignOrder(u, p, d)
Cancel == \E i \in OrderIds : CancelOrder(i)
FreeCheckout == \E i \in OrderIds : CompleteOrder(i)
AdminPaid == \E i \in OrderIds : CompletePendingOrder(i)
Transfer == \E u \in Users, a \in Grants : TransferCommission(u, a)
OpenForm == \E u \in Edited : LoadUserForm(u)
SaveForm == \E u \in Edited, value \in Money : \E s \in AdminSubs \cup {sub[u]} : UpdateAdminUser(u, value, s)

OrdersNext ==
    \/ Purchase \/ Assign \/ Cancel \/ FreeCheckout \/ AdminPaid
    \/ ProcessStaleOrders \/ Transfer \/ OpenForm \/ SaveForm \/ Tick

OrdersSpec == OrdersInit /\ [][OrdersNext]_orderVars

-----------------------------------------------------------------------------
(* Properties *)

\* Every table holds well-formed rows, and no wallet leaves 0..MaxMoney, the CHECK of
\* users.balance that a refund or a credit would otherwise run into.
OrdersTypeOK ==
    /\ now \in Instants
    /\ balance \in [Users -> Money]
    /\ credited \in [Users -> Int]
    /\ sub \in [Users -> Subscription]
    /\ form \in [Users -> Form]
    /\ orders \in [OrderIds -> Order]
    /\ attempts \in [OrderIds \X Methods -> Attempt]

\* A user has at most one order that is pending or processing, whichever of CreateOrder,
\* AssignOrder and an import made it (idx_orders_user_active).
OneActiveOrder ==
    \A i, j \in OrderIds :
        orders[i].status \in Active /\ orders[j].status \in Active /\ orders[i].user = orders[j].user
            => i = j

\* The split of an order into money, wallet, surplus and change always adds up to its
\* price less its discount, and change is only ever given out of surplus (CreateOrder).
NetPriceKept ==
    \A i \in OrderIds :
        /\ PaidValue(orders[i]) = orders[i].original - orders[i].discount
        /\ orders[i].credit <= orders[i].surplus

OrdersOf(u, T) == {i \in OrderIds : orders[i].user = u /\ orders[i].status \in T}

\* The wallet is the sum of its history: what was given, less what its live orders hold,
\* plus the change of its settled ones.  A refund paid twice, a credit lost or an
\* administrator's save over a newer balance would each break it.
BalanceLedger ==
    \A u \in Users :
        balance[u] = credited[u]
                     - SumFunctionOnSet([i \in OrderIds |-> orders[i].bal], OrdersOf(u, Active \cup Settled))
                     + SumFunctionOnSet([i \in OrderIds |-> orders[i].credit], OrdersOf(u, Settled))

\* Plan changes mint no value: what a user's unconverted orders are worth, plus the change
\* paid out to the wallet, never exceeds the money and wallet that settled orders took in.
NoMintedValue ==
    \A u \in Users :
        SumFunctionOnSet([i \in OrderIds |-> PaidValue(orders[i])], OrdersOf(u, {"completed"}))
          + SumFunctionOnSet([i \in OrderIds |-> orders[i].credit], OrdersOf(u, Settled))
        <= SumFunctionOnSet([i \in OrderIds |-> orders[i].total + orders[i].bal], OrdersOf(u, Settled))

\* The orders a plan change counted as surplus when it was created are still there to be
\* converted when it is completed, and are converted by that order alone.
SurplusConsumedOnce ==
    \A i \in OrderIds : \A j \in orders[i].sids :
        /\ orders[i].status \in Active => orders[j].status = "completed"
        /\ orders[i].status \in Settled => orders[j].status = "discounted"
        /\ orders[j].user = orders[i].user
        /\ \A k \in OrderIds :
              {orders[i].status, orders[k].status} \subseteq Settled /\ j \in orders[k].sids => i = k

\* No interleaving of renewals, plan changes, imports and cancellations makes or loses value:
\* an order keeps its net price, credits come out of what was paid, and a surplus is used once.
ValueConserved == NetPriceKept /\ NoMintedValue /\ SurplusConsumedOnce

\* An order's entitlement is applied exactly once, when it is settled, however often its
\* completion is asked for (order_entitlement_events).
EntitledOnce ==
    \A i \in OrderIds : orders[i].events = (IF orders[i].status \in Settled THEN 1 ELSE 0)

\* No customer holds two open orders, and none is given what he paid for twice.
OrdersOnce == OneActiveOrder /\ EntitledOnce

\* As long as the revision of an edit form is current, so is the balance it shows: no
\* money write leaves an older absolute value ready to be saved over it.
FormsCurrent == \A u \in Users : form[u].open /\ form[u].fresh => form[u].balance = balance[u]

LegalMoves == {<<"absent", "pending">>, <<"pending", "cancelled">>, <<"pending", "completed">>,
               <<"processing", "completed">>, <<"completed", "discounted">>}
Terms(o) == <<o.user, o.plan, o.period, o.type, o.original, o.discount, o.total, o.bal,
              o.surplus, o.credit, o.sids, o.created>>

\* No operation takes an order back or out of turn: a cancelled order is never revived, a
\* completed one never cancelled, and the terms it was created with never change.
OrderHistory ==
    [][\A i \in OrderIds :
         /\ orders'[i].status = orders[i].status
              \/ <<orders[i].status, orders'[i].status>> \in LegalMoves
         /\ orders[i].status = "absent" \/ Terms(orders'[i]) = Terms(orders[i])]_orderVars

=============================================================================
