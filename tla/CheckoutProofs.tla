--------------------------- MODULE CheckoutProofs ---------------------------
(* What holds of orders and their payments for every set of users, plans and  *)
(* methods, every price list and every choice of the time limits; and that    *)
(* the money of the order store adds up, for every interleaving of orders,    *)
(* checkouts, webhooks, sweeps, transfers and administrators' saves: a wallet *)
(* is the sum of its history, and no chain of plan changes makes value.       *)
EXTENDS Checkout, SumTheorems

\* The surplus of a plan change is an amount of money taken out of completed orders of the
\* same user, none of them a traffic reset.
LEMMA SurplusType ==
    ASSUME OrdersTypeOK, NEW u \in Users, NEW s \in Surplus(u)
    PROVE  s.amount \in Money /\ s.ids \subseteq {i \in CompletedOf(u) : orders[i].period # "reset_traffic"}
<1>1. CASE s = NoSurplus
  BY <1>1, OrdersConstants DEF NoSurplus, Money
<1>2. CASE s \in PermanentSurplus(u)
  <2>1. \/ s = NoSurplus
        \/ \E a \in Money : s = [amount |-> a, ids |-> {i \in CompletedOf(u) : orders[i].period # "reset_traffic"}]
    BY <1>2, Zenon DEF PermanentSurplus
  <2> QED BY <1>1, <2>1
<1>3. CASE s \in RecurringSurplus(u)
  <2>1. \/ s = NoSurplus
        \/ \E a \in Money : s = [amount |-> a, ids |-> {i \in CompletedOf(u) : orders[i].period \in Recurring}]
    BY <1>3, Zenon DEF RecurringSurplus
  <2>2. "reset_traffic" \notin Recurring
    BY DEF Recurring, Months
  <2> QED BY <1>1, <2>1, <2>2
<1> QED BY <1>1, <1>2, <1>3 DEF Surplus

-----------------------------------------------------------------------------
(* Rows *)

\* Each update of a row made by an operation keeps it well-formed.
LEMMA RowUpdates ==
    ASSUME NEW o \in Order, now \in Nat
    PROVE  /\ Cancelled(o) \in Order /\ Discounted(o) \in Order /\ Released(o) \in Order
           /\ Quarantined(o) \in Order
           /\ \A cb \in Callbacks : Completed(o, cb) \in Order
           /\ \A m \in Methods, h \in Nat : Bound(o, m, h) \in Order
<1>1. Cancelled(o) \in Order /\ Discounted(o) \in Order /\ Released(o) \in Order
  BY DEF Cancelled, Discounted, Released, Order, Statuses
<1>2. Quarantined(o) \in Order
  <2>1. now + Backoff \in Nat
    BY OrdersConstants
  <2> QED BY <2>1 DEF Quarantined, Order
<1>3. ASSUME NEW cb \in Callbacks PROVE Completed(o, cb) \in Order
  <2> DEFINE e == o.events + 1
             c == IF o.callback = "none" THEN cb ELSE o.callback
  <2>1. e \in Nat /\ c \in Callbacks
    BY DEF Order
  <2>2. Completed(o, cb) = [o EXCEPT !.status = "completed", !.events = e, !.callback = c]
    BY DEF Completed
  <2> HIDE DEF e, c
  <2> QED BY <2>1, <2>2, ZenonT(60) DEF Order, Statuses
<1>4. ASSUME NEW m \in Methods, NEW h \in Nat PROVE Bound(o, m, h) \in Order
  BY <1>4 DEF Bound, Order
<1> QED BY <1>1, <1>2, <1>3, <1>4

\* The amounts of a new order.
LEMMA ChargeType ==
    ASSUME NEW due \in Money, NEW surplus \in Money, NEW funds \in Money
    PROVE  /\ Charge(due, surplus, funds).total \in Money
           /\ Charge(due, surplus, funds).bal \in Money
           /\ Charge(due, surplus, funds).credit \in Money
           /\ Charge(due, surplus, funds).bal <= funds
           /\ Charge(due, surplus, funds).credit <= surplus
           /\ Charge(due, surplus, funds).total + Charge(due, surplus, funds).bal + surplus
                - Charge(due, surplus, funds).credit = due
BY OrdersConstants DEF Charge, Money, Least, Greatest

\* The row of an order that is not inserted yet.
LEMMA NoOrderType == NoOrder \in Order
BY OrdersConstants DEF NoOrder, Order, Types, Statuses, Money, Callbacks, Periods, Recurring, Months

\* The row CreateOrder inserts.
NewRow(u, p, d, t, original, discount, total, bal, surplus, credit, sids) ==
    [NoOrder EXCEPT !.user = u, !.plan = p, !.period = d, !.type = t, !.status = "pending",
                    !.original = original, !.discount = discount, !.total = total, !.bal = bal,
                    !.surplus = surplus, !.credit = credit, !.sids = sids, !.created = now]

\* The row AssignOrder inserts.
AssignedRow(u, p, d, t, total) ==
    [NoOrder EXCEPT !.user = u, !.plan = p, !.period = d, !.type = t, !.status = "pending",
                    !.original = total, !.total = total, !.created = now]

\* What every inserted row is like.
Fresh(r, u) ==
    /\ r \in Order /\ r.user = u /\ r.status = "pending" /\ r.events = 0 /\ r.callback = "none"
    /\ r.created = now
    /\ PaidValue(r) = r.original - r.discount /\ r.credit <= r.surplus /\ r.discount <= r.original
    /\ r.sids \subseteq {i \in CompletedOf(u) : orders[i].period # "reset_traffic"}

LEMMA NewRowFresh ==
    ASSUME now \in Nat, NEW u \in Users, NEW p \in Plans, NEW d \in Periods, NEW t \in Types,
           NEW original \in Money, NEW discount \in Nat, NEW total \in Money, NEW bal \in Money,
           NEW surplus \in Nat, NEW credit \in Nat,
           NEW sids \in SUBSET {i \in CompletedOf(u) : orders[i].period # "reset_traffic"},
           total + bal + surplus - credit = original - discount, credit <= surplus, discount <= original
    PROVE  Fresh(NewRow(u, p, d, t, original, discount, total, bal, surplus, credit, sids), u)
<1> DEFINE r == NewRow(u, p, d, t, original, discount, total, bal, surplus, credit, sids)
<1>1. sids \in SUBSET OrderIds
  BY DEF CompletedOf
<1>2. r \in Order
  BY <1>1, NoOrderType DEF NewRow, Order, Statuses
<1>3. /\ r.user = u /\ r.status = "pending" /\ r.events = 0 /\ r.callback = "none" /\ r.created = now
      /\ r.total = total /\ r.bal = bal /\ r.surplus = surplus /\ r.credit = credit
      /\ r.original = original /\ r.discount = discount /\ r.sids = sids
  BY DEF NewRow, NoOrder
<1> HIDE DEF r
<1>4. PaidValue(r) = r.original - r.discount
  BY <1>3 DEF PaidValue
<1>5. Fresh(r, u)
  BY <1>2, <1>3, <1>4 DEF Fresh
<1> QED BY <1>5 DEF r

LEMMA AssignedRowFresh ==
    ASSUME now \in Nat, NEW u \in Users, NEW p \in Plans, NEW d \in Periods, NEW t \in Types,
           NEW total \in Money
    PROVE  Fresh(AssignedRow(u, p, d, t, total), u)
<1> DEFINE r == AssignedRow(u, p, d, t, total)
<1>1. r \in Order
  BY NoOrderType DEF AssignedRow, Order, Statuses
<1>2. /\ r.user = u /\ r.status = "pending" /\ r.events = 0 /\ r.callback = "none" /\ r.created = now
      /\ r.total = total /\ r.bal = 0 /\ r.surplus = 0 /\ r.credit = 0
      /\ r.original = total /\ r.discount = 0 /\ r.sids = {}
  BY DEF AssignedRow, NoOrder
<1> HIDE DEF r
<1>3. PaidValue(r) = r.original - r.discount /\ r.credit <= r.surplus /\ r.discount <= r.original
  BY <1>2, OrdersConstants DEF PaidValue, Money
<1>4. Fresh(r, u)
  BY <1>1, <1>2, <1>3 DEF Fresh
<1> QED BY <1>4 DEF r

-----------------------------------------------------------------------------
(* Ending orders *)

\* Completing an order leaves its buyer with a subscription.
LEMMA EntitledType ==
    ASSUME now \in Nat, NEW s \in Subscription, NEW o \in Order, o.plan \in Plans \cup {NoPlan}
    PROVE  Entitled(s, o) \in Subscription
<1>1. CASE o.period = "reset_traffic"
  BY <1>1 DEF Entitled
<1>2. CASE o.period = "onetime"
  BY <1>2 DEF Entitled, Subscription, Order
<1>3. CASE o.period \notin {"reset_traffic", "onetime"}
  <2> DEFINE base == IF o.type = "upgrade" THEN now ELSE Greatest(now, s.expires)
  <2>1. Months[o.period] \in Nat
    BY <1>3 DEF Order, Periods, Recurring, Months
  <2>2. base \in Nat
    BY DEF Greatest, Subscription, Never
  <2>3. Months[o.period] * Month \in Nat
    BY <2>1, OrdersConstants
  <2>4. base + Months[o.period] * Month \in Nat
    BY <2>2, <2>3
  <2>5. Entitled(s, o) = [plan |-> o.plan, expires |-> base + Months[o.period] * Month]
    BY <1>3 DEF Entitled
  <2> QED BY <2>4, <2>5 DEF Subscription
<1> QED BY <1>1, <1>2, <1>3

\* The order of u in a set that holds one.
LEMMA OrderOfIn ==
    ASSUME NEW u, NEW S, In(u, S)
    PROVE  OrderOf(u, S) \in S /\ orders[OrderOf(u, S)].user = u
BY DEF In, OrderOf

\* A money write keeps the forms well-formed.
LEMMA TouchType ==
    ASSUME form \in [Users -> Form], NEW U, Touch(U)
    PROVE  form' \in [Users -> Form]
<1>1. ASSUME NEW u \in Users PROVE [form[u] EXCEPT !.fresh = FALSE] \in Form
  BY DEF Form
<1> QED BY <1>1 DEF Touch

\* Ending orders keeps every row and every wallet in its type when the refunds and
\* credits fit.
LEMMA EndOrdersType ==
    ASSUME OrdersTypeOK, NEW C \in SUBSET OrderIds, NEW S \in SUBSET OrderIds, NEW Q \in SUBSET OrderIds,
           NEW cb \in Callbacks, NEW table \in [OrderIds -> Order],
           \A i \in C : RefundFits(i), \A i \in S : CreditFits(i),
           EndOrders(C, S, Q, cb, table)
    PROVE  OrdersTypeOK'
<1> USE DEF OrdersTypeOK
<1>0. now \in Nat
  BY OrdersConstants DEF Instants
<1>1. orders' \in [OrderIds -> Order]
  <2>1. ASSUME NEW i \in OrderIds
        PROVE (CASE i \in S -> Completed(table[i], cb)
                 [] i \in C -> Cancelled(table[i])
                 [] i \in Q -> Quarantined(table[i])
                 [] i \in Converted(S) -> Discounted(table[i])
                 [] OTHER -> table[i]) \in Order
    <3>1. table[i] \in Order
      OBVIOUS
    <3> HIDE DEF Order, Completed
    <3>2. /\ Completed(table[i], cb) \in Order /\ Cancelled(table[i]) \in Order
          /\ Quarantined(table[i]) \in Order /\ Discounted(table[i]) \in Order
      BY <1>0, <3>1, RowUpdates
    <3> QED BY <3>1, <3>2
  <2> QED BY <2>1 DEF EndOrders
<1>2. balance' \in [Users -> Money]
  <2>1. ASSUME NEW u \in Users PROVE EndBalance(u, C, S) \in Money
    <3>1. CASE In(u, C)
      <4>1. OrderOf(u, C) \in C /\ orders[OrderOf(u, C)].user = u
        BY <3>1, OrderOfIn
      <4>2. orders[OrderOf(u, C)].bal \in Money /\ balance[u] \in Money
        BY <4>1 DEF Order
      <4>3. balance[u] + orders[OrderOf(u, C)].bal <= MaxMoney
        BY <4>1, <4>2, OrdersConstants DEF RefundFits, Money
      <4> QED BY <3>1, <4>2, <4>3, OrdersConstants DEF EndBalance, Money
    <3>2. CASE ~In(u, C) /\ In(u, S)
      <4>1. OrderOf(u, S) \in S /\ orders[OrderOf(u, S)].user = u
        BY <3>2, OrderOfIn
      <4>2. orders[OrderOf(u, S)].credit \in Nat /\ balance[u] \in Money
        BY <4>1 DEF Order
      <4>3. balance[u] + orders[OrderOf(u, S)].credit <= MaxMoney
        BY <4>1, <4>2 DEF CreditFits
      <4> QED BY <3>2, <4>2, <4>3, OrdersConstants DEF EndBalance, Money
    <3> QED BY <3>1, <3>2 DEF EndBalance
  <2> QED BY <2>1 DEF EndOrders
<1>3. sub' \in [Users -> Subscription]
  <2>1. ASSUME NEW u \in Users PROVE EndSub(u, S) \in Subscription
    <3>1. CASE In(u, S)
      <4>1. OrderOf(u, S) \in OrderIds
        BY <3>1, OrderOfIn
      <4>2. orders[OrderOf(u, S)] \in Order /\ sub[u] \in Subscription
        BY <4>1
      <4>3. orders[OrderOf(u, S)].plan \in Plans \cup {NoPlan}
        BY <4>2 DEF Order
      <4>4. Entitled(sub[u], orders[OrderOf(u, S)]) \in Subscription
        BY <1>0, <4>2, <4>3, EntitledType
      <4> QED BY <3>1, <4>4 DEF EndSub
    <3> QED BY <3>1 DEF EndSub
  <2> QED BY <2>1 DEF EndOrders
<1>4. form' \in [Users -> Form]
  BY TouchType DEF EndOrders
<1> QED BY <1>1, <1>2, <1>3, <1>4 DEF EndOrders

\* A table that an operation may hand to EndOrders: rows differ from the stored ones in
\* the payment method, the fee and the retry mark at most.
SameOrders(table) ==
    \A i \in OrderIds : /\ Terms(table[i]) = Terms(orders[i]) /\ table[i].status = orders[i].status
                        /\ table[i].events = orders[i].events /\ table[i].callback = orders[i].callback

\* The sets of orders an operation may end.
Endable(C, S, Q) ==
    /\ C \in SUBSET OrderIds /\ S \in SUBSET OrderIds /\ Q \in SUBSET OrderIds
    /\ \A i \in C : orders[i].status = "pending" /\ i \notin S /\ i \notin Q
    /\ \A i \in Q : orders[i].status = "pending" /\ i \notin S
    /\ \A i \in S : orders[i].status \in Active

EndedStatus(i, C, S) ==
    IF i \in S THEN "completed" ELSE IF i \in C THEN "cancelled"
    ELSE IF i \in Converted(S) THEN "discounted" ELSE orders[i].status

\* What EndOrders does to each row.
LEMMA EndOrdersRows ==
    ASSUME OrdersTypeOK, NEW C, NEW S, NEW Q, NEW cb \in Callbacks,
           NEW table \in [OrderIds -> Order], Endable(C, S, Q), SameOrders(table),
           EndOrders(C, S, Q, cb, table), NEW i \in OrderIds
    PROVE  /\ Terms(orders'[i]) = Terms(orders[i])
           /\ orders'[i].status = EndedStatus(i, C, S)
           /\ orders'[i].events = (IF i \in S THEN orders[i].events + 1 ELSE orders[i].events)
           /\ orders'[i].callback = (IF i \in S /\ orders[i].callback = "none" THEN cb ELSE orders[i].callback)
           /\ orders'[i].pay = table[i].pay /\ orders'[i].handling = table[i].handling
<1> DEFINE o == table[i]
<1>1. /\ o \in Order /\ Terms(o) = Terms(orders[i]) /\ o.status = orders[i].status
      /\ o.events = orders[i].events /\ o.callback = orders[i].callback
  BY DEF SameOrders
<1>2. orders'[i] = CASE i \in S -> Completed(o, cb)
                     [] i \in C -> Cancelled(o)
                     [] i \in Q -> Quarantined(o)
                     [] i \in Converted(S) -> Discounted(o)
                     [] OTHER -> o
  BY DEF EndOrders
<1>3. i \in Converted(S) => i \notin S /\ i \notin C /\ i \notin Q
  BY DEF Converted, Endable, Active
<1> HIDE DEF o
<1>4. CASE i \in S
  <2>1. orders'[i] = Completed(o, cb)
    BY <1>2, <1>3, <1>4, Zenon DEF Endable
  <2>2. /\ Terms(Completed(o, cb)) = Terms(o) /\ Completed(o, cb).status = "completed"
        /\ Completed(o, cb).events = o.events + 1
        /\ Completed(o, cb).callback = (IF o.callback = "none" THEN cb ELSE o.callback)
        /\ Completed(o, cb).pay = o.pay /\ Completed(o, cb).handling = o.handling
    BY <1>1 DEF Completed, Terms, Order
  <2> QED BY <1>1, <1>4, <2>1, <2>2 DEF EndedStatus, o
<1>5. CASE i \in C
  <2>0. i \notin S
    BY <1>5 DEF Endable
  <2>1. orders'[i] = Cancelled(o)
    BY <1>2, <1>3, <1>5, Zenon DEF Endable
  <2>2. /\ Terms(Cancelled(o)) = Terms(o) /\ Cancelled(o).status = "cancelled"
        /\ Cancelled(o).events = o.events /\ Cancelled(o).callback = o.callback
        /\ Cancelled(o).pay = o.pay /\ Cancelled(o).handling = o.handling
    BY <1>1 DEF Cancelled, Terms, Order
  <2> QED BY <1>1, <1>5, <2>0, <2>1, <2>2 DEF EndedStatus, o
<1>6. CASE i \in Q
  <2>0. i \notin S /\ i \notin C
    BY <1>6 DEF Endable
  <2>1. orders'[i] = Quarantined(o)
    BY <1>2, <1>3, <1>6, Zenon DEF Endable
  <2>2. /\ Terms(Quarantined(o)) = Terms(o) /\ Quarantined(o).status = o.status
        /\ Quarantined(o).events = o.events /\ Quarantined(o).callback = o.callback
        /\ Quarantined(o).pay = o.pay /\ Quarantined(o).handling = o.handling
    BY <1>1 DEF Quarantined, Terms, Order
  <2> QED BY <1>1, <1>3, <1>6, <2>0, <2>1, <2>2 DEF EndedStatus, o
<1>7. CASE i \in Converted(S)
  <2>1. orders'[i] = Discounted(o)
    BY <1>2, <1>3, <1>7, Zenon
  <2>2. /\ Terms(Discounted(o)) = Terms(o) /\ Discounted(o).status = "discounted"
        /\ Discounted(o).events = o.events /\ Discounted(o).callback = o.callback
        /\ Discounted(o).pay = o.pay /\ Discounted(o).handling = o.handling
    BY <1>1 DEF Discounted, Terms, Order
  <2> QED BY <1>1, <1>3, <1>7, <2>1, <2>2 DEF EndedStatus, o
<1>8. CASE i \notin S /\ i \notin C /\ i \notin Q /\ i \notin Converted(S)
  <2>1. orders'[i] = o
    BY <1>2, <1>8, Zenon
  <2> QED BY <1>1, <1>8, <2>1 DEF EndedStatus, o
<1> QED BY <1>4, <1>5, <1>6, <1>7, <1>8

-----------------------------------------------------------------------------
(* Types *)

\* The value a new row takes over is a surplus its buyer has at that moment.
FromSurplus(r, u) == r.surplus = 0 \/ \E s \in Surplus(u) : r.surplus = s.amount /\ r.sids = s.ids

\* Creating and assigning insert one fresh row for a user without an active order, and
\* take its share out of the wallet of that user only, whose forms they make stale.
Inserted(u) ==
    /\ ~HasActive(u)
    /\ \E i \in OrderIds, r \in Order : /\ NewId(i) /\ Fresh(r, u) /\ FromSurplus(r, u)
                                       /\ orders' = [orders EXCEPT ![i] = r]
                                       /\ balance' = [balance EXCEPT ![u] = balance[u] - r.bal]
    /\ balance' \in [Users -> Money] /\ form' \in [Users -> Form]
    /\ \A v \in Users : (form'[v] = form[v] /\ balance'[v] = balance[v]) \/ ~form'[v].fresh
    /\ UNCHANGED <<now, credited, sub, attempts>>

LEMMA PurchaseShape ==
    ASSUME OrdersTypeOK, NEW u \in Users, NEW p \in Plans, NEW d \in Periods, CreateOrder(u, p, d)
    PROVE  Inserted(u)
<1>0. now \in Nat /\ balance[u] \in Money
  BY OrdersConstants DEF OrdersTypeOK, Instants
<1>1. OrderType(u, p, d) \in Types
  BY Zenon DEF OrderType, Types
<1>2. PICK i \in OrderIds, cut \in Discounts,
           s \in (IF OrderType(u, p, d) = "upgrade" THEN Surplus(u) ELSE {NoSurplus}) :
          LET discount == Least(cut, Price[p][d])
              charge == Charge(Price[p][d] - discount, s.amount, balance[u])
          IN  /\ NewId(i)
              /\ orders' = [orders EXCEPT ![i] =
                    NewRow(u, p, d, OrderType(u, p, d), Price[p][d], discount,
                           charge.total, charge.bal, s.amount, charge.credit, s.ids)]
              /\ balance' = [balance EXCEPT ![u] = balance[u] - charge.bal]
              /\ Touch(IF charge.bal > 0 THEN {u} ELSE {})
  BY Zenon DEF CreateOrder, NewRow
<1> DEFINE discount == Least(cut, Price[p][d])
           charge == Charge(Price[p][d] - discount, s.amount, balance[u])
           row == NewRow(u, p, d, OrderType(u, p, d), Price[p][d], discount,
                         charge.total, charge.bal, s.amount, charge.credit, s.ids)
<1>3. s.amount \in Money /\ s.ids \in SUBSET {j \in CompletedOf(u) : orders[j].period # "reset_traffic"}
  <2>1. CASE s \in Surplus(u)
    BY <2>1, SurplusType
  <2>2. CASE s = NoSurplus
    BY <2>2, OrdersConstants DEF NoSurplus, Money
  <2> QED BY <1>2, <2>1, <2>2
<1>4. Price[p][d] \in Money
  BY OrdersConstants DEF CreateOrder, Money
<1>5. discount \in Nat /\ Price[p][d] - discount \in Money /\ discount <= Price[p][d]
  BY <1>4, OrdersConstants DEF Least, Money
<1>6. /\ charge.total \in Money /\ charge.bal \in Money /\ charge.credit \in Money
      /\ charge.bal <= balance[u] /\ charge.credit <= s.amount
      /\ charge.total + charge.bal + s.amount - charge.credit = Price[p][d] - discount
  BY <1>0, <1>3, <1>5, ChargeType
<1>7. /\ NewId(i) /\ orders' = [orders EXCEPT ![i] = row]
      /\ balance' = [balance EXCEPT ![u] = balance[u] - charge.bal]
      /\ Touch(IF charge.bal > 0 THEN {u} ELSE {})
  BY <1>2
<1> HIDE DEF charge, discount
<1>8. Fresh(row, u)
  <2>1. s.amount \in Nat /\ charge.credit \in Nat
    BY <1>3, <1>6, OrdersConstants DEF Money
  <2> QED BY <1>0, <1>1, <1>3, <1>4, <1>5, <1>6, <2>1, NewRowFresh
<1>13. row.bal = charge.bal /\ FromSurplus(row, u)
  <2>1. row.bal = charge.bal /\ row.surplus = s.amount /\ row.sids = s.ids
    BY DEF NewRow, NoOrder
  <2>2. NoSurplus.amount = 0
    BY DEF NoSurplus
  <2> HIDE DEF row
  <2> QED BY <1>2, <2>1, <2>2 DEF FromSurplus
<1> HIDE DEF row
<1>9. balance' \in [Users -> Money]
  <2>1. balance[u] - charge.bal \in Money
    BY <1>0, <1>6, OrdersConstants DEF Money
  <2> QED BY <1>7, <2>1 DEF OrdersTypeOK
<1>10. form' \in [Users -> Form]
  BY <1>7, TouchType DEF OrdersTypeOK
<1>11. ASSUME NEW v \in Users PROVE (form'[v] = form[v] /\ balance'[v] = balance[v]) \/ ~form'[v].fresh
  <2>1. CASE charge.bal > 0 /\ v = u
    BY <1>7, <2>1 DEF Touch, OrdersTypeOK, Form
  <2>2. CASE ~(charge.bal > 0 /\ v = u)
    <3>1. form'[v] = form[v]
      BY <1>7, <2>2 DEF Touch
    <3>2. balance'[v] = balance[v]
      BY <1>0, <1>6, <1>7, <2>2, OrdersConstants DEF OrdersTypeOK, Money
    <3> QED BY <3>1, <3>2
  <2> QED BY <2>1, <2>2
<1>12. row \in Order
  BY <1>8 DEF Fresh
<1> QED BY <1>7, <1>8, <1>9, <1>10, <1>11, <1>12, <1>13 DEF Inserted, CreateOrder

LEMMA AssignShape ==
    ASSUME OrdersTypeOK, NEW u \in Users, NEW p \in Plans, NEW d \in AssignPeriods, AssignOrder(u, p, d)
    PROVE  Inserted(u)
<1>0. now \in Nat /\ d \in Periods
  BY OrdersConstants DEF OrdersTypeOK, Instants
<1>1. AssignedType(u, p, d) \in Types
  <2>1. OrderType(u, p, d) \in Types
    BY Zenon DEF OrderType, Types
  <2> QED BY <2>1 DEF AssignedType, Types
<1>2. PICK i \in OrderIds, total \in AssignTotals :
        NewId(i) /\ orders' = [orders EXCEPT ![i] = AssignedRow(u, p, d, AssignedType(u, p, d), total)]
  BY Zenon DEF AssignOrder, AssignedRow
<1>3. total \in Money
  BY OrdersConstants DEF Money
<1>4. Fresh(AssignedRow(u, p, d, AssignedType(u, p, d), total), u)
  BY <1>0, <1>1, <1>3, AssignedRowFresh
<1>5. AssignedRow(u, p, d, AssignedType(u, p, d), total) \in Order
  BY <1>4 DEF Fresh
<1> DEFINE r == AssignedRow(u, p, d, AssignedType(u, p, d), total)
<1>6. r.bal = 0 /\ r.surplus = 0
  BY DEF AssignedRow, NoOrder
<1>7. orders' = [orders EXCEPT ![i] = r] /\ Fresh(r, u) /\ r \in Order /\ FromSurplus(r, u)
  BY <1>2, <1>4, <1>5, <1>6 DEF FromSurplus
<1> HIDE DEF r
<1>8. balance' = [balance EXCEPT ![u] = balance[u] - r.bal]
  BY <1>6, OrdersConstants DEF AssignOrder, OrdersTypeOK, Money
<1> QED BY <1>2, <1>7, <1>8 DEF Inserted, AssignOrder, OrdersTypeOK

LEMMA InsertedType ==
    ASSUME OrdersTypeOK, NEW u \in Users, Inserted(u)
    PROVE  OrdersTypeOK'
BY DEF Inserted, OrdersTypeOK

LEMMA EndingType ==
    ASSUME OrdersTypeOK, NEW i \in OrderIds,
           CancelOrder(i) \/ CompleteOrder(i) \/ CompletePendingOrder(i)
    PROVE  OrdersTypeOK'
<1>1. orders \in [OrderIds -> Order] /\ {"none", "trade", "admin"} \subseteq Callbacks
  BY DEF OrdersTypeOK, Callbacks
<1>2. CASE CancelOrder(i)
  BY <1>1, <1>2, EndOrdersType DEF CancelOrder
<1>3. CASE CompleteOrder(i)
  BY <1>1, <1>3, EndOrdersType DEF CompleteOrder
<1>4. CASE CompletePendingOrder(i)
  BY <1>1, <1>4, EndOrdersType DEF CompletePendingOrder
<1> QED BY <1>2, <1>3, <1>4

\* The sets and the table of a sweep.
Pending == {i \in Batch : orders[i].status = "pending"}
Processing == {i \in Batch : orders[i].status = "processing"}
Refunded == {i \in Pending : RefundFits(i)}
Swept == [i \in OrderIds |-> IF i \in Refunded THEN Released(orders[i]) ELSE orders[i]]

\* A sweep ends orders that may be ended, from a well-formed table.
LEMMA SweepShape ==
    ASSUME OrdersTypeOK, ProcessStaleOrders
    PROVE  /\ EndOrders(Refunded, Processing, Pending \ Refunded, "trade", Swept)
           /\ \A i \in Processing : CreditFits(i)
           /\ \A i \in Refunded : RefundFits(i) /\ Stale(i)
           /\ Swept \in [OrderIds -> Order] /\ SameOrders(Swept)
           /\ Endable(Refunded, Processing, Pending \ Refunded)
<1>1. /\ EndOrders(Refunded, Processing, Pending \ Refunded, "trade", Swept)
      /\ \A i \in Processing : CreditFits(i)
  BY Zenon DEF ProcessStaleOrders, Pending, Processing, Refunded, Swept
<1>2. \A i \in Batch : i \in OrderIds /\ Stale(i)
  BY DEF Batch, StaleOrders
<1>3. \A i \in Refunded : RefundFits(i) /\ Stale(i)
  BY <1>2 DEF Refunded, Pending
<1>4. ASSUME NEW i \in OrderIds
      PROVE  /\ Released(orders[i]) \in Order /\ orders[i] \in Order
             /\ Terms(Released(orders[i])) = Terms(orders[i])
             /\ Released(orders[i]).status = orders[i].status
             /\ Released(orders[i]).events = orders[i].events
             /\ Released(orders[i]).callback = orders[i].callback
  <2>1. orders[i] \in Order /\ now \in Nat
    BY OrdersConstants DEF OrdersTypeOK, Instants
  <2>2. Released(orders[i]) \in Order
    BY <2>1, RowUpdates
  <2> QED BY <2>1, <2>2 DEF Released, Terms, Order
<1>5. Swept \in [OrderIds -> Order]
  BY <1>4 DEF Swept
<1>6. SameOrders(Swept)
  BY <1>4 DEF Swept, SameOrders
<1>7. Endable(Refunded, Processing, Pending \ Refunded)
  BY <1>2 DEF Endable, Refunded, Pending, Processing, Active
<1> QED BY <1>1, <1>3, <1>5, <1>6, <1>7

LEMMA SweepType ==
    ASSUME OrdersTypeOK, ProcessStaleOrders
    PROVE  OrdersTypeOK'
<1>1. Refunded \in SUBSET OrderIds /\ Processing \in SUBSET OrderIds /\ Pending \ Refunded \in SUBSET OrderIds
  BY SweepShape DEF Endable
<1>2. "trade" \in Callbacks
  BY DEF Callbacks
<1> QED BY <1>1, <1>2, SweepShape, EndOrdersType

LEMMA WalletType ==
    ASSUME OrdersTypeOK, Transfer \/ OpenForm \/ SaveForm
    PROVE  OrdersTypeOK'
<1>1. CASE Transfer
  <2>1. PICK u \in Users, a \in Grants : TransferCommission(u, a)
    BY <1>1 DEF Transfer
  <2>2. balance[u] + a \in Money /\ credited[u] + a \in Int
    BY <2>1, OrdersConstants DEF TransferCommission, OrdersTypeOK, Money
  <2>3. balance' \in [Users -> Money] /\ credited' \in [Users -> Int]
    BY <2>1, <2>2 DEF TransferCommission, OrdersTypeOK
  <2>4. form' \in [Users -> Form]
    BY <2>1, TouchType DEF TransferCommission, OrdersTypeOK
  <2> QED BY <2>1, <2>3, <2>4 DEF TransferCommission, OrdersTypeOK
<1>2. CASE OpenForm
  <2>1. PICK u \in Edited : LoadUserForm(u)
    BY <1>2 DEF OpenForm
  <2>2. [open |-> TRUE, fresh |-> TRUE, balance |-> balance[u]] \in Form
    BY OrdersConstants DEF OrdersTypeOK, Form
  <2> QED BY <2>1, <2>2 DEF LoadUserForm, OrdersTypeOK
<1>3. CASE SaveForm
  <2>1. PICK u \in Edited, value \in Money : \E s \in AdminSubs \cup {sub[u]} : UpdateAdminUser(u, value, s)
    BY <1>3 DEF SaveForm
  <2>2. PICK s \in AdminSubs \cup {sub[u]} : UpdateAdminUser(u, value, s)
    BY <2>1
  <2>3. s \in Subscription
    BY OrdersConstants DEF OrdersTypeOK, Subscription
  <2>4. credited[u] + value - form[u].balance \in Int
    BY OrdersConstants DEF OrdersTypeOK, Form, Money
  <2>5. NoForm \in Form
    BY OrdersConstants DEF NoForm, Form, Money
  <2> QED BY <2>2, <2>3, <2>4, <2>5 DEF UpdateAdminUser, OrdersTypeOK
<1> QED BY <1>1, <1>2, <1>3

\* Every operation of the order store keeps the types.
LEMMA StoreType ==
    ASSUME OrdersTypeOK, Store
    PROVE  OrdersTypeOK'
<1>1. CASE Purchase
  BY <1>1, PurchaseShape, InsertedType DEF Purchase
<1>2. CASE Assign
  BY <1>2, AssignShape, InsertedType DEF Assign
<1>3. CASE Cancel \/ FreeCheckout \/ AdminPaid
  BY <1>3, EndingType DEF Cancel, FreeCheckout, AdminPaid
<1>4. CASE Transfer \/ OpenForm \/ SaveForm
  BY <1>4, WalletType
<1> QED BY <1>1, <1>2, <1>3, <1>4 DEF Store

LEMMA ImportedType ==
    ASSUME NEW u \in Users, NEW p \in Plans, NEW d \in DOMAIN Price[p]
    PROVE  /\ Imported(u, p, d) \in Order
           /\ Imported(u, p, d).status = "processing" /\ Imported(u, p, d).events = 0
           /\ Imported(u, p, d).sids = {} /\ Imported(u, p, d).callback = "none"
           /\ PaidValue(Imported(u, p, d)) = Imported(u, p, d).original - Imported(u, p, d).discount
           /\ Imported(u, p, d).credit <= Imported(u, p, d).surplus
<1>1. Price[p][d] \in Money /\ d \in Periods
  BY OrdersConstants DEF Money
<1>2. Imported(u, p, d) \in Order
  BY <1>1, NoOrderType DEF Imported, Order, Statuses
<1>3. /\ Imported(u, p, d).status = "processing" /\ Imported(u, p, d).events = 0
      /\ Imported(u, p, d).sids = {} /\ Imported(u, p, d).callback = "none"
      /\ Imported(u, p, d).original = Price[p][d] /\ Imported(u, p, d).total = Price[p][d]
      /\ Imported(u, p, d).discount = 0 /\ Imported(u, p, d).bal = 0
      /\ Imported(u, p, d).surplus = 0 /\ Imported(u, p, d).credit = 0
  BY DEF Imported, NoOrder
<1>4. /\ PaidValue(Imported(u, p, d)) = Imported(u, p, d).original - Imported(u, p, d).discount
      /\ Imported(u, p, d).credit <= Imported(u, p, d).surplus
  BY <1>1, <1>3, OrdersConstants DEF PaidValue, Money
<1> QED BY <1>2, <1>3, <1>4

\* The order table at the start: empty, or with one imported order.
InitialRow(r) == r = NoOrder \/ \E u \in Users, p \in Plans : \E d \in DOMAIN Price[p] : r = Imported(u, p, d)

LEMMA InitRows ==
    ASSUME OrdersInit, NEW i \in OrderIds
    PROVE  InitialRow(orders[i]) /\ (i # 1 => orders[i] = NoOrder) /\ orders[i] \in Order
<1>1. InitialRow(orders[i]) /\ (i # 1 => orders[i] = NoOrder)
  <2>1. CASE orders = [j \in OrderIds |-> NoOrder]
    BY <2>1 DEF InitialRow
  <2>2. CASE \E u \in Imports, p \in Plans : \E d \in DOMAIN Price[p] :
                orders = [j \in OrderIds |-> IF j = 1 THEN Imported(u, p, d) ELSE NoOrder]
    <3>0. PICK u \in Imports, p \in Plans : \E d \in DOMAIN Price[p] :
                orders = [j \in OrderIds |-> IF j = 1 THEN Imported(u, p, d) ELSE NoOrder]
      BY <2>2
    <3>1. PICK d \in DOMAIN Price[p] :
                orders = [j \in OrderIds |-> IF j = 1 THEN Imported(u, p, d) ELSE NoOrder]
      BY <3>0
    <3>2. u \in Users
      BY OrdersConstants
    <3>3. orders[i] = IF i = 1 THEN Imported(u, p, d) ELSE NoOrder
      BY <3>1
    <3> QED BY <3>2, <3>3 DEF InitialRow
  <2> QED BY <2>1, <2>2 DEF OrdersInit
<1> QED BY <1>1, ImportedType, NoOrderType DEF InitialRow

LEMMA InitType == Init => TypeOK
<1> SUFFICES ASSUME Init PROVE TypeOK
  OBVIOUS
<1>1. orders \in [OrderIds -> Order]
  <2>1. DOMAIN orders = OrderIds /\ orders = [j \in OrderIds |-> orders[j]]
    BY DEF Init, OrdersInit
  <2> QED BY <2>1, InitRows DEF Init
<1>2. /\ now \in Instants /\ balance \in [Users -> Money] /\ credited \in [Users -> Int]
  BY OrdersConstants DEF Init, OrdersInit, Instants, Money
<1>3. sub \in [Users -> Subscription] /\ form \in [Users -> Form]
  BY OrdersConstants DEF Init, OrdersInit, Subscription, Form, NoForm, Money
<1>4. attempts \in [OrderIds \X Methods -> Attempt]
  BY DEF Init, OrdersInit, Attempt, NoAttempt
<1>5. pages \in [Keys -> Page]
  BY DEF Init, Page, NoPage
<1> QED BY <1>1, <1>2, <1>3, <1>4, <1>5 DEF Init, TypeOK, OrdersTypeOK

LEMMA StartType ==
    ASSUME TypeOK, NEW i \in OrderIds, NEW m \in Methods, StartPaymentCheckout(i, m)
    PROVE  TypeOK'
<1> DEFINE amount == orders[i].total + fee[m]
<1>1. /\ orders[i] \in Order /\ orders[i].total \in Nat /\ fee[m] \in Nat /\ now \in Nat
      /\ amount \in Nat /\ <<i, m>> \in Keys
  <2>1. fee[m] # Off
    BY DEF StartPaymentCheckout, Offered
  <2>2. fee[m] \in Nat
    BY <2>1, CheckoutConstants DEF TypeOK
  <2> QED BY <2>2, OrdersConstants DEF TypeOK, OrdersTypeOK, Order, Money, Instants, Keys
<1>2. /\ attempts' = [attempts EXCEPT ![<<i, m>>] = [st |-> "creating", amount |-> amount, at |-> now]]
      /\ calls' = calls \cup {[key |-> <<i, m>>, amount |-> amount, started |-> now]}
      /\ orders' = [orders EXCEPT ![i] = Bound(orders[i], m, fee[m])]
      /\ UNCHANGED <<now, balance, credited, sub, form, fee, pages, receipts>>
  BY DEF StartPaymentCheckout
<1>3. Bound(orders[i], m, fee[m]) \in Order
  BY <1>1, RowUpdates
<1> HIDE DEF amount
<1>4. attempts' \in [OrderIds \X Methods -> Attempt]
  <2>1. [st |-> "creating", amount |-> amount, at |-> now] \in Attempt
    BY <1>1 DEF Attempt
  <2> QED BY <1>2, <2>1 DEF TypeOK, OrdersTypeOK
<1>5. calls' \subseteq Call
  BY <1>1, <1>2 DEF TypeOK, Call
<1>6. orders' \in [OrderIds -> Order]
  BY <1>2, <1>3 DEF TypeOK, OrdersTypeOK
<1> QED BY <1>2, <1>4, <1>5, <1>6 DEF TypeOK, OrdersTypeOK

LEMMA CachedType ==
    ASSUME TypeOK, NEW i \in OrderIds, NEW m \in Methods, CachedCheckout(i, m)
    PROVE  TypeOK'
<1> DEFINE handling == attempts[<<i, m>>].amount - orders[i].total
<1>1. orders[i] \in Order /\ now \in Nat /\ handling \in Nat
  <2>1. attempts[<<i, m>>] \in Attempt
    BY DEF TypeOK, OrdersTypeOK
  <2> QED BY <2>1, OrdersConstants DEF CachedCheckout, TypeOK, OrdersTypeOK, Order, Money, Instants, Attempt
<1>2. orders' = [orders EXCEPT ![i] = Bound(orders[i], m, handling)]
  BY DEF CachedCheckout
<1> HIDE DEF handling
<1>3. Bound(orders[i], m, handling) \in Order
  BY <1>1, RowUpdates
<1>4. orders' \in [OrderIds -> Order]
  BY <1>2, <1>3 DEF TypeOK, OrdersTypeOK
<1> QED BY <1>4 DEF CachedCheckout, TypeOK, OrdersTypeOK, checkoutVars

LEMMA CallType ==
    ASSUME TypeOK, NEW c \in calls,
           CompletePaymentCheckout(c) \/ FailPaymentCheckout(c) \/ AbandonCall(c)
    PROVE  TypeOK'
<1>1. /\ c \in Call /\ c.key \in Keys /\ c.amount \in Nat /\ now \in Nat
      /\ attempts[c.key] \in Attempt /\ attempts[c.key].amount \in Nat
  BY OrdersConstants DEF TypeOK, OrdersTypeOK, Call, Keys, Attempt, Instants
<1>2. calls' \subseteq Call
  BY DEF CompletePaymentCheckout, FailPaymentCheckout, AbandonCall, TypeOK
<1>3. ASSUME NEW st \in {"created", "failed"}
      PROVE  [attempts EXCEPT ![c.key] = [st |-> st, amount |-> attempts[c.key].amount, at |-> now]]
               \in [OrderIds \X Methods -> Attempt]
  <2>1. [st |-> st, amount |-> attempts[c.key].amount, at |-> now] \in Attempt
    BY <1>1 DEF Attempt
  <2> QED BY <1>1, <2>1 DEF TypeOK, OrdersTypeOK, Keys
<1>4. [pages EXCEPT ![c.key] = [shown |-> TRUE, amount |-> c.amount, at |-> now, paid |-> FALSE]]
        \in [Keys -> Page]
  BY <1>1 DEF TypeOK, Page
<1>5. attempts' \in [OrderIds \X Methods -> Attempt] /\ pages' \in [Keys -> Page]
  BY <1>3, <1>4
  DEF CompletePaymentCheckout, FailPaymentCheckout, AbandonCall, orderVars, TypeOK, OrdersTypeOK
<1> QED BY <1>2, <1>5
    DEF CompletePaymentCheckout, FailPaymentCheckout, AbandonCall, orderVars, TypeOK, OrdersTypeOK

\* A webhook ends an order that may be ended, from a well-formed table.
LEMMA WebhookShape ==
    ASSUME TypeOK, NEW k \in Keys, CompletePaymentWebhook(k)
    PROVE  /\ EndOrders({}, {k[1]}, {}, k[2], [orders EXCEPT ![k[1]] = PaidRow(k)])
           /\ [orders EXCEPT ![k[1]] = PaidRow(k)] \in [OrderIds -> Order]
           /\ SameOrders([orders EXCEPT ![k[1]] = PaidRow(k)])
           /\ Endable({}, {k[1]}, {}) /\ k[1] \in OrderIds /\ k[2] \in Methods /\ k[2] \in Callbacks
           /\ PaidRow(k).pay = k[2] /\ PaidRow(k).handling = pages[k].amount - orders[k[1]].total
<1>1. k[1] \in OrderIds /\ k[2] \in Methods /\ k[2] \in Callbacks
  BY DEF Keys, Callbacks
<1> DEFINE h == pages[k].amount - orders[k[1]].total
<1>2. h \in Nat /\ orders[k[1]] \in Order /\ now \in Nat
  BY <1>1, OrdersConstants
  DEF CompletePaymentWebhook, Verified, TypeOK, OrdersTypeOK, Page, Order, Money, Instants
<1>3. PaidRow(k) = Bound(orders[k[1]], k[2], h)
  BY DEF PaidRow
<1> HIDE DEF h
<1>4. PaidRow(k) \in Order
  BY <1>1, <1>2, <1>3, RowUpdates
<1>5. /\ Terms(PaidRow(k)) = Terms(orders[k[1]]) /\ PaidRow(k).status = orders[k[1]].status
      /\ PaidRow(k).events = orders[k[1]].events /\ PaidRow(k).callback = orders[k[1]].callback
      /\ PaidRow(k).pay = k[2] /\ PaidRow(k).handling = h
  BY <1>2, <1>3 DEF Bound, Order, Terms
<1>6. /\ [orders EXCEPT ![k[1]] = PaidRow(k)] \in [OrderIds -> Order]
      /\ SameOrders([orders EXCEPT ![k[1]] = PaidRow(k)])
  BY <1>1, <1>4, <1>5 DEF TypeOK, OrdersTypeOK, SameOrders
<1>7. Endable({}, {k[1]}, {})
  BY <1>1 DEF Endable, CompletePaymentWebhook
<1> QED BY <1>1, <1>5, <1>6, <1>7 DEF CompletePaymentWebhook, h

LEMMA WebhookType ==
    ASSUME TypeOK, NEW k \in Keys, CompletePaymentWebhook(k)
    PROVE  TypeOK'
<1>1. OrdersTypeOK'
  BY WebhookShape, EndOrdersType DEF TypeOK, CompletePaymentWebhook, Endable
<1> QED BY <1>1 DEF CompletePaymentWebhook, TypeOK

\* Every step keeps the types.
LEMMA StepType == TypeOK /\ [Next]_vars => TypeOK'
<1> SUFFICES ASSUME TypeOK, [Next]_vars PROVE TypeOK'
  OBVIOUS
<1>1. CASE Start
  BY <1>1, StartType DEF Start
<1>2. CASE Cached
  BY <1>2, CachedType DEF Cached
<1>3. CASE CallMade \/ CallFailed \/ CallLost
  BY <1>3, CallType DEF CallMade, CallFailed, CallLost
<1>4. CASE Paid
  <2>1. PICK k \in Keys : Pay(k)
    BY <1>4 DEF Paid
  <2>2. [pages[k] EXCEPT !.paid = TRUE] \in Page
    BY DEF TypeOK, Page
  <2>3. pages' = [pages EXCEPT ![k] = [pages[k] EXCEPT !.paid = TRUE]]
    BY <2>1 DEF Pay
  <2>4. pages' \in [Keys -> Page]
    BY <2>2, <2>3 DEF TypeOK
  <2> QED BY <2>1, <2>4 DEF Pay, TypeOK, OrdersTypeOK, orderVars
<1>5. CASE Late
  BY <1>5 DEF Late, LateWebhook, TypeOK, OrdersTypeOK, orderVars
<1>6. CASE Webhook
  BY <1>6, WebhookType DEF Webhook
<1>7. CASE Edit
  BY <1>7 DEF Edit, EditPayment, TypeOK, OrdersTypeOK, orderVars
<1>8. CASE Advance
  BY <1>8, OrdersConstants DEF Advance, Tick, TypeOK, OrdersTypeOK, checkoutVars, Instants
<1>9. CASE Sweep
  BY <1>9, SweepType DEF Sweep, TypeOK, checkoutVars
<1>10. CASE Store
  BY <1>10, StoreType DEF Store, TypeOK, checkoutVars
<1>11. CASE UNCHANGED vars
  BY <1>11 DEF vars, orderVars, checkoutVars, TypeOK, OrdersTypeOK
<1> QED BY <1>1, <1>2, <1>3, <1>4, <1>5, <1>6, <1>7, <1>8, <1>9, <1>10, <1>11 DEF Next

\* Every table holds well-formed rows, and no refund, change, transfer or administrator's
\* save ever takes a wallet out of 0..MaxMoney.
THEOREM TypeCorrect == Spec => []TypeOK
BY InitType, StepType, PTL DEF Spec

-----------------------------------------------------------------------------
(* Orders.  Seen from the order table, every step either inserts one row or   *)
(* ends some orders (possibly none), so that each invariant is shown for      *)
(* these two cases only.                                                      *)

Ended(C, S) ==
    /\ C \in SUBSET OrderIds /\ S \in SUBSET OrderIds
    /\ \A i \in C : orders[i].status = "pending" /\ i \notin S
    /\ \A i \in S : orders[i].status \in Active
    /\ \A i \in OrderIds :
          /\ Terms(orders'[i]) = Terms(orders[i])
          /\ orders'[i].status = EndedStatus(i, C, S)
          /\ orders'[i].events = (IF i \in S THEN orders[i].events + 1 ELSE orders[i].events)

LEMMA TermsFields ==
    ASSUME NEW n, NEW o, Terms(n) = Terms(o)
    PROVE  /\ n.user = o.user /\ n.period = o.period /\ n.sids = o.sids /\ n.total = o.total
           /\ n.credit = o.credit /\ n.surplus = o.surplus /\ n.created = o.created
           /\ n.bal = o.bal /\ n.original = o.original /\ n.discount = o.discount
           /\ PaidValue(n) = PaidValue(o)
BY DEF Terms, PaidValue

LEMMA EndOrdersEnds ==
    ASSUME OrdersTypeOK, NEW C, NEW S, NEW Q, NEW cb \in Callbacks,
           NEW table \in [OrderIds -> Order], Endable(C, S, Q), SameOrders(table),
           EndOrders(C, S, Q, cb, table)
    PROVE  Ended(C, S)
BY EndOrdersRows, SMTT(30) DEF Ended, Endable

LEMMA UnchangedEnds ==
    ASSUME orders' = orders
    PROVE  Ended({}, {})
BY DEF Ended, EndedStatus, Converted

LEMMA BoundEnds ==
    ASSUME OrdersTypeOK, NEW i \in OrderIds, NEW m, NEW h, orders' = [orders EXCEPT ![i] = Bound(orders[i], m, h)]
    PROVE  Ended({}, {})
<1>1. /\ Terms(Bound(orders[i], m, h)) = Terms(orders[i])
      /\ Bound(orders[i], m, h).status = orders[i].status
      /\ Bound(orders[i], m, h).events = orders[i].events
  BY DEF Bound, Terms, OrdersTypeOK, Order
<1>2. ASSUME NEW j \in OrderIds
      PROVE  /\ Terms(orders'[j]) = Terms(orders[j]) /\ orders'[j].status = orders[j].status
             /\ orders'[j].events = orders[j].events
  BY <1>1 DEF OrdersTypeOK
<1> QED BY <1>2 DEF Ended, EndedStatus, Converted

LEMMA EndingEnds ==
    ASSUME OrdersTypeOK, NEW i \in OrderIds,
           CancelOrder(i) \/ CompleteOrder(i) \/ CompletePendingOrder(i)
    PROVE  \E C, S : Ended(C, S)
<1>1. {"none", "trade", "admin"} \subseteq Callbacks /\ orders \in [OrderIds -> Order]
      /\ SameOrders(orders) /\ orders[i].status = "pending"
  BY DEF Callbacks, OrdersTypeOK, SameOrders, CancelOrder, CompleteOrder, CompletePendingOrder
<1>2. Endable({i}, {}, {}) /\ Endable({}, {i}, {})
  BY <1>1 DEF Endable, Active
<1>3. CASE CancelOrder(i)
  <2>1. EndOrders({i}, {}, {}, "none", orders)
    BY <1>3 DEF CancelOrder
  <2>2. Ended({i}, {})
    BY <1>1, <1>2, <2>1, EndOrdersEnds
  <2> QED BY <2>2
<1>4. CASE CompleteOrder(i)
  <2>1. EndOrders({}, {i}, {}, "trade", orders)
    BY <1>4 DEF CompleteOrder
  <2>2. Ended({}, {i})
    BY <1>1, <1>2, <2>1, EndOrdersEnds
  <2> QED BY <2>2
<1>5. CASE CompletePendingOrder(i)
  <2>1. EndOrders({}, {i}, {}, "admin", orders)
    BY <1>5 DEF CompletePendingOrder
  <2>2. Ended({}, {i})
    BY <1>1, <1>2, <2>1, EndOrdersEnds
  <2> QED BY <2>2
<1> QED BY <1>3, <1>4, <1>5

LEMMA StepShape ==
    ASSUME TypeOK, [Next]_vars
    PROVE  (\E u \in Users : Inserted(u)) \/ (\E C, S : Ended(C, S))
<1>0. OrdersTypeOK /\ "trade" \in Callbacks
  BY DEF TypeOK, Callbacks
<1>1. CASE Start
  <2>1. PICK i \in OrderIds, m \in Methods : orders' = [orders EXCEPT ![i] = Bound(orders[i], m, fee[m])]
    BY <1>1 DEF Start, StartPaymentCheckout
  <2> QED BY <1>0, <2>1, BoundEnds
<1>2. CASE Cached
  <2>1. PICK i \in OrderIds, m \in Methods :
            orders' = [orders EXCEPT ![i] = Bound(orders[i], m, attempts[<<i, m>>].amount - orders[i].total)]
    BY <1>2 DEF Cached, CachedCheckout
  <2> QED BY <1>0, <2>1, BoundEnds
<1>3. CASE Webhook
  <2>1. PICK k \in Keys : CompletePaymentWebhook(k)
    BY <1>3 DEF Webhook
  <2>2. Ended({}, {k[1]})
    BY <1>0, <2>1, WebhookShape, EndOrdersEnds
  <2> QED BY <2>2
<1>4. CASE Sweep
  <2>1. Ended(Refunded, Processing)
    BY <1>0, <1>4, SweepShape, EndOrdersEnds DEF Sweep
  <2> QED BY <2>1
<1>5. CASE Store
  <2>1. CASE Purchase
    BY <1>0, <2>1, PurchaseShape DEF Purchase
  <2>2. CASE Assign
    BY <1>0, <2>2, AssignShape DEF Assign
  <2>3. CASE Cancel \/ FreeCheckout \/ AdminPaid
    BY <1>0, <2>3, EndingEnds DEF Cancel, FreeCheckout, AdminPaid
  <2>4. CASE Transfer \/ OpenForm \/ SaveForm
    <3>1. orders' = orders
      BY <2>4 DEF Transfer, OpenForm, SaveForm, TransferCommission, LoadUserForm, UpdateAdminUser
    <3> QED BY <3>1, UnchangedEnds
  <2> QED BY <1>5, <2>1, <2>2, <2>3, <2>4 DEF Store
<1>6. CASE CallMade \/ CallFailed \/ CallLost \/ Paid \/ Late \/ Edit \/ Advance \/ UNCHANGED vars
  <2>1. orders' = orders
    BY <1>6 DEF CallMade, CallFailed, CallLost, Paid, Late, Edit, Advance, vars, orderVars,
       CompletePaymentCheckout, FailPaymentCheckout, AbandonCall, Pay, LateWebhook, EditPayment, Tick
  <2> QED BY <2>1, UnchangedEnds
<1> QED BY <1>1, <1>2, <1>3, <1>4, <1>5, <1>6 DEF Next

\* SurplusConsumedOnce with what makes it inductive: the orders counted were settled, and
\* conversion takes every one of them.
SurplusKept ==
    \A i \in OrderIds : \A j \in orders[i].sids :
        /\ orders[j].status \in Settled /\ orders[j].period # "reset_traffic"
        /\ orders[j].user = orders[i].user
        /\ orders[i].status \in Active => orders[j].status = "completed"
        /\ orders[i].status \in Settled => orders[j].status = "discounted"
        /\ \A k \in OrderIds :
              orders[i].status \in Settled /\ orders[k].status \in Settled /\ j \in orders[k].sids => i = k

OrdersInv == OneActiveOrder /\ NetPriceKept /\ EntitledOnce /\ SurplusKept

LEMMA InsertKeeps ==
    ASSUME OrdersTypeOK, OrdersInv, NEW u \in Users, Inserted(u)
    PROVE  OrdersInv'
<1>1. PICK i \in OrderIds, r \in Order : NewId(i) /\ Fresh(r, u) /\ orders' = [orders EXCEPT ![i] = r]
  BY DEF Inserted
<1>2. orders'[i] = r /\ \A j \in OrderIds \ {i} : orders'[j] = orders[j]
  BY <1>1 DEF OrdersTypeOK
<1>3. orders[i].status = "absent"
  BY <1>1, OrdersConstants DEF NewId, OrderIds
<1>4. OneActiveOrder'
  BY <1>1, <1>2 DEF OrdersInv, OneActiveOrder, Inserted, HasActive, Fresh
<1>5. NetPriceKept'
  BY <1>1, <1>2 DEF OrdersInv, NetPriceKept, Fresh, PaidValue
<1>6. EntitledOnce'
  BY <1>1, <1>2 DEF OrdersInv, EntitledOnce, Fresh, Settled
<1>7. SurplusKept'
  <2>1. \A j \in r.sids : j \in OrderIds \ {i} /\ orders[j].user = u /\ orders[j].status = "completed"
                          /\ orders[j].period # "reset_traffic"
    BY <1>1, <1>3 DEF Fresh, CompletedOf
  <2>2. \A n \in OrderIds : \A j \in orders[n].sids : j \in OrderIds \ {i}
    BY <1>3 DEF OrdersInv, SurplusKept, OrdersTypeOK, Order, Settled
  <2>3. r.status = "pending" /\ r.user = u
    BY <1>1 DEF Fresh
  <2> QED BY <1>2, <2>1, <2>2, <2>3 DEF OrdersInv, SurplusKept, Settled, Active
<1> QED BY <1>4, <1>5, <1>6, <1>7 DEF OrdersInv

LEMMA EndKeeps ==
    ASSUME OrdersTypeOK, OrdersInv, NEW C, NEW S, Ended(C, S)
    PROVE  OrdersInv'
<1>1. ASSUME NEW i \in OrderIds
      PROVE  /\ orders'[i].user = orders[i].user /\ orders'[i].period = orders[i].period
             /\ orders'[i].sids = orders[i].sids /\ orders'[i].credit = orders[i].credit
             /\ orders'[i].surplus = orders[i].surplus /\ orders'[i].original = orders[i].original
             /\ orders'[i].discount = orders[i].discount /\ PaidValue(orders'[i]) = PaidValue(orders[i])
             /\ orders'[i].status = EndedStatus(i, C, S)
             /\ orders'[i].events = (IF i \in S THEN orders[i].events + 1 ELSE orders[i].events)
  <2>1. Terms(orders'[i]) = Terms(orders[i])
    BY DEF Ended
  <2> QED BY <2>1, TermsFields DEF Ended
<1>2. ASSUME NEW i \in OrderIds, orders'[i].status \in Active
      PROVE  orders[i].status = orders'[i].status /\ i \notin S /\ i \notin C
  BY <1>1, <1>2 DEF EndedStatus, Active
<1>3. OneActiveOrder'
  BY <1>1, <1>2 DEF OrdersInv, OneActiveOrder
<1>4. NetPriceKept'
  <2> SUFFICES ASSUME NEW i \in OrderIds
               PROVE  /\ PaidValue(orders'[i]) = orders'[i].original - orders'[i].discount
                      /\ orders'[i].credit <= orders'[i].surplus
    BY DEF NetPriceKept, PaidValue
  <2> QED BY <1>1 DEF OrdersInv, NetPriceKept
<1>5. EntitledOnce'
  <2> SUFFICES ASSUME NEW i \in OrderIds
               PROVE  orders'[i].events = (IF orders'[i].status \in Settled THEN 1 ELSE 0)
    BY DEF EntitledOnce
  <2>1. orders[i].events = (IF orders[i].status \in Settled THEN 1 ELSE 0)
    BY DEF OrdersInv, EntitledOnce
  <2>2. CASE i \in S
    BY <1>1, <2>1, <2>2 DEF Ended, EndedStatus, Settled, Active
  <2>3. CASE i \in C
    BY <1>1, <2>1, <2>3 DEF Ended, EndedStatus, Settled
  <2>4. CASE i \notin S /\ i \notin C
    BY <1>1, <2>1, <2>4 DEF EndedStatus, Settled, Converted
  <2> QED BY <2>2, <2>3, <2>4
<1>6. SurplusKept'
  <2>1. ASSUME NEW i \in OrderIds, orders'[i].status \in Settled, i \notin S
        PROVE  orders[i].status \in Settled
    BY <1>1, <2>1 DEF EndedStatus, Settled, Converted
  <2>2. ASSUME NEW j \in OrderIds, orders[j].status \in Settled
        PROVE  /\ orders'[j].status \in Settled /\ j \notin S /\ j \notin C
               /\ orders[j].status = "discounted" => orders'[j].status = "discounted"
               /\ orders'[j].status = orders[j].status \/ j \in Converted(S)
    BY <1>1, <2>2 DEF EndedStatus, Settled, Active, Ended
  <2> SUFFICES ASSUME NEW i \in OrderIds, NEW j \in orders'[i].sids
               PROVE  /\ orders'[j].status \in Settled /\ orders'[j].period # "reset_traffic"
                      /\ orders'[j].user = orders'[i].user
                      /\ orders'[i].status \in Active => orders'[j].status = "completed"
                      /\ orders'[i].status \in Settled => orders'[j].status = "discounted"
                      /\ \A k \in OrderIds :
                            orders'[i].status \in Settled /\ orders'[k].status \in Settled
                              /\ j \in orders'[k].sids => i = k
    BY DEF SurplusKept
  <2>3. j \in orders[i].sids /\ j \in OrderIds
    BY <1>1 DEF OrdersTypeOK, Order
  <2>4. /\ orders[j].status \in Settled /\ orders[j].period # "reset_traffic"
        /\ orders[j].user = orders[i].user
        /\ orders[i].status \in Active => orders[j].status = "completed"
        /\ orders[i].status \in Settled => orders[j].status = "discounted"
        /\ \A k \in OrderIds :
              orders[i].status \in Settled /\ orders[k].status \in Settled /\ j \in orders[k].sids => i = k
    BY <2>3 DEF OrdersInv, SurplusKept
  <2>5. ASSUME NEW k \in OrderIds, j \in orders[k].sids
        PROVE  /\ orders[k].user = orders[j].user
               /\ orders[k].status \in Active => orders[j].status = "completed"
               /\ orders[k].status \in Settled => orders[j].status = "discounted"
    BY <2>5 DEF OrdersInv, SurplusKept
  <2>6. ASSUME orders'[i].status \in Active PROVE orders'[j].status = "completed"
    <3>1. orders[i].status \in Active /\ i \notin S
      BY <1>2, <2>6
    <3>2. j \notin Converted(S)
      BY <2>4, <3>1 DEF Converted, Ended, OrdersInv, OneActiveOrder
    <3> QED BY <2>2, <2>3, <2>4, <3>1, <3>2
  <2>7. ASSUME orders'[i].status \in Settled PROVE orders'[j].status = "discounted"
    <3>1. CASE i \in S
      <4>1. j \in Converted(S)
        BY <2>3, <2>4, <3>1 DEF Converted, Ended
      <4> QED BY <1>1, <2>2, <2>3, <2>4, <4>1 DEF EndedStatus
    <3>2. CASE i \notin S
      BY <2>1, <2>2, <2>3, <2>4, <2>7, <3>2
    <3> QED BY <3>1, <3>2
  <2>8. ASSUME NEW k \in OrderIds, orders'[i].status \in Settled, orders'[k].status \in Settled, j \in orders'[k].sids
        PROVE  i = k
    <3>1. j \in orders[k].sids
      BY <1>1, <2>8
    <3>2. CASE i \in S /\ k \in S
      BY <2>4, <2>5, <3>1, <3>2 DEF Ended, OrdersInv, OneActiveOrder
    <3>3. CASE i \in S /\ k \notin S
      BY <2>1, <2>4, <2>5, <2>8, <3>1, <3>3 DEF Ended
    <3>4. CASE i \notin S /\ k \in S
      BY <2>1, <2>4, <2>5, <2>8, <3>1, <3>4 DEF Ended
    <3>5. CASE i \notin S /\ k \notin S
      BY <2>1, <2>4, <2>8, <3>1, <3>5
    <3> QED BY <3>2, <3>3, <3>4, <3>5
  <2> QED BY <1>1, <2>2, <2>3, <2>4, <2>6, <2>7, <2>8
<1> QED BY <1>3, <1>4, <1>5, <1>6 DEF OrdersInv

LEMMA InitOrders == Init => OrdersInv
<1> SUFFICES ASSUME Init PROVE OrdersInv
  OBVIOUS
<1>1. \A i \in OrderIds : /\ orders[i].events = 0 /\ orders[i].sids = {}
                          /\ orders[i].status \in {"absent", "processing"}
                          /\ (i # 1 => orders[i].status = "absent")
                          /\ PaidValue(orders[i]) = orders[i].original - orders[i].discount
                          /\ orders[i].credit <= orders[i].surplus
  <2>1. /\ NoOrder.events = 0 /\ NoOrder.sids = {} /\ NoOrder.status = "absent"
        /\ PaidValue(NoOrder) = NoOrder.original - NoOrder.discount /\ NoOrder.credit <= NoOrder.surplus
    BY DEF NoOrder, PaidValue
  <2> QED BY <2>1, InitRows, ImportedType DEF Init, InitialRow
<1> QED BY <1>1 DEF OrdersInv, OneActiveOrder, NetPriceKept, EntitledOnce, SurplusKept, Active, Settled

LEMMA StepOrders == TypeOK /\ OrdersInv /\ [Next]_vars => OrdersInv'
BY StepShape, InsertKeeps, EndKeeps DEF TypeOK

\* A user has at most one open order; every order's split adds up; its entitlement is
\* applied once; and what a plan change converts is converted by that change alone, for any
\* interleaving of purchases, checkouts, webhooks, cancellations and sweeps.
THEOREM OrdersCorrect ==
    Spec => [](OrdersOnce /\ NetPriceKept /\ SurplusConsumedOnce)
<1>1. OrdersInv => OrdersOnce /\ NetPriceKept /\ SurplusConsumedOnce
  BY DEF OrdersInv, SurplusKept, SurplusConsumedOnce, OrdersOnce
<1> QED BY <1>1, TypeCorrect, InitOrders, StepOrders, PTL DEF Spec

-----------------------------------------------------------------------------
(* Histories of orders, and the forms of administrators *)

LEMMA StepHistory ==
    ASSUME TypeOK, [Next]_vars, NEW i \in OrderIds
    PROVE  /\ orders'[i].status = orders[i].status
                \/ <<orders[i].status, orders'[i].status>> \in LegalMoves
           /\ orders[i].status = "absent" \/ Terms(orders'[i]) = Terms(orders[i])
           /\ orders[i].status \in Settled => orders'[i].status \in Settled
<1>1. ASSUME NEW u \in Users, Inserted(u)
      PROVE  /\ orders'[i] = orders[i]
                \/ (orders[i].status = "absent" /\ orders'[i].status = "pending")
  <2>1. PICK j \in OrderIds, r \in Order : NewId(j) /\ Fresh(r, u) /\ orders' = [orders EXCEPT ![j] = r]
    BY <1>1 DEF Inserted
  <2>2. orders[j].status = "absent"
    BY <2>1, OrdersConstants DEF NewId, OrderIds
  <2> QED BY <2>1, <2>2 DEF Fresh, TypeOK, OrdersTypeOK
<1>2. ASSUME NEW C, NEW S, Ended(C, S)
      PROVE  /\ Terms(orders'[i]) = Terms(orders[i])
             /\ orders'[i].status = orders[i].status
                \/ <<orders[i].status, orders'[i].status>> \in LegalMoves
             /\ orders[i].status \in Settled => orders'[i].status \in Settled
  BY <1>2 DEF Ended, EndedStatus, Converted, LegalMoves, Active, Settled
<1> QED BY <1>1, <1>2, StepShape DEF LegalMoves, Settled

\* No operation revives, re-opens or re-prices an order.
THEOREM HistoryCorrect == Spec => OrderHistory
<1>1. TypeOK /\ [Next]_vars =>
        [\A i \in OrderIds :
           /\ orders'[i].status = orders[i].status
                \/ <<orders[i].status, orders'[i].status>> \in LegalMoves
           /\ orders[i].status = "absent" \/ Terms(orders'[i]) = Terms(orders[i])]_orderVars
  BY StepHistory
<1> QED BY <1>1, TypeCorrect, PTL DEF Spec, OrderHistory

\* A form that was not made stale still shows the stored balance.
FormStep(u) == \/ ~form'[u].fresh \/ form'[u].balance = balance'[u]
               \/ (form'[u] = form[u] /\ balance'[u] = balance[u])

LEMMA EndForms ==
    ASSUME OrdersTypeOK, NEW C, NEW S, NEW Q, NEW cb, NEW table, EndOrders(C, S, Q, cb, table),
           Endable(C, S, Q), NEW u \in Users
    PROVE  FormStep(u)
<1>1. CASE u \in Touched(C, S)
  BY <1>1 DEF EndOrders, Touch, FormStep, OrdersTypeOK, Form
<1>2. CASE u \notin Touched(C, S)
  <2>1. form'[u] = form[u]
    BY <1>2 DEF EndOrders, Touch
  <2>2. ~In(u, S) /\ (In(u, C) => ~(orders[OrderOf(u, C)].bal > 0))
    BY <1>2 DEF Touched
  <2>3. In(u, C) => orders[OrderOf(u, C)].bal = 0
    BY <2>2, OrderOfIn, OrdersConstants DEF Endable, OrdersTypeOK, Order, Money
  <2>4. EndBalance(u, C, S) = balance[u]
    BY <2>2, <2>3, OrdersConstants DEF EndBalance, OrdersTypeOK, Money
  <2>5. balance'[u] = balance[u]
    BY <2>4 DEF EndOrders
  <2> QED BY <2>1, <2>5 DEF FormStep
<1> QED BY <1>1, <1>2

LEMMA StepForms ==
    ASSUME TypeOK, [Next]_vars, NEW u \in Users
    PROVE  FormStep(u)
<1>0. OrdersTypeOK
  BY DEF TypeOK
<1>1. CASE Webhook
  <2>1. PICK k \in Keys : CompletePaymentWebhook(k)
    BY <1>1 DEF Webhook
  <2> QED BY <1>0, <2>1, WebhookShape, EndForms
<1>2. CASE Sweep
  BY <1>0, <1>2, SweepShape, EndForms DEF Sweep
<1>3. CASE Store
  <2>1. CASE Purchase \/ Assign
    BY <1>0, <2>1, PurchaseShape, AssignShape DEF Purchase, Assign, Inserted, FormStep
  <2>2. CASE Cancel \/ FreeCheckout \/ AdminPaid
    <3>1. PICK i \in OrderIds : CancelOrder(i) \/ CompleteOrder(i) \/ CompletePendingOrder(i)
      BY <2>2 DEF Cancel, FreeCheckout, AdminPaid
    <3>2. Endable({i}, {}, {}) /\ Endable({}, {i}, {})
      BY <3>1 DEF Endable, Active, CancelOrder, CompleteOrder, CompletePendingOrder
    <3>3. \/ EndOrders({i}, {}, {}, "none", orders)
          \/ EndOrders({}, {i}, {}, "trade", orders)
          \/ EndOrders({}, {i}, {}, "admin", orders)
      BY <3>1 DEF CancelOrder, CompleteOrder, CompletePendingOrder
    <3> QED BY <1>0, <3>2, <3>3, EndForms
  <2>3. CASE Transfer
    <3>1. PICK v \in Users, a \in Grants : TransferCommission(v, a)
      BY <2>3 DEF Transfer
    <3>2. CASE u = v
      BY <1>0, <3>1, <3>2 DEF TransferCommission, Touch, FormStep, OrdersTypeOK, Form
    <3>3. CASE u # v
      BY <1>0, <3>1, <3>3 DEF TransferCommission, Touch, FormStep, OrdersTypeOK
    <3> QED BY <3>2, <3>3
  <2>4. CASE OpenForm
    <3>1. PICK v \in Edited : LoadUserForm(v)
      BY <2>4 DEF OpenForm
    <3> QED BY <1>0, <3>1 DEF LoadUserForm, FormStep, OrdersTypeOK
  <2>5. CASE SaveForm
    <3>1. PICK v \in Edited, value \in Money : \E s \in AdminSubs \cup {sub[v]} : UpdateAdminUser(v, value, s)
      BY <2>5 DEF SaveForm
    <3>2. balance' = [balance EXCEPT ![v] = value] /\ form' = [form EXCEPT ![v] = NoForm]
      BY <3>1 DEF UpdateAdminUser
    <3>3. ~NoForm.fresh
      BY DEF NoForm
    <3>4. CASE u = v
      BY <1>0, <3>2, <3>3, <3>4 DEF FormStep, OrdersTypeOK
    <3>5. CASE u # v
      BY <1>0, <3>2, <3>5 DEF FormStep, OrdersTypeOK
    <3> QED BY <3>4, <3>5
  <2> QED BY <1>3, <2>1, <2>2, <2>3, <2>4, <2>5 DEF Store
<1>4. CASE Start \/ Cached \/ CallMade \/ CallFailed \/ CallLost \/ Paid \/ Late \/ Edit \/ Advance \/ UNCHANGED vars
  <2>1. form' = form /\ balance' = balance
    BY <1>4 DEF Start, Cached, CallMade, CallFailed, CallLost, Paid, Late, Edit, Advance, vars, orderVars,
       StartPaymentCheckout, CachedCheckout, CompletePaymentCheckout, FailPaymentCheckout, AbandonCall,
       Pay, LateWebhook, EditPayment, Tick
  <2> QED BY <2>1 DEF FormStep
<1> QED BY <1>1, <1>2, <1>3, <1>4 DEF Next

\* A form whose revision is current shows the current balance: whatever writes a wallet,
\* no administrator's save overwrites it with an older value.
THEOREM FormsCorrect == Spec => []FormsCurrent
<1>1. Init => FormsCurrent
  <2>1. ~NoForm.open
    BY DEF NoForm
  <2> QED BY <2>1 DEF Init, OrdersInit, FormsCurrent
<1>2. TypeOK /\ FormsCurrent /\ [Next]_vars => FormsCurrent'
  BY StepForms DEF FormsCurrent, FormStep
<1> QED BY <1>1, <1>2, TypeCorrect, PTL DEF Spec

-----------------------------------------------------------------------------
(* Checkouts: the parts of the inductive invariant *)

\* A call in flight owns its attempt, is younger than the client's limit, was started
\* before the order timed out, and its order is still there.
CallsInv ==
    \A c \in calls :
        /\ attempts[c.key] = [st |-> "creating", amount |-> c.amount, at |-> c.started]
        /\ c.started <= now /\ now <= c.started + CallTimeout
        /\ orders[c.key[1]].status \notin {"absent", "cancelled"}
        /\ c.started < orders[c.key[1]].created + Timeout

\* A page that was shown is the page of its attempt, and protects its order.
PagesInv ==
    \A k \in Keys :
        /\ pages[k].paid => pages[k].shown
        /\ pages[k].shown =>
              /\ attempts[k] = [st |-> "created", amount |-> pages[k].amount, at |-> pages[k].at]
              /\ orders[k[1]].status # "absent"
              /\ now < pages[k].at + Grace /\ now < orders[k[1]].created + Timeout + Grace
                   => orders[k[1]].status # "cancelled"

\* An order without an outcome names no payment.
NoCallback == \A i \in OrderIds : orders[i].status \notin Settled => orders[i].callback = "none"

ReceiptsInv == \A k \in receipts : orders[k[1]].status \in Settled /\ pages[k].shown

CheckoutInv == CallsInv /\ PagesInv /\ NoCallback /\ ReceiptsInv /\ SettledBinding

LEMMA InitCheckout == Init => CheckoutInv
<1> SUFFICES ASSUME Init PROVE CheckoutInv
  OBVIOUS
<1>1. \A k \in Keys : ~pages[k].paid /\ ~pages[k].shown
  BY DEF Init, NoPage
<1>2. \A i \in OrderIds : orders[i].callback = "none"
  <2>1. NoOrder.callback = "none"
    BY DEF NoOrder
  <2> QED BY <2>1, InitRows, ImportedType DEF Init, InitialRow
<1>3. \A k \in Keys : k[1] \in OrderIds /\ k[2] # "none"
  BY OrdersConstants DEF Keys
<1> QED BY <1>1, <1>2, <1>3 DEF Init, CheckoutInv, CallsInv, PagesInv, NoCallback, ReceiptsInv, SettledBinding

\* An order that exists keeps its terms and its place in the table.
LEMMA RowStays ==
    ASSUME TypeOK, [Next]_vars, NEW i \in OrderIds, orders[i].status # "absent"
    PROVE  /\ orders'[i].created = orders[i].created /\ orders'[i].total = orders[i].total
           /\ orders'[i].status # "absent"
<1>1. Terms(orders'[i]) = Terms(orders[i])
  BY StepHistory
<1>2. orders'[i].status # "absent"
  BY StepHistory DEF LegalMoves
<1> QED BY <1>1, <1>2, TermsFields

\* Only CancelOrder and the sweep cancel, the first without a checkout under way, the
\* second without one that protects the order; neither touches the checkout's tables.
LEMMA CancelCause ==
    ASSUME TypeOK, [Next]_vars, NEW i \in OrderIds,
           orders[i].status # "cancelled", orders'[i].status = "cancelled"
    PROVE  /\ ~ActiveCheckout(i) \/ (orders[i].created <= now - Timeout /\ ~Protected(i))
           /\ UNCHANGED <<now, attempts, calls, pages>>
<1>0. OrdersTypeOK /\ "trade" \in Callbacks /\ "none" \in Callbacks /\ "admin" \in Callbacks
      /\ orders \in [OrderIds -> Order] /\ SameOrders(orders)
  BY DEF TypeOK, Callbacks, OrdersTypeOK, SameOrders
<1>1. ASSUME NEW S, Ended({}, S) PROVE FALSE
  BY <1>1 DEF Ended, EndedStatus
<1>2. CASE Start
  <2>1. PICK j \in OrderIds, m \in Methods : orders' = [orders EXCEPT ![j] = Bound(orders[j], m, fee[m])]
    BY <1>2 DEF Start, StartPaymentCheckout
  <2> QED BY <1>0, <1>1, <2>1, BoundEnds
<1>3. CASE Cached
  <2>1. PICK j \in OrderIds, m \in Methods :
            orders' = [orders EXCEPT ![j] = Bound(orders[j], m, attempts[<<j, m>>].amount - orders[j].total)]
    BY <1>3 DEF Cached, CachedCheckout
  <2> QED BY <1>0, <1>1, <2>1, BoundEnds
<1>4. CASE Webhook
  <2>1. PICK k \in Keys : CompletePaymentWebhook(k)
    BY <1>4 DEF Webhook
  <2>2. Ended({}, {k[1]})
    BY <1>0, <2>1, WebhookShape, EndOrdersEnds
  <2> QED BY <1>1, <2>2
<1>5. CASE Sweep
  <2>1. Ended(Refunded, Processing)
    BY <1>0, <1>5, SweepShape, EndOrdersEnds DEF Sweep
  <2>2. i \in Refunded
    BY <2>1 DEF Ended, EndedStatus
  <2>3. Stale(i) /\ orders[i].status = "pending"
    BY <1>0, <1>5, <2>1, <2>2, SweepShape DEF Sweep, Ended
  <2>4. UNCHANGED <<now, attempts>>
    BY <1>0, <1>5, SweepShape DEF Sweep, EndOrders
  <2> QED BY <1>5, <2>3, <2>4 DEF Stale, Sweep, checkoutVars
<1>6. CASE Store
  <2>1. CASE Purchase \/ Assign
    <3>1. PICK u \in Users : Inserted(u)
      BY <1>0, <2>1, PurchaseShape, AssignShape DEF Purchase, Assign
    <3>2. PICK j \in OrderIds, r \in Order : Fresh(r, u) /\ orders' = [orders EXCEPT ![j] = r]
      BY <3>1 DEF Inserted
    <3> QED BY <1>0, <3>2 DEF Fresh
  <2>2. CASE Cancel
    <3>1. PICK j \in OrderIds : CancelOrder(j)
      BY <2>2 DEF Cancel
    <3>2. Endable({j}, {}, {}) /\ EndOrders({j}, {}, {}, "none", orders)
      BY <3>1 DEF CancelOrder, Endable
    <3>3. Ended({j}, {})
      BY <1>0, <3>2, EndOrdersEnds
    <3>4. i = j
      BY <3>3 DEF Ended, EndedStatus
    <3> QED BY <1>6, <3>1, <3>2, <3>4 DEF CancelOrder, EndOrders, Store, checkoutVars
  <2>3. CASE FreeCheckout \/ AdminPaid
    <3>1. PICK j \in OrderIds : CompleteOrder(j) \/ CompletePendingOrder(j)
      BY <2>3 DEF FreeCheckout, AdminPaid
    <3>2. Endable({}, {j}, {}) /\ \E cb \in Callbacks : EndOrders({}, {j}, {}, cb, orders)
      BY <1>0, <3>1 DEF CompleteOrder, CompletePendingOrder, Endable, Active
    <3>3. Ended({}, {j})
      BY <1>0, <3>2, EndOrdersEnds
    <3> QED BY <1>1, <3>3
  <2>4. CASE Transfer \/ OpenForm \/ SaveForm
    <3>1. orders' = orders
      BY <2>4 DEF Transfer, OpenForm, SaveForm, TransferCommission, LoadUserForm, UpdateAdminUser
    <3> QED BY <3>1
  <2> QED BY <1>6, <2>1, <2>2, <2>3, <2>4 DEF Store
<1>7. CASE CallMade \/ CallFailed \/ CallLost \/ Paid \/ Late \/ Edit \/ Advance \/ UNCHANGED vars
  <2>1. orders' = orders
    BY <1>7 DEF CallMade, CallFailed, CallLost, Paid, Late, Edit, Advance, vars, orderVars,
       CompletePaymentCheckout, FailPaymentCheckout, AbandonCall, Pay, LateWebhook, EditPayment, Tick
  <2> QED BY <2>1
<1> QED BY <1>2, <1>3, <1>4, <1>5, <1>6, <1>7 DEF Next

\* The lease outlives the call: an attempt whose call is in flight is not restarted, and
\* its order is neither swept nor cancelled.
LEMMA CallGuards ==
    ASSUME TypeOK, CallsInv, NEW c \in calls
    PROVE  /\ c.key \in Keys /\ c.key[1] \in OrderIds /\ c.key = <<c.key[1], c.key[2]>>
           /\ ~Restartable(attempts[c.key]) /\ ActiveCheckout(c.key[1]) /\ Protected(c.key[1])
<1>1. /\ c.key \in Keys /\ c.key[1] \in OrderIds /\ c.key[2] \in Methods /\ c.key = <<c.key[1], c.key[2]>>
      /\ c.started \in Nat /\ now \in Nat
  BY OrdersConstants DEF TypeOK, OrdersTypeOK, Call, Keys, Instants
<1>2. /\ attempts[c.key].st = "creating" /\ attempts[c.key].at = c.started
      /\ now <= c.started + CallTimeout /\ c.started < orders[c.key[1]].created + Timeout
  <2>1. /\ attempts[c.key] = [st |-> "creating", amount |-> c.amount, at |-> c.started]
        /\ now <= c.started + CallTimeout /\ c.started < orders[c.key[1]].created + Timeout
    BY Zenon DEF CallsInv
  <2> QED BY <2>1
<1>3. ~Restartable(attempts[c.key])
  BY <1>1, <1>2, OrdersConstants, CheckoutConstants DEF Restartable
<1>4. ActiveCheckout(c.key[1])
  BY <1>1, <1>2 DEF ActiveCheckout
<1>5. Protected(c.key[1])
  <2>1. orders[c.key[1]].created \in Nat
    BY <1>1 DEF TypeOK, OrdersTypeOK, Order
  <2>2. orders[c.key[1]].created > now - Timeout - Grace /\ attempts[c.key].at > now - Lease
    BY <1>1, <1>2, <2>1, OrdersConstants, CheckoutConstants
  <2> QED BY <1>1, <1>2, <2>2 DEF Protected
<1> QED BY <1>1, <1>3, <1>4, <1>5

\* What a step leaves true of the order of a call or a page.
LEMMA CallOrderStays ==
    ASSUME TypeOK, CallsInv, [Next]_vars, NEW c \in calls
    PROVE  /\ orders'[c.key[1]].status \notin {"absent", "cancelled"}
           /\ orders'[c.key[1]].created = orders[c.key[1]].created
<1>1. c.key[1] \in OrderIds /\ orders[c.key[1]].status \notin {"absent", "cancelled"}
  BY CallGuards DEF CallsInv
<1> QED BY <1>1, RowStays, CancelCause, CallGuards

\* Two calls never share an attempt.
LEMMA CallsDistinct ==
    ASSUME TypeOK, CallsInv, NEW c \in calls, NEW d \in calls, c.key = d.key
    PROVE  c = d
<1>1. /\ attempts[c.key] = [st |-> "creating", amount |-> c.amount, at |-> c.started]
      /\ attempts[d.key] = [st |-> "creating", amount |-> d.amount, at |-> d.started]
  BY Zenon DEF CallsInv
<1>2. c.amount = d.amount /\ c.started = d.started
  BY <1>1
<1> QED BY <1>2 DEF TypeOK, Call

CallOK(c) ==
    /\ attempts[c.key] = [st |-> "creating", amount |-> c.amount, at |-> c.started]
    /\ c.started <= now /\ now <= c.started + CallTimeout
    /\ orders[c.key[1]].status \notin {"absent", "cancelled"}
    /\ c.started < orders[c.key[1]].created + Timeout

\* A call whose attempt is left alone stays good.
LEMMA CallStays ==
    ASSUME TypeOK, CallsInv, [Next]_vars, NEW c \in calls, attempts'[c.key] = attempts[c.key],
           now' = now \/ (now' = now + 1 /\ now < c.started + CallTimeout)
    PROVE  CallOK(c)'
<1>1. CallOK(c)
  BY Zenon DEF CallsInv, CallOK
<1>2. c.started \in Nat /\ now \in Nat /\ c.key[1] \in OrderIds
  BY OrdersConstants, CallGuards DEF TypeOK, OrdersTypeOK, Call, Instants
<1>3. c.started <= now' /\ now' <= c.started + CallTimeout
  BY <1>1, <1>2, CheckoutConstants DEF CallOK
<1> QED BY <1>1, <1>3, CallOrderStays DEF CallOK

\* The steps that leave calls and attempts alone.
LEMMA Quiet ==
    ASSUME TypeOK, Cached \/ Paid \/ Late \/ Webhook \/ Edit \/ Sweep \/ Store \/ UNCHANGED vars
    PROVE  calls' = calls /\ attempts' = attempts /\ now' = now /\ (pages' = pages \/ Paid)
<1>1. CASE Cached \/ Paid \/ Late \/ Webhook \/ Edit \/ UNCHANGED vars
  BY <1>1 DEF Cached, CachedCheckout, Paid, Pay, Late, LateWebhook, Webhook, CompletePaymentWebhook,
     EndOrders, Edit, EditPayment, vars, orderVars, checkoutVars
<1>2. CASE Sweep
  BY <1>2, SweepShape DEF Sweep, EndOrders, checkoutVars, TypeOK
<1>3. CASE Store
  <2>1. calls' = calls /\ pages' = pages
    BY <1>3 DEF Store, checkoutVars
  <2>2. CASE Purchase
    <3>1. PICK u \in Users, p \in Plans, d \in Periods : CreateOrder(u, p, d)
      BY <2>2, Zenon DEF Purchase
    <3>2. attempts' = attempts /\ now' = now
      BY <3>1, Zenon DEF CreateOrder
    <3> QED BY <2>1, <3>2
  <2>5. CASE Assign
    <3>1. PICK u \in Users, p \in Plans, d \in AssignPeriods : AssignOrder(u, p, d)
      BY <2>5, Zenon DEF Assign
    <3>2. attempts' = attempts /\ now' = now
      BY <3>1, Zenon DEF AssignOrder
    <3> QED BY <2>1, <3>2
  <2>3. CASE Cancel \/ FreeCheckout \/ AdminPaid
    BY <2>1, <2>3 DEF Cancel, FreeCheckout, AdminPaid, CancelOrder, CompleteOrder,
       CompletePendingOrder, EndOrders
  <2>4. CASE Transfer \/ OpenForm \/ SaveForm
    BY <2>1, <2>4 DEF Transfer, OpenForm, SaveForm, TransferCommission, LoadUserForm, UpdateAdminUser
  <2> QED BY <1>3, <2>2, <2>5, <2>3, <2>4 DEF Store
<1> QED BY <1>1, <1>2, <1>3

LEMMA StepCalls ==
    ASSUME TypeOK, CallsInv, [Next]_vars
    PROVE  CallsInv'
<1> SUFFICES ASSUME NEW c \in calls' PROVE CallOK(c)'
  BY Zenon DEF CallsInv, CallOK
<1>1. CASE Start
  <2>1. PICK i \in OrderIds, m \in Methods : StartPaymentCheckout(i, m)
    BY <1>1 DEF Start
  <2> DEFINE new == [key |-> <<i, m>>, amount |-> orders[i].total + fee[m], started |-> now]
  <2>2. CASE c = new
    <3>1. c.key = <<i, m>> /\ c.key[1] = i /\ c.amount = orders[i].total + fee[m] /\ c.started = now
      BY <2>2
    <3>2. attempts'[<<i, m>>] = [st |-> "creating", amount |-> orders[i].total + fee[m], at |-> now]
      BY <2>1 DEF StartPaymentCheckout, TypeOK, OrdersTypeOK
    <3>3. orders[i].status = "pending" /\ now < orders[i].created + Timeout /\ now' = now
      BY <2>1 DEF StartPaymentCheckout, Payable
    <3>4. orders'[i].status = "pending" /\ orders'[i].created = orders[i].created
      <4>1. orders'[i] = Bound(orders[i], m, fee[m]) /\ orders[i] \in Order
        BY <2>1 DEF StartPaymentCheckout, TypeOK, OrdersTypeOK
      <4> QED BY <3>3, <4>1 DEF Bound, Order
    <3>5. now <= now' /\ now' <= now + CallTimeout
      BY <3>3, OrdersConstants, CheckoutConstants DEF TypeOK, OrdersTypeOK, Instants
    <3>6. /\ attempts'[c.key] = [st |-> "creating", amount |-> c.amount, at |-> c.started]
          /\ orders'[c.key[1]].status \notin {"absent", "cancelled"}
      BY <3>1, <3>2, <3>4
    <3>7. c.started <= now' /\ now' <= c.started + CallTimeout /\ c.started < orders'[c.key[1]].created + Timeout
      BY <3>1, <3>3, <3>4, <3>5
    <3> QED BY <3>6, <3>7 DEF CallOK
  <2>3. CASE c # new
    <3>1. c \in calls
      BY <2>1, <2>3 DEF StartPaymentCheckout
    <3>2. c.key # <<i, m>>
      BY <2>1, <3>1, CallGuards DEF StartPaymentCheckout
    <3>3. attempts'[c.key] = attempts[c.key] /\ now' = now
      BY <2>1, <3>1, <3>2, CallGuards DEF StartPaymentCheckout, TypeOK, OrdersTypeOK, Keys
    <3> QED BY <3>1, <3>3, CallStays
  <2> QED BY <2>2, <2>3
<1>2. CASE CallMade \/ CallFailed \/ CallLost
  <2>1. PICK d \in calls : CompletePaymentCheckout(d) \/ FailPaymentCheckout(d) \/ AbandonCall(d)
    BY <1>2 DEF CallMade, CallFailed, CallLost
  <2>2. c \in calls /\ c # d /\ now' = now
    BY <2>1 DEF CompletePaymentCheckout, FailPaymentCheckout, AbandonCall, orderVars
  <2>3. c.key # d.key /\ c.key \in Keys /\ d.key \in Keys
    BY <2>2, CallsDistinct, CallGuards
  <2>4. attempts'[c.key] = attempts[c.key]
    BY <2>1, <2>3 DEF CompletePaymentCheckout, FailPaymentCheckout, AbandonCall, orderVars,
       TypeOK, OrdersTypeOK, Keys
  <2> QED BY <2>2, <2>4, CallStays
<1>3. CASE Advance
  BY <1>3, CallStays DEF Advance, Tick, checkoutVars
<1>4. CASE Cached \/ Paid \/ Late \/ Webhook \/ Edit \/ Sweep \/ Store \/ UNCHANGED vars
  BY <1>4, Quiet, CallStays
<1> QED BY <1>1, <1>2, <1>3, <1>4 DEF Next

PageOK(k) ==
    /\ pages[k].paid => pages[k].shown
    /\ pages[k].shown =>
          /\ attempts[k] = [st |-> "created", amount |-> pages[k].amount, at |-> pages[k].at]
          /\ orders[k[1]].status # "absent"
          /\ now < pages[k].at + Grace /\ now < orders[k[1]].created + Timeout + Grace
               => orders[k[1]].status # "cancelled"

\* A page whose attempt is left alone stays good.
LEMMA PageStays ==
    ASSUME TypeOK, PagesInv, [Next]_vars, NEW k \in Keys, attempts'[k] = attempts[k],
           pages'[k].shown = pages[k].shown, pages'[k].amount = pages[k].amount,
           pages'[k].at = pages[k].at, pages'[k].paid => pages[k].shown,
           now' = now \/ now' = now + 1
    PROVE  PageOK(k)'
<1>0. PageOK(k)
  BY Zenon DEF PagesInv, PageOK
<1>1. k[1] \in OrderIds /\ k[2] \in Methods /\ k = <<k[1], k[2]>>
  BY DEF Keys
<1> SUFFICES ASSUME pages[k].shown
             PROVE  /\ attempts'[k] = [st |-> "created", amount |-> pages[k].amount, at |-> pages[k].at]
                    /\ orders'[k[1]].status # "absent"
                    /\ now' < pages[k].at + Grace /\ now' < orders'[k[1]].created + Timeout + Grace
                         => orders'[k[1]].status # "cancelled"
  BY DEF PageOK
<1>2. /\ attempts[k] = [st |-> "created", amount |-> pages[k].amount, at |-> pages[k].at]
      /\ orders[k[1]].status # "absent"
      /\ now < pages[k].at + Grace /\ now < orders[k[1]].created + Timeout + Grace
            => orders[k[1]].status # "cancelled"
  BY <1>0 DEF PageOK
<1>3. orders'[k[1]].status # "absent" /\ orders'[k[1]].created = orders[k[1]].created
  BY <1>1, <1>2, RowStays
<1>4. ASSUME now' < pages[k].at + Grace, now' < orders[k[1]].created + Timeout + Grace
      PROVE  orders'[k[1]].status # "cancelled"
  <2>1. now \in Nat /\ pages[k].at \in Nat /\ orders[k[1]].created \in Nat
    BY <1>1, OrdersConstants DEF TypeOK, OrdersTypeOK, Page, Order, Instants
  <2>2. now < pages[k].at + Grace /\ now < orders[k[1]].created + Timeout + Grace
    BY <1>4, <2>1, OrdersConstants
  <2>3. orders[k[1]].status # "cancelled"
    BY <1>2, <2>2
  <2>4. attempts[k].st = "created" /\ attempts[k].at = pages[k].at
    BY <1>2
  <2>5. ActiveCheckout(k[1])
    BY <1>1, <2>4 DEF ActiveCheckout
  <2>6. orders[k[1]].created > now - Timeout - Grace /\ attempts[k].at > now - Grace
    BY <2>1, <2>2, <2>4, OrdersConstants
  <2>7. Protected(k[1])
    BY <1>1, <2>4, <2>6 DEF Protected
  <2> QED BY <1>1, <2>3, <2>5, <2>7, CancelCause
<1> QED BY <1>2, <1>3, <1>4

LEMMA StepPages ==
    ASSUME TypeOK, CallsInv, PagesInv, [Next]_vars
    PROVE  PagesInv' /\ \A k \in Keys : pages[k].shown => pages'[k].shown /\ pages'[k].amount = pages[k].amount
<1> SUFFICES ASSUME NEW k \in Keys
             PROVE  PageOK(k)' /\ (pages[k].shown => pages'[k].shown /\ pages'[k].amount = pages[k].amount)
  BY Zenon DEF PagesInv, PageOK
<1>0. PageOK(k)
  BY Zenon DEF PagesInv, PageOK
<1>1. pages[k].shown => attempts[k].st = "created"
  BY <1>0 DEF PageOK
<1>2. ASSUME UNCHANGED pages, ~pages[k].shown
      PROVE  PageOK(k)'
  BY <1>0, <1>2 DEF PageOK
<1>3. CASE Start
  <2>1. PICK i \in OrderIds, m \in Methods : StartPaymentCheckout(i, m)
    BY <1>3 DEF Start
  <2>2. UNCHANGED <<pages, now>>
    BY <2>1 DEF StartPaymentCheckout
  <2>3. CASE k = <<i, m>>
    <3>1. attempts[k].st # "created"
      BY <2>1, <2>3 DEF StartPaymentCheckout, Restartable
    <3> QED BY <1>1, <1>2, <2>2, <3>1
  <2>4. CASE k # <<i, m>>
    <3>1. attempts'[k] = attempts[k]
      BY <2>1, <2>4 DEF StartPaymentCheckout, TypeOK, OrdersTypeOK, Keys
    <3> QED BY <1>0, <2>2, <3>1, PageStays DEF PageOK
  <2> QED BY <2>3, <2>4
<1>4. CASE CallMade \/ CallFailed \/ CallLost
  <2>1. PICK d \in calls : CompletePaymentCheckout(d) \/ FailPaymentCheckout(d) \/ AbandonCall(d)
    BY <1>4 DEF CallMade, CallFailed, CallLost
  <2>2. d.key \in Keys /\ d.key[1] \in OrderIds /\ CallOK(d)
    <3>1. CallOK(d)
      BY Zenon DEF CallsInv, CallOK
    <3> QED BY <3>1, CallGuards
  <2>3. attempts[d.key].st = "creating" /\ attempts[d.key].amount = d.amount
    BY <2>2 DEF CallOK
  <2>4. now' = now /\ orders' = orders
    BY <2>1 DEF CompletePaymentCheckout, FailPaymentCheckout, AbandonCall, orderVars
  <2>5. CASE k # d.key
    <3>1. attempts'[k] = attempts[k] /\ pages'[k] = pages[k]
      BY <2>1, <2>2, <2>5 DEF CompletePaymentCheckout, FailPaymentCheckout, AbandonCall, orderVars,
         TypeOK, OrdersTypeOK, Keys
    <3> QED BY <1>0, <2>4, <3>1, PageStays DEF PageOK
  <2>6. CASE k = d.key
    <3>1. ~pages[k].shown
      BY <1>1, <2>3, <2>6
    <3>2. CASE CompletePaymentCheckout(d)
      <4>1. /\ attempts'[k] = [st |-> "created", amount |-> d.amount, at |-> now]
            /\ pages'[k] = [shown |-> TRUE, amount |-> d.amount, at |-> now, paid |-> FALSE]
        BY <2>2, <2>3, <2>6, <3>2 DEF CompletePaymentCheckout, TypeOK, OrdersTypeOK, Keys
      <4>2. orders'[k[1]].status \notin {"absent", "cancelled"}
        BY <2>2, <2>4, <2>6 DEF CallOK
      <4> QED BY <3>1, <4>1, <4>2 DEF PageOK
    <3>3. CASE ~CompletePaymentCheckout(d)
      BY <1>2, <2>1, <3>1, <3>3 DEF FailPaymentCheckout, AbandonCall
    <3> QED BY <3>2, <3>3
  <2> QED BY <2>5, <2>6
<1>5. CASE Advance
  BY <1>0, <1>5, PageStays DEF Advance, Tick, checkoutVars, PageOK
<1>6. CASE Paid
  <2>1. PICK j \in Keys : Pay(j)
    BY <1>6 DEF Paid
  <2>2. /\ pages'[k].shown = pages[k].shown /\ pages'[k].amount = pages[k].amount
        /\ pages'[k].at = pages[k].at
    BY <2>1 DEF Pay, TypeOK, Page
  <2>3. pages'[k].paid => pages[k].shown
    <3>1. CASE k = j
      BY <2>1, <3>1 DEF Pay
    <3>2. CASE k # j
      <4>1. pages'[k] = pages[k]
        BY <2>1, <3>2 DEF Pay, TypeOK
      <4> QED BY <1>0, <4>1 DEF PageOK
    <3> QED BY <3>1, <3>2
  <2> QED BY <1>6, <2>2, <2>3, Quiet, PageStays
<1>7. CASE ~Paid /\ (Cached \/ Late \/ Webhook \/ Edit \/ Sweep \/ Store \/ UNCHANGED vars)
  <2>1. attempts' = attempts /\ now' = now /\ pages' = pages
    BY <1>7, Quiet
  <2> QED BY <1>0, <2>1, PageStays DEF PageOK
<1> QED BY <1>3, <1>4, <1>5, <1>6, <1>7 DEF Next

-----------------------------------------------------------------------------
(* Which payment an order names *)

BindingStep(i) ==
    /\ orders'[i].status \notin Settled => orders'[i].callback = "none"
    /\ orders'[i].status \in Settled /\ orders'[i].callback \in Methods =>
          /\ orders[i].status \in Settled /\ orders'[i].callback = orders[i].callback
          /\ orders'[i].pay = orders[i].pay /\ orders'[i].handling = orders[i].handling

LEMMA EndBinding ==
    ASSUME OrdersTypeOK, NoCallback, NEW C, NEW S, NEW Q, NEW cb \in Callbacks,
           NEW table \in [OrderIds -> Order], Endable(C, S, Q), SameOrders(table),
           EndOrders(C, S, Q, cb, table), NEW i \in OrderIds,
           table[i].pay = orders[i].pay, table[i].handling = orders[i].handling,
           i \in S => cb \notin Methods
    PROVE  BindingStep(i)
<1>1. /\ orders'[i].status = EndedStatus(i, C, S)
      /\ orders'[i].callback = (IF i \in S /\ orders[i].callback = "none" THEN cb ELSE orders[i].callback)
      /\ orders'[i].pay = orders[i].pay /\ orders'[i].handling = orders[i].handling
  BY EndOrdersRows
<1>2. orders[i].status \notin Settled => orders[i].callback = "none"
  BY DEF NoCallback
<1>3. CASE i \in S
  <2>1. orders[i].callback = "none"
    BY <1>2, <1>3 DEF Endable, Active, Settled
  <2> QED BY <1>1, <1>3, <2>1 DEF BindingStep, EndedStatus, Settled
<1>4. CASE i \notin S /\ i \in C
  BY <1>1, <1>2, <1>4 DEF BindingStep, EndedStatus, Endable, Settled
<1>5. CASE i \notin S /\ i \notin C
  BY <1>1, <1>2, <1>5, OrdersConstants DEF BindingStep, EndedStatus, Settled, Converted
<1> QED BY <1>3, <1>4, <1>5

LEMMA SameBinding ==
    ASSUME NoCallback, NEW i \in OrderIds, orders'[i] = orders[i]
    PROVE  BindingStep(i)
BY OrdersConstants DEF BindingStep, NoCallback

LEMMA BoundBinding ==
    ASSUME OrdersTypeOK, NoCallback, NEW i \in OrderIds, NEW j \in OrderIds, NEW m, NEW h,
           orders[j].status = "pending", orders' = [orders EXCEPT ![j] = Bound(orders[j], m, h)]
    PROVE  BindingStep(i)
<1>1. CASE i = j
  <2>1. orders[j].callback = "none"
    BY DEF NoCallback, Settled
  <2>2. orders'[i].status = "pending" /\ orders'[i].callback = "none"
    BY <1>1, <2>1 DEF Bound, OrdersTypeOK, Order
  <2> QED BY <2>2 DEF BindingStep, Settled
<1>2. CASE i # j
  BY <1>2, SameBinding DEF OrdersTypeOK
<1> QED BY <1>1, <1>2

\* Only a webhook binds a settled order to a payment, and only its own order.
LEMMA StepBinding ==
    ASSUME TypeOK, NoCallback, [Next]_vars, NEW i \in OrderIds
    PROVE  BindingStep(i) \/ (\E k \in Keys : CompletePaymentWebhook(k) /\ k[1] = i)
<1>0. /\ OrdersTypeOK /\ "trade" \in Callbacks /\ "none" \in Callbacks /\ "admin" \in Callbacks
      /\ orders \in [OrderIds -> Order] /\ SameOrders(orders)
      /\ "trade" \notin Methods /\ "none" \notin Methods /\ "admin" \notin Methods
  BY OrdersConstants DEF TypeOK, Callbacks, OrdersTypeOK, SameOrders
<1>1. CASE Start
  <2>1. PICK j \in OrderIds, m \in Methods :
          orders[j].status = "pending" /\ orders' = [orders EXCEPT ![j] = Bound(orders[j], m, fee[m])]
    BY <1>1 DEF Start, StartPaymentCheckout, Payable
  <2> QED BY <1>0, <2>1, BoundBinding
<1>2. CASE Cached
  <2>1. PICK j \in OrderIds, m \in Methods :
          /\ orders[j].status = "pending"
          /\ orders' = [orders EXCEPT ![j] = Bound(orders[j], m, attempts[<<j, m>>].amount - orders[j].total)]
    BY <1>2 DEF Cached, CachedCheckout, Payable
  <2> QED BY <1>0, <2>1, BoundBinding
<1>3. CASE Webhook
  <2>1. PICK k \in Keys : CompletePaymentWebhook(k)
    BY <1>3 DEF Webhook
  <2>2. CASE k[1] = i
    BY <2>1, <2>2
  <2>3. CASE k[1] # i
    <3>1. [orders EXCEPT ![k[1]] = PaidRow(k)][i] = orders[i] /\ i \notin {k[1]}
      BY <1>0, <2>3
    <3> QED BY <1>0, <2>1, <3>1, WebhookShape, EndBinding
  <2> QED BY <2>2, <2>3
<1>4. CASE Sweep
  <2>1. Swept[i].pay = orders[i].pay /\ Swept[i].handling = orders[i].handling
    BY <1>0 DEF Swept, Released, Order
  <2> QED BY <1>0, <1>4, <2>1, SweepShape, EndBinding DEF Sweep
<1>5. CASE Store
  <2>1. CASE Purchase \/ Assign
    <3>1. PICK u \in Users : Inserted(u)
      BY <1>0, <2>1, PurchaseShape, AssignShape DEF Purchase, Assign
    <3>2. PICK j \in OrderIds, r \in Order : Fresh(r, u) /\ orders' = [orders EXCEPT ![j] = r]
      BY <3>1 DEF Inserted
    <3>3. CASE i = j
      BY <1>0, <3>2, <3>3 DEF Fresh, BindingStep, Settled
    <3>4. CASE i # j
      BY <1>0, <3>2, <3>4, SameBinding
    <3> QED BY <3>3, <3>4
  <2>2. CASE Cancel \/ FreeCheckout \/ AdminPaid
    <3>1. PICK j \in OrderIds : CancelOrder(j) \/ CompleteOrder(j) \/ CompletePendingOrder(j)
      BY <2>2 DEF Cancel, FreeCheckout, AdminPaid
    <3>2. Endable({j}, {}, {}) /\ Endable({}, {j}, {})
      BY <3>1 DEF Endable, Active, CancelOrder, CompleteOrder, CompletePendingOrder
    <3>3. CASE CancelOrder(j)
      <4>1. EndOrders({j}, {}, {}, "none", orders)
        BY <3>3 DEF CancelOrder
      <4> QED BY <1>0, <3>2, <4>1, EndBinding
    <3>4. CASE CompleteOrder(j)
      <4>1. EndOrders({}, {j}, {}, "trade", orders)
        BY <3>4 DEF CompleteOrder
      <4> QED BY <1>0, <3>2, <4>1, EndBinding
    <3>5. CASE CompletePendingOrder(j)
      <4>1. EndOrders({}, {j}, {}, "admin", orders)
        BY <3>5 DEF CompletePendingOrder
      <4> QED BY <1>0, <3>2, <4>1, EndBinding
    <3> QED BY <3>1, <3>3, <3>4, <3>5
  <2>3. CASE Transfer \/ OpenForm \/ SaveForm
    <3>1. orders' = orders
      BY <2>3 DEF Transfer, OpenForm, SaveForm, TransferCommission, LoadUserForm, UpdateAdminUser
    <3> QED BY <3>1, SameBinding
  <2> QED BY <1>5, <2>1, <2>2, <2>3 DEF Store
<1>6. CASE CallMade \/ CallFailed \/ CallLost \/ Paid \/ Late \/ Edit \/ Advance \/ UNCHANGED vars
  <2>1. orders' = orders
    BY <1>6 DEF CallMade, CallFailed, CallLost, Paid, Late, Edit, Advance, vars, orderVars,
       CompletePaymentCheckout, FailPaymentCheckout, AbandonCall, Pay, LateWebhook, EditPayment, Tick
  <2> QED BY <2>1, SameBinding
<1> QED BY <1>1, <1>2, <1>3, <1>4, <1>5, <1>6 DEF Next

\* What the webhook makes of its own order.
LEMMA WebhookRow ==
    ASSUME TypeOK, NoCallback, NEW k \in Keys, CompletePaymentWebhook(k)
    PROVE  /\ k[1] \in OrderIds /\ orders'[k[1]].status = "completed"
           /\ orders'[k[1]].callback = k[2] /\ orders'[k[1]].pay = k[2]
           /\ orders'[k[1]].total + orders'[k[1]].handling = pages[k].amount
           /\ receipts' = receipts \cup {k} /\ pages' = pages /\ pages[k].paid
<1> DEFINE table == [orders EXCEPT ![k[1]] = PaidRow(k)]
<1>1. /\ OrdersTypeOK /\ k[1] \in OrderIds /\ k[2] \in Callbacks /\ table \in [OrderIds -> Order]
      /\ Endable({}, {k[1]}, {}) /\ SameOrders(table) /\ EndOrders({}, {k[1]}, {}, k[2], table)
      /\ table[k[1]].pay = k[2] /\ table[k[1]].handling = pages[k].amount - orders[k[1]].total
  BY WebhookShape DEF TypeOK, OrdersTypeOK
<1> HIDE DEF table
<1>2. orders[k[1]].callback = "none"
  BY <1>1 DEF NoCallback, Endable, Active, Settled
<1>3. /\ Terms(orders'[k[1]]) = Terms(orders[k[1]])
      /\ orders'[k[1]].status = EndedStatus(k[1], {}, {k[1]})
      /\ orders'[k[1]].callback = (IF k[1] \in {k[1]} /\ orders[k[1]].callback = "none" THEN k[2] ELSE orders[k[1]].callback)
      /\ orders'[k[1]].pay = table[k[1]].pay /\ orders'[k[1]].handling = table[k[1]].handling
  BY <1>1, EndOrdersRows
<1>4. orders'[k[1]].total = orders[k[1]].total
  BY <1>3, TermsFields
<1>5. orders[k[1]].total \in Nat /\ pages[k].amount \in Nat
  BY <1>1, OrdersConstants DEF TypeOK, OrdersTypeOK, Order, Money, Page
<1> QED BY <1>1, <1>2, <1>3, <1>4, <1>5 DEF EndedStatus, CompletePaymentWebhook, Verified

LEMMA StepReceipts ==
    ASSUME TypeOK, CheckoutInv, [Next]_vars
    PROVE  NoCallback' /\ ReceiptsInv' /\ SettledBinding'
<1>0. /\ CallsInv /\ PagesInv /\ NoCallback /\ ReceiptsInv /\ SettledBinding
      /\ \A k \in Keys : k[1] \in OrderIds /\ k[2] \in Methods /\ k = <<k[1], k[2]>>
  BY DEF CheckoutInv, Keys
<1>1. \A k \in Keys : pages[k].shown => pages'[k].shown /\ pages'[k].amount = pages[k].amount
  BY <1>0, StepPages
<1>2. NoCallback'
  <2> SUFFICES ASSUME NEW i \in OrderIds, orders'[i].status \notin Settled PROVE orders'[i].callback = "none"
    BY DEF NoCallback
  <2> QED BY <1>0, StepBinding, WebhookRow DEF BindingStep, Settled
<1>3. ASSUME NEW k \in receipts'
      PROVE  \/ k \in receipts
             \/ k \in Keys /\ (LateWebhook(k) \/ CompletePaymentWebhook(k))
  <2>1. CASE Late
    <3>1. PICK j \in Keys : LateWebhook(j)
      BY <2>1 DEF Late
    <3> QED BY <3>1, <1>3 DEF LateWebhook
  <2>2. CASE Webhook
    <3>1. PICK j \in Keys : CompletePaymentWebhook(j)
      BY <2>2 DEF Webhook
    <3> QED BY <3>1, <1>3 DEF CompletePaymentWebhook
  <2>3. CASE Start \/ Cached \/ CallMade \/ CallFailed \/ CallLost \/ Paid \/ Edit \/ Advance \/ Sweep \/ Store
             \/ UNCHANGED vars
    <3>1. receipts' = receipts
      BY <2>3 DEF Start, Cached, CallMade, CallFailed, CallLost, Paid, Edit, Advance, Sweep, Store, vars,
         checkoutVars, StartPaymentCheckout, CachedCheckout, CompletePaymentCheckout, FailPaymentCheckout,
         AbandonCall, Pay, EditPayment
    <3> QED BY <1>3, <3>1
  <2> QED BY <2>1, <2>2, <2>3 DEF Next
<1>4. ReceiptsInv'
  <2> SUFFICES ASSUME NEW k \in receipts' PROVE orders'[k[1]].status \in Settled /\ pages'[k].shown
    BY DEF ReceiptsInv
  <2>1. CASE k \in receipts
    <3>1. k \in Keys /\ orders[k[1]].status \in Settled /\ pages[k].shown
      BY <1>0, <2>1 DEF ReceiptsInv, TypeOK
    <3> QED BY <1>0, <1>1, <3>1, StepHistory
  <2>2. CASE k \in Keys /\ LateWebhook(k)
    <3>1. orders[k[1]].status \in Settled /\ pages[k].paid
      BY <2>2 DEF LateWebhook, Verified, Settled
    <3> QED BY <1>0, <1>1, <2>2, <3>1, StepHistory DEF PagesInv
  <2>3. CASE k \in Keys /\ CompletePaymentWebhook(k)
    BY <1>0, <1>1, <2>3, WebhookRow DEF PagesInv, Settled
  <2> QED BY <1>3, <2>1, <2>2, <2>3
<1>5. SettledBinding'
  <2> SUFFICES ASSUME NEW k \in Keys, orders'[k[1]].status \in Settled, orders'[k[1]].callback = k[2]
               PROVE  /\ k \in receipts' /\ orders'[k[1]].pay = k[2]
                      /\ orders'[k[1]].total + orders'[k[1]].handling = pages'[k].amount
    BY DEF SettledBinding
  <2>1. CASE BindingStep(k[1])
    <3>1. /\ orders[k[1]].status \in Settled /\ orders[k[1]].callback = k[2]
          /\ orders'[k[1]].pay = orders[k[1]].pay /\ orders'[k[1]].handling = orders[k[1]].handling
      BY <1>0, <2>1 DEF BindingStep
    <3>2. /\ k \in receipts /\ orders[k[1]].pay = k[2]
          /\ orders[k[1]].total + orders[k[1]].handling = pages[k].amount
      BY <1>0, <3>1 DEF SettledBinding
    <3>3. pages[k].shown /\ k \in receipts'
      <4>1. receipts \subseteq receipts'
        BY DEF Next, Start, Cached, CallMade, CallFailed, CallLost, Paid, Edit, Advance, Sweep, Store, vars,
           Late, Webhook, LateWebhook, CompletePaymentWebhook,
           checkoutVars, StartPaymentCheckout, CachedCheckout, CompletePaymentCheckout, FailPaymentCheckout,
           AbandonCall, Pay, EditPayment
      <4> QED BY <1>0, <3>2, <4>1 DEF ReceiptsInv
    <3>4. orders'[k[1]].total = orders[k[1]].total /\ pages'[k].amount = pages[k].amount
      BY <1>0, <1>1, <3>1, <3>3, RowStays DEF Settled
    <3> QED BY <3>1, <3>2, <3>3, <3>4
  <2>2. CASE \E w \in Keys : CompletePaymentWebhook(w) /\ w[1] = k[1]
    <3>1. PICK w \in Keys : CompletePaymentWebhook(w) /\ w[1] = k[1]
      BY <2>2
    <3>2. w = k
      BY <1>0, <3>1, WebhookRow
    <3> QED BY <1>0, <3>1, <3>2, WebhookRow
  <2> QED BY <1>0, <2>1, <2>2, StepBinding
<1> QED BY <1>2, <1>4, <1>5

LEMMA StepCheckout == TypeOK /\ CheckoutInv /\ [Next]_vars => CheckoutInv'
BY StepCalls, StepPages, StepReceipts DEF CheckoutInv

\* CompletePaymentWebhook: money with a receipt has settled its order.
THEOREM ReceiptsCorrect == Spec => []ReceiptSettled
<1>1. CheckoutInv => ReceiptSettled
  BY DEF CheckoutInv, ReceiptsInv, ReceiptSettled
<1> QED BY <1>1, TypeCorrect, InitCheckout, StepCheckout, PTL DEF Spec

\* A settled order that names a payment was settled by it, with the method and the fee that
\* were paid.
THEOREM PaymentsCorrect == Spec => []SettledBinding
<1>1. CheckoutInv => SettledBinding
  BY DEF CheckoutInv
<1> QED BY <1>1, TypeCorrect, InitCheckout, StepCheckout, PTL DEF Spec

\* With a client limit below the lease and a lease within the grace period, whatever these
\* are: one call per attempt, and no cancellation under a call.
THEOREM CallsCorrect == Spec => []CallsSound
<1>1. TypeOK /\ CheckoutInv => CallsSound
  <2>1. TypeOK /\ CheckoutInv => OneCallPerAttempt
    BY CallsDistinct DEF CheckoutInv, OneCallPerAttempt
  <2>2. CheckoutInv => NoCancelInFlight
    BY Zenon DEF CheckoutInv, CallsInv, NoCancelInFlight
  <2> QED BY <2>1, <2>2 DEF CallsSound
<1> QED BY <1>1, TypeCorrect, InitCheckout, StepCheckout, PTL DEF Spec

\* Under the same assumptions every page shown is honoured for its grace period.
THEOREM CheckoutsCorrect == Spec => []ShownPageHonoured
<1>1. CheckoutInv => ShownPageHonoured
  <2> SUFFICES ASSUME CheckoutInv, NEW k \in Keys, pages[k].shown
               PROVE  /\ attempts[k].st = "created" /\ attempts[k].amount = pages[k].amount
                      /\ now < pages[k].at + Grace /\ now < orders[k[1]].created + Timeout + Grace
                           => orders[k[1]].status # "cancelled"
    BY Zenon DEF ShownPageHonoured
  <2>1. /\ attempts[k] = [st |-> "created", amount |-> pages[k].amount, at |-> pages[k].at]
        /\ now < pages[k].at + Grace /\ now < orders[k[1]].created + Timeout + Grace
             => orders[k[1]].status # "cancelled"
    BY Zenon DEF CheckoutInv, PagesInv
  <2> QED BY <2>1
<1> QED BY <1>1, TypeCorrect, InitCheckout, StepCheckout, PTL DEF Spec

-----------------------------------------------------------------------------
(* Money *)

LEMMA FiniteOrders == IsFiniteSet(OrderIds)
BY OrdersConstants, FS_Interval DEF OrderIds

\* What a row moves in the wallet of u: its change when it is settled, less the share of
\* the wallet it holds.
RowMoved(o, u) ==
    (IF o.user = u /\ o.status \in Settled THEN o.credit ELSE 0)
      - (IF o.user = u /\ o.status \in Active \cup Settled THEN o.bal ELSE 0)

LEMMA RowMovedInt == ASSUME NEW o \in Order, NEW u PROVE RowMoved(o, u) \in Int
<1>1. o.credit \in Int /\ o.bal \in Int
  BY OrdersConstants DEF Order, Money
<1> QED BY <1>1 DEF RowMoved

\* The two columns of the ledger as one.
LEMMA MovedSums ==
    ASSUME NEW t \in [OrderIds -> Order], NEW u
    PROVE  SumFunctionOnSet([i \in OrderIds |-> RowMoved(t[i], u)], OrderIds)
           = SumFunctionOnSet([i \in OrderIds |-> t[i].credit], {i \in OrderIds : t[i].user = u /\ t[i].status \in Settled})
             - SumFunctionOnSet([i \in OrderIds |-> t[i].bal],
                                {i \in OrderIds : t[i].user = u /\ t[i].status \in Active \cup Settled})
<1> DEFINE D == {i \in OrderIds : t[i].user = u /\ t[i].status \in Settled}
           H == {i \in OrderIds : t[i].user = u /\ t[i].status \in Active \cup Settled}
           c == [i \in OrderIds |-> t[i].credit]
           b == [i \in OrderIds |-> t[i].bal]
           cm == [i \in OrderIds |-> IF i \in D THEN c[i] ELSE 0]
           bm == [i \in OrderIds |-> IF i \in H THEN b[i] ELSE 0]
           m == [i \in OrderIds |-> RowMoved(t[i], u)]
<1>1. \A i \in OrderIds : c[i] \in Int /\ b[i] \in Int
  BY OrdersConstants DEF Order, Money
<1>2. \A i \in OrderIds : cm[i] = m[i] + bm[i]
  <2> SUFFICES ASSUME NEW i \in OrderIds PROVE cm[i] = m[i] + bm[i]
    OBVIOUS
  <2>1. t[i].credit \in Int /\ t[i].bal \in Int
    BY <1>1
  <2> QED BY <2>1 DEF RowMoved
<1>3. \A i \in OrderIds : m[i] \in Int
  BY RowMovedInt
<1>4. /\ D \subseteq OrderIds /\ H \subseteq OrderIds
      /\ \A i \in OrderIds : cm[i] = IF i \in D THEN c[i] ELSE 0
      /\ \A i \in OrderIds : bm[i] = IF i \in H THEN b[i] ELSE 0
  OBVIOUS
<1> HIDE DEF D, H, c, b, cm, bm, m
<1>5. Summable(c, OrderIds) /\ Summable(b, OrderIds) /\ Summable(m, OrderIds) /\ Summable(bm, OrderIds)
  BY <1>1, <1>3, <1>4, FiniteOrders DEF Summable
<1>6. SumFunctionOnSet(cm, OrderIds) = SumFunctionOnSet(c, D) /\ SumFunctionOnSet(bm, OrderIds) = SumFunctionOnSet(b, H)
  BY <1>4, <1>5, SumMasked
<1>7. SumFunctionOnSet(cm, OrderIds) = SumFunctionOnSet(m, OrderIds) + SumFunctionOnSet(bm, OrderIds)
  BY <1>2, <1>5, SumPlus
<1>8. SumFunctionOnSet(m, OrderIds) \in Int /\ SumFunctionOnSet(bm, OrderIds) \in Int
  BY <1>5, SumInt
<1>9. SumFunctionOnSet(m, OrderIds) = SumFunctionOnSet(c, D) - SumFunctionOnSet(b, H)
  BY <1>6, <1>7, <1>8
<1> QED BY <1>9 DEF D, H, c, b, m

\* The wallet of u agrees with the rows of the table.
Ledger(u) == balance[u] = credited[u] + SumFunctionOnSet([i \in OrderIds |-> RowMoved(orders[i], u)], OrderIds)

\* What one step may do to the wallet of u and the rows that move it: leave the rows and
\* what they add up to, or change one row and the wallet with it.
WalletStep(u) ==
    \/ /\ \A i \in OrderIds : RowMoved(orders'[i], u) = RowMoved(orders[i], u)
       /\ balance'[u] - credited'[u] = balance[u] - credited[u]
    \/ \E i \in OrderIds :
          /\ \A j \in OrderIds \ {i} : RowMoved(orders'[j], u) = RowMoved(orders[j], u)
          /\ credited'[u] = credited[u]
          /\ balance'[u] = balance[u] - RowMoved(orders[i], u) + RowMoved(orders'[i], u)

LEMMA WalletStepKeeps ==
    ASSUME OrdersTypeOK, OrdersTypeOK', NEW u \in Users, Ledger(u), WalletStep(u)
    PROVE  Ledger(u)'
<1> DEFINE f == [i \in OrderIds |-> RowMoved(orders[i], u)]
           g == [i \in OrderIds |-> RowMoved(orders'[i], u)]
<1>1. \A i \in OrderIds : f[i] = RowMoved(orders[i], u) /\ g[i] = RowMoved(orders'[i], u)
  OBVIOUS
<1>2. \A i \in OrderIds : RowMoved(orders[i], u) \in Int /\ RowMoved(orders'[i], u) \in Int
  BY RowMovedInt DEF OrdersTypeOK
<1>3. balance[u] \in Int /\ credited[u] \in Int /\ balance'[u] \in Int /\ credited'[u] \in Int
  BY OrdersConstants DEF OrdersTypeOK, Money
<1>4. balance[u] = credited[u] + SumFunctionOnSet(f, OrderIds)
  BY DEF Ledger
<1>5. Ledger(u)' <=> balance'[u] = credited'[u] + SumFunctionOnSet(g, OrderIds)
  BY DEF Ledger, RowMoved
<1> HIDE DEF f, g
<1>6. Summable(f, OrderIds) /\ Summable(g, OrderIds)
  BY <1>1, <1>2, FiniteOrders DEF Summable
<1>7. SumFunctionOnSet(f, OrderIds) \in Int
  BY <1>6, SumInt
<1>8. CASE /\ \A i \in OrderIds : RowMoved(orders'[i], u) = RowMoved(orders[i], u)
           /\ balance'[u] - credited'[u] = balance[u] - credited[u]
  <2>1. \A i \in OrderIds : f[i] = g[i]
    BY <1>1, <1>8
  <2>2. SumFunctionOnSet(f, OrderIds) = SumFunctionOnSet(g, OrderIds)
    BY <2>1, FiniteOrders, SumSame
  <2> QED BY <1>3, <1>4, <1>5, <1>7, <1>8, <2>2
<1>9. CASE \E i \in OrderIds :
             /\ \A j \in OrderIds \ {i} : RowMoved(orders'[j], u) = RowMoved(orders[j], u)
             /\ credited'[u] = credited[u]
             /\ balance'[u] = balance[u] - RowMoved(orders[i], u) + RowMoved(orders'[i], u)
  <2>1. PICK i \in OrderIds :
             /\ \A j \in OrderIds \ {i} : RowMoved(orders'[j], u) = RowMoved(orders[j], u)
             /\ credited'[u] = credited[u]
             /\ balance'[u] = balance[u] - RowMoved(orders[i], u) + RowMoved(orders'[i], u)
    BY <1>9
  <2>2. g[i] \in Int /\ f[i] \in Int /\ \A j \in OrderIds \ {i} : f[j] = g[j]
    BY <1>1, <1>2, <2>1
  <2>3. SumFunctionOnSet(g, OrderIds) = SumFunctionOnSet(f, OrderIds) - f[i] + g[i]
    BY <1>6, <2>2, SumChanged
  <2>4. balance'[u] = balance[u] - f[i] + g[i]
    BY <1>1, <2>1
  <2> QED BY <1>3, <1>4, <1>5, <1>7, <2>1, <2>2, <2>3, <2>4
<1> QED BY <1>8, <1>9 DEF WalletStep
\* A new row holds its share of its buyer's wallet.
LEMMA InsertWallet ==
    ASSUME OrdersTypeOK, NEW u \in Users, Inserted(u), NEW v \in Users
    PROVE  WalletStep(v)
<1>1. PICK i \in OrderIds, r \in Order :
          /\ NewId(i) /\ Fresh(r, u) /\ orders' = [orders EXCEPT ![i] = r]
          /\ balance' = [balance EXCEPT ![u] = balance[u] - r.bal]
  BY DEF Inserted
<1>2. orders'[i] = r /\ \A j \in OrderIds \ {i} : orders'[j] = orders[j]
  BY <1>1 DEF OrdersTypeOK
<1>3. orders[i].status = "absent"
  BY <1>1, OrdersConstants DEF NewId, OrderIds
<1>4. RowMoved(orders[i], v) = 0
  BY <1>3 DEF RowMoved, Active, Settled
<1>5. r.bal \in Int /\ balance[v] \in Int /\ credited'[v] = credited[v]
  BY OrdersConstants DEF Order, Money, OrdersTypeOK, Inserted
<1>6. CASE v = u
  <2>1. RowMoved(r, v) = 0 - r.bal
    BY <1>1, <1>5, <1>6 DEF RowMoved, Fresh, Active, Settled
  <2>2. balance'[v] = balance[v] - r.bal
    BY <1>1, <1>6 DEF OrdersTypeOK
  <2> QED BY <1>2, <1>4, <1>5, <2>1, <2>2 DEF WalletStep
<1>7. CASE v # u
  <2>1. RowMoved(r, v) = 0
    BY <1>1, <1>7 DEF RowMoved, Fresh
  <2>2. balance'[v] = balance[v]
    BY <1>1, <1>7 DEF OrdersTypeOK
  <2> QED BY <1>2, <1>4, <1>5, <2>1, <2>2 DEF WalletStep
<1> QED BY <1>6, <1>7

\* An ending pays the buyer's one open order back or out, and moves nothing else.
LEMMA EndWallet ==
    ASSUME OrdersTypeOK, OneActiveOrder, NEW C, NEW S, NEW Q, NEW cb \in Callbacks,
           NEW table \in [OrderIds -> Order], Endable(C, S, Q), SameOrders(table),
           EndOrders(C, S, Q, cb, table), NEW v \in Users
    PROVE  WalletStep(v)
<1>1. ASSUME NEW i \in OrderIds
      PROVE  /\ orders'[i].user = orders[i].user /\ orders'[i].bal = orders[i].bal
             /\ orders'[i].credit = orders[i].credit /\ orders'[i].status = EndedStatus(i, C, S)
             /\ orders[i].bal \in Int /\ orders[i].credit \in Int
  <2>1. Terms(orders'[i]) = Terms(orders[i]) /\ orders'[i].status = EndedStatus(i, C, S)
    BY EndOrdersRows
  <2>2. orders[i].bal \in Int /\ orders[i].credit \in Int
    BY OrdersConstants DEF OrdersTypeOK, Order, Money
  <2> QED BY <2>1, <2>2, TermsFields
<1>2. ASSUME NEW i \in OrderIds, i \notin S, i \notin C
      PROVE  RowMoved(orders'[i], v) = RowMoved(orders[i], v)
  <2>1. CASE i \in Converted(S)
    <3>1. orders[i].status = "completed" /\ orders'[i].status = "discounted"
      BY <1>1, <1>2, <2>1 DEF EndedStatus, Converted
    <3> QED BY <1>1, <3>1 DEF RowMoved, Settled
  <2>2. CASE i \notin Converted(S)
    <3>1. orders'[i].status = orders[i].status
      BY <1>1, <1>2, <2>2 DEF EndedStatus
    <3> QED BY <1>1, <3>1 DEF RowMoved
  <2> QED BY <2>1, <2>2
<1>3. ASSUME NEW i \in OrderIds, orders[i].user # v
      PROVE  RowMoved(orders'[i], v) = 0 /\ RowMoved(orders[i], v) = 0
  BY <1>1, <1>3 DEF RowMoved
<1>4. ASSUME NEW i \in OrderIds, i \in S \/ i \in C, orders[i].user = v, NEW j \in OrderIds \ {i}
      PROVE  RowMoved(orders'[j], v) = RowMoved(orders[j], v)
  <2>1. orders[i].status \in Active
    BY <1>4 DEF Endable, Active
  <2>2. CASE orders[j].user = v
    <3>1. j \notin S /\ j \notin C
      BY <1>4, <2>1, <2>2 DEF Endable, Active, OneActiveOrder
    <3> QED BY <1>2, <3>1
  <2>3. CASE orders[j].user # v
    BY <1>3, <2>3
  <2> QED BY <2>2, <2>3
<1>5. credited' = credited /\ balance[v] \in Int /\ balance'[v] = EndBalance(v, C, S)
  BY OrdersConstants DEF EndOrders, OrdersTypeOK, Money
<1>6. CASE In(v, C)
  <2>1. PICK i : i = OrderOf(v, C)
    OBVIOUS
  <2>2. i \in C /\ orders[i].user = v /\ i \in OrderIds /\ orders[i].status = "pending" /\ i \notin S
    BY <1>6, <2>1, OrderOfIn DEF Endable
  <2>3. balance'[v] = balance[v] + orders[i].bal
    BY <1>5, <1>6, <2>1 DEF EndBalance
  <2>4. orders'[i].status = "cancelled"
    BY <1>1, <2>2 DEF EndedStatus
  <2>5. RowMoved(orders[i], v) = 0 - orders[i].bal /\ RowMoved(orders'[i], v) = 0
    BY <1>1, <2>2, <2>4 DEF RowMoved, Active, Settled
  <2>6. balance'[v] = balance[v] - RowMoved(orders[i], v) + RowMoved(orders'[i], v)
    BY <1>1, <1>5, <2>2, <2>3, <2>5
  <2>7. \A j \in OrderIds \ {i} : RowMoved(orders'[j], v) = RowMoved(orders[j], v)
    BY <1>4, <2>2
  <2> QED BY <1>5, <2>2, <2>6, <2>7 DEF WalletStep
<1>7. CASE ~In(v, C) /\ In(v, S)
  <2>1. PICK i : i = OrderOf(v, S)
    OBVIOUS
  <2>2. i \in S /\ orders[i].user = v /\ i \in OrderIds /\ orders[i].status \in Active
    BY <1>7, <2>1, OrderOfIn DEF Endable
  <2>3. balance'[v] = balance[v] + orders[i].credit
    BY <1>5, <1>7, <2>1 DEF EndBalance
  <2>4. orders'[i].status = "completed"
    BY <1>1, <2>2 DEF EndedStatus
  <2>5. RowMoved(orders[i], v) = 0 - orders[i].bal /\ RowMoved(orders'[i], v) = orders[i].credit - orders[i].bal
    BY <1>1, <2>2, <2>4 DEF RowMoved, Active, Settled
  <2>6. balance'[v] = balance[v] - RowMoved(orders[i], v) + RowMoved(orders'[i], v)
    BY <1>1, <1>5, <2>2, <2>3, <2>5
  <2>7. \A j \in OrderIds \ {i} : RowMoved(orders'[j], v) = RowMoved(orders[j], v)
    BY <1>4, <2>2
  <2> QED BY <1>5, <2>2, <2>6, <2>7 DEF WalletStep
<1>8. CASE ~In(v, C) /\ ~In(v, S)
  <2>1. balance'[v] = balance[v]
    BY <1>5, <1>8 DEF EndBalance
  <2>2. \A i \in OrderIds : RowMoved(orders'[i], v) = RowMoved(orders[i], v)
    BY <1>2, <1>3, <1>8 DEF In
  <2> QED BY <1>5, <2>1, <2>2 DEF WalletStep
<1> QED BY <1>6, <1>7, <1>8

LEMMA StepWallet ==
    ASSUME TypeOK, OneActiveOrder, FormsCurrent, [Next]_vars, NEW v \in Users
    PROVE  WalletStep(v)
<1>0. OrdersTypeOK /\ "trade" \in Callbacks /\ "none" \in Callbacks /\ "admin" \in Callbacks
      /\ orders \in [OrderIds -> Order] /\ SameOrders(orders)
  BY DEF TypeOK, Callbacks, OrdersTypeOK, SameOrders
<1>1. ASSUME balance' = balance, credited' = credited, NEW i \in OrderIds, NEW m, NEW h,
             orders' = [orders EXCEPT ![i] = Bound(orders[i], m, h)]
      PROVE  WalletStep(v)
  <2>1. ASSUME NEW j \in OrderIds PROVE RowMoved(orders'[j], v) = RowMoved(orders[j], v)
    <3>1. CASE j = i
      <4>1. orders'[j] = Bound(orders[j], m, h) /\ orders[j] \in Order
        BY <1>0, <1>1, <3>1
      <4>2. /\ Bound(orders[j], m, h).user = orders[j].user /\ Bound(orders[j], m, h).status = orders[j].status
            /\ Bound(orders[j], m, h).bal = orders[j].bal /\ Bound(orders[j], m, h).credit = orders[j].credit
        BY <4>1 DEF Bound, Order
      <4> QED BY <4>1, <4>2 DEF RowMoved
    <3>2. CASE j # i
      BY <1>0, <1>1, <3>2
    <3> QED BY <3>1, <3>2
  <2> QED BY <1>1, <2>1 DEF WalletStep
<1>2. ASSUME orders' = orders, balance' = balance, credited' = credited PROVE WalletStep(v)
  BY <1>2 DEF WalletStep
<1>3. CASE Start
  <2>1. PICK i \in OrderIds, m \in Methods : orders' = [orders EXCEPT ![i] = Bound(orders[i], m, fee[m])]
    BY <1>3 DEF Start, StartPaymentCheckout
  <2>2. balance' = balance /\ credited' = credited
    BY <1>3 DEF Start, StartPaymentCheckout
  <2> QED BY <1>1, <2>1, <2>2
<1>4. CASE Cached
  <2>1. PICK i \in OrderIds, m \in Methods :
            orders' = [orders EXCEPT ![i] = Bound(orders[i], m, attempts[<<i, m>>].amount - orders[i].total)]
    BY <1>4 DEF Cached, CachedCheckout
  <2>2. balance' = balance /\ credited' = credited
    BY <1>4 DEF Cached, CachedCheckout
  <2> QED BY <1>1, <2>1, <2>2
<1>5. CASE Webhook
  <2>1. PICK k \in Keys : CompletePaymentWebhook(k)
    BY <1>5 DEF Webhook
  <2> QED BY <1>0, <2>1, WebhookShape, EndWallet
<1>6. CASE Sweep
  BY <1>0, <1>6, SweepShape, EndWallet DEF Sweep
<1>7. CASE Store
  <2>1. CASE Purchase
    BY <1>0, <2>1, PurchaseShape, InsertWallet DEF Purchase
  <2>2. CASE Assign
    BY <1>0, <2>2, AssignShape, InsertWallet DEF Assign
  <2>3. CASE Cancel
    <3>1. PICK i \in OrderIds : CancelOrder(i)
      BY <2>3 DEF Cancel
    <3>2. Endable({i}, {}, {}) /\ EndOrders({i}, {}, {}, "none", orders)
      BY <3>1 DEF Endable, CancelOrder
    <3> QED BY <1>0, <3>2, EndWallet
  <2>4. CASE FreeCheckout
    <3>1. PICK i \in OrderIds : CompleteOrder(i)
      BY <2>4 DEF FreeCheckout
    <3>2. Endable({}, {i}, {}) /\ EndOrders({}, {i}, {}, "trade", orders)
      BY <3>1 DEF Endable, CompleteOrder, Active
    <3> QED BY <1>0, <3>2, EndWallet
  <2>5. CASE AdminPaid
    <3>1. PICK i \in OrderIds : CompletePendingOrder(i)
      BY <2>5 DEF AdminPaid
    <3>2. Endable({}, {i}, {}) /\ EndOrders({}, {i}, {}, "admin", orders)
      BY <3>1 DEF Endable, CompletePendingOrder, Active
    <3> QED BY <1>0, <3>2, EndWallet
  <2>6. CASE Transfer
    <3>1. PICK u \in Users, a \in Grants : TransferCommission(u, a)
      BY <2>6 DEF Transfer
    <3>2. a \in Int /\ balance[v] \in Int /\ credited[v] \in Int
      BY <1>0, OrdersConstants DEF OrdersTypeOK, Money
    <3>3. orders' = orders /\ balance'[v] - credited'[v] = balance[v] - credited[v]
      BY <1>0, <3>1, <3>2 DEF TransferCommission, OrdersTypeOK
    <3> QED BY <3>3 DEF WalletStep
  <2>7. CASE OpenForm
    BY <1>2, <2>7 DEF OpenForm, LoadUserForm
  <2>8. CASE SaveForm
    <3>1. PICK u \in Edited, value \in Money : \E s \in AdminSubs \cup {sub[u]} : UpdateAdminUser(u, value, s)
      BY <2>8 DEF SaveForm
    <3>2. u \in Users /\ value \in Int /\ balance[v] \in Int /\ credited[v] \in Int
      BY <1>0, OrdersConstants DEF OrdersTypeOK, Money
    <3>3. form[u].balance = balance[u]
      BY <3>1, <3>2 DEF UpdateAdminUser, FormsCurrent
    <3>4. orders' = orders /\ balance'[v] - credited'[v] = balance[v] - credited[v]
      BY <1>0, <3>1, <3>2, <3>3 DEF UpdateAdminUser, OrdersTypeOK
    <3> QED BY <3>4 DEF WalletStep
  <2> QED BY <1>7, <2>1, <2>2, <2>3, <2>4, <2>5, <2>6, <2>7, <2>8 DEF Store
<1>8. CASE CallMade \/ CallFailed \/ CallLost \/ Paid \/ Late \/ Edit \/ Advance \/ UNCHANGED vars
  <2>1. orders' = orders /\ balance' = balance /\ credited' = credited
    BY <1>8 DEF CallMade, CallFailed, CallLost, Paid, Late, Edit, Advance, vars, orderVars,
       CompletePaymentCheckout, FailPaymentCheckout, AbandonCall, Pay, LateWebhook, EditPayment, Tick
  <2> QED BY <1>2, <2>1
<1> QED BY <1>3, <1>4, <1>5, <1>6, <1>7, <1>8 DEF Next

LEMMA InitLedger == ASSUME Init, NEW u \in Users PROVE Ledger(u)
<1>1. ASSUME NEW i \in OrderIds PROVE RowMoved(orders[i], u) = 0
  <2>1. orders[i].bal = 0 /\ orders[i].credit = 0
    <3>1. NoOrder.bal = 0 /\ NoOrder.credit = 0
      BY DEF NoOrder
    <3>2. \A w \in Users, p \in Plans : \A d \in DOMAIN Price[p] :
             Imported(w, p, d).bal = 0 /\ Imported(w, p, d).credit = 0
      BY DEF Imported, NoOrder
    <3> QED BY <3>1, <3>2, InitRows DEF Init, InitialRow
  <2> QED BY <2>1 DEF RowMoved
<1> DEFINE f == [i \in OrderIds |-> RowMoved(orders[i], u)]
<1>2. \A i \in OrderIds : f[i] = 0
  BY <1>1
<1>3. Ledger(u) <=> balance[u] = credited[u] + SumFunctionOnSet(f, OrderIds)
  BY DEF Ledger
<1> HIDE DEF f
<1>4. SumFunctionOnSet(f, OrderIds) = 0
  BY <1>2, FiniteOrders, SumZero
<1>5. balance[u] = 0 /\ credited[u] = 0
  BY DEF Init, OrdersInit
<1> QED BY <1>3, <1>4, <1>5

\* The wallet of every user is the sum of its history: no refund is paid twice, no change
\* is lost and no administrator's save overwrites a newer balance, however purchases,
\* webhooks, sweeps, transfers and saves interleave.
THEOREM WalletsBalance == Spec => []BalanceLedger
<1> DEFINE Ledgers == \A u \in Users : Ledger(u)
<1>1. Init => Ledgers
  BY InitLedger
<1>2. TypeOK /\ TypeOK' /\ OrdersInv /\ FormsCurrent /\ Ledgers /\ [Next]_vars => Ledgers'
  BY StepWallet, WalletStepKeeps DEF TypeOK, OrdersInv
<1>3. TypeOK /\ Ledgers => BalanceLedger
  <2> SUFFICES ASSUME TypeOK, Ledgers, NEW u \in Users
               PROVE  balance[u] = credited[u]
                        - SumFunctionOnSet([i \in OrderIds |-> orders[i].bal], OrdersOf(u, Active \cup Settled))
                        + SumFunctionOnSet([i \in OrderIds |-> orders[i].credit], OrdersOf(u, Settled))
    BY DEF BalanceLedger
  <2> DEFINE b == SumFunctionOnSet([i \in OrderIds |-> orders[i].bal], OrdersOf(u, Active \cup Settled))
             c == SumFunctionOnSet([i \in OrderIds |-> orders[i].credit], OrdersOf(u, Settled))
  <2>1. balance[u] = credited[u] + (c - b)
    BY MovedSums DEF Ledger, OrdersOf, TypeOK, OrdersTypeOK
  <2>2. b \in Int /\ c \in Int
    <3> DEFINE fb == [i \in OrderIds |-> orders[i].bal]
               fc == [i \in OrderIds |-> orders[i].credit]
    <3>1. \A i \in OrderIds : fb[i] \in Int /\ fc[i] \in Int
      BY OrdersConstants DEF TypeOK, OrdersTypeOK, Order, Money
    <3>2. OrdersOf(u, Active \cup Settled) \in SUBSET OrderIds /\ OrdersOf(u, Settled) \in SUBSET OrderIds
      BY DEF OrdersOf
    <3> HIDE DEF fb, fc
    <3>3. Summable(fb, OrderIds) /\ Summable(fc, OrderIds)
      BY <3>1, FiniteOrders DEF Summable
    <3>4. Summable(fb, OrdersOf(u, Active \cup Settled)) /\ Summable(fc, OrdersOf(u, Settled))
      BY <3>2, <3>3, SummableLess
    <3> QED BY <3>4, SumInt DEF fb, fc
  <2>3. credited[u] \in Int
    BY DEF TypeOK, OrdersTypeOK
  <2> HIDE DEF b, c
  <2>4. balance[u] = credited[u] - b + c
    BY <2>1, <2>2, <2>3
  <2> QED BY <2>4 DEF b, c
<1> HIDE DEF Ledgers
<1>4. Spec => []TypeOK /\ []OrdersInv /\ []FormsCurrent
  BY TypeCorrect, InitOrders, StepOrders, FormsCorrect, PTL DEF Spec
<1> QED BY <1>1, <1>2, <1>3, <1>4, PTL DEF Spec

-----------------------------------------------------------------------------
(* Plan changes *)

\* No row is worth less than nothing, and none comes from the future.
Valued == \A i \in OrderIds : orders[i].discount <= orders[i].original /\ orders[i].created <= now

\* The value of every order, and what an open plan change takes over: never more than the
\* orders it counted are worth.
Worth == [i \in OrderIds |-> PaidValue(orders[i])]
Covered == \A i \in OrderIds : orders[i].status \in Active => orders[i].surplus <= SumFunctionOnSet(Worth, orders[i].sids)

LEMMA WorthNat ==
    ASSUME OrdersTypeOK, NetPriceKept, Valued, NEW i \in OrderIds
    PROVE  Worth[i] = PaidValue(orders[i]) /\ PaidValue(orders[i]) \in Nat
<1>1. orders[i].original \in Nat /\ orders[i].discount \in Nat /\ orders[i].discount <= orders[i].original
  BY OrdersConstants DEF OrdersTypeOK, Order, Money, Valued
<1>2. PaidValue(orders[i]) = orders[i].original - orders[i].discount
  BY DEF NetPriceKept
<1>3. PaidValue(orders[i]) \in Nat
  BY <1>1, <1>2
<1> QED BY <1>3 DEF Worth

LEMMA Monotone == ASSUME NEW a \in Nat, NEW b \in Nat, NEW k \in Nat, a <= b PROVE a * k <= b * k /\ k * a <= k * b
OBVIOUS

\* A share of the time that is left is never more than the whole.
LEMMA TimeShare ==
    ASSUME NEW n \in Nat, NEW paid \in Nat, NEW left \in Nat, NEW m \in Nat, NEW t \in Nat, m * t >= 1,
           left <= m * t, n * m * t <= paid * left
    PROVE  n <= paid
<1>1. PICK k \in Nat : k = m * t
  OBVIOUS
<1>2. n * k = n * m * t
  BY <1>1
<1>3. paid * left <= paid * k
  BY <1>1, Monotone
<1>4. n * k <= paid * k
  <2>1. n * k \in Nat /\ paid * left \in Nat /\ paid * k \in Nat
    OBVIOUS
  <2> QED BY <1>2, <1>3, <2>1
<1> SUFFICES ASSUME n >= paid + 1 PROVE FALSE
  OBVIOUS
<1>5. (paid + 1) * k <= n * k
  BY Monotone
<1>6. (paid + 1) * k = paid * k + k
  OBVIOUS
<1>7. n * k \in Nat /\ paid * k \in Nat /\ k >= 1
  BY <1>1
<1> QED BY <1>4, <1>5, <1>6, <1>7

\* The surplus of a one-time subscription: a share of the newest order.
LEMMA PermanentCovered ==
    ASSUME OrdersTypeOK, NetPriceKept, Valued, NEW u \in Users, NEW s \in PermanentSurplus(u), s # NoSurplus
    PROVE  s.amount <= SumFunctionOnSet(Worth, s.ids)
<1> DEFINE onetime == {i \in CompletedOf(u) : orders[i].period = "onetime"}
           last == Max(onetime)
           ids == {i \in CompletedOf(u) : orders[i].period # "reset_traffic"}
<1>1. /\ onetime # {}
      /\ \E a \in {n \in Money : n <= PaidValue(orders[last])} : s = [amount |-> a, ids |-> ids]
  BY Zenon DEF PermanentSurplus
<1>2. s.amount <= PaidValue(orders[last]) /\ s.ids = ids /\ s.amount \in Int
  BY <1>1, OrdersConstants DEF Money
<1>3. last \in onetime
  <2>1. onetime \subseteq 0 .. MaxOrders
    BY OrdersConstants DEF CompletedOf, OrderIds
  <2>2. PICK e \in onetime : TRUE
    BY <1>1
  <2> HIDE DEF onetime
  <2>3. \E x \in onetime : \A y \in onetime : x >= y
    BY <2>1, <2>2, GreatestNatural, OrdersConstants
  <2> QED BY <2>3 DEF Max
<1>4. last \in ids /\ ids \subseteq OrderIds
  BY <1>3 DEF CompletedOf
<1> HIDE DEF ids, last
<1>5. IsFiniteSet(ids)
  BY <1>4, FiniteOrders, FS_Subset
<1>6. \A i \in ids : Worth[i] \in Nat
  BY <1>4, WorthNat
<1>7. Worth[last] <= SumFunctionOnSet(Worth, ids)
  BY <1>4, <1>5, <1>6, SumAtLeast
<1>8. Worth[last] = PaidValue(orders[last]) /\ PaidValue(orders[last]) \in Nat
  BY <1>4, WorthNat
<1>9. SumFunctionOnSet(Worth, ids) \in Nat
  BY <1>5, <1>6, SumNat
<1> QED BY <1>2, <1>7, <1>8, <1>9

\* The surplus of recurring orders: a share of all of them by the time that is left.
LEMMA RecurringCovered ==
    ASSUME OrdersTypeOK, NetPriceKept, Valued, NEW u \in Users, NEW s \in RecurringSurplus(u), s # NoSurplus
    PROVE  s.amount <= SumFunctionOnSet(Worth, s.ids)
<1> DEFINE ids == {i \in CompletedOf(u) : orders[i].period \in Recurring}
           worth == [i \in ids |-> PaidValue(orders[i])]
           lengths == [i \in ids |-> Months[orders[i].period]]
           paid == SumFunctionOnSet(worth, ids)
           months == SumFunctionOnSet(lengths, ids)
           first == Min({orders[i].created : i \in ids})
           left == Greatest(0, first + months * Month - now)
<1>1. /\ ids # {}
      /\ \E a \in {n \in Money : n * months * Month <= paid * left} : s = [amount |-> a, ids |-> ids]
  BY Zenon DEF RecurringSurplus
<1>2. s.amount * months * Month <= paid * left /\ s.ids = ids /\ s.amount \in Nat
  BY <1>1, OrdersConstants DEF Money
<1>3. ids \subseteq OrderIds /\ \A i \in ids : orders[i].period \in Recurring
  BY DEF CompletedOf
<1>4. PICK e \in ids : TRUE
  BY <1>1
<1>5. first \in Nat /\ first <= now /\ now \in Nat
  <2> DEFINE A == {orders[i].created : i \in ids}
  <2>1. A \subseteq Nat /\ orders[e].created \in A /\ \A x \in A : x <= now
    BY <1>3 DEF OrdersTypeOK, Order, Valued
  <2> HIDE DEF A
  <2>2. \E x \in A : \A y \in A : x <= y
    BY <2>1, LeastNatural
  <2>3. Min(A) \in A
    BY <2>2 DEF Min
  <2>4. now \in Nat
    BY OrdersConstants DEF OrdersTypeOK, Instants
  <2> QED BY <2>1, <2>3, <2>4 DEF A
<1>6. \A i \in ids : lengths[i] \in Nat /\ lengths[i] >= 1
  BY <1>3 DEF Recurring, Months
<1>7. \A i \in ids : worth[i] \in Nat /\ worth[i] = Worth[i]
  BY <1>3, WorthNat
<1>8. left = IF 0 < first + months * Month - now THEN first + months * Month - now ELSE 0
  BY DEF Greatest
<1> HIDE DEF ids, worth, lengths, first, left
<1>9. IsFiniteSet(ids)
  BY <1>3, FiniteOrders, FS_Subset
<1>10. months \in Nat /\ months >= 1
  <2>1. months \in Nat
    BY <1>6, <1>9, SumNat
  <2>2. lengths[e] <= months
    BY <1>4, <1>6, <1>9, SumAtLeast
  <2> HIDE DEF months
  <2> QED BY <1>4, <1>6, <2>1, <2>2
<1>11. paid \in Nat /\ paid = SumFunctionOnSet(Worth, ids)
  <2>1. paid \in Nat
    BY <1>7, <1>9, SumNat
  <2>2. paid = SumFunctionOnSet(Worth, ids)
    BY <1>7, <1>9, SumSame
  <2> QED BY <2>1, <2>2
<1> HIDE DEF months, paid
<1>12. months * Month \in Nat /\ months * Month >= 1
  <2>1. Month \in Nat /\ Month >= 1
    BY OrdersConstants
  <2>2. 1 * Month <= months * Month
    BY <1>10, <2>1, Monotone
  <2> QED BY <1>10, <2>1, <2>2
<1>13. left \in Nat /\ left <= months * Month
  BY <1>5, <1>8, <1>12
<1>14. s.amount <= paid
  BY <1>2, <1>10, <1>11, <1>12, <1>13, TimeShare, OrdersConstants
<1> QED BY <1>2, <1>11, <1>14

LEMMA SurplusCovered ==
    ASSUME OrdersTypeOK, NetPriceKept, Valued, NEW u \in Users, NEW s \in Surplus(u)
    PROVE  s.amount <= SumFunctionOnSet(Worth, s.ids)
<1>1. CASE s = NoSurplus
  BY <1>1, SumNone DEF NoSurplus
<1>2. CASE s # NoSurplus
  BY <1>2, PermanentCovered, RecurringCovered DEF Surplus
<1> QED BY <1>1, <1>2

LEMMA InsertCovers ==
    ASSUME OrdersTypeOK, OrdersInv, Valued, Covered, NEW u \in Users, Inserted(u)
    PROVE  Valued' /\ Covered'
<1>1. PICK i \in OrderIds, r \in Order :
          NewId(i) /\ Fresh(r, u) /\ FromSurplus(r, u) /\ orders' = [orders EXCEPT ![i] = r]
  BY DEF Inserted
<1>2. orders'[i] = r /\ now' = now /\ \A j \in OrderIds \ {i} : orders'[j] = orders[j]
  BY <1>1 DEF OrdersTypeOK, Inserted
<1>3. orders[i].status = "absent"
  BY <1>1, OrdersConstants DEF NewId, OrderIds
<1>4. Valued'
  <2>1. now \in Int
    BY OrdersConstants DEF OrdersTypeOK, Instants
  <2> QED BY <1>1, <1>2, <2>1 DEF Valued, Fresh
<1>5. \A j \in OrderIds \ {i} : Worth'[j] = Worth[j]
  BY <1>2 DEF Worth, PaidValue
<1>6. ASSUME NEW T, T \subseteq OrderIds, i \notin T
      PROVE  SumFunctionOnSet(Worth', T) = SumFunctionOnSet(Worth, T)
  <2>1. IsFiniteSet(T) /\ \A x \in T : Worth'[x] = Worth[x]
    BY <1>5, <1>6, FiniteOrders, FS_Subset
  <2> QED BY <2>1, SumSame
<1>7. ASSUME NEW j \in OrderIds, orders'[j].status \in Active
      PROVE  orders'[j].surplus <= SumFunctionOnSet(Worth', orders'[j].sids)
  <2>1. CASE j = i
    <3>1. orders'[j].sids = r.sids /\ orders'[j].surplus = r.surplus /\ r.sids \subseteq OrderIds /\ i \notin r.sids
      BY <1>1, <1>2, <1>3, <2>1 DEF Fresh, CompletedOf
    <3>2. SumFunctionOnSet(Worth', r.sids) = SumFunctionOnSet(Worth, r.sids)
      BY <1>6, <3>1
    <3>3. r.surplus <= SumFunctionOnSet(Worth, r.sids)
      <4>1. CASE r.surplus = 0
        <5>1. IsFiniteSet(r.sids) /\ \A x \in r.sids : Worth[x] \in Nat
          BY <3>1, FiniteOrders, FS_Subset, WorthNat DEF OrdersInv
        <5>2. SumFunctionOnSet(Worth, r.sids) \in Nat
          BY <5>1, SumNat
        <5> QED BY <4>1, <5>2
      <4>2. CASE r.surplus # 0
        <5>1. PICK s \in Surplus(u) : r.surplus = s.amount /\ r.sids = s.ids
          BY <1>1, <4>2 DEF FromSurplus
        <5>2. s.amount <= SumFunctionOnSet(Worth, s.ids)
          BY SurplusCovered DEF OrdersInv
        <5> QED BY <5>1, <5>2
      <4> QED BY <4>1, <4>2
    <3> QED BY <3>1, <3>2, <3>3
  <2>2. CASE j # i
    <3>1. orders'[j] = orders[j]
      BY <1>2, <2>2
    <3>2. orders[j].sids \subseteq OrderIds /\ i \notin orders[j].sids
      BY <1>3 DEF OrdersTypeOK, Order, OrdersInv, SurplusKept, Settled
    <3>3. SumFunctionOnSet(Worth', orders[j].sids) = SumFunctionOnSet(Worth, orders[j].sids)
      BY <1>6, <3>2
    <3> QED BY <1>7, <3>1, <3>3 DEF Covered
  <2> QED BY <2>1, <2>2
<1>8. Covered'
  BY <1>7 DEF Covered
<1> QED BY <1>4, <1>8

LEMMA EndCovers ==
    ASSUME OrdersTypeOK, OrdersTypeOK', Valued, Covered, NEW C, NEW S, Ended(C, S), now' >= now
    PROVE  Valued' /\ Covered'
<1>1. ASSUME NEW i \in OrderIds
      PROVE  /\ orders'[i].created = orders[i].created /\ orders'[i].original = orders[i].original
             /\ orders'[i].discount = orders[i].discount /\ orders'[i].sids = orders[i].sids
             /\ orders'[i].surplus = orders[i].surplus /\ PaidValue(orders'[i]) = PaidValue(orders[i])
             /\ orders'[i].status \in Active => orders[i].status \in Active
  <2>1. Terms(orders'[i]) = Terms(orders[i]) /\ orders'[i].status = EndedStatus(i, C, S)
    BY DEF Ended
  <2>2. orders'[i].status \in Active => orders[i].status \in Active
    BY <2>1 DEF EndedStatus, Active
  <2> QED BY <2>1, <2>2, TermsFields
<1>2. Valued'
  <2> SUFFICES ASSUME NEW i \in OrderIds
               PROVE  orders'[i].discount <= orders'[i].original /\ orders'[i].created <= now'
    BY DEF Valued
  <2>1. now \in Int /\ now' \in Int /\ orders[i].created \in Int
    BY OrdersConstants DEF OrdersTypeOK, Instants, Order
  <2> QED BY <1>1, <2>1 DEF Valued
<1>3. \A j \in OrderIds : Worth'[j] = Worth[j]
  <2> SUFFICES ASSUME NEW j \in OrderIds PROVE PaidValue(orders'[j]) = PaidValue(orders[j])
    BY DEF Worth, PaidValue
  <2> QED BY <1>1
<1>4. ASSUME NEW i \in OrderIds, orders'[i].status \in Active
      PROVE  orders'[i].surplus <= SumFunctionOnSet(Worth', orders'[i].sids)
  <2>1. orders[i].sids \subseteq OrderIds
    BY DEF OrdersTypeOK, Order
  <2>2. IsFiniteSet(orders[i].sids) /\ \A x \in orders[i].sids : Worth'[x] = Worth[x]
    BY <1>3, <2>1, FiniteOrders, FS_Subset
  <2>3. SumFunctionOnSet(Worth', orders[i].sids) = SumFunctionOnSet(Worth, orders[i].sids)
    BY <2>2, SumSame
  <2>4. orders[i].surplus <= SumFunctionOnSet(Worth, orders[i].sids)
    BY <1>1, <1>4 DEF Covered
  <2> QED BY <1>1, <2>3, <2>4
<1>5. Covered'
  BY <1>4 DEF Covered
<1> QED BY <1>2, <1>5

\* Time never runs backwards.
LEMMA StepNow == ASSUME TypeOK, [Next]_vars PROVE now' >= now
<1>0. now \in Int
  BY OrdersConstants DEF TypeOK, OrdersTypeOK, Instants
<1>1. CASE Start \/ Cached \/ CallMade \/ CallFailed \/ CallLost \/ Paid \/ Late \/ Edit \/ UNCHANGED vars
  <2>1. now' = now
    BY <1>1 DEF Start, Cached, CallMade, CallFailed, CallLost, Paid, Late, Edit, vars, orderVars,
       StartPaymentCheckout, CachedCheckout, CompletePaymentCheckout, FailPaymentCheckout, AbandonCall, Pay,
       LateWebhook, EditPayment
  <2> QED BY <1>0, <2>1
<1>2. CASE Advance
  BY <1>0, <1>2 DEF Advance, Tick
<1>3. CASE Webhook \/ Sweep
  <2>1. now' = now
    BY <1>3 DEF Webhook, CompletePaymentWebhook, Sweep, ProcessStaleOrders, EndOrders
  <2> QED BY <1>0, <2>1
<1>4. CASE Store
  <2>1. now' = now
    <3>1. CASE Purchase \/ Assign
      <4>1. ASSUME NEW u \in Users, NEW p \in Plans, NEW d \in Periods, CreateOrder(u, p, d) PROVE now' = now
        BY <4>1, Zenon DEF CreateOrder
      <4>2. ASSUME NEW u \in Users, NEW p \in Plans, NEW d \in AssignPeriods, AssignOrder(u, p, d) PROVE now' = now
        BY <4>2, Zenon DEF AssignOrder
      <4> QED BY <3>1, <4>1, <4>2 DEF Purchase, Assign
    <3>2. CASE Cancel \/ FreeCheckout \/ AdminPaid
      BY <3>2 DEF Cancel, FreeCheckout, AdminPaid, CancelOrder, CompleteOrder, CompletePendingOrder, EndOrders
    <3>3. CASE Transfer \/ OpenForm \/ SaveForm
      BY <3>3 DEF Transfer, OpenForm, SaveForm, TransferCommission, LoadUserForm, UpdateAdminUser
    <3> QED BY <1>4, <3>1, <3>2, <3>3 DEF Store
  <2> QED BY <1>0, <2>1
<1> QED BY <1>1, <1>2, <1>3, <1>4 DEF Next

\* What a row adds to the value of u beyond what u paid: its worth while it counts, and its
\* change, less the money and wallet it took in.
RowMinted(o, u) ==
    (IF o.user = u /\ o.status = "completed" THEN PaidValue(o) ELSE 0)
      + (IF o.user = u /\ o.status \in Settled THEN o.credit - (o.total + o.bal) ELSE 0)

LEMMA RowMintedInt ==
    ASSUME NEW o \in Order, NEW u
    PROVE  /\ RowMinted(o, u) \in Int /\ PaidValue(o) \in Int /\ o.credit \in Int /\ o.total + o.bal \in Int
           /\ o.surplus \in Int
<1>1. o.credit \in Int /\ o.bal \in Int /\ o.total \in Int /\ o.surplus \in Int
  BY OrdersConstants DEF Order, Money
<1>2. PaidValue(o) \in Int
  BY <1>1 DEF PaidValue
<1> QED BY <1>1, <1>2 DEF RowMinted

\* The three columns of NoMintedValue as one.
LEMMA MintedSums ==
    ASSUME NEW t \in [OrderIds -> Order], NEW u
    PROVE  SumFunctionOnSet([i \in OrderIds |-> PaidValue(t[i])],
                            {i \in OrderIds : t[i].user = u /\ t[i].status \in {"completed"}})
             + SumFunctionOnSet([i \in OrderIds |-> t[i].credit],
                                {i \in OrderIds : t[i].user = u /\ t[i].status \in Settled})
           = SumFunctionOnSet([i \in OrderIds |-> RowMinted(t[i], u)], OrderIds)
             + SumFunctionOnSet([i \in OrderIds |-> t[i].total + t[i].bal],
                                {i \in OrderIds : t[i].user = u /\ t[i].status \in Settled})
<1> DEFINE F == {i \in OrderIds : t[i].user = u /\ t[i].status \in {"completed"}}
           D == {i \in OrderIds : t[i].user = u /\ t[i].status \in Settled}
           w == [i \in OrderIds |-> PaidValue(t[i])]
           c == [i \in OrderIds |-> t[i].credit]
           b == [i \in OrderIds |-> t[i].total + t[i].bal]
           wm == [i \in OrderIds |-> IF i \in F THEN w[i] ELSE 0]
           cm == [i \in OrderIds |-> IF i \in D THEN c[i] ELSE 0]
           bm == [i \in OrderIds |-> IF i \in D THEN b[i] ELSE 0]
           m == [i \in OrderIds |-> RowMinted(t[i], u)]
           a == [i \in OrderIds |-> wm[i] + cm[i]]
<1>1. \A i \in OrderIds : w[i] \in Int /\ c[i] \in Int /\ b[i] \in Int /\ m[i] \in Int
  BY RowMintedInt
<1>2. \A i \in OrderIds : a[i] = m[i] + bm[i]
  <2> SUFFICES ASSUME NEW i \in OrderIds PROVE wm[i] + cm[i] = RowMinted(t[i], u) + bm[i]
    OBVIOUS
  <2>1. PaidValue(t[i]) \in Int /\ t[i].credit \in Int /\ t[i].total + t[i].bal \in Int
    BY RowMintedInt
  <2>2. PICK p \in Int, q \in Int, r \in Int : p = PaidValue(t[i]) /\ q = t[i].credit /\ r = t[i].total + t[i].bal
    BY <2>1
  <2>3. RowMinted(t[i], u) = (IF i \in F THEN p ELSE 0) + (IF i \in D THEN q - r ELSE 0)
    BY <2>2 DEF RowMinted
  <2>4. wm[i] = (IF i \in F THEN p ELSE 0) /\ cm[i] = (IF i \in D THEN q ELSE 0) /\ bm[i] = (IF i \in D THEN r ELSE 0)
    BY <2>2
  <2> HIDE DEF wm, cm, bm, F, D
  <2> QED BY <2>3, <2>4
<1>3. /\ D \subseteq OrderIds /\ F \subseteq OrderIds
      /\ \A i \in OrderIds : wm[i] = IF i \in F THEN w[i] ELSE 0
      /\ \A i \in OrderIds : cm[i] = IF i \in D THEN c[i] ELSE 0
      /\ \A i \in OrderIds : bm[i] = IF i \in D THEN b[i] ELSE 0
      /\ \A i \in OrderIds : a[i] = wm[i] + cm[i]
  OBVIOUS
<1> HIDE DEF F, D, w, c, b, wm, cm, bm, m, a
<1>4. /\ Summable(w, OrderIds) /\ Summable(c, OrderIds) /\ Summable(b, OrderIds) /\ Summable(m, OrderIds)
      /\ Summable(wm, OrderIds) /\ Summable(cm, OrderIds) /\ Summable(bm, OrderIds)
  BY <1>1, <1>3, FiniteOrders DEF Summable
<1>5. SumFunctionOnSet(wm, OrderIds) = SumFunctionOnSet(w, F)
  BY <1>3, <1>4, SumMasked
<1>6. SumFunctionOnSet(cm, OrderIds) = SumFunctionOnSet(c, D)
  BY <1>3, <1>4, SumMasked
<1>7. SumFunctionOnSet(bm, OrderIds) = SumFunctionOnSet(b, D)
  BY <1>3, <1>4, SumMasked
<1>8. SumFunctionOnSet(a, OrderIds) = SumFunctionOnSet(wm, OrderIds) + SumFunctionOnSet(cm, OrderIds)
  BY <1>3, <1>4, SumPlus
<1>9. SumFunctionOnSet(a, OrderIds) = SumFunctionOnSet(m, OrderIds) + SumFunctionOnSet(bm, OrderIds)
  BY <1>2, <1>4, SumPlus
<1>10. SumFunctionOnSet(w, F) + SumFunctionOnSet(c, D) = SumFunctionOnSet(m, OrderIds) + SumFunctionOnSet(b, D)
  BY <1>5, <1>6, <1>7, <1>8, <1>9
<1> QED BY <1>10 DEF F, D, w, c, b, m

\* What u holds beyond what u paid.
Minted(u) == SumFunctionOnSet([i \in OrderIds |-> RowMinted(orders[i], u)], OrderIds)

LEMMA MintedSame ==
    ASSUME NEW u, \A i \in OrderIds : RowMinted(orders'[i], u) = RowMinted(orders[i], u)
    PROVE  Minted(u)' = Minted(u)
<1> DEFINE f == [i \in OrderIds |-> RowMinted(orders[i], u)]
           g == [i \in OrderIds |-> RowMinted(orders'[i], u)]
<1>1. \A i \in OrderIds : f[i] = g[i]
  OBVIOUS
<1>2. Minted(u) = SumFunctionOnSet(f, OrderIds) /\ Minted(u)' = SumFunctionOnSet(g, OrderIds)
  BY DEF Minted, RowMinted, PaidValue
<1> HIDE DEF f, g
<1> QED BY <1>1, <1>2, FiniteOrders, SumSame

LEMMA InsertMints ==
    ASSUME OrdersTypeOK, NEW u \in Users, Inserted(u), NEW v \in Users
    PROVE  Minted(v)' = Minted(v)
<1>1. PICK i \in OrderIds, r \in Order : NewId(i) /\ Fresh(r, u) /\ orders' = [orders EXCEPT ![i] = r]
  BY DEF Inserted
<1>2. orders'[i] = r /\ \A j \in OrderIds \ {i} : orders'[j] = orders[j]
  BY <1>1 DEF OrdersTypeOK
<1>3. orders[i].status = "absent" /\ r.status = "pending"
  BY <1>1, OrdersConstants DEF NewId, OrderIds, Fresh
<1>4. RowMinted(orders[i], v) = 0 /\ RowMinted(r, v) = 0
  BY <1>3 DEF RowMinted, Settled
<1>5. \A j \in OrderIds : RowMinted(orders'[j], v) = RowMinted(orders[j], v)
  BY <1>2, <1>4
<1> QED BY <1>5, MintedSame

\* Completing a plan change adds what it took over and removes what the orders it converts
\* were worth, which is at least as much.
LEMMA ChangeMints ==
    ASSUME OrdersTypeOK, OrdersTypeOK', OrdersInv, Valued, Covered, NEW v, NEW i \in OrderIds,
           orders[i].status \in Active,
           RowMinted(orders[i], v) = 0, RowMinted(orders'[i], v) = orders[i].surplus,
           \A j \in OrderIds \ {i} : RowMinted(orders'[j], v) = RowMinted(orders[j], v)
                                       - (IF j \in orders[i].sids THEN PaidValue(orders[j]) ELSE 0)
    PROVE  Minted(v)' <= Minted(v) /\ Minted(v) \in Int /\ Minted(v)' \in Int
<1> DEFINE T == orders[i].sids
           f == [j \in OrderIds |-> RowMinted(orders[j], v)]
           g == [j \in OrderIds |-> RowMinted(orders'[j], v)]
           e == [j \in OrderIds |-> IF j \in T THEN Worth[j] ELSE 0]
           k == [j \in OrderIds |-> IF j = i THEN orders[i].surplus ELSE 0]
           a == [j \in OrderIds |-> g[j] + e[j]]
<1>1. T \subseteq OrderIds /\ i \notin T
  BY DEF OrdersTypeOK, Order, OrdersInv, SurplusKept, Settled, Active
<1>2. \A j \in OrderIds : /\ f[j] = RowMinted(orders[j], v) /\ g[j] = RowMinted(orders'[j], v)
                          /\ f[j] \in Int /\ g[j] \in Int
  BY RowMintedInt DEF OrdersTypeOK
<1>3. /\ \A j \in OrderIds : e[j] = IF j \in T THEN Worth[j] ELSE 0
      /\ \A j \in OrderIds : a[j] = g[j] + e[j]
      /\ \A j \in OrderIds : k[j] = IF j = i THEN orders[i].surplus ELSE 0
  OBVIOUS
<1>4. \A j \in OrderIds : Worth[j] = PaidValue(orders[j]) /\ Worth[j] \in Int
  BY WorthNat DEF OrdersInv
<1>5. orders[i].surplus \in Int /\ orders[i].surplus <= SumFunctionOnSet(Worth, T)
  BY RowMintedInt DEF Covered, OrdersTypeOK
<1>6. Minted(v) = SumFunctionOnSet(f, OrderIds) /\ Minted(v)' = SumFunctionOnSet(g, OrderIds)
  BY DEF Minted, RowMinted, PaidValue
<1>7. \A j \in OrderIds \ {i} : RowMinted(orders'[j], v) = RowMinted(orders[j], v)
                                  - (IF j \in T THEN PaidValue(orders[j]) ELSE 0)
  OBVIOUS
<1> HIDE DEF T, f, g, e, k, a
<1>8. \A j \in OrderIds : a[j] = f[j] + k[j]
  <2> SUFFICES ASSUME NEW j \in OrderIds PROVE a[j] = f[j] + k[j]
    OBVIOUS
  <2>1. CASE j = i
    BY <1>1, <1>2, <1>3, <1>5, <2>1
  <2>2. CASE j # i
    <3>1. g[j] = f[j] - (IF j \in T THEN Worth[j] ELSE 0)
      BY <1>2, <1>4, <1>7, <2>2
    <3> QED BY <1>2, <1>3, <1>4, <2>2, <3>1
  <2> QED BY <2>1, <2>2
<1>9. /\ Summable(f, OrderIds) /\ Summable(g, OrderIds) /\ Summable(Worth, OrderIds)
      /\ Summable(e, OrderIds) /\ Summable(k, OrderIds)
  BY <1>2, <1>3, <1>4, <1>5, FiniteOrders DEF Summable
<1>10. SumFunctionOnSet(e, OrderIds) = SumFunctionOnSet(Worth, T)
  BY <1>1, <1>3, <1>9, SumMasked
<1>11. SumFunctionOnSet(k, OrderIds) = orders[i].surplus
  <2> DEFINE z == [j \in OrderIds |-> 0]
  <2>1. \A j \in OrderIds : z[j] = 0
    OBVIOUS
  <2> HIDE DEF z
  <2>2. SumFunctionOnSet(z, OrderIds) = 0 /\ Summable(z, OrderIds)
    BY <2>1, FiniteOrders, SumZero DEF Summable
  <2>3. k[i] \in Int /\ k[i] = orders[i].surplus /\ z[i] = 0 /\ \A j \in OrderIds \ {i} : z[j] = k[j]
    BY <1>3, <1>5, <2>1
  <2>4. SumFunctionOnSet(k, OrderIds) = SumFunctionOnSet(z, OrderIds) - z[i] + k[i]
    BY <2>2, <2>3, SumChanged
  <2> QED BY <1>5, <2>2, <2>3, <2>4
<1>12. SumFunctionOnSet(a, OrderIds) = SumFunctionOnSet(g, OrderIds) + SumFunctionOnSet(e, OrderIds)
  BY <1>3, <1>9, SumPlus
<1>13. SumFunctionOnSet(a, OrderIds) = SumFunctionOnSet(f, OrderIds) + SumFunctionOnSet(k, OrderIds)
  BY <1>8, <1>9, SumPlus
<1>14. SumFunctionOnSet(f, OrderIds) \in Int /\ SumFunctionOnSet(g, OrderIds) \in Int /\ SumFunctionOnSet(e, OrderIds) \in Int
  BY <1>9, SumInt
<1> QED BY <1>5, <1>6, <1>10, <1>11, <1>12, <1>13, <1>14

LEMMA EndMints ==
    ASSUME OrdersTypeOK, OrdersTypeOK', OrdersInv, Valued, Covered, NEW C, NEW S, Ended(C, S), NEW v \in Users
    PROVE  Minted(v)' = Minted(v) \/ (Minted(v)' <= Minted(v) /\ Minted(v) \in Int /\ Minted(v)' \in Int)
<1>1. ASSUME NEW i \in OrderIds
      PROVE  /\ orders'[i].user = orders[i].user /\ orders'[i].bal = orders[i].bal /\ orders'[i].total = orders[i].total
             /\ orders'[i].credit = orders[i].credit /\ orders'[i].status = EndedStatus(i, C, S)
             /\ PaidValue(orders'[i]) = PaidValue(orders[i]) /\ orders[i] \in Order
  <2>1. Terms(orders'[i]) = Terms(orders[i]) /\ orders'[i].status = EndedStatus(i, C, S)
    BY DEF Ended
  <2> QED BY <2>1, TermsFields DEF OrdersTypeOK
<1>2. ASSUME NEW i \in OrderIds, i \notin S, i \notin Converted(S)
      PROVE  RowMinted(orders'[i], v) = RowMinted(orders[i], v)
  <2>1. CASE i \in C
    <3>1. orders[i].status = "pending" /\ orders'[i].status = "cancelled"
      BY <1>1, <1>2, <2>1 DEF EndedStatus, Ended
    <3> QED BY <3>1 DEF RowMinted, Settled
  <2>2. CASE i \notin C
    <3>1. orders'[i].status = orders[i].status
      BY <1>1, <1>2, <2>2 DEF EndedStatus
    <3> QED BY <1>1, <3>1 DEF RowMinted
  <2> QED BY <2>1, <2>2
<1>3. ASSUME NEW i \in OrderIds, orders[i].user # v
      PROVE  RowMinted(orders'[i], v) = RowMinted(orders[i], v)
  BY <1>1, <1>3 DEF RowMinted
<1>4. CASE \E i \in S : orders[i].user = v
  <2>1. PICK i \in S : orders[i].user = v
    BY <1>4
  <2>2. i \in OrderIds /\ orders[i].status \in Active /\ orders'[i].status = "completed"
    BY <1>1 DEF Ended, EndedStatus
  <2>3. \A j \in OrderIds \ {i} : j \in S => orders[j].user # v
    BY <2>1, <2>2 DEF Ended, OrdersInv, OneActiveOrder
  <2>4. \A j \in OrderIds : orders[j].user = v => (j \in Converted(S) <=> j \in orders[i].sids)
    <3> SUFFICES ASSUME NEW j \in OrderIds, orders[j].user = v
                 PROVE  j \in Converted(S) <=> j \in orders[i].sids
      OBVIOUS
    <3>1. ASSUME j \in Converted(S) PROVE j \in orders[i].sids
      <4>1. PICK n \in S : j \in orders[n].sids /\ orders[j].user = orders[n].user
        BY <3>1 DEF Converted
      <4>2. n = i
        BY <2>3, <4>1 DEF Ended
      <4> QED BY <4>1, <4>2
    <3>2. ASSUME j \in orders[i].sids PROVE j \in Converted(S)
      BY <2>1, <2>2, <3>2 DEF Converted, OrdersInv, SurplusKept
    <3> QED BY <3>1, <3>2
  <2>5. RowMinted(orders[i], v) = 0
    BY <2>2 DEF RowMinted, Active, Settled
  <2>6. RowMinted(orders'[i], v) = orders[i].surplus
    <3>1. orders[i].credit \in Int /\ orders[i].bal \in Int /\ orders[i].total \in Int /\ orders[i].surplus \in Int
      BY <2>2, OrdersConstants DEF OrdersTypeOK, Order, Money
    <3>2. PaidValue(orders[i]) = orders[i].total + orders[i].bal + orders[i].surplus - orders[i].credit
      BY DEF PaidValue
    <3>3. RowMinted(orders'[i], v) = PaidValue(orders[i]) + (orders[i].credit - (orders[i].total + orders[i].bal))
      BY <1>1, <2>1, <2>2 DEF RowMinted, Settled
    <3> QED BY <3>1, <3>2, <3>3
  <2>7. ASSUME NEW j \in OrderIds \ {i}
        PROVE  RowMinted(orders'[j], v) = RowMinted(orders[j], v)
                 - (IF j \in orders[i].sids THEN PaidValue(orders[j]) ELSE 0)
    <3>1. RowMinted(orders[j], v) \in Int /\ PaidValue(orders[j]) \in Int /\ orders[j].credit \in Int /\ orders[j].total + orders[j].bal \in Int
      BY <1>1, RowMintedInt
    <3>2. CASE orders[j].user # v
      <4>1. j \notin orders[i].sids
        BY <2>1, <2>2, <3>2 DEF OrdersInv, SurplusKept
      <4> QED BY <1>3, <3>1, <3>2, <4>1
    <3>3. CASE orders[j].user = v /\ j \in Converted(S)
      <4>1. j \notin S /\ j \notin C /\ orders[j].status = "completed"
        BY <3>3 DEF Converted, Ended, Active
      <4>2. orders'[j].status = "discounted"
        BY <1>1, <3>3, <4>1 DEF EndedStatus
      <4>3. RowMinted(orders[j], v) = PaidValue(orders[j]) + (orders[j].credit - (orders[j].total + orders[j].bal))
        BY <3>3, <4>1 DEF RowMinted, Settled
      <4>4. RowMinted(orders'[j], v) = orders[j].credit - (orders[j].total + orders[j].bal)
        <5>1. orders'[j].user = v /\ orders'[j].status \in Settled /\ orders'[j].status # "completed"
          BY <1>1, <3>3, <4>2 DEF Settled
        <5>2. RowMinted(orders'[j], v) = 0 + (orders[j].credit - (orders[j].total + orders[j].bal))
          BY <1>1, <5>1 DEF RowMinted
        <5> QED BY <3>1, <5>2
      <4>5. j \in orders[i].sids
        BY <2>4, <3>3
      <4> QED BY <3>1, <4>3, <4>4, <4>5
    <3>4. CASE orders[j].user = v /\ j \notin Converted(S)
      <4>1. j \notin S /\ j \notin orders[i].sids
        BY <2>3, <2>4, <3>4
      <4> QED BY <1>2, <3>1, <3>4, <4>1
    <3> QED BY <3>2, <3>3, <3>4
  <2> QED BY <2>2, <2>5, <2>6, <2>7, ChangeMints
<1>5. CASE \A i \in S : orders[i].user # v
  <2>1. ASSUME NEW i \in OrderIds PROVE RowMinted(orders'[i], v) = RowMinted(orders[i], v)
    <3>1. CASE orders[i].user # v
      BY <1>3, <3>1
    <3>2. CASE orders[i].user = v
      <4>1. i \notin S /\ i \notin Converted(S)
        BY <1>5, <3>2 DEF Converted
      <4> QED BY <1>2, <4>1
    <3> QED BY <3>1, <3>2
  <2> QED BY <2>1, MintedSame
<1> QED BY <1>4, <1>5

\* What the induction carries: no row is worth less than nothing, open plan changes are
\* covered by the orders they count, and no user holds more than was paid.
ValueInv == Valued /\ Covered /\ \A u \in Users : Minted(u) <= 0

LEMMA InitValue == Init => ValueInv
<1> SUFFICES ASSUME Init PROVE ValueInv
  OBVIOUS
<1>0. now = 0
  BY DEF Init, OrdersInit
<1>1. ASSUME NEW i \in OrderIds
      PROVE  /\ orders[i].status \notin Settled /\ orders[i].surplus = 0 /\ orders[i].sids = {}
             /\ orders[i].discount <= orders[i].original /\ orders[i].created = 0
  <2>1. /\ NoOrder.status = "absent" /\ NoOrder.surplus = 0 /\ NoOrder.sids = {} /\ NoOrder.created = 0
        /\ NoOrder.discount = 0 /\ NoOrder.original = 0
    BY DEF NoOrder
  <2>2. ASSUME NEW u \in Users, NEW p \in Plans, NEW d \in DOMAIN Price[p]
        PROVE  /\ Imported(u, p, d).status = "processing" /\ Imported(u, p, d).surplus = 0
               /\ Imported(u, p, d).sids = {} /\ Imported(u, p, d).created = 0
               /\ Imported(u, p, d).discount = 0 /\ Imported(u, p, d).original = Price[p][d]
               /\ Price[p][d] \in Nat
    BY OrdersConstants DEF Imported, NoOrder, Money
  <2> QED BY <2>1, <2>2, InitRows DEF Init, InitialRow, Settled
<1>2. Valued
  BY <1>0, <1>1 DEF Valued
<1>3. Covered
  BY <1>1, SumNone DEF Covered
<1>4. ASSUME NEW u \in Users PROVE Minted(u) = 0
  <2> DEFINE f == [i \in OrderIds |-> RowMinted(orders[i], u)]
  <2>1. \A i \in OrderIds : f[i] = 0
    BY <1>1 DEF RowMinted, Settled
  <2>2. Minted(u) = SumFunctionOnSet(f, OrderIds)
    BY DEF Minted
  <2> HIDE DEF f
  <2> QED BY <2>1, <2>2, FiniteOrders, SumZero
<1> QED BY <1>2, <1>3, <1>4 DEF ValueInv

LEMMA StepValue == TypeOK /\ TypeOK' /\ OrdersInv /\ ValueInv /\ [Next]_vars => ValueInv'
<1> SUFFICES ASSUME TypeOK, TypeOK', OrdersInv, ValueInv, [Next]_vars PROVE ValueInv'
  OBVIOUS
<1>0. OrdersTypeOK /\ OrdersTypeOK' /\ Valued /\ Covered /\ \A u \in Users : Minted(u) <= 0
  BY DEF TypeOK, ValueInv
<1>1. CASE \E u \in Users : Inserted(u)
  <2>1. PICK u \in Users : Inserted(u)
    BY <1>1
  <2>2. Valued' /\ Covered'
    BY <1>0, <2>1, InsertCovers
  <2>3. ASSUME NEW v \in Users PROVE Minted(v)' <= 0
    BY <1>0, <2>1, InsertMints
  <2> QED BY <2>2, <2>3 DEF ValueInv
<1>2. CASE \E C, S : Ended(C, S)
  <2>1. PICK C, S : Ended(C, S)
    BY <1>2
  <2>2. Valued' /\ Covered'
    BY <1>0, <2>1, EndCovers, StepNow
  <2>3. ASSUME NEW v \in Users PROVE Minted(v)' <= 0
    <3>1. Minted(v)' = Minted(v) \/ (Minted(v)' <= Minted(v) /\ Minted(v) \in Int /\ Minted(v)' \in Int)
      BY <1>0, <2>1, EndMints
    <3> QED BY <1>0, <3>1
  <2> QED BY <2>2, <2>3 DEF ValueInv
<1> QED BY <1>1, <1>2, StepShape

\* No interleaving makes or loses value: every order keeps its net price, what a user's
\* orders are worth with the change paid out never exceeds what was paid in, and a surplus is
\* converted once.
THEOREM ValueStays == Spec => []ValueConserved
<1>1. TypeOK /\ OrdersInv /\ ValueInv => ValueConserved
  <2> SUFFICES ASSUME TypeOK, OrdersInv, ValueInv PROVE NetPriceKept /\ NoMintedValue /\ SurplusConsumedOnce
    BY DEF ValueConserved
  <2>1. NetPriceKept /\ SurplusConsumedOnce
    BY DEF OrdersInv, SurplusKept, SurplusConsumedOnce
  <2>2. ASSUME NEW u \in Users
        PROVE  SumFunctionOnSet([i \in OrderIds |-> PaidValue(orders[i])], OrdersOf(u, {"completed"}))
                 + SumFunctionOnSet([i \in OrderIds |-> orders[i].credit], OrdersOf(u, Settled))
               <= SumFunctionOnSet([i \in OrderIds |-> orders[i].total + orders[i].bal], OrdersOf(u, Settled))
    <3> DEFINE l == SumFunctionOnSet([i \in OrderIds |-> PaidValue(orders[i])], OrdersOf(u, {"completed"}))
                      + SumFunctionOnSet([i \in OrderIds |-> orders[i].credit], OrdersOf(u, Settled))
               fr == [i \in OrderIds |-> orders[i].total + orders[i].bal]
               fm == [i \in OrderIds |-> RowMinted(orders[i], u)]
               r == SumFunctionOnSet(fr, OrdersOf(u, Settled))
    <3>1. l = Minted(u) + r
      BY MintedSums DEF Minted, OrdersOf, TypeOK, OrdersTypeOK
    <3>2. Minted(u) = SumFunctionOnSet(fm, OrderIds) /\ Minted(u) <= 0
      BY DEF Minted, ValueInv
    <3>3. \A i \in OrderIds : fm[i] \in Int /\ fr[i] \in Int
      BY RowMintedInt DEF TypeOK, OrdersTypeOK
    <3>4. OrdersOf(u, Settled) \in SUBSET OrderIds
      BY DEF OrdersOf
    <3> HIDE DEF l, fr, fm
    <3>5. Summable(fm, OrderIds) /\ Summable(fr, OrderIds)
      BY <3>3, FiniteOrders DEF Summable
    <3>6. Summable(fr, OrdersOf(u, Settled))
      BY <3>4, <3>5, SummableLess
    <3>7. Minted(u) \in Int /\ r \in Int
      BY <3>2, <3>5, <3>6, SumInt
    <3> HIDE DEF r
    <3>8. l <= r
      BY <3>1, <3>2, <3>7
    <3> QED BY <3>8 DEF l, r, fr
  <2> QED BY <2>1, <2>2 DEF NoMintedValue
<1> QED BY <1>1, TypeCorrect, InitOrders, StepOrders, InitValue, StepValue, PTL DEF Spec


=============================================================================
