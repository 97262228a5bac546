------------------------------ MODULE Checkout ------------------------------
(* Paying an order through a provider: internal/store/payment_checkout.go,    *)
(* the handlers checkoutPayment and paymentWebhook around it, and the fee     *)
(* settings of payments.go, on top of Orders.                                 *)
(*                                                                            *)
(* A checkout is two transactions with a call to the provider in between.     *)
(* The call may fail, outlive its request or die with the process; a page the *)
(* buyer was shown may be paid at any later time, and the provider's webhook  *)
(* for it arrives late, repeatedly or never.                                  *)
EXTENDS Orders

CONSTANTS
    Fees,         \* handling fees an administrator may set, Off to disable a method
    CallTimeout,  \* the HTTP client's limit on a provider call
    LastOrder     \* orders are created up to this instant (bound)

Off == -1         \* a disabled payment method

ASSUME CheckoutConstants ==
    /\ Fees \subseteq Nat \cup {Off} /\ LastOrder \in Nat
    /\ CallTimeout \in Nat /\ CallTimeout < Lease /\ Lease <= Grace

VARIABLES
    fee,       \* payments: the fee of each method, Off when it is disabled
    calls,     \* provider calls in flight
    pages,     \* payment pages shown to the buyer, by order and method
    receipts   \* payment_webhook_receipts, UNIQUE(payment_id, external_id)

checkoutVars == <<fee, calls, pages, receipts>>
vars == <<orderVars, checkoutVars>>

Keys == OrderIds \X Methods
Call == [key : Keys, amount : Nat, started : Nat]
Page == [shown : BOOLEAN, amount : Nat, at : Nat, paid : BOOLEAN]
NoPage == [shown |-> FALSE, amount |-> 0, at |-> 0, paid |-> FALSE]

Init ==
    /\ OrdersInit
    /\ fee \in [Methods -> Fees]
    /\ calls = {}
    /\ pages = [k \in Keys |-> NoPage]
    /\ receipts = {}

-----------------------------------------------------------------------------
(* StartPaymentCheckout *)

Payable(i) == orders[i].status = "pending" /\ orders[i].total > 0 /\ now < orders[i].created + Timeout

\* Mutant: a disabled method can still be chosen.
OfferedAnyway(i, m) == orders[i].total + fee[m] <= MaxMoney

Offered(i, m) == fee[m] # Off /\ orders[i].total + fee[m] <= MaxMoney

Bound(o, m, handling) == [o EXCEPT !.pay = m, !.handling = handling]

\* A creating attempt belongs to the call that started it until its lease has run out.
Restartable(a) == a.st \in {"none", "failed"} \/ (a.st = "creating" /\ a.at + Lease <= now)

\* A new attempt, or a restart with the fee of today, goes on to call the provider.
StartPaymentCheckout(i, m) ==
    LET amount == orders[i].total + fee[m]
    IN  /\ Payable(i) /\ Offered(i, m)
        /\ Restartable(attempts[<<i, m>>])
        /\ attempts' = [attempts EXCEPT ![<<i, m>>] = [st |-> "creating", amount |-> amount, at |-> now]]
        /\ orders' = [orders EXCEPT ![i] = Bound(orders[i], m, fee[m])]
        /\ calls' = calls \cup {[key |-> <<i, m>>, amount |-> amount, started |-> now]}
        /\ UNCHANGED <<now, balance, credited, sub, form, fee, pages, receipts>>

\* A created attempt is answered from the table, with the amount it was created for.
CachedCheckout(i, m) ==
    /\ Payable(i) /\ Offered(i, m)
    /\ attempts[<<i, m>>].st = "created" /\ attempts[<<i, m>>].amount >= orders[i].total
    /\ orders' = [orders EXCEPT ![i] = Bound(orders[i], m, attempts[<<i, m>>].amount - orders[i].total)]
    /\ UNCHANGED <<now, balance, credited, sub, form, attempts, checkoutVars>>

-----------------------------------------------------------------------------
(* The provider call ends *)

\* The provider made a page.  It is recorded and shown, unless the attempt has moved on:
\* then the request fails with ErrConflict and nobody sees the page.
CompletePaymentCheckout(c) ==
    /\ calls' = calls \ {c}
    /\ IF attempts[c.key].st = "creating"
       THEN /\ attempts' = [attempts EXCEPT ![c.key] =
                              [st |-> "created", amount |-> attempts[c.key].amount, at |-> now]]
            /\ pages' = [pages EXCEPT ![c.key] = [shown |-> TRUE, amount |-> c.amount, at |-> now, paid |-> FALSE]]
       ELSE UNCHANGED <<attempts, pages>>
    /\ UNCHANGED <<now, balance, credited, sub, form, orders, fee, receipts>>

FailPaymentCheckout(c) ==
    /\ calls' = calls \ {c}
    /\ attempts' = IF attempts[c.key].st = "creating"
                   THEN [attempts EXCEPT ![c.key] = [st |-> "failed", amount |-> attempts[c.key].amount, at |-> now]]
                   ELSE attempts
    /\ UNCHANGED <<now, balance, credited, sub, form, orders, fee, pages, receipts>>

\* The process dies or the request is cancelled during the call: nothing is written.
AbandonCall(c) ==
    /\ calls' = calls \ {c}
    /\ UNCHANGED <<orderVars, fee, pages, receipts>>

-----------------------------------------------------------------------------
(* Payment and its webhook *)

\* External: the buyer pays a page.
Pay(k) ==
    /\ pages[k].shown /\ ~pages[k].paid
    /\ pages' = [pages EXCEPT ![k].paid = TRUE]
    /\ UNCHANGED <<orderVars, fee, calls, receipts>>

\* The amount the provider reports is checked against the attempt, whatever its state.
Verified(k) ==
    /\ pages[k].paid /\ attempts[k].st # "none"
    /\ pages[k].amount = attempts[k].amount /\ pages[k].amount >= orders[k[1]].total

\* Mutant: records the payment of any order that is no longer open.
LateWebhookAnyStatus(k) ==
    /\ Verified(k) /\ k \notin receipts /\ orders[k[1]].status \notin Active
    /\ receipts' = receipts \cup {k}
    /\ UNCHANGED <<orderVars, fee, calls, pages>>

\* The order was already completed by other means: the payment is only recorded.
LateWebhook(k) ==
    /\ Verified(k) /\ k \notin receipts /\ orders[k[1]].status = "completed"
    /\ receipts' = receipts \cup {k}
    /\ UNCHANGED <<orderVars, fee, calls, pages>>

\* Mutant: the order keeps the method of the last checkout.
PaidRowUnbound(k) == orders[k[1]]

\* The order is bound to the method and the fee that were really paid.
PaidRow(k) == Bound(orders[k[1]], k[2], pages[k].amount - orders[k[1]].total)

\* The payment settles the order.  A cancelled or discounted order is refused and the
\* receipt rolled back with it; a webhook whose receipt exists changes nothing.
CompletePaymentWebhook(k) ==
    /\ Verified(k) /\ k \notin receipts /\ orders[k[1]].status \in Active /\ CreditFits(k[1])
    /\ receipts' = receipts \cup {k}
    /\ EndOrders({}, {k[1]}, {}, k[2],
                 [orders EXCEPT ![k[1]] = PaidRow(k)])
    /\ UNCHANGED <<fee, calls, pages>>

\* UpdatePayment and SetPaymentEnabled, as far as a checkout depends on them.
EditPayment(m, value) ==
    /\ fee[m] # value
    /\ fee' = [fee EXCEPT ![m] = value]
    /\ UNCHANGED <<orderVars, calls, pages, receipts>>

\* A call that has reached the HTTP client's limit ends before time goes on.
Advance ==
    /\ \A c \in calls : now < c.started + CallTimeout
    /\ Tick /\ UNCHANGED checkoutVars

Start == \E i \in OrderIds, m \in Methods : StartPaymentCheckout(i, m)
Cached == \E i \in OrderIds, m \in Methods : CachedCheckout(i, m)
CallMade == \E c \in calls : CompletePaymentCheckout(c)
CallFailed == \E c \in calls : FailPaymentCheckout(c)
FailedFor(k) == \E c \in calls : c.key = k /\ FailPaymentCheckout(c)
CallLost == \E c \in calls : AbandonCall(c)
Paid == \E k \in Keys : Pay(k)
Late == \E k \in Keys : LateWebhook(k)
Webhook == \E k \in Keys : CompletePaymentWebhook(k)
Edit == \E m \in Methods, value \in Fees : EditPayment(m, value)

Sweep == ProcessStaleOrders /\ UNCHANGED checkoutVars
Store == /\ \/ now <= LastOrder /\ (Purchase \/ Assign)
            \/ Cancel \/ FreeCheckout \/ AdminPaid \/ Transfer \/ OpenForm \/ SaveForm
         /\ UNCHANGED checkoutVars

Next ==
    \/ Start \/ Cached \/ CallMade \/ CallFailed \/ CallLost
    \/ Paid \/ Late \/ Webhook \/ Edit \/ Advance \/ Sweep \/ Store

\* Time passes, every call ends because of its limit, and the scheduler sweeps every minute.
Fairness == WF_vars(Advance) /\ (\A k \in Keys : WF_vars(FailedFor(k))) /\ WF_vars(Sweep)

Spec == Init /\ [][Next]_vars
FairSpec == Spec /\ Fairness

-----------------------------------------------------------------------------
(* Properties *)

\* Every table holds well-formed rows, and no wallet leaves 0..MaxMoney.
TypeOK ==
    /\ OrdersTypeOK
    /\ fee \in [Methods -> Fees]
    /\ calls \subseteq Call
    /\ pages \in [Keys -> Page]
    /\ receipts \subseteq Keys

\* Money with a receipt has settled its order: CompletePaymentWebhook never keeps a receipt
\* for an order that is open, cancelled or never completes.
ReceiptSettled == \A k \in receipts : orders[k[1]].status \in Settled

\* A settled order that names a payment was settled by that payment: the method it is
\* bound to and the handling fee on its record are the ones that were really paid, also
\* when the buyer opened pages of several methods or the fee changed in between.
SettledBinding ==
    \A k \in Keys : orders[k[1]].status \in Settled /\ orders[k[1]].callback = k[2]
        => /\ k \in receipts /\ orders[k[1]].pay = k[2]
           /\ orders[k[1]].total + orders[k[1]].handling = pages[k].amount

\* A page the buyer was shown stays good for the grace period, up to the order's hard
\* limit: the order is not cancelled under it and its amount still verifies.
ShownPageHonoured ==
    \A k \in Keys :
        pages[k].shown =>
            /\ attempts[k].st = "created" /\ attempts[k].amount = pages[k].amount
            /\ now < pages[k].at + Grace /\ now < orders[k[1]].created + Timeout + Grace
                 => orders[k[1]].status # "cancelled"

\* No order is cancelled while a provider call for it is in flight: the lease outlives
\* the call.
NoCancelInFlight == \A c \in calls : orders[c.key[1]].status # "cancelled"

\* At most one provider call per order and method is in flight, so that the page shown is
\* the page of the attempt on record.
OneCallPerAttempt == \A c, d \in calls : c.key = d.key => c = d

\* A provider call belongs to one attempt and its order stays alive until the answer is handled.
CallsSound == NoCancelInFlight /\ OneCallPerAttempt

\* A pending order does not stay open for ever: the sweep cancels it, or sets it aside
\* because its refund does not fit the wallet.
PendingEnds ==
    \A i \in OrderIds :
        orders[i].status = "pending" ~> orders[i].status # "pending" \/ orders[i].retryAfter > 0

=============================================================================
