---------------------------- MODULE Commissions ----------------------------
(***************************************************************************)
(* Invitation commissions and their withdrawal: internal/store/            *)
(* commissions.go, commission_withdrawals.go, the withdrawal request of    *)
(* tickets.go, and the parts of orders.go and admin_users.go that write    *)
(* the same columns.                                                       *)
(*                                                                         *)
(* An order remembers its buyer's inviter and a commission; once completed *)
(* and confirmed it is paid out along the chain of inviters by a scheduled *)
(* batch, to the commission account or, while withdrawals are closed, to   *)
(* the wallet.  The commission account is moved to the wallet or frozen in *)
(* a withdrawal that an administrator approves, pays or rejects.           *)
(*                                                                         *)
(* Every operation is one transaction under the store's write lock and so  *)
(* one action.  Amounts are small integers; what an order costs, and what  *)
(* a plan change converts, is a choice of the action (module Orders has    *)
(* the detail).                                                            *)
(***************************************************************************)
EXTENDS Integers, FiniteSets, FiniteSetsExt, Sequences

CONSTANTS
  Users,
  Trees,         \* invitation relations to start from (users.invite_user_id)
  Amounts,       \* commissions setOrderCommission may compute
  Policies,      \* settings an administrator switches between
  Buyers,        \* users that order
  Holders,       \* users that use their commission account
  Edited,        \* users an administrator edits
  Saves,         \* commission balance and inviter an administrator saves
  Transfers,     \* amounts users move to their wallet
  RequestKeys,   \* request keys of withdrawals, NoKey among them for old clients
  NoKey,
  Targets,       \* method and account a withdrawal is to be paid to
  MethodOf,      \* the method of a target
  Receipts,      \* payment references
  MaxOrders,     \* bound on orders
  MaxWithdrawals, \* bound on withdrawals
  MaxMoney,      \* maxOrderMoneyCents
  MaxForms,      \* bound on edit forms
  Delay,         \* commissionConfirmationDelay
  Backoff,       \* schedulerQuarantineBackoff
  BatchLimit,    \* the limit ProcessCommissions is called with
  MaxNow,        \* bound on the clock
  None

Percent == 0 .. 100

ASSUME CommissionConstants ==
  /\ IsFiniteSet(Users) /\ None \notin Users \cup Targets \cup Receipts /\ NoKey \in RequestKeys
  /\ Trees \subseteq [Users -> Users \cup {None}]
  /\ Buyers \cup Holders \cup Edited \subseteq Users
  /\ Saves \subseteq [commission : 0 .. MaxMoney, inviter : Users \cup {None}]
  /\ Amounts \subseteq 0 .. MaxMoney
  /\ Transfers \subseteq Nat \ {0}
  /\ {MaxOrders, MaxWithdrawals, MaxMoney, MaxForms, Delay, MaxNow} \subseteq Nat
  /\ {Backoff, BatchLimit} \subseteq Nat \ {0}
  /\ \A p \in Policies : /\ {p.auto, p.closed, p.firstTime} \subseteq BOOLEAN
                         /\ p.limit \in Nat
                         /\ \/ p.levels = <<100>>
                            \/ \E a, b, c \in Percent : a + b + c <= 100 /\ p.levels = <<a, b, c>>

VARIABLES
  now,
  policy,       \* app_settings
  inviter,      \* users.invite_user_id
  wallet,       \* users.balance
  commission,   \* users.commission_balance
  form,         \* the administrator's edit form per user
  orders,       \* the orders table
  logs,         \* commission_logs: order -> recipient -> column -> amount
  withdrawals,  \* commission_withdrawals
  tickets,      \* users with an open ticket
  loads,        \* number of forms loaded, for the bound
  given,        \* history: net amount administrators wrote into an account
  moved         \* history: amount moved from the account to the wallet

vars == <<now, policy, inviter, wallet, commission, form, orders, logs, withdrawals,
          tickets, loads, given, moved>>

-----------------------------------------------------------------------------
OrderIds == 1 .. MaxOrders
WithdrawalIds == 1 .. MaxWithdrawals
Money == 0 .. MaxMoney
Columns == {"balance", "commission_balance"}

\* commission_status is 0 unconfirmed, 1 confirmed, 2 paid, 3 invalid.
Order == [user : Users \cup {None}, inviter : Users \cup {None}, commission : Money,
          status : {"absent", "pending", "cancelled", "completed", "discounted"},
          cstatus : 0 .. 3, actual : Money, updated : 0 .. MaxNow, retryAfter : Nat]

NoOrder == [user |-> None, inviter |-> None, commission |-> 0, status |-> "absent",
            cstatus |-> 0, actual |-> 0, updated |-> 0, retryAfter |-> 0]

\* events: the statuses commission_withdrawal_events records.
WStatuses == {"pending", "approved", "paid", "rejected"}
Withdrawal == [user : Users \cup {None}, amount : Money, status : WStatuses \cup {"absent"},
               key : RequestKeys, target : Targets \cup {None}, receipt : Receipts \cup {None},
               events : SUBSET WStatuses]

NoWithdrawal == [user |-> None, amount |-> 0, status |-> "absent", key |-> NoKey,
                 target |-> None, receipt |-> None, events |-> {}]

Form == [open : BOOLEAN, fresh : BOOLEAN, commission : Money]
NoForm == [open |-> FALSE, fresh |-> FALSE, commission |-> 0]

\* Mutant: money writes leave admin_revision alone.
TouchNever(U) == form

\* The trigger users_money_admin_revision: forms of U loaded before a money write are stale.
Touched(U) == [u \in Users |-> IF u \in U THEN [form[u] EXCEPT !.fresh = FALSE] ELSE form[u]]

-----------------------------------------------------------------------------
(* Orders *)

NewOrder(i) == \A j \in OrderIds : orders[j].status # "absent" <=> j < i

\* setOrderCommission, for inviters who follow the setting (commission_type 0): under the
\* first-time rule only a buyer without an earlier order counts.  Orders with a price; a free
\* order keeps no inviter and is never looked at again.
Eligible(u) ==
  policy.firstTime =>
    ~\E i \in OrderIds : orders[i].user = u /\ orders[i].status \in {"completed", "discounted"}

CreateOrder(u) ==
  /\ ~\E i \in OrderIds : orders[i].user = u /\ orders[i].status = "pending"
  /\ \E i \in OrderIds, c \in Amounts :
       /\ NewOrder(i)
       /\ orders' = [orders EXCEPT ![i] =
            [NoOrder EXCEPT !.user = u, !.inviter = inviter[u], !.status = "pending",
                            !.commission = IF inviter[u] # None /\ Eligible(u) THEN c ELSE 0,
                            !.updated = now]]
  /\ UNCHANGED <<now, policy, inviter, wallet, commission, form, logs, withdrawals, tickets, loads, given, moved>>

CancelOrder(i) ==
  /\ orders[i].status = "pending"
  /\ orders' = [orders EXCEPT ![i].status = "cancelled", ![i].updated = now]
  /\ UNCHANGED <<now, policy, inviter, wallet, commission, form, logs, withdrawals, tickets, loads, given, moved>>

\* completeOrderTx; a plan change converts completed orders of its buyer (status 4).
CompleteOrder(i) ==
  /\ orders[i].status = "pending"
  /\ \E S \in SUBSET {j \in OrderIds : orders[j].user = orders[i].user /\ orders[j].status = "completed"} :
       orders' = [j \in OrderIds |->
                    IF j = i THEN [orders[j] EXCEPT !.status = "completed", !.updated = now]
                    ELSE IF j \in S THEN [orders[j] EXCEPT !.status = "discounted", !.updated = now]
                    ELSE orders[j]]
  /\ form' = Touched({orders[i].user})
  /\ UNCHANGED <<now, policy, inviter, wallet, commission, logs, withdrawals, tickets, loads, given, moved>>

\* Mutant: a paid commission can be opened again.
OpenToAdminAlways(o) == o.status = "completed" /\ o.inviter # None /\ o.commission > 0

\* The state in which UpdateAdminOrderCommissionStatus accepts a change.
OpenToAdmin(o) == o.status = "completed" /\ o.cstatus # 2 /\ o.inviter # None /\ o.commission > 0

UpdateAdminOrderCommissionStatus(i, next) ==
  /\ next \in {0, 1, 3}
  /\ OpenToAdmin(orders[i])
  /\ orders' = [orders EXCEPT ![i].cstatus = next, ![i].updated = now]
  /\ UNCHANGED <<now, policy, inviter, wallet, commission, form, logs, withdrawals, tickets, loads, given, moved>>

-----------------------------------------------------------------------------
(* ProcessCommissions *)

\* ORDER BY updated_at, id LIMIT n
Before(T, i, j) == T[i].updated < T[j].updated \/ (T[i].updated = T[j].updated /\ i < j)
FirstOf(T, S, n) == {i \in S : Cardinality({j \in S : Before(T, j, i)}) < n}

Due == {i \in OrderIds : /\ orders[i].status = "completed" /\ orders[i].cstatus = 0
                         /\ orders[i].inviter # None /\ orders[i].updated + Delay <= now}

\* The confirmation at the start of a batch.
Confirmed ==
  LET S == FirstOf(orders, Due, BatchLimit)
  IN  [i \in OrderIds |-> IF policy.auto /\ i \in S
                          THEN [orders[i] EXCEPT !.cstatus = 1, !.updated = now] ELSE orders[i]]

Payable(T) == {i \in OrderIds : /\ T[i].status = "completed" /\ T[i].cstatus = 1
                                /\ T[i].inviter # None /\ T[i].retryAfter <= now}

\* The recipients of an order, level by level up the chain of inviters.
Chain(o) ==
  LET Parent(u) == IF u = None THEN None ELSE inviter[u]
  IN  [n \in DOMAIN policy.levels |-> <<o.inviter, Parent(o.inviter), Parent(Parent(o.inviter))>>[n]]

commissionShare(amount, percentage) == (amount * percentage) \div 100

\* errCommissionCycle
Cyclic(o) == \E m, n \in DOMAIN Chain(o) : m < n /\ Chain(o)[n] # None /\ Chain(o)[m] = Chain(o)[n]

Column == IF policy.closed THEN "balance" ELSE "commission_balance"

\* What recipient u of an order gets; the recipients of an order that is paid are distinct.
ShareOf(o, u) ==
  LET level == {n \in DOMAIN policy.levels : Chain(o)[n] = u}
  IN  IF level = {} THEN 0 ELSE commissionShare(o.commission, policy.levels[Min(level)])

\* Mutant: the limit of an account is not looked at.
FitsAnyAccount(o, accounts) == TRUE

\* errCommissionBalanceLimit is not met: accounts is the column as the batch has it so far.
Fits(o, accounts) == \A u \in Users : ShareOf(o, u) > 0 => accounts[u] + ShareOf(o, u) <= MaxMoney

\* Mutant: the recipients that fit are credited although the order is put aside.
CreditedAnyway(o, accounts) == [u \in Users |-> IF accounts[u] + ShareOf(o, u) <= MaxMoney
                                                THEN accounts[u] + ShareOf(o, u) ELSE accounts[u]]

\* The savepoint: an order is credited to all of its recipients or to none.
Credited(o, accounts) == IF Cyclic(o) \/ ~Fits(o, accounts) THEN accounts
                         ELSE [u \in Users |-> accounts[u] + ShareOf(o, u)]

\* Mutant: a failing order is tried again at once.
RetryAtOnce(o) == now

\* schedulerQuarantineBackoff
RetryAfter(o) == now + Backoff

\* The row of an order that is settled, its log, and the row of one that is put aside.
PaidOut(o) == [o EXCEPT !.cstatus = 2, !.updated = now, !.retryAfter = 0,
                        !.actual = SumFunctionOnSet([u \in Users |-> ShareOf(o, u)], Users)]
Logged(log, o) ==
  [u \in Users |-> [c \in Columns |-> log[u][c] + (IF c = Column THEN ShareOf(o, u) ELSE 0)]]
PutAside(o) == [o EXCEPT !.retryAfter = RetryAfter(o)]

\* settleOrderCommissionTx for order i in the savepoint of the batch.
Settled(batch, i) ==
  LET o == batch.orders[i]
      paid == ~Cyclic(o) /\ Fits(o, batch.accounts)
  IN  [accounts |-> Credited(o, batch.accounts),
       orders |-> [batch.orders EXCEPT ![i] = IF paid THEN PaidOut(o) ELSE PutAside(o)],
       logs |-> IF paid THEN [batch.logs EXCEPT ![i] = Logged(batch.logs[i], o)] ELSE batch.logs]

\* A batch begins with the confirmation and settles the first payable order, one by one:
\* what is settled or put aside is not payable again.
BatchStart == [accounts |-> IF policy.closed THEN wallet ELSE commission, orders |-> Confirmed, logs |-> logs]
BatchStep(b) ==
  LET next == FirstOf(b.orders, Payable(b.orders), 1)
  IN  IF next = {} THEN b ELSE Settled(b, CHOOSE i \in next : TRUE)

BatchOf ==
  LET after[n \in 0 .. BatchLimit] == IF n = 0 THEN BatchStart ELSE BatchStep(after[n - 1])
  IN  after[BatchLimit]

ProcessCommissions ==
  LET old == IF policy.closed THEN wallet ELSE commission
  IN
  /\ (policy.auto /\ Due # {}) \/ Payable(orders) # {}
  /\ \E b \in {BatchOf} :
       /\ orders' = b.orders
       /\ logs' = b.logs
       /\ wallet' = IF policy.closed THEN b.accounts ELSE wallet
       /\ commission' = IF policy.closed THEN commission ELSE b.accounts
       /\ form' = Touched({u \in Users : b.accounts[u] # old[u]})
  /\ UNCHANGED <<now, policy, inviter, withdrawals, tickets, loads, given, moved>>

-----------------------------------------------------------------------------
(* Accounts *)

TransferCommission(u, a) ==
  /\ commission[u] >= a
  /\ wallet[u] + a <= MaxMoney
  /\ commission' = [commission EXCEPT ![u] = @ - a]
  /\ wallet' = [wallet EXCEPT ![u] = @ + a]
  /\ moved' = [moved EXCEPT ![u] = @ + a]
  /\ form' = Touched({u})
  /\ UNCHANGED <<now, policy, inviter, orders, logs, withdrawals, tickets, loads, given>>

LoadUserForm(u) ==
  /\ loads < MaxForms
  /\ loads' = loads + 1
  /\ form' = [form EXCEPT ![u] = [open |-> TRUE, fresh |-> TRUE, commission |-> commission[u]]]
  /\ UNCHANGED <<now, policy, inviter, wallet, commission, orders, logs, withdrawals, tickets, given, moved>>

\* UpdateAdminUser: an absolute commission balance and an inviter, under the form's revision.
UpdateAdminUser(u, value, i) ==
  /\ form[u].open /\ form[u].fresh
  /\ commission' = [commission EXCEPT ![u] = value]
  /\ inviter' = [inviter EXCEPT ![u] = i]
  /\ given' = [given EXCEPT ![u] = @ + value - commission[u]]
  /\ form' = [form EXCEPT ![u] = NoForm]
  /\ UNCHANGED <<now, policy, wallet, orders, logs, withdrawals, tickets, loads, moved>>

UpdateCommissionSettings(p) ==
  /\ p # policy
  /\ policy' = p
  /\ UNCHANGED <<now, inviter, wallet, commission, form, orders, logs, withdrawals, tickets, loads, given, moved>>

-----------------------------------------------------------------------------
(* Withdrawals *)

Open == {"pending", "approved"}
Frozen == {"pending", "approved", "paid"}

\* Mutant: only an unsettled request counts as a replay.
ReplayOfOpen(u, key) == {w \in WithdrawalIds : withdrawals[w].user = u /\ withdrawals[w].status \in Open}

\* findCommissionWithdrawalReplay: what the request repeats or stands in conflict with.
Replay(u, key) ==
  {w \in WithdrawalIds : /\ withdrawals[w].user = u
                         /\ withdrawals[w].status \in Open \/ (key # NoKey /\ withdrawals[w].key = key)}

\* CreateCommissionWithdrawalTicket and freezeCommissionWithdrawalTx: the whole account is
\* frozen.  A replay answers with the existing ticket or refuses, and changes nothing.
CreateWithdrawal(u, key, target) ==
  /\ ~policy.closed
  /\ Replay(u, key) = {}
  /\ commission[u] >= policy.limit /\ commission[u] > 0
  /\ u \notin tickets
  /\ \E w \in WithdrawalIds :
       /\ \A x \in WithdrawalIds : withdrawals[x].status # "absent" <=> x < w
       /\ withdrawals' = [withdrawals EXCEPT ![w] =
            [user |-> u, amount |-> commission[u], status |-> "pending", key |-> key,
             target |-> target, receipt |-> None, events |-> {"pending"}]]
  /\ commission' = [commission EXCEPT ![u] = 0]
  /\ tickets' = tickets \cup {u}
  /\ form' = Touched({u})
  /\ UNCHANGED <<now, policy, inviter, wallet, orders, logs, loads, given, moved>>

ApproveWithdrawal(w) ==
  /\ withdrawals[w].status = "pending"
  /\ withdrawals' = [withdrawals EXCEPT ![w].status = "approved", ![w].events = @ \cup {"approved"}]
  /\ UNCHANGED <<now, policy, inviter, wallet, commission, form, orders, logs, tickets, loads, given, moved>>

Rejectable == {"pending", "approved"}

\* TransitionCommissionWithdrawal to rejected: the frozen amount goes back, if it fits.
RejectWithdrawal(w) ==
  LET x == withdrawals[w]
  IN
  /\ x.status \in Rejectable
  /\ commission[x.user] + x.amount <= MaxMoney
  /\ commission' = [commission EXCEPT ![x.user] = @ + x.amount]
  /\ withdrawals' = [withdrawals EXCEPT ![w].status = "rejected", ![w].events = @ \cup {"rejected"}]
  /\ form' = Touched({x.user})
  /\ UNCHANGED <<now, policy, inviter, wallet, orders, logs, tickets, loads, given, moved>>

\* commission_withdrawals_payment_reference: one receipt settles one withdrawal per method.
ReceiptUsed(w, receipt) ==
  \E x \in WithdrawalIds : /\ withdrawals[x].status = "paid" /\ withdrawals[x].receipt = receipt
                           /\ MethodOf[withdrawals[x].target] = MethodOf[withdrawals[w].target]

PayWithdrawal(w, receipt) ==
  /\ withdrawals[w].status = "approved"
  /\ ~ReceiptUsed(w, receipt)
  /\ withdrawals' = [withdrawals EXCEPT ![w].status = "paid", ![w].receipt = receipt,
                                        ![w].events = @ \cup {"paid"}]
  /\ UNCHANGED <<now, policy, inviter, wallet, commission, form, orders, logs, tickets, loads, given, moved>>

\* A user has one open ticket at a time; closing it does not settle a withdrawal.
CloseTicket(u) ==
  /\ u \in tickets
  /\ tickets' = tickets \ {u}
  /\ UNCHANGED <<now, policy, inviter, wallet, commission, form, orders, logs, withdrawals, loads, given, moved>>

Tick ==
  /\ now < MaxNow
  /\ now' = now + 1
  /\ UNCHANGED <<policy, inviter, wallet, commission, form, orders, logs, withdrawals, tickets, loads, given, moved>>

-----------------------------------------------------------------------------
Init ==
  /\ now = 0
  /\ policy \in Policies
  /\ inviter \in Trees
  /\ wallet = [u \in Users |-> 0]
  /\ commission = [u \in Users |-> 0]
  /\ form = [u \in Users |-> NoForm]
  /\ orders = [i \in OrderIds |-> NoOrder]
  /\ logs = [i \in OrderIds |-> [u \in Users |-> [c \in Columns |-> 0]]]
  /\ withdrawals = [w \in WithdrawalIds |-> NoWithdrawal]
  /\ tickets = {}
  /\ loads = 0
  /\ given = [u \in Users |-> 0]
  /\ moved = [u \in Users |-> 0]

Next ==
  \/ \E u \in Buyers : CreateOrder(u)
  \/ \E u \in Edited : LoadUserForm(u)
  \/ \E i \in OrderIds : CancelOrder(i) \/ CompleteOrder(i)
  \/ \E i \in OrderIds, next \in 0 .. 3 : UpdateAdminOrderCommissionStatus(i, next)
  \/ ProcessCommissions
  \/ \E u \in Holders, a \in Transfers : TransferCommission(u, a)
  \/ \E u \in Edited, save \in Saves : UpdateAdminUser(u, save.commission, save.inviter)
  \/ \E p \in Policies : UpdateCommissionSettings(p)
  \/ \E u \in Holders, key \in RequestKeys, target \in Targets : CreateWithdrawal(u, key, target)
  \/ \E w \in WithdrawalIds : ApproveWithdrawal(w) \/ RejectWithdrawal(w)
  \/ \E w \in WithdrawalIds, receipt \in Receipts : PayWithdrawal(w, receipt)
  \/ \E u \in Users : CloseTicket(u)
  \/ Tick

Spec == Init /\ [][Next]_vars

-----------------------------------------------------------------------------
TypeOK ==
  /\ now \in 0 .. MaxNow
  /\ policy \in Policies
  /\ inviter \in [Users -> Users \cup {None}]
  /\ wallet \in [Users -> Money]
  /\ commission \in [Users -> Money]
  /\ form \in [Users -> Form]
  /\ orders \in [OrderIds -> Order]
  /\ logs \in [OrderIds -> [Users -> [Columns -> Nat]]]
  /\ withdrawals \in [WithdrawalIds -> Withdrawal]
  /\ tickets \subseteq Users
  /\ loads \in 0 .. MaxForms
  /\ given \in [Users -> Int]
  /\ moved \in [Users -> Nat]

PaidInto(u, c) == SumFunctionOnSet([i \in OrderIds |-> logs[i][u][c]], OrderIds)
FrozenOf(u) ==
  SumFunctionOnSet([w \in WithdrawalIds |-> withdrawals[w].amount],
                   {w \in WithdrawalIds : withdrawals[w].user = u /\ withdrawals[w].status \in Frozen})

\* Money is neither made nor lost between orders, accounts, wallets and withdrawals: both
\* accounts of a user equal their history, however batches, forms, rejections, switches of
\* the closed setting and replays interleave.
AccountsBalance ==
  \A u \in Users :
    /\ commission[u] = given[u] + PaidInto(u, "commission_balance") - moved[u] - FrozenOf(u)
    /\ wallet[u] = moved[u] + PaidInto(u, "balance")

\* An order pays its commission out once and never more than the commission it was created
\* with; what it records as paid is what its recipients got, and an order put aside, or one
\* an administrator declared invalid, has paid nothing (settleOrderCommissionTx), also after an
\* administrator's change ("making the paid state irreversible").
PaidOnce ==
  \A i \in OrderIds :
    LET total == SumFunctionOnSet([u \in Users |-> logs[i][u]["balance"] + logs[i][u]["commission_balance"]], Users)
    IN  /\ total <= orders[i].commission
        /\ total = (IF orders[i].cstatus = 2 THEN orders[i].actual ELSE 0)

\* A payout settles one withdrawal: no receipt of a method pays twice, no request key freezes
\* twice, a user has one unsettled withdrawal, and none was both paid and given back.
WithdrawalsDistinct ==
  \A w \in WithdrawalIds :
    /\ ~{"paid", "rejected"} \subseteq withdrawals[w].events
    /\ \A x \in WithdrawalIds \ {w} :
         /\ {withdrawals[w].status, withdrawals[x].status} \subseteq Open
              => withdrawals[w].user # withdrawals[x].user
         /\ withdrawals[w].key # NoKey /\ withdrawals[x].key = withdrawals[w].key
              => withdrawals[w].user # withdrawals[x].user
         /\ withdrawals[w].status = "paid" /\ withdrawals[x].status = "paid"
            /\ withdrawals[w].receipt = withdrawals[x].receipt
              => MethodOf[withdrawals[w].target] # MethodOf[withdrawals[x].target]

\* As long as an administrator's form is current it shows the account as it is: a save never
\* recreates frozen funds or erases a refund (the comment on users_money_admin_revision).
FormsCurrent == \A u \in Users : form[u].open /\ form[u].fresh => form[u].commission = commission[u]

\* Money is accounted for: the accounts equal their history, an order pays out once, and no
\* account leaves the range it may hold.
MoneyAccounted ==
  /\ AccountsBalance /\ PaidOnce
  /\ \A u \in Users : {commission[u], wallet[u]} \subseteq 0 .. MaxMoney

\* Forms and requests act once and on the accounts they show, whatever came in between.
RequestsDistinct == WithdrawalsDistinct /\ FormsCurrent

\* A batch leaves none of the orders it took payable, so an order that cannot be paid never
\* holds up the ones behind it, also when the batch is as small as one.
NoOrderBlocks ==
  [][ProcessCommissions =>
       FirstOf(Confirmed, Payable(Confirmed), BatchLimit) \cap Payable(orders') = {}]_vars

=============================================================================
