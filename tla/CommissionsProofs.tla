------------------------- MODULE CommissionsProofs -------------------------
(* What holds of commissions and withdrawals for every set of users, every    *)
(* invitation relation and every choice of shares, limits and delays.         *)
EXTENDS Commissions, SumTheorems

-----------------------------------------------------------------------------
(* Shares *)

LEMMA Times ==
  ASSUME NEW a \in Nat, NEW b \in Nat, NEW k \in Nat, a <= b PROVE k * a <= k * b
OBVIOUS

\* Rounding down never gives a recipient more than the percentage.
LEMMA ShareBound ==
  ASSUME NEW amount \in Nat, NEW p \in Nat
  PROVE  commissionShare(amount, p) \in Nat /\ 100 * commissionShare(amount, p) <= amount * p
<1>1. PICK x \in Nat : x = amount * p
  OBVIOUS
<1>2. x \div 100 \in Nat /\ 100 * (x \div 100) <= x
  OBVIOUS
<1> QED BY <1>1, <1>2 DEF commissionShare

\* The percentages of a policy.
LEMMA LevelsType ==
  ASSUME NEW p \in Policies
  PROVE  \/ p.levels = <<100>>
         \/ \E a, b, c \in Percent : a + b + c <= 100 /\ p.levels = <<a, b, c>>
BY CommissionConstants

\* A recipient gets the share of one level of the chain.
LEMMA ShareOfLevel ==
  ASSUME policy \in Policies, NEW o, NEW u
  PROVE  \/ ShareOf(o, u) = 0 /\ \A n \in DOMAIN policy.levels : Chain(o)[n] # u
         \/ \E n \in DOMAIN policy.levels :
               Chain(o)[n] = u /\ ShareOf(o, u) = commissionShare(o.commission, policy.levels[n])
<1> DEFINE level == {n \in DOMAIN policy.levels : Chain(o)[n] = u}
<1>1. ShareOf(o, u) = IF level = {} THEN 0 ELSE commissionShare(o.commission, policy.levels[Min(level)])
  BY DEF ShareOf
<1>2. DOMAIN policy.levels \subseteq Nat
  <2>1. CASE policy.levels = <<100>>
    BY <2>1
  <2>2. CASE \E a, b, c \in Percent : policy.levels = <<a, b, c>>
    <3>1. PICK a \in Percent, b \in Percent, c \in Percent : policy.levels = <<a, b, c>>
      BY <2>2
    <3> QED BY <3>1
  <2> QED BY <2>1, <2>2, LevelsType
<1>3. CASE level = {}
  BY <1>1, <1>3
<1>4. CASE level # {}
  <2>1. PICK e \in level : TRUE
    BY <1>4
  <2>2. level \subseteq Nat
    BY <1>2
  <2>3. Min(level) \in level
    <3> HIDE DEF level
    <3>1. \E x \in level : \A y \in level : x <= y
      BY <2>1, <2>2, LeastNatural
    <3> QED BY <3>1 DEF Min
  <2> QED BY <1>1, <1>4, <2>3
<1> QED BY <1>3, <1>4

\* Together the recipients of an order never get more than its commission.
LEMMA SharesBound ==
  ASSUME policy \in Policies, NEW o, o.commission \in Nat
  PROVE  /\ \A u \in Users : ShareOf(o, u) \in Nat
         /\ SumFunctionOnSet([u \in Users |-> ShareOf(o, u)], Users) \in 0 .. o.commission
<1> DEFINE f == [u \in Users |-> ShareOf(o, u)]
           c == o.commission
<1>0. IsFiniteSet(Users)
  BY CommissionConstants
<1>1. ASSUME policy.levels = << 100 >>
      PROVE  (\A u \in Users : ShareOf(o, u) \in Nat) /\ SumFunctionOnSet(f, Users) \in 0 .. c
  <2> DEFINE s == commissionShare(c, 100)
             a == Chain(o)[1]
             g == [u \in Users |-> IF u = a THEN s ELSE 0]
  <2>1. s \in Nat /\ s <= c
    <3>1. s \in Nat /\ 100 * s <= c * 100 /\ c \in Nat
      BY ShareBound
    <3> HIDE DEF s, c
    <3> QED BY <3>1
  <2>2. DOMAIN policy.levels = {1} /\ policy.levels[1] = 100
    BY <1>1
  <2>3. \A u \in Users : ShareOf(o, u) = IF u = a THEN s ELSE 0
    BY <2>2, ShareOfLevel
  <2> HIDE DEF s, a
  <2>4. \A u \in Users : f[u] = IF u = a THEN s ELSE 0
    BY <2>3
  <2> HIDE DEF f
  <2>5. SumFunctionOnSet(f, Users) = IF a \in Users THEN s ELSE 0
    BY <1>0, <2>1, <2>4, SumOne
  <2> QED BY <2>1, <2>3, <2>5
<1>2. ASSUME NEW p1 \in Percent, NEW p2 \in Percent, NEW p3 \in Percent, p1 + p2 + p3 <= 100,
             policy.levels = <<p1, p2, p3>>
      PROVE  (\A u \in Users : ShareOf(o, u) \in Nat) /\ SumFunctionOnSet(f, Users) \in 0 .. c
  <2>0. p1 \in Nat /\ p2 \in Nat /\ p3 \in Nat
    BY DEF Percent
  <2>1. PICK s1 \in Nat, s2 \in Nat, s3 \in Nat :
          /\ s1 = commissionShare(c, p1) /\ s2 = commissionShare(c, p2) /\ s3 = commissionShare(c, p3)
          /\ 100 * s1 <= c * p1 /\ 100 * s2 <= c * p2 /\ 100 * s3 <= c * p3
    BY <2>0, ShareBound
  <2>2. s1 + s2 + s3 <= c
    <3>1. c * (p1 + p2 + p3) <= c * 100
      BY <1>2, <2>0, Times
    <3>2. c * (p1 + p2 + p3) = c * p1 + c * p2 + c * p3
      BY <2>0
    <3>3. c * p1 \in Nat /\ c * p2 \in Nat /\ c * p3 \in Nat
      BY <2>0
    <3> QED BY <2>1, <3>1, <3>2, <3>3
  <2>3. PICK a1, a2, a3 : a1 = Chain(o)[1] /\ a2 = Chain(o)[2] /\ a3 = Chain(o)[3]
    OBVIOUS
  <2>4. DOMAIN policy.levels = 1 .. 3 /\ policy.levels[1] = p1 /\ policy.levels[2] = p2 /\ policy.levels[3] = p3
    BY <1>2
  <2> DEFINE g1 == [u \in Users |-> IF u = a1 THEN s1 ELSE 0]
             g2 == [u \in Users |-> IF u = a2 THEN s2 ELSE 0]
             g3 == [u \in Users |-> IF u = a3 THEN s3 ELSE 0]
             g12 == [u \in Users |-> g1[u] + g2[u]]
             g == [u \in Users |-> g12[u] + g3[u]]
  <2>5. ASSUME NEW u \in Users PROVE ShareOf(o, u) \in Nat /\ ShareOf(o, u) <= g[u]
    <3>1. \/ ShareOf(o, u) = 0
          \/ u = a1 /\ ShareOf(o, u) = s1
          \/ u = a2 /\ ShareOf(o, u) = s2
          \/ u = a3 /\ ShareOf(o, u) = s3
      BY <2>1, <2>3, <2>4, ShareOfLevel
    <3> QED BY <3>1
  <2>6. \A u \in Users : f[u] \in Nat /\ f[u] <= g[u]
    BY <2>5
  <2>7. /\ \A u \in Users : g1[u] = IF u = a1 THEN s1 ELSE 0
        /\ \A u \in Users : g2[u] = IF u = a2 THEN s2 ELSE 0
        /\ \A u \in Users : g3[u] = IF u = a3 THEN s3 ELSE 0
        /\ \A u \in Users : g12[u] = g1[u] + g2[u]
        /\ \A u \in Users : g[u] = g12[u] + g3[u]
    OBVIOUS
  <2> HIDE DEF f, g1, g2, g3, g12, g
  <2>8. \A u \in Users : g1[u] \in Int /\ g2[u] \in Int /\ g3[u] \in Int
    BY <2>7
  <2>9. \A u \in Users : g12[u] \in Int
    BY <2>7, <2>8
  <2>10. \A u \in Users : g[u] \in Int
    BY <2>7, <2>8, <2>9
  <2>11. /\ Summable(f, Users) /\ Summable(g, Users) /\ Summable(g12, Users) /\ Summable(g1, Users)
         /\ Summable(g2, Users) /\ Summable(g3, Users)
    BY <1>0, <2>6, <2>8, <2>9, <2>10 DEF Summable
  <2>12. /\ SumFunctionOnSet(g1, Users) \in 0 .. s1
         /\ SumFunctionOnSet(g2, Users) \in 0 .. s2
         /\ SumFunctionOnSet(g3, Users) \in 0 .. s3
    <3>1. SumFunctionOnSet(g1, Users) = IF a1 \in Users THEN s1 ELSE 0
      BY <1>0, <2>7, SumOne
    <3>2. SumFunctionOnSet(g2, Users) = IF a2 \in Users THEN s2 ELSE 0
      BY <1>0, <2>7, SumOne
    <3>3. SumFunctionOnSet(g3, Users) = IF a3 \in Users THEN s3 ELSE 0
      BY <1>0, <2>7, SumOne
    <3> QED BY <3>1, <3>2, <3>3
  <2>13. SumFunctionOnSet(g12, Users) = SumFunctionOnSet(g1, Users) + SumFunctionOnSet(g2, Users)
    BY <2>7, <2>11, SumPlus
  <2>14. SumFunctionOnSet(g, Users) = SumFunctionOnSet(g12, Users) + SumFunctionOnSet(g3, Users)
    BY <2>7, <2>11, SumPlus
  <2>15. SumFunctionOnSet(f, Users) <= SumFunctionOnSet(g, Users)
    BY <2>6, <2>11, SumAtMost
  <2>16. SumFunctionOnSet(f, Users) \in Nat
    BY <1>0, <2>6, SumNat
  <2> QED BY <2>2, <2>5, <2>12, <2>13, <2>14, <2>15, <2>16
<1> QED BY <1>1, <1>2, LevelsType
-----------------------------------------------------------------------------
(* A batch *)

LogType == [Users -> [Columns -> Nat]]

\* What the logs l paid into column c of u, and what the log of one order paid in all.
PaidTo(l, u, c) == SumFunctionOnSet([i \in OrderIds |-> l[i][u][c]], OrderIds)
PaidBy(log) == SumFunctionOnSet([u \in Users |-> log[u]["balance"] + log[u]["commission_balance"]], Users)

\* PaidOnce for one order; a row not used yet is not marked as paid.
OrderPaid(o, log) ==
  /\ PaidBy(log) <= o.commission
  /\ PaidBy(log) = (IF o.cstatus = 2 THEN o.actual ELSE 0)
  /\ o.status = "absent" => o.cstatus # 2

RowsPaid == \A i \in OrderIds : OrderPaid(orders[i], logs[i])

LEMMA PaidOnceRows == RowsPaid => PaidOnce
BY DEF RowsPaid, PaidOnce, OrderPaid, PaidBy

Accounts == IF policy.closed THEN wallet ELSE commission

LEMMA FiniteOrders == IsFiniteSet(OrderIds) /\ IsFiniteSet(Users) /\ IsFiniteSet(WithdrawalIds)
BY CommissionConstants, FS_Interval DEF OrderIds, WithdrawalIds

LEMMA ColumnType == Column \in Columns
BY DEF Column, Columns

LEMMA PaidToInt ==
  ASSUME NEW l \in [OrderIds -> LogType], NEW u \in Users, NEW c \in Columns
  PROVE  PaidTo(l, u, c) \in Nat
<1> DEFINE f == [i \in OrderIds |-> l[i][u][c]]
<1>1. \A i \in OrderIds : f[i] \in Nat
  BY DEF LogType
<1> HIDE DEF f
<1>2. SumFunctionOnSet(f, OrderIds) \in Nat
  BY <1>1, FiniteOrders, SumNat
<1> QED BY <1>2 DEF f, PaidTo

\* The log of one order changes.
LogSet(l, i, log, m) == m = [l EXCEPT ![i] = log]

LEMMA PaidToChanged ==
  ASSUME NEW l \in [OrderIds -> LogType], NEW i \in OrderIds, NEW log \in LogType,
         NEW m, LogSet(l, i, log, m), NEW u \in Users, NEW c \in Columns
  PROVE  PaidTo(m, u, c) = PaidTo(l, u, c) - l[i][u][c] + log[u][c]
<1> DEFINE f == [j \in OrderIds |-> l[j][u][c]]
           g == [j \in OrderIds |-> m[j][u][c]]
<1>1. \A j \in OrderIds : f[j] \in Int /\ f[j] = l[j][u][c]
  BY DEF LogType
<1>2. m[i] = log /\ \A j \in OrderIds \ {i} : m[j] = l[j]
  BY DEF LogSet
<1>3. log[u][c] \in Int
  BY DEF LogType
<1>4. g[i] = log[u][c] /\ \A j \in OrderIds \ {i} : f[j] = g[j]
  BY <1>2
<1> HIDE DEF f, g
<1>5. Summable(f, OrderIds) /\ g[i] \in Int
  BY <1>1, <1>3, <1>4, FiniteOrders DEF Summable
<1>6. SumFunctionOnSet(g, OrderIds) = SumFunctionOnSet(f, OrderIds) - f[i] + g[i]
  BY <1>4, <1>5, SumChanged
<1>7. PaidTo(m, u, c) = SumFunctionOnSet(g, OrderIds) /\ PaidTo(l, u, c) = SumFunctionOnSet(f, OrderIds)
  BY DEF PaidTo, f, g
<1> QED BY <1>1, <1>4, <1>6, <1>7

\* The log of an order that is settled holds what it held and the shares.
LEMMA LoggedType ==
  ASSUME policy \in Policies, NEW o, o.commission \in Nat, NEW log \in LogType
  PROVE  /\ Logged(log, o) \in LogType
         /\ \A u \in Users : Logged(log, o)[u][Column] = log[u][Column] + ShareOf(o, u)
         /\ \A u \in Users, c \in Columns \ {Column} : Logged(log, o)[u][c] = log[u][c]
         /\ PaidBy(Logged(log, o)) = PaidBy(log) + SumFunctionOnSet([u \in Users |-> ShareOf(o, u)], Users)
<1>1. \A u \in Users : ShareOf(o, u) \in Nat
  BY SharesBound
<1>2. \A u \in Users, c \in Columns : log[u][c] \in Nat
  BY DEF LogType
<1>3. \A u \in Users, c \in Columns :
         Logged(log, o)[u][c] = log[u][c] + (IF c = Column THEN ShareOf(o, u) ELSE 0)
  BY DEF Logged
<1>4. Logged(log, o) \in LogType
  <2>1. \A u \in Users, c \in Columns : log[u][c] + (IF c = Column THEN ShareOf(o, u) ELSE 0) \in Nat
    BY <1>1, <1>2
  <2> QED BY <2>1 DEF Logged, LogType
<1>5. \A u \in Users : Logged(log, o)[u][Column] = log[u][Column] + ShareOf(o, u)
  BY <1>3, ColumnType
<1>6. \A u \in Users, c \in Columns \ {Column} : Logged(log, o)[u][c] = log[u][c]
  BY <1>2, <1>3
<1>7. PaidBy(Logged(log, o)) = PaidBy(log) + SumFunctionOnSet([u \in Users |-> ShareOf(o, u)], Users)
  <2> DEFINE h == [u \in Users |-> Logged(log, o)[u]["balance"] + Logged(log, o)[u]["commission_balance"]]
             f == [u \in Users |-> log[u]["balance"] + log[u]["commission_balance"]]
             g == [u \in Users |-> ShareOf(o, u)]
  <2>1. \A u \in Users : f[u] \in Int /\ g[u] \in Int
    BY <1>1, <1>2 DEF Columns
  <2>2. ASSUME NEW u \in Users PROVE h[u] = f[u] + g[u]
    <3>1. log[u]["balance"] \in Nat /\ log[u]["commission_balance"] \in Nat /\ ShareOf(o, u) \in Nat
      BY <1>1, <1>2 DEF Columns
    <3>2. Column = "balance" \/ Column = "commission_balance"
      BY DEF Column
    <3>3. /\ Logged(log, o)[u]["balance"] = log[u]["balance"] + (IF "balance" = Column THEN ShareOf(o, u) ELSE 0)
          /\ Logged(log, o)[u]["commission_balance"]
               = log[u]["commission_balance"] + (IF "commission_balance" = Column THEN ShareOf(o, u) ELSE 0)
      BY <1>3 DEF Columns
    <3> QED BY <3>1, <3>2, <3>3
  <2>3. PaidBy(Logged(log, o)) = SumFunctionOnSet(h, Users) /\ PaidBy(log) = SumFunctionOnSet(f, Users)
    BY DEF PaidBy
  <2>4. \A u \in Users : h[u] = f[u] + g[u]
    BY <2>2
  <2> HIDE DEF f, g, h
  <2>5. Summable(f, Users) /\ Summable(g, Users)
    BY <2>1, FiniteOrders DEF Summable
  <2>6. SumFunctionOnSet(h, Users) = SumFunctionOnSet(f, Users) + SumFunctionOnSet(g, Users)
    BY <2>4, <2>5, SumPlus
  <2> QED BY <2>3, <2>6 DEF g
<1> QED BY <1>4, <1>5, <1>6, <1>7

\* What a batch keeps: the account column moves with the logs of its column, the other
\* column stands still, and every order has paid out what it records.
GoodBatch(b) ==
  /\ b.accounts \in [Users -> Money] /\ b.orders \in [OrderIds -> Order] /\ b.logs \in [OrderIds -> LogType]
  /\ \A i \in OrderIds : OrderPaid(b.orders[i], b.logs[i])
  /\ \A u \in Users : b.accounts[u] - PaidTo(b.logs, u, Column) = Accounts[u] - PaidTo(logs, u, Column)
  /\ \A u \in Users, c \in Columns \ {Column} : PaidTo(b.logs, u, c) = PaidTo(logs, u, c)

LEMMA RowTypes ==
  ASSUME now \in 0 .. MaxNow, policy \in Policies, NEW o \in Order
  PROVE  /\ PutAside(o) \in Order /\ PutAside(o).commission = o.commission
         /\ PutAside(o).cstatus = o.cstatus /\ PutAside(o).actual = o.actual
         /\ PaidOut(o) \in Order /\ PaidOut(o).commission = o.commission /\ PaidOut(o).cstatus = 2
         /\ PaidOut(o).actual = SumFunctionOnSet([u \in Users |-> ShareOf(o, u)], Users)
         /\ PutAside(o).status = o.status /\ PaidOut(o).status = o.status
<1>1. o.commission \in Money /\ o.commission \in Nat
  BY CommissionConstants DEF Order, Money
<1>2. now + Backoff \in Nat
  BY CommissionConstants
<1>3. PutAside(o) = [o EXCEPT !.retryAfter = now + Backoff]
  BY DEF PutAside, RetryAfter
<1>4. PICK s : s = SumFunctionOnSet([u \in Users |-> ShareOf(o, u)], Users)
  OBVIOUS
<1>5. s \in Money
  BY <1>1, <1>4, SharesBound, CommissionConstants DEF Money
<1>6. PaidOut(o) = [user |-> o.user, inviter |-> o.inviter, commission |-> o.commission, status |-> o.status,
                    cstatus |-> 2, actual |-> s, updated |-> now, retryAfter |-> 0]
  <2>1. PaidOut(o) = [o EXCEPT !.cstatus = 2, !.updated = now, !.retryAfter = 0, !.actual = s]
    BY <1>4 DEF PaidOut
  <2> QED BY <2>1 DEF Order
<1>7. /\ PaidOut(o) \in Order /\ PaidOut(o).commission = o.commission /\ PaidOut(o).cstatus = 2
      /\ PaidOut(o).actual = s /\ PaidOut(o).status = o.status
  <2>1. /\ o.user \in Users \cup {None} /\ o.inviter \in Users \cup {None} /\ o.commission \in Money
        /\ o.status \in {"absent", "pending", "cancelled", "completed", "discounted"}
    BY DEF Order
  <2> QED BY <1>5, <1>6, <2>1 DEF Order
<1>8. /\ PutAside(o) \in Order /\ PutAside(o).commission = o.commission
      /\ PutAside(o).cstatus = o.cstatus /\ PutAside(o).actual = o.actual /\ PutAside(o).status = o.status
  BY <1>2, <1>3 DEF Order
<1> QED BY <1>4, <1>7, <1>8

LEMMA SettledGood ==
  ASSUME TypeOK, NEW b, GoodBatch(b), NEW i \in OrderIds, b.orders[i].cstatus = 1,
         b.orders[i].status = "completed"
  PROVE  GoodBatch(Settled(b, i))
<1>1. PICK o : o = b.orders[i]
  OBVIOUS
<1>2. o \in Order /\ o.cstatus = 1 /\ o.status = "completed" /\ o.commission \in Nat /\ policy \in Policies /\ now \in 0 .. MaxNow
  BY <1>1, CommissionConstants DEF GoodBatch, Order, Money, TypeOK
<1> DEFINE n == Settled(b, i)
           paid == ~Cyclic(o) /\ Fits(o, b.accounts)
<1>3. /\ n.accounts = Credited(o, b.accounts)
      /\ n.orders = [b.orders EXCEPT ![i] = IF paid THEN PaidOut(o) ELSE PutAside(o)]
      /\ n.logs = IF paid THEN [b.logs EXCEPT ![i] = Logged(b.logs[i], o)] ELSE b.logs
  BY <1>1 DEF Settled
<1>4. PaidBy(b.logs[i]) = 0
  BY <1>1, <1>2 DEF GoodBatch, OrderPaid
<1> HIDE DEF n
<1>5. CASE ~paid
  <2>1. n.accounts = b.accounts /\ n.orders = [b.orders EXCEPT ![i] = PutAside(o)] /\ n.logs = b.logs
    BY <1>3, <1>5 DEF Credited
  <2>2. n.orders \in [OrderIds -> Order]
    BY <1>2, <2>1, RowTypes DEF GoodBatch
  <2>3. ASSUME NEW j \in OrderIds PROVE OrderPaid(n.orders[j], n.logs[j])
    <3>1. CASE j = i
      <4>1. n.orders[j] = PutAside(o) /\ OrderPaid(o, b.logs[j])
        BY <1>1, <2>1, <3>1 DEF GoodBatch
      <4>2. PICK p : /\ p = PutAside(o) /\ p.commission = o.commission /\ p.cstatus = o.cstatus
                     /\ p.actual = o.actual /\ p.status = o.status
        BY <1>2, RowTypes
      <4>3. OrderPaid(p, b.logs[j])
        BY <4>1, <4>2 DEF OrderPaid
      <4> QED BY <2>1, <4>1, <4>2, <4>3
    <3>2. CASE j # i
      BY <2>1, <3>2 DEF GoodBatch
    <3> QED BY <3>1, <3>2
  <2> QED BY <2>1, <2>2, <2>3 DEF GoodBatch, n
<1>6. CASE paid
  <2> DEFINE log == Logged(b.logs[i], o)
  <2>0. b.logs[i] \in LogType /\ b.logs \in [OrderIds -> LogType]
    BY DEF GoodBatch
  <2>1. /\ log \in LogType
        /\ \A u \in Users : log[u][Column] = b.logs[i][u][Column] + ShareOf(o, u)
        /\ \A u \in Users, c \in Columns \ {Column} : log[u][c] = b.logs[i][u][c]
        /\ PaidBy(log) = PaidBy(b.logs[i]) + SumFunctionOnSet([u \in Users |-> ShareOf(o, u)], Users)
    BY <1>2, <2>0, LoggedType
  <2>2. n.orders = [b.orders EXCEPT ![i] = PaidOut(o)] /\ n.logs = [b.logs EXCEPT ![i] = log]
    BY <1>3, <1>6
  <2>3. n.accounts = [u \in Users |-> b.accounts[u] + ShareOf(o, u)]
    BY <1>3, <1>6 DEF Credited
  <2>4. /\ \A u \in Users : ShareOf(o, u) \in Nat
        /\ SumFunctionOnSet([u \in Users |-> ShareOf(o, u)], Users) \in 0 .. o.commission
    BY <1>2, SharesBound
  <2> HIDE DEF log
  <2>5. n.accounts \in [Users -> Money]
    <3>1. ASSUME NEW u \in Users PROVE b.accounts[u] + ShareOf(o, u) \in Money
      <4>1. b.accounts[u] \in Money /\ ShareOf(o, u) \in Nat
        BY <2>4 DEF GoodBatch
      <4>2. ShareOf(o, u) > 0 => b.accounts[u] + ShareOf(o, u) <= MaxMoney
        BY <1>6 DEF Fits
      <4> QED BY <4>1, <4>2, CommissionConstants DEF Money
    <3> QED BY <2>3, <3>1
  <2>6. n.orders \in [OrderIds -> Order] /\ n.logs \in [OrderIds -> LogType]
    <3>1. PaidOut(o) \in Order
      BY <1>2, RowTypes
    <3> QED BY <2>1, <2>2, <3>1 DEF GoodBatch
  <2>7. ASSUME NEW j \in OrderIds PROVE OrderPaid(n.orders[j], n.logs[j])
    <3>1. CASE j = i
      <4>1. n.orders[j] = PaidOut(o) /\ n.logs[j] = log
        BY <2>0, <2>2, <3>1 DEF GoodBatch
      <4>2. PaidOut(o).commission = o.commission /\ PaidOut(o).cstatus = 2 /\ PaidOut(o).status = o.status
            /\ PaidOut(o).actual = SumFunctionOnSet([u \in Users |-> ShareOf(o, u)], Users)
        BY <1>2, RowTypes
      <4>3. PICK s \in 0 .. o.commission : s = SumFunctionOnSet([u \in Users |-> ShareOf(o, u)], Users)
        BY <2>4
      <4>4. PaidBy(log) = s
        BY <1>4, <2>1, <4>3
      <4> QED BY <1>2, <4>1, <4>2, <4>3, <4>4 DEF OrderPaid
    <3>2. CASE j # i
      <4>1. n.orders[j] = b.orders[j] /\ n.logs[j] = b.logs[j]
        BY <2>0, <2>2, <3>2 DEF GoodBatch
      <4> QED BY <4>1 DEF GoodBatch
    <3> QED BY <3>1, <3>2
  <2>8. ASSUME NEW u \in Users, NEW c \in Columns
        PROVE  PaidTo(n.logs, u, c) = PaidTo(b.logs, u, c) - b.logs[i][u][c] + log[u][c]
    <3>0. PICK l \in [OrderIds -> LogType] : l = b.logs
      BY <2>0
    <3>1. PICK m : l = b.logs /\ m = n.logs
      BY <3>0
    <3>2. PICK g \in LogType : g = log /\ LogSet(l, i, g, m)
      BY <2>1, <2>2, <3>1 DEF LogSet
    <3>3. PaidTo(m, u, c) = PaidTo(l, u, c) - l[i][u][c] + g[u][c]
      BY <3>2, PaidToChanged
    <3> QED BY <3>1, <3>2, <3>3
  <2>9. ASSUME NEW u \in Users
        PROVE  n.accounts[u] - PaidTo(n.logs, u, Column) = Accounts[u] - PaidTo(logs, u, Column)
    <3>1. /\ b.accounts[u] \in Int /\ ShareOf(o, u) \in Int /\ PaidTo(b.logs, u, Column) \in Int
          /\ b.logs[i][u][Column] \in Int
      <4>1. b.accounts[u] \in Int /\ b.logs[i][u][Column] \in Int
        BY <2>0, ColumnType, CommissionConstants DEF GoodBatch, Money, LogType
      <4> QED BY <2>0, <2>4, <4>1, PaidToInt, ColumnType
    <3>2. n.accounts[u] = b.accounts[u] + ShareOf(o, u)
      BY <2>3
    <3>3. PaidTo(n.logs, u, Column) = PaidTo(b.logs, u, Column) - b.logs[i][u][Column] + (b.logs[i][u][Column] + ShareOf(o, u))
      BY <2>1, <2>8, ColumnType
    <3>4. b.accounts[u] - PaidTo(b.logs, u, Column) = Accounts[u] - PaidTo(logs, u, Column)
      BY DEF GoodBatch
    <3>5. PICK x \in Int : x = Accounts[u] - PaidTo(logs, u, Column)
      BY <3>1, <3>4
    <3> QED BY <3>1, <3>2, <3>3, <3>4, <3>5
  <2>10. ASSUME NEW u \in Users, NEW c \in Columns \ {Column}
         PROVE  PaidTo(n.logs, u, c) = PaidTo(logs, u, c)
    <3>1. PaidTo(b.logs, u, c) \in Int /\ b.logs[i][u][c] \in Int
      BY <2>0, PaidToInt DEF LogType
    <3>2. PaidTo(n.logs, u, c) = PaidTo(b.logs, u, c) - b.logs[i][u][c] + b.logs[i][u][c]
      BY <2>1, <2>8
    <3>3. PaidTo(b.logs, u, c) = PaidTo(logs, u, c)
      BY DEF GoodBatch
    <3> QED BY <3>1, <3>2, <3>3
  <2> QED BY <2>5, <2>6, <2>7, <2>9, <2>10 DEF GoodBatch, n
<1> QED BY <1>5, <1>6

\* An order gets another status or commission status.
Statuses == {"absent", "pending", "cancelled", "completed", "discounted"}
WithStatus(o, s) == [o EXCEPT !.status = s, !.updated = now]
WithCommission(o, k) == [o EXCEPT !.cstatus = k, !.updated = now]

LEMMA RowRecord ==
  ASSUME NEW o \in Order
  PROVE  /\ o = [user |-> o.user, inviter |-> o.inviter, commission |-> o.commission, status |-> o.status,
                 cstatus |-> o.cstatus, actual |-> o.actual, updated |-> o.updated, retryAfter |-> o.retryAfter]
         /\ o.user \in Users \cup {None} /\ o.inviter \in Users \cup {None} /\ o.commission \in Money
         /\ o.status \in Statuses /\ o.cstatus \in 0 .. 3 /\ o.actual \in Money /\ o.updated \in 0 .. MaxNow
         /\ o.retryAfter \in Nat
BY DEF Order, Statuses

LEMMA StatusSet ==
  ASSUME now \in 0 .. MaxNow, NEW o \in Order, NEW s \in Statuses
  PROVE  /\ WithStatus(o, s) \in Order /\ WithStatus(o, s).commission = o.commission
         /\ WithStatus(o, s).cstatus = o.cstatus /\ WithStatus(o, s).actual = o.actual /\ WithStatus(o, s).status = s
<1>0. WithStatus(o, s) = [o EXCEPT !.status = s, !.updated = now]
  BY DEF WithStatus
<1>1. WithStatus(o, s) = [user |-> o.user, inviter |-> o.inviter, commission |-> o.commission, status |-> s,
       cstatus |-> o.cstatus, actual |-> o.actual, updated |-> now, retryAfter |-> o.retryAfter]
  BY <1>0 DEF Order
<1> QED BY <1>1, RowRecord DEF Order, Statuses

LEMMA CommissionSet ==
  ASSUME now \in 0 .. MaxNow, NEW o \in Order, NEW k \in 0 .. 3
  PROVE  /\ WithCommission(o, k) \in Order /\ WithCommission(o, k).commission = o.commission
         /\ WithCommission(o, k).cstatus = k /\ WithCommission(o, k).status = o.status
<1>0. WithCommission(o, k) = [o EXCEPT !.cstatus = k, !.updated = now]
  BY DEF WithCommission
<1>1. WithCommission(o, k) = [user |-> o.user, inviter |-> o.inviter, commission |-> o.commission, status |-> o.status,
       cstatus |-> k, actual |-> o.actual, updated |-> now, retryAfter |-> o.retryAfter]
  BY <1>0 DEF Order
<1> QED BY <1>1, RowRecord DEF Order, Statuses

\* The confirmation at the start pays nothing.
LEMMA StartGood ==
  ASSUME TypeOK, RowsPaid
  PROVE  GoodBatch(BatchStart)
<1>1. /\ BatchStart.accounts = Accounts /\ BatchStart.orders = Confirmed /\ BatchStart.logs = logs
  BY DEF BatchStart, Accounts
<1>2. Accounts \in [Users -> Money] /\ logs \in [OrderIds -> LogType]
  BY DEF Accounts, TypeOK, LogType
<1>3. ASSUME NEW i \in OrderIds PROVE Confirmed[i] \in Order /\ OrderPaid(Confirmed[i], logs[i])
  <2>1. orders[i] \in Order /\ OrderPaid(orders[i], logs[i]) /\ now \in 0 .. MaxNow
    BY DEF TypeOK, RowsPaid
  <2>2. CASE policy.auto /\ i \in FirstOf(orders, Due, BatchLimit)
    <3>1. Confirmed[i] = [orders[i] EXCEPT !.cstatus = 1, !.updated = now] /\ orders[i].cstatus = 0
          /\ orders[i].status = "completed"
      BY <2>2 DEF Confirmed, FirstOf, Due
    <3>2. PICK o \in Order : o = orders[i]
      BY <2>1
    <3>3. /\ Confirmed[i] \in Order /\ Confirmed[i].commission = o.commission /\ Confirmed[i].cstatus = 1
          /\ o.cstatus = 0 /\ Confirmed[i].status = "completed"
      <4>1. Confirmed[i] = WithCommission(o, 1) /\ 1 \in 0 .. 3
        BY <3>1, <3>2 DEF WithCommission
      <4> QED BY <2>1, <3>1, <3>2, <4>1, CommissionSet
    <3> QED BY <2>1, <3>2, <3>3 DEF OrderPaid
  <2>3. CASE ~(policy.auto /\ i \in FirstOf(orders, Due, BatchLimit))
    BY <2>1, <2>3 DEF Confirmed
  <2> QED BY <2>2, <2>3
<1>4. Confirmed \in [OrderIds -> Order]
  <2>1. Confirmed = [i \in OrderIds |-> Confirmed[i]]
    BY DEF Confirmed
  <2> HIDE DEF Confirmed
  <2> QED BY <1>3, <2>1
<1> QED BY <1>1, <1>2, <1>3, <1>4 DEF GoodBatch

LEMMA StepGood ==
  ASSUME TypeOK, NEW b, GoodBatch(b)
  PROVE  GoodBatch(BatchStep(b))
<1> DEFINE next == FirstOf(b.orders, Payable(b.orders), 1)
<1>1. CASE next = {}
  BY <1>1 DEF BatchStep
<1>2. CASE next # {}
  <2>1. PICK i : i = CHOOSE x \in next : TRUE
    OBVIOUS
  <2>2. i \in next
    BY <1>2, <2>1
  <2>3. i \in OrderIds /\ b.orders[i].cstatus = 1 /\ b.orders[i].status = "completed"
    BY <2>2 DEF FirstOf, Payable
  <2>4. BatchStep(b) = Settled(b, i)
    BY <1>2, <2>1 DEF BatchStep
  <2> QED BY <2>3, <2>4, SettledGood
<1> QED BY <1>1, <1>2

\* The stages of a batch of k orders, and the ones BatchOf stands for.
Stages(f, k) == f = [n \in 0 .. k |-> IF n = 0 THEN BatchStart ELSE BatchStep(f[n - 1])]
TheStages == CHOOSE f : Stages(f, BatchLimit)

LEMMA BatchByStages == BatchOf = TheStages[BatchLimit]
BY DEF BatchOf, TheStages, Stages

LEMMA StagesExist == Stages(TheStages, BatchLimit)
<1> DEFINE P == {k \in Nat : \E f : Stages(f, k)}
<1>0. BatchLimit \in Nat
  BY CommissionConstants
<1>1. 0 \in P
  <2>1. PICK f : f = [n \in 0 .. 0 |-> BatchStart]
    OBVIOUS
  <2>2. Stages(f, 0)
    BY <2>1 DEF Stages
  <2> QED BY <2>2
<1>2. ASSUME NEW k \in 0 .. BatchLimit - 1, k \in P PROVE k + 1 \in P
  <2>1. PICK f : Stages(f, k)
    BY <1>2
  <2>2. PICK g : g = [n \in 0 .. k + 1 |-> IF n = 0 THEN BatchStart ELSE BatchStep(f[n - 1])]
    OBVIOUS
  <2>3. ASSUME NEW n \in 0 .. k PROVE g[n] = f[n]
    <3>1. n \in 0 .. k + 1
      BY <1>0
    <3> QED BY <2>1, <2>2, <3>1 DEF Stages
  <2>4. ASSUME NEW n \in 0 .. k + 1
        PROVE  (IF n = 0 THEN BatchStart ELSE BatchStep(f[n - 1])) = (IF n = 0 THEN BatchStart ELSE BatchStep(g[n - 1]))
    <3>1. CASE n = 0
      BY <3>1
    <3>2. CASE n # 0
      <4>1. n - 1 \in 0 .. k
        BY <1>0, <3>2
      <4>2. g[n - 1] = f[n - 1]
        BY <2>3, <4>1
      <4> QED BY <3>2, <4>2
    <3> QED BY <3>1, <3>2
  <2>5. g = [n \in 0 .. k + 1 |-> IF n = 0 THEN BatchStart ELSE BatchStep(g[n - 1])]
    BY <2>2, <2>4
  <2>6. Stages(g, k + 1)
    BY <2>5 DEF Stages
  <2> QED BY <1>0, <2>6
<1> HIDE DEF P
<1>3. 0 .. BatchLimit \subseteq P
  BY <1>0, <1>1, <1>2, IntervalInduction
<1>4. \E f : Stages(f, BatchLimit)
  BY <1>0, <1>3 DEF P
<1> QED BY <1>4 DEF TheStages

LEMMA BatchGood ==
  ASSUME TypeOK, RowsPaid
  PROVE  GoodBatch(BatchOf)
<1>0. BatchLimit \in Nat
  BY CommissionConstants
<1>1. PICK f : f = TheStages /\ Stages(f, BatchLimit)
  BY StagesExist
<1> DEFINE P == {k \in 0 .. BatchLimit : GoodBatch(f[k])}
<1>2. 0 \in P
  <2>1. f[0] = BatchStart
    BY <1>0, <1>1 DEF Stages
  <2> QED BY <1>0, <2>1, StartGood
<1>3. ASSUME NEW k \in 0 .. BatchLimit - 1, k \in P PROVE k + 1 \in P
  <2>1. k + 1 \in 0 .. BatchLimit /\ k + 1 # 0 /\ (k + 1) - 1 = k
    BY <1>0
  <2>2. f[k + 1] = BatchStep(f[(k + 1) - 1])
    BY <1>1, <2>1 DEF Stages
  <2>3. f[k + 1] = BatchStep(f[k])
    BY <2>1, <2>2
  <2> QED BY <1>3, <2>1, <2>3, StepGood
<1> HIDE DEF P
<1>4. 0 .. BatchLimit \subseteq P
  BY <1>0, <1>2, <1>3, IntervalInduction
<1>5. GoodBatch(f[BatchLimit])
  BY <1>0, <1>4 DEF P
<1> QED BY <1>1, <1>5, BatchByStages

-----------------------------------------------------------------------------
(* Withdrawals *)

\* What a withdrawal holds back from the account of u, and what all of them do.
Held(x, u) == IF x.user = u /\ x.status \in Frozen THEN x.amount ELSE 0
FrozenIn(T, u) == SumFunctionOnSet([w \in WithdrawalIds |-> Held(T[w], u)], WithdrawalIds)

LEMMA HeldType ==
  ASSUME NEW x \in Withdrawal, NEW u
  PROVE  Held(x, u) \in Nat
BY CommissionConstants DEF Held, Withdrawal, Money

LEMMA FrozenRows ==
  ASSUME withdrawals \in [WithdrawalIds -> Withdrawal], NEW u \in Users
  PROVE  FrozenOf(u) = FrozenIn(withdrawals, u) /\ FrozenIn(withdrawals, u) \in Int
<1> DEFINE f == [w \in WithdrawalIds |-> withdrawals[w].amount]
           M == {w \in WithdrawalIds : withdrawals[w].user = u /\ withdrawals[w].status \in Frozen}
           g == [w \in WithdrawalIds |-> Held(withdrawals[w], u)]
<1>1. \A w \in WithdrawalIds : f[w] \in Int
  BY CommissionConstants DEF Withdrawal, Money
<1>2. \A w \in WithdrawalIds : g[w] = IF w \in M THEN f[w] ELSE 0
  BY DEF Held
<1>3. FrozenOf(u) = SumFunctionOnSet(f, M) /\ FrozenIn(withdrawals, u) = SumFunctionOnSet(g, WithdrawalIds)
  BY DEF FrozenOf, FrozenIn
<1>4. M \in SUBSET WithdrawalIds
  OBVIOUS
<1> HIDE DEF f, M, g
<1>5. Summable(f, WithdrawalIds) /\ Summable(g, WithdrawalIds)
  BY <1>1, <1>2, FiniteOrders DEF Summable
<1>6. SumFunctionOnSet(g, WithdrawalIds) = SumFunctionOnSet(f, M)
  BY <1>2, <1>4, <1>5, SumMasked
<1>7. SumFunctionOnSet(g, WithdrawalIds) \in Int
  BY <1>5, SumInt
<1> QED BY <1>3, <1>6, <1>7

\* One withdrawal changes.
OneSet(T, w, x, S) == S = [T EXCEPT ![w] = x]

LEMMA FrozenChanged ==
  ASSUME NEW T \in [WithdrawalIds -> Withdrawal], NEW w \in WithdrawalIds, NEW x \in Withdrawal,
         NEW S, OneSet(T, w, x, S), NEW u \in Users
  PROVE  FrozenIn(S, u) = FrozenIn(T, u) - Held(T[w], u) + Held(x, u) /\ FrozenIn(T, u) \in Int
<1> DEFINE f == [v \in WithdrawalIds |-> Held(T[v], u)]
           g == [v \in WithdrawalIds |-> Held(S[v], u)]
<1>1. \A v \in WithdrawalIds : f[v] \in Int
  BY HeldType
<1>2. S[w] = x /\ \A v \in WithdrawalIds \ {w} : S[v] = T[v]
  BY DEF OneSet
<1>3. Held(x, u) \in Int
  BY HeldType
<1>4. f[w] = Held(T[w], u) /\ g[w] = Held(x, u) /\ \A v \in WithdrawalIds \ {w} : f[v] = g[v]
  BY <1>2
<1>5. FrozenIn(S, u) = SumFunctionOnSet(g, WithdrawalIds) /\ FrozenIn(T, u) = SumFunctionOnSet(f, WithdrawalIds)
  BY DEF FrozenIn
<1> HIDE DEF f, g
<1>6. Summable(f, WithdrawalIds) /\ g[w] \in Int
  BY <1>1, <1>3, <1>4, FiniteOrders DEF Summable
<1>7. SumFunctionOnSet(g, WithdrawalIds) = SumFunctionOnSet(f, WithdrawalIds) - f[w] + g[w]
  BY <1>4, <1>6, SumChanged
<1>8. SumFunctionOnSet(f, WithdrawalIds) \in Int
  BY <1>6, SumInt
<1> QED BY <1>4, <1>5, <1>7, <1>8

-----------------------------------------------------------------------------
(* The invariant *)

\* A withdrawal was paid or given back as its status says, an open one belongs to a user,
\* and a row not used yet holds nothing.
WithdrawalGood(x) ==
  /\ "paid" \in x.events => x.status = "paid"
  /\ "rejected" \in x.events => x.status = "rejected"
  /\ x.status # "absent" => x.user \in Users
  /\ x.status = "absent" => x.user = None /\ x.key = NoKey

RowsGood == \A w \in WithdrawalIds : WithdrawalGood(withdrawals[w])

\* AccountsBalance for one user: c and a are the two accounts, g and m what was given and
\* moved, l the logs and T the withdrawals.
Balance(u, c, a, g, m, l, T) ==
  /\ c = g + PaidTo(l, u, "commission_balance") - m - FrozenIn(T, u)
  /\ a = m + PaidTo(l, u, "balance")

Balanced == \A u \in Users : Balance(u, commission[u], wallet[u], given[u], moved[u], logs, withdrawals)

LEMMA BalancedAccounts ==
  ASSUME TypeOK, Balanced PROVE AccountsBalance
<1> SUFFICES ASSUME NEW u \in Users
             PROVE  /\ commission[u] = given[u] + PaidInto(u, "commission_balance") - moved[u] - FrozenOf(u)
                    /\ wallet[u] = moved[u] + PaidInto(u, "balance")
  BY DEF AccountsBalance
<1>1. FrozenOf(u) = FrozenIn(withdrawals, u)
  BY FrozenRows DEF TypeOK
<1>2. PaidInto(u, "commission_balance") = PaidTo(logs, u, "commission_balance")
      /\ PaidInto(u, "balance") = PaidTo(logs, u, "balance")
  BY DEF PaidInto, PaidTo
<1>3. Balance(u, commission[u], wallet[u], given[u], moved[u], logs, withdrawals)
  BY DEF Balanced
<1> QED BY <1>1, <1>2, <1>3 DEF Balance

\* WithdrawalsDistinct for two withdrawals.
Apart(x, y) ==
  /\ {x.status, y.status} \subseteq Open => x.user # y.user
  /\ x.key # NoKey /\ y.key = x.key => x.user # y.user
  /\ x.status = "paid" /\ y.status = "paid" /\ x.receipt = y.receipt => MethodOf[x.target] # MethodOf[y.target]

RowsApart == \A w, v \in WithdrawalIds : w # v => Apart(withdrawals[w], withdrawals[v])

LEMMA ApartSymmetric == ASSUME NEW x, NEW y, Apart(x, y) PROVE Apart(y, x)
BY DEF Apart

LEMMA DistinctRows == RowsGood /\ RowsApart => WithdrawalsDistinct
BY DEF RowsGood, WithdrawalGood, RowsApart, Apart, WithdrawalsDistinct

CommissionInv == TypeOK /\ RowsPaid /\ Balanced /\ RowsGood /\ RowsApart /\ FormsCurrent

LEMMA NewRows ==
  /\ NoOrder \in Order /\ NoOrder.cstatus = 0 /\ NoOrder.status = "absent" /\ NoOrder.commission = 0
  /\ NoWithdrawal \in Withdrawal /\ WithdrawalGood(NoWithdrawal) /\ NoWithdrawal.status = "absent"
  /\ NoWithdrawal.user = None /\ NoWithdrawal.key = NoKey
  /\ NoForm \in Form /\ NoForm.open = FALSE
<1>1. MaxMoney \in Nat /\ MaxNow \in Nat
  BY CommissionConstants
<1>2. 0 \in Money /\ 0 \in 0 .. MaxNow
  BY <1>1 DEF Money
<1>3. NoOrder \in Order /\ NoOrder.cstatus = 0 /\ NoOrder.status = "absent" /\ NoOrder.commission = 0
  BY <1>2 DEF NoOrder, Order
<1>4. NoWithdrawal \in Withdrawal /\ NoWithdrawal.status = "absent" /\ NoWithdrawal.events = {}
      /\ NoWithdrawal.user = None /\ NoWithdrawal.key = NoKey
  BY <1>2, CommissionConstants DEF NoWithdrawal, Withdrawal
<1>5. NoForm \in Form /\ NoForm.open = FALSE
  BY <1>2 DEF NoForm, Form
<1> QED BY <1>3, <1>4, <1>5 DEF WithdrawalGood

\* Forms that a money write makes stale.
LEMMA TouchedForms ==
  ASSUME form \in [Users -> Form], NEW U
  PROVE  /\ Touched(U) \in [Users -> Form]
         /\ \A u \in Users : Touched(U)[u].open /\ Touched(U)[u].fresh => u \notin U /\ Touched(U)[u] = form[u]
<1>1. ASSUME NEW u \in Users
      PROVE  /\ Touched(U)[u] \in Form
             /\ Touched(U)[u].open /\ Touched(U)[u].fresh => u \notin U /\ Touched(U)[u] = form[u]
  <2>1. CASE u \in U
    <3>1. PICK f \in Form : f = form[u]
      OBVIOUS
    <3>2. PICK t : t = [f EXCEPT !.fresh = FALSE]
      OBVIOUS
    <3>3. Touched(U)[u] = t
      BY <2>1, <3>1, <3>2 DEF Touched
    <3>4. t \in Form /\ t.fresh = FALSE
      BY <3>2 DEF Form
    <3> QED BY <3>3, <3>4
  <2>2. CASE u \notin U
    BY <2>2 DEF Touched
  <2> QED BY <2>1, <2>2
<1>2. Touched(U) = [u \in Users |-> Touched(U)[u]]
  BY DEF Touched
<1> HIDE DEF Touched
<1>3. Touched(U) \in [Users -> Form]
  BY <1>1, <1>2
<1> QED BY <1>1, <1>3

LEMMA CommissionInit == Init => CommissionInv
<1> SUFFICES ASSUME Init PROVE CommissionInv
  OBVIOUS
<1>0. MaxMoney \in Nat /\ MaxNow \in Nat /\ MaxForms \in Nat /\ Trees \subseteq [Users -> Users \cup {None}]
  BY CommissionConstants
<1>1. TypeOK
  <2>1. 0 \in Money /\ 0 \in 0 .. MaxNow /\ 0 \in 0 .. MaxForms
    BY <1>0 DEF Money
  <2>2. /\ wallet \in [Users -> Money] /\ commission \in [Users -> Money] /\ given \in [Users -> Int]
        /\ moved \in [Users -> Nat] /\ tickets \subseteq Users /\ loads \in 0 .. MaxForms
        /\ now \in 0 .. MaxNow /\ policy \in Policies
    BY <2>1 DEF Init
  <2>3. /\ form \in [Users -> Form] /\ orders \in [OrderIds -> Order]
        /\ withdrawals \in [WithdrawalIds -> Withdrawal]
    BY NewRows DEF Init
  <2>4. logs \in [OrderIds -> [Users -> [Columns -> Nat]]]
    BY DEF Init
  <2>5. inviter \in [Users -> Users \cup {None}]
    BY <1>0 DEF Init
  <2> QED BY <2>2, <2>3, <2>4, <2>5 DEF TypeOK
<1>2. \A i \in OrderIds, u \in Users, c \in Columns : logs[i][u][c] = 0
  BY DEF Init
<1>3. RowsPaid
  <2> SUFFICES ASSUME NEW i \in OrderIds PROVE OrderPaid(orders[i], logs[i])
    BY DEF RowsPaid
  <2>1. orders[i] = NoOrder
    BY DEF Init
  <2> DEFINE f == [u \in Users |-> logs[i][u]["balance"] + logs[i][u]["commission_balance"]]
  <2>2. \A u \in Users : f[u] = 0
    BY <1>2 DEF Columns
  <2>3. PaidBy(logs[i]) = SumFunctionOnSet(f, Users)
    BY DEF PaidBy
  <2> HIDE DEF f
  <2>4. SumFunctionOnSet(f, Users) = 0
    BY <2>2, FiniteOrders, SumZero
  <2> QED BY <2>1, <2>3, <2>4, NewRows DEF OrderPaid
<1>4. Balanced
  <2> SUFFICES ASSUME NEW u \in Users
               PROVE  Balance(u, commission[u], wallet[u], given[u], moved[u], logs, withdrawals)
    BY DEF Balanced
  <2>1. commission[u] = 0 /\ wallet[u] = 0 /\ given[u] = 0 /\ moved[u] = 0
    BY DEF Init
  <2>2. ASSUME NEW c \in Columns PROVE PaidTo(logs, u, c) = 0
    <3> DEFINE f == [i \in OrderIds |-> logs[i][u][c]]
    <3>1. \A i \in OrderIds : f[i] = 0
      BY <1>2
    <3>2. PaidTo(logs, u, c) = SumFunctionOnSet(f, OrderIds)
      BY DEF PaidTo
    <3> HIDE DEF f
    <3> QED BY <3>1, <3>2, FiniteOrders, SumZero
  <2>3. FrozenIn(withdrawals, u) = 0
    <3> DEFINE f == [w \in WithdrawalIds |-> Held(withdrawals[w], u)]
    <3>1. \A w \in WithdrawalIds : withdrawals[w] = NoWithdrawal
      BY DEF Init
    <3>2. Held(NoWithdrawal, u) = 0
      BY NewRows DEF Held, Frozen
    <3>3. \A w \in WithdrawalIds : f[w] = 0
      BY <3>1, <3>2
    <3>4. FrozenIn(withdrawals, u) = SumFunctionOnSet(f, WithdrawalIds)
      BY DEF FrozenIn
    <3> HIDE DEF f
    <3> QED BY <3>3, <3>4, FiniteOrders, SumZero
  <2> QED BY <2>1, <2>2, <2>3 DEF Balance, Columns
<1>5. RowsGood /\ RowsApart
  <2>1. \A w \in WithdrawalIds : withdrawals[w] = NoWithdrawal
    BY DEF Init
  <2>2. NoWithdrawal.events = {}
    BY DEF NoWithdrawal
  <2> QED BY <2>1, <2>2, NewRows DEF RowsGood, RowsApart, Apart, Open
<1>6. FormsCurrent
  BY NewRows DEF Init, FormsCurrent
<1> QED BY <1>1, <1>3, <1>4, <1>5, <1>6 DEF CommissionInv

\* What a batch leaves.
LEMMA BatchEffect ==
  ASSUME TypeOK, RowsPaid, ProcessCommissions
  PROVE  \E b : /\ GoodBatch(b) /\ orders' = b.orders /\ logs' = b.logs
                /\ wallet' = (IF policy.closed THEN b.accounts ELSE wallet)
                /\ commission' = (IF policy.closed THEN commission ELSE b.accounts)
                /\ form' = Touched({u \in Users : b.accounts[u] # Accounts[u]})
BY BatchGood DEF ProcessCommissions, Accounts

\* A new order in a row that was not used.
NewRow(u, inv, c) == [NoOrder EXCEPT !.user = u, !.inviter = inv, !.status = "pending", !.commission = c, !.updated = now]

LEMMA NewRowType ==
  ASSUME now \in 0 .. MaxNow, NEW u \in Users, NEW inv \in Users \cup {None}, NEW c \in Money
  PROVE  NewRow(u, inv, c) \in Order /\ NewRow(u, inv, c).cstatus = 0 /\ NewRow(u, inv, c).status = "pending"
         /\ NewRow(u, inv, c).commission = c
<1>1. 0 \in Money
  BY CommissionConstants DEF Money
<1>2. NewRow(u, inv, c) = [user |-> u, inviter |-> inv, commission |-> c, status |-> "pending",
                           cstatus |-> 0, actual |-> 0, updated |-> now, retryAfter |-> 0]
  <2>1. PICK n : n = NoOrder
    OBVIOUS
  <2>2. NewRow(u, inv, c) = [n EXCEPT !.user = u, !.inviter = inv, !.status = "pending", !.commission = c, !.updated = now]
    BY <2>1 DEF NewRow
  <2>3. n = [user |-> None, inviter |-> None, commission |-> 0, status |-> "absent",
             cstatus |-> 0, actual |-> 0, updated |-> 0, retryAfter |-> 0]
    BY <2>1 DEF NoOrder
  <2> QED BY <2>2, <2>3
<1> QED BY <1>1, <1>2 DEF Order

\* One row of orders changes.
LEMMA OneOrder ==
  ASSUME orders \in [OrderIds -> Order], logs' = logs, RowsPaid, NEW i \in OrderIds, NEW o \in Order,
         orders' = [orders EXCEPT ![i] = o], OrderPaid(o, logs[i])
  PROVE  orders' \in [OrderIds -> Order] /\ RowsPaid'
<1>1. orders'[i] = o /\ \A j \in OrderIds \ {i} : orders'[j] = orders[j]
  OBVIOUS
<1> QED BY <1>1 DEF RowsPaid

LEMMA CreateOrderPaid ==
  ASSUME TypeOK, RowsPaid, NEW u \in Buyers, CreateOrder(u)
  PROVE  orders' \in [OrderIds -> Order] /\ RowsPaid'
<1>1. u \in Users /\ Amounts \subseteq Money /\ MaxMoney \in Nat
  BY CommissionConstants DEF Money
<1>2. PICK i \in OrderIds, k \in Amounts :
        /\ NewOrder(i)
        /\ orders' = [orders EXCEPT ![i] =
             [NoOrder EXCEPT !.user = u, !.inviter = inviter[u], !.status = "pending",
                             !.commission = IF inviter[u] # None /\ Eligible(u) THEN k ELSE 0,
                             !.updated = now]]
  BY DEF CreateOrder
<1>3. PICK c : c = IF inviter[u] # None /\ Eligible(u) THEN k ELSE 0
  OBVIOUS
<1>4. c \in Money
  BY <1>1, <1>3 DEF Money
<1>5. PICK o : o = NewRow(u, inviter[u], c)
  OBVIOUS
<1>6. orders' = [orders EXCEPT ![i] = o]
  BY <1>2, <1>3, <1>5 DEF NewRow
<1>7. inviter[u] \in Users \cup {None} /\ now \in 0 .. MaxNow
  BY <1>1 DEF TypeOK
<1>8. o \in Order /\ o.cstatus = 0 /\ o.status = "pending" /\ o.commission = c
  BY <1>1, <1>4, <1>5, <1>7, NewRowType
<1>9. PaidBy(logs[i]) = 0
  <2>1. orders[i].status = "absent"
    BY <1>2 DEF NewOrder, OrderIds
  <2>2. OrderPaid(orders[i], logs[i])
    BY DEF RowsPaid
  <2> QED BY <2>1, <2>2 DEF OrderPaid
<1>10. OrderPaid(o, logs[i])
  BY <1>1, <1>4, <1>8, <1>9 DEF OrderPaid, Money
<1>11. logs' = logs /\ orders \in [OrderIds -> Order]
  BY DEF CreateOrder, TypeOK
<1> QED BY <1>6, <1>8, <1>10, <1>11, OneOrder

LEMMA CancelOrderPaid ==
  ASSUME TypeOK, RowsPaid, NEW i \in OrderIds, CancelOrder(i)
  PROVE  orders' \in [OrderIds -> Order] /\ RowsPaid'
<1>1. PICK o \in Order : o = WithStatus(orders[i], "cancelled") /\ o.commission = orders[i].commission
        /\ o.cstatus = orders[i].cstatus /\ o.actual = orders[i].actual /\ o.status = "cancelled"
  BY StatusSet DEF TypeOK, Statuses
<1>2. orders' = [orders EXCEPT ![i] = o] /\ logs' = logs
  BY <1>1 DEF CancelOrder, WithStatus, TypeOK
<1>3. OrderPaid(o, logs[i])
  BY <1>1 DEF OrderPaid, RowsPaid
<1>4. orders \in [OrderIds -> Order]
  BY DEF TypeOK
<1> QED BY <1>2, <1>3, <1>4, OneOrder

LEMMA CompleteOrderPaid ==
  ASSUME TypeOK, RowsPaid, NEW i \in OrderIds, CompleteOrder(i)
  PROVE  orders' \in [OrderIds -> Order] /\ RowsPaid'
<1>1. PICK S : orders' = [j \in OrderIds |->
                    IF j = i THEN [orders[j] EXCEPT !.status = "completed", !.updated = now]
                    ELSE IF j \in S THEN [orders[j] EXCEPT !.status = "discounted", !.updated = now]
                    ELSE orders[j]]
  BY DEF CompleteOrder
<1>2. logs' = logs
  BY DEF CompleteOrder
<1>3. ASSUME NEW j \in OrderIds PROVE orders'[j] \in Order /\ OrderPaid(orders'[j], logs[j])
  <2>1. orders[j] \in Order /\ OrderPaid(orders[j], logs[j]) /\ now \in 0 .. MaxNow
    BY DEF TypeOK, RowsPaid
  <2>2. \/ orders'[j] = WithStatus(orders[j], "completed")
        \/ orders'[j] = WithStatus(orders[j], "discounted")
        \/ orders'[j] = orders[j]
    BY <1>1 DEF WithStatus
  <2>3. ASSUME NEW s \in {"completed", "discounted"}, orders'[j] = WithStatus(orders[j], s)
        PROVE  orders'[j] \in Order /\ OrderPaid(orders'[j], logs[j])
    <3>1. PICK o \in Order : o = WithStatus(orders[j], s) /\ o.commission = orders[j].commission
            /\ o.cstatus = orders[j].cstatus /\ o.actual = orders[j].actual /\ o.status = s
      BY <2>1, StatusSet DEF Statuses
    <3> QED BY <2>1, <2>3, <3>1 DEF OrderPaid
  <2> QED BY <2>1, <2>2, <2>3
<1>4. orders' = [j \in OrderIds |-> orders'[j]]
  BY <1>1
<1>5. orders' \in [OrderIds -> Order]
  BY <1>3, <1>4
<1> QED BY <1>2, <1>3, <1>5 DEF RowsPaid

LEMMA AdminCommissionPaid ==
  ASSUME TypeOK, RowsPaid, NEW i \in OrderIds, NEW next \in 0 .. 3, UpdateAdminOrderCommissionStatus(i, next)
  PROVE  orders' \in [OrderIds -> Order] /\ RowsPaid'
<1>1. PICK o \in Order : o = WithCommission(orders[i], next) /\ o.commission = orders[i].commission
        /\ o.cstatus = next /\ o.status = orders[i].status
  BY CommissionSet DEF TypeOK
<1>2. orders' = [orders EXCEPT ![i] = o] /\ logs' = logs
  BY <1>1 DEF UpdateAdminOrderCommissionStatus, WithCommission, TypeOK
<1>3. next # 2 /\ orders[i].cstatus # 2
  BY DEF UpdateAdminOrderCommissionStatus, OpenToAdmin
<1>4. OrderPaid(o, logs[i])
  BY <1>1, <1>3 DEF OrderPaid, RowsPaid
<1>5. orders \in [OrderIds -> Order]
  BY DEF TypeOK
<1> QED BY <1>2, <1>4, <1>5, OneOrder

\* The actions that leave orders and logs alone.
Elsewhere ==
  \/ \E u \in Edited : LoadUserForm(u)
  \/ \E u \in Holders, a \in Transfers : TransferCommission(u, a)
  \/ \E u \in Edited, save \in Saves : UpdateAdminUser(u, save.commission, save.inviter)
  \/ \E p \in Policies : UpdateCommissionSettings(p)
  \/ \E u \in Holders, key \in RequestKeys, target \in Targets : CreateWithdrawal(u, key, target)
  \/ \E w \in WithdrawalIds : ApproveWithdrawal(w) \/ RejectWithdrawal(w)
  \/ \E w \in WithdrawalIds, receipt \in Receipts : PayWithdrawal(w, receipt)
  \/ \E u \in Users : CloseTicket(u)
  \/ Tick
  \/ UNCHANGED vars

LEMMA ElsewhereOrders ==
  ASSUME Elsewhere PROVE UNCHANGED <<orders, logs>>
BY DEF Elsewhere, LoadUserForm, TransferCommission, UpdateAdminUser, UpdateCommissionSettings,
       CreateWithdrawal, ApproveWithdrawal, RejectWithdrawal, PayWithdrawal, CloseTicket, Tick, vars

\* The steps by what they touch.
OrderSteps ==
  \/ \E u \in Buyers : CreateOrder(u)
  \/ \E i \in OrderIds : CancelOrder(i) \/ CompleteOrder(i)
  \/ \E i \in OrderIds, next \in 0 .. 3 : UpdateAdminOrderCommissionStatus(i, next)

LEMMA StepKinds ==
  ASSUME [Next]_vars PROVE OrderSteps \/ ProcessCommissions \/ Elsewhere
BY DEF Next, OrderSteps, Elsewhere

LEMMA OrdersStep ==
  ASSUME TypeOK, RowsPaid, [Next]_vars
  PROVE  orders' \in [OrderIds -> Order] /\ logs' \in [OrderIds -> LogType] /\ RowsPaid'
<1>0. orders \in [OrderIds -> Order] /\ logs \in [OrderIds -> LogType]
  BY DEF TypeOK, LogType
<1>1. CASE OrderSteps
  <2>1. logs' = logs
    BY <1>1 DEF OrderSteps, CreateOrder, CancelOrder, CompleteOrder, UpdateAdminOrderCommissionStatus
  <2>2. orders' \in [OrderIds -> Order] /\ RowsPaid'
    BY <1>1, CreateOrderPaid, CancelOrderPaid, CompleteOrderPaid, AdminCommissionPaid DEF OrderSteps
  <2> QED BY <1>0, <2>1, <2>2
<1>2. CASE ProcessCommissions
  <2>1. PICK b : GoodBatch(b) /\ orders' = b.orders /\ logs' = b.logs
    BY <1>2, BatchEffect
  <2> QED BY <2>1 DEF GoodBatch, RowsPaid
<1>3. CASE Elsewhere
  BY <1>0, <1>3, ElsewhereOrders DEF RowsPaid
<1> QED BY <1>1, <1>2, <1>3, StepKinds

\* A withdrawal gets another status.
Moved(x, s) == [x EXCEPT !.status = s, !.events = @ \cup {s}]
Paid(x, r) == [x EXCEPT !.status = "paid", !.receipt = r, !.events = @ \cup {"paid"}]

LEMMA MovedType ==
  ASSUME NEW x \in Withdrawal, NEW s \in WStatuses
  PROVE  /\ Moved(x, s) \in Withdrawal /\ Moved(x, s).status = s /\ Moved(x, s).events = x.events \cup {s}
         /\ Moved(x, s).user = x.user /\ Moved(x, s).amount = x.amount /\ Moved(x, s).key = x.key
         /\ Moved(x, s).target = x.target /\ Moved(x, s).receipt = x.receipt
<1>1. Moved(x, s) = [x EXCEPT !.status = s, !.events = x.events \cup {s}]
  BY DEF Moved, Withdrawal
<1>2. /\ x.user \in Users \cup {None} /\ x.amount \in Money /\ x.status \in WStatuses \cup {"absent"}
      /\ x.key \in RequestKeys /\ x.target \in Targets \cup {None} /\ x.receipt \in Receipts \cup {None}
      /\ x.events \in SUBSET WStatuses
  BY DEF Withdrawal
<1>3. Moved(x, s) = [user |-> x.user, amount |-> x.amount, status |-> s, key |-> x.key,
                     target |-> x.target, receipt |-> x.receipt, events |-> x.events \cup {s}]
  BY <1>1 DEF Withdrawal
<1>4. x.events \cup {s} \in SUBSET WStatuses
  BY <1>2
<1> QED BY <1>2, <1>3, <1>4 DEF Withdrawal

LEMMA PaidType ==
  ASSUME NEW x \in Withdrawal, NEW r \in Receipts
  PROVE  /\ Paid(x, r) \in Withdrawal /\ Paid(x, r).status = "paid" /\ Paid(x, r).events = x.events \cup {"paid"}
         /\ Paid(x, r).user = x.user /\ Paid(x, r).amount = x.amount /\ Paid(x, r).key = x.key
         /\ Paid(x, r).target = x.target /\ Paid(x, r).receipt = r
<1>1. Paid(x, r) = [x EXCEPT !.status = "paid", !.receipt = r, !.events = x.events \cup {"paid"}]
  BY DEF Paid, Withdrawal
<1>2. /\ x.user \in Users \cup {None} /\ x.amount \in Money /\ x.status \in WStatuses \cup {"absent"}
      /\ x.key \in RequestKeys /\ x.target \in Targets \cup {None} /\ x.receipt \in Receipts \cup {None}
      /\ x.events \in SUBSET WStatuses
  BY DEF Withdrawal
<1>3. Paid(x, r) = [user |-> x.user, amount |-> x.amount, status |-> "paid", key |-> x.key,
                    target |-> x.target, receipt |-> r, events |-> x.events \cup {"paid"}]
  BY <1>1 DEF Withdrawal
<1>4. x.events \cup {"paid"} \in SUBSET WStatuses
  BY <1>2 DEF WStatuses
<1> QED BY <1>2, <1>3, <1>4 DEF Withdrawal, WStatuses

\* One withdrawal changes and stays apart from the others.
LEMMA OneWithdrawal ==
  ASSUME withdrawals \in [WithdrawalIds -> Withdrawal], RowsGood, RowsApart,
         NEW w \in WithdrawalIds, NEW x \in Withdrawal, OneSet(withdrawals, w, x, withdrawals'),
         WithdrawalGood(x), \A v \in WithdrawalIds : v # w => Apart(x, withdrawals[v])
  PROVE  withdrawals' \in [WithdrawalIds -> Withdrawal] /\ RowsGood' /\ RowsApart'
<1>1. withdrawals'[w] = x /\ \A v \in WithdrawalIds : v # w => withdrawals'[v] = withdrawals[v]
  BY DEF OneSet
<1>2. withdrawals' \in [WithdrawalIds -> Withdrawal]
  BY DEF OneSet
<1>3. RowsGood'
  BY <1>1 DEF RowsGood
<1>4. ASSUME NEW a \in WithdrawalIds, NEW b \in WithdrawalIds, a # b PROVE Apart(withdrawals'[a], withdrawals'[b])
  <2>1. CASE a = w
    BY <1>1, <1>4, <2>1
  <2>2. CASE b = w
    BY <1>1, <1>4, <2>2, ApartSymmetric
  <2>3. CASE a # w /\ b # w
    BY <1>1, <1>4, <2>3 DEF RowsApart
  <2> QED BY <2>1, <2>2, <2>3
<1> QED BY <1>2, <1>3, <1>4 DEF RowsApart

\* What each step on withdrawals does to the row it is about.
LEMMA CreateWithdrawalEffect ==
  ASSUME TypeOK, RowsGood, RowsApart, NEW u \in Holders, NEW key \in RequestKeys, NEW target \in Targets,
         CreateWithdrawal(u, key, target)
  PROVE  /\ \E w \in WithdrawalIds, x \in Withdrawal :
              /\ OneSet(withdrawals, w, x, withdrawals')
              /\ withdrawals[w].status = "absent"
              /\ x.user = u /\ x.status = "pending" /\ x.amount = commission[u]
         /\ withdrawals' \in [WithdrawalIds -> Withdrawal] /\ RowsGood' /\ RowsApart'
<1>0. u \in Users
  BY CommissionConstants
<1>1. PICK w \in WithdrawalIds :
        /\ \A v \in WithdrawalIds : withdrawals[v].status # "absent" <=> v < w
        /\ withdrawals' = [withdrawals EXCEPT ![w] =
             [user |-> u, amount |-> commission[u], status |-> "pending", key |-> key,
              target |-> target, receipt |-> None, events |-> {"pending"}]]
  BY DEF CreateWithdrawal
<1>2. PICK x : x = [user |-> u, amount |-> commission[u], status |-> "pending", key |-> key,
                    target |-> target, receipt |-> None, events |-> {"pending"}]
  OBVIOUS
<1>3. x.user = u /\ x.status = "pending" /\ x.amount = commission[u] /\ x.key = key /\ x.events = {"pending"}
  BY <1>2
<1>4. x \in Withdrawal
  <2>1. commission[u] \in Money /\ {"pending"} \in SUBSET WStatuses /\ "pending" \in WStatuses
    BY <1>0 DEF TypeOK, WStatuses
  <2> QED BY <1>0, <1>2, <2>1 DEF Withdrawal
<1>5. OneSet(withdrawals, w, x, withdrawals') /\ withdrawals[w].status = "absent"
  BY <1>1, <1>2 DEF OneSet, WithdrawalIds
<1>6. WithdrawalGood(x)
  BY <1>0, <1>3 DEF WithdrawalGood
<1>7. ASSUME NEW v \in WithdrawalIds, v # w PROVE Apart(x, withdrawals[v])
  <2>1. v \notin Replay(u, key)
    BY DEF CreateWithdrawal
  <2>2. withdrawals[v].user = u => withdrawals[v].status \notin Open /\ ~(key # NoKey /\ withdrawals[v].key = key)
    BY <2>1 DEF Replay
  <2> QED BY <1>3, <2>2 DEF Apart
<1>8. withdrawals \in [WithdrawalIds -> Withdrawal]
  BY DEF TypeOK
<1>9. withdrawals' \in [WithdrawalIds -> Withdrawal] /\ RowsGood' /\ RowsApart'
  BY <1>4, <1>5, <1>6, <1>7, <1>8, OneWithdrawal
<1> QED BY <1>3, <1>4, <1>5, <1>9

LEMMA ApproveWithdrawalEffect ==
  ASSUME TypeOK, RowsGood, RowsApart, NEW w \in WithdrawalIds, ApproveWithdrawal(w)
  PROVE  /\ \E x \in Withdrawal :
              /\ OneSet(withdrawals, w, x, withdrawals') /\ x.user = withdrawals[w].user
              /\ x.status = "approved" /\ withdrawals[w].status = "pending" /\ x.amount = withdrawals[w].amount
         /\ withdrawals' \in [WithdrawalIds -> Withdrawal] /\ RowsGood' /\ RowsApart'
<1>1. PICK y \in Withdrawal : y = withdrawals[w]
  BY DEF TypeOK
<1>2. PICK x : x = Moved(y, "approved")
  OBVIOUS
<1>3. /\ x \in Withdrawal /\ x.status = "approved" /\ x.events = y.events \cup {"approved"} /\ x.user = y.user
      /\ x.amount = y.amount /\ x.key = y.key /\ x.target = y.target /\ x.receipt = y.receipt
  BY <1>2, MovedType DEF WStatuses
<1>4. OneSet(withdrawals, w, x, withdrawals') /\ y.status = "pending"
  BY <1>1, <1>2 DEF ApproveWithdrawal, OneSet, Moved, TypeOK
<1>5. WithdrawalGood(y) /\ \A v \in WithdrawalIds : v # w => Apart(y, withdrawals[v])
  BY <1>1 DEF RowsGood, RowsApart
<1>6. WithdrawalGood(x)
  BY <1>3, <1>4, <1>5 DEF WithdrawalGood
<1>7. \A v \in WithdrawalIds : v # w => Apart(x, withdrawals[v])
  BY <1>3, <1>4, <1>5 DEF Apart, Open
<1>8. withdrawals \in [WithdrawalIds -> Withdrawal]
  BY DEF TypeOK
<1>9. withdrawals' \in [WithdrawalIds -> Withdrawal] /\ RowsGood' /\ RowsApart'
  BY <1>3, <1>4, <1>6, <1>7, <1>8, OneWithdrawal
<1> QED BY <1>1, <1>3, <1>4, <1>9

LEMMA RejectWithdrawalEffect ==
  ASSUME TypeOK, RowsGood, RowsApart, NEW w \in WithdrawalIds, RejectWithdrawal(w)
  PROVE  /\ \E x \in Withdrawal :
              /\ OneSet(withdrawals, w, x, withdrawals') /\ x.user = withdrawals[w].user
              /\ x.status = "rejected" /\ withdrawals[w].status \in Open /\ withdrawals[w].user \in Users
         /\ withdrawals' \in [WithdrawalIds -> Withdrawal] /\ RowsGood' /\ RowsApart'
<1>1. PICK y \in Withdrawal : y = withdrawals[w]
  BY DEF TypeOK
<1>2. PICK x : x = Moved(y, "rejected")
  OBVIOUS
<1>3. /\ x \in Withdrawal /\ x.status = "rejected" /\ x.events = y.events \cup {"rejected"} /\ x.user = y.user
      /\ x.amount = y.amount /\ x.key = y.key /\ x.target = y.target /\ x.receipt = y.receipt
  BY <1>2, MovedType DEF WStatuses
<1>4. OneSet(withdrawals, w, x, withdrawals') /\ y.status \in Open
  BY <1>1, <1>2 DEF RejectWithdrawal, Rejectable, OneSet, Moved, TypeOK, Open
<1>5. WithdrawalGood(y) /\ \A v \in WithdrawalIds : v # w => Apart(y, withdrawals[v])
  BY <1>1 DEF RowsGood, RowsApart
<1>6. WithdrawalGood(x) /\ y.user \in Users
  BY <1>3, <1>4, <1>5 DEF WithdrawalGood, Open
<1>7. \A v \in WithdrawalIds : v # w => Apart(x, withdrawals[v])
  BY <1>3, <1>4, <1>5 DEF Apart, Open
<1>8. withdrawals \in [WithdrawalIds -> Withdrawal]
  BY DEF TypeOK
<1>9. withdrawals' \in [WithdrawalIds -> Withdrawal] /\ RowsGood' /\ RowsApart'
  BY <1>3, <1>4, <1>6, <1>7, <1>8, OneWithdrawal
<1> QED BY <1>1, <1>3, <1>4, <1>6, <1>9

LEMMA PayWithdrawalEffect ==
  ASSUME TypeOK, RowsGood, RowsApart, NEW w \in WithdrawalIds, NEW r \in Receipts, PayWithdrawal(w, r)
  PROVE  /\ \E x \in Withdrawal :
              /\ OneSet(withdrawals, w, x, withdrawals') /\ x.user = withdrawals[w].user
              /\ x.status = "paid" /\ withdrawals[w].status = "approved" /\ x.amount = withdrawals[w].amount
         /\ withdrawals' \in [WithdrawalIds -> Withdrawal] /\ RowsGood' /\ RowsApart'
<1>1. PICK y \in Withdrawal : y = withdrawals[w]
  BY DEF TypeOK
<1>2. PICK x : x = Paid(y, r)
  OBVIOUS
<1>3. /\ x \in Withdrawal /\ x.status = "paid" /\ x.events = y.events \cup {"paid"} /\ x.user = y.user
      /\ x.amount = y.amount /\ x.key = y.key /\ x.target = y.target /\ x.receipt = r
  BY <1>2, PaidType
<1>4. OneSet(withdrawals, w, x, withdrawals') /\ y.status = "approved"
  BY <1>1, <1>2 DEF PayWithdrawal, OneSet, Paid, TypeOK
<1>5. WithdrawalGood(y) /\ \A v \in WithdrawalIds : v # w => Apart(y, withdrawals[v])
  BY <1>1 DEF RowsGood, RowsApart
<1>6. WithdrawalGood(x)
  BY <1>3, <1>4, <1>5 DEF WithdrawalGood
<1>7. ASSUME NEW v \in WithdrawalIds, v # w PROVE Apart(x, withdrawals[v])
  <2>1. withdrawals[v].status = "paid" /\ withdrawals[v].receipt = r
          => MethodOf[withdrawals[v].target] # MethodOf[y.target]
    BY <1>1 DEF PayWithdrawal, ReceiptUsed
  <2> QED BY <1>3, <1>4, <1>5, <1>7, <2>1 DEF Apart, Open
<1>8. withdrawals \in [WithdrawalIds -> Withdrawal]
  BY DEF TypeOK
<1>9. withdrawals' \in [WithdrawalIds -> Withdrawal] /\ RowsGood' /\ RowsApart'
  BY <1>3, <1>4, <1>6, <1>7, <1>8, OneWithdrawal
<1> QED BY <1>1, <1>3, <1>4, <1>9

-----------------------------------------------------------------------------
(* Accounts *)

\* The terms of a balance are integers.
LEMMA BalanceTypes ==
  ASSUME TypeOK, NEW u \in Users
  PROVE  /\ commission[u] \in Int /\ wallet[u] \in Int /\ given[u] \in Int /\ moved[u] \in Int
         /\ PaidTo(logs, u, "commission_balance") \in Int /\ PaidTo(logs, u, "balance") \in Int
         /\ FrozenIn(withdrawals, u) \in Int
<1>1. commission[u] \in Int /\ wallet[u] \in Int /\ given[u] \in Int /\ moved[u] \in Int
  BY CommissionConstants DEF TypeOK, Money
<1>2. logs \in [OrderIds -> LogType] /\ withdrawals \in [WithdrawalIds -> Withdrawal]
  BY DEF TypeOK, LogType
<1>3. PaidTo(logs, u, "commission_balance") \in Int /\ PaidTo(logs, u, "balance") \in Int
  BY <1>2, PaidToInt DEF Columns
<1> QED BY <1>1, <1>2, <1>3, FrozenRows

\* One user's withdrawal x replaces y, for a withdrawal of the same user or of nobody.
LEMMA HeldBy ==
  ASSUME TypeOK, NEW w \in WithdrawalIds, NEW x \in Withdrawal, OneSet(withdrawals, w, x, withdrawals'),
         NEW u \in Users
  PROVE  /\ FrozenIn(withdrawals', u) = FrozenIn(withdrawals, u) - Held(withdrawals[w], u) + Held(x, u)
         /\ Held(withdrawals[w], u) \in Int /\ Held(x, u) \in Int
<1>0. PICK T \in [WithdrawalIds -> Withdrawal] : T = withdrawals
  BY DEF TypeOK
<1>1. PICK S : T = withdrawals /\ S = withdrawals' /\ OneSet(T, w, x, S)
  BY <1>0
<1>2. FrozenIn(S, u) = FrozenIn(T, u) - Held(T[w], u) + Held(x, u)
  BY <1>1, FrozenChanged
<1>3. Held(T[w], u) \in Int /\ Held(x, u) \in Int
  BY HeldType
<1> QED BY <1>1, <1>2, <1>3

LEMMA BalancedBatch ==
  ASSUME TypeOK, RowsPaid, Balanced, ProcessCommissions
  PROVE  Balanced' /\ wallet' \in [Users -> Money] /\ commission' \in [Users -> Money]
<1>1. PICK b : /\ GoodBatch(b) /\ logs' = b.logs
               /\ wallet' = (IF policy.closed THEN b.accounts ELSE wallet)
               /\ commission' = (IF policy.closed THEN commission ELSE b.accounts)
  BY BatchEffect
<1>2. wallet' \in [Users -> Money] /\ commission' \in [Users -> Money]
  BY <1>1 DEF GoodBatch, TypeOK
<1>3. UNCHANGED <<given, moved, withdrawals>>
  BY DEF ProcessCommissions
<1>4. ASSUME NEW u \in Users
      PROVE  Balance(u, commission'[u], wallet'[u], given[u], moved[u], b.logs, withdrawals)
  <2>1. /\ commission[u] \in Int /\ wallet[u] \in Int /\ given[u] \in Int /\ moved[u] \in Int
        /\ PaidTo(logs, u, "commission_balance") \in Int /\ PaidTo(logs, u, "balance") \in Int
        /\ FrozenIn(withdrawals, u) \in Int
    BY BalanceTypes
  <2>2. b.accounts[u] \in Int
    BY <1>1, CommissionConstants DEF GoodBatch, Money
  <2>3. PaidTo(b.logs, u, "commission_balance") \in Int /\ PaidTo(b.logs, u, "balance") \in Int
    <3>1. b.logs \in [OrderIds -> LogType] /\ "commission_balance" \in Columns /\ "balance" \in Columns
      BY <1>1 DEF GoodBatch, Columns
    <3> QED BY <3>1, PaidToInt
  <2>4. Balance(u, commission[u], wallet[u], given[u], moved[u], logs, withdrawals)
    BY DEF Balanced
  <2>5. b.accounts[u] - PaidTo(b.logs, u, Column) = Accounts[u] - PaidTo(logs, u, Column)
    BY <1>1 DEF GoodBatch
  <2>6. \A c \in Columns \ {Column} : PaidTo(b.logs, u, c) = PaidTo(logs, u, c)
    BY <1>1 DEF GoodBatch
  <2>7. CASE policy.closed
    <3>1. Column = "balance" /\ Accounts = wallet /\ "commission_balance" \in Columns \ {Column}
      BY <2>7 DEF Column, Accounts, Columns
    <3>2. wallet'[u] = b.accounts[u] /\ commission'[u] = commission[u]
      BY <1>1, <2>7
    <3> QED BY <2>1, <2>2, <2>3, <2>4, <2>5, <2>6, <3>1, <3>2 DEF Balance
  <2>8. CASE ~policy.closed
    <3>1. Column = "commission_balance" /\ Accounts = commission /\ "balance" \in Columns \ {Column}
      BY <2>8 DEF Column, Accounts, Columns
    <3>2. wallet'[u] = wallet[u] /\ commission'[u] = b.accounts[u]
      BY <1>1, <2>8
    <3> QED BY <2>1, <2>2, <2>3, <2>4, <2>5, <2>6, <3>1, <3>2 DEF Balance
  <2> QED BY <2>7, <2>8
<1> QED BY <1>1, <1>2, <1>3, <1>4 DEF Balanced

LEMMA BalancedTransfer ==
  ASSUME TypeOK, Balanced, NEW u \in Holders, NEW a \in Transfers, TransferCommission(u, a)
  PROVE  Balanced' /\ wallet' \in [Users -> Money] /\ commission' \in [Users -> Money] /\ moved' \in [Users -> Nat]
<1>1. u \in Users /\ a \in Nat \ {0} /\ MaxMoney \in Nat
  BY CommissionConstants
<1>2. /\ commission' = [commission EXCEPT ![u] = commission[u] - a]
      /\ wallet' = [wallet EXCEPT ![u] = wallet[u] + a]
      /\ moved' = [moved EXCEPT ![u] = moved[u] + a]
      /\ commission[u] >= a /\ wallet[u] + a <= MaxMoney
      /\ UNCHANGED <<given, logs, withdrawals>>
  BY DEF TransferCommission
<1>3. commission \in [Users -> Money] /\ wallet \in [Users -> Money] /\ moved \in [Users -> Nat]
  BY DEF TypeOK
<1>4. commission[u] - a \in Money /\ wallet[u] + a \in Money /\ moved[u] + a \in Nat
  BY <1>1, <1>2, <1>3 DEF Money
<1>5. ASSUME NEW v \in Users
      PROVE  Balance(v, commission'[v], wallet'[v], given[v], moved'[v], logs, withdrawals)
  <2>1. Balance(v, commission[v], wallet[v], given[v], moved[v], logs, withdrawals)
    BY DEF Balanced
  <2>2. CASE v # u
    BY <1>2, <1>3, <2>1, <2>2
  <2>3. CASE v = u
    <3>1. commission'[v] = commission[v] - a /\ wallet'[v] = wallet[v] + a /\ moved'[v] = moved[v] + a
      BY <1>2, <1>3, <2>3
    <3> QED BY <1>1, <2>1, <3>1, BalanceTypes DEF Balance
  <2> QED BY <2>2, <2>3
<1> QED BY <1>1, <1>2, <1>3, <1>4, <1>5 DEF Balanced

LEMMA BalancedSave ==
  ASSUME TypeOK, Balanced, NEW u \in Edited, NEW save \in Saves, UpdateAdminUser(u, save.commission, save.inviter)
  PROVE  Balanced' /\ commission' \in [Users -> Money] /\ given' \in [Users -> Int]
<1>1. u \in Users /\ save.commission \in Money
  BY CommissionConstants DEF Money
<1>2. PICK value \in Money : value = save.commission
  BY <1>1
<1>3. /\ commission' = [commission EXCEPT ![u] = value]
      /\ given' = [given EXCEPT ![u] = given[u] + value - commission[u]]
      /\ UNCHANGED <<wallet, moved, logs, withdrawals>>
  BY <1>2 DEF UpdateAdminUser
<1>4. commission \in [Users -> Money] /\ given \in [Users -> Int] /\ value \in Int
  BY CommissionConstants DEF TypeOK, Money
<1>5. commission[u] \in Int
  BY <1>1, BalanceTypes
<1>6. ASSUME NEW v \in Users
      PROVE  Balance(v, commission'[v], wallet[v], given'[v], moved[v], logs, withdrawals)
  <2>1. Balance(v, commission[v], wallet[v], given[v], moved[v], logs, withdrawals)
    BY DEF Balanced
  <2>2. CASE v # u
    BY <1>3, <1>4, <2>1, <2>2
  <2>3. CASE v = u
    <3>1. commission'[v] = value /\ given'[v] = given[v] + value - commission[v]
      BY <1>3, <1>4, <2>3
    <3> QED BY <1>4, <2>1, <3>1, BalanceTypes DEF Balance
  <2> QED BY <2>2, <2>3
<1>7. given' \in [Users -> Int]
  <2>1. given[u] + value - commission[u] \in Int
    BY <1>1, <1>4, <1>5
  <2> QED BY <1>3, <1>4, <2>1
<1> QED BY <1>3, <1>4, <1>6, <1>7 DEF Balanced

LEMMA BalancedCreate ==
  ASSUME TypeOK, RowsGood, RowsApart, Balanced, NEW u \in Holders, NEW key \in RequestKeys, NEW target \in Targets,
         CreateWithdrawal(u, key, target)
  PROVE  Balanced' /\ commission' \in [Users -> Money]
<1>1. PICK w \in WithdrawalIds, x \in Withdrawal :
        /\ OneSet(withdrawals, w, x, withdrawals') /\ withdrawals[w].status = "absent"
        /\ x.user = u /\ x.status = "pending" /\ x.amount = commission[u]
  BY CreateWithdrawalEffect
<1>2. u \in Users /\ 0 \in Money
  BY CommissionConstants DEF Money
<1>3. /\ commission' = [commission EXCEPT ![u] = 0] /\ commission \in [Users -> Money]
      /\ UNCHANGED <<wallet, given, moved, logs>>
  BY DEF CreateWithdrawal, TypeOK
<1>4. ASSUME NEW v \in Users
      PROVE  Balance(v, commission'[v], wallet[v], given[v], moved[v], logs, withdrawals')
  <2>1. Balance(v, commission[v], wallet[v], given[v], moved[v], logs, withdrawals)
    BY DEF Balanced
  <2>2. FrozenIn(withdrawals', v) = FrozenIn(withdrawals, v) - Held(withdrawals[w], v) + Held(x, v)
    BY <1>1, HeldBy
  <2>3. Held(withdrawals[w], v) = 0
    BY <1>1 DEF Held, Frozen
  <2>4. Held(x, v) = IF v = u THEN commission[u] ELSE 0
    BY <1>1 DEF Held, Frozen
  <2>5. commission'[v] = IF v = u THEN 0 ELSE commission[v]
    BY <1>3
  <2> QED BY <2>1, <2>2, <2>3, <2>4, <2>5, BalanceTypes DEF Balance
<1> QED BY <1>2, <1>3, <1>4 DEF Balanced

\* Approving and paying leave the amount frozen.
LEMMA BalancedFrozen ==
  ASSUME TypeOK, Balanced, UNCHANGED <<commission, wallet, given, moved, logs>>,
         NEW w \in WithdrawalIds, NEW x \in Withdrawal, OneSet(withdrawals, w, x, withdrawals'),
         x.user = withdrawals[w].user, x.amount = withdrawals[w].amount,
         x.status \in Frozen, withdrawals[w].status \in Frozen
  PROVE  Balanced'
<1>1. ASSUME NEW v \in Users
      PROVE  Balance(v, commission[v], wallet[v], given[v], moved[v], logs, withdrawals')
  <2>1. Balance(v, commission[v], wallet[v], given[v], moved[v], logs, withdrawals)
    BY DEF Balanced
  <2>2. /\ FrozenIn(withdrawals', v) = FrozenIn(withdrawals, v) - Held(withdrawals[w], v) + Held(x, v)
        /\ Held(withdrawals[w], v) \in Int
    BY HeldBy
  <2>3. Held(x, v) = Held(withdrawals[w], v)
    BY DEF Held
  <2> QED BY <2>1, <2>2, <2>3, BalanceTypes DEF Balance
<1> QED BY <1>1 DEF Balanced

LEMMA BalancedReject ==
  ASSUME TypeOK, RowsGood, RowsApart, Balanced, NEW w \in WithdrawalIds, RejectWithdrawal(w)
  PROVE  Balanced' /\ commission' \in [Users -> Money]
<1>1. PICK x \in Withdrawal :
        /\ OneSet(withdrawals, w, x, withdrawals') /\ x.user = withdrawals[w].user
        /\ x.status = "rejected" /\ withdrawals[w].status \in Open /\ withdrawals[w].user \in Users
  BY RejectWithdrawalEffect
<1>0. PICK u \in Users : u = withdrawals[w].user
  BY <1>1
<1>2. PICK a : u = withdrawals[w].user /\ a = withdrawals[w].amount
  BY <1>0
<1>3. a \in Money /\ MaxMoney \in Nat /\ a \in Int
  BY <1>2, CommissionConstants DEF TypeOK, Withdrawal, Money
<1>4. /\ commission' = [commission EXCEPT ![u] = commission[u] + a] /\ commission[u] + a <= MaxMoney
      /\ commission \in [Users -> Money]
      /\ UNCHANGED <<wallet, given, moved, logs>>
  BY <1>2 DEF RejectWithdrawal, TypeOK
<1>5. commission[u] + a \in Money
  BY <1>3, <1>4 DEF Money
<1>6. ASSUME NEW v \in Users
      PROVE  Balance(v, commission'[v], wallet[v], given[v], moved[v], logs, withdrawals')
  <2>1. Balance(v, commission[v], wallet[v], given[v], moved[v], logs, withdrawals)
    BY DEF Balanced
  <2>2. FrozenIn(withdrawals', v) = FrozenIn(withdrawals, v) - Held(withdrawals[w], v) + Held(x, v)
    BY <1>1, HeldBy
  <2>3. Held(withdrawals[w], v) = IF v = u THEN a ELSE 0
    BY <1>1, <1>2 DEF Held, Frozen, Open
  <2>4. Held(x, v) = 0
    BY <1>1 DEF Held, Frozen
  <2>5. commission'[v] = IF v = u THEN commission[v] + a ELSE commission[v]
    BY <1>4
  <2> QED BY <1>3, <2>1, <2>2, <2>3, <2>4, <2>5, BalanceTypes DEF Balance
<1> QED BY <1>4, <1>5, <1>6 DEF Balanced

-----------------------------------------------------------------------------
(* Steps *)

LEMMA OrderStepsKeep ==
  ASSUME CommissionInv, OrderSteps, orders' \in [OrderIds -> Order], logs' \in [OrderIds -> LogType], RowsPaid'
  PROVE  CommissionInv'
<1>1. /\ UNCHANGED <<now, policy, inviter, wallet, commission, logs, withdrawals, tickets, loads, given, moved>>
      /\ form' = form \/ \E U : form' = Touched(U)
  BY DEF OrderSteps, CreateOrder, CancelOrder, CompleteOrder, UpdateAdminOrderCommissionStatus
<1>2. /\ form' \in [Users -> Form]
      /\ \A u \in Users : form'[u].open /\ form'[u].fresh => form'[u] = form[u]
  BY <1>1, TouchedForms DEF CommissionInv, TypeOK
<1>3. TypeOK'
  BY <1>1, <1>2 DEF CommissionInv, TypeOK, LogType
<1>4. Balanced' /\ RowsGood' /\ RowsApart'
  BY <1>1 DEF CommissionInv, Balanced, RowsGood, RowsApart
<1>5. FormsCurrent'
  BY <1>1, <1>2 DEF CommissionInv, FormsCurrent
<1> QED BY <1>3, <1>4, <1>5 DEF CommissionInv

LEMMA BatchKeeps ==
  ASSUME CommissionInv, ProcessCommissions, orders' \in [OrderIds -> Order], logs' \in [OrderIds -> LogType], RowsPaid'
  PROVE  CommissionInv'
<1>0. TypeOK /\ RowsPaid /\ Balanced
  BY DEF CommissionInv
<1>1. UNCHANGED <<now, policy, inviter, withdrawals, tickets, loads, given, moved>>
  BY DEF ProcessCommissions
<1>2. Balanced' /\ wallet' \in [Users -> Money] /\ commission' \in [Users -> Money]
  BY <1>0, BalancedBatch
<1>3. PICK b : /\ commission' = (IF policy.closed THEN commission ELSE b.accounts)
               /\ form' = Touched({u \in Users : b.accounts[u] # Accounts[u]})
  BY <1>0, BatchEffect
<1>4. PICK U : U = {u \in Users : b.accounts[u] # Accounts[u]}
  OBVIOUS
<1>5. /\ form' \in [Users -> Form]
      /\ \A u \in Users : form'[u].open /\ form'[u].fresh => u \notin U /\ form'[u] = form[u]
  BY <1>0, <1>3, <1>4, TouchedForms DEF TypeOK
<1>6. \A u \in Users : u \notin U => commission'[u] = commission[u]
  <2>1. CASE policy.closed
    BY <1>3, <2>1
  <2>2. CASE ~policy.closed
    <3>1. commission' = b.accounts /\ Accounts = commission
      BY <1>3, <2>2 DEF Accounts
    <3> QED BY <1>4, <3>1
  <2> QED BY <2>1, <2>2
<1>7. TypeOK'
  BY <1>0, <1>1, <1>2, <1>5 DEF TypeOK, LogType
<1>8. RowsGood' /\ RowsApart'
  BY <1>1 DEF CommissionInv, RowsGood, RowsApart
<1>9. FormsCurrent'
  BY <1>5, <1>6 DEF CommissionInv, FormsCurrent
<1> QED BY <1>2, <1>7, <1>8, <1>9 DEF CommissionInv

\* The form shows the account: what a step does to forms and accounts.
LEMMA FormsKept ==
  ASSUME TypeOK, FormsCurrent, NEW U, form' = Touched(U),
         \A v \in Users : v \notin U => commission'[v] = commission[v]
  PROVE  FormsCurrent' /\ form' \in [Users -> Form]
<1>1. /\ form' \in [Users -> Form]
      /\ \A u \in Users : form'[u].open /\ form'[u].fresh => u \notin U /\ form'[u] = form[u]
  BY TouchedForms DEF TypeOK
<1> QED BY <1>1 DEF FormsCurrent

LEMMA ElsewhereKeeps ==
  ASSUME CommissionInv, Elsewhere
  PROVE  CommissionInv'
<1>0. TypeOK /\ RowsPaid /\ Balanced /\ RowsGood /\ RowsApart /\ FormsCurrent
  BY DEF CommissionInv
<1>1. orders' = orders /\ logs' = logs /\ RowsPaid'
  BY <1>0, ElsewhereOrders DEF RowsPaid
<1>2. ASSUME NEW u \in Edited, LoadUserForm(u) PROVE CommissionInv'
  <2>1. u \in Users
    BY CommissionConstants
  <2>2. UNCHANGED <<now, policy, inviter, wallet, commission, withdrawals, tickets, given, moved>>
    BY <1>2 DEF LoadUserForm
  <2>3. PICK f : f = [open |-> TRUE, fresh |-> TRUE, commission |-> commission[u]]
    OBVIOUS
  <2>4. f \in Form /\ f.commission = commission[u] /\ form' = [form EXCEPT ![u] = f] /\ form \in [Users -> Form]
    BY <1>0, <1>2, <2>1, <2>3 DEF LoadUserForm, TypeOK, Form
  <2>5. loads' \in 0 .. MaxForms
    BY <1>0, <1>2, CommissionConstants DEF LoadUserForm, TypeOK
  <2>6. TypeOK'
    <3>1. form' \in [Users -> Form]
      BY <2>4
    <3> QED BY <1>0, <1>1, <2>2, <2>5, <3>1 DEF TypeOK
  <2>7. FormsCurrent'
    BY <1>0, <2>2, <2>4 DEF FormsCurrent
  <2>8. Balanced' /\ RowsGood' /\ RowsApart'
    BY <1>0, <1>1, <2>2 DEF Balanced, RowsGood, RowsApart
  <2> QED BY <1>1, <2>6, <2>7, <2>8 DEF CommissionInv
<1>3. ASSUME NEW u \in Holders, NEW a \in Transfers, TransferCommission(u, a) PROVE CommissionInv'
  <2>1. UNCHANGED <<now, policy, inviter, withdrawals, tickets, loads, given>>
    BY <1>3 DEF TransferCommission
  <2>2. Balanced' /\ wallet' \in [Users -> Money] /\ commission' \in [Users -> Money] /\ moved' \in [Users -> Nat]
    BY <1>0, <1>3, BalancedTransfer
  <2>3. form' = Touched({u}) /\ \A v \in Users : v \notin {u} => commission'[v] = commission[v]
    BY <1>0, <1>3 DEF TransferCommission, TypeOK
  <2>4. FormsCurrent' /\ form' \in [Users -> Form]
    BY <1>0, <2>3, FormsKept
  <2>5. TypeOK' /\ RowsGood' /\ RowsApart'
    BY <1>0, <1>1, <2>1, <2>2, <2>4 DEF TypeOK, RowsGood, RowsApart
  <2> QED BY <1>1, <2>2, <2>4, <2>5 DEF CommissionInv
<1>4. ASSUME NEW u \in Edited, NEW save \in Saves, UpdateAdminUser(u, save.commission, save.inviter)
      PROVE  CommissionInv'
  <2>1. UNCHANGED <<now, policy, wallet, withdrawals, tickets, loads, moved>>
    BY <1>4 DEF UpdateAdminUser
  <2>2. Balanced' /\ commission' \in [Users -> Money] /\ given' \in [Users -> Int]
    BY <1>0, <1>4, BalancedSave
  <2>3. save.inviter \in Users \cup {None}
    BY CommissionConstants
  <2>4. inviter' \in [Users -> Users \cup {None}]
    BY <1>0, <1>4, <2>3 DEF UpdateAdminUser, TypeOK
  <2>5. form' = [form EXCEPT ![u] = NoForm] /\ form \in [Users -> Form]
        /\ \A v \in Users : v # u => commission'[v] = commission[v]
    BY <1>0, <1>4 DEF UpdateAdminUser, TypeOK
  <2>6. form' \in [Users -> Form] /\ FormsCurrent'
    BY <1>0, <2>5, NewRows DEF FormsCurrent
  <2>7. TypeOK' /\ RowsGood' /\ RowsApart'
    BY <1>0, <1>1, <2>1, <2>2, <2>4, <2>6 DEF TypeOK, RowsGood, RowsApart
  <2> QED BY <1>1, <2>2, <2>6, <2>7 DEF CommissionInv
<1>5. ASSUME NEW u \in Holders, NEW key \in RequestKeys, NEW target \in Targets, CreateWithdrawal(u, key, target)
      PROVE  CommissionInv'
  <2>1. UNCHANGED <<now, policy, inviter, wallet, loads, given, moved>> /\ tickets' = tickets \cup {u} /\ u \in Users
    BY <1>5, CommissionConstants DEF CreateWithdrawal
  <2>2. Balanced' /\ commission' \in [Users -> Money]
    BY <1>0, <1>5, BalancedCreate
  <2>3. withdrawals' \in [WithdrawalIds -> Withdrawal] /\ RowsGood' /\ RowsApart'
    BY <1>0, <1>5, CreateWithdrawalEffect
  <2>4. form' = Touched({u}) /\ \A v \in Users : v \notin {u} => commission'[v] = commission[v]
    BY <1>0, <1>5 DEF CreateWithdrawal, TypeOK
  <2>5. FormsCurrent' /\ form' \in [Users -> Form]
    BY <1>0, <2>4, FormsKept
  <2>6. TypeOK'
    BY <1>0, <1>1, <2>1, <2>2, <2>3, <2>5 DEF TypeOK
  <2> QED BY <1>1, <2>2, <2>3, <2>5, <2>6 DEF CommissionInv
<1>6. ASSUME NEW w \in WithdrawalIds, ApproveWithdrawal(w) PROVE CommissionInv'
  <2>1. UNCHANGED <<now, policy, inviter, wallet, commission, form, tickets, loads, given, moved>>
    BY <1>6 DEF ApproveWithdrawal
  <2>2. /\ \E x \in Withdrawal :
             /\ OneSet(withdrawals, w, x, withdrawals') /\ x.user = withdrawals[w].user
             /\ x.status = "approved" /\ withdrawals[w].status = "pending" /\ x.amount = withdrawals[w].amount
        /\ withdrawals' \in [WithdrawalIds -> Withdrawal] /\ RowsGood' /\ RowsApart'
    BY <1>0, <1>6, ApproveWithdrawalEffect
  <2>3. Balanced'
    BY <1>0, <1>1, <2>1, <2>2, BalancedFrozen DEF Frozen
  <2>4. TypeOK' /\ FormsCurrent'
    BY <1>0, <1>1, <2>1, <2>2 DEF TypeOK, FormsCurrent
  <2> QED BY <1>1, <2>2, <2>3, <2>4 DEF CommissionInv
<1>7. ASSUME NEW w \in WithdrawalIds, RejectWithdrawal(w) PROVE CommissionInv'
  <2>1. UNCHANGED <<now, policy, inviter, wallet, tickets, loads, given, moved>>
    BY <1>7 DEF RejectWithdrawal
  <2>2. withdrawals' \in [WithdrawalIds -> Withdrawal] /\ RowsGood' /\ RowsApart'
    BY <1>0, <1>7, RejectWithdrawalEffect
  <2>3. Balanced' /\ commission' \in [Users -> Money]
    BY <1>0, <1>7, BalancedReject
  <2>4. PICK u : u = withdrawals[w].user
    OBVIOUS
  <2>5. form' = Touched({u}) /\ \A v \in Users : v \notin {u} => commission'[v] = commission[v]
    BY <1>0, <1>7, <2>4 DEF RejectWithdrawal, TypeOK
  <2>6. FormsCurrent' /\ form' \in [Users -> Form]
    BY <1>0, <2>5, FormsKept
  <2>7. TypeOK'
    BY <1>0, <1>1, <2>1, <2>2, <2>3, <2>6 DEF TypeOK
  <2> QED BY <1>1, <2>2, <2>3, <2>6, <2>7 DEF CommissionInv
<1>8. ASSUME NEW w \in WithdrawalIds, NEW r \in Receipts, PayWithdrawal(w, r) PROVE CommissionInv'
  <2>1. UNCHANGED <<now, policy, inviter, wallet, commission, form, tickets, loads, given, moved>>
    BY <1>8 DEF PayWithdrawal
  <2>2. /\ \E x \in Withdrawal :
             /\ OneSet(withdrawals, w, x, withdrawals') /\ x.user = withdrawals[w].user
             /\ x.status = "paid" /\ withdrawals[w].status = "approved" /\ x.amount = withdrawals[w].amount
        /\ withdrawals' \in [WithdrawalIds -> Withdrawal] /\ RowsGood' /\ RowsApart'
    BY <1>0, <1>8, PayWithdrawalEffect
  <2>3. Balanced'
    BY <1>0, <1>1, <2>1, <2>2, BalancedFrozen DEF Frozen
  <2>4. TypeOK' /\ FormsCurrent'
    BY <1>0, <1>1, <2>1, <2>2 DEF TypeOK, FormsCurrent
  <2> QED BY <1>1, <2>2, <2>3, <2>4 DEF CommissionInv
<1>9. ASSUME \/ \E p \in Policies : UpdateCommissionSettings(p)
             \/ \E u \in Users : CloseTicket(u)
             \/ Tick
             \/ UNCHANGED vars
      PROVE  CommissionInv'
  <2>1. /\ UNCHANGED <<inviter, wallet, commission, form, withdrawals, loads, given, moved>>
        /\ policy' \in Policies /\ tickets' \subseteq Users /\ now' \in 0 .. MaxNow
    BY <1>0, <1>9, CommissionConstants DEF UpdateCommissionSettings, CloseTicket, Tick, vars, TypeOK
  <2>2. TypeOK' /\ FormsCurrent'
    BY <1>0, <1>1, <2>1 DEF TypeOK, FormsCurrent
  <2>3. Balanced' /\ RowsGood' /\ RowsApart'
    BY <1>0, <1>1, <2>1 DEF Balanced, RowsGood, RowsApart
  <2> QED BY <1>1, <2>2, <2>3 DEF CommissionInv
<1> QED BY <1>2, <1>3, <1>4, <1>5, <1>6, <1>7, <1>8, <1>9 DEF Elsewhere

LEMMA CommissionStep == CommissionInv /\ [Next]_vars => CommissionInv'
<1> SUFFICES ASSUME CommissionInv, [Next]_vars PROVE CommissionInv'
  OBVIOUS
<1>1. orders' \in [OrderIds -> Order] /\ logs' \in [OrderIds -> LogType] /\ RowsPaid'
  BY OrdersStep DEF CommissionInv
<1> QED BY <1>1, StepKinds, OrderStepsKeep, BatchKeeps, ElsewhereKeeps

\* Money is neither made nor lost: both accounts of a user equal their history, an order pays
\* its commission out once and never more than it was created with, and no account leaves its
\* range, whatever batches, forms, settings, withdrawals and rejections come in between.
THEOREM MoneyStaysAccounted == Spec => []MoneyAccounted
<1>1. CommissionInv => MoneyAccounted
  <2> SUFFICES ASSUME CommissionInv PROVE MoneyAccounted
    OBVIOUS
  <2>1. AccountsBalance /\ PaidOnce
    BY BalancedAccounts, PaidOnceRows DEF CommissionInv
  <2>2. \A u \in Users : {commission[u], wallet[u]} \subseteq 0 .. MaxMoney
    BY DEF CommissionInv, TypeOK, Money
  <2> QED BY <2>1, <2>2 DEF MoneyAccounted
<1> QED BY <1>1, CommissionInit, CommissionStep, PTL DEF Spec

\* A payout settles one withdrawal, a request key freezes once, a user has one unsettled
\* withdrawal, none is both paid and given back, and a form that counts as current shows the
\* account as it is.
THEOREM RequestsStayDistinct == Spec => []RequestsDistinct
<1>1. CommissionInv => RequestsDistinct
  BY DistinctRows DEF CommissionInv, RequestsDistinct
<1> QED BY <1>1, CommissionInit, CommissionStep, PTL DEF Spec

-----------------------------------------------------------------------------
(* The queue of a batch *)

\* The order ORDER BY updated_at, id is total, and so every payable set has a first row.
LEMMA BeforeTotal ==
  ASSUME NEW T \in [OrderIds -> Order], NEW i \in OrderIds, NEW j \in OrderIds, i # j, ~Before(T, i, j)
  PROVE  Before(T, j, i)
<1>1. T[i].updated \in Nat /\ T[j].updated \in Nat /\ i \in Nat /\ j \in Nat
  BY CommissionConstants DEF Order, OrderIds
<1> QED BY <1>1 DEF Before

LEMMA FirstExists ==
  ASSUME NEW T \in [OrderIds -> Order], NEW S \in SUBSET OrderIds, S # {}
  PROVE  FirstOf(T, S, 1) # {}
<1>0. \A i \in OrderIds : T[i].updated \in Nat /\ i \in Nat
  BY CommissionConstants DEF Order, OrderIds
<1> DEFINE times == {T[i].updated : i \in S}
<1>1. PICK t \in times : \A x \in times : t <= x
  <2>1. times \subseteq Nat /\ times # {}
    BY <1>0
  <2> HIDE DEF times
  <2> QED BY <2>1, LeastNatural
<1> DEFINE oldest == {i \in S : T[i].updated = t}
<1>2. PICK i \in oldest : \A j \in oldest : i <= j
  <2>1. oldest \subseteq Nat /\ oldest # {}
    BY <1>0, <1>1
  <2> HIDE DEF oldest
  <2> QED BY <2>1, LeastNatural
<1>3. ASSUME NEW j \in S PROVE ~Before(T, j, i)
  <2>1. t <= T[j].updated /\ T[i].updated = t
    BY <1>1
  <2>2. T[j].updated = t => i <= j
    BY <1>2
  <2>3. T[j].updated \in Nat /\ t \in Nat /\ i \in Nat /\ j \in Nat
    BY <1>0, <2>1
  <2> HIDE DEF oldest, times
  <2> QED BY <2>1, <2>2, <2>3 DEF Before
<1>4. {j \in S : Before(T, j, i)} = {}
  BY <1>3
<1> QED BY <1>4, FS_EmptySet DEF FirstOf

LEMMA FirstIsFirst ==
  ASSUME NEW T, NEW S \in SUBSET OrderIds, NEW i \in FirstOf(T, S, 1), NEW j \in S
  PROVE  ~Before(T, j, i)
<1> DEFINE ahead == {x \in S : Before(T, x, i)}
<1>1. Cardinality(ahead) < 1
  BY DEF FirstOf
<1>2. IsFiniteSet(ahead)
  BY FiniteOrders, FS_Subset
<1> HIDE DEF ahead
<1>3. ahead = {}
  BY <1>1, <1>2, FS_EmptySet, FS_CardinalityType
<1> QED BY <1>3 DEF ahead

\* What of the queue C a batch with the rows T has dealt with: its head, row by row.
Taken(C, T) == Payable(C) \ Payable(T)
Took(C, T, k) ==
  /\ Payable(T) \subseteq Payable(C)
  /\ \A i \in Payable(T) : T[i].updated = C[i].updated
  /\ \A i \in Taken(C, T), j \in Payable(T) : Before(C, i, j)
  /\ Payable(T) = {} \/ Cardinality(Taken(C, T)) >= k

\* A row that was settled or put aside is not payable again.
LEMMA SettledLeaves ==
  ASSUME TypeOK, NEW b, GoodBatch(b), NEW i \in Payable(b.orders)
  PROVE  /\ Payable(Settled(b, i).orders) = Payable(b.orders) \ {i}
         /\ \A j \in OrderIds : j # i => Settled(b, i).orders[j] = b.orders[j]
<1> DEFINE T == Settled(b, i).orders
           paid == ~Cyclic(b.orders[i]) /\ Fits(b.orders[i], b.accounts)
<1>0. i \in OrderIds /\ b.orders \in [OrderIds -> Order] /\ now \in 0 .. MaxNow /\ policy \in Policies
  BY DEF Payable, GoodBatch, TypeOK
<1>1. T = [b.orders EXCEPT ![i] = IF paid THEN PaidOut(b.orders[i]) ELSE PutAside(b.orders[i])]
  BY DEF Settled
<1>2. T[i].cstatus = 2 \/ ~(T[i].retryAfter <= now)
  <2>1. PICK o \in Order : o = b.orders[i]
    BY <1>0
  <2>2. PaidOut(o).cstatus = 2
    BY <1>0, RowTypes
  <2>3. PutAside(o).retryAfter = now + Backoff
    BY DEF PutAside, RetryAfter, Order
  <2>4. ~(now + Backoff <= now)
    BY <1>0, CommissionConstants
  <2>5. T[i] = PaidOut(o) \/ T[i] = PutAside(o)
    BY <1>0, <1>1, <2>1
  <2> QED BY <2>2, <2>3, <2>4, <2>5
<1>3. \A j \in OrderIds : j # i => T[j] = b.orders[j]
  BY <1>0, <1>1
<1> HIDE DEF T
<1>4. Payable(T) = Payable(b.orders) \ {i}
  BY <1>2, <1>3 DEF Payable
<1> QED BY <1>3, <1>4 DEF T

LEMMA StepTakes ==
  ASSUME TypeOK, NEW C \in [OrderIds -> Order], NEW k \in Nat, NEW b, GoodBatch(b), Took(C, b.orders, k)
  PROVE  Took(C, BatchStep(b).orders, k + 1)
<1>0. b.orders \in [OrderIds -> Order]
  BY DEF GoodBatch
<1> DEFINE next == FirstOf(b.orders, Payable(b.orders), 1)
<1>1. CASE next = {}
  <2>1. Payable(b.orders) = {}
    BY <1>0, <1>1, FirstExists DEF Payable
  <2> QED BY <1>1, <2>1 DEF BatchStep, Took
<1>2. CASE next # {}
  <2>1. PICK i \in next : BatchStep(b) = Settled(b, i)
    BY <1>2 DEF BatchStep
  <2>2. i \in Payable(b.orders)
    BY DEF FirstOf
  <2>3. PICK T, R : T = Settled(b, i).orders /\ R = b.orders
    OBVIOUS
  <2>4. Payable(T) = Payable(R) \ {i} /\ \A j \in OrderIds : j # i => T[j] = R[j]
    BY <2>2, <2>3, SettledLeaves
  <2>5. Taken(C, T) = Taken(C, R) \cup {i} /\ i \notin Taken(C, R)
    BY <2>2, <2>3, <2>4 DEF Taken, Took
  <2>6. IsFiniteSet(Taken(C, R)) /\ Cardinality(Taken(C, R)) \in Nat
    <3>1. Taken(C, R) \in SUBSET OrderIds
      BY DEF Taken, Payable
    <3> QED BY <3>1, FiniteOrders, FS_Subset, FS_CardinalityType
  <2>7. Cardinality(Taken(C, T)) = Cardinality(Taken(C, R)) + 1
    BY <2>5, <2>6, FS_AddElement
  <2>8. ASSUME NEW j \in Payable(T) PROVE Before(C, i, j)
    <3>1. j \in Payable(R) /\ j # i /\ j \in OrderIds /\ i \in OrderIds
      BY <2>2, <2>3, <2>4 DEF Payable
    <3>2. Before(R, i, j)
      <4>1. ~Before(R, j, i)
        BY <2>3, <3>1, FirstIsFirst DEF Payable
      <4> QED BY <1>0, <2>3, <3>1, <4>1, BeforeTotal
    <3>3. R[i].updated = C[i].updated /\ R[j].updated = C[j].updated
      BY <2>2, <2>3, <3>1 DEF Took
    <3> QED BY <3>2, <3>3 DEF Before
  <2>9. /\ Payable(T) \subseteq Payable(C)
        /\ \A j \in Payable(T) : T[j].updated = C[j].updated
    BY <2>3, <2>4 DEF Took, Payable
  <2>10. \A h \in Taken(C, T), j \in Payable(T) : Before(C, h, j)
    BY <2>3, <2>4, <2>5, <2>8 DEF Took
  <2>11. Payable(T) = {} \/ Cardinality(Taken(C, T)) >= k + 1
    <3>1. Cardinality(Taken(C, R)) >= k
      BY <2>2, <2>3 DEF Took
    <3> QED BY <2>6, <2>7, <3>1
  <2> QED BY <2>1, <2>3, <2>9, <2>10, <2>11 DEF Took
<1> QED BY <1>1, <1>2

LEMMA BatchTakes ==
  ASSUME TypeOK, RowsPaid
  PROVE  Took(Confirmed, BatchOf.orders, BatchLimit)
<1>0. BatchLimit \in Nat
  BY CommissionConstants
<1>1. PICK f : f = TheStages /\ Stages(f, BatchLimit)
  BY StagesExist
<1> DEFINE P == {k \in 0 .. BatchLimit : GoodBatch(f[k]) /\ Took(Confirmed, f[k].orders, k)}
<1>2. 0 \in P
  <2>1. f[0] = BatchStart
    BY <1>0, <1>1 DEF Stages
  <2>2. PICK C : C = Confirmed /\ f[0].orders = C
    BY <2>1 DEF BatchStart
  <2>3. Taken(C, C) = {}
    BY DEF Taken
  <2>4. Took(C, C, 0)
    BY <2>3, FS_EmptySet DEF Took
  <2> QED BY <1>0, <2>1, <2>2, <2>4, StartGood
<1>3. ASSUME NEW k \in 0 .. BatchLimit - 1, k \in P PROVE k + 1 \in P
  <2>1. k + 1 \in 0 .. BatchLimit /\ k + 1 # 0 /\ (k + 1) - 1 = k /\ k \in Nat
    BY <1>0
  <2>2. f[k + 1] = BatchStep(f[(k + 1) - 1])
    BY <1>1, <2>1 DEF Stages
  <2>3. f[k + 1] = BatchStep(f[k])
    BY <2>1, <2>2
  <2>4. Confirmed \in [OrderIds -> Order]
    BY StartGood DEF GoodBatch, BatchStart
  <2>5. GoodBatch(f[k]) /\ Took(Confirmed, f[k].orders, k)
    BY <1>3
  <2>6. GoodBatch(f[k + 1]) /\ Took(Confirmed, f[k + 1].orders, k + 1)
    BY <2>1, <2>3, <2>4, <2>5, StepGood, StepTakes
  <2> QED BY <2>1, <2>6
<1> HIDE DEF P
<1>4. 0 .. BatchLimit \subseteq P
  BY <1>0, <1>2, <1>3, IntervalInduction
<1>5. Took(Confirmed, f[BatchLimit].orders, BatchLimit)
  BY <1>0, <1>4 DEF P
<1> QED BY <1>1, <1>5, BatchByStages

\* ProcessCommissions: every order a batch takes is settled or put aside, so one that cannot be
\* paid never keeps its place in front of the others, for every batch size and queue.
THEOREM QueueMovesOn == Spec => NoOrderBlocks
<1>1. ASSUME CommissionInv, ProcessCommissions
      PROVE  FirstOf(Confirmed, Payable(Confirmed), BatchLimit) \cap Payable(orders') = {}
  <2>1. PICK C, T : C = Confirmed /\ T = orders' /\ Took(C, T, BatchLimit)
    BY <1>1, BatchTakes DEF CommissionInv, ProcessCommissions
  <2> SUFFICES ASSUME NEW i \in FirstOf(C, Payable(C), BatchLimit), i \in Payable(T) PROVE FALSE
    BY <2>1
  <2> DEFINE ahead == {j \in Payable(C) : Before(C, j, i)}
  <2>2. Cardinality(ahead) < BatchLimit /\ Cardinality(Taken(C, T)) >= BatchLimit
    BY <2>1 DEF FirstOf, Took
  <2>3. Taken(C, T) \subseteq ahead
    BY <2>1 DEF Took, Taken
  <2>4. IsFiniteSet(ahead)
    <3>1. ahead \in SUBSET OrderIds
      BY DEF Payable
    <3> HIDE DEF ahead
    <3> QED BY <3>1, FiniteOrders, FS_Subset
  <2> HIDE DEF ahead
  <2>5. Cardinality(Taken(C, T)) <= Cardinality(ahead) /\ Cardinality(ahead) \in Nat /\ Cardinality(Taken(C, T)) \in Nat
    BY <2>3, <2>4, FS_Subset, FS_CardinalityType
  <2> QED BY <2>2, <2>5, CommissionConstants
<1>2. CommissionInv /\ [Next]_vars => [ProcessCommissions =>
        FirstOf(Confirmed, Payable(Confirmed), BatchLimit) \cap Payable(orders') = {}]_vars
  BY <1>1
<1> QED BY <1>2, CommissionInit, CommissionStep, PTL DEF Spec, NoOrderBlocks

=============================================================================
