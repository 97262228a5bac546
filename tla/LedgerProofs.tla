----------------------------- MODULE LedgerProofs -----------------------------
(***************************************************************************)
(* Proofs about the components that keep counts.                           *)
(*                                                                         *)
(* Gift cards and coupons (Vouchers): the number of a code's uses, the     *)
(* money in a wallet and the uses a coupon lost are each the sum over a    *)
(* book that only grows, so every step is compared with what it appends.   *)
(*                                                                         *)
(* Traffic: the calendar first, from the sums that say when a month        *)
(* begins to the first day after another that a reset method names; then   *)
(* what reports, resets and edits do to the books.                         *)
(*                                                                         *)
(* Distributors: an order is only ever added at the end or paid, so the    *)
(* settlements, the renewals' keys and the chain of a subscription's terms *)
(* are compared with the orders as they were; every other step edits one   *)
(* subscription.                                                           *)
(*                                                                         *)
(* Devices: user by user, a step of one operation is either mild, for the  *)
(* users the operation does not count, or a stage of the one count a user  *)
(* can be in; a flush strikes off only what that count has written.        *)
(***************************************************************************)
EXTENDS Vouchers, Distributors, DeviceState, SumTheorems, SequenceTheorems

-----------------------------------------------------------------------------
(* Books: sequences that grow at their end, what is counted in them and what they add up to. *)

\* What appending does to the places of a sequence.
LEMMA Appended ==
    ASSUME NEW S, NEW s \in Seq(S), NEW e \in S
    PROVE  /\ Append(s, e) \in Seq(S) /\ Len(s) \in Nat /\ Len(Append(s, e)) = Len(s) + 1
           /\ DOMAIN s = 1..Len(s) /\ DOMAIN Append(s, e) = (DOMAIN s) \cup {Len(s) + 1}
           /\ Len(s) + 1 \notin DOMAIN s
           /\ \A i \in DOMAIN s : Append(s, e)[i] = s[i] /\ s[i] \in S
           /\ Append(s, e)[Len(s) + 1] = e
<1>1. /\ Append(s, e) \in Seq(S) /\ Len(s) \in Nat /\ Len(Append(s, e)) = Len(s) + 1
      /\ DOMAIN s = 1..Len(s) /\ DOMAIN Append(s, e) = 1..Len(s) + 1
  OBVIOUS
<1>2. \A i \in DOMAIN s : Append(s, e)[i] = s[i] /\ s[i] \in S
  OBVIOUS
<1>3. Append(s, e)[Len(s) + 1] = e
  OBVIOUS
<1> QED BY <1>1, <1>2, <1>3

\* The places of s that hold a member of M.
Places(s, M) == {i \in DOMAIN s : s[i] \in M}

LEMMA PlacesFinite == ASSUME NEW S, NEW s \in Seq(S), NEW M
                      PROVE  IsFiniteSet(DOMAIN s) /\ IsFiniteSet(Places(s, M)) /\ Cardinality(Places(s, M)) \in Nat
<1>1. Len(s) \in Nat /\ DOMAIN s = 1..Len(s)
  OBVIOUS
<1>2. IsFiniteSet(DOMAIN s)
  BY <1>1, FS_Interval
<1>3. IsFiniteSet(Places(s, M))
  BY <1>2, FS_Subset DEF Places
<1> QED BY <1>2, <1>3, FS_CardinalityType

\* One place more, if what is appended is in M.
LEMMA PlacesAppend ==
    ASSUME NEW S, NEW s \in Seq(S), NEW e \in S, NEW M
    PROVE  /\ Places(Append(s, e), M) = Places(s, M) \cup (IF e \in M THEN {Len(s) + 1} ELSE {})
           /\ Cardinality(Places(Append(s, e), M)) = Cardinality(Places(s, M)) + (IF e \in M THEN 1 ELSE 0)
<1>1. Places(Append(s, e), M) = Places(s, M) \cup (IF e \in M THEN {Len(s) + 1} ELSE {})
  <2> USE Appended DEF Places
  <2>1. CASE e \in M
    BY <2>1
  <2>2. CASE e \notin M
    BY <2>2
  <2> QED BY <2>1, <2>2
<1>2. IsFiniteSet(Places(s, M)) /\ Cardinality(Places(s, M)) \in Nat
  BY PlacesFinite
<1>3. Len(s) + 1 \notin Places(s, M)
  BY Appended DEF Places
<1>4. CASE e \in M
  <2>1. Cardinality(Places(s, M) \cup {Len(s) + 1}) = Cardinality(Places(s, M)) + 1
    BY <1>2, <1>3, FS_AddElement
  <2> QED BY <1>1, <1>4, <2>1
<1>5. CASE e \notin M
  BY <1>1, <1>2, <1>5
<1> QED BY <1>4, <1>5

\* What the entries of s weigh, each by w.
Weight(w, s) == SumFunctionOnSet([i \in DOMAIN s |-> w[s[i]]], DOMAIN s)

LEMMA WeightNone == ASSUME NEW w PROVE Weight(w, <<>>) = 0
<1>1. DOMAIN <<>> = {}
  OBVIOUS
<1> QED BY <1>1, SumNone, Zenon DEF Weight

LEMMA WeightAppend ==
    ASSUME NEW S, NEW s \in Seq(S), NEW e \in S, NEW w, \A x \in S : w[x] \in Int
    PROVE  Weight(w, s) \in Int /\ Weight(w, Append(s, e)) = Weight(w, s) + w[e]
<1> DEFINE t == Append(s, e)
           n == Len(s) + 1
           f == [i \in DOMAIN s |-> w[s[i]]]
           g == [i \in DOMAIN t |-> w[t[i]]]
           D == DOMAIN s
<1>1. DOMAIN t = D \cup {n} /\ n \notin D /\ t[n] = e /\ \A i \in D : t[i] = s[i] /\ s[i] \in S
  BY Appended
<1>2. g[n] = w[e] /\ \A i \in D : g[i] = f[i] /\ g[i] \in Int
  BY <1>1
<1>3. IsFiniteSet(D)
  BY PlacesFinite
<1>4. Weight(w, s) = SumFunctionOnSet(f, D) /\ Weight(w, t) = SumFunctionOnSet(g, D \cup {n})
  BY <1>1 DEF Weight
<1> HIDE DEF t, n, f, g, D
<1>5. SumFunctionOnSet(f, D) = SumFunctionOnSet(g, D)
  BY <1>2, <1>3, SumSame
<1>6. Summable(g, D) /\ g[n] \in Int
  BY <1>2, <1>3 DEF Summable
<1>7. SumFunctionOnSet(g, D \cup {n}) = SumFunctionOnSet(g, D) + g[n]
  BY <1>1, <1>6, SumMore
<1>8. SumFunctionOnSet(g, D) \in Int
  BY <1>6, SumInt
<1> QED BY <1>2, <1>4, <1>5, <1>7, <1>8 DEF t

\* Entries that change but weigh the same leave the weight as it was.
LEMMA WeightSame ==
    ASSUME NEW s, NEW t, DOMAIN s = DOMAIN t, IsFiniteSet(DOMAIN s), NEW w, \A i \in DOMAIN s : w[t[i]] = w[s[i]]
    PROVE  Weight(w, t) = Weight(w, s)
<1> DEFINE f == [i \in DOMAIN s |-> w[s[i]]]
           g == [i \in DOMAIN t |-> w[t[i]]]
<1>1. \A i \in DOMAIN s : f[i] = g[i]
  OBVIOUS
<1>2. Weight(w, s) = SumFunctionOnSet(f, DOMAIN s) /\ Weight(w, t) = SumFunctionOnSet(g, DOMAIN s)
  BY DEF Weight
<1> HIDE DEF f, g
<1>3. SumFunctionOnSet(f, DOMAIN s) = SumFunctionOnSet(g, DOMAIN s)
  BY <1>1, SumSame
<1> QED BY <1>2, <1>3

LEMMA WeightInt ==
    ASSUME NEW S, NEW s \in Seq(S), NEW w, \A x \in S : w[x] \in Int PROVE Weight(w, s) \in Int
<1> DEFINE f == [i \in DOMAIN s |-> w[s[i]]]
<1>1. IsFiniteSet(DOMAIN s)
  BY PlacesFinite
<1>2. \A i \in DOMAIN s : f[i] \in Int
  OBVIOUS
<1>3. Weight(w, s) = SumFunctionOnSet(f, DOMAIN s)
  BY DEF Weight
<1> HIDE DEF f
<1>4. Summable(f, DOMAIN s)
  BY <1>1, <1>2 DEF Summable
<1> QED BY <1>3, <1>4, SumInt

-----------------------------------------------------------------------------
(* Gift cards and coupons *)

CodeStatuses == {"active", "used", "disabled", "expired", "deleted"}
Reward == [money : Nat, traffic : Nat]
PlanState == [traffic : Nat, months : {-1, 1}]
Voucher == [template : Templates, status : CodeStatuses, used : Nat, max : Nat, life : Int,
            snap : PlanState \cup {Nothing}]
Use == [code : Nat, template : Templates, user : Redeemers, reward : Reward, share : Reward, age : Int]
Wallet == [money : Nat, traffic : Int, plan : {Nothing, "plan"}, months : Int, banned : BOOLEAN]
Limit == Nat \cup {Nothing}
CouponState == [left : Limit, each : Limit, show : BOOLEAN, given : Limit]
Sale == [coupon : Coupons \cup {Nothing}, user : Redeemers, status : {"pending", "cancelled", "completed"}]

GoodForm(f) == f \in Forms /\ normalizeGiftCardTemplate(f)

\* What a handler read: a template, or a code that was not deleted.
DeskOK(x) ==
    \/ x = FreeDesk
    \/ \E t \in Templates, f \in Forms : x = [op |-> "template", id |-> t, seen |-> f]
    \/ \E op \in {"code", "disable", "enable"}, c \in IssuedCodes, v \in Voucher :
        v.status # "deleted" /\ x = [op |-> op, id |-> c, seen |-> v]

CardsOK == cards \in [Templates -> Forms \cup {NoCard}] /\ \A t \in Templates : cards[t] = NoCard \/ GoodForm(cards[t])
DesksOK == desks \in [Desks -> {desks[d] : d \in Desks}] /\ \A d \in Desks : DeskOK(desks[d])
UsagesOK == usages \in Seq(Use) /\ \A i \in DOMAIN usages : usages[i].code \in IssuedCodes
VouchersTypeOK ==
    /\ CardsOK /\ DesksOK /\ UsagesOK
    /\ vouchers \in Seq(Voucher) /\ wallets \in [Redeemers -> Wallet] /\ plan \in PlanState
    /\ coupons \in [Coupons -> CouponState \cup {Nothing}] /\ sales \in Seq(Sale)

\* A code says how often it was used, within its limit.
CodeSound(v, n) ==
    v.used = n /\ v.used <= v.max /\ (v.used = v.max => v.status # "active") /\ (v.status = "deleted" => v.used = 0)
CodesSound == \A c \in IssuedCodes : CodeSound(vouchers[c], Cardinality(UsagesOf(c)))
\* A code that is not deleted has a template, and the plan as it was issued if that is a purchase.
Snapped(snap, card) ==
    card \in Forms /\ (snap # Nothing => card.type = "purchase") /\ (card.type = "purchase" => snap \in PlanState)
SnapsSound ==
    \A c \in IssuedCodes : vouchers[c].status # "deleted" => Snapped(vouchers[c].snap, cards[vouchers[c].template])
WalletsSound == \A u \in Redeemers : wallets[u].money = SumFunction([i \in DOMAIN usages |-> GivenTo(u, usages[i])])
CouponsSound ==
    \A k \in Coupons : coupons[k] # Nothing /\ coupons[k].left # Nothing =>
        coupons[k].left \in Nat /\ coupons[k].given = Cardinality(SalesOf(k)) + coupons[k].left

VouchersInv == VouchersTypeOK /\ CodesSound /\ SnapsSound /\ WalletsSound /\ CouponsSound

\* The uses that name a code, and the orders with a coupon, as places.
LEMMA UsesAsPlaces == ASSUME usages \in Seq(Use), NEW c PROVE UsagesOf(c) = Places(usages, {x \in Use : x.code = c})
BY DEF UsagesOf, Places
LEMMA SalesAsPlaces == ASSUME sales \in Seq(Sale), NEW k PROVE SalesOf(k) = Places(sales, {x \in Sale : x.coupon = k})
BY DEF SalesOf, Places

LEMMA SalesCount == ASSUME sales \in Seq(Sale), NEW k PROVE Cardinality(SalesOf(k)) \in Nat
BY SalesAsPlaces, PlacesFinite
LEMMA UsesCount == ASSUME usages \in Seq(Use), NEW c PROVE Cardinality(UsagesOf(c)) \in Nat
BY UsesAsPlaces, PlacesFinite

\* The invariant says what the property says.
LEMMA VouchersInvProperty == ASSUME VouchersInv PROVE VouchersAccounted
<1>1. \A c \in IssuedCodes :
        /\ vouchers[c].used = Cardinality(UsagesOf(c)) /\ vouchers[c].used <= vouchers[c].max
        /\ vouchers[c].used = vouchers[c].max => vouchers[c].status # "active"
        /\ vouchers[c].status = "deleted" => vouchers[c].used = 0
  BY DEF VouchersInv, CodesSound, CodeSound
<1>2. ASSUME NEW k \in Coupons, coupons[k] # Nothing /\ coupons[k].left # Nothing
      PROVE  coupons[k].left >= 0 /\ Cardinality(SalesOf(k)) = coupons[k].given - coupons[k].left
  <2>1. Cardinality(SalesOf(k)) \in Nat
    BY SalesCount DEF VouchersInv, VouchersTypeOK
  <2>2. coupons[k].left \in Nat /\ coupons[k].given = Cardinality(SalesOf(k)) + coupons[k].left
    BY <1>2 DEF VouchersInv, CouponsSound
  <2> QED BY <2>1, <2>2
<1> QED BY <1>1, <1>2 DEF VouchersInv, SnapsSound, Snapped, WalletsSound, VouchersAccounted

-----------------------------------------------------------------------------
\* Codes that are edited where they stand.
Edited(v, w) ==
    /\ w \in Voucher /\ w.used = v.used /\ w.template = v.template /\ w.snap = v.snap
    /\ w.used <= w.max /\ (w.used = w.max => w.status # "active")
    /\ w.status = "deleted" => w.used = 0
    /\ v.status = "deleted" => w.status = "deleted"

LEMMA EditedSame == ASSUME NEW v \in Voucher, NEW n, CodeSound(v, n) PROVE Edited(v, v)
BY DEF Edited, CodeSound

\* An action that edits codes and nothing the invariant reads besides keeps it.
LEMMA EditsKeep ==
    ASSUME VouchersInv, vouchers' \in Seq(Voucher), DOMAIN vouchers' = DOMAIN vouchers,
           \A c \in DOMAIN vouchers : Edited(vouchers[c], vouchers'[c]),
           OnlyCodes, DesksOK'
    PROVE  VouchersInv'
<1>1. IssuedCodes' = IssuedCodes
  BY DEF IssuedCodes
<1>2. \A c : UsagesOf(c)' = UsagesOf(c)
  BY DEF UsagesOf, OnlyCodes
<1>3. \A c : SalesOf(c)' = SalesOf(c)
  BY DEF SalesOf, OnlyCodes
<1>4. VouchersTypeOK'
  <2>1. CardsOK'
    BY DEF VouchersInv, VouchersTypeOK, CardsOK, OnlyCodes, GoodForm, normalizeGiftCardTemplate, validateGiftCardReward
  <2>2. UsagesOK'
    BY <1>1 DEF VouchersInv, VouchersTypeOK, UsagesOK, OnlyCodes
  <2> QED BY <2>1, <2>2 DEF VouchersInv, VouchersTypeOK, OnlyCodes
<1>5. CodesSound'
  <2> SUFFICES ASSUME NEW c \in IssuedCodes PROVE CodeSound(vouchers'[c], Cardinality(UsagesOf(c)))
    BY <1>1, <1>2 DEF CodesSound
  <2>1. Edited(vouchers[c], vouchers'[c]) /\ CodeSound(vouchers[c], Cardinality(UsagesOf(c)))
    BY DEF IssuedCodes, VouchersInv, CodesSound
  <2> QED BY <2>1 DEF Edited, CodeSound
<1>6. SnapsSound'
  <2> SUFFICES ASSUME NEW c \in IssuedCodes, vouchers'[c].status # "deleted"
               PROVE  Snapped(vouchers'[c].snap, cards[vouchers'[c].template])
    BY <1>1 DEF SnapsSound, OnlyCodes, Snapped
  <2>1. Edited(vouchers[c], vouchers'[c])
    BY DEF IssuedCodes
  <2>2. /\ vouchers'[c].snap = vouchers[c].snap /\ vouchers[c].status # "deleted"
        /\ vouchers'[c].template = vouchers[c].template
    BY <2>1 DEF Edited
  <2> QED BY <2>2 DEF VouchersInv, SnapsSound
<1>7. WalletsSound' /\ CouponsSound'
  BY <1>3 DEF VouchersInv, WalletsSound, CouponsSound, OnlyCodes
<1> QED BY <1>4, <1>5, <1>6, <1>7 DEF VouchersInv

\* One code edited.
LEMMA OneEdited ==
    ASSUME VouchersInv, NEW i \in IssuedCodes, NEW w, Edited(vouchers[i], w)
    PROVE  LET ws == [vouchers EXCEPT ![i] = w]
           IN  /\ ws \in Seq(Voucher) /\ DOMAIN ws = DOMAIN vouchers
               /\ \A c \in DOMAIN vouchers : Edited(vouchers[c], ws[c])
<1>1. vouchers \in Seq(Voucher) /\ i \in DOMAIN vouchers /\ w \in Voucher
  BY DEF VouchersInv, VouchersTypeOK, IssuedCodes, Edited
<1> DEFINE ws == [vouchers EXCEPT ![i] = w]
<1>2. ws \in Seq(Voucher) /\ DOMAIN ws = DOMAIN vouchers /\ ws[i] = w /\ \A c \in DOMAIN vouchers \ {i} : ws[c] = vouchers[c]
  BY <1>1
<1> HIDE DEF ws
<1>3. ASSUME NEW c \in DOMAIN vouchers PROVE Edited(vouchers[c], ws[c])
  <2>1. CodeSound(vouchers[c], Cardinality(UsagesOf(c))) /\ vouchers[c] \in Voucher
    BY <1>1 DEF VouchersInv, CodesSound, IssuedCodes
  <2>2. Edited(vouchers[c], vouchers[c])
    BY <2>1, EditedSame
  <2> QED BY <1>2, <2>2
<1> QED BY <1>2, <1>3 DEF ws

-----------------------------------------------------------------------------
\* What was read stays what may be saved while codes are only added.
LEMMA DesksKept ==
    ASSUME DesksOK, UNCHANGED desks, IssuedCodes \subseteq IssuedCodes'
    PROVE  DesksOK'
<1>1. ASSUME NEW d \in Desks PROVE DeskOK(desks[d])'
  <2>1. DeskOK(desks[d])
    BY DEF DesksOK
  <2> QED BY <2>1 DEF DeskOK
<1> QED BY <1>1 DEF DesksOK

LEMMA DeskTaken ==
    ASSUME DesksOK, NEW d \in Desks, NEW x, DeskOK(x), desks' = [desks EXCEPT ![d] = x], IssuedCodes \subseteq IssuedCodes'
    PROVE  DesksOK'
<1>1. DOMAIN desks = Desks /\ desks = [e \in Desks |-> desks[e]]
  BY DEF DesksOK
<1>2. desks'[d] = x /\ \A e \in Desks \ {d} : desks'[e] = desks[e]
  BY <1>1
<1>3. desks' \in [Desks -> {desks'[e] : e \in Desks}]
  BY <1>1
<1>4. ASSUME NEW e \in Desks PROVE DeskOK(desks[e])'
  <2>1. DeskOK(desks'[e])
    BY <1>2 DEF DesksOK
  <2> QED BY <2>1 DEF DeskOK
<1> QED BY <1>3, <1>4 DEF DesksOK

LEMMA DeskFreed == DeskOK(FreeDesk)
BY DEF DeskOK

\* A desk with a code holds one that exists and, when read, was not deleted.
LEMMA DeskWithCode ==
    ASSUME DesksOK, NEW d \in Desks, desks[d].op \in {"code", "disable", "enable"}
    PROVE  desks[d].id \in IssuedCodes /\ desks[d].seen \in Voucher /\ desks[d].seen.status # "deleted"
<1>1. DeskOK(desks[d])
  BY DEF DesksOK
<1>2. desks[d] # FreeDesk
  BY DEF FreeDesk
<1>3. ASSUME NEW t \in Templates, NEW f \in Forms, desks[d] = [op |-> "template", id |-> t, seen |-> f] PROVE FALSE
  BY <1>3
<1>4. PICK x : x = desks[d]
  OBVIOUS
<1>5. PICK op \in {"code", "disable", "enable"}, c \in IssuedCodes, v \in Voucher :
        v.status # "deleted" /\ x = [op |-> op, id |-> c, seen |-> v]
  BY <1>1, <1>2, <1>3, <1>4, Zenon DEF DeskOK
<1> QED BY <1>4, <1>5

LEMMA DeskWithTemplate ==
    ASSUME DesksOK, NEW d \in Desks, desks[d].op = "template"
    PROVE  desks[d].id \in Templates /\ desks[d].seen \in Forms
<1>1. DeskOK(desks[d])
  BY DEF DesksOK
<1>2. PICK x : x = desks[d]
  OBVIOUS
<1>3. x # FreeDesk
  BY <1>2 DEF FreeDesk
<1>4. ASSUME NEW op \in {"code", "disable", "enable"}, NEW c \in IssuedCodes, NEW v \in Voucher,
             x = [op |-> op, id |-> c, seen |-> v]
      PROVE  FALSE
  BY <1>2, <1>4
<1>5. PICK t \in Templates, f \in Forms : x = [op |-> "template", id |-> t, seen |-> f]
  BY <1>1, <1>2, <1>3, <1>4, Zenon DEF DeskOK
<1> QED BY <1>2, <1>5

-----------------------------------------------------------------------------
\* Edits of codes.

LEMMA CodeOfInv ==
    ASSUME VouchersInv, NEW c \in IssuedCodes
    PROVE  vouchers[c] \in Voucher /\ CodeSound(vouchers[c], Cardinality(UsagesOf(c)))
BY DEF VouchersInv, VouchersTypeOK, CodesSound, IssuedCodes

LEMMA SavedCode ==
    ASSUME NEW v \in Voucher, NEW n, CodeSound(v, n), NEW seen \in Voucher, seen.status # "deleted",
           NEW status \in {seen.status, "active", "used", "disabled", "expired"}, NEW max \in {seen.max} \cup 1..MaxUses,
           Savable(v, [seen EXCEPT !.status = status, !.max = max])
    PROVE  Edited(v, [v EXCEPT !.status = status, !.max = max, !.life = seen.life])
<1>1. status \in CodeStatuses \ {"deleted"} /\ max \in Nat
  BY VoucherConstants DEF Voucher, CodeStatuses
<1>2. PICK w : w = [v EXCEPT !.status = status, !.max = max, !.life = seen.life]
  OBVIOUS
<1>3. w \in Voucher /\ w.status = status /\ w.max = max /\ w.used = v.used /\ w.template = v.template /\ w.snap = v.snap
  BY <1>1, <1>2 DEF Voucher
<1>4. PICK form : form = [seen EXCEPT !.status = status, !.max = max]
  OBVIOUS
<1>5. form.status = status /\ form.max = max
  BY <1>4 DEF Voucher
<1>6. v.status # "deleted" /\ max >= v.used /\ (status = "active" => v.used < max)
  BY <1>4, <1>5 DEF Savable
<1>7. v.used \in Nat
  BY DEF Voucher
<1>8. Edited(v, w)
  BY <1>1, <1>3, <1>6, <1>7 DEF Edited
<1> QED BY <1>2, <1>8

LEMMA ToggledEdited == ASSUME NEW v \in Voucher, NEW n, CodeSound(v, n) PROVE Edited(v, Toggled(v))
<1>1. v.used \in Nat /\ v.max \in Nat
  BY DEF Voucher
<1>2. CASE v.status = "disabled" /\ MayBeActive(v)
  <2>1. PICK w : w = [v EXCEPT !.status = "active"]
    OBVIOUS
  <2>2. w \in Voucher /\ w.status = "active" /\ w.max = v.max /\ w.used = v.used /\ w.template = v.template /\ w.snap = v.snap
    BY <2>1 DEF Voucher, CodeStatuses
  <2>3. v.used < v.max
    BY <1>2 DEF MayBeActive
  <2>4. Edited(v, w)
    BY <1>1, <1>2, <2>2, <2>3 DEF Edited
  <2> QED BY <1>2, <2>1, <2>4 DEF Toggled
<1>3. CASE v.status = "active"
  <2>1. PICK w : w = [v EXCEPT !.status = "disabled"]
    OBVIOUS
  <2>2. w \in Voucher /\ w.status = "disabled" /\ w.max = v.max /\ w.used = v.used /\ w.template = v.template /\ w.snap = v.snap
    BY <2>1 DEF Voucher, CodeStatuses
  <2>4. Edited(v, w)
    BY <1>1, <1>3, <2>2 DEF Edited, CodeSound
  <2> QED BY <1>3, <2>1, <2>4 DEF Toggled
<1>4. CASE ~(v.status = "disabled" /\ MayBeActive(v)) /\ v.status # "active"
  BY <1>4, EditedSame DEF Toggled
<1> QED BY <1>2, <1>3, <1>4

LEMMA UpdateCodeKeeps == ASSUME VouchersInv, NEW d \in Desks, UpdateGiftCardCode(d) PROVE VouchersInv'
<1>1. desks[d].id \in IssuedCodes /\ desks[d].seen \in Voucher /\ desks[d].seen.status # "deleted"
  BY DeskWithCode DEF UpdateGiftCardCode, VouchersInv, VouchersTypeOK
<1>2. PICK i, seen : i = desks[d].id /\ seen = desks[d].seen
  OBVIOUS
<1>3. PICK status \in {seen.status, "active", "used", "disabled", "expired"}, max \in {seen.max} \cup 1..MaxUses :
        vouchers' = IF Savable(vouchers[i], [seen EXCEPT !.status = status, !.max = max])
                    THEN [vouchers EXCEPT ![i].status = status, ![i].max = max, ![i].life = seen.life]
                    ELSE vouchers
  BY <1>2 DEF UpdateGiftCardCode
<1>4. /\ vouchers' \in Seq(Voucher) /\ DOMAIN vouchers' = DOMAIN vouchers
      /\ \A c \in DOMAIN vouchers : Edited(vouchers[c], vouchers'[c])
  <2>1. vouchers[i] \in Voucher /\ CodeSound(vouchers[i], Cardinality(UsagesOf(i))) /\ i \in DOMAIN vouchers
    BY <1>1, <1>2, CodeOfInv DEF IssuedCodes
  <2>2. CASE Savable(vouchers[i], [seen EXCEPT !.status = status, !.max = max])
    <3>1. PICK w : w = [vouchers[i] EXCEPT !.status = status, !.max = max, !.life = seen.life]
      OBVIOUS
    <3>2. Edited(vouchers[i], w)
      BY <1>1, <1>2, <2>1, <2>2, <3>1, SavedCode
    <3>3. vouchers' = [vouchers EXCEPT ![i].status = status, ![i].max = max, ![i].life = seen.life]
      BY <1>3, <2>2
    <3>4. vouchers' = [vouchers EXCEPT ![i] = w]
      BY <2>1, <3>1, <3>3
    <3> QED BY <1>1, <1>2, <3>2, <3>4, OneEdited
  <2>3. CASE ~Savable(vouchers[i], [seen EXCEPT !.status = status, !.max = max])
    <3>1. vouchers' = vouchers
      BY <1>3, <2>3
    <3>2. ASSUME NEW c \in DOMAIN vouchers PROVE Edited(vouchers[c], vouchers[c])
      BY CodeOfInv, EditedSame DEF IssuedCodes
    <3> QED BY <3>1, <3>2 DEF VouchersInv, VouchersTypeOK
  <2> QED BY <2>2, <2>3
<1>5. DesksOK' /\ OnlyCodes
  <2>1. IssuedCodes \subseteq IssuedCodes'
    BY <1>4 DEF IssuedCodes
  <2>2. desks' = [desks EXCEPT ![d] = FreeDesk] /\ OnlyCodes
    BY DEF UpdateGiftCardCode
  <2> QED BY <2>1, <2>2, DeskFreed, DeskTaken DEF VouchersInv, VouchersTypeOK
<1> QED BY <1>4, <1>5, EditsKeep

LEMMA ToggleEdits ==
    ASSUME VouchersInv, NEW i \in IssuedCodes, ToggleGiftCardCode(i)
    PROVE  /\ vouchers' \in Seq(Voucher) /\ DOMAIN vouchers' = DOMAIN vouchers
           /\ \A c \in DOMAIN vouchers : Edited(vouchers[c], vouchers'[c])
<1>1. PICK w : w = Toggled(vouchers[i])
  OBVIOUS
<1>2. Edited(vouchers[i], w)
  BY <1>1, CodeOfInv, ToggledEdited
<1>3. vouchers' = [vouchers EXCEPT ![i] = w]
  BY <1>1 DEF ToggleGiftCardCode, IssuedCodes
<1> QED BY <1>2, <1>3, OneEdited

LEMMA SameEdits ==
    ASSUME VouchersInv, UNCHANGED vouchers
    PROVE  /\ vouchers' \in Seq(Voucher) /\ DOMAIN vouchers' = DOMAIN vouchers
           /\ \A c \in DOMAIN vouchers : Edited(vouchers[c], vouchers'[c])
<1>2. ASSUME NEW c \in DOMAIN vouchers PROVE Edited(vouchers[c], vouchers[c])
  BY CodeOfInv, EditedSame DEF IssuedCodes
<1> QED BY <1>2 DEF VouchersInv, VouchersTypeOK

LEMMA ToggleKeeps == ASSUME VouchersInv, NEW c \in IssuedCodes, toggleGiftCardCode(c) PROVE VouchersInv'
<1>1. /\ vouchers' \in Seq(Voucher) /\ DOMAIN vouchers' = DOMAIN vouchers
      /\ \A i \in DOMAIN vouchers : Edited(vouchers[i], vouchers'[i])
  BY ToggleEdits DEF toggleGiftCardCode
<1>2. OnlyCodes /\ UNCHANGED desks /\ IssuedCodes \subseteq IssuedCodes'
  BY <1>1 DEF toggleGiftCardCode, IssuedCodes
<1>3. DesksOK'
  BY <1>2, DesksKept DEF VouchersInv, VouchersTypeOK
<1> QED BY <1>1, <1>2, <1>3, EditsKeep

LEMMA LegacyToggleKeeps == ASSUME VouchersInv, NEW d \in Desks, legacyToggleGiftCardCode(d) PROVE VouchersInv'
<1>1. /\ vouchers' \in Seq(Voucher) /\ DOMAIN vouchers' = DOMAIN vouchers
      /\ \A i \in DOMAIN vouchers : Edited(vouchers[i], vouchers'[i])
  <2>1. desks[d].id \in IssuedCodes
    BY DeskWithCode DEF legacyToggleGiftCardCode, VouchersInv, VouchersTypeOK
  <2>2. ToggleGiftCardCode(desks[d].id) \/ UNCHANGED vouchers
    BY DEF legacyToggleGiftCardCode
  <2> QED BY <2>1, <2>2, ToggleEdits, SameEdits
<1>2. OnlyCodes /\ desks' = [desks EXCEPT ![d] = FreeDesk] /\ IssuedCodes \subseteq IssuedCodes'
  BY <1>1 DEF legacyToggleGiftCardCode, IssuedCodes
<1>3. DesksOK'
  BY <1>2, DeskFreed, DeskTaken DEF VouchersInv, VouchersTypeOK
<1> QED BY <1>1, <1>2, <1>3, EditsKeep

LEMMA DeleteCodeKeeps == ASSUME VouchersInv, NEW c \in IssuedCodes, DeleteGiftCardCode(c) PROVE VouchersInv'
<1>0. vouchers[c] \in Voucher /\ CodeSound(vouchers[c], Cardinality(UsagesOf(c))) /\ c \in DOMAIN vouchers
  BY CodeOfInv DEF IssuedCodes
<1>1. PICK w : w = [vouchers[c] EXCEPT !.status = "deleted"]
  OBVIOUS
<1>2. Cardinality(UsagesOf(c)) = 0
  BY FS_EmptySet DEF DeleteGiftCardCode
<1>3. w \in Voucher /\ w.status = "deleted" /\ w.max = vouchers[c].max /\ w.used = vouchers[c].used
      /\ w.template = vouchers[c].template /\ w.snap = vouchers[c].snap
  BY <1>0, <1>1 DEF Voucher, CodeStatuses
<1>4. Edited(vouchers[c], w)
  BY <1>0, <1>2, <1>3 DEF Edited, CodeSound
<1>5. vouchers' = [vouchers EXCEPT ![c] = w]
  BY <1>0, <1>1 DEF DeleteGiftCardCode
<1>6. /\ vouchers' \in Seq(Voucher) /\ DOMAIN vouchers' = DOMAIN vouchers
      /\ \A i \in DOMAIN vouchers : Edited(vouchers[i], vouchers'[i])
  BY <1>4, <1>5, OneEdited
<1>7. OnlyCodes /\ UNCHANGED desks /\ IssuedCodes \subseteq IssuedCodes'
  BY <1>6 DEF DeleteGiftCardCode, IssuedCodes
<1>8. DesksOK'
  BY <1>7, DesksKept DEF VouchersInv, VouchersTypeOK
<1> QED BY <1>6, <1>7, <1>8, EditsKeep

\* A handler reads a code.
LEMMA ReadCodeKeeps ==
    ASSUME VouchersInv, NEW d \in Desks, NEW c \in IssuedCodes, NEW ops \in SUBSET {"code", "disable", "enable"},
           GetGiftCardCode(d, c, ops)
    PROVE  VouchersInv'
<1>1. PICK op \in ops : desks' = [desks EXCEPT ![d] = [op |-> op, id |-> c, seen |-> vouchers[c]]]
  BY DEF GetGiftCardCode
<1>2. DeskOK([op |-> op, id |-> c, seen |-> vouchers[c]])
  <2>1. vouchers[c] \in Voucher /\ vouchers[c].status # "deleted"
    BY CodeOfInv DEF GetGiftCardCode
  <2> QED BY <2>1 DEF DeskOK
<1>3. UNCHANGED vouchers /\ OnlyCodes /\ IssuedCodes \subseteq IssuedCodes'
  BY DEF GetGiftCardCode, IssuedCodes
<1>4. DesksOK'
  BY <1>1, <1>2, <1>3, DeskTaken DEF VouchersInv, VouchersTypeOK
<1> QED BY <1>3, <1>4, SameEdits, EditsKeep

-----------------------------------------------------------------------------
\* Templates.

\* An action that changes templates and nothing else the invariant reads.
LEMMA CardsKeep ==
    ASSUME VouchersInv, CardsOK', DesksOK', OnlyCards,
           \A c \in IssuedCodes : vouchers[c].status # "deleted" =>
               Snapped(vouchers[c].snap, cards'[vouchers[c].template])
    PROVE  VouchersInv'
<1>1. IssuedCodes' = IssuedCodes /\ (\A c : UsagesOf(c)' = UsagesOf(c)) /\ (\A k : SalesOf(k)' = SalesOf(k))
  BY DEF IssuedCodes, UsagesOf, SalesOf, OnlyCards
<1>2. VouchersTypeOK'
  BY <1>1 DEF VouchersInv, VouchersTypeOK, UsagesOK, OnlyCards
<1>3. CodesSound'
  BY <1>1 DEF VouchersInv, CodesSound, CodeSound, OnlyCards
<1>4. SnapsSound'
  BY <1>1 DEF SnapsSound, Snapped, OnlyCards
<1>5. WalletsSound' /\ CouponsSound'
  BY <1>1 DEF VouchersInv, WalletsSound, CouponsSound, OnlyCards
<1> QED BY <1>2, <1>3, <1>4, <1>5 DEF VouchersInv

LEMMA DesksWithCards == ASSUME VouchersInv, OnlyCards, UNCHANGED desks PROVE DesksOK'
BY DesksKept DEF OnlyCards, IssuedCodes, VouchersInv, VouchersTypeOK

\* Templates of codes that were not deleted.
LEMMA SnapsAside ==
    ASSUME VouchersInv, NEW t \in Templates,
           \A s \in Templates \ {t} : cards'[s] = cards[s],
           CodesOf(t) # {} => \A snap : Snapped(snap, cards[t]) => Snapped(snap, cards'[t])
    PROVE  \A c \in IssuedCodes : vouchers[c].status # "deleted" =>
               Snapped(vouchers[c].snap, cards'[vouchers[c].template])
<1> SUFFICES ASSUME NEW c \in IssuedCodes, vouchers[c].status # "deleted"
             PROVE  Snapped(vouchers[c].snap, cards'[vouchers[c].template])
  OBVIOUS
<1>1. vouchers[c].template \in Templates
  BY CodeOfInv DEF Voucher
<1>2. Snapped(vouchers[c].snap, cards[vouchers[c].template])
  BY DEF VouchersInv, SnapsSound
<1>3. CASE vouchers[c].template = t
  <2>1. c \in CodesOf(t)
    BY <1>3 DEF CodesOf
  <2> QED BY <1>2, <1>3, <2>1
<1>4. CASE vouchers[c].template # t
  BY <1>1, <1>2, <1>4
<1> QED BY <1>3, <1>4

LEMMA NoCardIsNoForm == NoCard \notin Forms
<1>1. ASSUME NEW f \in Forms PROVE f # NoCard
  <2>1. DOMAIN f = {"type", "on", "perUser", "share", "festival", "rewards", "who", "cooldown", "validity"}
    BY VoucherConstants
  <2>2. DOMAIN NoCard = {"type"}
    BY DEF NoCard
  <2>3. "on" \in DOMAIN f /\ "on" \notin DOMAIN NoCard
    BY <2>1, <2>2
  <2> QED BY <2>3
<1> QED BY <1>1

LEMMA CardSet ==
    ASSUME VouchersInv, NEW t \in Templates, NEW f, f = NoCard \/ GoodForm(f), cards' = [cards EXCEPT ![t] = f]
    PROVE  CardsOK' /\ cards'[t] = f /\ \A s \in Templates \ {t} : cards'[s] = cards[s]
<1>1. CardsOK
  BY DEF VouchersInv, VouchersTypeOK
<1>2. f \in Forms \cup {NoCard}
  BY DEF GoodForm
<1>3. cards' \in [Templates -> Forms \cup {NoCard}] /\ cards'[t] = f /\ \A s \in Templates \ {t} : cards'[s] = cards[s]
  BY <1>1, <1>2 DEF CardsOK
<1>4. ASSUME NEW s \in Templates PROVE cards'[s] = NoCard \/ GoodForm(cards'[s])
  BY <1>1, <1>3 DEF CardsOK
<1>5. \A s \in Templates : (cards[s] = NoCard \/ GoodForm(cards[s]))'
  BY <1>4 DEF GoodForm, normalizeGiftCardTemplate, validateGiftCardReward
<1> QED BY <1>3, <1>5 DEF CardsOK

LEMMA CreateCardKeeps == ASSUME VouchersInv, NEW t \in Templates, CreateGiftCardTemplate(t) PROVE VouchersInv'
<1>1. PICK f \in Forms : normalizeGiftCardTemplate(f) /\ cards' = [cards EXCEPT ![t] = f]
  BY DEF CreateGiftCardTemplate
<1>2. CardsOK' /\ cards'[t] = f /\ \A s \in Templates \ {t} : cards'[s] = cards[s]
  BY <1>1, CardSet DEF GoodForm
<1>3. cards[t] \notin Forms
  BY NoCardIsNoForm DEF CreateGiftCardTemplate
<1>4. OnlyCards /\ DesksOK'
  BY DesksWithCards DEF CreateGiftCardTemplate
<1>5. \A c \in IssuedCodes : vouchers[c].status # "deleted" =>
               Snapped(vouchers[c].snap, cards'[vouchers[c].template])
  BY <1>2, <1>3, SnapsAside DEF Snapped
<1> QED BY <1>2, <1>4, <1>5, CardsKeep

LEMMA DeleteCardKeeps == ASSUME VouchersInv, NEW t \in Templates, DeleteGiftCardTemplate(t) PROVE VouchersInv'
<1>1. CardsOK' /\ cards'[t] = NoCard /\ \A s \in Templates \ {t} : cards'[s] = cards[s]
  BY CardSet DEF DeleteGiftCardTemplate
<1>2. CodesOf(t) = {} /\ OnlyCards /\ DesksOK'
  BY DesksWithCards DEF DeleteGiftCardTemplate
<1>3. \A c \in IssuedCodes : vouchers[c].status # "deleted" =>
               Snapped(vouchers[c].snap, cards'[vouchers[c].template])
  BY <1>1, <1>2, SnapsAside
<1> QED BY <1>1, <1>2, <1>3, CardsKeep

LEMMA ReadCardKeeps ==
    ASSUME VouchersInv, NEW d \in Desks, NEW t \in Templates, GetGiftCardTemplate(d, t) PROVE VouchersInv'
<1>1. cards[t] \in Forms
  BY DEF GetGiftCardTemplate, VouchersInv, VouchersTypeOK, CardsOK
<1>2. DeskOK([op |-> "template", id |-> t, seen |-> cards[t]])
  BY <1>1 DEF DeskOK
<1>3. desks' = [desks EXCEPT ![d] = [op |-> "template", id |-> t, seen |-> cards[t]]] /\ OnlyCards /\ UNCHANGED cards
  BY DEF GetGiftCardTemplate
<1>4. DesksOK'
  <2>1. IssuedCodes \subseteq IssuedCodes'
    BY <1>3 DEF OnlyCards, IssuedCodes
  <2> QED BY <1>2, <1>3, <2>1, DeskTaken DEF VouchersInv, VouchersTypeOK
<1>5. CardsOK'
  BY <1>3 DEF VouchersInv, VouchersTypeOK, CardsOK, GoodForm, normalizeGiftCardTemplate, validateGiftCardReward
<1> QED BY <1>3, <1>4, <1>5, CardsKeep DEF VouchersInv, SnapsSound

LEMMA UpdateCardKeeps == ASSUME VouchersInv, NEW d \in Desks, UpdateGiftCardTemplate(d) PROVE VouchersInv'
<1>1. desks[d].id \in Templates
  BY DeskWithTemplate DEF UpdateGiftCardTemplate, VouchersInv, VouchersTypeOK
<1>2. PICK t \in Templates : t = desks[d].id
  BY <1>1
<1>3. OnlyCards /\ desks' = [desks EXCEPT ![d] = FreeDesk] /\ IssuedCodes \subseteq IssuedCodes'
  BY DEF UpdateGiftCardTemplate, OnlyCards, IssuedCodes
<1>4. DesksOK'
  BY <1>3, DeskFreed, DeskTaken DEF VouchersInv, VouchersTypeOK
<1>5. \/ UNCHANGED cards
      \/ \E f \in Forms : /\ normalizeGiftCardTemplate(f) /\ cards' = [cards EXCEPT ![t] = f]
                          /\ ~(CodesOf(t) # {} /\ f.type # cards[t].type /\ "purchase" \in {f.type, cards[t].type})
  BY <1>2 DEF UpdateGiftCardTemplate
<1>6. CASE UNCHANGED cards
  <2>1. CardsOK'
    BY <1>6 DEF VouchersInv, VouchersTypeOK, CardsOK, GoodForm, normalizeGiftCardTemplate, validateGiftCardReward
  <2> QED BY <1>3, <1>4, <1>6, <2>1, CardsKeep DEF VouchersInv, SnapsSound
<1>7. CASE \E f \in Forms : /\ normalizeGiftCardTemplate(f) /\ cards' = [cards EXCEPT ![t] = f]
                          /\ ~(CodesOf(t) # {} /\ f.type # cards[t].type /\ "purchase" \in {f.type, cards[t].type})
  <2>1. PICK f \in Forms : /\ normalizeGiftCardTemplate(f) /\ cards' = [cards EXCEPT ![t] = f]
                           /\ ~(CodesOf(t) # {} /\ f.type # cards[t].type /\ "purchase" \in {f.type, cards[t].type})
    BY <1>7
  <2>2. CardsOK' /\ cards'[t] = f /\ \A s \in Templates \ {t} : cards'[s] = cards[s]
    BY <2>1, CardSet DEF GoodForm
  <2>3. CodesOf(t) # {} => \A snap : Snapped(snap, cards[t]) => Snapped(snap, f)
    BY <2>1 DEF Snapped
  <2>4. \A c \in IssuedCodes : vouchers[c].status # "deleted" =>
               Snapped(vouchers[c].snap, cards'[vouchers[c].template])
    BY <2>2, <2>3, SnapsAside
  <2> QED BY <1>3, <1>4, <2>2, <2>4, CardsKeep
<1> QED BY <1>5, <1>6, <1>7

-----------------------------------------------------------------------------
\* A code is issued.
LEMMA GenerateKeeps == ASSUME VouchersInv, NEW t \in Templates, GenerateGiftCardCodes(t) PROVE VouchersInv'
<1>1. PICK max \in 1..MaxUses, life \in CodeLives :
        vouchers' = Append(vouchers, [template |-> t, status |-> "active", used |-> 0, max |-> max, life |-> life,
                                      snap |-> purchaseSnapshot(t)])
  BY DEF GenerateGiftCardCodes
<1>2. PICK v : v = [template |-> t, status |-> "active", used |-> 0, max |-> max, life |-> life, snap |-> purchaseSnapshot(t)]
  OBVIOUS
<1>3. cards[t] \in Forms /\ OnlyCodes /\ UNCHANGED desks
  BY DEF GenerateGiftCardCodes, VouchersInv, VouchersTypeOK, CardsOK
<1>4. v \in Voucher
  <2>1. purchaseSnapshot(t) \in PlanState \cup {Nothing}
    BY DEF purchaseSnapshot, VouchersInv, VouchersTypeOK
  <2>2. max \in Nat /\ life \in Int
    BY VoucherConstants
  <2> QED BY <1>2, <2>1, <2>2 DEF Voucher, CodeStatuses
<1>5. vouchers \in Seq(Voucher) /\ vouchers' = Append(vouchers, v)
  BY <1>1, <1>2 DEF VouchersInv, VouchersTypeOK
<1>6. PICK n : n = Len(vouchers) + 1
  OBVIOUS
<1>7. /\ vouchers' \in Seq(Voucher) /\ IssuedCodes' = IssuedCodes \cup {n} /\ n \notin IssuedCodes
      /\ vouchers'[n] = v /\ \A c \in IssuedCodes : vouchers'[c] = vouchers[c]
  BY <1>4, <1>5, <1>6, Appended DEF IssuedCodes
<1>8. (\A c : UsagesOf(c)' = UsagesOf(c)) /\ (\A k : SalesOf(k)' = SalesOf(k))
  BY <1>3 DEF UsagesOf, SalesOf, OnlyCodes
<1>9. VouchersTypeOK'
  <2>1. CardsOK'
    BY <1>3 DEF VouchersInv, VouchersTypeOK, CardsOK, OnlyCodes, GoodForm, normalizeGiftCardTemplate, validateGiftCardReward
  <2>2. UsagesOK'
    BY <1>3, <1>7 DEF VouchersInv, VouchersTypeOK, UsagesOK, OnlyCodes
  <2>3. DesksOK'
    BY <1>3, <1>7, DesksKept DEF VouchersInv, VouchersTypeOK
  <2> QED BY <1>3, <1>7, <2>1, <2>2, <2>3 DEF VouchersInv, VouchersTypeOK, OnlyCodes
<1>10. CodesSound'
  <2>1. UsagesOf(n) = {}
    BY <1>7 DEF UsagesOf, VouchersInv, VouchersTypeOK, UsagesOK
  <2>2. CodeSound(v, Cardinality(UsagesOf(n)))
    <3>1. v.used = 0 /\ v.max = max /\ v.status = "active" /\ max \in Nat \ {0}
      BY <1>2, VoucherConstants
    <3> QED BY <2>1, <3>1, FS_EmptySet DEF CodeSound
  <2>3. \A c \in IssuedCodes : CodeSound(vouchers[c], Cardinality(UsagesOf(c)))
    BY DEF VouchersInv, CodesSound
  <2>4. \A c \in IssuedCodes' : CodeSound(vouchers'[c], Cardinality(UsagesOf(c)))
    BY <1>7, <2>2, <2>3
  <2> QED BY <1>8, <2>4 DEF CodesSound
<1>11. SnapsSound'
  <2>1. Snapped(v.snap, cards[v.template])
    BY <1>2, <1>3 DEF purchaseSnapshot, Snapped, VouchersInv, VouchersTypeOK
  <2>2. \A c \in IssuedCodes' : vouchers'[c].status # "deleted" => Snapped(vouchers'[c].snap, cards[vouchers'[c].template])
    BY <1>7, <2>1 DEF VouchersInv, SnapsSound
  <2> QED BY <1>3, <2>2 DEF SnapsSound, Snapped, OnlyCodes
<1>12. WalletsSound' /\ CouponsSound'
  BY <1>3, <1>8 DEF VouchersInv, WalletsSound, CouponsSound, OnlyCodes
<1> QED BY <1>9, <1>10, <1>11, <1>12 DEF VouchersInv

-----------------------------------------------------------------------------
\* Rewards.

LEMMA MultiplyNat ==
    ASSUME NEW value \in Nat, NEW rate \in Nat
    PROVE  multiplyGiftCardInt64(value, rate) \in Nat /\ multiplyGiftCardInt64(0, rate) = 0
<1>0. Base \in Nat \ {0}
  BY VoucherConstants
<1>1. value \div Base \in Nat /\ value % Base \in Nat /\ 0 \div Base = 0 /\ 0 % Base = 0
  BY <1>0
<1>2. PICK a \in Nat, b \in Nat : a = value \div Base /\ b = value % Base
  BY <1>1
<1>3. a * rate \in Nat /\ b * rate \in Nat /\ 0 * rate = 0
  OBVIOUS
<1>4. PICK p \in Nat, q \in Nat : p = a * rate /\ q = b * rate
  BY <1>3
<1>5. q \div Base \in Nat
  BY <1>0
<1>6. multiplyGiftCardInt64(value, rate) = p + q \div Base
  BY <1>2, <1>4 DEF multiplyGiftCardInt64
<1>7. multiplyGiftCardInt64(0, rate) = 0 + 0
  BY <1>1, <1>3, Zenon DEF multiplyGiftCardInt64
<1> QED BY <1>5, <1>6, <1>7

LEMMA DrawnRewards ==
    ASSUME NEW card, GoodForm(card), NEW reward \in Drawn(card)
    PROVE  reward \in Reward /\ (card.type = "plan" => reward.money = 0)
<1>1. PICK r \in card.rewards : reward = multiplyGiftCardReward(r, card.festival)
  BY DEF Drawn, selectGiftCardMysteryReward
<1>2. card.festival \in Nat /\ card.rewards \subseteq Reward
  BY VoucherConstants DEF GoodForm, Reward
<1>3. r.money \in Nat /\ r.traffic \in Nat
  BY <1>2 DEF Reward
<1>4. multiplyGiftCardInt64(r.money, card.festival) \in Nat /\ multiplyGiftCardInt64(r.traffic, card.festival) \in Nat
  BY <1>2, <1>3, MultiplyNat
<1>5. reward \in Reward /\ reward.money = multiplyGiftCardInt64(r.money, card.festival)
  BY <1>1, <1>4 DEF multiplyGiftCardReward, Reward
<1>6. card.type = "plan" => r.money = 0
  BY DEF GoodForm, normalizeGiftCardTemplate, validateGiftCardReward
<1>7. multiplyGiftCardInt64(0, card.festival) = 0
  BY <1>2, MultiplyNat
<1> QED BY <1>5, <1>6, <1>7

LEMMA SharesOf ==
    ASSUME NEW card, GoodForm(card), NEW u \in Redeemers, NEW reward \in Reward
    PROVE  /\ InviterShare(card, u, reward) \in Reward
           /\ InviterOf[u] = Nothing => InviterShare(card, u, reward).money = 0
<1>1. CASE InviterOf[u] = Nothing
  BY <1>1 DEF InviterShare, Reward
<1>2. CASE InviterOf[u] # Nothing
  <2>1. card.share \in Nat /\ reward.money \in Nat /\ reward.traffic \in Nat
    BY VoucherConstants DEF GoodForm, Reward
  <2>2. multiplyGiftCardInt64(reward.money, card.share) \in Nat /\ multiplyGiftCardInt64(reward.traffic, card.share) \in Nat
    BY <2>1, MultiplyNat
  <2> QED BY <1>2, <2>2 DEF InviterShare, multiplyGiftCardReward, Reward
<1> QED BY <1>1, <1>2

\* What a use gave adds up as the weights of the entries do.
LEMMA GivenWeight ==
    ASSUME NEW s \in Seq(Use), NEW u
    PROVE  SumFunction([i \in DOMAIN s |-> GivenTo(u, s[i])]) = Weight([x \in Use |-> GivenTo(u, x)], s)
<1> DEFINE f == [i \in DOMAIN s |-> GivenTo(u, s[i])]
           w == [x \in Use |-> GivenTo(u, x)]
           g == [i \in DOMAIN s |-> w[s[i]]]
<1>1. \A i \in DOMAIN s : s[i] \in Use
  OBVIOUS
<1>2. f = g
  BY <1>1
<1>3. DOMAIN f = DOMAIN s
  OBVIOUS
<1> HIDE DEF f, g
<1>4. SumFunction(f) = SumFunctionOnSet(g, DOMAIN s)
  BY <1>2, <1>3, Zenon DEF SumFunction
<1> QED BY <1>4, Zenon DEF Weight, f, g

LEMMA GivenInt == ASSUME NEW u, NEW x \in Use PROVE GivenTo(u, x) \in Int
<1>1. x.reward.money \in Int /\ x.share.money \in Int
  BY DEF Use, Reward
<1> QED BY <1>1 DEF GivenTo

LEMMA GivenAppend ==
    ASSUME NEW s \in Seq(Use), NEW x \in Use, NEW u
    PROVE  /\ SumFunction([i \in DOMAIN s |-> GivenTo(u, s[i])]) \in Int
           /\ SumFunction([i \in DOMAIN Append(s, x) |-> GivenTo(u, Append(s, x)[i])])
              = SumFunction([i \in DOMAIN s |-> GivenTo(u, s[i])]) + GivenTo(u, x)
<1> DEFINE w == [y \in Use |-> GivenTo(u, y)]
<1>1. (\A y \in Use : w[y] \in Int) /\ w[x] = GivenTo(u, x)
  BY GivenInt
<1>2. Append(s, x) \in Seq(Use)
  OBVIOUS
<1> HIDE DEF w
<1>3. Weight(w, s) \in Int /\ Weight(w, Append(s, x)) = Weight(w, s) + w[x]
  BY <1>1, WeightAppend
<1> QED BY <1>1, <1>2, <1>3, GivenWeight DEF w

\* What a redemption does to the wallets: each gets what the use records for it.
LEMMA PurchaseGives ==
    ASSUME NEW w \in Wallet, NEW snap \in PlanState
    PROVE  LET v == [w EXCEPT !.plan = "plan",
                       !.traffic = IF w.plan = Nothing THEN snap.traffic
                                   ELSE w.traffic + (IF snap.months = -1 THEN snap.traffic ELSE 0),
                       !.months = IF snap.months = -1 THEN -1
                                  ELSE (IF w.plan # Nothing THEN w.months ELSE 0) + snap.months]
           IN v \in Wallet /\ v.money = w.money
<1>1. PICK tr : tr = IF w.plan = Nothing THEN snap.traffic
                     ELSE w.traffic + (IF snap.months = -1 THEN snap.traffic ELSE 0)
  OBVIOUS
<1>2. PICK mo : mo = IF snap.months = -1 THEN -1 ELSE (IF w.plan # Nothing THEN w.months ELSE 0) + snap.months
  OBVIOUS
<1>3. snap.traffic \in Int /\ snap.months \in Int /\ w.traffic \in Int /\ w.months \in Int
  BY DEF PlanState, Wallet
<1>4. tr \in Int /\ mo \in Int
  BY <1>1, <1>2, <1>3
<1>5. PICK v : v = [w EXCEPT !.plan = "plan", !.traffic = tr, !.months = mo]
  OBVIOUS
<1>6. v \in Wallet /\ v.money = w.money
  BY <1>4, <1>5 DEF Wallet
<1> QED BY <1>1, <1>2, <1>5, <1>6

LEMMA PlanMonthsCount ==
    ASSUME VouchersInv, NEW u \in Redeemers, NEW t \in Templates, GoodForm(cards[t]) PROVE PlanMonths(u, t) \in Int
<1>1. cards[t].validity \in Nat /\ cards[t].festival \in Nat
  BY VoucherConstants DEF GoodForm
<1>2. multiplyGiftCardInt64(cards[t].validity, cards[t].festival) \in Nat
  BY <1>1, MultiplyNat
<1>3. wallets[u].months \in Int
  BY DEF VouchersInv, VouchersTypeOK, Wallet
<1> QED BY <1>2, <1>3 DEF PlanMonths

LEMMA RewardGives ==
    ASSUME VouchersInv, NEW u \in Redeemers, NEW t \in Templates, NEW reward \in Reward, GoodForm(cards[t]),
           cards[t].type = "plan" => reward.money = 0
    PROVE  /\ applyGiftCardReward(u, t, reward) \in Wallet
           /\ applyGiftCardReward(u, t, reward).money = wallets[u].money + reward.money
<1>1. wallets[u] \in Wallet /\ plan.traffic \in Int /\ PlanMonths(u, t) \in Int
  BY PlanMonthsCount DEF VouchersInv, VouchersTypeOK, PlanState
<1>2. PICK w \in Wallet : w = wallets[u]
  BY <1>1
<1>3. reward.money \in Nat /\ reward.traffic \in Nat /\ w.money \in Nat /\ w.traffic \in Int
  BY DEF Reward, Wallet
<1>4. CASE cards[t].type = "plan"
  <2>1. PICK v : v = [w EXCEPT !.plan = "plan", !.traffic = plan.traffic, !.months = PlanMonths(u, t)]
    OBVIOUS
  <2>2. v \in Wallet /\ v.money = w.money
    BY <1>1, <2>1 DEF Wallet
  <2> QED BY <1>2, <1>3, <1>4, <2>1, <2>2 DEF applyGiftCardReward
<1>5. CASE cards[t].type # "plan"
  <2>0. PICK a \in Nat, b \in Int : a = w.money + reward.money /\ b = w.traffic + reward.traffic
    BY <1>3
  <2>1. PICK v : v = [w EXCEPT !.money = a, !.traffic = b]
    OBVIOUS
  <2>2. v \in Wallet /\ v.money = a
    BY <2>1 DEF Wallet
  <2>3. applyGiftCardReward(u, t, reward) = v
    BY <1>2, <1>5, <2>0, <2>1 DEF applyGiftCardReward
  <2> QED BY <1>2, <2>0, <2>2, <2>3
<1> QED BY <1>4, <1>5

LEMMA InviterGets ==
    ASSUME NEW mine \in [Redeemers -> Wallet], NEW u \in Redeemers, NEW share \in Reward,
           InviterOf[u] = Nothing => share.money = 0
    PROVE  /\ applyGiftCardInviterReward(u, mine, share) \in [Redeemers -> Wallet]
           /\ \A v \in Redeemers : applyGiftCardInviterReward(u, mine, share)[v].money
                                   = mine[v].money + (IF InviterOf[u] = v THEN share.money ELSE 0)
<1>0. \A v \in Redeemers : mine[v].money \in Nat
  BY DEF Wallet
<1>1. CASE InviterOf[u] = Nothing
  <2>1. applyGiftCardInviterReward(u, mine, share) = mine /\ share.money = 0
    BY <1>1 DEF applyGiftCardInviterReward
  <2> QED BY <1>0, <2>1
<1>2. CASE InviterOf[u] # Nothing
  <2>1. InviterOf[u] \in Redeemers
    BY <1>2, VoucherConstants
  <2>2. PICK i \in Redeemers : i = InviterOf[u]
    BY <2>1
  <2>3. share.money \in Nat /\ share.traffic \in Nat /\ mine[i].money \in Nat /\ mine[i].traffic \in Int
    BY DEF Reward, Wallet
  <2>4. PICK a \in Nat, b \in Int : a = mine[i].money + share.money /\ b = mine[i].traffic + share.traffic
    BY <2>3
  <2>5. PICK w : w = [mine[i] EXCEPT !.money = a, !.traffic = b]
    OBVIOUS
  <2>6. w \in Wallet /\ w.money = a
    BY <2>5 DEF Wallet
  <2>7. applyGiftCardInviterReward(u, mine, share) = [mine EXCEPT ![i] = w]
    BY <1>2, <2>2, <2>4, <2>5 DEF applyGiftCardInviterReward
  <2> QED BY <1>0, <2>2, <2>4, <2>6, <2>7
<1> QED BY <1>1, <1>2

LEMMA RedeemGives ==
    ASSUME VouchersInv, NEW u \in Redeemers, NEW c \in IssuedCodes, RedeemGiftCard(u, c)
    PROVE  \E x \in Use : /\ x.code = c /\ usages' = Append(usages, x)
                          /\ wallets' \in [Redeemers -> Wallet]
                          /\ \A v \in Redeemers : wallets'[v].money = wallets[v].money + GivenTo(v, x)
<1>1. PICK t : t = vouchers[c].template
  OBVIOUS
<1>2. vouchers[c] \in Voucher /\ t \in Templates /\ vouchers[c].status # "deleted"
  BY <1>1, CodeOfInv DEF Voucher, RedeemGiftCard, checkGiftCard
<1>3. Snapped(vouchers[c].snap, cards[t]) /\ GoodForm(cards[t])
  <2>1. Snapped(vouchers[c].snap, cards[t])
    BY <1>1, <1>2 DEF VouchersInv, SnapsSound
  <2> QED BY <1>2, <2>1, NoCardIsNoForm DEF Snapped, VouchersInv, VouchersTypeOK, CardsOK
<1>4. wallets \in [Redeemers -> Wallet] /\ c \in Nat
  BY DEF VouchersInv, VouchersTypeOK, IssuedCodes
<1>5. ASSUME NEW reward \in Reward, NEW share \in Reward
      PROVE  /\ Usage(u, c, reward, share) \in Use /\ Usage(u, c, reward, share).code = c
             /\ Usage(u, c, reward, share).user = u /\ Usage(u, c, reward, share).reward = reward
             /\ Usage(u, c, reward, share).share = share
  BY <1>1, <1>2, <1>4 DEF Usage, Use
<1>6. CASE /\ cards[t].type = "purchase"
           /\ wallets' = [wallets EXCEPT ![u] = applyGiftPurchase(u, vouchers[c].snap)]
           /\ usages' = Append(usages, Usage(u, c, [money |-> 0, traffic |-> 0], [money |-> 0, traffic |-> 0]))
  <2>1. PICK zero \in Reward : zero = [money |-> 0, traffic |-> 0]
    BY DEF Reward
  <2>2. zero.money = 0
    BY <2>1
  <2>3. PICK x \in Use : x = Usage(u, c, zero, zero)
    BY <1>5
  <2>4. x.code = c /\ x.reward.money = 0 /\ x.share.money = 0 /\ usages' = Append(usages, x)
    BY <1>5, <1>6, <2>1, <2>2, <2>3
  <2>5. PICK w : w = applyGiftPurchase(u, vouchers[c].snap)
    OBVIOUS
  <2>6. w \in Wallet /\ w.money = wallets[u].money
    BY <1>3, <1>4, <1>6, <2>5, PurchaseGives DEF applyGiftPurchase, Snapped
  <2>7. wallets' \in [Redeemers -> Wallet] /\ \A v \in Redeemers : wallets'[v].money = wallets[v].money
    BY <1>4, <1>6, <2>5, <2>6
  <2>8. ASSUME NEW v \in Redeemers PROVE wallets'[v].money = wallets[v].money + GivenTo(v, x)
    <3>1. GivenTo(v, x) = 0
      BY <2>4 DEF GivenTo
    <3>2. wallets[v].money \in Nat
      BY <1>4 DEF Wallet
    <3> QED BY <2>7, <3>1, <3>2
  <2> QED BY <2>4, <2>7, <2>8
<1>7. CASE \E reward \in Drawn(cards[t]) :
                LET share == InviterShare(cards[t], u, reward)
                    mine == [wallets EXCEPT ![u] = applyGiftCardReward(u, t, reward)]
                IN
                /\ wallets' = applyGiftCardInviterReward(u, mine, share)
                /\ usages' = Append(usages, Usage(u, c, reward, share))
  <2>1. PICK reward \in Drawn(cards[t]) :
                LET share == InviterShare(cards[t], u, reward)
                    mine == [wallets EXCEPT ![u] = applyGiftCardReward(u, t, reward)]
                IN
                /\ wallets' = applyGiftCardInviterReward(u, mine, share)
                /\ usages' = Append(usages, Usage(u, c, reward, share))
    BY <1>7
  <2>2. reward \in Reward /\ (cards[t].type = "plan" => reward.money = 0)
    BY <1>3, DrawnRewards
  <2>3. PICK share \in Reward : share = InviterShare(cards[t], u, reward) /\ (InviterOf[u] = Nothing => share.money = 0)
    BY <1>3, <2>2, SharesOf
  <2>4. PICK w \in Wallet : w = applyGiftCardReward(u, t, reward) /\ w.money = wallets[u].money + reward.money
    BY <1>2, <1>3, <2>2, RewardGives
  <2>5. PICK mine \in [Redeemers -> Wallet] : mine = [wallets EXCEPT ![u] = w]
    BY <1>4
  <2>6. mine[u] = w /\ \A v \in Redeemers \ {u} : mine[v] = wallets[v]
    BY <1>4, <2>5
  <2>7. wallets' = applyGiftCardInviterReward(u, mine, share) /\ usages' = Append(usages, Usage(u, c, reward, share))
    BY <2>1, <2>3, <2>4, <2>5
  <2>8. /\ wallets' \in [Redeemers -> Wallet]
        /\ \A v \in Redeemers : wallets'[v].money = mine[v].money + (IF InviterOf[u] = v THEN share.money ELSE 0)
    BY <2>3, <2>7, InviterGets
  <2>9. PICK x \in Use : x = Usage(u, c, reward, share) /\ x.code = c /\ x.user = u /\ x.reward = reward /\ x.share = share
    BY <1>5, <2>2
  <2>10. ASSUME NEW v \in Redeemers PROVE wallets'[v].money = wallets[v].money + GivenTo(v, x)
    <3>1. wallets[v].money \in Nat /\ reward.money \in Nat /\ share.money \in Nat
      BY <1>4, <2>2 DEF Wallet, Reward
    <3>2. mine[v].money = wallets[v].money + (IF u = v THEN reward.money ELSE 0)
      BY <2>4, <2>6, <3>1
    <3>3. GivenTo(v, x) = (IF u = v THEN reward.money ELSE 0) + (IF InviterOf[u] = v THEN share.money ELSE 0)
      BY <2>9 DEF GivenTo
    <3> QED BY <2>8, <3>1, <3>2, <3>3
  <2> QED BY <2>7, <2>8, <2>9, <2>10
<1> QED BY <1>1, <1>6, <1>7 DEF RedeemGiftCard

LEMMA ClaimedSound ==
    ASSUME NEW v \in Voucher, NEW n \in Nat, CodeSound(v, n), v.used < v.max, v.status # "deleted"
    PROVE  LET w == [v EXCEPT !.used = @ + 1, !.status = IF v.used + 1 >= v.max THEN "used" ELSE "active"]
           IN  /\ w \in Voucher /\ CodeSound(w, n + 1) /\ w.status # "deleted"
               /\ w.template = v.template /\ w.snap = v.snap
<1>1. v.used \in Nat /\ v.max \in Nat
  BY DEF Voucher
<1>2. PICK st \in {"used", "active"} : st = IF v.used + 1 >= v.max THEN "used" ELSE "active"
  OBVIOUS
<1>3. PICK m \in Nat : m = v.used + 1
  BY <1>1
<1>4. PICK w : w = [v EXCEPT !.used = m, !.status = st]
  OBVIOUS
<1>5. st \in CodeStatuses
  BY DEF CodeStatuses
<1>6. /\ w \in Voucher /\ w.used = m /\ w.status = st /\ w.max = v.max
      /\ w.template = v.template /\ w.snap = v.snap
  BY <1>4, <1>5 DEF Voucher
<1>7. CodeSound(w, n + 1) /\ st # "deleted"
  BY <1>1, <1>2, <1>3, <1>6 DEF CodeSound
<1>8. w = [v EXCEPT !.used = @ + 1, !.status = IF v.used + 1 >= v.max THEN "used" ELSE "active"]
  BY <1>2, <1>3, <1>4
<1> QED BY <1>6, <1>7, <1>8

LEMMA RedeemKeeps ==
    ASSUME VouchersInv, NEW u \in Redeemers, NEW c \in IssuedCodes, RedeemGiftCard(u, c) PROVE VouchersInv'
<1>1. PICK x \in Use : /\ x.code = c /\ usages' = Append(usages, x)
                       /\ wallets' \in [Redeemers -> Wallet]
                       /\ \A v \in Redeemers : wallets'[v].money = wallets[v].money + GivenTo(v, x)
  BY RedeemGives
<1>2. UNCHANGED <<cards, plan, desks, edits, coupons, sales>> /\ vouchers' = ClaimedUse(c)
  BY DEF RedeemGiftCard
<1>3. vouchers \in Seq(Voucher) /\ usages \in Seq(Use) /\ c \in DOMAIN vouchers
  BY DEF VouchersInv, VouchersTypeOK, UsagesOK, IssuedCodes
<1>4. vouchers[c] \in Voucher /\ CodeSound(vouchers[c], Cardinality(UsagesOf(c))) /\ Cardinality(UsagesOf(c)) \in Nat
  BY <1>3, CodeOfInv, UsesCount
<1>5. vouchers[c].used < vouchers[c].max /\ vouchers[c].status # "deleted"
  BY DEF RedeemGiftCard, checkGiftCard, MayBeActive
<1>6. PICK w : /\ w = [vouchers[c] EXCEPT !.used = @ + 1,
                                          !.status = IF vouchers[c].used + 1 >= vouchers[c].max THEN "used" ELSE "active"]
               /\ w \in Voucher /\ CodeSound(w, Cardinality(UsagesOf(c)) + 1) /\ w.status # "deleted"
               /\ w.template = vouchers[c].template /\ w.snap = vouchers[c].snap
  BY <1>4, <1>5, ClaimedSound
<1>7. vouchers' = [vouchers EXCEPT ![c] = w]
  BY <1>2, <1>3, <1>6 DEF ClaimedUse
<1>8. /\ vouchers' \in Seq(Voucher) /\ DOMAIN vouchers' = DOMAIN vouchers /\ vouchers'[c] = w
      /\ \A e \in DOMAIN vouchers \ {c} : vouchers'[e] = vouchers[e]
  BY <1>3, <1>6, <1>7
<1>9. IssuedCodes' = IssuedCodes
  BY <1>8 DEF IssuedCodes
<1>10. /\ usages' \in Seq(Use) /\ DOMAIN usages' = DOMAIN usages \cup {Len(usages) + 1}
       /\ usages'[Len(usages) + 1] = x /\ \A i \in DOMAIN usages : usages'[i] = usages[i]
  BY <1>1, <1>3, Appended
<1>11. \A e : Cardinality(UsagesOf(e)') = Cardinality(UsagesOf(e)) + (IF e = c THEN 1 ELSE 0)
  <2> SUFFICES ASSUME NEW e
               PROVE  Cardinality({i \in DOMAIN usages' : usages'[i].code = e})
                      = Cardinality(UsagesOf(e)) + (IF e = c THEN 1 ELSE 0)
    BY DEF UsagesOf
  <2> DEFINE M == {y \in Use : y.code = e}
  <2>1. UsagesOf(e) = Places(usages, M) /\ {i \in DOMAIN usages' : usages'[i].code = e} = Places(usages', M)
    BY <1>3, <1>10 DEF UsagesOf, Places
  <2>2. x \in M <=> e = c
    BY <1>1
  <2> HIDE DEF M
  <2>3. Cardinality(Places(Append(usages, x), M)) = Cardinality(Places(usages, M)) + (IF x \in M THEN 1 ELSE 0)
    BY <1>3, PlacesAppend
  <2> QED BY <1>1, <2>1, <2>2, <2>3
<1>12. VouchersTypeOK'
  <2>1. CardsOK'
    BY <1>2 DEF VouchersInv, VouchersTypeOK, CardsOK, GoodForm, normalizeGiftCardTemplate, validateGiftCardReward
  <2>2. UsagesOK'
    BY <1>1, <1>9, <1>10 DEF VouchersInv, VouchersTypeOK, UsagesOK
  <2>3. DesksOK'
    BY <1>2, <1>9, DesksKept DEF VouchersInv, VouchersTypeOK
  <2> QED BY <1>1, <1>2, <1>8, <2>1, <2>2, <2>3 DEF VouchersInv, VouchersTypeOK
<1>13. CodesSound'
  <2> SUFFICES ASSUME NEW e \in IssuedCodes PROVE CodeSound(vouchers'[e], Cardinality(UsagesOf(e)'))
    BY <1>9 DEF CodesSound
  <2>1. CASE e = c
    BY <1>6, <1>8, <1>11, <2>1
  <2>2. CASE e # c
    <3>1. vouchers'[e] = vouchers[e] /\ CodeSound(vouchers[e], Cardinality(UsagesOf(e))) /\ Cardinality(UsagesOf(e)) \in Nat
      BY <1>3, <1>8, <2>2, CodeOfInv, UsesCount DEF IssuedCodes
    <3> QED BY <1>11, <2>2, <3>1
  <2> QED BY <2>1, <2>2
<1>14. SnapsSound'
  <2>1. \A e \in IssuedCodes : /\ vouchers'[e].snap = vouchers[e].snap /\ vouchers'[e].template = vouchers[e].template
                               /\ vouchers'[e].status # "deleted" => vouchers[e].status # "deleted"
    BY <1>5, <1>6, <1>8 DEF IssuedCodes
  <2> QED BY <1>2, <1>9, <2>1 DEF VouchersInv, SnapsSound, Snapped
<1>15. WalletsSound'
  <2> SUFFICES ASSUME NEW v \in Redeemers
               PROVE  wallets'[v].money = SumFunction([i \in DOMAIN usages' |-> GivenTo(v, usages'[i])])
    BY DEF WalletsSound, GivenTo
  <2>1. wallets[v].money = SumFunction([i \in DOMAIN usages |-> GivenTo(v, usages[i])])
    BY DEF VouchersInv, WalletsSound
  <2>2. SumFunction([i \in DOMAIN Append(usages, x) |-> GivenTo(v, Append(usages, x)[i])])
        = SumFunction([i \in DOMAIN usages |-> GivenTo(v, usages[i])]) + GivenTo(v, x)
    BY <1>3, GivenAppend
  <2>3. usages' = Append(usages, x)
    BY <1>1
  <2>4. SumFunction([i \in DOMAIN usages' |-> GivenTo(v, usages'[i])])
        = SumFunction([i \in DOMAIN usages |-> GivenTo(v, usages[i])]) + GivenTo(v, x)
    BY <2>2, <2>3
  <2> QED BY <1>1, <2>1, <2>4
<1>16. CouponsSound'
  BY <1>2 DEF VouchersInv, CouponsSound, SalesOf
<1> QED BY <1>12, <1>13, <1>14, <1>15, <1>16 DEF VouchersInv

LEMMA EditPlanKeeps == ASSUME VouchersInv, EditPlan PROVE VouchersInv'
<1>1. UNCHANGED <<cards, vouchers, wallets, usages, desks, coupons, sales>>
  BY DEF EditPlan
<1>2. PICK n \in PlanTraffic : plan' = [plan EXCEPT !.traffic = n]
  BY DEF EditPlan
<1>3. plan' \in PlanState
  <2>1. n \in Nat /\ plan \in PlanState
    BY VoucherConstants DEF VouchersInv, VouchersTypeOK
  <2> QED BY <1>2, <2>1 DEF PlanState
<1>4. IssuedCodes' = IssuedCodes /\ (\A c : UsagesOf(c)' = UsagesOf(c)) /\ (\A k : SalesOf(k)' = SalesOf(k))
  BY <1>1 DEF IssuedCodes, UsagesOf, SalesOf
<1>5. VouchersTypeOK'
  <2>1. CardsOK' /\ UsagesOK'
    BY <1>1, <1>4 DEF VouchersInv, VouchersTypeOK, CardsOK, UsagesOK, GoodForm, normalizeGiftCardTemplate, validateGiftCardReward
  <2>3. DesksOK'
    BY <1>1, <1>4, DesksKept DEF VouchersInv, VouchersTypeOK
  <2> QED BY <1>1, <1>3, <2>1, <2>3 DEF VouchersInv, VouchersTypeOK
<1>6. CodesSound' /\ SnapsSound'
  BY <1>1, <1>4 DEF VouchersInv, CodesSound, CodeSound, SnapsSound, Snapped
<1>7. WalletsSound' /\ CouponsSound'
  BY <1>1, <1>4 DEF VouchersInv, WalletsSound, CouponsSound
<1> QED BY <1>5, <1>6, <1>7 DEF VouchersInv

LEMMA SetBannedKeeps == ASSUME VouchersInv, NEW u \in Redeemers, SetBanned(u) PROVE VouchersInv'
<1>1. UNCHANGED <<cards, vouchers, usages, plan, desks, coupons, sales>> /\ wallets' = [wallets EXCEPT ![u].banned = ~@]
  BY DEF SetBanned
<1>2. wallets \in [Redeemers -> Wallet]
  BY DEF VouchersInv, VouchersTypeOK
<1>3. PICK w \in Wallet : w = wallets[u]
  BY <1>2
<1>4. PICK b \in BOOLEAN : b = ~w.banned
  BY DEF Wallet
<1>5. PICK v : v = [w EXCEPT !.banned = b]
  OBVIOUS
<1>6. v \in Wallet /\ v.money = w.money /\ wallets' = [wallets EXCEPT ![u] = v]
  BY <1>1, <1>2, <1>3, <1>4, <1>5 DEF Wallet
<1>7. wallets' \in [Redeemers -> Wallet] /\ \A x \in Redeemers : wallets'[x].money = wallets[x].money
  BY <1>2, <1>3, <1>6
<1>8. IssuedCodes' = IssuedCodes /\ (\A c : UsagesOf(c)' = UsagesOf(c)) /\ (\A k : SalesOf(k)' = SalesOf(k))
  BY <1>1 DEF IssuedCodes, UsagesOf, SalesOf
<1>9. VouchersTypeOK'
  <2>1. CardsOK' /\ UsagesOK'
    BY <1>1, <1>8 DEF VouchersInv, VouchersTypeOK, CardsOK, UsagesOK, GoodForm, normalizeGiftCardTemplate, validateGiftCardReward
  <2>2. DesksOK'
    BY <1>1, <1>8, DesksKept DEF VouchersInv, VouchersTypeOK
  <2> QED BY <1>1, <1>7, <2>1, <2>2 DEF VouchersInv, VouchersTypeOK
<1>10. CodesSound' /\ SnapsSound'
  BY <1>1, <1>8 DEF VouchersInv, CodesSound, CodeSound, SnapsSound, Snapped
<1>11. WalletsSound' /\ CouponsSound'
  BY <1>1, <1>7, <1>8 DEF VouchersInv, WalletsSound, CouponsSound
<1> QED BY <1>9, <1>10, <1>11 DEF VouchersInv

LEMMA VouchersAgeKeeps == ASSUME VouchersInv, VouchersAge PROVE VouchersInv'
<1>1. /\ vouchers' = [c \in IssuedCodes |-> [vouchers[c] EXCEPT !.life = IF @ > 0 THEN @ - 1 ELSE @]]
      /\ wallets' = [u \in Redeemers |-> [wallets[u] EXCEPT !.months = IF @ > 0 THEN @ - 1 ELSE @]]
      /\ usages' = [i \in DOMAIN usages |-> [usages[i] EXCEPT !.age = 1]]
      /\ UNCHANGED <<cards, plan, desks, edits, coupons, sales>>
  BY DEF VouchersAge
<1>2. vouchers \in Seq(Voucher) /\ usages \in Seq(Use) /\ wallets \in [Redeemers -> Wallet]
  BY DEF VouchersInv, VouchersTypeOK, UsagesOK
<1>3. ASSUME NEW c \in IssuedCodes
      PROVE  /\ vouchers'[c] \in Voucher /\ vouchers'[c].used = vouchers[c].used /\ vouchers'[c].max = vouchers[c].max
             /\ vouchers'[c].status = vouchers[c].status /\ vouchers'[c].template = vouchers[c].template
             /\ vouchers'[c].snap = vouchers[c].snap
  <2>1. vouchers[c] \in Voucher
    BY <1>2 DEF IssuedCodes
  <2>2. PICK v \in Voucher : v = vouchers[c]
    BY <2>1
  <2>3. PICK l \in Int : l = IF v.life > 0 THEN v.life - 1 ELSE v.life
    BY DEF Voucher
  <2>4. PICK w : w = [v EXCEPT !.life = l]
    OBVIOUS
  <2>5. vouchers'[c] = w
    BY <1>1, <2>2, <2>3, <2>4
  <2> QED BY <2>2, <2>4, <2>5 DEF Voucher
<1>4. ASSUME NEW i \in DOMAIN usages
      PROVE  /\ usages'[i] \in Use /\ usages'[i].code = usages[i].code /\ usages'[i].user = usages[i].user
             /\ usages'[i].reward = usages[i].reward /\ usages'[i].share = usages[i].share
  <2>1. usages[i] \in Use
    BY <1>2
  <2>2. usages'[i] = [usages[i] EXCEPT !.age = 1]
    BY <1>1
  <2> QED BY <2>1, <2>2 DEF Use
<1>5. ASSUME NEW u \in Redeemers PROVE wallets'[u] \in Wallet /\ wallets'[u].money = wallets[u].money
  <2>1. PICK v \in Wallet : v = wallets[u]
    BY <1>2
  <2>2. PICK m \in Int : m = IF v.months > 0 THEN v.months - 1 ELSE v.months
    BY DEF Wallet
  <2>3. wallets'[u] = [v EXCEPT !.months = m]
    BY <1>1, <2>1, <2>2
  <2> QED BY <2>1, <2>3 DEF Wallet
<1>6. DOMAIN vouchers' = DOMAIN vouchers /\ vouchers' \in Seq(Voucher) /\ DOMAIN usages' = DOMAIN usages /\ usages' \in Seq(Use)
  <2>1. DOMAIN vouchers' = DOMAIN vouchers /\ DOMAIN usages' = DOMAIN usages
    BY <1>1 DEF IssuedCodes
  <2>2. DOMAIN vouchers = 1..Len(vouchers) /\ DOMAIN usages = 1..Len(usages) /\ Len(vouchers) \in Nat /\ Len(usages) \in Nat
    BY <1>2
  <2>3. vouchers' \in [1..Len(vouchers) -> Voucher] /\ usages' \in [1..Len(usages) -> Use]
    BY <1>1, <1>3, <1>4, <2>1, <2>2 DEF IssuedCodes
  <2> QED BY <2>1, <2>2, <2>3, SeqDef
<1>7. IssuedCodes' = IssuedCodes
  BY <1>6 DEF IssuedCodes
<1>8. \A c : UsagesOf(c)' = UsagesOf(c)
  BY <1>4, <1>6 DEF UsagesOf
<1>9. VouchersTypeOK'
  <2>1. CardsOK'
    BY <1>1 DEF VouchersInv, VouchersTypeOK, CardsOK, GoodForm, normalizeGiftCardTemplate, validateGiftCardReward
  <2>2. UsagesOK'
    BY <1>4, <1>6, <1>7 DEF VouchersInv, VouchersTypeOK, UsagesOK
  <2>3. DesksOK'
    BY <1>1, <1>7, DesksKept DEF VouchersInv, VouchersTypeOK
  <2>4. wallets' \in [Redeemers -> Wallet]
    BY <1>1, <1>5
  <2> QED BY <1>1, <1>6, <2>1, <2>2, <2>3, <2>4 DEF VouchersInv, VouchersTypeOK
<1>10. CodesSound' /\ SnapsSound'
  <2>1. CodesSound'
    BY <1>3, <1>7, <1>8 DEF VouchersInv, CodesSound, CodeSound
  <2>2. SnapsSound'
    BY <1>1, <1>3, <1>7 DEF VouchersInv, SnapsSound, Snapped
  <2> QED BY <2>1, <2>2
<1>11. WalletsSound'
  <2> SUFFICES ASSUME NEW u \in Redeemers
               PROVE  wallets'[u].money = SumFunction([i \in DOMAIN usages' |-> GivenTo(u, usages'[i])])
    BY DEF WalletsSound, GivenTo
  <2>1. wallets[u].money = SumFunction([i \in DOMAIN usages |-> GivenTo(u, usages[i])])
    BY DEF VouchersInv, WalletsSound
  <2>2. \A i \in DOMAIN usages : GivenTo(u, usages'[i]) = GivenTo(u, usages[i])
    BY <1>4 DEF GivenTo
  <2>3. [i \in DOMAIN usages' |-> GivenTo(u, usages'[i])] = [i \in DOMAIN usages |-> GivenTo(u, usages[i])]
    BY <1>6, <2>2
  <2>4. wallets'[u].money = wallets[u].money
    BY <1>5
  <2> QED BY <2>1, <2>3, <2>4
<1>12. CouponsSound'
  BY <1>1 DEF VouchersInv, CouponsSound, SalesOf
<1> QED BY <1>9, <1>10, <1>11, <1>12 DEF VouchersInv

-----------------------------------------------------------------------------
\* Coupons.

\* An action on coupons and their orders leaves the gift cards alone.
LEMMA CouponActionsKeep ==
    ASSUME VouchersInv, OnlyCoupons, coupons' \in [Coupons -> CouponState \cup {Nothing}], sales' \in Seq(Sale), CouponsSound'
    PROVE  VouchersInv'
<1>1. IssuedCodes' = IssuedCodes /\ (\A c : UsagesOf(c)' = UsagesOf(c))
  BY DEF IssuedCodes, UsagesOf, OnlyCoupons
<1>2. VouchersTypeOK'
  <2>1. CardsOK' /\ UsagesOK'
    BY <1>1 DEF VouchersInv, VouchersTypeOK, CardsOK, UsagesOK, GoodForm, normalizeGiftCardTemplate, validateGiftCardReward, OnlyCoupons
  <2>2. DesksOK'
    BY <1>1, DesksKept DEF VouchersInv, VouchersTypeOK, OnlyCoupons
  <2> QED BY <2>1, <2>2 DEF VouchersInv, VouchersTypeOK, OnlyCoupons
<1>3. CodesSound' /\ SnapsSound' /\ WalletsSound'
  BY <1>1 DEF VouchersInv, CodesSound, CodeSound, SnapsSound, Snapped, WalletsSound, OnlyCoupons
<1> QED BY <1>2, <1>3 DEF VouchersInv

CouponSound(k, n) == k # Nothing /\ k.left # Nothing => k.left \in Nat /\ k.given = n + k.left

\* One coupon changes.
LEMMA OneCoupon ==
    ASSUME VouchersInv, NEW k \in Coupons, NEW x \in CouponState \cup {Nothing}, CouponSound(x, Cardinality(SalesOf(k))),
           coupons' = [coupons EXCEPT ![k] = x], OnlyCoupons, UNCHANGED sales
    PROVE  VouchersInv'
<1>1. coupons \in [Coupons -> CouponState \cup {Nothing}] /\ sales \in Seq(Sale)
  BY DEF VouchersInv, VouchersTypeOK
<1>2. /\ coupons' \in [Coupons -> CouponState \cup {Nothing}] /\ coupons'[k] = x
      /\ \A l \in Coupons \ {k} : coupons'[l] = coupons[l]
  BY <1>1
<1>3. \A l : SalesOf(l)' = SalesOf(l)
  BY DEF SalesOf
<1>4. CouponsSound'
  BY <1>2, <1>3 DEF VouchersInv, CouponsSound, CouponSound
<1> QED BY <1>1, <1>2, <1>4, CouponActionsKeep

LEMMA SaveCouponKeeps == ASSUME VouchersInv, NEW k \in Coupons, SaveCoupon(k) PROVE VouchersInv'
<1>0. MaxUses \in Nat /\ Cardinality(SalesOf(k)) \in Nat
  BY VoucherConstants, SalesCount DEF VouchersInv, VouchersTypeOK
<1>1. PICK form \in normalizeCouponInput(k) : coupons' = [coupons EXCEPT ![k] = form]
  BY DEF SaveCoupon
<1>2. PICK left \in {Nothing} \cup 0..MaxUses, each \in {Nothing} \cup 0..MaxUses, show \in BOOLEAN :
        form = [left |-> left, each |-> each, show |-> show,
                given |-> IF left = Nothing THEN Nothing ELSE Cardinality(SalesOf(k)) + left]
  BY DEF normalizeCouponInput
<1>3. PICK g : g = IF left = Nothing THEN Nothing ELSE Cardinality(SalesOf(k)) + left
  OBVIOUS
<1>4. left \in Limit /\ each \in Limit /\ (left # Nothing => left \in Nat) /\ g \in Limit
  <2>1. left \in Limit /\ each \in Limit /\ (left # Nothing => left \in Nat)
    BY <1>0 DEF Limit
  <2>2. CASE left = Nothing
    BY <1>3, <2>1, <2>2 DEF Limit
  <2>3. CASE left # Nothing
    BY <1>0, <1>3, <2>1, <2>3 DEF Limit
  <2> QED BY <2>1, <2>2, <2>3
<1>5. form \in CouponState /\ form.left = left /\ form.given = g
  BY <1>2, <1>3, <1>4 DEF CouponState
<1>6. CouponSound(form, Cardinality(SalesOf(k)))
  BY <1>3, <1>4, <1>5 DEF CouponSound
<1> QED BY <1>1, <1>5, <1>6, OneCoupon DEF SaveCoupon

LEMMA ShowCouponKeeps == ASSUME VouchersInv, NEW k \in Coupons, SetCouponVisibility(k) PROVE VouchersInv'
<1>1. PICK show \in BOOLEAN : coupons' = [coupons EXCEPT ![k].show = show]
  BY DEF SetCouponVisibility
<1>2. coupons \in [Coupons -> CouponState \cup {Nothing}] /\ coupons[k] # Nothing
  BY DEF SetCouponVisibility, VouchersInv, VouchersTypeOK
<1>3. PICK x \in CouponState : x = coupons[k]
  BY <1>2
<1>4. PICK y : y = [x EXCEPT !.show = show]
  OBVIOUS
<1>5. y \in CouponState /\ y.left = x.left /\ y.given = x.given
  BY <1>4 DEF CouponState
<1>6. coupons' = [coupons EXCEPT ![k] = y]
  BY <1>1, <1>2, <1>3, <1>4
<1>7. CouponSound(y, Cardinality(SalesOf(k)))
  BY <1>2, <1>3, <1>5 DEF VouchersInv, CouponsSound, CouponSound
<1> QED BY <1>5, <1>6, <1>7, OneCoupon DEF SetCouponVisibility

LEMMA DeleteCouponKeeps == ASSUME VouchersInv, NEW k \in Coupons, DeleteCoupon(k) PROVE VouchersInv'
<1>1. PICK x : x = Nothing
  OBVIOUS
<1>2. CouponSound(x, Cardinality(SalesOf(k))) /\ x \in CouponState \cup {Nothing}
  BY <1>1 DEF CouponSound
<1> QED BY <1>1, <1>2, OneCoupon DEF DeleteCoupon

LEMMA OrderKeeps == ASSUME VouchersInv, NEW k \in Coupons, NEW u \in Redeemers, OrderWithCoupon(k, u) PROVE VouchersInv'
<1>1. coupons \in [Coupons -> CouponState \cup {Nothing}] /\ sales \in Seq(Sale) /\ coupons[k] # Nothing /\ coupons[k].left # 0
  BY DEF OrderWithCoupon, validateCoupon, VouchersInv, VouchersTypeOK
<1>2. PICK x \in CouponState : x = coupons[k]
  BY <1>1
<1>3. PICK left : left = IF x.left = Nothing THEN x.left ELSE x.left - 1
  OBVIOUS
<1>4. left \in Limit /\ (x.left # Nothing => x.left \in Nat \ {0} /\ left \in Nat)
  <2>1. x.left \in Limit /\ x.left # 0
    BY <1>1, <1>2 DEF CouponState
  <2>2. CASE x.left = Nothing
    BY <1>3, <2>1, <2>2
  <2>3. CASE x.left # Nothing
    <3>1. x.left \in Nat \ {0}
      BY <2>1, <2>3 DEF Limit
    <3> QED BY <1>3, <2>3, <3>1 DEF Limit
  <2> QED BY <2>2, <2>3
<1>5. PICK y : y = [x EXCEPT !.left = left]
  OBVIOUS
<1>6. y \in CouponState /\ y.left = left /\ y.given = x.given
  BY <1>4, <1>5 DEF CouponState
<1>7. coupons' = [coupons EXCEPT ![k] = y]
  BY <1>1, <1>2, <1>3, <1>5 DEF OrderWithCoupon
<1>8. /\ coupons' \in [Coupons -> CouponState \cup {Nothing}] /\ coupons'[k] = y
      /\ \A l \in Coupons \ {k} : coupons'[l] = coupons[l]
  BY <1>1, <1>6, <1>7
<1>9. PICK z \in Sale : z = [coupon |-> k, user |-> u, status |-> "pending"]
  BY DEF Sale
<1>10. sales' = Append(sales, z) /\ z.coupon = k
  BY <1>9 DEF OrderWithCoupon
<1>11. sales' \in Seq(Sale)
  BY <1>1, <1>10
<1>12. \A l : Cardinality(SalesOf(l)') = Cardinality(SalesOf(l)) + (IF l = k THEN 1 ELSE 0)
  <2> SUFFICES ASSUME NEW l
               PROVE  Cardinality({i \in DOMAIN sales' : sales'[i].coupon = l})
                      = Cardinality(SalesOf(l)) + (IF l = k THEN 1 ELSE 0)
    BY DEF SalesOf
  <2> DEFINE M == {s \in Sale : s.coupon = l}
  <2>1. SalesOf(l) = Places(sales, M) /\ {i \in DOMAIN sales' : sales'[i].coupon = l} = Places(sales', M)
    BY <1>1, <1>11 DEF SalesOf, Places
  <2>2. z \in M <=> l = k
    BY <1>10
  <2> HIDE DEF M
  <2>3. Cardinality(Places(Append(sales, z), M)) = Cardinality(Places(sales, M)) + (IF z \in M THEN 1 ELSE 0)
    BY <1>1, PlacesAppend
  <2> QED BY <1>10, <2>1, <2>2, <2>3
<1>13. CouponsSound'
  <2> SUFFICES ASSUME NEW l \in Coupons PROVE CouponSound(coupons'[l], Cardinality(SalesOf(l)'))
    BY DEF CouponsSound, CouponSound
  <2>1. Cardinality(SalesOf(l)) \in Nat /\ CouponSound(coupons[l], Cardinality(SalesOf(l)))
    BY <1>1, SalesCount DEF VouchersInv, CouponsSound, CouponSound
  <2>2. CASE l # k
    <3>1. Cardinality(SalesOf(l)') = Cardinality(SalesOf(l)) /\ coupons'[l] = coupons[l]
      BY <1>8, <1>12, <2>1, <2>2
    <3> QED BY <2>1, <3>1
  <2>3. CASE l = k
    <3>1. Cardinality(SalesOf(k)') = Cardinality(SalesOf(k)) + 1 /\ coupons'[l] = y
      BY <1>8, <1>12, <2>3
    <3>2. CASE x.left = Nothing
      <4>1. y.left = Nothing
        BY <1>3, <1>6, <3>2
      <4> QED BY <3>1, <4>1 DEF CouponSound
    <3>3. CASE x.left # Nothing
      <4>1. x.given = Cardinality(SalesOf(k)) + x.left /\ x.left \in Nat \ {0} /\ left = x.left - 1
        BY <1>1, <1>2, <1>3, <1>4, <2>1, <2>3, <3>3 DEF CouponSound
      <4>2. y.given = (Cardinality(SalesOf(k)) + 1) + y.left /\ y.left \in Nat
        BY <1>4, <1>6, <2>1, <2>3, <3>3, <4>1
      <4> QED BY <2>3, <3>1, <4>2 DEF CouponSound
    <3> QED BY <3>2, <3>3
  <2> QED BY <2>2, <2>3
<1> QED BY <1>8, <1>11, <1>13, CouponActionsKeep DEF OrderWithCoupon

LEMMA PlainOrderKeeps == ASSUME VouchersInv, NEW u \in Redeemers, OrderWithoutCoupon(u) PROVE VouchersInv'
<1>1. OnlyCoupons /\ UNCHANGED coupons /\ sales' = Append(sales, [coupon |-> Nothing, user |-> u, status |-> "pending"])
  BY DEF OrderWithoutCoupon
<1>2. PICK z \in Sale : z = [coupon |-> Nothing, user |-> u, status |-> "pending"]
  BY DEF Sale
<1>3. sales \in Seq(Sale) /\ coupons \in [Coupons -> CouponState \cup {Nothing}] /\ z.coupon = Nothing
  BY <1>2 DEF VouchersInv, VouchersTypeOK
<1>4. sales' \in Seq(Sale) /\ sales' = Append(sales, z)
  BY <1>1, <1>2, <1>3
<1>5. ASSUME NEW l \in Coupons PROVE SalesOf(l)' = SalesOf(l)
  <2>1. z.coupon # l
    BY <1>3, VoucherConstants
  <2>2. Len(sales) \in Nat /\ DOMAIN sales = 1..Len(sales) /\ DOMAIN sales' = 1..(Len(sales) + 1)
    BY <1>3, <1>4
  <2>3. (\A i \in DOMAIN sales : sales'[i] = sales[i]) /\ sales'[Len(sales) + 1] = z
    BY <1>3, <1>4
  <2> QED BY <2>1, <2>2, <2>3 DEF SalesOf
<1>6. CouponsSound'
  BY <1>1, <1>5 DEF VouchersInv, CouponsSound
<1> QED BY <1>1, <1>3, <1>4, <1>6, CouponActionsKeep

LEMMA EndOrderKeeps == ASSUME VouchersInv, EndOrder PROVE VouchersInv'
<1>1. PICK i \in DOMAIN sales, status \in {"cancelled", "completed"} : sales' = [sales EXCEPT ![i].status = status]
  BY DEF EndOrder
<1>2. sales \in Seq(Sale) /\ OnlyCoupons /\ UNCHANGED coupons
  BY DEF EndOrder, VouchersInv, VouchersTypeOK
<1>3. sales[i] \in Sale
  BY <1>2
<1>4. PICK s : s = [sales[i] EXCEPT !.status = status]
  OBVIOUS
<1>5. s \in Sale /\ s.coupon = sales[i].coupon
  BY <1>3, <1>4 DEF Sale
<1>6. sales' = [sales EXCEPT ![i] = s]
  BY <1>1, <1>2, <1>4
<1>7. sales' \in Seq(Sale) /\ DOMAIN sales' = DOMAIN sales /\ \A j \in DOMAIN sales : sales'[j].coupon = sales[j].coupon
  BY <1>2, <1>5, <1>6
<1>8. \A k : SalesOf(k)' = SalesOf(k)
  BY <1>7 DEF SalesOf
<1>9. CouponsSound'
  BY <1>2, <1>8 DEF VouchersInv, CouponsSound
<1> QED BY <1>2, <1>7, <1>9, CouponActionsKeep DEF VouchersInv, VouchersTypeOK

-----------------------------------------------------------------------------
LEMMA VouchersInitInv == VouchersInit => VouchersInv
<1> SUFFICES ASSUME VouchersInit PROVE VouchersInv
  OBVIOUS
<1>1. cards = [t \in Templates |-> NoCard] /\ vouchers = <<>> /\ usages = <<>> /\ sales = <<>>
      /\ desks = [d \in Desks |-> FreeDesk] /\ coupons = [k \in Coupons |-> Nothing]
  BY DEF VouchersInit
<1>2. IssuedCodes = {} /\ DOMAIN usages = {} /\ DOMAIN sales = {}
  BY <1>1 DEF IssuedCodes
<1>3. wallets \in [Redeemers -> Wallet] /\ \A u \in Redeemers : wallets[u].money = 0
  <2>1. PICK a \in Wallet, b \in Wallet : /\ a = [money |-> 0, traffic |-> 0, plan |-> Nothing, months |-> 0, banned |-> FALSE] /\ a.money = 0
                                          /\ b = [money |-> 0, traffic |-> 1, plan |-> "plan", months |-> -1, banned |-> FALSE] /\ b.money = 0
    <3>1. /\ [money |-> 0, traffic |-> 0, plan |-> Nothing, months |-> 0, banned |-> FALSE] \in Wallet
          /\ [money |-> 0, traffic |-> 1, plan |-> "plan", months |-> -1, banned |-> FALSE] \in Wallet
      BY DEF Wallet
    <3> QED BY <3>1
  <2>2. wallets \in [Redeemers -> {a, b}]
    BY <2>1 DEF VouchersInit
  <2> QED BY <2>1, <2>2
<1>4. plan \in PlanState
  BY DEF VouchersInit, PlanState
<1>5. VouchersTypeOK
  <2>1. CardsOK
    BY <1>1 DEF CardsOK
  <2>2. DesksOK
    BY <1>1, DeskFreed DEF DesksOK
  <2>3. UsagesOK
    BY <1>1, <1>2 DEF UsagesOK
  <2>4. coupons \in [Coupons -> CouponState \cup {Nothing}]
    BY <1>1
  <2>5. vouchers \in Seq(Voucher) /\ sales \in Seq(Sale)
    BY <1>1
  <2> QED BY <1>3, <1>4, <2>1, <2>2, <2>3, <2>4, <2>5 DEF VouchersTypeOK
<1>6. CodesSound /\ SnapsSound /\ CouponsSound
  BY <1>1, <1>2 DEF CodesSound, SnapsSound, CouponsSound
<1>7. WalletsSound
  <2> SUFFICES ASSUME NEW u \in Redeemers PROVE wallets[u].money = SumFunction([i \in DOMAIN usages |-> GivenTo(u, usages[i])])
    BY DEF WalletsSound
  <2>1. usages \in Seq(Use)
    BY <1>1
  <2>2. SumFunction([i \in DOMAIN usages |-> GivenTo(u, usages[i])]) = Weight([x \in Use |-> GivenTo(u, x)], usages)
    BY <2>1, GivenWeight
  <2>3. Weight([x \in Use |-> GivenTo(u, x)], <<>>) = 0
    BY WeightNone
  <2> QED BY <1>1, <1>3, <2>2, <2>3
<1> QED BY <1>5, <1>6, <1>7 DEF VouchersInv

LEMMA VouchersStutter == ASSUME VouchersInv, UNCHANGED voucherVars PROVE VouchersInv'
<1>1. OnlyCoupons /\ UNCHANGED <<coupons, sales>>
  BY DEF OnlyCoupons, voucherVars
<1>2. CouponsSound'
  BY <1>1 DEF VouchersInv, CouponsSound, SalesOf
<1> QED BY <1>1, <1>2, CouponActionsKeep DEF VouchersInv, VouchersTypeOK

LEMMA GiftsKeep == ASSUME VouchersInv, GiftsNext PROVE VouchersInv'
<1>1. ASSUME NEW t \in Templates,
             \/ createGiftCardTemplate(t) \/ legacyCreateGiftCardTemplate(t)
             \/ deleteGiftCardTemplate(t) \/ legacyDeleteGiftCardTemplate(t)
             \/ generateGiftCardCodes(t) \/ legacyGenerateGiftCardCodes(t)
      PROVE  VouchersInv'
  <2>1. CreateGiftCardTemplate(t) \/ DeleteGiftCardTemplate(t) \/ GenerateGiftCardCodes(t)
    BY <1>1 DEF createGiftCardTemplate, legacyCreateGiftCardTemplate, deleteGiftCardTemplate, legacyDeleteGiftCardTemplate,
                generateGiftCardCodes, legacyGenerateGiftCardCodes
  <2> QED BY <2>1, CreateCardKeeps, DeleteCardKeeps, GenerateKeeps
<1>2. ASSUME NEW d \in Desks,
             \/ \E t \in Templates : updateGiftCardTemplate(d, t) \/ legacyUpdateGiftCardTemplate(d, t)
             \/ \E c \in IssuedCodes :
                 \/ updateGiftCardCode(d, c) \/ legacyUpdateGiftCardCode(d, c)
                 \/ GetGiftCardCode(d, c, {"disable", "enable"})
             \/ UpdateGiftCardTemplate(d) \/ UpdateGiftCardCode(d) \/ legacyToggleGiftCardCode(d)
      PROVE  VouchersInv'
  <2>1. CASE \E t \in Templates : updateGiftCardTemplate(d, t) \/ legacyUpdateGiftCardTemplate(d, t)
    BY <2>1, ReadCardKeeps DEF updateGiftCardTemplate, legacyUpdateGiftCardTemplate
  <2>2. CASE \E c \in IssuedCodes :
                 \/ updateGiftCardCode(d, c) \/ legacyUpdateGiftCardCode(d, c)
                 \/ GetGiftCardCode(d, c, {"disable", "enable"})
    <3>1. PICK c \in IssuedCodes : GetGiftCardCode(d, c, {"code"}) \/ GetGiftCardCode(d, c, {"disable", "enable"})
      BY <2>2 DEF updateGiftCardCode, legacyUpdateGiftCardCode
    <3>2. {"code"} \in SUBSET {"code", "disable", "enable"} /\ {"disable", "enable"} \in SUBSET {"code", "disable", "enable"}
      OBVIOUS
    <3> QED BY <3>1, <3>2, ReadCodeKeeps
  <2> QED BY <1>2, <2>1, <2>2, UpdateCardKeeps, UpdateCodeKeeps, LegacyToggleKeeps
<1>3. ASSUME NEW c \in IssuedCodes, toggleGiftCardCode(c) \/ deleteGiftCardCode(c) \/ legacyDeleteGiftCardCode(c)
      PROVE  VouchersInv'
  BY <1>3, ToggleKeeps, DeleteCodeKeeps DEF deleteGiftCardCode, legacyDeleteGiftCardCode
<1>4. ASSUME NEW u \in Redeemers, NEW c \in IssuedCodes, redeemGiftCard(u, c) \/ legacyRedeemGiftCard(u, c)
      PROVE  VouchersInv'
  BY <1>4, RedeemKeeps DEF redeemGiftCard, legacyRedeemGiftCard
<1> QED BY <1>1, <1>2, <1>3, <1>4, SetBannedKeeps, PlainOrderKeeps, EditPlanKeeps, EndOrderKeeps, VouchersAgeKeeps DEF GiftsNext

LEMMA CouponsKeep == ASSUME VouchersInv, CouponsNext PROVE VouchersInv'
<1>1. ASSUME NEW k \in Coupons,
             \/ createAdminCoupon(k) \/ batchAdminCoupons(k) \/ updateAdminCoupon(k) \/ legacyGenerateAdminCoupon(k)
             \/ setAdminCouponVisibility(k) \/ legacyUpdateAdminCoupon(k) \/ legacyToggleAdminCoupon(k)
             \/ deleteAdminCoupon(k) \/ legacyDeleteAdminCoupon(k)
      PROVE  VouchersInv'
  <2>1. SaveCoupon(k) \/ SetCouponVisibility(k) \/ DeleteCoupon(k)
    BY <1>1 DEF createAdminCoupon, batchAdminCoupons, updateAdminCoupon, legacyGenerateAdminCoupon, setAdminCouponVisibility,
                legacyUpdateAdminCoupon, legacyToggleAdminCoupon, deleteAdminCoupon, legacyDeleteAdminCoupon,
                CreateCoupon, CreateCouponBatch, UpdateCoupon
  <2> QED BY <2>1, SaveCouponKeeps, ShowCouponKeeps, DeleteCouponKeeps
<1> QED BY <1>1, OrderKeeps, EndOrderKeeps DEF CouponsNext

\* Gift cards and coupons give what they stand for (internal/store gift cards and coupons): the uses
\* of a code are its records and within its limit, a wallet is the sum of the rewards it was given,
\* purchase codes keep their template, and a coupon's orders are the uses it lost, for every set of
\* customers, forms and codes and however forms are saved over redemptions.
THEOREM VouchersHold == VouchersSpec => []VouchersAccounted
<1>1. ASSUME VouchersInv, [GiftsNext \/ CouponsNext]_voucherVars PROVE VouchersInv'
  BY <1>1, GiftsKeep, CouponsKeep, VouchersStutter
<1>2. VouchersInv => VouchersAccounted
  BY VouchersInvProperty
<1> QED BY <1>1, <1>2, VouchersInitInv, PTL DEF VouchersSpec

------------------------------------------------------------------------------
(* The calendar: every day is in one month, and the months follow on each other. *)

YearLength == Len(MonthDays)

LEMMA LengthNat == YearLength \in Nat \ {0} /\ \A m \in Nat : Length(m) \in Nat \ {0}
<1>1. MonthDays \in Seq(Nat \ {0}) /\ MonthDays # <<>>
  BY TrafficConstants
<1>2. YearLength \in Nat \ {0}
  BY <1>1 DEF YearLength
<1>3. ASSUME NEW m \in Nat PROVE Length(m) \in Nat \ {0}
  <2>1. m % YearLength \in 0 .. YearLength - 1
    BY <1>2
  <2>2. (m % YearLength) + 1 \in 1 .. Len(MonthDays)
    BY <1>2, <2>1 DEF YearLength
  <2> QED BY <1>1, <2>2 DEF Length, YearLength
<1> QED BY <1>2, <1>3

\* A month begins where the one before ends.
LEMMA StartSteps == Start(0) = 0 /\ \A m \in Nat : Start(m) \in Nat /\ Start(m + 1) = Start(m) + Length(m)
<1>1. Start(0) = 0
  <2>1. DOMAIN [i \in 0 .. (0 - 1) |-> Length(i)] = {}
    OBVIOUS
  <2> QED BY <2>1, SumNone, Zenon DEF Start, SumFunction
<1>2. ASSUME NEW m \in Nat PROVE Start(m) \in Nat /\ Start(m + 1) = Start(m) + Length(m)
  <2> DEFINE f == [i \in 0 .. (m - 1) |-> Length(i)]
             g == [i \in 0 .. (m + 1 - 1) |-> Length(i)]
             D == 0 .. (m - 1)
  <2>1. 0 .. (m + 1 - 1) = D \cup {m} /\ m \notin D
    OBVIOUS
  <2>2. g[m] = Length(m) /\ \A i \in D : g[i] = f[i] /\ f[i] \in Nat /\ g[i] \in Int
    BY LengthNat
  <2>3. IsFiniteSet(D)
    BY FS_Interval
  <2>4. Start(m) = SumFunctionOnSet(f, D) /\ Start(m + 1) = SumFunctionOnSet(g, D \cup {m})
    <3>1. DOMAIN f = D /\ DOMAIN g = D \cup {m}
      BY <2>1, Zenon
    <3>2. Start(m) = SumFunctionOnSet(f, DOMAIN f) /\ Start(m + 1) = SumFunctionOnSet(g, DOMAIN g)
      <4>1. Start(m) = SumFunction(f) /\ Start(m + 1) = SumFunction(g)
        BY DEF Start
      <4> HIDE DEF f, g
      <4> QED BY <4>1 DEF SumFunction
    <3> QED BY <3>1, <3>2, Zenon
  <2>5. Length(m) \in Int
    BY LengthNat
  <2> HIDE DEF f, g, D
  <2>6. SumFunctionOnSet(f, D) = SumFunctionOnSet(g, D)
    BY <2>2, <2>3, SumSame
  <2>7. Summable(g, D)
    BY <2>2, <2>3 DEF Summable
  <2>8. SumFunctionOnSet(g, D \cup {m}) = SumFunctionOnSet(g, D) + g[m]
    BY <2>1, <2>2, <2>5, <2>7, SumMore
  <2>9. SumFunctionOnSet(f, D) \in Nat
    BY <2>2, <2>3, SumNat
  <2> QED BY <2>2, <2>4, <2>6, <2>8, <2>9
<1> QED BY <1>1, <1>2

LEMMA StartNat == ASSUME NEW m \in Nat
                  PROVE  Start(m) \in Nat /\ Length(m) \in Nat \ {0} /\ Start(m + 1) \in Nat
                         /\ Start(m + 1) = Start(m) + Length(m)
BY StartSteps, LengthNat

\* Later months begin later, and no earlier than as many days.
LEMMA StartGrows == ASSUME NEW m \in Nat, NEW n \in Nat, m < n PROVE Start(m + 1) <= Start(n)
<1> DEFINE P == {k \in Nat : Start(m + 1) <= Start(m + 1 + k)}
<1>1. 0 \in P
  <2>1. m + 1 + 0 = m + 1 /\ Start(m + 1) \in Nat
    BY StartNat
  <2> QED BY <2>1
<1>2. ASSUME NEW k \in 0 .. (n - m - 1) - 1, k \in P PROVE k + 1 \in P
  <2>1. PICK j \in Nat : j = m + 1 + k
    OBVIOUS
  <2>2. Start(j) \in Nat /\ Start(j + 1) \in Nat /\ Start(j + 1) >= Start(j) /\ Start(m + 1) \in Nat
    BY StartNat
  <2>3. j + 1 = m + 1 + (k + 1) /\ Start(m + 1) <= Start(j)
    BY <1>2, <2>1
  <2>4. Start(m + 1) <= Start(j + 1)
    BY <2>2, <2>3
  <2> QED BY <2>3, <2>4
<1>3. n - m - 1 \in Nat
  OBVIOUS
<1> HIDE DEF P
<1>4. 0 .. (n - m - 1) \subseteq P
  BY <1>1, <1>2, <1>3, IntervalInduction
<1>5. n - m - 1 \in P
  BY <1>3, <1>4
<1>6. m + 1 + (n - m - 1) = n
  OBVIOUS
<1> QED BY <1>5, <1>6 DEF P

LEMMA StartAtLeast == ASSUME NEW n \in Nat PROVE n <= Start(n)
<1> DEFINE P == {k \in Nat : k <= Start(k)}
<1>1. 0 \in P
  BY StartSteps
<1>2. ASSUME NEW k \in 0 .. n - 1, k \in P PROVE k + 1 \in P
  <2>1. k \in Nat /\ k <= Start(k)
    BY <1>2
  <2>2. Start(k) \in Nat /\ Start(k + 1) = Start(k) + Length(k) /\ Length(k) >= 1 /\ Length(k) \in Nat
    BY <2>1, StartNat
  <2>3. k + 1 <= Start(k + 1)
    BY <2>1, <2>2
  <2> QED BY <2>1, <2>3
<1> HIDE DEF P
<1>3. 0 .. n \subseteq P
  BY <1>1, <1>2, IntervalInduction
<1> QED BY <1>3 DEF P

\* The month of a day.
LEMMA MonthExists == ASSUME NEW d \in Nat PROVE \E m \in 0 .. d : Start(m) <= d /\ d < Start(m + 1)
<1> DEFINE S == {m \in 0 .. d : Start(m) <= d}
<1>1. 0 \in S
  BY StartSteps
<1>2. PICK m \in S : \A k \in S : m >= k
  BY <1>1, GreatestNatural
<1>3. m \in Nat /\ m <= d /\ Start(m) <= d /\ Start(m + 1) \in Nat
  BY <1>2, StartNat
<1>4. m + 1 \notin S
  BY <1>2, <1>3
<1>5. CASE m + 1 <= d
  <2>1. m + 1 \in 0 .. d
    BY <1>3, <1>5
  <2>2. d < Start(m + 1)
    BY <1>3, <1>4, <2>1
  <2> QED BY <1>3, <2>2
<1>6. CASE ~(m + 1 <= d)
  <2>1. m + 1 > d /\ m + 1 <= Start(m + 1)
    BY <1>3, <1>6, StartAtLeast
  <2> QED BY <1>3, <2>1
<1> QED BY <1>5, <1>6

LEMMA MonthOnly ==
    ASSUME NEW d \in Nat, NEW m \in Nat, NEW n \in Nat, Start(m) <= d, d < Start(m + 1), Start(n) <= d, d < Start(n + 1)
    PROVE  m = n
<1>1. Start(m) \in Nat /\ Start(n) \in Nat /\ Start(m + 1) \in Nat /\ Start(n + 1) \in Nat
  BY StartNat
<1>2. ~(m < n)
  BY <1>1, StartGrows
<1>3. ~(n < m)
  BY <1>1, StartGrows
<1> QED BY <1>2, <1>3

LEMMA MonthFound == ASSUME NEW d \in Nat
                    PROVE  MonthOf(d) \in Nat /\ Start(MonthOf(d)) <= d /\ d < Start(MonthOf(d) + 1)
<1>1. PICK m \in 0 .. d : m = MonthOf(d) /\ Start(m) <= d /\ d < Start(m + 1)
  BY MonthExists, Zenon DEF MonthOf
<1> QED BY <1>1

LEMMA MonthIs ==
    ASSUME NEW d \in Nat, NEW m \in Nat, Start(m) <= d, d < Start(m + 1) PROVE MonthOf(d) = m
BY MonthFound, MonthOnly

LEMMA DayFound == ASSUME NEW d \in Nat
                  PROVE  /\ DayOf(d) \in Nat /\ d = Start(MonthOf(d)) + DayOf(d)
                         /\ DayOf(d) <= Length(MonthOf(d)) - 1
<1>1. MonthOf(d) \in Nat /\ Start(MonthOf(d)) <= d /\ d < Start(MonthOf(d) + 1)
  BY MonthFound
<1>2. PICK m \in Nat : m = MonthOf(d)
  BY <1>1
<1>3. Start(m) \in Nat /\ Start(m + 1) = Start(m) + Length(m) /\ Length(m) \in Nat
  BY StartNat
<1>4. DayOf(d) = d - Start(m)
  BY <1>2 DEF DayOf
<1> QED BY <1>1, <1>2, <1>3, <1>4

\* Later days are in later months.
LEMMA MonthsInOrder == ASSUME NEW d \in Nat, NEW e \in Nat, d <= e PROVE MonthOf(d) <= MonthOf(e)
<1>1. PICK m \in Nat : m = MonthOf(d) /\ Start(m) <= d /\ d < Start(m + 1)
  BY MonthFound
<1>2. PICK n \in Nat : n = MonthOf(e) /\ Start(n) <= e /\ e < Start(n + 1)
  BY MonthFound
<1>3. Start(m) \in Nat /\ Start(n + 1) \in Nat
  BY StartNat
<1>4. ~(n < m)
  <2> SUFFICES ASSUME n < m PROVE FALSE
    OBVIOUS
  <2>1. Start(n + 1) <= Start(m)
    BY StartGrows
  <2> QED BY <1>1, <1>2, <1>3, <2>1
<1> QED BY <1>1, <1>2, <1>4

\* The anchor of a month for a day of the month: that day, or the month's last.
LEMMA MinOfTwo == ASSUME NEW a \in Int, NEW b \in Int PROVE Min({a, b}) = IF a <= b THEN a ELSE b
<1> DEFINE v == IF a <= b THEN a ELSE b
<1>1. v \in {a, b} /\ \A y \in {a, b} : v =< y
  OBVIOUS
<1>2. \A x \in {a, b} : (\A y \in {a, b} : x =< y) => x = v
  OBVIOUS
<1> HIDE DEF v
<1>3. Min({a, b}) = v
  BY <1>1, <1>2, Zenon DEF Min
<1> QED BY <1>3 DEF v

LEMMA AnchorDay ==
    ASSUME NEW m \in Nat, NEW e \in Nat
    PROVE  LET a == calendarAnchor(m, e) IN
           /\ a \in Nat /\ Start(m) <= a /\ a < Start(m + 1) /\ MonthOf(a) = m
           /\ a = Start(m) + DayOf(e) \/ (DayOf(e) > Length(m) - 1 /\ a = Start(m) + Length(m) - 1)
<1>1. DayOf(e) \in Nat /\ Length(m) \in Nat \ {0} /\ Start(m) \in Nat /\ Start(m + 1) = Start(m) + Length(m)
  BY StartNat, DayFound
<1>2. PICK k \in Nat : k = DayOf(e)
  BY <1>1
<1>3. PICK l \in Nat \ {0} : l = Length(m)
  BY <1>1
<1>4. PICK a : a = calendarAnchor(m, e)
  OBVIOUS
<1>5. a = Start(m) + (IF k <= l - 1 THEN k ELSE l - 1)
  <2>1. Min({k, l - 1}) = IF k <= l - 1 THEN k ELSE l - 1
    BY MinOfTwo
  <2> QED BY <1>2, <1>3, <1>4, <2>1 DEF calendarAnchor
<1>6. a \in Nat /\ Start(m) <= a /\ a < Start(m + 1)
  BY <1>1, <1>3, <1>5
<1>7. a = Start(m) + k \/ (k > l - 1 /\ a = Start(m) + l - 1)
  BY <1>5
<1>8. MonthOf(a) = m
  BY <1>6, MonthIs
<1> QED BY <1>2, <1>3, <1>4, <1>6, <1>7, <1>8

\* What Anchor says of a monthly reset is that the day is its month's anchor.
LEMMA AnchorRead ==
    ASSUME NEW d \in Nat, NEW e \in Nat
    PROVE  (DayOf(d) = DayOf(e) \/ (DayOf(e) > DayOf(d) /\ d + 1 = Start(MonthOf(d) + 1)))
             <=> d = calendarAnchor(MonthOf(d), e)
<1>1. PICK m \in Nat : m = MonthOf(d)
  BY MonthFound
<1>2. PICK k \in Nat : k = DayOf(e)
  BY DayFound
<1>3. PICK j \in Nat : j = DayOf(d) /\ d = Start(m) + j /\ j <= Length(m) - 1
  BY <1>1, DayFound
<1>4. PICK l \in Nat \ {0} : l = Length(m) /\ Start(m + 1) = Start(m) + l
  BY StartNat
<1>5. PICK s \in Nat : s = Start(m)
  BY StartNat
<1>6. PICK a \in Nat : a = calendarAnchor(m, e) /\ a = s + (IF k <= l - 1 THEN k ELSE l - 1)
  <2>1. Min({k, l - 1}) = IF k <= l - 1 THEN k ELSE l - 1
    BY MinOfTwo
  <2>2. calendarAnchor(m, e) = s + (IF k <= l - 1 THEN k ELSE l - 1)
    BY <1>2, <1>4, <1>5, <2>1 DEF calendarAnchor
  <2> QED BY <2>2
<1>7. (j = k \/ (k > j /\ d + 1 = s + l)) <=> d = a
  BY <1>3, <1>4, <1>5, <1>6
<1> QED BY <1>1, <1>2, <1>3, <1>4, <1>5, <1>6, <1>7

(* Years: the remainder of a month's number by the number of months. *)

LEMMA RemainderOf == ASSUME NEW n \in Nat, NEW l \in Nat \ {0}
                     PROVE  n % l \in 0 .. l - 1 /\ \E q \in Nat : n = q * l + (n % l)
<1>1. n % l \in 0 .. l - 1
  OBVIOUS
<1>2. n \div l \in Int
  OBVIOUS
<1>3. n = l * (n \div l) + (n % l)
  OBVIOUS
<1>4. n \div l >= 0
  OBVIOUS
<1>5. PICK q \in Nat : q = n \div l
  BY <1>2, <1>4
<1>6. n = q * l + (n % l)
  BY <1>3, <1>5
<1> QED BY <1>1, <1>6

LEMMA RemainderOnly ==
    ASSUME NEW l \in Nat \ {0}, NEW q \in Nat, NEW p \in Nat, NEW r \in 0 .. l - 1, NEW s \in 0 .. l - 1,
           q * l + r = p * l + s
    PROVE  q = p /\ r = s
<1>1. ~(q < p)
  <2> SUFFICES ASSUME q < p PROVE FALSE
    OBVIOUS
  <2>1. PICK k \in Nat : p = q + 1 + k
    OBVIOUS
  <2>2. p * l = q * l + l + k * l /\ k * l >= 0 /\ q * l \in Int /\ k * l \in Int
    BY <2>1
  <2> QED BY <2>2
<1>2. ~(p < q)
  <2> SUFFICES ASSUME p < q PROVE FALSE
    OBVIOUS
  <2>1. PICK k \in Nat : q = p + 1 + k
    OBVIOUS
  <2>2. q * l = p * l + l + k * l /\ k * l >= 0 /\ p * l \in Int /\ k * l \in Int
    BY <2>1
  <2> QED BY <2>2
<1> QED BY <1>1, <1>2

\* A month is the so-manieth of its year, and the years before it have all their months.
LEMMA YearFound ==
    ASSUME NEW m \in Nat
    PROVE  /\ m % YearLength \in 0 .. YearLength - 1 /\ YearStart(m) \in Nat /\ m = YearStart(m) + (m % YearLength)
           /\ \E q \in Nat : YearStart(m) = q * YearLength
<1>1. PICK l \in Nat \ {0} : l = YearLength
  BY LengthNat
<1>2. m % l \in 0 .. l - 1
  BY RemainderOf
<1>3. PICK q \in Nat : m = q * l + (m % l)
  BY RemainderOf
<1>4. YearStart(m) = m - (m % l)
  BY <1>1 DEF YearStart, YearLength
<1>5. PICK y \in Nat : y = q * l
  OBVIOUS
<1>7. PICK r \in Nat : r = m % l
  BY <1>2
<1>8. m = y + r /\ YearStart(m) = m - r
  BY <1>3, <1>4, <1>5, <1>7
<1>6. YearStart(m) = y
  BY <1>8
<1> QED BY <1>1, <1>2, <1>5, <1>6, <1>7, <1>8

\* The months of the year of m and of the next year.
LEMMA YearMonths ==
    ASSUME NEW m \in Nat, NEW j \in 0 .. YearLength - 1
    PROVE  /\ (YearStart(m) + j) % YearLength = j /\ YearStart(YearStart(m) + j) = YearStart(m)
           /\ (YearStart(m) + YearLength + j) % YearLength = j
           /\ YearStart(YearStart(m) + YearLength + j) = YearStart(m) + YearLength
<1>1. PICK l \in Nat \ {0} : l = YearLength
  BY LengthNat
<1>2. PICK q \in Nat : YearStart(m) = q * l
  BY <1>1, YearFound
<1>3. ASSUME NEW p \in Nat PROVE (p * l + j) % l = j /\ YearStart(p * l + j) = p * l
  <2>1. PICK n \in Nat : n = p * l + j
    BY <1>1
  <2>2. PICK s \in 0 .. l - 1 : s = n % l
    BY RemainderOf
  <2>3. PICK k \in Nat : n = k * l + s
    BY <2>2, RemainderOf
  <2>7. j \in 0 .. l - 1 /\ k * l + s = p * l + j
    BY <1>1, <2>1, <2>3
  <2>4. s = j
    BY <2>7, RemainderOnly
  <2>5. YearStart(n) = n - s
    BY <1>1, <2>2 DEF YearStart, YearLength
  <2>6. p * l \in Int
    OBVIOUS
  <2> QED BY <1>1, <2>1, <2>2, <2>4, <2>5, <2>6
<1>4. q + 1 \in Nat /\ (q + 1) * l = q * l + l
  OBVIOUS
<1>5. (q * l + j) % l = j /\ YearStart(q * l + j) = q * l
  BY <1>3
<1>6. ((q + 1) * l + j) % l = j /\ YearStart((q + 1) * l + j) = (q + 1) * l
  BY <1>3, <1>4
<1> QED BY <1>1, <1>2, <1>4, <1>5, <1>6

\* What is known of a month between two others, by its place in the year.
LEMMA YearOfMonth ==
    ASSUME NEW m \in Nat, NEW n \in Nat, YearStart(m) <= n
    PROVE  /\ n < YearStart(m) + YearLength => YearStart(n) = YearStart(m) /\ n % YearLength = n - YearStart(m)
           /\ YearStart(m) + YearLength <= n /\ n < YearStart(m) + YearLength + YearLength =>
                YearStart(n) = YearStart(m) + YearLength /\ n % YearLength = n - YearStart(m) - YearLength
<1>1. PICK l \in Nat \ {0} : l = YearLength
  BY LengthNat
<1>2. PICK y \in Nat : y = YearStart(m)
  BY YearFound
<1>3. ASSUME n < y + l PROVE YearStart(n) = y /\ n % l = n - y
  <2>1. PICK j \in 0 .. l - 1 : j = n - y
    BY <1>2, <1>3
  <2>2. (y + j) % l = j /\ YearStart(y + j) = y
    BY <1>1, <1>2, YearMonths
  <2>3. y + j = n
    BY <2>1
  <2> QED BY <2>1, <2>2, <2>3
<1>4. ASSUME y + l <= n, n < y + l + l PROVE YearStart(n) = y + l /\ n % l = n - y - l
  <2>1. PICK j \in 0 .. l - 1 : j = n - y - l
    BY <1>2, <1>4
  <2>2. (y + l + j) % l = j /\ YearStart(y + l + j) = y + l
    BY <1>1, <1>2, YearMonths
  <2>3. y + l + j = n
    BY <2>1
  <2> QED BY <2>1, <2>2, <2>3
<1> QED BY <1>1, <1>2, <1>3, <1>4

(* The next reset is the first day, after the day it is reckoned on, that the method names. *)

FirstAfter(next, now, Named(_)) ==
    next \in Nat /\ next > now /\ Named(next) /\ \A d \in (now + 1) .. (next - 1) : ~Named(d)

\* The days between two others, and their months.
LEMMA Between ==
    ASSUME NEW now \in Nat, NEW next \in Nat, NEW d \in (now + 1) .. (next - 1)
    PROVE  d \in Nat /\ now < d /\ d < next /\ MonthOf(d) \in Nat /\ MonthOf(now) <= MonthOf(d) /\ MonthOf(d) <= MonthOf(next)
<1>1. d \in Nat /\ now < d /\ d < next
  OBVIOUS
<1> QED BY <1>1, MonthFound, MonthsInOrder

\* The first day of every month.
FirstDay(d) == DayOf(d) = 0

LEMMA FirstOfMonth == ASSUME NEW now \in Nat PROVE FirstAfter(Start(MonthOf(now) + 1), now, FirstDay)
<1>1. PICK m \in Nat : m = MonthOf(now) /\ now < Start(m + 1) /\ Start(m) <= now
  BY MonthFound
<1>2. PICK n \in Nat : n = Start(m + 1) /\ n < Start(m + 2)
  <2>1. m + 1 \in Nat /\ m + 1 + 1 = m + 2
    OBVIOUS
  <2>2. Start(m + 1) \in Nat /\ Start(m + 1 + 1) = Start(m + 1) + Length(m + 1) /\ Length(m + 1) \in Nat \ {0}
    BY <2>1, StartNat
  <2> QED BY <2>1, <2>2
<1>3. MonthOf(n) = m + 1
  <2>1. m + 1 \in Nat /\ m + 1 + 1 = m + 2
    OBVIOUS
  <2>2. Start(m + 1) <= n /\ n < Start(m + 1 + 1)
    BY <1>2, <2>1
  <2> QED BY <2>1, <2>2, MonthIs
<1>4. FirstDay(n)
  BY <1>2, <1>3 DEF FirstDay, DayOf
<1>5. ASSUME NEW d \in (now + 1) .. (n - 1) PROVE ~FirstDay(d)
  <2>1. d \in Nat /\ now < d /\ d < n /\ Start(m) <= d
    <3>1. Start(m) \in Nat
      BY StartNat
    <3> QED BY <1>1, <3>1
  <2>2. MonthOf(d) = m
    BY <1>2, <2>1, MonthIs
  <2>3. Start(m) \in Nat /\ DayOf(d) = d - Start(m)
    BY <2>2, StartNat DEF DayOf
  <2> QED BY <1>1, <2>1, <2>3 DEF FirstDay
<1> QED BY <1>1, <1>2, <1>4, <1>5 DEF FirstAfter

\* The anchor of every month.
MonthsAnchor(e, d) == d = calendarAnchor(MonthOf(d), e)

LEMMA AnchorOfMonth ==
    ASSUME NEW now \in Nat, NEW e \in Nat, NEW this, NEW next,
           this = calendarAnchor(MonthOf(now), e), next = calendarAnchor(MonthOf(now) + 1, e)
    PROVE  FirstAfter(IF this > now THEN this ELSE next, now, LAMBDA d : MonthsAnchor(e, d))
<1>1. PICK m \in Nat : m = MonthOf(now) /\ now < Start(m + 1)
  BY MonthFound
<1>2. this \in Nat /\ MonthOf(this) = m /\ this < Start(m + 1)
  BY <1>1, AnchorDay
<1>3. m + 1 \in Nat
  OBVIOUS
<1>4. next \in Nat /\ MonthOf(next) = m + 1 /\ Start(m + 1) <= next
  BY <1>1, <1>3, AnchorDay
<1>5. Start(m + 1) \in Nat
  BY <1>3, StartNat
<1>6. CASE this > now
  <2>1. ASSUME NEW d \in (now + 1) .. (this - 1) PROVE ~MonthsAnchor(e, d)
    <3>1. d \in Nat /\ d < this /\ MonthOf(d) \in Nat /\ m <= MonthOf(d) /\ MonthOf(d) <= m
      BY <1>1, <1>2, Between
    <3>2. MonthOf(d) = m
      BY <3>1
    <3> QED BY <1>1, <1>2, <3>1, <3>2 DEF MonthsAnchor
  <2>2. MonthsAnchor(e, this)
    BY <1>1, <1>2 DEF MonthsAnchor
  <2> QED BY <1>2, <1>6, <2>1, <2>2 DEF FirstAfter
<1>7. CASE ~(this > now)
  <2>1. ASSUME NEW d \in (now + 1) .. (next - 1) PROVE ~MonthsAnchor(e, d)
    <3>1. d \in Nat /\ now < d /\ d < next /\ MonthOf(d) \in Nat /\ m <= MonthOf(d) /\ MonthOf(d) <= m + 1
      BY <1>1, <1>4, Between
    <3>2. CASE MonthOf(d) = m
      BY <1>1, <1>2, <1>7, <3>1, <3>2 DEF MonthsAnchor
    <3>3. CASE MonthOf(d) = m + 1
      BY <1>1, <1>4, <3>1, <3>3 DEF MonthsAnchor
    <3> QED BY <3>1, <3>2, <3>3
  <2>2. MonthsAnchor(e, next)
    BY <1>1, <1>4 DEF MonthsAnchor
  <2>3. next > now
    BY <1>1, <1>4, <1>5
  <2> QED BY <1>4, <1>7, <2>1, <2>2, <2>3 DEF FirstAfter
<1> QED BY <1>6, <1>7

\* The first day of every year.
FirstOfYear(d) == d = Start(YearStart(MonthOf(d)))

LEMMA NewYear ==
    ASSUME NEW now \in Nat PROVE FirstAfter(Start(YearStart(MonthOf(now)) + YearLength), now, FirstOfYear)
<1>1. PICK m \in Nat : m = MonthOf(now) /\ now < Start(m + 1) /\ Start(m) <= now
  BY MonthFound
<1>2. PICK l \in Nat \ {0} : l = YearLength
  BY LengthNat
<1>3. PICK y \in Nat : y = YearStart(m) /\ y <= m /\ m < y + l
  <2>1. PICK r \in 0 .. l - 1 : r = m % YearLength /\ m = YearStart(m) + r
    BY <1>2, YearFound
  <2>2. PICK y \in Nat : y = YearStart(m)
    BY YearFound
  <2>3. y <= m /\ m < y + l
    BY <2>1, <2>2
  <2> QED BY <2>2, <2>3
<1>4. PICK z \in Nat : z = y + l
  OBVIOUS
<1>5. PICK n \in Nat : n = Start(z)
  BY StartNat
<1>6. MonthOf(n) = z
  <2>1. Start(z) <= n /\ n < Start(z + 1)
    <3>1. Start(z) \in Nat /\ Start(z + 1) = Start(z) + Length(z) /\ Length(z) \in Nat \ {0}
      BY StartNat
    <3> QED BY <1>5, <3>1
  <2> QED BY <2>1, MonthIs
<1>7. YearStart(z) = z
  <2>1. 0 \in 0 .. l - 1
    OBVIOUS
  <2>2. YearStart(y + l + 0) = y + l
    BY <1>2, <1>3, <2>1, YearMonths
  <2> QED BY <1>4, <2>2
<1>8. now < n
  <2>1. Start(m + 1) <= n /\ Start(m + 1) \in Nat
    BY <1>3, <1>4, <1>5, StartGrows, StartNat
  <2> QED BY <1>1, <2>1
<1>9. ASSUME NEW d \in (now + 1) .. (n - 1) PROVE ~FirstOfYear(d)
  <2>1. d \in Nat /\ now < d /\ d < n /\ MonthOf(d) \in Nat /\ m <= MonthOf(d) /\ MonthOf(d) <= z
    BY <1>1, <1>6, Between
  <2>2. PICK k \in Nat : k = MonthOf(d) /\ Start(k) <= d
    BY <2>1, MonthFound
  <2>3. k # z
    BY <1>5, <2>1, <2>2
  <2>4. YearStart(k) = y
    <3>1. y <= k /\ k < y + l
      BY <1>3, <1>4, <2>1, <2>2, <2>3
    <3> QED BY <1>2, <1>3, <3>1, YearOfMonth
  <2>5. Start(y) <= now
    <3>1. CASE y = m
      BY <1>1, <3>1
    <3>2. CASE y < m
      <4>1. Start(y + 1) <= Start(m) /\ Start(y) \in Nat /\ Start(y + 1) = Start(y) + Length(y)
            /\ Length(y) \in Nat /\ Start(m) \in Nat
        BY <3>2, StartGrows, StartNat
      <4> QED BY <1>1, <4>1
    <3> QED BY <1>3, <3>1, <3>2
  <2>6. Start(y) \in Nat
    BY StartNat
  <2> QED BY <2>1, <2>2, <2>4, <2>5, <2>6 DEF FirstOfYear
<1>10. FirstOfYear(n)
  BY <1>5, <1>6, <1>7 DEF FirstOfYear
<1> QED BY <1>1, <1>2, <1>3, <1>4, <1>5, <1>8, <1>9, <1>10 DEF FirstAfter

\* The anchor of one month of every year.
YearsAnchor(e, d) == MonthOf(d) % YearLength = MonthOf(e) % YearLength /\ MonthsAnchor(e, d)

LEMMA AnchorOfYear ==
    ASSUME NEW now \in Nat, NEW e \in Nat, NEW this, NEW next,
           this = annualAnchor(MonthOf(now), e), next = annualAnchor(MonthOf(now) + YearLength, e)
    PROVE  FirstAfter(IF this > now THEN this ELSE next, now, LAMBDA d : YearsAnchor(e, d))
<1>1. PICK m \in Nat : m = MonthOf(now) /\ now < Start(m + 1)
  BY MonthFound
<1>2. PICK l \in Nat \ {0} : l = YearLength
  BY LengthNat
<1>3. PICK j \in 0 .. l - 1 : j = MonthOf(e) % YearLength
  BY <1>2, MonthFound, YearFound
<1>4. PICK r \in 0 .. l - 1 : r = m % YearLength /\ m = YearStart(m) + r
  BY <1>2, YearFound
<1>5. PICK y \in Nat : y = YearStart(m)
  BY YearFound
<1>6. m = y + r
  BY <1>4, <1>5
<1>7. PICK t \in Nat : t = y + j
  BY <1>3
<1>8. PICK u \in Nat : u = y + l + j
  BY <1>3
<1>9. t % YearLength = j /\ u % YearLength = j
  BY <1>2, <1>3, <1>5, <1>7, <1>8, YearMonths
<1>10. this = calendarAnchor(t, e)
  <2>1. MonthOf(e) % Len(MonthDays) = j
    BY <1>3 DEF YearLength
  <2>2. this = calendarAnchor(YearStart(m) + j, e)
    BY <1>1, <2>1 DEF annualAnchor
  <2> QED BY <1>5, <1>7, <2>2
<1>11. YearStart(m + l) = y + l
  <2>1. m + l = y + l + r
    BY <1>6
  <2>2. YearStart(y + l + r) = y + l
    BY <1>2, <1>4, <1>5, YearMonths
  <2> QED BY <2>1, <2>2
<1>12. next = calendarAnchor(u, e)
  <2>1. MonthOf(e) % Len(MonthDays) = j
    BY <1>3 DEF YearLength
  <2>2. next = calendarAnchor(YearStart(m + l) + j, e)
    BY <1>1, <1>2, <2>1 DEF annualAnchor
  <2> QED BY <1>8, <1>11, <2>2
<1>13. this \in Nat /\ MonthOf(this) = t
  BY <1>10, AnchorDay
<1>14. next \in Nat /\ MonthOf(next) = u /\ Start(u) <= next
  BY <1>12, AnchorDay
<1>15. ASSUME NEW k \in Nat, m <= k, k <= u, k % YearLength = j PROVE k = t \/ k = u
  <2>1. y <= k /\ k < y + l + l
    BY <1>3, <1>6, <1>8, <1>15
  <2>2. CASE k < y + l
    <3>1. k % YearLength = k - y
      BY <1>2, <1>5, <2>1, <2>2, YearOfMonth
    <3> QED BY <1>7, <1>15, <3>1
  <2>3. CASE ~(k < y + l)
    <3>1. y + l <= k
      BY <1>5, <2>3
    <3>2. k % YearLength = k - y - l
      BY <1>2, <1>5, <2>1, <3>1, YearOfMonth
    <3> QED BY <1>8, <1>15, <3>2
  <2> QED BY <2>2, <2>3
<1>16. t < u
  BY <1>3, <1>7, <1>8
<1>17. CASE this > now
  <2>1. ASSUME NEW d \in (now + 1) .. (this - 1) PROVE ~YearsAnchor(e, d)
    <3>1. PICK k \in Nat : k = MonthOf(d) /\ m <= k /\ k <= t /\ d < this
      BY <1>1, <1>13, Between
    <3>2. k % YearLength = j => k = t
      BY <1>15, <1>16, <3>1
    <3> QED BY <1>3, <1>10, <3>1, <3>2 DEF YearsAnchor, MonthsAnchor
  <2>2. YearsAnchor(e, this)
    BY <1>3, <1>9, <1>10, <1>13 DEF YearsAnchor, MonthsAnchor
  <2> QED BY <1>13, <1>17, <2>1, <2>2 DEF FirstAfter
<1>18. CASE ~(this > now)
  <2>1. ASSUME NEW d \in (now + 1) .. (next - 1) PROVE ~YearsAnchor(e, d)
    <3>1. PICK k \in Nat : k = MonthOf(d) /\ m <= k /\ k <= u /\ d < next /\ d \in Nat /\ now < d
      BY <1>1, <1>14, Between
    <3>2. k % YearLength = j => k = t \/ k = u
      BY <1>15, <3>1
    <3>3. d # this
      BY <1>13, <1>18, <3>1
    <3> QED BY <1>3, <1>10, <1>12, <3>1, <3>2, <3>3 DEF YearsAnchor, MonthsAnchor
  <2>2. YearsAnchor(e, next)
    BY <1>3, <1>9, <1>12, <1>14 DEF YearsAnchor, MonthsAnchor
  <2>3. next > now
    <3>1. m < u
      BY <1>3, <1>4, <1>6, <1>8
    <3>2. Start(m + 1) <= Start(u) /\ Start(m + 1) \in Nat /\ Start(u) \in Nat
      BY <3>1, StartGrows, StartNat
    <3> QED BY <1>1, <1>14, <3>2
  <2> QED BY <1>14, <1>18, <2>1, <2>2, <2>3 DEF FirstAfter
<1> QED BY <1>17, <1>18

\* CalculateNextTrafficReset finds that day for every method that names one.
LEMMA NextReset ==
    ASSUME NEW how \in 0 .. 4, NEW e \in Nat \cup {Never}, NEW now \in Nat,
           NEW next, next = CalculateNextTrafficReset(how, e, now), next # Never
    PROVE  /\ next \in Nat /\ next > now /\ Anchor(next, how, e)
           /\ \A d \in (now + 1) .. (next - 1) : ~Anchor(d, how, e)
<1>1. e \in Nat
  BY DEF CalculateNextTrafficReset
<1>2. PICK m \in Nat : m = MonthOf(now)
  BY MonthFound
<1>3. e # Never
  BY <1>1 DEF Never
<1>4. CASE how = 0
  <2>1. next = Start(m + 1)
    BY <1>2, <1>3, <1>4 DEF CalculateNextTrafficReset
  <2>2. FirstAfter(next, now, FirstDay)
    BY <1>2, <2>1, FirstOfMonth
  <2> QED BY <1>4, <2>2 DEF FirstAfter, FirstDay, Anchor
<1>5. CASE how = 1
  <2>1. PICK this : this = calendarAnchor(m, e)
    OBVIOUS
  <2>2. PICK that : that = calendarAnchor(m + 1, e)
    OBVIOUS
  <2>3. next = IF this > now THEN this ELSE that
    BY <1>2, <1>3, <1>5, <2>1, <2>2 DEF CalculateNextTrafficReset
  <2>4. FirstAfter(next, now, LAMBDA d : MonthsAnchor(e, d))
    BY <1>1, <1>2, <2>1, <2>2, <2>3, AnchorOfMonth
  <2>5. next \in Nat /\ next > now /\ MonthsAnchor(e, next) /\ \A d \in (now + 1) .. (next - 1) : ~MonthsAnchor(e, d)
    BY <2>4 DEF FirstAfter
  <2>6. ASSUME NEW d \in Nat PROVE Anchor(d, how, e) <=> MonthsAnchor(e, d)
    BY <1>1, <1>5, AnchorRead DEF Anchor, MonthsAnchor
  <2> QED BY <2>5, <2>6
<1>6. CASE how = 2
  BY <1>3, <1>6 DEF CalculateNextTrafficReset
<1>7. CASE how = 3
  <2>1. next = Start(YearStart(m) + YearLength)
    BY <1>2, <1>3, <1>7 DEF CalculateNextTrafficReset, YearLength
  <2>2. FirstAfter(next, now, FirstOfYear)
    BY <1>2, <2>1, NewYear
  <2> QED BY <1>7, <2>2 DEF FirstAfter, FirstOfYear, Anchor
<1>8. CASE how = 4
  <2>1. PICK this : this = annualAnchor(m, e)
    OBVIOUS
  <2>2. PICK that : that = annualAnchor(m + YearLength, e)
    OBVIOUS
  <2>3. next = IF this > now THEN this ELSE that
    BY <1>2, <1>3, <1>8, <2>1, <2>2 DEF CalculateNextTrafficReset, YearLength
  <2>4. FirstAfter(next, now, LAMBDA d : YearsAnchor(e, d))
    BY <1>1, <1>2, <2>1, <2>2, <2>3, AnchorOfYear
  <2>5. next \in Nat /\ next > now /\ YearsAnchor(e, next) /\ \A d \in (now + 1) .. (next - 1) : ~YearsAnchor(e, d)
    BY <2>4 DEF FirstAfter
  <2>6. ASSUME NEW d \in Nat PROVE Anchor(d, how, e) <=> YearsAnchor(e, d)
    BY <1>1, <1>8, AnchorRead DEF Anchor, MonthsAnchor, YearsAnchor, YearLength
  <2> QED BY <2>5, <2>6
<1> QED BY <1>4, <1>5, <1>6, <1>7, <1>8

(* Traffic reports and resets *)

Day == Nat \cup {Never}
Rider == [used : Nat, group : {1, 2}, banned : BOOLEAN, expiry : Day, next : Day, count : Nat]
Gate == [rate : Rates, group : {1, 2}, on : BOOLEAN, total : Nat]
ReportId == {r.id : r \in Reports}
Receipt == [gate : Gates, id : ReportId, traffic : [Riders -> Nat], at : Nat]
Count == [gate : Gates, id : ReportId, at : Nat]
Reset == [user : Riders, before : Nat, key : ResetKeys \cup {Never}, due : Day, count : Nat]
Reckoning == [at : Nat, how : 0 .. 4]

TrafficTypeOK ==
    /\ riders \in [Riders -> Rider] /\ gates \in [Gates -> Gate]
    /\ receipts \subseteq Receipt /\ counted \subseteq Count /\ resets \in Seq(Reset)
    /\ method \in 0 .. 4 /\ day \in Nat
    /\ charged \in [Riders -> Nat] /\ reckoned \in [Riders -> Reckoning]

\* A report has a receipt only if it was counted, and while it may come again it has one.
Same(c, k) == c.gate = k.gate /\ c.id = k.id
ReceiptsTrue ==
    /\ \A c \in receipts : \E k \in counted : Same(c, k)
    /\ \A k \in counted : day - k.at <= ReceiptLife => \E c \in receipts : Same(c, k) /\ c.at = k.at
ToldCounted == \A t \in told : \E c \in counted : <<c.gate, c.id>> = t

\* What the resets wiped of the traffic of u.
WipedOf(u) == [x \in Reset |-> IF x.user = u THEN x.before ELSE 0]
UsageSound == \A u \in Riders : riders[u].used + Weight(WipedOf(u), resets) = charged[u]
KeysApart == \A i, j \in DOMAIN resets : i # j => resets[i].key = Never \/ resets[i].key # resets[j].key
NextSound ==
    \A u \in Riders :
        riders[u].next = CalculateNextTrafficReset(reckoned[u].how, riders[u].expiry, reckoned[u].at)

TrafficInv == TrafficTypeOK /\ ReceiptsTrue /\ ToldCounted /\ UsageSound /\ KeysApart /\ NextSound

LEMMA NextType ==
    ASSUME NEW how \in 0 .. 4, NEW e \in Day, NEW now \in Nat
    PROVE  CalculateNextTrafficReset(how, e, now) \in Day
BY NextReset DEF Day

LEMMA WipedInt == ASSUME NEW u PROVE \A x \in Reset : WipedOf(u)[x] \in Int
BY DEF WipedOf, Reset

\* The resets of u add up to their weight.
LEMMA WipedSum ==
    ASSUME resets \in Seq(Reset), NEW u
    PROVE  SumFunctionOnSet([i \in DOMAIN resets |-> resets[i].before], {i \in DOMAIN resets : resets[i].user = u})
             = Weight(WipedOf(u), resets)
<1> DEFINE D == DOMAIN resets
           T == {i \in D : resets[i].user = u}
           f == [i \in D |-> resets[i].before]
           g == [i \in D |-> WipedOf(u)[resets[i]]]
<1>1. IsFiniteSet(D) /\ \A i \in D : resets[i] \in Reset
  <2>1. IsFiniteSet(D)
    BY PlacesFinite
  <2> QED BY <2>1
<1>2. \A i \in D : f[i] \in Int /\ g[i] = IF i \in T THEN f[i] ELSE 0
  BY <1>1 DEF Reset, WipedOf
<1>3. T \subseteq D
  OBVIOUS
<1>4. Weight(WipedOf(u), resets) = SumFunctionOnSet(g, D)
  BY DEF Weight
<1> HIDE DEF D, T, f, g
<1>5. Summable(f, D)
  BY <1>1, <1>2 DEF Summable
<1>6. SumFunctionOnSet(g, D) = SumFunctionOnSet(f, T)
  BY <1>2, <1>3, <1>5, SumMasked
<1> QED BY <1>4, <1>6 DEF D, T, f

LEMMA TrafficInvProperty == ASSUME TrafficInv PROVE TrafficAccounted
<1> USE DEF TrafficInv
<1>1. \A u \in Riders :
        riders[u].used + SumFunctionOnSet([i \in DOMAIN resets |-> resets[i].before], {i \in DOMAIN resets : resets[i].user = u})
            = charged[u]
  <2> SUFFICES ASSUME NEW u \in Riders
               PROVE  riders[u].used + SumFunctionOnSet([i \in DOMAIN resets |-> resets[i].before], {i \in DOMAIN resets : resets[i].user = u})
                        = charged[u]
    OBVIOUS
  <2>1. SumFunctionOnSet([i \in DOMAIN resets |-> resets[i].before], {i \in DOMAIN resets : resets[i].user = u})
             = Weight(WipedOf(u), resets)
    BY WipedSum DEF TrafficTypeOK
  <2>2. riders[u].used + Weight(WipedOf(u), resets) = charged[u]
    BY DEF UsageSound
  <2> HIDE DEF TrafficInv
  <2> QED BY <2>1, <2>2, Zenon
<1>2. \A u \in Riders : riders[u].next # Never =>
        /\ riders[u].next > reckoned[u].at
        /\ Anchor(riders[u].next, reckoned[u].how, riders[u].expiry)
        /\ \A d \in (reckoned[u].at + 1)..(riders[u].next - 1) : ~Anchor(d, reckoned[u].how, riders[u].expiry)
  <2> SUFFICES ASSUME NEW u \in Riders, riders[u].next # Never
               PROVE  /\ riders[u].next > reckoned[u].at
                      /\ Anchor(riders[u].next, reckoned[u].how, riders[u].expiry)
                      /\ \A d \in (reckoned[u].at + 1)..(riders[u].next - 1) : ~Anchor(d, reckoned[u].how, riders[u].expiry)
    OBVIOUS
  <2>1. riders[u].expiry \in Nat \cup {Never} /\ reckoned[u].at \in Nat /\ reckoned[u].how \in 0 .. 4
    BY DEF TrafficTypeOK, Rider, Reckoning, Day
  <2>2. riders[u].next = CalculateNextTrafficReset(reckoned[u].how, riders[u].expiry, reckoned[u].at)
    BY DEF NextSound
  <2> HIDE DEF TrafficInv
  <2>3. PICK e \in Nat \cup {Never} : e = riders[u].expiry
    BY <2>1
  <2>4. PICK now \in Nat : now = reckoned[u].at
    BY <2>1
  <2>5. PICK how \in 0 .. 4 : how = reckoned[u].how
    BY <2>1
  <2>6. PICK next : next = riders[u].next
    OBVIOUS
  <2>7. next = CalculateNextTrafficReset(how, e, now) /\ next # Never
    BY <2>2, <2>3, <2>4, <2>5, <2>6
  <2>8. next > now /\ Anchor(next, how, e) /\ \A d \in (now + 1) .. (next - 1) : ~Anchor(d, how, e)
    BY <2>7, NextReset
  <2> QED BY <2>3, <2>4, <2>5, <2>6, <2>8
<1>3. \A i, j \in DOMAIN resets : i # j => resets[i].key = Never \/ resets[i].key # resets[j].key
  BY DEF KeysApart
<1>4. \A t \in told : \E c \in counted : <<c.gate, c.id>> = t
  BY DEF ToldCounted
<1> QED BY <1>1, <1>2, <1>3, <1>4, Zenon DEF TrafficAccounted

\* Who a report names, and what it weighs.
LEMMA WeightedNat ==
    ASSUME TrafficTypeOK, NEW g \in Gates, NEW r \in Reports, NEW u \in Riders PROVE Weighted(g, r)[u] \in Nat
<1>1. r.traffic[u] \in Nat /\ gates[g].rate \in Nat /\ Scale \in Nat \ {0}
  BY TrafficConstants DEF TrafficTypeOK, Gate
<1>2. PICK a \in Nat : a = r.traffic[u]
  BY <1>1
<1>3. PICK b \in Nat : b = gates[g].rate
  BY <1>1
<1>4. a * b \in Nat
  OBVIOUS
<1>5. PICK c \in Nat : c = a * b
  BY <1>4
<1>6. c \div Scale \in Int /\ c \div Scale >= 0
  BY <1>1
<1>7. Weighted(g, r)[u] = c \div Scale
  BY <1>2, <1>3, <1>5 DEF Weighted, weightedTraffic
<1> QED BY <1>6, <1>7

LEMMA RawNat == ASSUME NEW r \in Reports PROVE RawTotal(r) \in Nat
<1>1. r.traffic \in [Riders -> Nat] /\ IsFiniteSet(Riders)
  BY TrafficConstants
<1>2. PICK f \in [Riders -> Nat] : f = r.traffic
  BY <1>1
<1>3. DOMAIN f = Riders /\ \A u \in Riders : f[u] \in Nat
  OBVIOUS
<1>4. SumFunctionOnSet(f, Riders) \in Nat
  BY <1>1, <1>3, SumNat
<1> QED BY <1>2, <1>3, <1>4, Zenon DEF RawTotal, SumFunction

\* A user with more traffic is otherwise as before.
LEMMA UsedMore ==
    ASSUME NEW r \in Rider, NEW n \in Nat
    PROVE  LET s == [r EXCEPT !.used = r.used + n] IN
           s \in Rider /\ s.used = r.used + n /\ s.expiry = r.expiry /\ s.next = r.next
BY DEF Rider

\* Traffic that is counted is charged.
LEMMA CountKeeps ==
    ASSUME TrafficInv, NEW g \in Gates, NEW r \in Reports, applyTraffic(g, r),
           charged' = [u \in Riders |-> charged[u] + Weighted(g, r)[u]], UNCHANGED <<resets, reckoned>>
    PROVE  /\ riders' \in [Riders -> Rider] /\ gates' \in [Gates -> Gate] /\ charged' \in [Riders -> Nat]
           /\ UsageSound' /\ NextSound'
<1> USE DEF TrafficInv
<1>1. ASSUME NEW u \in Riders
      PROVE  /\ riders'[u] \in Rider /\ riders'[u].used = riders[u].used + Weighted(g, r)[u]
             /\ riders'[u].expiry = riders[u].expiry /\ riders'[u].next = riders[u].next
             /\ charged'[u] = charged[u] + Weighted(g, r)[u] /\ charged'[u] \in Nat
  <2>1. PICK n \in Nat : n = Weighted(g, r)[u]
    BY WeightedNat
  <2>2. PICK x \in Rider : x = riders[u]
    BY DEF TrafficTypeOK
  <2>3. riders'[u] = [x EXCEPT !.used = x.used + n]
    BY <2>1, <2>2 DEF applyTraffic
  <2>4. charged[u] \in Nat /\ charged'[u] = charged[u] + n
    BY <2>1 DEF TrafficTypeOK
  <2> HIDE DEF TrafficInv
  <2>5. riders'[u] \in Rider /\ riders'[u].used = x.used + n /\ riders'[u].expiry = x.expiry /\ riders'[u].next = x.next
    BY <2>3, UsedMore
  <2> QED BY <2>1, <2>2, <2>4, <2>5
<1>2. riders' \in [Riders -> Rider] /\ charged' \in [Riders -> Nat]
  <2>1. DOMAIN riders' = Riders /\ riders' = [u \in Riders |-> riders'[u]]
    BY DEF applyTraffic
  <2>2. charged' = [u \in Riders |-> charged'[u]]
    OBVIOUS
  <2> QED BY <1>1, <2>1, <2>2
<1>3. gates' \in [Gates -> Gate]
  <2>1. PICK n \in Nat : n = RawTotal(r)
    BY RawNat
  <2>2. gates' = [gates EXCEPT ![g].total = @ + n]
    BY <2>1 DEF applyTraffic
  <2>3. gates \in [Gates -> Gate]
    BY DEF TrafficTypeOK
  <2> HIDE DEF TrafficInv
  <2> QED BY <2>2, <2>3 DEF Gate
<1>4. UsageSound'
  <2> SUFFICES ASSUME NEW u \in Riders PROVE riders'[u].used + Weight(WipedOf(u), resets') = charged'[u]
    BY DEF UsageSound, WipedOf
  <2>1. Weight(WipedOf(u), resets) \in Int
    <3>1. resets \in Seq(Reset) /\ \A x \in Reset : WipedOf(u)[x] \in Int
      BY WipedInt DEF TrafficTypeOK
    <3> QED BY <3>1, WeightInt
  <2>2. riders[u].used + Weight(WipedOf(u), resets) = charged[u] /\ resets' = resets
    BY DEF UsageSound
  <2>3. riders[u].used \in Nat /\ charged[u] \in Nat /\ Weighted(g, r)[u] \in Nat
    BY WeightedNat DEF TrafficTypeOK, Rider
  <2>4. Weight(WipedOf(u), resets') = Weight(WipedOf(u), resets)
    BY <2>2
  <2> HIDE DEF TrafficInv
  <2> QED BY <1>1, <2>1, <2>2, <2>3, <2>4
<1>5. NextSound'
  <2> SUFFICES ASSUME NEW u \in Riders
               PROVE riders'[u].next = CalculateNextTrafficReset(reckoned'[u].how, riders'[u].expiry, reckoned'[u].at)
    BY DEF NextSound
  <2>1. riders[u].next = CalculateNextTrafficReset(reckoned[u].how, riders[u].expiry, reckoned[u].at)
    BY DEF NextSound
  <2>2. riders'[u].expiry = riders[u].expiry /\ riders'[u].next = riders[u].next
    BY <1>1
  <2>3. reckoned' = reckoned
    OBVIOUS
  <2> HIDE DEF TrafficInv
  <2> QED BY <2>1, <2>2, <2>3, Zenon
<1> QED BY <1>2, <1>3, <1>4, <1>5

LEMMA ReceiptsAside == ASSUME ReceiptsTrue, UNCHANGED <<receipts, counted, day>> PROVE ReceiptsTrue'
BY DEF ReceiptsTrue, Same

LEMMA PushKeeps == ASSUME TrafficInv, NEW g \in Gates, NEW r \in Reports, xboardNodePush(g, r) PROVE TrafficInv'
<1>1. applyTraffic(g, r) /\ charged' = [u \in Riders |-> charged[u] + Weighted(g, r)[u]]
      /\ UNCHANGED <<receipts, resets, method, day, counted, told, reckoned>>
  BY DEF xboardNodePush
<1>2. riders' \in [Riders -> Rider] /\ gates' \in [Gates -> Gate] /\ charged' \in [Riders -> Nat] /\ UsageSound' /\ NextSound'
  BY <1>1, CountKeeps
<1>3. TrafficTypeOK'
  BY <1>1, <1>2 DEF TrafficInv, TrafficTypeOK
<1>4. ReceiptsTrue'
  BY <1>1, ReceiptsAside DEF TrafficInv
<1>5. ToldCounted' /\ KeysApart'
  BY <1>1 DEF TrafficInv, ToldCounted, KeysApart
<1> QED BY <1>2, <1>3, <1>4, <1>5 DEF TrafficInv

\* A report that comes in time has a receipt exactly if it was counted.
LEMMA ReceiptIffCounted ==
    ASSUME TrafficInv, NEW g \in Gates, NEW r \in Reports, AgainAfter(g, r)
    PROVE  ReceiptsOf(g, r) # {} <=> \E c \in counted : c.gate = g /\ c.id = r.id
<1> USE DEF TrafficInv, ReceiptsTrue, Same
<1>1. ASSUME NEW c \in ReceiptsOf(g, r) PROVE \E k \in counted : k.gate = g /\ k.id = r.id
  BY DEF ReceiptsOf
<1>2. ASSUME NEW k \in counted, k.gate = g, k.id = r.id PROVE ReceiptsOf(g, r) # {}
  <2>1. day - k.at <= ReceiptLife
    BY <1>2 DEF AgainAfter
  <2>2. PICK c \in receipts : c.gate = k.gate /\ c.id = k.id
    BY <2>1
  <2> QED BY <1>2, <2>2 DEF ReceiptsOf
<1> QED BY <1>1, <1>2

\* Receipts that are kept still stand for all that may come again.
LEMMA KeptTrue ==
    ASSUME TrafficInv, NEW g \in Gates, NEW r \in Reports, receipts' = Kept(g, r), UNCHANGED <<counted, day>>
    PROVE  ReceiptsTrue' /\ receipts' \subseteq Receipt
<1> USE DEF TrafficInv
<1>1. receipts' \subseteq receipts
  BY DEF Kept
<1>2. receipts' \subseteq Receipt
  BY <1>1 DEF TrafficTypeOK
<1>3. ASSUME NEW c \in receipts' PROVE \E k \in counted' : Same(c, k)
  BY <1>1 DEF ReceiptsTrue
<1>4. ASSUME NEW k \in counted', day' - k.at <= ReceiptLife PROVE \E c \in receipts' : Same(c, k) /\ c.at = k.at
  <2>1. k \in counted /\ day - k.at <= ReceiptLife
    BY <1>4
  <2>2. PICK c \in receipts : Same(c, k) /\ c.at = k.at
    BY <2>1 DEF ReceiptsTrue
  <2>3. c \in receipts'
    BY <2>1, <2>2 DEF Kept
  <2> QED BY <2>2, <2>3
<1> HIDE DEF TrafficInv
<1>5. ReceiptsTrue'
  BY <1>3, <1>4 DEF ReceiptsTrue, Same
<1> QED BY <1>2, <1>5

\* A new receipt stands for what was counted with it.
LEMMA ReceiptGiven ==
    ASSUME TrafficInv, NEW g \in Gates, NEW r \in Reports, UNCHANGED day,
           receipts' = Kept(g, r) \cup {[gate |-> g, id |-> r.id, traffic |-> r.traffic, at |-> day]},
           counted' = counted \cup {[gate |-> g, id |-> r.id, at |-> day]}
    PROVE  ReceiptsTrue' /\ receipts' \subseteq Receipt /\ counted' \subseteq Count
<1> USE DEF TrafficInv
<1>1. PICK n : n = [gate |-> g, id |-> r.id, traffic |-> r.traffic, at |-> day]
  OBVIOUS
<1>2. PICK m : m = [gate |-> g, id |-> r.id, at |-> day]
  OBVIOUS
<1>3. n \in Receipt /\ m \in Count
  <2>1. r.traffic \in [Riders -> Nat] /\ r.id \in ReportId /\ day \in Nat
    BY TrafficConstants DEF ReportId, TrafficTypeOK
  <2> QED BY <1>1, <1>2, <2>1 DEF Receipt, Count
<1>4. Same(n, m) /\ n.at = m.at
  BY <1>1, <1>2 DEF Same
<1>5. Kept(g, r) \subseteq receipts /\ receipts \subseteq Receipt /\ counted \subseteq Count
  BY DEF Kept, TrafficTypeOK
<1>6. receipts' = Kept(g, r) \cup {n} /\ counted' = counted \cup {m}
  BY <1>1, <1>2
<1>7. ASSUME NEW c \in receipts' PROVE \E k \in counted' : Same(c, k)
  <2>1. CASE c = n
    BY <1>4, <1>6, <2>1
  <2>2. CASE c \in receipts
    BY <1>6, <2>2 DEF ReceiptsTrue
  <2> QED BY <1>5, <1>6, <2>1, <2>2
<1>8. ASSUME NEW k \in counted', day' - k.at <= ReceiptLife PROVE \E c \in receipts' : Same(c, k) /\ c.at = k.at
  <2>1. CASE k = m
    BY <1>4, <1>6, <2>1
  <2>2. CASE k \in counted
    <3>1. day - k.at <= ReceiptLife
      BY <1>8
    <3>2. PICK c \in receipts : Same(c, k) /\ c.at = k.at
      BY <2>2, <3>1 DEF ReceiptsTrue
    <3>3. c \in receipts'
      BY <1>6, <3>1, <3>2 DEF Kept
    <3> QED BY <3>2, <3>3
  <2> QED BY <1>6, <2>1, <2>2
<1> HIDE DEF TrafficInv
<1>9. ReceiptsTrue'
  BY <1>7, <1>8 DEF ReceiptsTrue, Same
<1> QED BY <1>3, <1>5, <1>6, <1>9

LEMMA ReportKeeps ==
    ASSUME TrafficInv, NEW g \in Gates, NEW r \in Reports, NEW answered \in BOOLEAN, ApplyNodeReport(g, r, answered)
    PROVE  TrafficInv'
<1>1. AgainAfter(g, r) /\ UNCHANGED <<resets, method, day, moves, reckoned>>
      /\ told' = IF answered THEN told \cup {<<g, r.id>>} ELSE told
  BY DEF ApplyNodeReport
<1>2. KeysApart'
  BY <1>1 DEF TrafficInv, KeysApart
<1>3. CASE ReceiptsOf(g, r) # {}
  <2>1. \E c \in counted : c.gate = g /\ c.id = r.id
    BY <1>1, <1>3, ReceiptIffCounted
  <2>2. UNCHANGED <<riders, gates, counted, charged>> /\ receipts' = Kept(g, r)
    BY <1>3, <2>1 DEF ApplyNodeReport
  <2>3. ReceiptsTrue' /\ receipts' \subseteq Receipt
    BY <1>1, <2>2, KeptTrue
  <2>4. TrafficTypeOK'
    BY <1>1, <2>2, <2>3 DEF TrafficInv, TrafficTypeOK
  <2>5. UsageSound' /\ NextSound'
    BY <1>1, <2>2 DEF TrafficInv, UsageSound, NextSound, WipedOf
  <2>6. ToldCounted'
    <3>1. \A t \in told : \E c \in counted : <<c.gate, c.id>> = t
      BY DEF TrafficInv, ToldCounted
    <3>2. \E c \in counted : <<c.gate, c.id>> = <<g, r.id>>
      BY <2>1
    <3>3. \A t \in told' : t \in told \/ t = <<g, r.id>>
      BY <1>1
    <3>4. counted' = counted
      BY <2>2
    <3> QED BY <3>1, <3>2, <3>3, <3>4, Zenon DEF ToldCounted
  <2> QED BY <1>2, <2>3, <2>4, <2>5, <2>6 DEF TrafficInv
<1>4. CASE ReceiptsOf(g, r) = {}
  <2>1. ~\E c \in counted : c.gate = g /\ c.id = r.id
    BY <1>1, <1>4, ReceiptIffCounted
  <2>2. applyTraffic(g, r) /\ charged' = [u \in Riders |-> charged[u] + Weighted(g, r)[u]]
        /\ receipts' = Kept(g, r) \cup {[gate |-> g, id |-> r.id, traffic |-> r.traffic, at |-> day]}
        /\ counted' = counted \cup {[gate |-> g, id |-> r.id, at |-> day]}
    BY <1>4, <2>1 DEF ApplyNodeReport
  <2>3. riders' \in [Riders -> Rider] /\ gates' \in [Gates -> Gate] /\ charged' \in [Riders -> Nat] /\ UsageSound' /\ NextSound'
    BY <1>1, <2>2, CountKeeps
  <2>4. ReceiptsTrue' /\ receipts' \subseteq Receipt /\ counted' \subseteq Count
    BY <1>1, <2>2, ReceiptGiven
  <2>5. TrafficTypeOK'
    BY <1>1, <2>3, <2>4 DEF TrafficInv, TrafficTypeOK
  <2>6. ToldCounted'
    <3>1. \A t \in told : \E c \in counted : <<c.gate, c.id>> = t
      BY DEF TrafficInv, ToldCounted
    <3>2. \E c \in counted' : <<c.gate, c.id>> = <<g, r.id>>
      <4>1. PICK c : c = [gate |-> g, id |-> r.id, at |-> day]
        OBVIOUS
      <4>2. c \in counted' /\ c.gate = g /\ c.id = r.id
        BY <2>2, <4>1
      <4> QED BY <4>2
    <3>3. \A t \in told' : t \in told \/ t = <<g, r.id>>
      BY <1>1
    <3>4. counted \subseteq counted'
      BY <2>2
    <3> QED BY <3>1, <3>2, <3>3, <3>4, Zenon DEF ToldCounted
  <2> QED BY <1>2, <2>3, <2>4, <2>5, <2>6 DEF TrafficInv
<1> QED BY <1>3, <1>4

LEMMA NodeSaveKeeps == ASSUME TrafficInv, NEW g \in Gates, SaveNodeRuntime(g) PROVE TrafficInv'
<1>1. PICK rate \in Rates, group \in {1, 2}, on \in BOOLEAN :
        gates' = [gates EXCEPT ![g] = [gates[g] EXCEPT !.rate = rate, !.group = group, !.on = on]]
  BY DEF SaveNodeRuntime
<1>2. UNCHANGED <<riders, receipts, resets, method, day, counted, told, charged, reckoned>>
  BY DEF SaveNodeRuntime
<1>3. gates' \in [Gates -> Gate]
  <2>1. PICK x \in Gate : x = gates[g]
    BY DEF TrafficInv, TrafficTypeOK
  <2>2. [x EXCEPT !.rate = rate, !.group = group, !.on = on] \in Gate
    BY DEF Gate
  <2>3. gates \in [Gates -> Gate]
    BY DEF TrafficInv, TrafficTypeOK
  <2> QED BY <1>1, <2>1, <2>2, <2>3
<1>4. TrafficTypeOK'
  BY <1>2, <1>3 DEF TrafficInv, TrafficTypeOK
<1>5. ReceiptsTrue'
  BY <1>2, ReceiptsAside DEF TrafficInv
<1>6. ToldCounted' /\ KeysApart' /\ UsageSound' /\ NextSound'
  BY <1>2 DEF TrafficInv, ToldCounted, KeysApart, UsageSound, NextSound, WipedOf
<1> QED BY <1>4, <1>5, <1>6 DEF TrafficInv

\* A new reckoning agrees with what is written down with it.
LEMMA ReckonedNext ==
    ASSUME TrafficInv, NEW us \in SUBSET Riders, NEW how \in 0 .. 4, Reckon(us, how), UNCHANGED day,
           \A u \in us : riders'[u].next = CalculateNextTrafficReset(how, riders'[u].expiry, day),
           \A u \in Riders \ us : riders'[u].next = riders[u].next /\ riders'[u].expiry = riders[u].expiry
    PROVE  reckoned' \in [Riders -> Reckoning] /\ NextSound'
<1> USE DEF TrafficInv
<1>1. ASSUME NEW u \in us PROVE reckoned'[u] = [at |-> day, how |-> how]
  BY DEF Reckon
<1>2. ASSUME NEW u \in Riders \ us PROVE reckoned'[u] = reckoned[u]
  BY DEF Reckon
<1>3. [at |-> day, how |-> how] \in Reckoning
  BY DEF TrafficTypeOK, Reckoning
<1>4. reckoned' \in [Riders -> Reckoning]
  <2>1. reckoned' = [u \in Riders |-> reckoned'[u]]
    BY DEF Reckon
  <2>2. \A u \in Riders : reckoned'[u] \in Reckoning
    BY <1>1, <1>2, <1>3 DEF TrafficTypeOK
  <2> QED BY <2>1, <2>2
<1>5. ASSUME NEW u \in Riders
      PROVE  riders'[u].next = CalculateNextTrafficReset(reckoned'[u].how, riders'[u].expiry, reckoned'[u].at)
  <2>1. CASE u \in us
    <3>1. reckoned'[u].how = how /\ reckoned'[u].at = day
      BY <1>1, <2>1
    <3>2. riders'[u].next = CalculateNextTrafficReset(how, riders'[u].expiry, day)
      BY <2>1
    <3> HIDE DEF TrafficInv
    <3> QED BY <3>1, <3>2, Zenon
  <2>2. CASE u \notin us
    <3>1. reckoned'[u] = reckoned[u] /\ riders'[u].next = riders[u].next /\ riders'[u].expiry = riders[u].expiry
      BY <1>2, <2>2
    <3>2. riders[u].next = CalculateNextTrafficReset(reckoned[u].how, riders[u].expiry, reckoned[u].at)
      BY DEF NextSound
    <3> HIDE DEF TrafficInv
    <3> QED BY <3>1, <3>2, Zenon
  <2> QED BY <2>1, <2>2
<1> HIDE DEF TrafficInv
<1> QED BY <1>4, <1>5, Zenon DEF NextSound

\* A reset moves what was used from the user to the log.
LEMMA ZeroedRider ==
    ASSUME NEW r \in Rider, NEW n \in Day
    PROVE  LET s == [r EXCEPT !.used = 0, !.count = r.count + 1, !.next = n] IN
           s \in Rider /\ s.used = 0 /\ s.expiry = r.expiry /\ s.next = n
<1>1. PICK c \in Nat : c = r.count + 1
  BY DEF Rider
<1>2. PICK s : s = [r EXCEPT !.used = 0, !.count = c, !.next = n]
  OBVIOUS
<1>3. s \in Rider
  BY <1>2 DEF Rider
<1>4. s.used = 0 /\ s.expiry = r.expiry /\ s.next = n
  BY <1>2 DEF Rider
<1> QED BY <1>1, <1>2, <1>3, <1>4

LEMMA ResetKeeps ==
    ASSUME TrafficInv, NEW u \in Riders, NEW key \in ResetKeys \cup {Never}, NEW due \in Day,
           key = Never \/ findAdminUserTrafficReset(key) = {},
           riders' = Zeroed(u, NextFor(riders[u].expiry)), Logged(u, key, due), Reckon({u}, method),
           UNCHANGED <<gates, receipts, method, day, moves, counted, told, charged>>
    PROVE  TrafficInv'
<1> USE DEF TrafficInv
<1>1. PICK x \in Rider : x = riders[u]
  BY DEF TrafficTypeOK
<1>2. PICK n \in Day : n = CalculateNextTrafficReset(method, x.expiry, day)
  <2>1. x.expiry \in Day /\ method \in 0 .. 4 /\ day \in Nat
    BY DEF Rider, TrafficTypeOK
  <2> QED BY <2>1, NextType
<1>3. PICK s \in Rider : s = [x EXCEPT !.used = 0, !.count = x.count + 1, !.next = n] /\ s.used = 0 /\ s.expiry = x.expiry /\ s.next = n
  BY ZeroedRider
<1>4. riders' = [riders EXCEPT ![u] = s]
  BY <1>1, <1>2, <1>3 DEF Zeroed, NextFor
<1>5. PICK e : e = [user |-> u, before |-> x.used, key |-> key, due |-> due, count |-> x.count + 1]
  OBVIOUS
<1>6. e \in Reset /\ e.user = u /\ e.before = x.used /\ e.key = key
  BY <1>5 DEF Reset, Rider
<1>7. resets' = Append(resets, e)
  BY <1>1, <1>5 DEF Logged
<1>8. riders \in [Riders -> Rider] /\ resets \in Seq(Reset) /\ charged \in [Riders -> Nat]
  BY DEF TrafficTypeOK
<1>9. riders' \in [Riders -> Rider] /\ riders'[u] = s /\ \A v \in Riders \ {u} : riders'[v] = riders[v]
  <2> HIDE DEF TrafficInv
  <2> QED BY <1>4, <1>8
<1>10. reckoned' \in [Riders -> Reckoning] /\ NextSound'
  <2>1. \A v \in {u} : riders'[v].next = CalculateNextTrafficReset(method, riders'[v].expiry, day)
    BY <1>2, <1>3, <1>9
  <2>2. \A v \in Riders \ {u} : riders'[v].next = riders[v].next /\ riders'[v].expiry = riders[v].expiry
    BY <1>9
  <2>3. method \in 0 .. 4 /\ {u} \in SUBSET Riders
    BY DEF TrafficTypeOK
  <2> HIDE DEF TrafficInv
  <2> QED BY <2>1, <2>2, <2>3, ReckonedNext
<1>11. resets' \in Seq(Reset)
  BY <1>6, <1>7, <1>8, Appended
<1>12. TrafficTypeOK'
  BY <1>9, <1>10, <1>11 DEF TrafficTypeOK
<1>13. UsageSound'
  <2> SUFFICES ASSUME NEW v \in Riders PROVE riders'[v].used + Weight(WipedOf(v), resets') = charged'[v]
    BY DEF UsageSound, WipedOf
  <2>1. \A y \in Reset : WipedOf(v)[y] \in Int
    BY WipedInt
  <2>2. PICK w : w = WipedOf(v)
    OBVIOUS
  <2>3. Weight(w, resets) \in Int /\ Weight(w, resets') = Weight(w, resets) + w[e]
    BY <1>6, <1>7, <1>8, <2>1, <2>2, WeightAppend
  <2>4. w[e] = IF v = u THEN x.used ELSE 0
    BY <1>6, <2>2 DEF WipedOf
  <2>5. riders[v].used + Weight(w, resets) = charged[v]
    BY <2>2 DEF UsageSound
  <2>6. riders[v].used \in Nat /\ charged' = charged
    BY <1>8 DEF Rider
  <2> HIDE DEF TrafficInv
  <2>7. CASE v = u
    <3>1. riders'[v].used = 0 /\ riders[v].used = x.used
      BY <1>1, <1>3, <1>9, <2>7
    <3>2. w[e] = x.used
      BY <2>4, <2>7
    <3> QED BY <2>2, <2>3, <2>5, <2>6, <3>1, <3>2
  <2>8. CASE v # u
    BY <1>9, <2>2, <2>3, <2>4, <2>5, <2>6, <2>8
  <2> QED BY <2>7, <2>8
<1>14. KeysApart'
  <2>1. /\ DOMAIN resets' = (DOMAIN resets) \cup {Len(resets) + 1} /\ Len(resets) + 1 \notin DOMAIN resets
        /\ \A i \in DOMAIN resets : resets'[i] = resets[i]
        /\ resets'[Len(resets) + 1] = e
    BY <1>6, <1>7, <1>8, Appended
  <2>2. \A i \in DOMAIN resets : key = Never \/ resets[i].key # key
    BY DEF findAdminUserTrafficReset
  <2> SUFFICES ASSUME NEW i \in DOMAIN resets', NEW j \in DOMAIN resets', i # j
               PROVE  resets'[i].key = Never \/ resets'[i].key # resets'[j].key
    BY DEF KeysApart
  <2>3. CASE i \in DOMAIN resets /\ j \in DOMAIN resets
    BY <2>1, <2>3 DEF KeysApart
  <2>4. CASE i = Len(resets) + 1 /\ j \in DOMAIN resets
    BY <1>6, <2>1, <2>2, <2>4
  <2>5. CASE j = Len(resets) + 1 /\ i \in DOMAIN resets
    BY <1>6, <2>1, <2>2, <2>5
  <2> QED BY <2>1, <2>3, <2>4, <2>5
<1>15. ReceiptsTrue'
  BY ReceiptsAside
<1>16. ToldCounted'
  BY DEF ToldCounted
<1> QED BY <1>10, <1>12, <1>13, <1>14, <1>15, <1>16

LEMMA DueKeeps == ASSUME TrafficInv, ProcessDueTrafficResets PROVE TrafficInv'
<1>1. PICK u \in Riders :
        /\ riders' = Zeroed(u, NextFor(riders[u].expiry))
        /\ Logged(u, Never, riders[u].next) /\ Reckon({u}, method)
  BY DEF ProcessDueTrafficResets
<1>2. UNCHANGED <<gates, receipts, method, day, moves, counted, told, charged>>
  BY DEF ProcessDueTrafficResets
<1>3. PICK due \in Day : due = riders[u].next
  BY DEF TrafficInv, TrafficTypeOK, Rider
<1> QED BY <1>1, <1>2, <1>3, ResetKeeps

LEMMA ManualKeeps == ASSUME TrafficInv, NEW u \in Riders, NEW k \in ResetKeys, ResetAdminUserTraffic(u, k) PROVE TrafficInv'
<1>1. Never \in Day
  BY DEF Day
<1>2. /\ findAdminUserTrafficReset(k) = {}
      /\ riders' = Zeroed(u, NextFor(riders[u].expiry)) /\ Logged(u, k, Never) /\ Reckon({u}, method)
      /\ UNCHANGED <<gates, receipts, method, day, moves, counted, told, charged>>
  BY DEF ResetAdminUserTraffic
<1> QED BY <1>1, <1>2, ResetKeeps

\* Steps that only move the date of the next reset, or who may use what.
LEMMA RidersKeep ==
    ASSUME TrafficInv, riders' \in [Riders -> Rider], reckoned' \in [Riders -> Reckoning], NextSound', method' \in 0 .. 4,
           \A u \in Riders : riders'[u].used = riders[u].used,
           UNCHANGED <<gates, receipts, resets, day, counted, told, charged>>
    PROVE  TrafficInv'
<1>1. TrafficTypeOK'
  BY DEF TrafficInv, TrafficTypeOK
<1>2. UsageSound'
  BY DEF TrafficInv, UsageSound, WipedOf
<1>3. ReceiptsTrue'
  BY ReceiptsAside DEF TrafficInv
<1>4. ToldCounted' /\ KeysApart'
  BY DEF TrafficInv, ToldCounted, KeysApart
<1> QED BY <1>1, <1>2, <1>3, <1>4 DEF TrafficInv

LEMMA MovedRider ==
    ASSUME NEW r \in Rider, NEW n \in Day
    PROVE  LET s == [r EXCEPT !.next = n] IN s \in Rider /\ s.used = r.used /\ s.expiry = r.expiry /\ s.next = n
BY DEF Rider

LEMMA RescheduleKeeps == ASSUME TrafficInv, NEW how \in 0 .. 4, Reschedule(how) PROVE TrafficInv'
<1> DEFINE us == {u \in Riders : ~riders[u].banned /\ (riders[u].expiry = Never \/ riders[u].expiry > day)}
<1>1. /\ method' = how /\ Reckon(us, how) /\ UNCHANGED <<gates, receipts, resets, day, counted, told, charged>>
      /\ riders' = [u \in Riders |-> IF u \notin us THEN riders[u]
                    ELSE [riders[u] EXCEPT !.next = CalculateNextTrafficReset(how, riders[u].expiry, day)]]
  BY DEF Reschedule
<1>2. us \in SUBSET Riders
  OBVIOUS
<1> HIDE DEF us
<1>3. ASSUME NEW u \in Riders
      PROVE  /\ riders'[u] \in Rider /\ riders'[u].used = riders[u].used /\ riders'[u].expiry = riders[u].expiry
             /\ u \in us => riders'[u].next = CalculateNextTrafficReset(how, riders[u].expiry, day)
             /\ u \notin us => riders'[u].next = riders[u].next
  <2>1. PICK x \in Rider : x = riders[u]
    BY DEF TrafficInv, TrafficTypeOK
  <2>2. CASE u \in us
    <3>1. PICK n \in Day : n = CalculateNextTrafficReset(how, x.expiry, day)
      BY NextType DEF TrafficInv, TrafficTypeOK, Rider
    <3>2. riders'[u] = [x EXCEPT !.next = n]
      BY <1>1, <2>1, <2>2, <3>1
    <3>3. riders'[u] \in Rider /\ riders'[u].used = x.used /\ riders'[u].expiry = x.expiry /\ riders'[u].next = n
      BY <3>2, MovedRider
    <3> QED BY <2>1, <2>2, <3>1, <3>3
  <2>3. CASE u \notin us
    BY <1>1, <2>1, <2>3
  <2> QED BY <2>2, <2>3
<1>4. riders' \in [Riders -> Rider]
  <2>1. riders' = [u \in Riders |-> riders'[u]]
    BY <1>1
  <2> QED BY <1>3, <2>1
<1>5. reckoned' \in [Riders -> Reckoning] /\ NextSound'
  <2>1. \A u \in us : riders'[u].next = CalculateNextTrafficReset(how, riders'[u].expiry, day)
    BY <1>2, <1>3
  <2>2. \A u \in Riders \ us : riders'[u].next = riders[u].next /\ riders'[u].expiry = riders[u].expiry
    BY <1>3
  <2> QED BY <1>1, <1>2, <2>1, <2>2, ReckonedNext
<1> QED BY <1>1, <1>3, <1>4, <1>5, RidersKeep

RenewedTo(r, e, n) == [r EXCEPT !.expiry = e, !.next = n]

LEMMA RenewedRider ==
    ASSUME NEW r \in Rider, NEW e \in Day, NEW n \in Day, NEW s, s = RenewedTo(r, e, n)
    PROVE  s \in Rider /\ s.used = r.used /\ s.expiry = e /\ s.next = n
BY DEF Rider, RenewedTo

LEMMA OtherRider ==
    ASSUME NEW r \in Rider, NEW s, s = [r EXCEPT !.banned = ~r.banned] \/ s = [r EXCEPT !.group = 3 - r.group]
    PROVE  s \in Rider /\ s.used = r.used /\ s.expiry = r.expiry /\ s.next = r.next
<1>1. CASE s = [r EXCEPT !.banned = ~r.banned]
  BY <1>1 DEF Rider
<1>2. CASE s = [r EXCEPT !.group = 3 - r.group]
  BY <1>2 DEF Rider
<1> QED BY <1>1, <1>2

LEMMA UpdateKeeps == ASSUME TrafficInv, NEW u \in Riders, UpdateRider(u) PROVE TrafficInv'
<1>1. UNCHANGED <<gates, receipts, resets, method, day, counted, told, charged>>
  BY DEF UpdateRider
<1>2. PICK x \in Rider : x = riders[u]
  BY DEF TrafficInv, TrafficTypeOK
<1>3. riders \in [Riders -> Rider] /\ method \in 0 .. 4 /\ day \in Nat /\ reckoned \in [Riders -> Reckoning]
  BY DEF TrafficInv, TrafficTypeOK
<1>4. CASE \E d \in (day + 1)..LastDay :
            /\ riders' = [riders EXCEPT ![u] = [riders[u] EXCEPT !.expiry = d, !.next = NextFor(d)]]
            /\ Reckon({u}, method)
  <2>1. PICK d \in (day + 1)..LastDay :
            /\ riders' = [riders EXCEPT ![u] = [riders[u] EXCEPT !.expiry = d, !.next = NextFor(d)]]
            /\ Reckon({u}, method)
    BY <1>4
  <2>2. d \in Day
    BY <1>3 DEF Day
  <2>9. PICK e \in Day : e = d
    BY <2>2
  <2>3. PICK n \in Day : n = CalculateNextTrafficReset(method, d, day)
    BY <1>3, <2>2, NextType
  <2>4. PICK s \in Rider : s = RenewedTo(x, e, n) /\ s.used = x.used /\ s.expiry = d /\ s.next = n
    <3>1. PICK s : s = RenewedTo(x, e, n)
      OBVIOUS
    <3>2. s \in Rider /\ s.used = x.used /\ s.expiry = e /\ s.next = n
      BY <3>1, RenewedRider
    <3> QED BY <2>9, <3>1, <3>2
  <2>5. riders' = [riders EXCEPT ![u] = s]
    BY <1>2, <2>1, <2>3, <2>4, <2>9 DEF NextFor, RenewedTo
  <2>6. riders' \in [Riders -> Rider] /\ riders'[u] = s /\ \A v \in Riders \ {u} : riders'[v] = riders[v]
    BY <1>3, <2>5
  <2>7. reckoned' \in [Riders -> Reckoning] /\ NextSound'
    <3>1. \A v \in {u} : riders'[v].next = CalculateNextTrafficReset(method, riders'[v].expiry, day)
      BY <2>3, <2>4, <2>6
    <3>2. \A v \in Riders \ {u} : riders'[v].next = riders[v].next /\ riders'[v].expiry = riders[v].expiry
      BY <2>6
    <3>3. {u} \in SUBSET Riders
      OBVIOUS
    <3> QED BY <1>1, <1>3, <2>1, <3>1, <3>2, <3>3, ReckonedNext
  <2>8. \A v \in Riders : riders'[v].used = riders[v].used
    BY <1>2, <2>4, <2>6
  <2> QED BY <1>1, <1>3, <2>6, <2>7, <2>8, RidersKeep
<1>5. CASE /\ UNCHANGED reckoned
           /\ \/ riders' = [riders EXCEPT ![u].banned = ~@]
              \/ riders' = [riders EXCEPT ![u].group = 3 - @]
  <2>1. PICK s : (s = [x EXCEPT !.banned = ~x.banned] \/ s = [x EXCEPT !.group = 3 - x.group])
                 /\ riders' = [riders EXCEPT ![u] = s]
    BY <1>2, <1>3, <1>5
  <2>2. s \in Rider /\ s.used = x.used /\ s.expiry = x.expiry /\ s.next = x.next
    BY <2>1, OtherRider
  <2>3. riders' \in [Riders -> Rider] /\ riders'[u] = s /\ \A v \in Riders \ {u} : riders'[v] = riders[v]
    BY <1>3, <2>1, <2>2
  <2>4. \A v \in Riders : riders'[v].used = riders[v].used /\ riders'[v].next = riders[v].next /\ riders'[v].expiry = riders[v].expiry
    BY <1>2, <2>2, <2>3
  <2>5. NextSound'
    BY <1>5, <2>4 DEF TrafficInv, NextSound
  <2> QED BY <1>1, <1>3, <1>5, <2>3, <2>4, <2>5, RidersKeep
<1> QED BY <1>4, <1>5 DEF UpdateRider

LEMMA MidnightKeeps == ASSUME TrafficInv, Midnight PROVE TrafficInv'
<1>1. day \in Nat /\ day' = day + 1
      /\ UNCHANGED <<riders, gates, receipts, resets, method, moves, counted, told, charged, reckoned>>
  BY DEF Midnight, TrafficInv, TrafficTypeOK
<1>2. TrafficTypeOK'
  BY <1>1 DEF TrafficInv, TrafficTypeOK
<1>3. ReceiptsTrue'
  <2>1. \A c \in receipts : \E k \in counted : Same(c, k)
    BY DEF TrafficInv, ReceiptsTrue
  <2>2. ASSUME NEW k \in counted, day' - k.at <= ReceiptLife PROVE \E c \in receipts : Same(c, k) /\ c.at = k.at
    <3>1. k.at \in Nat /\ ReceiptLife \in Nat
      BY TrafficConstants DEF TrafficInv, TrafficTypeOK, Count
    <3>2. day - k.at <= ReceiptLife
      BY <1>1, <2>2, <3>1
    <3> QED BY <3>2 DEF TrafficInv, ReceiptsTrue
  <2> QED BY <1>1, <2>1, <2>2 DEF ReceiptsTrue, Same
<1>4. ToldCounted' /\ KeysApart' /\ UsageSound' /\ NextSound'
  BY <1>1 DEF TrafficInv, ToldCounted, KeysApart, UsageSound, NextSound, WipedOf
<1> QED BY <1>2, <1>3, <1>4 DEF TrafficInv

LEMMA TrafficStutter == ASSUME TrafficInv, UNCHANGED trafficVars PROVE TrafficInv'
<1> USE DEF trafficVars
<1>1. TrafficTypeOK'
  BY DEF TrafficInv, TrafficTypeOK
<1>2. ReceiptsTrue'
  BY ReceiptsAside DEF TrafficInv
<1>3. ToldCounted' /\ KeysApart' /\ UsageSound' /\ NextSound'
  BY DEF TrafficInv, ToldCounted, KeysApart, UsageSound, NextSound, WipedOf
<1> QED BY <1>1, <1>2, <1>3 DEF TrafficInv

LEMMA TrafficInitInv ==
    ASSUME NEW how \in 0 .. 4, NEW d \in {Never} \cup 1 .. LastDay, TrafficInit(how, d) PROVE TrafficInv
<1>1. d \in Day
  BY DEF Day
<1>2. PICK n \in Day : n = CalculateNextTrafficReset(how, d, 0)
  BY <1>1, NextType
<1>3. PICK x : x = [used |-> 0, group |-> 1, banned |-> FALSE, expiry |-> d, next |-> n, count |-> 0]
  OBVIOUS
<1>4. x \in Rider /\ x.used = 0 /\ x.expiry = d /\ x.next = n
  BY <1>1, <1>3 DEF Rider
<1>5. riders = [u \in Riders |-> x] /\ receipts = {} /\ resets = <<>> /\ counted = {} /\ told = {}
      /\ charged = [u \in Riders |-> 0] /\ method = how /\ day = 0
      /\ reckoned = [u \in Riders |-> [at |-> 0, how |-> how]]
  BY <1>2, <1>3 DEF TrafficInit
<1>6. gates \in [Gates -> Gate]
  BY TrafficConstants DEF TrafficInit, Gate
<1>7. TrafficTypeOK
  <2>1. [at |-> 0, how |-> how] \in Reckoning
    BY DEF Reckoning
  <2> QED BY <1>4, <1>5, <1>6, <2>1 DEF TrafficTypeOK
<1>8. ReceiptsTrue /\ ToldCounted /\ KeysApart
  BY <1>5 DEF ReceiptsTrue, ToldCounted, KeysApart
<1>9. UsageSound
  <2> SUFFICES ASSUME NEW u \in Riders PROVE riders[u].used + Weight(WipedOf(u), resets) = charged[u]
    BY DEF UsageSound
  <2>1. Weight(WipedOf(u), resets) = 0
    BY <1>5, WeightNone
  <2> QED BY <1>4, <1>5, <2>1
<1>10. NextSound
  BY <1>2, <1>4, <1>5 DEF NextSound
<1> QED BY <1>7, <1>8, <1>9, <1>10 DEF TrafficInv

LEMMA TrafficKeeps == ASSUME TrafficInv, CountingNext \/ CalendarNext PROVE TrafficInv'
<1>1. CASE \E g \in Gates, r \in Reports : xboardNodePush(g, r) \/ xboardNodeReport(g, r)
  BY <1>1, PushKeeps, ReportKeeps DEF xboardNodeReport
<1>2. CASE \E g \in Gates : saveNodeRuntime(g)
  BY <1>2, NodeSaveKeeps DEF saveNodeRuntime
<1>3. CASE \E u \in Riders, k \in ResetKeys : resetAdminUserTraffic(u, k) \/ legacyResetAdminUserTraffic(u, k)
  BY <1>3, ManualKeeps DEF resetAdminUserTraffic, legacyResetAdminUserTraffic
<1>4. CASE resetDueTraffic
  BY <1>4, DueKeeps DEF resetDueTraffic
<1>5. CASE Midnight
  BY <1>5, MidnightKeeps
<1>6. CASE \E how \in 0..4 : reschedulePlanUsers(how) \/ rescheduleSystemTrafficResetUsers(how)
  BY <1>6, RescheduleKeeps DEF reschedulePlanUsers, rescheduleSystemTrafficResetUsers
<1>7. CASE \E u \in Riders : UpdateRider(u)
  BY <1>7, UpdateKeeps
<1> QED BY <1>1, <1>2, <1>3, <1>4, <1>5, <1>6, <1>7 DEF CountingNext, CalendarNext

\* TrafficAccounted (runtime.go ApplyNodeReport, plans.go ProcessDueTrafficResets, admin_user_operations.go):
\* what a user used and what the resets wiped is what the distinct reports charged, and the next reset is
\* the first day its method names, in every calendar and for any users, nodes, reports and rates.
THEOREM TrafficStaysAccounted == TrafficSpec => []TrafficAccounted
<1>1. ASSUME \E how \in 0..4, d \in {Never} \cup 1..LastDay : TrafficInit(how, d) PROVE TrafficInv
  BY <1>1, TrafficInitInv
<1>2. TrafficInv /\ [CountingNext \/ CalendarNext]_trafficVars => TrafficInv'
  BY TrafficKeeps, TrafficStutter
<1>3. TrafficInv => TrafficAccounted
  BY TrafficInvProperty
<1> QED BY <1>1, <1>2, <1>3, PTL DEF TrafficSpec

------------------------------------------------------------------------------
-----------------------------------------------------------------------------
(* Distributors *)

DealT == [dealer : Dealers, origin : Nat, expiry : Day, used : BOOLEAN, delivery : {"pending", "claimed", "closed"},
          settled : BOOLEAN, issued : BOOLEAN, connected : BOOLEAN, enabled : BOOLEAN, limit : Int,
          devices : SUBSET Handsets, opened : Nat, most : Int, amended : BOOLEAN]
BillT == [dealer : Dealers, deal : Nat, period : DOMAIN Prices, key : RenewKeys \cup {NoKey}, before : Day, after : Day,
          made : Nat, paid : Nat]
SettlementT == [dealer : Dealers, month : Int, count : Nat, total : Int]
VisitOK(D, x) == x = Away \/ (\E at \in {"admitted", "rendering"}, s \in D : x = [at |-> at, deal |-> s])

DealsTypeOK ==
    /\ bills \in Seq(BillT) /\ deals \in Seq(DealT) /\ settlements \in Seq(SettlementT) /\ day \in Nat
    /\ visits = [v \in Callers |-> visits[v]] /\ \A v \in Callers : VisitOK(Deals, visits[v])

\* Orders belong to a subscription of their distributor, and a subscription to its first order.
Owned == \A b \in DOMAIN bills : bills[b].deal \in Deals /\ deals[bills[b].deal].dealer = bills[b].dealer
Origins ==
    \A s \in Deals : LET o == deals[s].origin IN
        /\ o \in DOMAIN bills /\ bills[o].deal = s /\ bills[o].key = NoKey
        /\ (deals[s].settled <=> bills[o].paid # 0)
        /\ \A b \in BillsOf(s) : o <= b

\* A settlement is what it settled.
PaidBy(i) == {b \in DOMAIN bills : bills[b].paid = i}
InSettlement(x, b) == bills[b].dealer = x.dealer /\ x.month \in {AnyMonth, MonthOf(bills[b].made)}
PaidKnown == \A b \in DOMAIN bills : bills[b].paid \in 0 .. Len(settlements)
BooksTrue ==
    \A i \in DOMAIN settlements :
        /\ Cardinality(PaidBy(i)) = settlements[i].count /\ Revenue(PaidBy(i)) = settlements[i].total
        /\ \A b \in PaidBy(i) : InSettlement(settlements[i], b)

\* Keys and answers.
KeysOnce ==
    \A b, c \in DOMAIN bills : bills[b].key # NoKey /\ bills[b].key = bills[c].key /\ bills[b].dealer = bills[c].dealer => b = c
AnswerOK(a, x) == x.dealer = a.dealer /\ x.key = a.key /\ x.deal = a.deal /\ x.period = a.period
Answered == \A a \in answers : a.key \in RenewKeys /\ \E b \in DOMAIN bills : AnswerOK(a, bills[b])

\* What a renewal adds, and from where.
TermSound(x) ==
    x.key # NoKey => LET from == Max({x.before, x.made}) IN
        x.after > from /\ MonthOf(x.after) = MonthOf(from) + orderPeriodMonths[x.period]
TermsSound == \A b \in DOMAIN bills : TermSound(bills[b])
Earlier(s, b) == {c \in BillsOf(s) : c < b}
ChainOf(s, expiry) ==
    /\ expiry = bills[LastBill(s)].after
    /\ \A b \in BillsOf(s) : bills[b].key # NoKey => bills[b].before = bills[Max(Earlier(s, b))].after
ChainSound == \A s \in Deals : ~deals[s].amended => ChainOf(s, deals[s].expiry)

\* Delivery, for one subscription.
Handed(x) ==
    /\ x.opened <= 1 /\ (x.opened = 1 => x.delivery = "claimed")
    /\ (x.issued => x.delivery = "claimed") /\ (x.connected => x.issued)
    /\ IsFiniteSet(x.devices) /\ Cardinality(x.devices) <= x.most /\ x.limit <= x.most
AllHanded == \A s \in Deals : Handed(deals[s])

DealsInv ==
    /\ DealsTypeOK /\ Owned /\ Origins /\ PaidKnown /\ BooksTrue /\ KeysOnce /\ Answered /\ TermsSound /\ ChainSound
    /\ AllHanded

LEMMA DealTyped == ASSUME DealsTypeOK, NEW s \in Deals PROVE deals[s] \in DealT
<1>1. deals \in Seq(DealT) /\ s \in DOMAIN deals
  BY DEF DealsTypeOK, Deals
<1> QED BY <1>1

LEMMA BillTyped == ASSUME DealsTypeOK, NEW b \in DOMAIN bills PROVE bills[b] \in BillT
<1>1. bills \in Seq(BillT)
  BY DEF DealsTypeOK
<1> QED BY <1>1

LEMMA DealsInvSettled == ASSUME DealsInv PROVE SettledOnce
<1> USE DEF DealsInv
<1>1. ASSUME NEW i \in DOMAIN settlements
      PROVE  LET paid == {b \in DOMAIN bills : bills[b].paid = i} IN
             /\ Cardinality(paid) = settlements[i].count /\ Revenue(paid) = settlements[i].total
             /\ \A b \in paid : /\ bills[b].dealer = settlements[i].dealer
                                /\ settlements[i].month \in {AnyMonth, MonthOf(bills[b].made)}
  BY DEF BooksTrue, PaidBy, InSettlement
<1>2. \A s \in Deals : deals[s].settled <=> bills[deals[s].origin].paid # 0
  BY DEF Origins
<1>3. ASSUME NEW d \in Dealers, NEW m
      PROVE  /\ ListDistributorOrders(d, m, FALSE) = PreviewDistributorSettlement(d, m)
             /\ StreamDistributorOrderExport(d, m) \ ListDistributorOrders(d, m, TRUE) = PreviewDistributorSettlement(d, m)
  <2>1. ASSUME NEW b \in DOMAIN bills PROVE bills[b].dealer = d => deals[bills[b].deal].dealer = d
    BY DEF Owned
  <2>2. ASSUME NEW b \in DOMAIN bills
        PROVE  /\ b \in ListDistributorOrders(d, m, FALSE) <=> b \in PreviewDistributorSettlement(d, m)
               /\ b \in ListDistributorOrders(d, m, TRUE) => b \notin ListDistributorOrders(d, m, FALSE)
    BY <2>1 DEF ListDistributorOrders, PreviewDistributorSettlement, distributorOrderWhere
  <2>3. /\ ListDistributorOrders(d, m, FALSE) \subseteq DOMAIN bills /\ ListDistributorOrders(d, m, TRUE) \subseteq DOMAIN bills
        /\ PreviewDistributorSettlement(d, m) \subseteq DOMAIN bills
    BY DEF ListDistributorOrders, PreviewDistributorSettlement
  <2> QED BY <2>2, <2>3 DEF StreamDistributorOrderExport
<1> HIDE DEF DealsInv
<1> QED BY <1>1, <1>2, <1>3 DEF SettledOnce

LEMMA DealsInvRenewals == ASSUME DealsInv PROVE RenewalsKept
<1> USE DEF DealsInv
<1>1. ASSUME NEW a \in answers
      PROVE  /\ Cardinality({b \in DOMAIN bills : bills[b].dealer = a.dealer /\ bills[b].key = a.key}) = 1
             /\ \E b \in BillsOf(a.deal) : bills[b].key = a.key /\ bills[b].period = a.period
  <2>1. PICK b \in DOMAIN bills : AnswerOK(a, bills[b])
    BY DEF Answered
  <2>2. a.key # NoKey
    BY DistributorConstants DEF Answered
  <2>3. {c \in DOMAIN bills : bills[c].dealer = a.dealer /\ bills[c].key = a.key} = {b}
    BY <2>1, <2>2 DEF AnswerOK, KeysOnce
  <2>4. b \in BillsOf(a.deal) /\ bills[b].key = a.key /\ bills[b].period = a.period
    BY <2>1 DEF AnswerOK, BillsOf
  <2> QED BY <2>3, <2>4, FS_Singleton
<1>2. ASSUME NEW b \in DOMAIN bills, bills[b].key # NoKey
      PROVE  LET from == Max({bills[b].before, bills[b].made}) IN
             /\ bills[b].after > from
             /\ MonthOf(bills[b].after) = MonthOf(from) + orderPeriodMonths[bills[b].period]
  <2>1. TermSound(bills[b])
    BY DEF TermsSound
  <2> HIDE DEF DealsInv
  <2> QED BY <1>2, <2>1, Zenon DEF TermSound
<1>3. ASSUME NEW s \in Deals, ~deals[s].amended
      PROVE  /\ deals[s].expiry = bills[LastBill(s)].after
             /\ \A b \in BillsOf(s) : bills[b].key # NoKey =>
                    bills[b].before = bills[Max({c \in BillsOf(s) : c < b})].after
  <2>1. ChainSound
    OBVIOUS
  <2> HIDE DEF DealsInv
  <2> QED BY <1>3, <2>1, Zenon DEF ChainSound, ChainOf, Earlier
<1>4. ASSUME NEW b \in DOMAIN bills, enrichDistributorOrders(DOMAIN bills)[b].canRenew PROVE Renewable(bills[b].deal)
  BY <1>4 DEF enrichDistributorOrders, enrichDistributorOrder, Renewable
<1> HIDE DEF DealsInv
<1> QED BY <1>1, <1>2, <1>3, <1>4, Zenon DEF RenewalsKept

LEMMA DealsInvHanded == ASSUME DealsInv PROVE HandedOver
<1> SUFFICES ASSUME NEW s \in Deals
             PROVE  /\ deals[s].opened <= 1 /\ (deals[s].delivery = "closed" => deals[s].opened = 0)
                    /\ deals[s].issued => deals[s].delivery = "claimed"
                    /\ deals[s].connected => deals[s].issued
                    /\ Cardinality(deals[s].devices) <= deals[s].most
  BY DEF HandedOver
<1>1. deals[s].opened \in Nat
  <2>1. deals[s] \in DealT
    BY DealTyped DEF DealsInv
  <2> QED BY <2>1 DEF DealT
<1>2. Handed(deals[s])
  BY DEF DealsInv, AllHanded
<1> QED BY <1>1, <1>2 DEF Handed

\* The orders and settlements as they were.
LEMMA BooksSame ==
    ASSUME PaidKnown, BooksTrue, KeysOnce, Answered, TermsSound, UNCHANGED <<bills, settlements, answers>>
    PROVE  PaidKnown' /\ BooksTrue' /\ KeysOnce' /\ Answered' /\ TermsSound'
<1>1. PaidKnown' /\ KeysOnce' /\ Answered'
  BY DEF PaidKnown, KeysOnce, Answered, AnswerOK
<1>2. TermsSound'
  BY DEF TermsSound, TermSound, orderPeriodMonths, MonthOf, Start, Length
<1>3. bills' = bills /\ settlements' = settlements
  OBVIOUS
<1>4. ASSUME NEW i \in DOMAIN settlements
      PROVE  /\ Cardinality(PaidBy(i)') = settlements[i].count /\ Revenue(PaidBy(i))' = settlements[i].total
             /\ \A b \in PaidBy(i)' : InSettlement(settlements[i], b)'
  <2>1. PaidBy(i)' = PaidBy(i)
    BY <1>3 DEF PaidBy
  <2>2. Revenue(PaidBy(i))' = Revenue(PaidBy(i))
    BY <1>3, <2>1 DEF Revenue
  <2>3. ASSUME NEW b PROVE InSettlement(settlements[i], b)' <=> InSettlement(settlements[i], b)
    BY <1>3 DEF InSettlement
  <2> QED BY <2>1, <2>2, <2>3, <1>3, Zenon DEF BooksTrue
<1>5. BooksTrue'
  BY <1>3, <1>4, Zenon DEF BooksTrue
<1> QED BY <1>1, <1>2, <1>5

LEMMA ChainSame == ASSUME NEW s, UNCHANGED bills, NEW e PROVE ChainOf(s, e)' <=> ChainOf(s, e)
BY DEF ChainOf, LastBill, BillsOf, Earlier

\* A step that edits one subscription.
EditedDeal(x, y) ==
    /\ y \in DealT /\ Handed(y) /\ y.dealer = x.dealer /\ y.origin = x.origin /\ (y.settled <=> x.settled)
    /\ y.amended \/ (~x.amended /\ y.expiry = x.expiry)

LEMMA DealReplaced ==
    ASSUME deals \in Seq(DealT), NEW s \in Deals, NEW y \in DealT, deals' = [deals EXCEPT ![s] = y]
    PROVE  /\ deals' \in Seq(DealT) /\ Deals' = Deals /\ deals'[s] = y
           /\ \A t \in Deals \ {s} : deals'[t] = deals[t]
<1>1. DOMAIN deals' = DOMAIN deals /\ deals'[s] = y /\ \A t \in DOMAIN deals \ {s} : deals'[t] = deals[t]
  BY DEF Deals
<1>4. deals' \in Seq(DealT)
  <2>1. [deals EXCEPT ![s] = y] \in Seq(DealT)
    BY DEF Deals
  <2> QED BY <2>1
<1> QED BY <1>1, <1>4 DEF Deals

LEMMA DealEdited ==
    ASSUME DealsInv, NEW s \in Deals, NEW y, EditedDeal(deals[s], y), deals' = [deals EXCEPT ![s] = y],
           UNCHANGED <<bills, settlements, answers, day>>,
           visits' = [v \in Callers |-> visits'[v]], \A v \in Callers : VisitOK(Deals, visits'[v])
    PROVE  DealsInv'
<1>1. y \in DealT /\ deals \in Seq(DealT)
  BY DEF EditedDeal, DealsInv, DealsTypeOK
<1>2. deals' \in Seq(DealT) /\ Deals' = Deals /\ deals'[s] = y /\ \A t \in Deals \ {s} : deals'[t] = deals[t]
  BY <1>1, DealReplaced
<1>3. ASSUME NEW t \in Deals
      PROVE  /\ deals'[t].dealer = deals[t].dealer /\ deals'[t].origin = deals[t].origin
             /\ (deals'[t].settled <=> deals[t].settled)
             /\ deals'[t].amended \/ (~deals[t].amended /\ deals'[t].expiry = deals[t].expiry) \/ (t # s /\ deals'[t] = deals[t])
  <2>1. CASE t = s
    BY <1>2, <2>1 DEF EditedDeal
  <2>2. CASE t # s
    BY <1>2, <2>2
  <2> QED BY <2>1, <2>2
<1>4. bills' = bills /\ settlements' = settlements /\ answers' = answers /\ day' = day
  OBVIOUS
<1>5. DealsTypeOK'
  <2>1. \A v \in Callers : VisitOK(Deals', visits'[v])
    BY <1>2
  <2>2. bills \in Seq(BillT) /\ settlements \in Seq(SettlementT) /\ day \in Nat
    BY DEF DealsInv, DealsTypeOK
  <2> QED BY <1>2, <1>4, <2>1, <2>2 DEF DealsTypeOK, VisitOK
<1>6. Owned'
  BY <1>2, <1>3, <1>4 DEF DealsInv, Owned
<1>7. Origins'
  <2> SUFFICES ASSUME NEW t \in Deals
               PROVE  LET o == deals'[t].origin IN
                        /\ o \in DOMAIN bills /\ bills[o].deal = t /\ bills[o].key = NoKey
                        /\ (deals'[t].settled <=> bills[o].paid # 0)
                        /\ \A b \in BillsOf(t) : o <= b
    BY <1>2, <1>4 DEF Origins, BillsOf
  <2>1. deals[t].origin \in DOMAIN bills /\ bills[deals[t].origin].deal = t /\ bills[deals[t].origin].key = NoKey
        /\ (deals[t].settled <=> bills[deals[t].origin].paid # 0) /\ \A b \in BillsOf(t) : deals[t].origin <= b
    BY DEF DealsInv, Origins
  <2> QED BY <1>3, <2>1
<1>8. PaidKnown' /\ BooksTrue' /\ KeysOnce' /\ Answered' /\ TermsSound'
  BY <1>4, BooksSame DEF DealsInv
<1>9. ChainSound'
  <2> SUFFICES ASSUME NEW t \in Deals, ~deals'[t].amended
               PROVE  ChainOf(t, deals'[t].expiry)
    BY <1>2, <1>4, ChainSame DEF ChainSound
  <2>1. ~deals[t].amended /\ deals'[t].expiry = deals[t].expiry
    BY <1>3
  <2> QED BY <2>1 DEF DealsInv, ChainSound
<1>10. AllHanded'
  <2> SUFFICES ASSUME NEW t \in Deals PROVE Handed(deals'[t])
    BY <1>2 DEF AllHanded, Handed
  <2>1. Handed(y) /\ Handed(deals[t])
    BY DEF EditedDeal, DealsInv, AllHanded
  <2> QED BY <1>2, <2>1
<1> QED BY <1>5, <1>6, <1>7, <1>8, <1>9, <1>10 DEF DealsInv

\* A step that leaves the books alone.
LEMMA BooksAside ==
    ASSUME DealsInv, UNCHANGED <<bills, deals, settlements, answers>>, day' \in Nat,
           visits' = [v \in Callers |-> visits'[v]], \A v \in Callers : VisitOK(Deals, visits'[v])
    PROVE  DealsInv'
<1>1. DealsTypeOK'
  <2>1. Deals' = Deals
    BY DEF Deals
  <2>2. \A v \in Callers : VisitOK(Deals', visits'[v])
    BY <2>1
  <2>3. bills \in Seq(BillT) /\ settlements \in Seq(SettlementT) /\ deals \in Seq(DealT)
    BY DEF DealsInv, DealsTypeOK
  <2> QED BY <2>2, <2>3 DEF DealsTypeOK, VisitOK
<1>2. Owned' /\ Origins' /\ AllHanded'
  BY DEF DealsInv, Owned, Origins, Deals, BillsOf, AllHanded, Handed
<1>3. PaidKnown' /\ BooksTrue' /\ KeysOnce' /\ Answered' /\ TermsSound'
  BY BooksSame DEF DealsInv
<1>4. ChainSound'
  BY ChainSame DEF DealsInv, ChainSound, Deals
<1> QED BY <1>1, <1>2, <1>3, <1>4 DEF DealsInv

\* The requests in progress name subscriptions that exist.
LEMMA VisitsKept ==
    ASSUME DealsInv, UNCHANGED visits PROVE visits' = [v \in Callers |-> visits'[v]] /\ \A v \in Callers : VisitOK(Deals, visits'[v])
BY DEF DealsInv, DealsTypeOK

LEMMA VisitTaken ==
    ASSUME DealsInv, NEW v \in Callers, NEW x, VisitOK(Deals, x), visits' = [visits EXCEPT ![v] = x]
    PROVE  visits' = [w \in Callers |-> visits'[w]] /\ \A w \in Callers : VisitOK(Deals, visits'[w])
<1>1. visits = [w \in Callers |-> visits[w]] /\ \A w \in Callers : VisitOK(Deals, visits[w])
  BY DEF DealsInv, DealsTypeOK
<1>2. DOMAIN visits = Callers
  BY <1>1
<1>3. visits' = [w \in Callers |-> visits'[w]]
  BY <1>2
<1>4. \A w \in Callers : visits'[w] = x \/ visits'[w] = visits[w]
  BY <1>2
<1> QED BY <1>1, <1>3, <1>4, Zenon

(* Handing over, and the administrators: steps that edit one subscription. *)

\* What each of them makes of the subscription.
Opened(x) == [x EXCEPT !.delivery = "claimed", !.opened = x.opened + 1]
Delivered(x, now) == [x EXCEPT !.delivery = now]
Issued(x, on) == [x EXCEPT !.issued = on]
Connected(x, on) == [x EXCEPT !.used = TRUE, !.connected = on]
WithDevices(x, hs) == [x EXCEPT !.devices = hs]
Limited(x, on, n, most) == [x EXCEPT !.enabled = on, !.limit = n, !.most = most]
Amended(x, e) == [x EXCEPT !.expiry = e, !.amended = TRUE]

\* The fields an edit of deliveries leaves.
SameTerms(x, y) ==
    /\ y.dealer = x.dealer /\ y.origin = x.origin /\ (y.settled <=> x.settled)
    /\ (y.amended <=> x.amended) /\ y.expiry = x.expiry

LEMMA OpenedIs == ASSUME NEW x \in DealT, NEW y, y = Opened(x)
                  PROVE  /\ y \in DealT /\ SameTerms(x, y) /\ y.delivery = "claimed" /\ y.opened = x.opened + 1
                         /\ (y.issued <=> x.issued) /\ (y.connected <=> x.connected)
                         /\ y.devices = x.devices /\ y.most = x.most /\ y.limit = x.limit
<1>1. PICK n \in Nat : n = x.opened + 1
  BY DEF DealT
<1>2. y = [x EXCEPT !.delivery = "claimed", !.opened = n]
  BY <1>1 DEF Opened
<1>3. y \in DealT
  BY <1>2, Zenon DEF DealT
<1> QED BY <1>1, <1>2, <1>3 DEF DealT, SameTerms

LEMMA DeliveredIs == ASSUME NEW x \in DealT, NEW now \in {"pending", "claimed", "closed"}, NEW y, y = Delivered(x, now)
                     PROVE  /\ y \in DealT /\ SameTerms(x, y) /\ y.delivery = now /\ y.opened = x.opened
                            /\ (y.issued <=> x.issued) /\ (y.connected <=> x.connected)
                            /\ y.devices = x.devices /\ y.most = x.most /\ y.limit = x.limit
BY DEF DealT, Delivered, SameTerms

LEMMA IssuedIs == ASSUME NEW x \in DealT, NEW on \in BOOLEAN, NEW y, y = Issued(x, on)
                  PROVE  /\ y \in DealT /\ SameTerms(x, y) /\ y.delivery = x.delivery /\ y.opened = x.opened
                         /\ (y.issued <=> on) /\ (y.connected <=> x.connected)
                         /\ y.devices = x.devices /\ y.most = x.most /\ y.limit = x.limit
BY DEF DealT, Issued, SameTerms

LEMMA ConnectedIs == ASSUME NEW x \in DealT, NEW on \in BOOLEAN, NEW y, y = Connected(x, on)
                     PROVE  /\ y \in DealT /\ SameTerms(x, y) /\ y.delivery = x.delivery /\ y.opened = x.opened
                            /\ (y.issued <=> x.issued) /\ (y.connected <=> on)
                            /\ y.devices = x.devices /\ y.most = x.most /\ y.limit = x.limit
BY DEF DealT, Connected, SameTerms

LEMMA WithDevicesIs == ASSUME NEW x \in DealT, NEW hs \in SUBSET Handsets, NEW y, y = WithDevices(x, hs)
                       PROVE  /\ y \in DealT /\ SameTerms(x, y) /\ y.delivery = x.delivery /\ y.opened = x.opened
                              /\ (y.issued <=> x.issued) /\ (y.connected <=> x.connected)
                              /\ y.devices = hs /\ y.most = x.most /\ y.limit = x.limit
BY DEF DealT, WithDevices, SameTerms

LEMMA LimitedIs == ASSUME NEW x \in DealT, NEW on \in BOOLEAN, NEW n \in Int, NEW most \in Int, NEW y, y = Limited(x, on, n, most)
                   PROVE  /\ y \in DealT /\ SameTerms(x, y) /\ y.delivery = x.delivery /\ y.opened = x.opened
                          /\ (y.issued <=> x.issued) /\ (y.connected <=> x.connected)
                          /\ y.devices = x.devices /\ y.most = most /\ y.limit = n
BY DEF DealT, Limited, SameTerms

LEMMA AmendedIs == ASSUME NEW x \in DealT, NEW e \in Day, NEW y, y = Amended(x, e)
                   PROVE  /\ y \in DealT /\ y.dealer = x.dealer /\ y.origin = x.origin /\ (y.settled <=> x.settled) /\ y.amended
                          /\ y.delivery = x.delivery /\ y.opened = x.opened
                          /\ (y.issued <=> x.issued) /\ (y.connected <=> x.connected)
                          /\ y.devices = x.devices /\ y.most = x.most /\ y.limit = x.limit
BY DEF DealT, Amended

\* A delivery edited.
LEMMA Redelivered ==
    ASSUME NEW x \in DealT, NEW y \in DealT, SameTerms(x, y), Handed(y) PROVE EditedDeal(x, y)
BY Zenon DEF SameTerms, EditedDeal

LEMMA DealHeld == ASSUME DealsInv, NEW s \in Deals PROVE deals[s] \in DealT /\ Handed(deals[s])
<1>1. deals[s] \in DealT
  BY DealTyped DEF DealsInv
<1> QED BY <1>1 DEF DealsInv, AllHanded

\* The steps of a delivery: what they do to the subscription keeps it handed over as it should be.
LEMMA HandStep ==
    ASSUME DealsInv, NEW s \in Deals, NEW y \in DealT, SameTerms(deals[s], y), Handed(y), deals' = [deals EXCEPT ![s] = y],
           OnlyDeals, day' = day, visits' = [v \in Callers |-> visits'[v]], \A v \in Callers : VisitOK(Deals, visits'[v])
    PROVE  DealsInv'
<1>1. EditedDeal(deals[s], y)
  BY DealHeld, Redelivered
<1>2. UNCHANGED <<bills, settlements, answers, day>>
  BY DEF OnlyDeals
<1> QED BY <1>1, <1>2, DealEdited

LEMMA ClaimKeeps == ASSUME DealsInv, NEW s \in Deals, ClaimDistributorSubscription(s), day' = day PROVE DealsInv'
<1>1. PICK x \in DealT : x = deals[s] /\ Handed(x)
  BY DealHeld
<1>2. PICK y : y = Opened(x)
  OBVIOUS
<1>3. /\ y \in DealT /\ SameTerms(x, y) /\ y.delivery = "claimed" /\ y.opened = x.opened + 1
      /\ (y.issued <=> x.issued) /\ (y.connected <=> x.connected)
      /\ y.devices = x.devices /\ y.most = x.most /\ y.limit = x.limit
  BY <1>2, OpenedIs
<1>4. x.delivery = "pending" /\ deals' = [deals EXCEPT ![s] = y] /\ OnlyDeals /\ UNCHANGED visits
  BY <1>1, <1>2 DEF ClaimDistributorSubscription, Opened
<1>5. Handed(y)
  <2>1. x.opened \in Nat /\ x.opened <= 1 /\ x.opened # 1
    BY <1>1, <1>4 DEF Handed, DealT
  <2> QED BY <1>1, <1>3, <2>1 DEF Handed
<1> QED BY <1>1, <1>3, <1>4, <1>5, HandStep, VisitsKept

\* A delivery that was not decided yet is decided.
LEMMA DecidedHanded ==
    ASSUME NEW x \in DealT, Handed(x), x.delivery = "pending", NEW now \in {"claimed", "closed"},
           NEW y, y = Delivered(x, now)
    PROVE  y \in DealT /\ SameTerms(x, y) /\ Handed(y)
<1>1. /\ y \in DealT /\ SameTerms(x, y) /\ y.delivery = now /\ y.opened = x.opened
      /\ (y.issued <=> x.issued) /\ (y.connected <=> x.connected)
      /\ y.devices = x.devices /\ y.most = x.most /\ y.limit = x.limit
  BY DeliveredIs
<1>2. x.opened \in Nat
  BY DEF DealT
<1> QED BY <1>1, <1>2 DEF Handed

LEMMA CloseKeeps == ASSUME DealsInv, NEW d \in Dealers, NEW s \in Deals, CloseDistributorDelivery(d, s), day' = day PROVE DealsInv'
<1>1. PICK x \in DealT : x = deals[s] /\ Handed(x)
  BY DealHeld
<1>2. PICK y : y = Delivered(x, "closed")
  OBVIOUS
<1>3. x.delivery = "pending" /\ deals' = [deals EXCEPT ![s] = y] /\ OnlyDeals /\ UNCHANGED visits
  BY <1>1, <1>2, DealHeld DEF CloseDistributorDelivery, Deliver, Delivered, Deals
<1>4. y \in DealT /\ SameTerms(x, y) /\ Handed(y)
  BY <1>1, <1>2, <1>3, DecidedHanded
<1> QED BY <1>1, <1>3, <1>4, HandStep, VisitsKept

LEMMA AdmitKeeps ==
    ASSUME DealsInv, NEW v \in Callers, NEW s \in Deals, NEW h \in Handsets, admitSubscriptionDelivery(v, s, h), day' = day
    PROVE  DealsInv'
<1>1. PICK x \in DealT : x = deals[s] /\ Handed(x)
  BY DealHeld
<1>2. visits' = [visits EXCEPT ![v] = [at |-> "admitted", deal |-> s]] /\ OnlyDeals /\ AuthorizeDistributorHWID(s, h)
  BY DEF admitSubscriptionDelivery
<1>3. VisitOK(Deals, [at |-> "admitted", deal |-> s])
  BY DEF VisitOK
<1>4. visits' = [w \in Callers |-> visits'[w]] /\ \A w \in Callers : VisitOK(Deals, visits'[w])
  BY <1>2, <1>3, VisitTaken
<1>5. CASE deals' = deals
  <2>1. UNCHANGED <<bills, deals, settlements, answers>> /\ day' \in Nat
    BY <1>2, <1>5 DEF OnlyDeals, DealsInv, DealsTypeOK
  <2> QED BY <1>4, <2>1, BooksAside
<1>6. CASE deals' # deals
  <2>1. Cardinality(x.devices) < x.limit /\ deals' = [deals EXCEPT ![s].devices = @ \cup {h}] /\ h \notin x.devices
    BY <1>1, <1>2, <1>6 DEF AuthorizeDistributorHWID
  <2>2. x.devices \in SUBSET Handsets /\ x.limit \in Int /\ x.most \in Int
    BY DEF DealT
  <2>3. PICK hs \in SUBSET Handsets : hs = x.devices \cup {h}
    BY <2>2
  <2>4. PICK y : y = WithDevices(x, hs)
    OBVIOUS
  <2>5. /\ y \in DealT /\ SameTerms(x, y) /\ y.delivery = x.delivery /\ y.opened = x.opened
        /\ (y.issued <=> x.issued) /\ (y.connected <=> x.connected)
        /\ y.devices = hs /\ y.most = x.most /\ y.limit = x.limit
    BY <2>4, WithDevicesIs
  <2>6. IsFiniteSet(hs) /\ Cardinality(hs) = Cardinality(x.devices) + 1 /\ Cardinality(x.devices) \in Nat
    BY <1>1, <2>1, <2>3, FS_AddElement, FS_CardinalityType DEF Handed
  <2>7. Cardinality(hs) <= x.most
    BY <1>1, <2>1, <2>2, <2>6 DEF Handed
  <2>8. Handed(y)
    BY <1>1, <2>5, <2>6, <2>7 DEF Handed
  <2>9. deals' = [deals EXCEPT ![s] = y]
    BY <1>1, <2>1, <2>3, <2>4 DEF WithDevices, Deals
  <2> QED BY <1>1, <1>2, <1>4, <2>5, <2>8, <2>9, HandStep
<1> QED BY <1>5, <1>6

\* The request that is at one of its steps has a subscription.
LEMMA VisitAt ==
    ASSUME DealsInv, NEW v \in Callers, NEW at \in {"admitted", "rendering"}, visits[v].at = at
    PROVE  \E s \in Deals : visits[v].deal = s /\ visits[v] = [at |-> at, deal |-> s]
<1>1. VisitOK(Deals, visits[v])
  BY DEF DealsInv, DealsTypeOK
<1>2. visits[v] # Away
  BY DEF Away
<1>3. PICK a \in {"admitted", "rendering"}, s \in Deals : visits[v] = [at |-> a, deal |-> s]
  BY <1>1, <1>2 DEF VisitOK
<1>4. a = at /\ visits[v].deal = s
  BY <1>3
<1> QED BY <1>3, <1>4

LEMMA MarkClaimedKeeps == ASSUME DealsInv, NEW v \in Callers, MarkDistributorSubscriptionClaimed(v), day' = day PROVE DealsInv'
<1>1. PICK s \in Deals : visits[v].deal = s /\ visits[v] = [at |-> "admitted", deal |-> s]
  BY VisitAt DEF MarkDistributorSubscriptionClaimed
<1>2. PICK x \in DealT : x = deals[s] /\ Handed(x)
  BY DealHeld
<1>3. PICK n : n = [at |-> "rendering", deal |-> s]
  OBVIOUS
<1>4. visits' = [visits EXCEPT ![v] = n]
  <2>1. visits' = [visits EXCEPT ![v].at = "rendering"]
    BY DEF MarkDistributorSubscriptionClaimed
  <2>2. [visits[v] EXCEPT !.at = "rendering"] = n
    BY <1>1, <1>3
  <2> QED BY <2>1, <2>2
<1>5. VisitOK(Deals, n)
  BY <1>3 DEF VisitOK
<1>6. visits' = [w \in Callers |-> visits'[w]] /\ \A w \in Callers : VisitOK(Deals, visits'[w])
  BY <1>4, <1>5, VisitTaken
<1>7. OnlyDeals /\ (Deliver(s, "pending", "claimed") \/ UNCHANGED deals)
  BY <1>1 DEF MarkDistributorSubscriptionClaimed
<1>8. CASE UNCHANGED deals
  <2>1. UNCHANGED <<bills, deals, settlements, answers>> /\ day' \in Nat
    BY <1>7, <1>8 DEF OnlyDeals, DealsInv, DealsTypeOK
  <2> QED BY <1>6, <2>1, BooksAside
<1>9. CASE Deliver(s, "pending", "claimed")
  <2>1. PICK y : y = Delivered(x, "claimed")
    OBVIOUS
  <2>2. x.delivery = "pending" /\ deals' = [deals EXCEPT ![s] = y]
    BY <1>2, <1>9, <2>1 DEF Deliver, Delivered, Deals
  <2>3. y \in DealT /\ SameTerms(x, y) /\ Handed(y)
    BY <1>2, <2>1, <2>2, DecidedHanded
  <2> QED BY <1>2, <1>6, <1>7, <2>2, <2>3, HandStep
<1> QED BY <1>7, <1>8, <1>9

LEMMA MarkIssuedKeeps == ASSUME DealsInv, NEW v \in Callers, MarkDistributorConfigIssued(v), day' = day PROVE DealsInv'
<1>1. PICK s \in Deals : visits[v].deal = s
  BY VisitAt DEF MarkDistributorConfigIssued
<1>2. PICK x \in DealT : x = deals[s] /\ Handed(x)
  BY DealHeld
<1>3. visits' = [visits EXCEPT ![v] = Away] /\ OnlyDeals /\ deals' = [deals EXCEPT ![s].issued = @ \/ deals[s].delivery = "claimed"]
  BY <1>1 DEF MarkDistributorConfigIssued
<1>4. visits' = [w \in Callers |-> visits'[w]] /\ \A w \in Callers : VisitOK(Deals, visits'[w])
  <2>1. VisitOK(Deals, Away)
    BY DEF VisitOK
  <2> QED BY <1>3, <2>1, VisitTaken
<1>5. PICK on \in BOOLEAN : on = (x.issued \/ x.delivery = "claimed")
  OBVIOUS
<1>6. PICK y : y = Issued(x, on)
  OBVIOUS
<1>7. /\ y \in DealT /\ SameTerms(x, y) /\ y.delivery = x.delivery /\ y.opened = x.opened
      /\ (y.issued <=> on) /\ (y.connected <=> x.connected)
      /\ y.devices = x.devices /\ y.most = x.most /\ y.limit = x.limit
  BY <1>6, IssuedIs
<1>8. deals' = [deals EXCEPT ![s] = y]
  BY <1>2, <1>3, <1>5, <1>6 DEF Issued, Deals
<1>9. Handed(y)
  BY <1>2, <1>5, <1>7 DEF Handed
<1> QED BY <1>2, <1>3, <1>4, <1>7, <1>8, <1>9, HandStep

LEMMA FailKeeps == ASSUME DealsInv, NEW v \in Callers, serveFails(v), day' = day PROVE DealsInv'
<1>1. visits' = [visits EXCEPT ![v] = Away] /\ VisitOK(Deals, Away)
  BY DEF serveFails, VisitOK
<1>2. visits' = [w \in Callers |-> visits'[w]] /\ \A w \in Callers : VisitOK(Deals, visits'[w])
  BY <1>1, VisitTaken
<1>3. UNCHANGED <<bills, deals, settlements, answers>> /\ day' \in Nat
  BY DEF serveFails, OnlyDeals, DealsInv, DealsTypeOK
<1> QED BY <1>2, <1>3, BooksAside

LEMMA ConnectKeeps == ASSUME DealsInv, NEW s \in Deals, recordConnection(s), day' = day PROVE DealsInv'
<1>1. PICK x \in DealT : x = deals[s] /\ Handed(x)
  BY DealHeld
<1>2. PICK on \in BOOLEAN : on = (x.connected \/ x.issued)
  OBVIOUS
<1>3. PICK y : y = Connected(x, on)
  OBVIOUS
<1>4. /\ y \in DealT /\ SameTerms(x, y) /\ y.delivery = x.delivery /\ y.opened = x.opened
      /\ (y.issued <=> x.issued) /\ (y.connected <=> on)
      /\ y.devices = x.devices /\ y.most = x.most /\ y.limit = x.limit
  BY <1>3, ConnectedIs
<1>5. deals' = [deals EXCEPT ![s] = y] /\ OnlyDeals /\ UNCHANGED visits
  BY <1>1, <1>2, <1>3 DEF recordConnection, Connected
<1>6. Handed(y)
  BY <1>1, <1>2, <1>4 DEF Handed
<1> QED BY <1>1, <1>4, <1>5, <1>6, HandStep, VisitsKept

LEMMA RemoveDeviceKeeps ==
    ASSUME DealsInv, NEW s \in Deals, NEW h \in Handsets, DeleteDistributorHWIDDevice(s, h), day' = day PROVE DealsInv'
<1>1. PICK x \in DealT : x = deals[s] /\ Handed(x)
  BY DealHeld
<1>2. PICK hs \in SUBSET Handsets : hs = x.devices \ {h}
  BY DEF DealT
<1>3. PICK y : y = WithDevices(x, hs)
  OBVIOUS
<1>4. /\ y \in DealT /\ SameTerms(x, y) /\ y.delivery = x.delivery /\ y.opened = x.opened
      /\ (y.issued <=> x.issued) /\ (y.connected <=> x.connected)
      /\ y.devices = hs /\ y.most = x.most /\ y.limit = x.limit
  BY <1>3, WithDevicesIs
<1>5. deals' = [deals EXCEPT ![s] = y] /\ OnlyDeals /\ UNCHANGED visits
  BY <1>1, <1>2, <1>3 DEF DeleteDistributorHWIDDevice, WithDevices, Deals
<1>6. Handed(y)
  <2>1. IsFiniteSet(x.devices) /\ Cardinality(x.devices) <= x.most /\ x.most \in Int
    BY <1>1 DEF Handed, DealT
  <2>2. IsFiniteSet(hs) /\ Cardinality(hs) <= Cardinality(x.devices) /\ Cardinality(hs) \in Nat /\ Cardinality(x.devices) \in Nat
    BY <1>2, <2>1, FS_Subset, FS_CardinalityType
  <2>3. Cardinality(hs) <= x.most
    BY <2>1, <2>2
  <2> QED BY <1>1, <1>4, <2>2, <2>3 DEF Handed
<1> QED BY <1>1, <1>4, <1>5, <1>6, HandStep, VisitsKept

LEMMA MaxOfTwo == ASSUME NEW a \in Int, NEW b \in Int PROVE Max({a, b}) = IF a >= b THEN a ELSE b
<1> DEFINE v == IF a >= b THEN a ELSE b
<1>1. v \in {a, b} /\ \A y \in {a, b} : v >= y
  OBVIOUS
<1>2. \A x \in {a, b} : (\A y \in {a, b} : x >= y) => x = v
  OBVIOUS
<1> HIDE DEF v
<1>3. Max({a, b}) = v
  BY <1>1, <1>2, Zenon DEF Max
<1> QED BY <1>3 DEF v

LEMMA LimitKeeps ==
    ASSUME DealsInv, NEW s \in Deals, NEW on \in BOOLEAN, NEW n \in Int, UpdateDistributorHWIDSettings(s, on, n), day' = day
    PROVE  DealsInv'
<1>1. PICK x \in DealT : x = deals[s] /\ Handed(x)
  BY DealHeld
<1>2. x.most \in Int
  BY DEF DealT
<1>3. PICK most \in Int : most = Max({x.most, n}) /\ most >= x.most /\ most >= n
  BY <1>2, MaxOfTwo
<1>4. PICK y : y = Limited(x, on, n, most)
  OBVIOUS
<1>5. /\ y \in DealT /\ SameTerms(x, y) /\ y.delivery = x.delivery /\ y.opened = x.opened
      /\ (y.issued <=> x.issued) /\ (y.connected <=> x.connected)
      /\ y.devices = x.devices /\ y.most = most /\ y.limit = n
  BY <1>4, LimitedIs
<1>6. deals' = [deals EXCEPT ![s] = y] /\ OnlyDeals /\ UNCHANGED visits
  BY <1>1, <1>3, <1>4 DEF UpdateDistributorHWIDSettings, Limited
<1>7. Handed(y)
  <2>1. Cardinality(x.devices) \in Nat /\ Cardinality(x.devices) <= x.most
    BY <1>1, FS_CardinalityType DEF Handed
  <2>2. Cardinality(x.devices) <= most
    BY <1>2, <1>3, <2>1
  <2> QED BY <1>1, <1>3, <1>5, <2>2 DEF Handed
<1> QED BY <1>1, <1>5, <1>6, <1>7, HandStep, VisitsKept

LEMMA AmendKeeps ==
    ASSUME DealsInv, NEW s \in Deals, NEW e \in Day, UpdateDistributorEntitlement(s, e), day' = day PROVE DealsInv'
<1>1. PICK x \in DealT : x = deals[s] /\ Handed(x)
  BY DealHeld
<1>2. PICK y : y = Amended(x, e)
  OBVIOUS
<1>3. /\ y \in DealT /\ y.dealer = x.dealer /\ y.origin = x.origin /\ (y.settled <=> x.settled) /\ y.amended
      /\ y.delivery = x.delivery /\ y.opened = x.opened
      /\ (y.issued <=> x.issued) /\ (y.connected <=> x.connected)
      /\ y.devices = x.devices /\ y.most = x.most /\ y.limit = x.limit
  BY <1>2, AmendedIs
<1>4. deals' = [deals EXCEPT ![s] = y] /\ OnlyDeals /\ UNCHANGED visits
  BY <1>1, <1>2 DEF UpdateDistributorEntitlement, Amended
<1>5. Handed(y)
  BY <1>1, <1>3 DEF Handed
<1>6. EditedDeal(deals[s], y)
  BY <1>1, <1>3, <1>5 DEF EditedDeal
<1>7. UNCHANGED <<bills, settlements, answers, day>>
  BY <1>4 DEF OnlyDeals
<1> QED BY <1>4, <1>6, <1>7, DealEdited, VisitsKept

LEMMA OtherEditsKeep ==
    ASSUME DealsInv, UNCHANGED <<bills, deals, settlements, visits, answers>>, day' = day \/ day' = day + 1 PROVE DealsInv'
<1>1. day' \in Nat
  BY DEF DealsInv, DealsTypeOK
<1> QED BY <1>1, BooksAside, VisitsKept

-----------------------------------------------------------------------------
(* Orders *)

\* Adding at the end: what was there before stays.
BillsGrow(x) ==
    LET n == Len(bills) + 1 IN
    /\ bills' = Append(bills, x) /\ x \in BillT /\ x.paid = 0

LEMMA GrownBills ==
    ASSUME DealsTypeOK, NEW x, BillsGrow(x)
    PROVE  /\ bills' \in Seq(BillT) /\ DOMAIN bills' = (DOMAIN bills) \cup {Len(bills) + 1} /\ Len(bills) + 1 \notin DOMAIN bills
           /\ \A b \in DOMAIN bills : bills'[b] = bills[b] /\ b < Len(bills) + 1 /\ b \in Nat
           /\ bills'[Len(bills) + 1] = x /\ Len(bills) + 1 \in Nat
<1>1. bills \in Seq(BillT) /\ x \in BillT /\ bills' = Append(bills, x)
  BY DEF BillsGrow, DealsTypeOK
<1>2. DOMAIN bills = 1 .. Len(bills) /\ Len(bills) \in Nat
  BY <1>1
<1>3. \A b \in DOMAIN bills : b < Len(bills) + 1 /\ b \in Nat
  BY <1>2
<1> QED BY <1>1, <1>2, <1>3, Appended

\* An order that is not paid yet is in no settlement.
LEMMA GrownBooks ==
    ASSUME DealsInv, NEW x, BillsGrow(x), UNCHANGED settlements
    PROVE  PaidKnown' /\ BooksTrue'
<1> USE DEF DealsInv
<1>1. /\ bills' \in Seq(BillT) /\ DOMAIN bills' = (DOMAIN bills) \cup {Len(bills) + 1} /\ Len(bills) + 1 \notin DOMAIN bills
      /\ \A b \in DOMAIN bills : bills'[b] = bills[b] /\ b < Len(bills) + 1 /\ b \in Nat
      /\ bills'[Len(bills) + 1] = x /\ Len(bills) + 1 \in Nat
  BY GrownBills
<1>2. x.paid = 0 /\ Len(settlements) \in Nat
  BY DEF BillsGrow, DealsTypeOK
<1>3. PaidKnown'
  BY <1>1, <1>2 DEF PaidKnown
<1>4. ASSUME NEW i \in DOMAIN settlements
      PROVE  {b \in DOMAIN bills' : bills'[b].paid = i} = PaidBy(i)
  <2>1. i # 0
    BY DEF DealsTypeOK
  <2> QED BY <1>1, <1>2, <2>1 DEF PaidBy
<1>5. ASSUME NEW i \in DOMAIN settlements
      PROVE  SumFunctionOnSet([b \in DOMAIN bills' |-> Prices[bills'[b].period]], PaidBy(i)) = Revenue(PaidBy(i))
  <2> DEFINE f == [b \in DOMAIN bills |-> Prices[bills[b].period]]
             g == [b \in DOMAIN bills' |-> Prices[bills'[b].period]]
  <2>1. IsFiniteSet(PaidBy(i))
    <3>1. IsFiniteSet(DOMAIN bills)
      BY PlacesFinite DEF DealsTypeOK
    <3> QED BY <3>1, FS_Subset DEF PaidBy
  <2>2. \A b \in PaidBy(i) : f[b] = g[b]
    BY <1>1 DEF PaidBy
  <2>3. Revenue(PaidBy(i)) = SumFunctionOnSet(f, PaidBy(i))
    BY DEF Revenue
  <2> HIDE DEF f, g, DealsInv
  <2>4. SumFunctionOnSet(f, PaidBy(i)) = SumFunctionOnSet(g, PaidBy(i))
    BY <2>1, <2>2, SumSame
  <2> QED BY <2>3, <2>4 DEF g
<1>6. BooksTrue'
  <2> SUFFICES ASSUME NEW i \in DOMAIN settlements
               PROVE  LET p == {b \in DOMAIN bills' : bills'[b].paid = i} IN
                      /\ Cardinality(p) = settlements[i].count
                      /\ SumFunctionOnSet([b \in DOMAIN bills' |-> Prices[bills'[b].period]], p) = settlements[i].total
                      /\ \A b \in p : bills'[b].dealer = settlements[i].dealer /\ settlements[i].month \in {AnyMonth, MonthOf(bills'[b].made)}
    BY DEF BooksTrue, PaidBy, Revenue, InSettlement
  <2>1. \A b \in PaidBy(i) : bills'[b].dealer = settlements[i].dealer /\ settlements[i].month \in {AnyMonth, MonthOf(bills'[b].made)}
    <3> SUFFICES ASSUME NEW b \in PaidBy(i)
                 PROVE  bills'[b].dealer = settlements[i].dealer /\ settlements[i].month \in {AnyMonth, MonthOf(bills'[b].made)}
      OBVIOUS
    <3>1. InSettlement(settlements[i], b)
      BY DEF BooksTrue
    <3>2. bills'[b] = bills[b]
      BY <1>1 DEF PaidBy
    <3> HIDE DEF DealsInv
    <3> QED BY <3>1, <3>2, Zenon DEF InSettlement
  <2>2. Cardinality(PaidBy(i)) = settlements[i].count /\ Revenue(PaidBy(i)) = settlements[i].total
    BY DEF BooksTrue
  <2> HIDE DEF DealsInv
  <2> QED BY <1>4, <1>5, <2>1, <2>2
<1> QED BY <1>3, <1>6

LEMMA MaxMember ==
    ASSUME NEW n \in Nat, NEW S, S \subseteq 0 .. n, NEW e \in S PROVE Max(S) \in S /\ \A y \in S : Max(S) >= y
<1>1. \E x \in S : \A y \in S : x >= y
  BY GreatestNatural
<1> QED BY <1>1, Zenon DEF Max

LEMMA MaxKnown ==
    ASSUME NEW S, S \subseteq Nat, NEW m \in S, \A y \in S : m >= y PROVE Max(S) = m
<1>1. \A x \in S : (\A y \in S : x >= y) => x = m
  OBVIOUS
<1> QED BY <1>1, Zenon DEF Max

\* The orders of a subscription: the first is its origin, and a renewal has one before it.
LEMMA OrdersOf ==
    ASSUME DealsInv, NEW s \in Deals
    PROVE  /\ BillsOf(s) \subseteq 0 .. Len(bills) /\ Len(bills) \in Nat /\ BillsOf(s) \subseteq DOMAIN bills
           /\ LastBill(s) \in BillsOf(s) /\ \A b \in BillsOf(s) : LastBill(s) >= b
           /\ \A b \in BillsOf(s) : bills[b].key # NoKey => Max(Earlier(s, b)) \in BillsOf(s)
<1>1. bills \in Seq(BillT)
  BY DEF DealsInv, DealsTypeOK
<1>2. DOMAIN bills = 1 .. Len(bills) /\ Len(bills) \in Nat
  BY <1>1
<1>3. BillsOf(s) \subseteq 0 .. Len(bills) /\ BillsOf(s) \subseteq DOMAIN bills
  BY <1>2 DEF BillsOf
<1>4. PICK o : o = deals[s].origin /\ o \in BillsOf(s) /\ bills[o].key = NoKey /\ \A b \in BillsOf(s) : o <= b
  BY DEF DealsInv, Origins, BillsOf
<1>5. LastBill(s) \in BillsOf(s) /\ \A b \in BillsOf(s) : LastBill(s) >= b
  BY <1>2, <1>3, <1>4, MaxMember DEF LastBill
<1>6. ASSUME NEW b \in BillsOf(s), bills[b].key # NoKey PROVE Max(Earlier(s, b)) \in BillsOf(s)
  <2>1. o \in Earlier(s, b)
    BY <1>2, <1>3, <1>4, <1>6 DEF Earlier
  <2>2. Earlier(s, b) \subseteq 0 .. Len(bills) /\ Earlier(s, b) \subseteq BillsOf(s)
    BY <1>3 DEF Earlier
  <2>3. Max(Earlier(s, b)) \in Earlier(s, b)
    BY <1>2, <2>1, <2>2, MaxMember
  <2> QED BY <2>2, <2>3
<1> QED BY <1>2, <1>3, <1>5, <1>6

\* An order of another subscription.
LEMMA ChainUntouched ==
    ASSUME DealsInv, NEW x, BillsGrow(x), NEW s \in Deals, x.deal # s, NEW e, ChainOf(s, e) PROVE ChainOf(s, e)'
<1>1. /\ DOMAIN bills' = (DOMAIN bills) \cup {Len(bills) + 1} /\ Len(bills) + 1 \notin DOMAIN bills
      /\ \A b \in DOMAIN bills : bills'[b] = bills[b] /\ b < Len(bills) + 1 /\ b \in Nat
      /\ bills'[Len(bills) + 1] = x
  BY GrownBills DEF DealsInv
<1>2. {b \in DOMAIN bills' : bills'[b].deal = s} = BillsOf(s)
  BY <1>1 DEF BillsOf
<1>3. PICK B : B = BillsOf(s)
  OBVIOUS
<1>4. /\ B \subseteq DOMAIN bills /\ Max(B) \in B
      /\ \A b \in B : bills[b].key # NoKey => Max({c \in B : c < b}) \in B
  BY <1>3, OrdersOf DEF LastBill, Earlier
<1>5. e = bills[Max(B)].after /\ \A b \in B : bills[b].key # NoKey => bills[b].before = bills[Max({c \in B : c < b})].after
  BY <1>3 DEF ChainOf, LastBill, Earlier
<1>6. e = bills'[Max(B)].after
  BY <1>1, <1>4, <1>5
<1>7. ASSUME NEW b \in B, bills'[b].key # NoKey PROVE bills'[b].before = bills'[Max({c \in B : c < b})].after
  <2>1. bills'[b] = bills[b] /\ Max({c \in B : c < b}) \in DOMAIN bills
    BY <1>1, <1>4, <1>7
  <2> QED BY <1>1, <1>5, <1>7, <2>1
<1>8. B = {b \in DOMAIN bills' : bills'[b].deal = s}
  BY <1>2, <1>3
<1> QED BY <1>6, <1>7, <1>8 DEF ChainOf, LastBill, BillsOf, Earlier

\* A renewal continues where the last order ended.
LEMMA ChainLonger ==
    ASSUME DealsInv, NEW x, BillsGrow(x), NEW s \in Deals, x.deal = s, ChainOf(s, x.before) PROVE ChainOf(s, x.after)'
<1>1. /\ DOMAIN bills' = (DOMAIN bills) \cup {Len(bills) + 1} /\ Len(bills) + 1 \notin DOMAIN bills
      /\ \A b \in DOMAIN bills : bills'[b] = bills[b] /\ b < Len(bills) + 1 /\ b \in Nat
      /\ bills'[Len(bills) + 1] = x
  BY GrownBills DEF DealsInv
<1>2. PICK B : B = BillsOf(s)
  OBVIOUS
<1>3. /\ B \subseteq DOMAIN bills /\ Max(B) \in B
      /\ \A b \in B : bills[b].key # NoKey => Max({c \in B : c < b}) \in B
  BY <1>2, OrdersOf DEF LastBill, Earlier
<1>4. PICK n \in Nat : n = Len(bills) + 1
  BY OrdersOf
<1>5. PICK B2 : B2 = {b \in DOMAIN bills' : bills'[b].deal = s}
  OBVIOUS
<1>6. B2 = B \cup {n}
  BY <1>1, <1>2, <1>4, <1>5 DEF BillsOf
<1>7. x.before = bills[Max(B)].after
      /\ \A b \in B : bills[b].key # NoKey => bills[b].before = bills[Max({c \in B : c < b})].after
  BY <1>2 DEF ChainOf, LastBill, Earlier
<1>8. Max(B2) = n
  <2>1. B2 \subseteq Nat /\ n \in B2 /\ \A y \in B2 : n >= y
    BY <1>1, <1>3, <1>4, <1>6
  <2> QED BY <2>1, MaxKnown
<1>9. x.after = bills'[Max(B2)].after
  BY <1>1, <1>4, <1>8
<1>10. ASSUME NEW b \in B2, bills'[b].key # NoKey PROVE bills'[b].before = bills'[Max({c \in B2 : c < b})].after
  <2>1. CASE b = n
    <3>1. {c \in B2 : c < b} = B
      BY <1>1, <1>3, <1>4, <1>6, <2>1
    <3>2. bills'[b] = x /\ bills'[Max(B)] = bills[Max(B)]
      BY <1>1, <1>3, <1>4, <2>1
    <3>3. x.before = bills[Max(B)].after
      BY <1>7
    <3> QED BY <3>1, <3>2, <3>3, Zenon
  <2>2. CASE b \in B
    <3>1. {c \in B2 : c < b} = {c \in B : c < b}
      BY <1>1, <1>3, <1>4, <1>6, <2>2
    <3>2. bills'[b] = bills[b] /\ Max({c \in B : c < b}) \in DOMAIN bills
      BY <1>1, <1>3, <1>10, <2>2
    <3>3. bills[b].before = bills[Max({c \in B : c < b})].after
      BY <1>7, <1>10, <2>2, <3>2
    <3> QED BY <1>1, <3>1, <3>2, <3>3
  <2> QED BY <1>6, <2>1, <2>2
<1> QED BY <1>5, <1>9, <1>10 DEF ChainOf, LastBill, BillsOf, Earlier

\* The first order of a subscription that was not there before.
LEMMA ChainBegins ==
    ASSUME DealsInv, NEW x, BillsGrow(x), NEW s, s \notin Deals, x.deal = s, x.key = NoKey PROVE ChainOf(s, x.after)'
<1>1. /\ DOMAIN bills' = (DOMAIN bills) \cup {Len(bills) + 1}
      /\ \A b \in DOMAIN bills : bills'[b] = bills[b]
      /\ bills'[Len(bills) + 1] = x /\ Len(bills) + 1 \in Nat
  BY GrownBills DEF DealsInv
<1>2. \A b \in DOMAIN bills : bills[b].deal # s
  BY DEF DealsInv, Owned
<1>3. PICK n \in Nat : n = Len(bills) + 1
  BY <1>1
<1>4. {b \in DOMAIN bills' : bills'[b].deal = s} = {n}
  BY <1>1, <1>2, <1>3
<1>5. Max({n}) = n
  BY MaxKnown
<1>6. PICK B : B = {b \in DOMAIN bills' : bills'[b].deal = s}
  OBVIOUS
<1>7. Max(B) = n /\ \A b \in B : b = n
  BY <1>4, <1>5, <1>6
<1> QED BY <1>1, <1>3, <1>6, <1>7 DEF ChainOf, LastBill, BillsOf, Earlier

LEMMA GrownKeys ==
    ASSUME DealsInv, NEW x, BillsGrow(x),
           x.key = NoKey \/ \A b \in DOMAIN bills : bills[b].dealer = x.dealer => bills[b].key # x.key
    PROVE  KeysOnce'
<1>1. /\ DOMAIN bills' = (DOMAIN bills) \cup {Len(bills) + 1}
      /\ \A b \in DOMAIN bills : bills'[b] = bills[b]
      /\ bills'[Len(bills) + 1] = x
  BY GrownBills DEF DealsInv
<1> SUFFICES ASSUME NEW b \in DOMAIN bills', NEW c \in DOMAIN bills', bills'[b].key # NoKey,
                    bills'[b].key = bills'[c].key, bills'[b].dealer = bills'[c].dealer
             PROVE  b = c
  BY DEF KeysOnce
<1>2. CASE b \in DOMAIN bills /\ c \in DOMAIN bills
  BY <1>1, <1>2 DEF DealsInv, KeysOnce
<1>3. CASE ~(b \in DOMAIN bills /\ c \in DOMAIN bills)
  BY <1>1, <1>3
<1> QED BY <1>2, <1>3

LEMMA GrownAnswers ==
    ASSUME DealsInv, NEW x, BillsGrow(x), NEW a, a.key \in RenewKeys, AnswerOK(a, x), answers' \subseteq answers \cup {a}
    PROVE  Answered'
<1>1. /\ DOMAIN bills' = (DOMAIN bills) \cup {Len(bills) + 1}
      /\ \A b \in DOMAIN bills : bills'[b] = bills[b]
      /\ bills'[Len(bills) + 1] = x
  BY GrownBills DEF DealsInv
<1>2. \A z \in answers : z.key \in RenewKeys /\ \E b \in DOMAIN bills : AnswerOK(z, bills[b])
  BY DEF DealsInv, Answered
<1>3. ASSUME NEW z \in answers' PROVE z.key \in RenewKeys /\ \E b \in DOMAIN bills' : AnswerOK(z, bills'[b])
  <2>1. CASE z = a
    BY <1>1, <2>1
  <2>2. CASE z \in answers
    BY <1>1, <1>2, <2>2
  <2> QED BY <2>1, <2>2
<1> QED BY <1>3 DEF Answered, AnswerOK

LEMMA GrownSame == ASSUME DealsInv, NEW x, BillsGrow(x), UNCHANGED answers PROVE Answered'
<1>1. /\ DOMAIN bills' = (DOMAIN bills) \cup {Len(bills) + 1}
      /\ \A b \in DOMAIN bills : bills'[b] = bills[b]
  BY GrownBills DEF DealsInv
<1>2. \A z \in answers : z.key \in RenewKeys /\ \E b \in DOMAIN bills : AnswerOK(z, bills[b])
  BY DEF DealsInv, Answered
<1> QED BY <1>1, <1>2 DEF Answered, AnswerOK

LEMMA GrownTerms == ASSUME DealsInv, NEW x, BillsGrow(x), TermSound(x) PROVE TermsSound'
<1>1. /\ DOMAIN bills' = (DOMAIN bills) \cup {Len(bills) + 1}
      /\ \A b \in DOMAIN bills : bills'[b] = bills[b]
      /\ bills'[Len(bills) + 1] = x
  BY GrownBills DEF DealsInv
<1>2. \A b \in DOMAIN bills' : TermSound(bills'[b])
  BY <1>1 DEF DealsInv, TermsSound
<1> QED BY <1>2 DEF TermsSound, TermSound

LEMMA PeriodMonths == ASSUME NEW p \in DOMAIN Prices, p # "onetime" PROVE orderPeriodMonths[p] \in Nat \ {0}
<1>1. p \in DOMAIN orderPeriodMonths
  BY DistributorConstants
<1> QED BY <1>1 DEF orderPeriodMonths

\* Where a sale and a renewal end.
LEMMA SaleEnds == ASSUME NEW d \in Nat, NEW k \in Nat \ {0} PROVE addOrderMonths(d, k) \in Nat
<1>1. MonthOf(d) \in Nat /\ DayOf(d) \in Nat
  BY MonthFound, DayFound
<1>2. Start(MonthOf(d) + k) \in Nat
  BY <1>1, StartNat
<1> QED BY <1>1, <1>2 DEF addOrderMonths

LEMMA RenewalEnds ==
    ASSUME NEW d \in Nat, NEW k \in Nat \ {0}
    PROVE  LET e == addDistributorMonthsNoOverflow(d, k) IN e \in Nat /\ e > d /\ MonthOf(e) = MonthOf(d) + k
<1>1. PICK m \in Nat : m = MonthOf(d) /\ Start(m) <= d /\ d < Start(m + 1)
  BY MonthFound
<1>2. PICK e : e = calendarAnchor(m + k, d)
  OBVIOUS
<1>3. e \in Nat /\ Start(m + k) <= e /\ MonthOf(e) = m + k
  BY <1>2, AnchorDay
<1>4. Start(m + 1) <= Start(m + k)
  BY StartGrows
<1>5. Start(m + 1) \in Nat /\ Start(m + k) \in Nat
  BY StartNat
<1>6. e > d
  BY <1>1, <1>3, <1>4, <1>5
<1> QED BY <1>1, <1>2, <1>3, <1>6 DEF addDistributorMonthsNoOverflow

\* An order and a subscription, field by field.
LEMMA BillIs ==
    ASSUME NEW d \in Dealers, NEW s \in Nat, NEW p \in DOMAIN Prices, NEW k \in RenewKeys \cup {NoKey}, NEW b \in Day, NEW e \in Day,
           day \in Nat
    PROVE  \E x \in BillT : /\ x = Bill(d, s, p, k, b, e) /\ x.dealer = d /\ x.deal = s /\ x.period = p /\ x.key = k
                           /\ x.before = b /\ x.after = e /\ x.made = day /\ x.paid = 0
<1>1. PICK x : x = Bill(d, s, p, k, b, e)
  OBVIOUS
<1>2. /\ x \in BillT /\ x.dealer = d /\ x.deal = s /\ x.period = p /\ x.key = k
      /\ x.before = b /\ x.after = e /\ x.made = day /\ x.paid = 0
  BY <1>1 DEF Bill, BillT
<1> QED BY <1>1, <1>2

NewDeal(d, o, e) ==
    [dealer |-> d, origin |-> o, expiry |-> e, used |-> FALSE,
     delivery |-> "pending", settled |-> FALSE, issued |-> FALSE, connected |-> FALSE,
     enabled |-> TRUE, limit |-> PlanDevices, devices |-> {},
     opened |-> 0, most |-> PlanDevices, amended |-> FALSE]

LEMMA NewDealIs ==
    ASSUME NEW d \in Dealers, NEW o \in Nat, NEW e \in Day
    PROVE  \E y \in DealT : /\ y = NewDeal(d, o, e) /\ y.dealer = d /\ y.origin = o /\ y.expiry = e
                           /\ ~y.settled /\ ~y.amended /\ Handed(y)
<1>0. PICK y : y = NewDeal(d, o, e)
  OBVIOUS
<1>1. PlanDevices \in Nat \ {0}
  BY DistributorConstants
<1>2. PICK n \in Nat \ {0} : n = PlanDevices
  BY <1>1
<1>3. /\ y \in DealT /\ y.dealer = d /\ y.origin = o /\ y.expiry = e /\ ~y.settled /\ ~y.amended
      /\ y.opened = 0 /\ ~y.issued /\ ~y.connected /\ y.devices = {} /\ y.most = n /\ y.limit = n
  BY <1>0, <1>2 DEF NewDeal, DealT
<1>4. IsFiniteSet({}) /\ Cardinality({}) = 0
  BY FS_EmptySet
<1> QED BY <1>0, <1>3, <1>4 DEF Handed

\* The subscriptions of the orders stay where they were.
LEMMA VisitsMore ==
    ASSUME DealsInv, UNCHANGED visits, Deals \subseteq Deals'
    PROVE  visits' = [v \in Callers |-> visits'[v]] /\ \A v \in Callers : VisitOK(Deals', visits'[v])
<1>1. visits = [v \in Callers |-> visits[v]] /\ \A v \in Callers : VisitOK(Deals, visits[v])
  BY DEF DealsInv, DealsTypeOK
<1> QED BY <1>1 DEF VisitOK

LEMMA CreateKeeps ==
    ASSUME DealsInv, NEW d \in Dealers, NEW p \in DOMAIN Prices, CreateDistributorOrder(d, p), day' = day
    PROVE  DealsInv'
<1>1. deals \in Seq(DealT) /\ bills \in Seq(BillT) /\ day \in Nat /\ settlements \in Seq(SettlementT)
  BY DEF DealsInv, DealsTypeOK
<1>2. PICK s \in Nat : s = Len(deals) + 1
  BY <1>1
<1>3. PICK o \in Nat : o = Len(bills) + 1
  BY <1>1
<1>4. PICK e \in Day : e = IF p = "onetime" THEN Never ELSE addOrderMonths(day, orderPeriodMonths[p])
  <2>1. CASE p = "onetime"
    BY <2>1 DEF Day
  <2>2. CASE p # "onetime"
    BY <1>1, <2>2, PeriodMonths, SaleEnds DEF Day
  <2> QED BY <2>1, <2>2
<1>8. Never \in Day /\ NoKey \in RenewKeys \cup {NoKey}
  BY DEF Day
<1>5. PICK x \in BillT : /\ x = Bill(d, s, p, NoKey, Never, e) /\ x.dealer = d /\ x.deal = s /\ x.key = NoKey
                        /\ x.after = e /\ x.paid = 0
  <2>1. PICK k \in RenewKeys \cup {NoKey}, b \in Day : k = NoKey /\ b = Never
    BY <1>8
  <2>2. \E x \in BillT : /\ x = Bill(d, s, p, k, b, e) /\ x.dealer = d /\ x.deal = s /\ x.period = p /\ x.key = k
                       /\ x.before = b /\ x.after = e /\ x.made = day /\ x.paid = 0
    BY <1>1, BillIs
  <2> QED BY <2>1, <2>2
<1>6. PICK y \in DealT : /\ y = NewDeal(d, o, e) /\ y.dealer = d /\ y.origin = o /\ y.expiry = e
                        /\ ~y.settled /\ ~y.amended /\ Handed(y)
  BY NewDealIs
<1>7. bills' = Append(bills, x) /\ deals' = Append(deals, y) /\ UNCHANGED <<settlements, visits, answers>>
  BY <1>2, <1>3, <1>4, <1>5, <1>6 DEF CreateDistributorOrder, NewDeal
<1>11. BillsGrow(x)
  BY <1>7, <1>5 DEF BillsGrow
<1>12. /\ bills' \in Seq(BillT) /\ DOMAIN bills' = (DOMAIN bills) \cup {o} /\ o \notin DOMAIN bills
       /\ \A b \in DOMAIN bills : bills'[b] = bills[b] /\ b < o /\ b \in Nat
       /\ bills'[o] = x
  BY <1>3, <1>11, GrownBills DEF DealsInv
<1>13. /\ deals' \in Seq(DealT) /\ Deals' = Deals \cup {s} /\ s \notin Deals
       /\ \A t \in Deals : deals'[t] = deals[t]
       /\ deals'[s] = y
  BY <1>1, <1>2, <1>7, <1>6, Appended DEF Deals
<1>14. DealsTypeOK'
  <2>1. visits' = [v \in Callers |-> visits'[v]] /\ \A v \in Callers : VisitOK(Deals', visits'[v])
    BY <1>7, <1>13, VisitsMore
  <2> QED BY <1>1, <1>7, <1>12, <1>13, <2>1 DEF DealsTypeOK, VisitOK
<1>15. \A b \in DOMAIN bills : bills[b].deal \in Deals /\ deals[bills[b].deal].dealer = bills[b].dealer
  BY DEF DealsInv, Owned
<1>16. Owned'
  <2>1. ASSUME NEW b \in DOMAIN bills' PROVE bills'[b].deal \in Deals' /\ deals'[bills'[b].deal].dealer = bills'[b].dealer
    BY <1>5, <1>6, <1>12, <1>13, <1>15
  <2> QED BY <2>1 DEF Owned
<1>17. Origins'
  <2>1. ASSUME NEW t \in Deals'
        PROVE  /\ deals'[t].origin \in DOMAIN bills' /\ bills'[deals'[t].origin].deal = t /\ bills'[deals'[t].origin].key = NoKey
               /\ (deals'[t].settled <=> bills'[deals'[t].origin].paid # 0)
               /\ \A b \in DOMAIN bills' : bills'[b].deal = t => deals'[t].origin <= b
    <3>1. CASE t = s
      <4>1. deals'[t].origin = o /\ ~deals'[t].settled
        BY <1>6, <1>13, <3>1
      <4>2. \A b \in DOMAIN bills' : bills'[b].deal = t => o <= b
        BY <1>12, <1>13, <1>15, <3>1
      <4> QED BY <1>5, <1>12, <3>1, <4>1, <4>2
    <3>2. CASE t \in Deals
      <4>1. PICK z : z = deals[t].origin
        OBVIOUS
      <4>2. /\ z \in DOMAIN bills /\ bills[z].deal = t /\ bills[z].key = NoKey
            /\ (deals[t].settled <=> bills[z].paid # 0) /\ \A b \in DOMAIN bills : bills[b].deal = t => z <= b
        BY <3>2, <4>1 DEF DealsInv, Origins, BillsOf
      <4>3. deals'[t] = deals[t] /\ bills'[z] = bills[z] /\ z \in DOMAIN bills'
        BY <1>12, <1>13, <3>2, <4>2
      <4>4. \A b \in DOMAIN bills' : bills'[b].deal = t => z <= b
        BY <1>5, <1>12, <1>13, <3>2, <4>2
      <4> QED BY <4>1, <4>2, <4>3, <4>4
    <3> QED BY <1>13, <3>1, <3>2
  <2> QED BY <2>1 DEF Origins, BillsOf
<1>18. PaidKnown' /\ BooksTrue'
  BY <1>7, <1>11, GrownBooks
<1>19. KeysOnce' /\ Answered'
  BY <1>7, <1>5, <1>11, GrownKeys, GrownSame
<1>20. TermsSound'
  <2>1. TermSound(x)
    BY <1>5 DEF TermSound
  <2> QED BY <1>11, <2>1, GrownTerms
<1>21. ChainSound'
  <2>1. ASSUME NEW t \in Deals', NEW z, z = deals'[t].expiry, ~deals'[t].amended PROVE ChainOf(t, z)'
    <3>1. CASE t = s
      <4>1. z = e
        BY <1>6, <1>13, <2>1, <3>1
      <4>2. ChainOf(s, x.after)'
        BY <1>5, <1>11, <1>13, ChainBegins
      <4>3. ChainOf(t, e)'
        BY <1>5, <3>1, <4>2
      <4> QED BY <4>1, <4>3
    <3>2. CASE t \in Deals
      <4>1. ChainOf(t, z)
        BY <1>13, <2>1, <3>2 DEF DealsInv, ChainSound
      <4>2. x.deal # t
        BY <1>5, <1>13, <3>2
      <4> QED BY <1>11, <3>2, <4>1, <4>2, ChainUntouched
    <3> QED BY <1>13, <3>1, <3>2
  <2> QED BY <2>1 DEF ChainSound, ChainOf, LastBill, BillsOf, Earlier
<1>22. AllHanded'
  <2>1. ASSUME NEW t \in Deals' PROVE Handed(deals'[t])
    BY <1>6, <1>13 DEF DealsInv, AllHanded
  <2> QED BY <2>1 DEF AllHanded, Handed
<1> QED BY <1>14, <1>16, <1>17, <1>18, <1>19, <1>20, <1>21, <1>22 DEF DealsInv

Extended(x, e, on) == [x EXCEPT !.expiry = e, !.used = on]

LEMMA ExtendedIs == ASSUME NEW x \in DealT, NEW e \in Day, NEW on \in BOOLEAN, NEW y, y = Extended(x, e, on)
                   PROVE  /\ y \in DealT /\ y.dealer = x.dealer /\ y.origin = x.origin /\ (y.settled <=> x.settled)
                          /\ (y.amended <=> x.amended) /\ y.expiry = e
                          /\ y.delivery = x.delivery /\ y.opened = x.opened
                          /\ (y.issued <=> x.issued) /\ (y.connected <=> x.connected)
                          /\ y.devices = x.devices /\ y.most = x.most /\ y.limit = x.limit
BY DEF DealT, Extended

\* An order added for a subscription that was there, and what it makes of the subscription.
LEMMA RenewalKeeps ==
    ASSUME DealsInv, NEW s \in Deals, NEW x, NEW y \in DealT, NEW a, BillsGrow(x), deals' = [deals EXCEPT ![s] = y],
           x.dealer = deals[s].dealer, x.deal = s, x.key \in RenewKeys, x.before = deals[s].expiry, TermSound(x),
           \A b \in DOMAIN bills : bills[b].dealer = x.dealer => bills[b].key # x.key,
           y.dealer = deals[s].dealer, y.origin = deals[s].origin, y.settled <=> deals[s].settled,
           y.amended <=> deals[s].amended, y.expiry = x.after, Handed(y),
           a.key \in RenewKeys, AnswerOK(a, x), answers' \subseteq answers \cup {a}, UNCHANGED <<settlements, visits>>, day' = day
    PROVE  DealsInv'
<1>1. deals \in Seq(DealT) /\ bills \in Seq(BillT) /\ day \in Nat /\ settlements \in Seq(SettlementT)
  BY DEF DealsInv, DealsTypeOK
<1>2. PICK o \in Nat : o = Len(bills) + 1
  BY <1>1
<1>3. /\ bills' \in Seq(BillT) /\ DOMAIN bills' = (DOMAIN bills) \cup {o} /\ o \notin DOMAIN bills
      /\ \A b \in DOMAIN bills : bills'[b] = bills[b] /\ b < o /\ b \in Nat
      /\ bills'[o] = x
  BY <1>2, GrownBills DEF DealsInv
<1>4. deals' \in Seq(DealT) /\ Deals' = Deals /\ deals'[s] = y /\ \A t \in Deals \ {s} : deals'[t] = deals[t]
  BY <1>1, DealReplaced
<1>5. ASSUME NEW t \in Deals
      PROVE  /\ deals'[t].dealer = deals[t].dealer /\ deals'[t].origin = deals[t].origin
             /\ (deals'[t].settled <=> deals[t].settled) /\ (deals'[t].amended <=> deals[t].amended)
  <2>1. CASE t = s
    BY <1>4, <2>1
  <2>2. CASE t # s
    BY <1>4, <2>2
  <2> QED BY <2>1, <2>2
<1>6. DealsTypeOK'
  <2>1. visits' = [v \in Callers |-> visits'[v]] /\ \A v \in Callers : VisitOK(Deals', visits'[v])
    BY <1>4, VisitsMore
  <2> QED BY <1>1, <1>3, <1>4, <2>1 DEF DealsTypeOK, VisitOK
<1>7. Owned'
  <2>1. ASSUME NEW b \in DOMAIN bills' PROVE bills'[b].deal \in Deals' /\ deals'[bills'[b].deal].dealer = bills'[b].dealer
    <3>1. CASE b = o
      BY <1>3, <1>4, <3>1
    <3>2. CASE b \in DOMAIN bills
      <4>1. bills[b].deal \in Deals /\ deals[bills[b].deal].dealer = bills[b].dealer
        BY <3>2 DEF DealsInv, Owned
      <4> QED BY <1>3, <1>4, <1>5, <3>2, <4>1
    <3> QED BY <1>3, <3>1, <3>2
  <2> QED BY <2>1 DEF Owned
<1>8. Origins'
  <2>1. ASSUME NEW t \in Deals
        PROVE  /\ deals'[t].origin \in DOMAIN bills' /\ bills'[deals'[t].origin].deal = t /\ bills'[deals'[t].origin].key = NoKey
               /\ (deals'[t].settled <=> bills'[deals'[t].origin].paid # 0)
               /\ \A b \in DOMAIN bills' : bills'[b].deal = t => deals'[t].origin <= b
    <3>1. PICK z : z = deals[t].origin
      OBVIOUS
    <3>2. /\ z \in DOMAIN bills /\ bills[z].deal = t /\ bills[z].key = NoKey
          /\ (deals[t].settled <=> bills[z].paid # 0) /\ \A b \in DOMAIN bills : bills[b].deal = t => z <= b
      BY <3>1 DEF DealsInv, Origins, BillsOf
    <3>3. bills'[z] = bills[z] /\ z \in DOMAIN bills' /\ z <= o
      BY <1>3, <3>2
    <3>4. \A b \in DOMAIN bills' : bills'[b].deal = t => z <= b
      BY <1>3, <3>2, <3>3
    <3> QED BY <1>5, <3>1, <3>2, <3>3, <3>4
  <2> QED BY <1>4, <2>1 DEF Origins, BillsOf
<1>9. PaidKnown' /\ BooksTrue'
  BY GrownBooks
<1>10. KeysOnce' /\ Answered'
  BY GrownKeys, GrownAnswers
<1>11. TermsSound'
  BY GrownTerms
<1>12. ChainSound'
  <2>1. ASSUME NEW t \in Deals, NEW z, z = deals'[t].expiry, ~deals'[t].amended PROVE ChainOf(t, z)'
    <3>1. CASE t = s
      <4>1. ~deals[s].amended /\ z = x.after
        BY <1>4, <2>1, <3>1
      <4>2. ChainOf(s, x.before)
        BY <4>1 DEF DealsInv, ChainSound
      <4>3. ChainOf(s, x.after)'
        BY <4>2, ChainLonger
      <4> QED BY <3>1, <4>1, <4>3
    <3>2. CASE t # s
      <4>1. ~deals[t].amended /\ z = deals[t].expiry
        BY <1>4, <2>1, <3>2
      <4>2. ChainOf(t, z)
        BY <4>1 DEF DealsInv, ChainSound
      <4> QED BY <3>2, <4>2, ChainUntouched
    <3> QED BY <3>1, <3>2
  <2> QED BY <1>4, <2>1 DEF ChainSound, ChainOf, LastBill, BillsOf, Earlier
<1>13. AllHanded'
  <2>1. ASSUME NEW t \in Deals PROVE Handed(deals'[t])
    BY <1>4 DEF DealsInv, AllHanded
  <2> QED BY <1>4, <2>1 DEF AllHanded, Handed
<1> QED BY <1>6, <1>7, <1>8, <1>9, <1>10, <1>11, <1>12, <1>13 DEF DealsInv

LEMMA RenewKeeps ==
    ASSUME DealsInv, NEW d \in Dealers, NEW s \in Deals, NEW p \in DOMAIN Prices, NEW k \in RenewKeys,
           RenewDistributorOrder(d, s, p, k), day' = day
    PROVE  DealsInv'
<1>1. PICK w \in DealT : w = deals[s] /\ Handed(w)
  BY DealHeld
<1>2. PICK a : a = [dealer |-> d, key |-> k, deal |-> s, period |-> p]
  OBVIOUS
<1>3. a.dealer = d /\ a.key = k /\ a.deal = s /\ a.period = p
  BY <1>2
<1>4. w.dealer = d /\ p # "onetime" /\ answers' = answers \cup {a} /\ UNCHANGED <<settlements, visits>>
  BY <1>1, <1>2 DEF RenewDistributorOrder
<1>5. CASE \E b \in DOMAIN bills : bills[b].dealer = d /\ bills[b].key = k
  <2>1. PICK b \in DOMAIN bills : bills[b].dealer = d /\ bills[b].key = k
    BY <1>5
  <2>2. bills[b].deal = s /\ bills[b].period = p /\ UNCHANGED <<bills, deals>>
    BY <2>1 DEF RenewDistributorOrder
  <2>3. DealsInv /\ Answered
    BY DEF DealsInv
  <2>4. PaidKnown' /\ BooksTrue' /\ KeysOnce' /\ TermsSound'
    <3>1. bills' = bills /\ settlements' = settlements
      BY <1>4, <2>2
    <3>2. PaidKnown' /\ KeysOnce'
      BY <3>1 DEF DealsInv, PaidKnown, KeysOnce
    <3>3. TermsSound'
      BY <3>1 DEF DealsInv, TermsSound, TermSound, orderPeriodMonths, MonthOf, Start, Length
    <3>4. BooksTrue'
      BY <3>1 DEF DealsInv, BooksTrue, PaidBy, Revenue, InSettlement
    <3> QED BY <3>2, <3>3, <3>4
  <2>5. Answered'
    <3>1. AnswerOK(a, bills[b])
      BY <1>3, <2>1, <2>2 DEF AnswerOK
    <3>2. \A z \in answers' : z.key \in RenewKeys /\ \E c \in DOMAIN bills : AnswerOK(z, bills[c])
      <4> SUFFICES ASSUME NEW z \in answers' PROVE z.key \in RenewKeys /\ \E c \in DOMAIN bills : AnswerOK(z, bills[c])
        OBVIOUS
      <4>1. CASE z = a
        BY <1>3, <3>1, <4>1
      <4>2. CASE z \in answers
        BY <4>2 DEF DealsInv, Answered
      <4> QED BY <1>4, <4>1, <4>2
    <3> QED BY <2>2, <3>2 DEF Answered, AnswerOK
  <2>6. DealsTypeOK' /\ Owned' /\ Origins' /\ AllHanded'
    <3>1. visits' = [v \in Callers |-> visits'[v]] /\ \A v \in Callers : VisitOK(Deals', visits'[v])
      BY <1>4, <2>2, VisitsMore DEF Deals
    <3>2. bills \in Seq(BillT) /\ settlements \in Seq(SettlementT) /\ deals \in Seq(DealT) /\ day \in Nat
      BY DEF DealsInv, DealsTypeOK
    <3>3. DealsTypeOK'
      BY <1>4, <2>2, <3>1, <3>2 DEF DealsTypeOK, VisitOK
    <3> QED BY <2>2, <3>3 DEF DealsInv, Owned, Origins, Deals, BillsOf, AllHanded, Handed
  <2>7. ChainSound'
    BY <2>2, ChainSame DEF DealsInv, ChainSound, Deals
  <2> QED BY <2>4, <2>5, <2>6, <2>7 DEF DealsInv
<1>6. CASE ~\E b \in DOMAIN bills : bills[b].dealer = d /\ bills[b].key = k
  <2>1. Renew(d, s, p, k)
    BY <1>6 DEF RenewDistributorOrder
  <2>2. PICK m \in Nat \ {0} : m = orderPeriodMonths[p]
    BY <1>4, PeriodMonths
  <2>3. PICK now \in Nat : now = day
    BY DEF DealsInv, DealsTypeOK
  <2>4. PICK before \in Nat : before = w.expiry
    BY <1>1, <2>1 DEF Renew, Renewable, DealT, Day
  <2>5. PICK from \in Nat : from = IF before <= now THEN now ELSE before
    OBVIOUS
  <2>6. from = Max({before, now})
    BY <2>5, MaxOfTwo
  <2>7. PICK after \in Nat : after = addDistributorMonthsNoOverflow(from, m) /\ after > from /\ MonthOf(after) = MonthOf(from) + m
    BY RenewalEnds
  <2>8. PICK x \in BillT : /\ x = Bill(d, s, p, k, before, after) /\ x.dealer = d /\ x.deal = s /\ x.period = p /\ x.key = k
                           /\ x.before = before /\ x.after = after /\ x.made = day /\ x.paid = 0
    <3>1. s \in Nat
      BY DEF DealsInv, DealsTypeOK, Deals
    <3>2. before \in Day /\ after \in Day /\ k \in RenewKeys \cup {NoKey} /\ day \in Nat
      BY <2>3 DEF Day
    <3> QED BY <3>1, <3>2, BillIs
  <2>9. PICK on \in BOOLEAN : on = (before > now /\ w.used)
    OBVIOUS
  <2>10. PICK y : y = Extended(w, after, on)
    OBVIOUS
  <2>11. /\ y \in DealT /\ y.dealer = w.dealer /\ y.origin = w.origin /\ (y.settled <=> w.settled)
         /\ (y.amended <=> w.amended) /\ y.expiry = after
         /\ y.delivery = w.delivery /\ y.opened = w.opened
         /\ (y.issued <=> w.issued) /\ (y.connected <=> w.connected)
         /\ y.devices = w.devices /\ y.most = w.most /\ y.limit = w.limit
    <3>1. after \in Day
      BY DEF Day
    <3> QED BY <2>10, <3>1, ExtendedIs
  <2>12. bills' = Append(bills, x)
    BY <1>1, <2>1, <2>2, <2>3, <2>4, <2>5, <2>7, <2>8 DEF Renew
  <2>13. deals' = [deals EXCEPT ![s] = y]
    <3>1. deals' = [deals EXCEPT ![s] = [deals[s] EXCEPT !.expiry = after, !.used = ~(before <= now) /\ deals[s].used]]
      BY <1>1, <2>1, <2>2, <2>3, <2>4, <2>5, <2>7 DEF Renew
    <3>2. on = (~(before <= now) /\ w.used)
      BY <2>9
    <3> QED BY <1>1, <2>10, <3>1, <3>2 DEF Extended
  <2>14. BillsGrow(x)
    BY <2>8, <2>12 DEF BillsGrow
  <2>15. TermSound(x)
    BY <2>2, <2>3, <2>6, <2>7, <2>8 DEF TermSound
  <2>16. AnswerOK(a, x)
    BY <1>3, <2>8 DEF AnswerOK
  <2>17. Handed(y)
    BY <1>1, <2>11 DEF Handed
  <2>18. \A b \in DOMAIN bills : bills[b].dealer = x.dealer => bills[b].key # x.key
    BY <1>6, <2>8
  <2>19. /\ x.dealer = deals[s].dealer /\ x.deal = s /\ x.key \in RenewKeys /\ x.before = deals[s].expiry
         /\ y.dealer = deals[s].dealer /\ y.origin = deals[s].origin /\ (y.settled <=> deals[s].settled)
         /\ (y.amended <=> deals[s].amended) /\ y.expiry = x.after /\ y \in DealT
    BY <1>1, <1>4, <2>4, <2>8, <2>11
  <2>20. a.key \in RenewKeys /\ answers' \subseteq answers \cup {a}
    BY <1>3, <1>4
  <2> QED BY <1>4, <2>13, <2>14, <2>15, <2>16, <2>17, <2>18, <2>19, <2>20, RenewalKeeps
<1> QED BY <1>5, <1>6

(* Settlements *)

PaidOff(x, n) == [x EXCEPT !.paid = n]
SettledBy(x, on) == [x EXCEPT !.settled = on]

LEMMA PaidOffIs == ASSUME NEW x \in BillT, NEW n \in Nat, NEW y, y = PaidOff(x, n)
                   PROVE  /\ y \in BillT /\ y.dealer = x.dealer /\ y.deal = x.deal /\ y.period = x.period /\ y.key = x.key
                          /\ y.before = x.before /\ y.after = x.after /\ y.made = x.made /\ y.paid = n
BY DEF BillT, PaidOff

LEMMA SettledByIs == ASSUME NEW x \in DealT, NEW on \in BOOLEAN, NEW y, y = SettledBy(x, on)
                     PROVE  /\ y \in DealT /\ y.dealer = x.dealer /\ y.origin = x.origin /\ (y.settled <=> on)
                            /\ (y.amended <=> x.amended) /\ y.expiry = x.expiry
                            /\ y.delivery = x.delivery /\ y.opened = x.opened
                            /\ (y.issued <=> x.issued) /\ (y.connected <=> x.connected)
                            /\ y.devices = x.devices /\ y.most = x.most /\ y.limit = x.limit
BY DEF DealT, SettledBy

\* An order but for its payment.
SameOrder(x, y) ==
    /\ y.dealer = x.dealer /\ y.deal = x.deal /\ y.period = x.period /\ y.key = x.key
    /\ y.before = x.before /\ y.after = x.after /\ y.made = x.made

LEMMA SettleBills ==
    ASSUME DealsInv, NEW due, due \subseteq DOMAIN bills, NEW n \in Nat,
           bills' = [b \in DOMAIN bills |-> IF b \in due THEN [bills[b] EXCEPT !.paid = n] ELSE bills[b]]
    PROVE  /\ bills' \in Seq(BillT) /\ DOMAIN bills' = DOMAIN bills
           /\ \A b \in DOMAIN bills : SameOrder(bills[b], bills'[b]) /\ bills'[b].paid = IF b \in due THEN n ELSE bills[b].paid
<1>1. bills \in Seq(BillT) /\ Len(bills) \in Nat /\ DOMAIN bills = 1 .. Len(bills)
  BY DEF DealsInv, DealsTypeOK
<1>2. ASSUME NEW b \in DOMAIN bills
      PROVE  /\ bills'[b] \in BillT /\ SameOrder(bills[b], bills'[b])
             /\ bills'[b].paid = IF b \in due THEN n ELSE bills[b].paid
  <2>1. PICK x \in BillT : x = bills[b]
    BY BillTyped DEF DealsInv
  <2>2. CASE b \in due
    <3>1. PICK y : y = PaidOff(x, n)
      OBVIOUS
    <3>2. /\ y \in BillT /\ y.dealer = x.dealer /\ y.deal = x.deal /\ y.period = x.period /\ y.key = x.key
          /\ y.before = x.before /\ y.after = x.after /\ y.made = x.made /\ y.paid = n
      BY <3>1, PaidOffIs
    <3>3. bills'[b] = y
      BY <2>1, <2>2, <3>1 DEF PaidOff
    <3> QED BY <2>1, <2>2, <3>2, <3>3 DEF SameOrder
  <2>3. CASE b \notin due
    <3>1. bills'[b] = x
      BY <2>1, <2>3
    <3> QED BY <2>1, <2>3, <3>1 DEF SameOrder
  <2> QED BY <2>2, <2>3
<1>3. bills' = [b \in 1 .. Len(bills) |-> bills'[b]] /\ \A b \in 1 .. Len(bills) : bills'[b] \in BillT
  BY <1>1, <1>2
<1>4. bills' \in Seq(BillT)
  BY <1>1, <1>3, SeqDef
<1> QED BY <1>2, <1>4

LEMMA SettleDeals ==
    ASSUME DealsInv, NEW due, deals' = [s \in Deals |-> [deals[s] EXCEPT !.settled = @ \/ deals[s].origin \in due]]
    PROVE  /\ deals' \in Seq(DealT) /\ Deals' = Deals
           /\ \A s \in Deals : /\ deals'[s].dealer = deals[s].dealer /\ deals'[s].origin = deals[s].origin
                               /\ (deals'[s].settled <=> deals[s].settled \/ deals[s].origin \in due)
                               /\ (deals'[s].amended <=> deals[s].amended) /\ deals'[s].expiry = deals[s].expiry
                               /\ Handed(deals'[s])
<1>1. deals \in Seq(DealT) /\ Len(deals) \in Nat /\ Deals = 1 .. Len(deals)
  BY DEF DealsInv, DealsTypeOK, Deals
<1>2. ASSUME NEW s \in Deals
      PROVE  /\ deals'[s] \in DealT /\ deals'[s].dealer = deals[s].dealer /\ deals'[s].origin = deals[s].origin
             /\ (deals'[s].settled <=> deals[s].settled \/ deals[s].origin \in due)
             /\ (deals'[s].amended <=> deals[s].amended) /\ deals'[s].expiry = deals[s].expiry
             /\ Handed(deals'[s])
  <2>1. PICK x \in DealT : x = deals[s] /\ Handed(x)
    BY DealHeld
  <2>2. PICK on \in BOOLEAN : on = (x.settled \/ x.origin \in due)
    OBVIOUS
  <2>3. PICK y : y = SettledBy(x, on)
    OBVIOUS
  <2>4. /\ y \in DealT /\ y.dealer = x.dealer /\ y.origin = x.origin /\ (y.settled <=> on)
        /\ (y.amended <=> x.amended) /\ y.expiry = x.expiry
        /\ y.delivery = x.delivery /\ y.opened = x.opened
        /\ (y.issued <=> x.issued) /\ (y.connected <=> x.connected)
        /\ y.devices = x.devices /\ y.most = x.most /\ y.limit = x.limit
    BY <2>3, SettledByIs
  <2>5. deals'[s] = y
    BY <2>1, <2>2, <2>3 DEF SettledBy
  <2>6. Handed(y)
    BY <2>1, <2>4 DEF Handed
  <2> QED BY <2>1, <2>2, <2>4, <2>5, <2>6
<1>3. deals' = [s \in 1 .. Len(deals) |-> deals'[s]] /\ \A s \in 1 .. Len(deals) : deals'[s] \in DealT
  BY <1>1, <1>2
<1>4. deals' \in Seq(DealT)
  BY <1>1, <1>3, SeqDef
<1>5. Deals' = Deals
  BY DEF Deals
<1> QED BY <1>2, <1>4, <1>5

\* What the orders are worth is their prices, which no payment changes.
LEMMA RevenueIs ==
    ASSUME DealsTypeOK, NEW S, S \subseteq DOMAIN bills PROVE IsFiniteSet(S) /\ Cardinality(S) \in Nat /\ Revenue(S) \in Nat
<1>1. IsFiniteSet(DOMAIN bills)
  BY PlacesFinite DEF DealsTypeOK
<1>2. IsFiniteSet(S) /\ Cardinality(S) \in Nat
  BY <1>1, FS_Subset, FS_CardinalityType
<1> DEFINE f == [b \in DOMAIN bills |-> Prices[bills[b].period]]
<1>3. \A b \in S : f[b] \in Nat
  <2> SUFFICES ASSUME NEW b \in S PROVE f[b] \in Nat
    OBVIOUS
  <2>1. bills[b].period \in DOMAIN Prices
    BY BillTyped DEF BillT
  <2> QED BY <2>1, DistributorConstants
<1>4. Revenue(S) = SumFunctionOnSet(f, S)
  BY DEF Revenue
<1> HIDE DEF f
<1> QED BY <1>2, <1>3, <1>4, SumNat

LEMMA RevenueSame ==
    ASSUME DealsTypeOK, DOMAIN bills' = DOMAIN bills, \A b \in DOMAIN bills : bills'[b].period = bills[b].period,
           NEW S, S \subseteq DOMAIN bills
    PROVE  SumFunctionOnSet([b \in DOMAIN bills' |-> Prices[bills'[b].period]], S) = Revenue(S)
<1>1. [b \in DOMAIN bills' |-> Prices[bills'[b].period]] = [b \in DOMAIN bills |-> Prices[bills[b].period]]
  OBVIOUS
<1> QED BY <1>1 DEF Revenue

LEMMA SettleKeeps ==
    ASSUME DealsInv, NEW d \in Dealers, NEW m \in Int, SettleDistributorOrders(d, m), day' = day PROVE DealsInv'
<1>1. deals \in Seq(DealT) /\ bills \in Seq(BillT) /\ day \in Nat /\ settlements \in Seq(SettlementT)
  BY DEF DealsInv, DealsTypeOK
<1>2. PICK due : due = PreviewDistributorSettlement(d, m)
  OBVIOUS
<1>3. /\ due \subseteq DOMAIN bills
      /\ \A b \in due : bills[b].dealer = d /\ bills[b].paid = 0 /\ m \in {AnyMonth, MonthOf(bills[b].made)}
  BY <1>2 DEF PreviewDistributorSettlement, distributorSettlementMonthRange
<1>4. PICK n \in Nat \ {0} : n = Len(settlements) + 1
  BY <1>1
<1>5. PICK z : z = [dealer |-> d, month |-> m, count |-> Cardinality(due), total |-> Revenue(due)]
  OBVIOUS
<1>6. /\ bills' = [b \in DOMAIN bills |-> IF b \in due THEN [bills[b] EXCEPT !.paid = n] ELSE bills[b]]
      /\ settlements' = Append(settlements, z) /\ UNCHANGED <<visits, answers>>
      /\ deals' = [s \in Deals |-> [deals[s] EXCEPT !.settled = @ \/ deals[s].origin \in due]]
  BY <1>2, <1>4, <1>5 DEF SettleDistributorOrders
<1>7. /\ bills' \in Seq(BillT) /\ DOMAIN bills' = DOMAIN bills
      /\ \A b \in DOMAIN bills : SameOrder(bills[b], bills'[b]) /\ bills'[b].paid = IF b \in due THEN n ELSE bills[b].paid
  BY <1>3, <1>6, SettleBills
<1>8. /\ deals' \in Seq(DealT) /\ Deals' = Deals
      /\ \A s \in Deals : /\ deals'[s].dealer = deals[s].dealer /\ deals'[s].origin = deals[s].origin
                          /\ (deals'[s].settled <=> deals[s].settled \/ deals[s].origin \in due)
                          /\ (deals'[s].amended <=> deals[s].amended) /\ deals'[s].expiry = deals[s].expiry
                          /\ Handed(deals'[s])
  BY <1>6, SettleDeals
<1>9. IsFiniteSet(due) /\ Cardinality(due) \in Nat /\ Revenue(due) \in Nat
  BY <1>3, RevenueIs DEF DealsInv
<1>10. z \in SettlementT /\ z.dealer = d /\ z.month = m /\ z.count = Cardinality(due) /\ z.total = Revenue(due)
  <2>1. PICK c \in Nat : c = Cardinality(due)
    BY <1>9
  <2>2. PICK t \in Nat : t = Revenue(due)
    BY <1>9
  <2>3. z = [dealer |-> d, month |-> m, count |-> c, total |-> t]
    BY <1>5, <2>1, <2>2
  <2> QED BY <2>1, <2>2, <2>3 DEF SettlementT
<1>11. /\ settlements' \in Seq(SettlementT) /\ DOMAIN settlements' = (DOMAIN settlements) \cup {n} /\ n \notin DOMAIN settlements
       /\ \A i \in DOMAIN settlements : settlements'[i] = settlements[i] /\ i \in Nat \ {0}
       /\ settlements'[n] = z /\ Len(settlements') = n
  BY <1>1, <1>4, <1>6, <1>10, Appended
<1>12. DealsTypeOK'
  <2>1. visits' = [v \in Callers |-> visits'[v]] /\ \A v \in Callers : VisitOK(Deals', visits'[v])
    BY <1>6, <1>8, VisitsMore
  <2> QED BY <1>1, <1>7, <1>8, <1>11, <2>1 DEF DealsTypeOK, VisitOK
<1>13. Owned'
  <2>1. ASSUME NEW b \in DOMAIN bills PROVE bills'[b].deal \in Deals /\ deals'[bills'[b].deal].dealer = bills'[b].dealer
    <3>1. bills[b].deal \in Deals /\ deals[bills[b].deal].dealer = bills[b].dealer
      BY DEF DealsInv, Owned
    <3>2. bills'[b].deal = bills[b].deal /\ bills'[b].dealer = bills[b].dealer
      BY <1>7 DEF SameOrder
    <3> QED BY <1>8, <3>1, <3>2
  <2> QED BY <1>7, <1>8, <2>1 DEF Owned
<1>14. Origins'
  <2>1. ASSUME NEW t \in Deals
        PROVE  /\ deals'[t].origin \in DOMAIN bills /\ bills'[deals'[t].origin].deal = t /\ bills'[deals'[t].origin].key = NoKey
               /\ (deals'[t].settled <=> bills'[deals'[t].origin].paid # 0)
               /\ \A b \in DOMAIN bills : bills'[b].deal = t => deals'[t].origin <= b
    <3>1. PICK o : o = deals[t].origin
      OBVIOUS
    <3>2. /\ o \in DOMAIN bills /\ bills[o].deal = t /\ bills[o].key = NoKey
          /\ (deals[t].settled <=> bills[o].paid # 0) /\ \A b \in DOMAIN bills : bills[b].deal = t => o <= b
      BY <3>1 DEF DealsInv, Origins, BillsOf
    <3>3. bills'[o].deal = t /\ bills'[o].key = NoKey /\ bills'[o].paid = IF o \in due THEN n ELSE bills[o].paid
      BY <1>7, <3>2 DEF SameOrder
    <3>4. \A b \in DOMAIN bills : bills'[b].deal = t => o <= b
      BY <1>7, <3>2 DEF SameOrder
    <3>5. deals'[t].origin = o /\ (deals'[t].settled <=> deals[t].settled \/ o \in due)
      BY <1>8, <3>1
    <3>6. deals'[t].settled <=> bills'[o].paid # 0
      BY <3>2, <3>3, <3>5
    <3> QED BY <3>2, <3>3, <3>4, <3>5, <3>6
  <2> QED BY <1>7, <1>8, <2>1 DEF Origins, BillsOf
<1>15. PaidKnown'
  <2>1. ASSUME NEW b \in DOMAIN bills PROVE bills'[b].paid \in 0 .. n
    <3>1. bills[b].paid \in 0 .. Len(settlements) /\ Len(settlements) \in Nat
      BY <1>1 DEF DealsInv, PaidKnown
    <3>2. bills[b].paid \in 0 .. n
      BY <1>4, <3>1
    <3>3. bills'[b].paid = n \/ bills'[b].paid = bills[b].paid
      BY <1>7
    <3> QED BY <3>2, <3>3
  <2> QED BY <1>7, <1>11, <2>1 DEF PaidKnown
<1>16. BooksTrue'
  <2>1. ASSUME NEW i \in DOMAIN settlements' , NEW S, S = {b \in DOMAIN bills' : bills'[b].paid = i}
        PROVE  /\ Cardinality(S) = settlements'[i].count
               /\ SumFunctionOnSet([b \in DOMAIN bills' |-> Prices[bills'[b].period]], S) = settlements'[i].total
               /\ \A b \in S : bills'[b].dealer = settlements'[i].dealer /\ settlements'[i].month \in {AnyMonth, MonthOf(bills'[b].made)}
    <3>1. \A b \in DOMAIN bills : bills'[b].period = bills[b].period /\ bills'[b].dealer = bills[b].dealer /\ bills'[b].made = bills[b].made
      BY <1>7 DEF SameOrder
    <3>2. SumFunctionOnSet([b \in DOMAIN bills' |-> Prices[bills'[b].period]], S) = Revenue(S)
      BY <1>7, <2>1, <3>1, RevenueSame DEF DealsInv
    <3>3. CASE i = n
      <4>1. \A b \in DOMAIN bills : bills[b].paid # n
        <5> SUFFICES ASSUME NEW b \in DOMAIN bills PROVE bills[b].paid # n
          OBVIOUS
        <5>1. bills[b].paid \in 0 .. Len(settlements) /\ Len(settlements) \in Nat
          BY <1>1 DEF DealsInv, PaidKnown
        <5> QED BY <1>4, <5>1
      <4>2. S = due
        BY <1>3, <1>7, <2>1, <3>3, <4>1
      <4>3. settlements'[i] = z
        BY <1>11, <3>3
      <4>4. \A b \in S : bills'[b].dealer = d /\ m \in {AnyMonth, MonthOf(bills'[b].made)}
        BY <1>3, <3>1, <4>2
      <4> QED BY <1>10, <3>2, <4>2, <4>3, <4>4
    <3>4. CASE i \in DOMAIN settlements
      <4>1. settlements'[i] = settlements[i] /\ i # n /\ i # 0
        BY <1>11, <3>4
      <4>2. S = PaidBy(i)
        BY <1>3, <1>7, <2>1, <4>1 DEF PaidBy
      <4>3. /\ Cardinality(PaidBy(i)) = settlements[i].count /\ Revenue(PaidBy(i)) = settlements[i].total
            /\ \A b \in PaidBy(i) : bills[b].dealer = settlements[i].dealer /\ settlements[i].month \in {AnyMonth, MonthOf(bills[b].made)}
        BY <3>4 DEF DealsInv, BooksTrue, InSettlement
      <4>4. \A b \in S : bills'[b].dealer = settlements[i].dealer /\ settlements[i].month \in {AnyMonth, MonthOf(bills'[b].made)}
        BY <3>1, <4>2, <4>3 DEF PaidBy
      <4> QED BY <3>2, <4>1, <4>2, <4>3, <4>4
    <3> QED BY <1>11, <3>3, <3>4
  <2> QED BY <2>1 DEF BooksTrue, PaidBy, Revenue, InSettlement
<1>17. KeysOnce'
  <2> SUFFICES ASSUME NEW b \in DOMAIN bills, NEW c \in DOMAIN bills, bills'[b].key # NoKey,
                      bills'[b].key = bills'[c].key, bills'[b].dealer = bills'[c].dealer
               PROVE  b = c
    BY <1>7 DEF KeysOnce
  <2>1. bills[b].key # NoKey /\ bills[b].key = bills[c].key /\ bills[b].dealer = bills[c].dealer
    BY <1>7 DEF SameOrder
  <2> QED BY <2>1 DEF DealsInv, KeysOnce
<1>18. Answered'
  <2>1. ASSUME NEW a \in answers PROVE a.key \in RenewKeys /\ \E b \in DOMAIN bills : AnswerOK(a, bills'[b])
    <3>1. PICK b \in DOMAIN bills : AnswerOK(a, bills[b])
      BY DEF DealsInv, Answered
    <3>2. AnswerOK(a, bills'[b])
      BY <1>7, <3>1 DEF AnswerOK, SameOrder
    <3> QED BY <3>2 DEF DealsInv, Answered
  <2> QED BY <1>6, <1>7, <2>1 DEF Answered, AnswerOK
<1>19. TermsSound'
  <2>1. ASSUME NEW b \in DOMAIN bills PROVE TermSound(bills'[b])
    <3>1. TermSound(bills[b]) /\ SameOrder(bills[b], bills'[b])
      BY <1>7 DEF DealsInv, TermsSound
    <3> QED BY <3>1, Zenon DEF TermSound, SameOrder
  <2> QED BY <1>7, <2>1 DEF TermsSound, TermSound
<1>20. ChainSound'
  <2>1. ASSUME NEW t \in Deals, NEW e, e = deals'[t].expiry, ~deals'[t].amended PROVE ChainOf(t, e)'
    <3>0. PICK B : B = {b \in DOMAIN bills' : bills'[b].deal = t}
      OBVIOUS
    <3>1. B = BillsOf(t)
      BY <1>7, <3>0 DEF BillsOf, SameOrder
    <3>2. /\ B \subseteq DOMAIN bills /\ Max(B) \in B
          /\ \A b \in B : bills[b].key # NoKey => Max({c \in B : c < b}) \in B
      BY <3>1, OrdersOf DEF LastBill, Earlier
    <3>3. ChainOf(t, deals[t].expiry) /\ deals'[t].expiry = deals[t].expiry
      BY <1>8, <2>1 DEF DealsInv, ChainSound
    <3>4. /\ deals[t].expiry = bills[Max(B)].after
          /\ \A b \in B : bills[b].key # NoKey => bills[b].before = bills[Max({c \in B : c < b})].after
      BY <3>1, <3>3 DEF ChainOf, LastBill, Earlier
    <3>5. \A b \in B : bills'[b].after = bills[b].after /\ bills'[b].before = bills[b].before /\ bills'[b].key = bills[b].key
      BY <1>7, <3>2 DEF SameOrder
    <3>6. e = bills'[Max(B)].after
      BY <2>1, <3>2, <3>3, <3>4, <3>5
    <3>7. ASSUME NEW b \in B, bills'[b].key # NoKey PROVE bills'[b].before = bills'[Max({c \in B : c < b})].after
      <4>1. PICK c \in B : c = Max({x \in B : x < b})
        BY <3>2, <3>5, <3>7
      <4>2. bills[b].before = bills[c].after
        BY <3>4, <3>5, <3>7, <4>1
      <4> QED BY <3>5, <4>1, <4>2
    <3> QED BY <3>0, <3>6, <3>7 DEF ChainOf, LastBill, BillsOf, Earlier
  <2> QED BY <1>8, <2>1 DEF ChainSound, ChainOf, LastBill, BillsOf, Earlier
<1>21. AllHanded'
  BY <1>8 DEF AllHanded, Handed
<1> QED BY <1>12, <1>13, <1>14, <1>15, <1>16, <1>17, <1>18, <1>19, <1>20, <1>21 DEF DealsInv

LEMMA DealsBegin == DistributorsInit /\ day = 0 => DealsInv
<1> SUFFICES ASSUME DistributorsInit, day = 0 PROVE DealsInv
  OBVIOUS
<1>1. bills = <<>> /\ deals = <<>> /\ settlements = <<>> /\ answers = {} /\ visits = [v \in Callers |-> Away]
  BY DEF DistributorsInit
<1>2. DOMAIN bills = {} /\ Deals = {} /\ DOMAIN settlements = {}
  BY <1>1 DEF Deals
<1>3. DealsTypeOK
  <2>1. bills \in Seq(BillT) /\ deals \in Seq(DealT) /\ settlements \in Seq(SettlementT)
    BY <1>1
  <2>2. visits = [v \in Callers |-> visits[v]] /\ \A v \in Callers : VisitOK(Deals, visits[v])
    BY <1>1 DEF VisitOK
  <2> QED BY <2>1, <2>2 DEF DealsTypeOK
<1>4. Owned /\ Origins /\ PaidKnown /\ BooksTrue /\ KeysOnce /\ TermsSound /\ ChainSound /\ AllHanded
  BY <1>2 DEF Owned, Origins, PaidKnown, BooksTrue, KeysOnce, TermsSound, ChainSound, AllHanded
<1>5. Answered
  BY <1>1 DEF Answered
<1> QED BY <1>3, <1>4, <1>5 DEF DealsInv

LEMMA SellingKeeps == ASSUME DealsInv, Selling, day' = day PROVE DealsInv'
<1>1. ASSUME NEW d \in Dealers, NEW p \in DOMAIN Prices, createDistributorOrder(d, p) \/ legacyCreateOrder(d, p) PROVE DealsInv'
  <2>1. CreateDistributorOrder(d, p)
    BY <1>1 DEF createDistributorOrder, legacyCreateOrder
  <2> QED BY <2>1, CreateKeeps
<1>2. ASSUME NEW d \in Dealers, NEW s \in Deals, NEW p \in DOMAIN Prices, NEW k \in RenewKeys,
             renewDistributorOrder(d, s, p, k) \/ legacyRenewDistributorOrder(d, s, p, k)
      PROVE  DealsInv'
  <2>1. RenewDistributorOrder(d, s, p, k)
    BY <1>2 DEF renewDistributorOrder, legacyRenewDistributorOrder
  <2> QED BY <2>1, RenewKeeps
<1>3. ASSUME NEW d \in Dealers, NEW s \in Deals, legacyCloseDistributorDelivery(d, s) PROVE DealsInv'
  <2>1. CloseDistributorDelivery(d, s)
    BY <1>3 DEF legacyCloseDistributorDelivery
  <2> QED BY <2>1, CloseKeeps
<1> QED BY <1>1, <1>2, <1>3 DEF Selling

LEMMA SettlingKeeps == ASSUME DealsInv, Settling, day' = day PROVE DealsInv'
<1>1. PICK d \in Dealers, m \in {AnyMonth} \cup 0 .. MonthOf(day) : SettleDistributorOrders(d, m)
  BY DEF Settling, settleAdminDistributorOrders, legacyAdminSettleDistributorOrders
<1>2. m \in Int
  <2>1. MonthOf(day) \in Nat
    BY MonthFound DEF DealsInv, DealsTypeOK
  <2> QED BY <1>1, <2>1 DEF AnyMonth
<1> QED BY <1>1, <1>2, SettleKeeps

LEMMA HandingKeeps == ASSUME DealsInv, Handing, day' = day PROVE DealsInv'
<1>1. ASSUME NEW s \in Deals, claimDistributorSubscription(s) \/ recordConnection(s) PROVE DealsInv'
  BY <1>1, ClaimKeeps, ConnectKeeps DEF claimDistributorSubscription
<1>2. ASSUME NEW v \in Callers, NEW s \in Deals, NEW h \in Handsets,
             serveClientSubscription(v, s, h) \/ legacyClientAppConfigV1(v, s, h)
      PROVE  DealsInv'
  <2>1. admitSubscriptionDelivery(v, s, h) \/ MarkDistributorSubscriptionClaimed(v) \/ MarkDistributorConfigIssued(v)
    BY <1>2 DEF legacyClientAppConfigV1, serveClientSubscription, markSubscriptionConfigIssued
  <2> QED BY <2>1, AdmitKeeps, MarkClaimedKeeps, MarkIssuedKeeps
<1>3. ASSUME NEW v \in Callers, serveFails(v) PROVE DealsInv'
  BY <1>3, FailKeeps
<1>4. ASSUME NEW s \in Deals, NEW h \in Handsets,
             deleteAdminDistributorHWIDDevice(s, h) \/ legacyAdminDeleteDistributorHWIDDevice(s, h)
      PROVE  DealsInv'
  BY <1>4, RemoveDeviceKeeps DEF deleteAdminDistributorHWIDDevice, legacyAdminDeleteDistributorHWIDDevice
<1>5. ASSUME NEW s \in Deals, NEW on \in BOOLEAN, NEW n \in 1 .. Cardinality(Handsets),
             updateAdminDistributorHWID(s, on, n) \/ legacyAdminUpdateDistributorHWID(s, on, n)
      PROVE  DealsInv'
  <2>1. UpdateDistributorHWIDSettings(s, on, n)
    BY <1>5 DEF updateAdminDistributorHWID, legacyAdminUpdateDistributorHWID
  <2>2. n \in Int
    OBVIOUS
  <2> QED BY <2>1, <2>2, LimitKeeps
<1> QED BY <1>1, <1>2, <1>3, <1>4, <1>5 DEF Handing

LEMMA ManagingKeeps == ASSUME DealsInv, Managing, day' = day PROVE DealsInv'
<1>1. ASSUME NEW s \in Deals, NEW e \in {Never, day, day + 2},
             updateAdminDistributorEntitlement(s, e) \/ legacyAdminUpdateDistributorEntitlement(s, e)
      PROVE  DealsInv'
  <2>1. UpdateDistributorEntitlement(s, e)
    BY <1>1 DEF updateAdminDistributorEntitlement, legacyAdminUpdateDistributorEntitlement
  <2>2. e \in Day
    BY DEF Day, DealsInv, DealsTypeOK
  <2> QED BY <2>1, <2>2, AmendKeeps
<1>2. ASSUME NEW d \in Dealers \cup {Clerk}, NEW x, UpdateDealer(d, x) PROVE DealsInv'
  <2>1. UNCHANGED <<bills, deals, settlements, visits, answers>>
    BY <1>2 DEF UpdateDealer
  <2> QED BY <2>1, OtherEditsKeep
<1>3. ASSUME NEW o \in Offers, UpdateOffer(o) PROVE DealsInv'
  <2>1. UNCHANGED <<bills, deals, settlements, visits, answers>>
    BY <1>3 DEF UpdateOffer
  <2> QED BY <2>1, OtherEditsKeep
<1> QED BY <1>1, <1>2, <1>3 DEF Managing

LEMMA DealsStep ==
    ASSUME DealsInv,
           [((Selling \/ Settling \/ Handing \/ Managing) /\ UNCHANGED trafficVars) \/ Tomorrow]_<<trafficVars, distributorVars>>
    PROVE  DealsInv'
<1>1. CASE (Selling \/ Settling \/ Handing \/ Managing) /\ UNCHANGED trafficVars
  <2>1. day' = day
    BY <1>1 DEF trafficVars
  <2> QED BY <1>1, <2>1, SellingKeeps, SettlingKeeps, HandingKeeps, ManagingKeeps
<1>2. CASE Tomorrow
  <2>1. day' = day + 1 /\ UNCHANGED <<bills, deals, settlements, visits, answers>>
    BY <1>2 DEF Tomorrow, distributorVars
  <2> QED BY <2>1, OtherEditsKeep
<1>3. CASE UNCHANGED <<trafficVars, distributorVars>>
  <2>1. day' = day /\ UNCHANGED <<bills, deals, settlements, visits, answers>>
    BY <1>3 DEF trafficVars, distributorVars
  <2> QED BY <2>1, OtherEditsKeep
<1> QED BY <1>1, <1>2, <1>3

\* The distributors' trade (distributor_operations.go, distributors.go, subscription_admission.go):
\* whatever is sold, renewed, settled, handed over and edited, in whatever order, a settlement's
\* answer is what it settled and no order is in two; an answered key is one renewal; the terms of a
\* subscription nobody edited follow on each other; and a link opens at most once.
THEOREM DealsStaySound == DistributorsSpec => []DealsSound
<1>1. DistributorsInit /\ day = 0 => DealsInv
  BY DealsBegin
<1>2. DealsInv /\ [((Selling \/ Settling \/ Handing \/ Managing) /\ UNCHANGED trafficVars) \/ Tomorrow]_<<trafficVars, distributorVars>>
      => DealsInv'
  BY DealsStep
<1>3. DealsInv => DealsSound
  BY DealsInvSettled, DealsInvRenewals, DealsInvHanded DEF DealsSound
<1> QED BY <1>1, <1>2, <1>3, PTL DEF DistributorsSpec

------------------------------------------------------------------------------
(* Devices: the invariant.  An operation counts a user from the moment it has reserved the write,    *)
(* and tallies the user once it has read the entries.  A user is stirred while a change is still to  *)
(* be counted: an operation is going to, a flush is put off, or an operation dropped it.             *)
Counting(w, u) == w.at \in {"defer", "list", "clean", "expire", "write", "inactive", "flushed"} /\ u \in w.who
Tallying(w, u) == w.at \in {"clean", "expire", "write", "inactive", "flushed"} /\ u \in w.who
Upcoming(w, u) ==
    \/ w.at \in {"script", "reserve", "list", "defer"} /\ u \in w.who
    \/ w.at = "defer" /\ u \in w.late
Marked(w, u) == <<"pending", u>> \in w.flush \/ <<"expiry", u>> \in w.flush

DeviceEntry == [node : Relays, phone : Phones, seen : Nat]
Loads(w) ==
    /\ {"at", "node", "gen", "clear", "todo", "who", "now"} \subseteq DOMAIN w
    /\ w.node \in Relays /\ w.who \subseteq Guests /\ DOMAIN w.todo \subseteq Guests
    /\ \A u \in DOMAIN w.todo : w.todo[u] \subseteq Phones /\ (w.clear => w.todo[u] = {})
    /\ w.at = "script" /\ ~w.clear => DOMAIN w.todo \subseteq w.who
OperationOK(w) ==
    \/ w.at = "ready"
    \/ w.at \in {"scan", "script"} /\ Loads(w)
    \/ w.at = "wipe" /\ w.user \in Guests /\ w.who = {w.user}
    \/ w.at = "reserve" /\ w.who \subseteq Guests
    \/ /\ w.at \in {"defer", "list", "clean", "expire", "write", "inactive", "flushed"}
       /\ w.who \subseteq Guests /\ {"at", "who", "now", "flush"} \subseteq DOMAIN w
       /\ w.at \in {"clean", "expire", "write", "inactive"} => {"count", "next"} \subseteq DOMAIN w
OnTime(w, now) == w.at # "ready" => w.now \in Nat /\ w.now <= now /\ now <= w.now + Patience

EntriesOf(D) == D \subseteq DeviceEntry /\ \A e, f \in D : e.node = f.node /\ e.phone = f.phone => e = f
EntriesTyped(u) == EntriesOf(devices[u])
SummaryTyped(u) ==
    throttled[u] \in Nat /\ pending[u] \in Nat \cup {Unset} /\ expiring[u] \in Nat \cup {Unset}
IndexTyped == DOMAIN nodeUsers = Relays /\ \A n \in Relays : nodeUsers[n] \subseteq Guests
DevicesTyped ==
    /\ IndexTyped
    /\ tick \in Nat /\ DOMAIN panels = Panels /\ DOMAIN devices = Guests
    /\ \A u \in Guests : EntriesTyped(u) /\ SummaryTyped(u)
    /\ \A p \in Panels : OperationOK(panels[p]) /\ OnTime(panels[p], tick)

\* What the operation of a panel knows of a user.
WriteTaken(p, u) == Counting(panels[p], u) => throttled[u] >= panels[p].now + Throttle
Uncounted(u) == \A q \in Panels : ~Counting(panels[q], u)
Outrun(p, u) == throttled[u] > panels[p].now + Throttle /\ Uncounted(u) /\ (expiring[u] = Unset \/ expiring[u] > panels[p].now)
PutOff(p, u) ==
    /\ <<"pending", u>> \in panels[p].flush => pending[u] = Unset \/ pending[u] > panels[p].now
    /\ <<"expiry", u>> \in panels[p].flush => pending[u] > panels[p].now \/ Outrun(p, u)
FlushCovered(p, u) ==
    /\ panels[p].at = "reserve" /\ Marked(panels[p], u) => u \in panels[p].who
    /\ panels[p].at = "defer" /\ Marked(panels[p], u) => u \in panels[p].who \cup panels[p].late
    /\ panels[p].at \in {"list", "clean", "expire", "write", "inactive", "flushed"} /\ u \notin panels[p].who => PutOff(p, u)
TallyStored(p, u) ==
    Tallying(panels[p], u) =>
        /\ panels[p].next[u] \in Nat \cup {Unset} /\ (panels[p].next[u] = Unset \/ panels[p].next[u] > panels[p].now)
        /\ panels[p].count[u] > 0 => panels[p].next[u] # Unset
        /\ panels[p].at \in {"write", "inactive", "flushed"} /\ panels[p].next[u] # Unset =>
              expiring[u] = panels[p].next[u] \/ pending[u] > panels[p].now
        /\ panels[p].at \in {"inactive", "flushed"} => online[u] = panels[p].count[u]
        /\ panels[p].at = "flushed" /\ panels[p].next[u] = Unset => expiring[u] = Unset

\* A tally of entries is right at a moment when it is the count of those online then, and the time
\* it names is not after the end of any of them.
LiveOf(D, now) == {e \in D : e.seen > now - Window}
RightAt(D, c, t, now) ==
    /\ c = Cardinality({e.phone : e \in LiveOf(D, now)})
    /\ t = Unset => LiveOf(D, now) = {}
    /\ t # Unset => \A e \in LiveOf(D, now) : t <= e.seen + Window
AnyUpcoming(u) == \E p \in Panels : Upcoming(panels[p], u)
StirredSince(u, now) == u \in dropped \/ pending[u] > now \/ AnyUpcoming(u)
Spared(w, u, D) == \A e \in LiveOf(D, w.now) : [node |-> e.node, phone |-> e.phone] \notin w.stale[u]
TallyRight(p, u) ==
    Tallying(panels[p], u) /\ ~StirredSince(u, panels[p].now) =>
        /\ RightAt(devices[u], panels[p].count[u], panels[p].next[u], panels[p].now)
        /\ panels[p].at = "clean" => Spared(panels[p], u, devices[u])

OwnSound(p, u) == WriteTaken(p, u) /\ FlushCovered(p, u) /\ TallyStored(p, u) /\ TallyRight(p, u)

\* What the database and the flushes to come say of a user.
Stirred(u) == u \in dropped \/ pending[u] # Unset \/ AnyUpcoming(u)
SummaryRight(u) ==
    ~Stirred(u) /\ (\A p \in Panels : ~Tallying(panels[p], u)) =>
        \E n \in Nat : n <= tick /\ RightAt(devices[u], online[u], expiring[u], n)
FlushAwaits(u) == online[u] > 0 => pending[u] # Unset \/ expiring[u] # Unset
CountedOnce(u) == \A p, q \in Panels : Counting(panels[p], u) /\ Counting(panels[q], u) => p = q

UserSound(u) == CountedOnce(u) /\ SummaryRight(u) /\ FlushAwaits(u) /\ \A p \in Panels : OwnSound(p, u)
DevicesInv == DevicesTyped /\ \A u \in Guests : UserSound(u)

-----------------------------------------------------------------------------
(* Devices: a step of one operation, as the others see it.                                           *)
OnlyPanel(p) == (\A q \in Panels : q # p => panels'[q] = panels[q]) /\ tick' = tick

\* What a step may do to a user its operation does not count.
Mild(p, u) ==
    /\ OnlyPanel(p) /\ online'[u] = online[u]
    /\ devices'[u] = devices[u] \/ AnyUpcoming(u)'
    /\ pending'[u] = pending[u] \/ (pending'[u] \in Nat /\ pending'[u] > tick)
    /\ expiring'[u] = expiring[u] \/ (expiring'[u] = Unset /\ pending'[u] > expiring[u])
    /\ throttled'[u] = throttled[u] \/ throttled[u] <= tick
    /\ Counting(panels'[p], u) => throttled[u] <= tick
    /\ ~Tallying(panels'[p], u)
    /\ u \in dropped => u \in dropped'
    /\ AnyUpcoming(u) => AnyUpcoming(u)' \/ u \in dropped' \/ pending'[u] > tick

LEMMA CountedLate ==
    ASSUME DevicesTyped, NEW u \in Guests, UserSound(u), NEW p \in Panels, Counting(panels[p], u)
    PROVE  throttled[u] > tick /\ panels[p].now \in Nat /\ panels[p].now <= tick /\ tick < panels[p].now + Throttle
<1>1. throttled[u] >= panels[p].now + Throttle
  BY DEF UserSound, OwnSound, WriteTaken
<1>2. panels[p].now \in Nat /\ panels[p].now <= tick /\ tick <= panels[p].now + Patience
  BY DEF DevicesTyped, OnTime, Counting
<1> QED BY <1>1, <1>2, DeviceConstants DEF DevicesTyped, SummaryTyped

LEMMA MildOwn ==
    ASSUME DevicesTyped, NEW u \in Guests, UserSound(u), NEW p \in Panels, ~Counting(panels[p], u), Mild(p, u),
           NEW q \in Panels, q # p
    PROVE  OwnSound(q, u)'
<1>0. PICK w : w = panels[q]
  OBVIOUS
<1>1. panels'[q] = w /\ tick' = tick
  BY <1>0 DEF Mild, OnlyPanel
<1>2. Throttle \in Nat /\ (w.at # "ready" => w.now \in Nat /\ w.now <= tick /\ tick < w.now + Throttle)
  BY <1>0, DeviceConstants DEF DevicesTyped, OnTime
<1>3. OwnSound(q, u)
  BY DEF UserSound
<1>4. Counting(w, u) => throttled[u] > tick
  BY <1>0, CountedLate
<1>5. WriteTaken(q, u)'
  BY <1>0, <1>1, <1>3, <1>4 DEF OwnSound, WriteTaken, Mild, DevicesTyped, SummaryTyped
<1>6. FlushCovered(q, u)'
  <2>1. SUFFICES ASSUME w.at \in {"list", "clean", "expire", "write", "inactive", "flushed"}, u \notin w.who PROVE PutOff(q, u)'
    BY <1>0, <1>1, <1>3 DEF OwnSound, FlushCovered
  <2>2. PutOff(q, u)
    BY <2>1, <1>0, <1>3 DEF OwnSound, FlushCovered
  <2>3. Throttle \in Nat /\ w.now \in Nat /\ w.now <= tick /\ tick < w.now + Throttle
    BY <1>2, <2>1
  <2>4. <<"pending", u>> \in w.flush => pending'[u] = Unset \/ pending'[u] > w.now
    BY <1>0, <2>2, <2>3 DEF PutOff, Mild, DevicesTyped, SummaryTyped, Unset
  <2>5. pending[u] > w.now => pending'[u] > w.now
    BY <2>3 DEF Mild, DevicesTyped, SummaryTyped, Unset
  <2>6. Outrun(q, u) => Outrun(q, u)'
    <3>1. SUFFICES ASSUME Outrun(q, u) PROVE Outrun(q, u)'
      OBVIOUS
    <3>2. throttled[u] > tick /\ throttled'[u] = throttled[u]
      BY <3>1, <1>0, <2>3 DEF Outrun, Mild, DevicesTyped, SummaryTyped
    <3>3. expiring'[u] = Unset \/ expiring'[u] > w.now
      BY <3>1, <1>0 DEF Outrun, Mild
    <3>4. \A k \in Panels : ~Counting(panels'[k], u)
      BY <3>1, <3>2 DEF Outrun, Uncounted, Mild, OnlyPanel, DevicesTyped, SummaryTyped
    <3> QED BY <3>1, <3>2, <3>3, <3>4, <1>0, <1>1 DEF Outrun, Uncounted
  <2> QED BY <1>0, <1>1, <2>2, <2>4, <2>5, <2>6 DEF PutOff
<1>7. TallyStored(q, u)'
  <2>1. SUFFICES ASSUME Tallying(w, u) PROVE TallyStored(q, u)'
    BY <1>1 DEF TallyStored
  <2>2. w.now \in Nat /\ w.now <= tick
    BY <1>2, <2>1 DEF Tallying
  <2>3. w.next[u] \in Nat \cup {Unset} /\ (w.next[u] = Unset \/ w.next[u] > w.now) /\ (w.count[u] > 0 => w.next[u] # Unset)
    BY <2>1, <1>0, <1>3 DEF OwnSound, TallyStored
  <2>4. w.at \in {"write", "inactive", "flushed"} /\ w.next[u] # Unset => expiring'[u] = w.next[u] \/ pending'[u] > w.now
    <3>1. SUFFICES ASSUME w.at \in {"write", "inactive", "flushed"}, w.next[u] # Unset
                   PROVE  expiring'[u] = w.next[u] \/ pending'[u] > w.now
      OBVIOUS
    <3>2. expiring[u] = w.next[u] \/ pending[u] > w.now
      BY <3>1, <2>1, <1>0, <1>3 DEF OwnSound, TallyStored
    <3> QED BY <3>1, <3>2, <2>2, <2>3 DEF Mild, DevicesTyped, SummaryTyped, Unset
  <2>5. w.at \in {"inactive", "flushed"} => online'[u] = w.count[u]
    BY <2>1, <1>0, <1>3 DEF OwnSound, TallyStored, Mild
  <2>6. w.at = "flushed" /\ w.next[u] = Unset => expiring'[u] = Unset
    BY <2>1, <1>0, <1>3 DEF OwnSound, TallyStored, Mild
  <2> QED BY <1>1, <2>3, <2>4, <2>5, <2>6 DEF TallyStored
<1>8. TallyRight(q, u)'
  <2>1. SUFFICES ASSUME Tallying(w, u), ~StirredSince(u, w.now)' PROVE TallyRight(q, u)'
    BY <1>1 DEF TallyRight
  <2>2. w.now \in Nat /\ w.now <= tick
    BY <1>2, <2>1 DEF Tallying
  <2>3. u \notin dropped' /\ ~(pending'[u] > w.now) /\ ~AnyUpcoming(u)'
    BY <2>1 DEF StirredSince
  <2>4. ~(pending'[u] > tick)
    BY <2>2, <2>3 DEF Mild, DevicesTyped, SummaryTyped, Unset
  <2>5. pending'[u] = pending[u] /\ devices'[u] = devices[u] /\ u \notin dropped /\ ~AnyUpcoming(u)
    BY <2>3, <2>4 DEF Mild
  <2>6. ~StirredSince(u, w.now)
    BY <2>3, <2>5 DEF StirredSince
  <2>7. RightAt(devices[u], w.count[u], w.next[u], w.now) /\ (w.at = "clean" => Spared(w, u, devices[u]))
    BY <2>1, <2>6, <1>0, <1>3 DEF OwnSound, TallyRight
  <2> QED BY <1>1, <2>5, <2>7 DEF TallyRight
<1> QED BY <1>5, <1>6, <1>7, <1>8 DEF OwnSound

LEMMA MildKeeps ==
    ASSUME DevicesTyped, NEW u \in Guests, UserSound(u), NEW p \in Panels, ~Counting(panels[p], u), Mild(p, u), OwnSound(p, u)'
    PROVE  UserSound(u)'
<1>1. \A q \in Panels : OwnSound(q, u)'
  BY MildOwn
<1>2. CountedOnce(u)'
  <2>1. SUFFICES ASSUME NEW q \in Panels, NEW r \in Panels, q # r, Counting(panels'[q], u), Counting(panels'[r], u) PROVE FALSE
    BY DEF CountedOnce
  <2>2. ASSUME NEW k \in Panels, k # p, Counting(panels'[k], u) PROVE Counting(panels[k], u) /\ ~(throttled[u] <= tick)
    <3>1. Counting(panels[k], u)
      BY <2>2 DEF Mild, OnlyPanel
    <3> QED BY <3>1, CountedLate DEF DevicesTyped, SummaryTyped
  <2>3. CASE q = p
    BY <2>1, <2>2, <2>3 DEF Mild
  <2>4. CASE r = p
    BY <2>1, <2>2, <2>4 DEF Mild
  <2>5. CASE q # p /\ r # p
    <3>1. Counting(panels[q], u) /\ Counting(panels[r], u)
      BY <2>1, <2>2, <2>5
    <3> QED BY <3>1, <2>1 DEF UserSound, CountedOnce
  <2> QED BY <2>3, <2>4, <2>5
<1>3. SummaryRight(u)'
  <2>1. SUFFICES ASSUME ~Stirred(u)', \A q \in Panels : ~Tallying(panels'[q], u)
                 PROVE  \E n \in Nat : n <= tick' /\ RightAt(devices'[u], online'[u], expiring'[u], n)
    BY DEF SummaryRight
  <2>2. u \notin dropped' /\ pending'[u] = Unset /\ ~AnyUpcoming(u)'
    BY <2>1 DEF Stirred
  <2>3. pending'[u] = pending[u] /\ ~(pending'[u] > tick)
    BY <2>2 DEF Mild, DevicesTyped, SummaryTyped, Unset
  <2>4. devices'[u] = devices[u] /\ online'[u] = online[u] /\ u \notin dropped /\ ~AnyUpcoming(u) /\ tick' = tick
    BY <2>2, <2>3 DEF Mild, OnlyPanel
  <2>5. expiring'[u] = expiring[u]
    BY <2>2 DEF Mild, DevicesTyped, SummaryTyped, Unset
  <2>6. \A q \in Panels : ~Tallying(panels[q], u)
    BY <2>1 DEF Mild, OnlyPanel, Tallying, Counting
  <2>7. \E n \in Nat : n <= tick /\ RightAt(devices[u], online[u], expiring[u], n)
    BY <2>2, <2>3, <2>4, <2>6 DEF UserSound, SummaryRight, Stirred
  <2> QED BY <2>4, <2>5, <2>7
<1>4. FlushAwaits(u)'
  <2>1. SUFFICES ASSUME online'[u] > 0 PROVE pending'[u] # Unset \/ expiring'[u] # Unset
    BY DEF FlushAwaits
  <2>2. pending[u] # Unset \/ expiring[u] # Unset
    BY <2>1 DEF UserSound, FlushAwaits, Mild
  <2> QED BY <2>2 DEF Mild, DevicesTyped, SummaryTyped, Unset
<1> QED BY <1>1, <1>2, <1>3, <1>4 DEF UserSound

\* What a step may do to a user its operation counts, apart from striking off what was due.
Firm(p, u) ==
    /\ OnlyPanel(p) /\ throttled'[u] = throttled[u]
    /\ pending'[u] = pending[u] \/ (pending'[u] \in Nat /\ pending'[u] > tick)

\* While an operation counts a user no other does, so others only have their flushes to keep.
LEMMA CountedOthers ==
    ASSUME DevicesTyped, NEW u \in Guests, UserSound(u), NEW p \in Panels, Counting(panels[p], u), OnlyPanel(p),
           NEW q \in Panels, q # p
    PROVE  ~Counting(panels[q], u) /\ ~Counting(panels'[q], u) /\ ~Tallying(panels'[q], u) /\ ~Outrun(q, u)
<1>1. ~Counting(panels[q], u) /\ panels'[q] = panels[q]
  BY DEF UserSound, CountedOnce, OnlyPanel
<1> QED BY <1>1 DEF Tallying, Counting, Outrun, Uncounted

LEMMA CountedOwn ==
    ASSUME DevicesTyped, NEW u \in Guests, UserSound(u), NEW p \in Panels, Counting(panels[p], u), Firm(p, u),
           NEW q \in Panels, q # p
    PROVE  OwnSound(q, u)'
<1>0. PICK w : w = panels[q]
  OBVIOUS
<1>1. panels'[q] = w /\ tick' = tick /\ OnlyPanel(p)
  BY <1>0 DEF Firm, OnlyPanel
<1>2. ~Counting(w, u) /\ ~Tallying(w, u) /\ ~Outrun(q, u)
  BY <1>0, <1>1, CountedOthers
<1>3. FlushCovered(q, u)
  BY DEF UserSound, OwnSound
<1>4. FlushCovered(q, u)'
  <2>1. SUFFICES ASSUME w.at \in {"list", "clean", "expire", "write", "inactive", "flushed"}, u \notin w.who PROVE PutOff(q, u)'
    BY <1>0, <1>1, <1>3 DEF FlushCovered
  <2>2. PutOff(q, u)
    BY <2>1, <1>0, <1>3 DEF FlushCovered
  <2>3. w.now \in Nat /\ w.now <= tick
    BY <2>1, <1>0 DEF DevicesTyped, OnTime
  <2>4. pending'[u] = pending[u] \/ pending'[u] > w.now
    BY <2>3 DEF Firm, DevicesTyped, SummaryTyped
  <2> QED BY <2>2, <2>4, <1>0, <1>1, <1>2 DEF PutOff
<1> QED BY <1>1, <1>2, <1>4 DEF OwnSound, WriteTaken, TallyStored, TallyRight

LEMMA CountedKeeps ==
    ASSUME DevicesTyped, NEW u \in Guests, UserSound(u), NEW p \in Panels, Counting(panels[p], u), Firm(p, u),
           OwnSound(p, u)', SummaryRight(u)', FlushAwaits(u)'
    PROVE  UserSound(u)'
<1>1. \A q \in Panels : OwnSound(q, u)'
  BY CountedOwn
<1>2. CountedOnce(u)'
  BY CountedOthers DEF Firm, CountedOnce
<1> QED BY <1>1, <1>2 DEF UserSound

LEMMA GoesOnly ==
    ASSUME DOMAIN panels = Panels, NEW p \in Panels, NEW x, Goes(p, x), tick' = tick
    PROVE  OnlyPanel(p) /\ panels'[p] = x /\ DOMAIN panels' = Panels
BY DEF Goes, OnlyPanel

LEMMA TypesStand ==
    ASSUME DevicesTyped, NEW p \in Panels, OnlyPanel(p), DOMAIN panels' = Panels, DOMAIN devices' = Guests,
           OperationOK(panels'[p]), OnTime(panels'[p], tick), IndexTyped', \A u \in Guests : EntriesTyped(u)' /\ SummaryTyped(u)'
    PROVE  DevicesTyped'
<1>1. ASSUME NEW q \in Panels PROVE OperationOK(panels'[q]) /\ OnTime(panels'[q], tick')
  <2>1. CASE q = p
    BY <2>1 DEF OnlyPanel
  <2>2. CASE q # p
    BY <2>2 DEF OnlyPanel, DevicesTyped
  <2> QED BY <2>1, <2>2
<1>2. tick' \in Nat
  BY DEF DevicesTyped, OnlyPanel
<1> QED BY <1>1, <1>2 DEF DevicesTyped

\* Steps of an operation that has not begun to count: replacing, clearing, and the start of a flush.
Before == {"ready", "scan", "script", "wipe", "reserve"}
Prepares(p, u) ==
    /\ EntriesTyped(u)'
    /\ devices'[u] = devices[u] \/ Upcoming(panels'[p], u)
    /\ u \in dropped => u \in dropped'
    /\ Upcoming(panels[p], u) => Upcoming(panels'[p], u) \/ u \in dropped'
    /\ panels'[p].at = "reserve" /\ Marked(panels'[p], u) => u \in panels'[p].who

LEMMA PreparingKeeps ==
    ASSUME DevicesInv, NEW p \in Panels, OnlyPanel(p), DOMAIN panels' = Panels, DOMAIN devices' = Guests, UNCHANGED summaryVars, IndexTyped',
           panels[p].at \in Before, panels'[p].at \in Before, OperationOK(panels'[p]), OnTime(panels'[p], tick),
           \A u \in Guests : Prepares(p, u)
    PROVE  DevicesInv'
<1>1. DevicesTyped'
  <2>1. \A u \in Guests : EntriesTyped(u)' /\ SummaryTyped(u)'
    BY DEF Prepares, DevicesInv, DevicesTyped, SummaryTyped, summaryVars
  <2> QED BY <2>1, TypesStand DEF DevicesInv
<1>2. ASSUME NEW u \in Guests PROVE UserSound(u)'
  <2>1. ~Counting(panels[p], u) /\ ~Counting(panels'[p], u) /\ ~Tallying(panels'[p], u)
    BY DEF Before, Counting, Tallying
  <2>2. AnyUpcoming(u) => AnyUpcoming(u)' \/ u \in dropped'
    BY <1>2 DEF AnyUpcoming, Prepares, OnlyPanel
  <2>3. devices'[u] = devices[u] \/ AnyUpcoming(u)'
    BY <1>2 DEF AnyUpcoming, Prepares
  <2>4. Mild(p, u)
    BY <2>1, <2>2, <2>3 DEF Mild, Prepares, summaryVars
  <2>5. OwnSound(p, u)'
    BY <2>1 DEF OwnSound, WriteTaken, FlushCovered, TallyStored, TallyRight, Prepares, Before
  <2> QED BY <2>1, <2>4, <2>5, MildKeeps DEF DevicesInv
<1> QED BY <1>1, <1>2 DEF DevicesInv

LEMMA BegunOnTime == ASSUME DevicesTyped, NEW x, x.now = tick PROVE OnTime(x, tick)
BY DeviceConstants DEF OnTime, DevicesTyped

\* The start of an operation: nothing has changed yet.
LEMMA BeginKeeps ==
    ASSUME DevicesInv, NEW p \in Panels, NEW x, Begins(p, x), tick' = tick, UNCHANGED <<devices, nodeUsers, summaryVars, dropped>>,
           x.at \in Before, OperationOK(x), x.now = tick,
           \A u \in Guests : x.at = "reserve" /\ Marked(x, u) => u \in x.who
    PROVE  DevicesInv'
<1>1. DevicesTyped /\ DOMAIN panels = Panels /\ DOMAIN devices = Guests
  BY DEF DevicesInv, DevicesTyped
<1>2. OnlyPanel(p) /\ panels'[p] = x /\ DOMAIN panels' = Panels
  BY <1>1, GoesOnly DEF Begins
<1>3. panels[p].at = "ready"
  BY DEF Begins, Ready
<1>4. DOMAIN devices' = Guests
  BY <1>1
<1>5. ASSUME NEW u \in Guests PROVE Prepares(p, u)
  <2>1. ~Upcoming(panels[p], u) /\ EntriesTyped(u)'
    BY <1>1, <1>3 DEF Upcoming, DevicesTyped, EntriesTyped
  <2> QED BY <2>1, <1>2 DEF Prepares
<1>6. OnTime(x, tick)
  BY <1>1, BegunOnTime
<1>7. UNCHANGED summaryVars /\ IndexTyped'
  BY <1>1 DEF DevicesTyped, IndexTyped
<1> QED BY <1>2, <1>3, <1>4, <1>5, <1>6, <1>7, PreparingKeeps DEF Before

LEMMA ReplaceKeeps ==
    ASSUME DevicesInv, NEW p \in Panels, NEW n \in Relays, NEW us \in SUBSET Guests, NEW all \in BOOLEAN,
           NEW seen \in [us -> SUBSET Phones], ReplaceNodeDevices(p, n, seen, all)
    PROVE  DevicesInv'
<1>1. PICK g, at : g = generation'[n] /\ at = (IF all THEN "scan" ELSE "script")
  OBVIOUS
<1>2. PICK x : x = [at |-> at, node |-> n, gen |-> g, clear |-> FALSE, todo |-> seen, who |-> DOMAIN seen, now |-> tick]
  OBVIOUS
<1>3. Begins(p, x) /\ tick' = tick /\ UNCHANGED <<devices, nodeUsers, summaryVars, dropped>>
  BY <1>1, <1>2 DEF ReplaceNodeDevices, Called, entryVars
<1>4. x.at = at /\ x.now = tick /\ at \in {"scan", "script"}
  BY <1>1, <1>2
<1>5. Loads(x)
  BY <1>2 DEF Loads
<1>6. OperationOK(x)
  BY <1>4, <1>5 DEF OperationOK
<1> QED BY <1>3, <1>4, <1>6, BeginKeeps DEF Before

LEMMA ClearNodeKeeps ==
    ASSUME DevicesInv, NEW p \in Panels, NEW n \in Relays, ClearNodeDevices(p, n)
    PROVE  DevicesInv'
<1>1. PICK g, t : g = generation'[n] /\ t = [u \in {} |-> {}]
  OBVIOUS
<1>2. PICK x : x = [at |-> "scan", node |-> n, gen |-> g, clear |-> TRUE, todo |-> t, who |-> {}, now |-> tick]
  OBVIOUS
<1>3. Begins(p, x) /\ tick' = tick /\ UNCHANGED <<devices, nodeUsers, summaryVars, dropped>>
  BY <1>1, <1>2 DEF ClearNodeDevices, Called, entryVars
<1>4. x.at = "scan" /\ x.now = tick
  BY <1>2
<1>5. Loads(x)
  BY <1>1, <1>2 DEF Loads
<1>6. OperationOK(x)
  BY <1>4, <1>5 DEF OperationOK
<1> QED BY <1>3, <1>4, <1>6, BeginKeeps DEF Before

LEMMA ClearUserKeeps ==
    ASSUME DevicesInv, NEW p \in Panels, NEW u \in Guests, ClearUserDevices(p, u)
    PROVE  DevicesInv'
<1>1. PICK x : x = [at |-> "wipe", user |-> u, who |-> {u}, nodes |-> userNodes[u], now |-> tick]
  OBVIOUS
<1>2. Begins(p, x) /\ tick' = tick /\ UNCHANGED <<devices, nodeUsers, summaryVars, dropped>>
  BY <1>1 DEF ClearUserDevices, Called, entryVars
<1>3. x.at = "wipe" /\ x.now = tick /\ OperationOK(x)
  BY <1>1 DEF OperationOK
<1> QED BY <1>2, <1>3, BeginKeeps DEF Before

LEMMA FlushKeeps ==
    ASSUME DevicesInv, NEW p \in Panels, FlushPending(p)
    PROVE  DevicesInv'
<1>1. PICK late, over : late = DueBy(pending, tick) /\ over = DueBy(expiring, tick)
  OBVIOUS
<1>2. late \subseteq Guests /\ over \subseteq Guests /\ late \cup over # {}
  BY <1>1 DEF DueBy, FlushPending
<1>3. PICK f : f = {<<"pending", u>> : u \in late} \cup {<<"expiry", u>> : u \in over}
  OBVIOUS
<1>4. PICK x : x = [at |-> "reserve", who |-> late \cup over, now |-> tick, flush |-> f]
  OBVIOUS
<1>5. Begins(p, x) /\ tick' = tick /\ UNCHANGED <<devices, nodeUsers, summaryVars, dropped>>
  BY <1>1, <1>2, <1>3, <1>4 DEF FlushPending, Notify, entryVars, boundVars
<1>6. x.at = "reserve" /\ x.now = tick /\ OperationOK(x)
  BY <1>2, <1>4 DEF OperationOK
<1>7. ASSUME NEW u \in Guests, Marked(x, u) PROVE u \in x.who
  BY <1>7, <1>3, <1>4 DEF Marked
<1> QED BY <1>5, <1>6, <1>7, BeginKeeps DEF Before

Scanned(w, us, f) == [w EXCEPT !.at = "script", !.who = us, !.todo = f]
LEMMA ScannedIs ==
    ASSUME NEW w, Loads(w), NEW us, NEW f, NEW x, x = Scanned(w, us, f)
    PROVE  /\ x.at = "script" /\ x.who = us /\ x.todo = f /\ x.now = w.now /\ x.node = w.node /\ (x.clear <=> w.clear)
           /\ DOMAIN x = DOMAIN w
BY DEF Loads, Scanned

LEMMA ScanKeeps == ASSUME DevicesInv, NEW p \in Panels, scanSetIDs(p) PROVE DevicesInv'
<1>0. DevicesTyped
  BY DEF DevicesInv
<1>1. PICK w : w = panels[p]
  OBVIOUS
<1>2. w.at = "scan" /\ Loads(w) /\ OnTime(w, tick)
  BY <1>0, <1>1 DEF scanSetIDs, DevicesTyped, OperationOK
<1>3. PICK us : us = DOMAIN w.todo \cup nodeUsers[w.node]
  OBVIOUS
<1>4. us \subseteq Guests
  BY <1>0, <1>2, <1>3 DEF Loads, DevicesTyped, IndexTyped
<1>5. PICK f : f = [u \in us |-> IF u \in DOMAIN w.todo THEN w.todo[u] ELSE {}]
  OBVIOUS
<1>6. PICK who : who = (IF w.clear THEN {} ELSE us)
  OBVIOUS
<1>7. PICK x : x = Scanned(w, who, f)
  OBVIOUS
<1>8. Goes(p, x) /\ UNCHANGED <<entryVars, summaryVars, boundVars, dropped>>
  <2>1. Goes(p, [w EXCEPT !.at = "script", !.who = IF w.clear THEN {} ELSE us,
                          !.todo = [u \in us |-> IF u \in DOMAIN w.todo THEN w.todo[u] ELSE {}]])
    BY <1>1, <1>3, Zenon DEF scanSetIDs
  <2>2. UNCHANGED <<entryVars, summaryVars, boundVars, dropped>>
    BY DEF scanSetIDs
  <2>3. Goes(p, [w EXCEPT !.at = "script", !.who = who, !.todo = f])
    BY <2>1, <1>5, <1>6
  <2>4. Goes(p, x)
    BY <2>3, <1>7 DEF Goes, Scanned
  <2> QED BY <2>2, <2>4
<1>9. x.at = "script" /\ x.who = who /\ x.todo = f /\ x.now = w.now /\ x.node = w.node /\ (x.clear <=> w.clear) /\ DOMAIN x = DOMAIN w
  BY <1>2, <1>7, ScannedIs
<1>10. Loads(x)
  <2>1. DOMAIN f = us /\ \A u \in us : f[u] = IF u \in DOMAIN w.todo THEN w.todo[u] ELSE {}
    BY <1>5
  <2>2. \A u \in us : f[u] \subseteq Phones /\ (w.clear => f[u] = {})
    BY <2>1, <1>2 DEF Loads
  <2> QED BY <1>2, <1>4, <1>6, <1>9, <2>1, <2>2 DEF Loads
<1>11. OnlyPanel(p) /\ panels'[p] = x /\ DOMAIN panels' = Panels
  BY <1>0, <1>8, GoesOnly DEF DevicesTyped, boundVars
<1>12. ASSUME NEW u \in Guests PROVE Prepares(p, u)
  BY <1>0, <1>1, <1>2, <1>8, <1>9, <1>11 DEF Prepares, Upcoming, EntriesTyped, DevicesTyped, entryVars
<1>13. DOMAIN devices' = Guests /\ IndexTyped' /\ UNCHANGED summaryVars
  BY <1>0, <1>8 DEF entryVars, DevicesTyped, IndexTyped
<1>14. OperationOK(x) /\ OnTime(x, tick)
  BY <1>2, <1>9, <1>10 DEF OperationOK, OnTime
<1> QED BY <1>1, <1>2, <1>9, <1>11, <1>12, <1>13, <1>14, PreparingKeeps DEF Before

\* An operation that announces what it changed is either done or going to reserve the writes.
LEMMA NotifyIs ==
    ASSUME DevicesTyped, NEW w, OnTime(w, tick), w.at # "ready", NEW us \in SUBSET Guests, NEW x, x = Notify(us, w.now, {})
    PROVE  /\ x.at \in Before /\ OperationOK(x) /\ OnTime(x, tick)
           /\ \A u \in Guests : ~Marked(x, u) \/ x.at # "reserve"
           /\ \A u \in us : Upcoming(x, u)
<1>1. CASE us = {}
  <2>1. x.at = "ready"
    BY <1>1 DEF Notify, Ready
  <2> QED BY <2>1, <1>1 DEF Before, OperationOK, OnTime, Upcoming
<1>2. CASE us # {}
  <2>1. x = [at |-> "reserve", who |-> us, now |-> w.now, flush |-> {}]
    BY <1>2 DEF Notify
  <2> QED BY <2>1 DEF Before, OperationOK, OnTime, Upcoming, Marked
<1> QED BY <1>1, <1>2

LEMMA AnnouncedKeeps ==
    ASSUME DevicesInv, NEW p \in Panels, panels[p].at \in {"script", "wipe"}, NEW us \in SUBSET Guests,
           Goes(p, Notify(us, panels[p].now, {})), tick' = tick, UNCHANGED summaryVars, IndexTyped', DOMAIN devices' = Guests,
           \A u \in Guests : /\ EntriesTyped(u)' /\ (devices'[u] = devices[u] \/ u \in us) /\ (u \in dropped => u \in dropped')
                             /\ Upcoming(panels[p], u) => u \in us \/ u \in dropped'
    PROVE  DevicesInv'
<1>0. DevicesTyped
  BY DEF DevicesInv
<1>1. PICK w, x : w = panels[p] /\ x = Notify(us, w.now, {})
  OBVIOUS
<1>2. OnlyPanel(p) /\ panels'[p] = x /\ DOMAIN panels' = Panels
  BY <1>0, <1>1, GoesOnly DEF DevicesTyped
<1>3. OnTime(w, tick) /\ w.at # "ready"
  BY <1>0, <1>1 DEF DevicesTyped
<1>4. /\ x.at \in Before /\ OperationOK(x) /\ OnTime(x, tick)
      /\ \A u \in Guests : ~Marked(x, u) \/ x.at # "reserve"
      /\ \A u \in us : Upcoming(x, u)
  BY <1>0, <1>1, <1>3, NotifyIs
<1>5. ASSUME NEW u \in Guests PROVE Prepares(p, u)
  BY <1>2, <1>4 DEF Prepares
<1>6. panels[p].at \in Before
  BY DEF Before
<1> QED BY <1>2, <1>4, <1>5, <1>6, PreparingKeeps

LEMMA WipeKeeps == ASSUME DevicesInv, NEW p \in Panels, WipeUser(p) PROVE DevicesInv'
<1>0. DevicesTyped
  BY DEF DevicesInv
<1>1. PICK w, u : w = panels[p] /\ u = w.user
  OBVIOUS
<1>2. w.at = "wipe" /\ u \in Guests /\ w.who = {u}
  BY <1>0, <1>1 DEF WipeUser, DevicesTyped, OperationOK, Loads
<1>3. Goes(p, Notify({u}, panels[p].now, {})) /\ devices' = [devices EXCEPT ![u] = {}] /\ UNCHANGED <<summaryVars, boundVars, dropped>>
  BY <1>1 DEF WipeUser
<1>4. DOMAIN devices' = Guests /\ devices'[u] = {} /\ \A v \in Guests : v # u => devices'[v] = devices[v]
  BY <1>0, <1>2, <1>3 DEF DevicesTyped
<1>5. IndexTyped'
  <2>1. nodeUsers' = [n \in Relays |-> IF n \in w.nodes THEN nodeUsers[n] \ {u} ELSE nodeUsers[n]]
    BY <1>1 DEF WipeUser
  <2> QED BY <2>1, <1>0 DEF IndexTyped, DevicesTyped
<1>6. ASSUME NEW v \in Guests
      PROVE  /\ EntriesTyped(v)' /\ (devices'[v] = devices[v] \/ v \in {u}) /\ (v \in dropped => v \in dropped')
             /\ Upcoming(panels[p], v) => v \in {u} \/ v \in dropped'
  <2>1. EntriesTyped(v)'
    BY <1>0, <1>4 DEF EntriesTyped, EntriesOf, DevicesTyped
  <2> QED BY <2>1, <1>1, <1>2, <1>3, <1>4 DEF Upcoming
<1>7. tick' = tick /\ {u} \in SUBSET Guests
  BY <1>2, <1>3 DEF boundVars
<1> QED BY <1>1, <1>2, <1>3, <1>4, <1>5, <1>6, <1>7, AnnouncedKeeps

LEMMA DoneKeeps == ASSUME DevicesInv, NEW p \in Panels, ScriptsDone(p) PROVE DevicesInv'
<1>0. DevicesTyped
  BY DEF DevicesInv
<1>1. PICK w : w = panels[p]
  OBVIOUS
<1>2. w.at = "script" /\ Loads(w)
  BY <1>0, <1>1 DEF ScriptsDone, DevicesTyped, OperationOK
<1>3. Goes(p, Notify(w.who, panels[p].now, {})) /\ UNCHANGED <<devices, summaryVars, boundVars, dropped>>
  BY <1>1 DEF ScriptsDone
<1>4. IndexTyped'
  <2>1. nodeUsers' = IF w.clear THEN [nodeUsers EXCEPT ![w.node] = {}] ELSE nodeUsers
    BY <1>1 DEF ScriptsDone
  <2> QED BY <2>1, <1>0 DEF IndexTyped, DevicesTyped
<1>5. ASSUME NEW v \in Guests
      PROVE  /\ EntriesTyped(v)' /\ (devices'[v] = devices[v] \/ v \in w.who) /\ (v \in dropped => v \in dropped')
             /\ Upcoming(panels[p], v) => v \in w.who \/ v \in dropped'
  BY <1>0, <1>1, <1>2, <1>3 DEF EntriesTyped, DevicesTyped, Upcoming
<1>6. tick' = tick /\ w.who \in SUBSET Guests /\ DOMAIN devices' = Guests
  BY <1>0, <1>2, <1>3 DEF boundVars, Loads, DevicesTyped
<1> QED BY <1>1, <1>2, <1>3, <1>4, <1>5, <1>6, AnnouncedKeeps

\* What one script leaves of a user's entries.
Rewritten(D, old, n, ips, now) ==
    {e \in D \ old : e.node # n \/ e.phone \notin ips} \cup {[node |-> n, phone |-> i, seen |-> now] : i \in ips}
LEMMA ScriptEntries ==
    ASSUME NEW D, EntriesOf(D),
           NEW n \in Relays, NEW ips, ips \subseteq Phones, NEW now \in Nat, NEW old, old \subseteq D,
           NEW E, E = Rewritten(D, old, n, ips, now)
    PROVE  EntriesOf(E) /\ (old = {} /\ ips = {} => E = D)
<1>1. ASSUME NEW e \in E 
      PROVE  \/ e \in D /\ (e.node # n \/ e.phone \notin ips)
             \/ e.node = n /\ e.phone \in ips /\ e = [node |-> n, phone |-> e.phone, seen |-> now]
  <2>0. e \in {g \in D \ old : g.node # n \/ g.phone \notin ips} \cup {[node |-> n, phone |-> i, seen |-> now] : i \in ips}
    BY DEF Rewritten
  <2>1. CASE e \in D \ old /\ (e.node # n \/ e.phone \notin ips)
    BY <2>1
  <2>2. CASE e \in {[node |-> n, phone |-> i, seen |-> now] : i \in ips}
    <3>1. PICK i \in ips : e = [node |-> n, phone |-> i, seen |-> now]
      BY <2>2
    <3>2. e.node = n /\ e.phone = i
      BY <3>1
    <3> QED BY <3>1, <3>2
  <2> QED BY <2>0, <2>1, <2>2
<1>2. E \subseteq DeviceEntry
  BY <1>1 DEF DeviceEntry, EntriesOf
<1>3. ASSUME NEW e \in E, NEW f \in E, e.node = f.node, e.phone = f.phone PROVE e = f
  <2>1. CASE e \in D /\ (e.node # n \/ e.phone \notin ips)
    <3>1. f \in D
      BY <2>1, <1>1, <1>3
    <3> QED BY <3>1, <2>1, <1>3 DEF EntriesOf
  <2>2. CASE e.node = n /\ e.phone \in ips /\ e = [node |-> n, phone |-> e.phone, seen |-> now]
    <3>1. f = [node |-> n, phone |-> f.phone, seen |-> now]
      BY <2>2, <1>1, <1>3
    <3> QED BY <3>1, <2>2, <1>3
  <2> QED BY <2>1, <2>2, <1>1
<1>4. old = {} /\ ips = {} => E = D
  BY DEF Rewritten
<1> QED BY <1>2, <1>3, <1>4 DEF EntriesOf

Scripted(w, f, us) == [w EXCEPT !.todo = f, !.who = us]
LEMMA ScriptedIs ==
    ASSUME NEW w, Loads(w), NEW us, NEW f, NEW x, x = Scripted(w, f, us)
    PROVE  /\ x.at = w.at /\ x.who = us /\ x.todo = f /\ x.now = w.now /\ x.node = w.node /\ (x.clear <=> w.clear)
           /\ DOMAIN x = DOMAIN w
BY DEF Loads, Scripted

LEMMA ScriptKeeps == ASSUME DevicesInv, NEW p \in Panels, replaceNodeDevicesScript(p) PROVE DevicesInv'
<1>0. DevicesTyped
  BY DEF DevicesInv
<1>1. PICK w : w = panels[p]
  OBVIOUS
<1>2. w.at = "script" /\ Loads(w) /\ OnTime(w, tick) /\ DOMAIN w.todo # {}
  BY <1>0, <1>1 DEF replaceNodeDevicesScript, DevicesTyped, OperationOK
<1>3. tick' = tick /\ UNCHANGED summaryVars
  BY DEF replaceNodeDevicesScript, boundVars
<1>4. CASE generation[w.node] # w.gen
  <2>1. Goes(p, IF w.clear THEN Notify(w.who, w.now, {}) ELSE Ready) /\ dropped' = (IF w.clear THEN dropped ELSE dropped \cup w.who)
    BY <1>1, <1>4 DEF replaceNodeDevicesScript
  <2>2. UNCHANGED entryVars
    BY <1>1, <1>4 DEF replaceNodeDevicesScript
  <2>3. PICK us : us = IF w.clear THEN w.who ELSE {}
    OBVIOUS
  <2>4. Goes(p, Notify(us, panels[p].now, {})) /\ us \in SUBSET Guests
    <3>1. CASE w.clear
      BY <3>1, <2>1, <2>3, <1>1, <1>2 DEF Loads
    <3>2. CASE ~w.clear
      <4>1. Notify({}, w.now, {}) = Ready
        BY DEF Notify
      <4> QED BY <4>1, <3>2, <2>1, <2>3, <1>1
    <3> QED BY <3>1, <3>2
  <2>5. IndexTyped' /\ DOMAIN devices' = Guests
    BY <2>2, <1>0 DEF IndexTyped, DevicesTyped, entryVars
  <2>6. ASSUME NEW v \in Guests
        PROVE  /\ EntriesTyped(v)' /\ (devices'[v] = devices[v] \/ v \in us) /\ (v \in dropped => v \in dropped')
               /\ Upcoming(panels[p], v) => v \in us \/ v \in dropped'
    BY <1>0, <1>1, <1>2, <2>1, <2>2, <2>3 DEF EntriesTyped, DevicesTyped, Upcoming, entryVars
  <2> QED BY <1>1, <1>2, <1>3, <2>4, <2>5, <2>6, AnnouncedKeeps
<1>5. CASE generation[w.node] = w.gen
  <2> DEFINE U == CHOOSE y \in DOMAIN panels[p].todo : TRUE
             N == panels[p].node
             Ips == panels[p].todo[U]
             Old == {e \in devices[U] : e.node = N /\ e.phone \in fields[U][N]}
             Entries == {e \in devices[U] \ Old : e.node # N \/ e.phone \notin Ips}
                        \cup {[node |-> N, phone |-> i, seen |-> panels[p].now] : i \in Ips}
             Todo == Without(panels[p].todo, U)
             Who == IF panels[p].clear /\ Old # {} THEN panels[p].who \cup {U} ELSE panels[p].who
  <2>0. generation[panels[p].node] = panels[p].gen
    BY <1>1, <1>5
  <2>5. devices' = [devices EXCEPT ![U] = Entries]
    BY <2>0 DEF replaceNodeDevicesScript
  <2>6. dropped' = dropped /\ nodeUsers' = [nodeUsers EXCEPT ![N] = IF Ips = {} THEN nodeUsers[N] \ {U} ELSE nodeUsers[N] \cup {U}]
    BY <2>0 DEF replaceNodeDevicesScript
  <2>9. Goes(p, Scripted(panels[p], Todo, Who))
    BY <2>0 DEF replaceNodeDevicesScript, Scripted
  <2>1. U \in DOMAIN w.todo
    BY <1>1, <1>2
  <2> HIDE DEF U, N, Ips, Old, Entries, Todo, Who
  <2>2. PICK u, n, ips, old, D : u = U /\ n = N /\ ips = Ips /\ old = Old /\ D = Entries
    OBVIOUS
  <2>3. /\ u \in DOMAIN w.todo /\ u \in Guests /\ n = w.node /\ ips = w.todo[u]
        /\ old \subseteq devices[u]
        /\ D = {e \in devices[u] \ old : e.node # n \/ e.phone \notin ips} \cup {[node |-> n, phone |-> i, seen |-> w.now] : i \in ips}
    BY <1>1, <1>2, <2>1, <2>2 DEF Loads, N, Ips, Old, Entries
  <2>7. PICK f, us : f = Todo /\ us = Who
    OBVIOUS
  <2>4. f = Without(w.todo, u) /\ us = IF w.clear /\ old # {} THEN w.who \cup {u} ELSE w.who
    BY <1>1, <2>2, <2>7 DEF Todo, Who
  <2>8. PICK x : x = Scripted(w, f, us)
    OBVIOUS
  <2>10. x.at = w.at /\ x.who = us /\ x.todo = f /\ x.now = w.now /\ x.node = w.node /\ (x.clear <=> w.clear) /\ DOMAIN x = DOMAIN w
    BY <1>2, <2>8, ScriptedIs
  <2>11. OnlyPanel(p) /\ panels'[p] = x /\ DOMAIN panels' = Panels
    BY <1>0, <1>1, <1>3, <2>7, <2>8, <2>9, GoesOnly DEF DevicesTyped
  <2>12. DOMAIN f = (DOMAIN w.todo) \ {u} /\ \A v \in DOMAIN f : f[v] = w.todo[v]
    BY <2>4 DEF Without
  <2>13. Loads(x)
    BY <1>2, <2>3, <2>4, <2>10, <2>12 DEF Loads
  <2>14. OperationOK(x) /\ OnTime(x, tick)
    BY <1>2, <2>10, <2>13 DEF OperationOK, OnTime
  <2>15. DOMAIN devices' = Guests /\ devices'[u] = D /\ \A v \in Guests : v # u => devices'[v] = devices[v]
    BY <1>0, <2>2, <2>3, <2>5 DEF DevicesTyped
  <2>16. IndexTyped'
    BY <1>0, <1>2, <2>2, <2>3, <2>6 DEF DevicesTyped, IndexTyped, Loads
  <2>17. EntriesOf(D) /\ (old = {} /\ ips = {} => D = devices[u])
    <3>1. PICK E : E = devices[u]
      OBVIOUS
    <3>2. EntriesOf(E)
      BY <1>0, <2>3, <3>1 DEF DevicesTyped, EntriesTyped
    <3>3. n \in Relays /\ ips \subseteq Phones /\ w.now \in Nat /\ old \subseteq E
      BY <1>2, <2>3, <3>1 DEF Loads, OnTime
    <3>5. PICK now \in Nat : now = w.now
      BY <3>3
    <3>4. D = Rewritten(E, old, n, ips, now)
      BY <2>3, <3>1, <3>5 DEF Rewritten
    <3>6. /\ EntriesOf(D)
          /\ old = {} /\ ips = {} => D = E
      BY <3>2, <3>3, <3>4, <3>5, ScriptEntries
    <3> QED BY <3>1, <3>6
  <2>18. w.clear /\ old = {} => D = devices[u]
    BY <2>17, <2>3, <1>2 DEF Loads
  <2>19. D = devices[u] \/ u \in us
    BY <2>18, <2>4, <2>3, <1>2 DEF Loads
  <2>20. ASSUME NEW v \in Guests PROVE Prepares(p, v)
    <3>1. EntriesTyped(v)'
      BY <1>0, <2>15, <2>17 DEF DevicesTyped, EntriesTyped
    <3>2. devices'[v] = devices[v] \/ Upcoming(x, v)
      BY <2>15, <2>19, <2>10, <1>2 DEF Upcoming
    <3>3. Upcoming(w, v) => Upcoming(x, v)
      BY <2>4, <2>10, <1>2 DEF Upcoming
    <3> QED BY <3>1, <3>2, <3>3, <2>6, <2>10, <2>11, <1>1, <1>2 DEF Prepares
  <2> QED BY <1>1, <1>2, <1>3, <2>10, <2>11, <2>14, <2>15, <2>16, <2>20, PreparingKeeps DEF Before
<1> QED BY <1>4, <1>5

\* Steps that leave the entries alone keep what is known of their types.
LEMMA SummaryStep ==
    ASSUME DevicesInv, NEW p \in Panels, OnlyPanel(p), DOMAIN panels' = Panels, UNCHANGED entryVars,
           OperationOK(panels'[p]), OnTime(panels'[p], tick), \A u \in Guests : SummaryTyped(u)', \A u \in Guests : UserSound(u)'
    PROVE  DevicesInv'
<1>1. DOMAIN devices' = Guests /\ IndexTyped' /\ \A u \in Guests : EntriesTyped(u)'
  BY DEF DevicesInv, DevicesTyped, IndexTyped, EntriesTyped, entryVars
<1>2. DevicesTyped'
  BY <1>1, TypesStand DEF DevicesInv
<1> QED BY <1>2 DEF DevicesInv

\* Writes are reserved: whoever was not written lately is counted from here on.
LEMMA ReserveKeeps == ASSUME DevicesInv, NEW p \in Panels, ReserveWrites(p) PROVE DevicesInv'
<1>0. DevicesTyped
  BY DEF DevicesInv
<1>1. PICK w : w = panels[p]
  OBVIOUS
<1>2. w.at = "reserve" /\ w.who \subseteq Guests /\ OnTime(w, tick)
  BY <1>0, <1>1 DEF ReserveWrites, DevicesTyped, OperationOK, Loads
<1>3. PICK us : us = {u \in w.who : throttled[u] <= tick}
  OBVIOUS
<1>4. PICK x : x = [at |-> "defer", who |-> us, late |-> w.who \ us, now |-> w.now, flush |-> w.flush]
  OBVIOUS
<1>5. /\ throttled' = [u \in Guests |-> IF u \in us THEN tick + Throttle ELSE throttled[u]] /\ Goes(p, x)
      /\ UNCHANGED <<entryVars, pending, expiring, online, boundVars, dropped>>
  BY <1>1, <1>3, <1>4 DEF ReserveWrites
<1>6. tick' = tick /\ OnlyPanel(p) /\ panels'[p] = x /\ DOMAIN panels' = Panels
  BY <1>0, <1>5, GoesOnly DEF DevicesTyped, boundVars
<1>7. OperationOK(x) /\ OnTime(x, tick)
  <2>1. x.at = "defer" /\ x.who = us /\ x.now = w.now /\ us \subseteq w.who /\ {"at", "who", "now", "flush"} \subseteq DOMAIN x
    BY <1>3, <1>4
  <2> QED BY <2>1, <1>2 DEF OperationOK, OnTime
<1>8. Throttle \in Nat /\ tick \in Nat /\ w.now \in Nat /\ w.now <= tick
  BY <1>0, <1>2, DeviceConstants DEF DevicesTyped, OnTime
<1>9. ASSUME NEW u \in Guests PROVE SummaryTyped(u)' /\ UserSound(u)'
  <2>1. throttled'[u] = (IF u \in us THEN tick + Throttle ELSE throttled[u])
    BY <1>5
  <2>2. SummaryTyped(u)'
    BY <2>1, <1>0, <1>5, <1>8 DEF SummaryTyped, DevicesTyped
  <2>3. ~Counting(panels[p], u) /\ (Counting(x, u) <=> u \in us) /\ ~Tallying(x, u)
    BY <1>1, <1>2, <1>4 DEF Counting, Tallying
  <2>4. Upcoming(w, u) => Upcoming(x, u)
    BY <1>2, <1>3, <1>4 DEF Upcoming
  <2>5. AnyUpcoming(u) => AnyUpcoming(u)'
    BY <2>4, <1>1, <1>6 DEF AnyUpcoming, OnlyPanel
  <2>6. Mild(p, u)
    BY <2>1, <2>3, <2>5, <1>3, <1>5, <1>6 DEF Mild, entryVars
  <2>7. OwnSound(p, u)'
    <3>1. WriteTaken(p, u)'
      BY <2>1, <2>3, <1>4, <1>6, <1>8 DEF WriteTaken
    <3>2. FlushCovered(p, u)
      BY <1>9 DEF DevicesInv, UserSound, OwnSound
    <3>3. Marked(w, u) => u \in w.who
      BY <3>2, <1>1, <1>2 DEF FlushCovered
    <3>4. FlushCovered(p, u)'
      BY <3>3, <1>3, <1>4, <1>6 DEF FlushCovered, Marked
    <3> QED BY <3>1, <3>4, <2>3, <1>6 DEF OwnSound, TallyStored, TallyRight
  <2> QED BY <2>2, <2>3, <2>6, <2>7, <1>0, MildKeeps DEF DevicesInv
<1> QED BY <1>5, <1>6, <1>7, <1>9, SummaryStep

Staged(w, at) == [w EXCEPT !.at = at]
LEMMA StagedIs ==
    ASSUME NEW w, {"at", "who", "now", "flush"} \subseteq DOMAIN w, NEW at, NEW x, x = Staged(w, at)
    PROVE  /\ x.at = at /\ x.who = w.who /\ x.now = w.now /\ x.flush = w.flush /\ DOMAIN x = DOMAIN w
           /\ {"count", "next"} \subseteq DOMAIN w => x.count = w.count /\ x.next = w.next
BY DEF Staged

\* The step of a user whom an operation counts no longer, or not yet, and whom it leaves to the others.
LEMMA ElsewhereUpcoming ==
    ASSUME NEW p \in Panels, OnlyPanel(p), NEW u, AnyUpcoming(u), ~Upcoming(panels[p], u) PROVE AnyUpcoming(u)'
BY DEF AnyUpcoming, OnlyPanel

LEMMA LaterThanNow ==
    ASSUME DevicesTyped, NEW w, OnTime(w, tick), w.at # "ready"
    PROVE  w.now \in Nat /\ w.now + Throttle \in Nat /\ w.now + Throttle > tick /\ w.now <= tick /\ tick \in Nat /\ Throttle \in Nat
BY DeviceConstants DEF DevicesTyped, OnTime

\* Users counted too recently are put off, by name of a moment after every one that is under way.
LEMMA DeferKeeps == ASSUME DevicesInv, NEW p \in Panels, DeferOthers(p) PROVE DevicesInv'
<1>0. DevicesTyped
  BY DEF DevicesInv
<1>1. PICK w : w = panels[p]
  OBVIOUS
<1>2. w.at = "defer" /\ w.who \subseteq Guests /\ OnTime(w, tick) /\ {"at", "who", "now", "flush"} \subseteq DOMAIN w
  BY <1>0, <1>1 DEF DeferOthers, DevicesTyped, OperationOK, Loads
<1>3. PICK at : at = IF w.who = {} THEN "flushed" ELSE "list"
  OBVIOUS
<1>4. PICK x : x = Staged(w, at)
  OBVIOUS
<1>5. Goes(p, x) /\ pending' = [u \in Guests |-> IF u \in w.late THEN w.now + Throttle ELSE pending[u]]
      /\ UNCHANGED <<entryVars, throttled, expiring, online, boundVars, dropped>>
  <2>1. Goes(p, x)
    BY <1>1, <1>3, <1>4 DEF DeferOthers, Staged
  <2> QED BY <2>1, <1>1 DEF DeferOthers, schedulePending
<1>6. tick' = tick /\ OnlyPanel(p) /\ panels'[p] = x /\ DOMAIN panels' = Panels
  BY <1>0, <1>5, GoesOnly DEF DevicesTyped, boundVars
<1>7. x.at = at /\ x.who = w.who /\ x.now = w.now /\ x.flush = w.flush /\ DOMAIN x = DOMAIN w
  BY <1>2, <1>4, StagedIs
<1>8. OperationOK(x) /\ OnTime(x, tick)
  BY <1>2, <1>3, <1>7 DEF OperationOK, OnTime
<1>9. w.now \in Nat /\ w.now + Throttle \in Nat /\ w.now + Throttle > tick /\ w.now <= tick /\ tick \in Nat /\ Throttle \in Nat
  BY <1>0, <1>2, LaterThanNow
<1>10. ASSUME NEW u \in Guests PROVE SummaryTyped(u)' /\ UserSound(u)'
  <2>1. pending'[u] = (IF u \in w.late THEN w.now + Throttle ELSE pending[u])
    BY <1>5
  <2>2. SummaryTyped(u)'
    BY <2>1, <1>0, <1>5, <1>9 DEF SummaryTyped, DevicesTyped
  <2>3. pending'[u] = pending[u] \/ (pending'[u] \in Nat /\ pending'[u] > tick)
    BY <2>1, <1>9
  <2>4. (Counting(w, u) <=> u \in w.who) /\ (Counting(x, u) <=> u \in w.who) /\ ~Tallying(x, u)
    BY <1>2, <1>3, <1>7 DEF Counting, Tallying
  <2>5. UserSound(u) /\ OwnSound(p, u)
    BY <1>10 DEF DevicesInv, UserSound
  <2>6. CASE u \in w.who
    <3>1. Counting(panels[p], u) /\ at = "list"
      BY <2>4, <2>6, <1>1, <1>3
    <3>2. Firm(p, u)
      BY <2>3, <1>5, <1>6 DEF Firm
    <3>3. OwnSound(p, u)'
      <4>1. WriteTaken(p, u)'
        BY <3>1, <2>5, <1>1, <1>5, <1>6, <1>7 DEF OwnSound, WriteTaken
      <4> QED BY <4>1, <3>1, <2>4, <2>6, <1>6, <1>7 DEF OwnSound, FlushCovered, TallyStored, TallyRight
    <3>4. SummaryRight(u)'
      <4>1. Upcoming(x, u)
        BY <3>1, <2>6, <1>7 DEF Upcoming
      <4> QED BY <4>1, <1>6 DEF SummaryRight, Stirred, AnyUpcoming
    <3>5. FlushAwaits(u)'
      BY <2>3, <2>5, <1>5, <1>9 DEF UserSound, FlushAwaits, Unset
    <3> QED BY <2>2, <2>5, <3>1, <3>2, <3>3, <3>4, <3>5, <1>0, CountedKeeps
  <2>7. CASE u \notin w.who
    <3>1. Upcoming(w, u) => pending'[u] > tick
      BY <2>1, <2>7, <1>2, <1>9 DEF Upcoming
    <3>2. AnyUpcoming(u) => AnyUpcoming(u)' \/ pending'[u] > tick
      BY <3>1, <1>1, <1>6, ElsewhereUpcoming
    <3>3. Mild(p, u)
      BY <3>2, <2>3, <2>4, <2>7, <1>5, <1>6 DEF Mild, entryVars
    <3>4. Marked(w, u) => pending'[u] > w.now
      <4>1. Marked(w, u) => u \in w.late
        BY <2>5, <2>7, <1>1, <1>2 DEF OwnSound, FlushCovered
      <4>2. u \in w.late => pending'[u] > w.now
        BY <2>1, <1>9, DeviceConstants
      <4> QED BY <4>1, <4>2
    <3>5. FlushCovered(p, u)'
      BY <3>4, <2>7, <1>3, <1>6, <1>7 DEF FlushCovered, PutOff, Marked
    <3>6. OwnSound(p, u)'
      BY <3>5, <2>4, <2>7, <1>6 DEF OwnSound, WriteTaken, TallyStored, TallyRight
    <3> QED BY <2>2, <2>4, <2>5, <2>7, <3>3, <3>6, <1>0, <1>1, MildKeeps
  <2> QED BY <2>6, <2>7
<1> QED BY <1>5, <1>6, <1>8, <1>10, SummaryStep

\* Whatever an operation that fails was going to count is written down as dropped.
LEMMA OperationFailKeeps == ASSUME DevicesInv, NEW p \in Panels, OperationFails(p) PROVE DevicesInv'
<1>0. DevicesTyped
  BY DEF DevicesInv
<1>1. PICK w : w = panels[p]
  OBVIOUS
<1>2. Goes(p, Ready) /\ UNCHANGED <<entryVars, throttled, expiring, online, tick>>
  BY DEF OperationFails
<1>3. tick' = tick /\ OnlyPanel(p) /\ panels'[p].at = "ready" /\ DOMAIN panels' = Panels
  BY <1>0, <1>2, GoesOnly DEF DevicesTyped, Ready
<1>4. ASSUME NEW u \in Guests PROVE (u \in dropped \/ Counting(w, u) \/ Upcoming(w, u)) => u \in dropped'
  BY <1>1 DEF OperationFails, Counting, Upcoming
<1>5. pending' = pending \/ (w.at \in {"reserve", "list", "clean", "expire", "write"} /\ schedulePending(w.who, w.now))
  BY <1>1 DEF OperationFails
<1>6. OnTime(w, tick)
  BY <1>0, <1>1 DEF DevicesTyped
<1>7. ASSUME NEW u \in Guests PROVE SummaryTyped(u)' /\ UserSound(u)'
  <2>1. pending'[u] = pending[u] \/ (pending'[u] \in Nat /\ pending'[u] > tick)
    <3>1. CASE schedulePending(w.who, w.now) /\ w.at # "ready"
      <4>1. pending'[u] = IF u \in w.who THEN w.now + Throttle ELSE pending[u]
        BY <3>1 DEF schedulePending
      <4> QED BY <4>1, <3>1, <1>0, <1>6, LaterThanNow
    <3> QED BY <3>1, <1>5
  <2>2. SummaryTyped(u)'
    BY <2>1, <1>0, <1>2 DEF SummaryTyped, DevicesTyped
  <2>3. UserSound(u)
    BY DEF DevicesInv
  <2>4. OwnSound(p, u)'
    BY <1>3 DEF OwnSound, WriteTaken, FlushCovered, TallyStored, TallyRight, Counting, Tallying
  <2>5. CASE Counting(w, u)
    <3>1. Firm(p, u)
      BY <2>1, <1>2, <1>3 DEF Firm
    <3>2. SummaryRight(u)'
      BY <2>5, <1>4 DEF SummaryRight, Stirred
    <3>3. FlushAwaits(u)'
      BY <2>1, <2>3, <1>2 DEF UserSound, FlushAwaits, Unset
    <3> QED BY <2>2, <2>3, <2>4, <2>5, <3>1, <3>2, <3>3, <1>0, <1>1, CountedKeeps
  <2>6. CASE ~Counting(w, u)
    <3>1. AnyUpcoming(u) => AnyUpcoming(u)' \/ u \in dropped'
      BY <1>1, <1>3, <1>4, ElsewhereUpcoming
    <3>2. ~Counting(panels'[p], u) /\ ~Tallying(panels'[p], u)
      BY <1>3 DEF Counting, Tallying
    <3>3. Mild(p, u)
      BY <3>1, <3>2, <2>1, <1>2, <1>3, <1>4 DEF Mild, entryVars
    <3> QED BY <2>2, <2>3, <2>4, <2>6, <3>3, <1>0, <1>1, MildKeeps
  <2> QED BY <2>5, <2>6
<1>8. OperationOK(panels'[p]) /\ OnTime(panels'[p], tick)
  BY <1>3 DEF OperationOK, OnTime
<1> QED BY <1>2, <1>3, <1>7, <1>8, SummaryStep

Past == {"list", "clean", "expire", "write", "inactive", "flushed"}
TallyStages == {"clean", "expire", "write", "inactive", "flushed"}
Onward(w, x) == x.who = w.who /\ x.now = w.now /\ x.flush = w.flush

\* The stages of a count do not concern the users of the flush who are counted elsewhere.
LEMMA RestStays ==
    ASSUME DevicesTyped, NEW u \in Guests, UserSound(u), NEW p \in Panels, OnlyPanel(p),
           panels[p].at \in Past, panels'[p].at \in Past, Onward(panels[p], panels'[p]), u \notin panels[p].who,
           devices'[u] = devices[u], throttled'[u] = throttled[u], pending'[u] = pending[u], expiring'[u] = expiring[u],
           online'[u] = online[u], u \in dropped => u \in dropped'
    PROVE  UserSound(u)'
<1>1. ~Counting(panels[p], u) /\ ~Counting(panels'[p], u) /\ ~Tallying(panels'[p], u) /\ ~Upcoming(panels[p], u)
  BY DEF Counting, Tallying, Upcoming, Onward, Past
<1>2. AnyUpcoming(u) => AnyUpcoming(u)'
  BY <1>1, ElsewhereUpcoming
<1>3. Mild(p, u)
  BY <1>1, <1>2 DEF Mild
<1>4. PutOff(p, u)
  BY DEF UserSound, OwnSound, FlushCovered, Past
<1>5. Uncounted(u) => Uncounted(u)'
  BY <1>1 DEF Uncounted, OnlyPanel
<1>6. PutOff(p, u)'
  BY <1>4, <1>5 DEF PutOff, Outrun, Onward
<1>7. OwnSound(p, u)'
  BY <1>1, <1>6 DEF OwnSound, WriteTaken, FlushCovered, TallyStored, TallyRight, Past
<1> QED BY <1>1, <1>3, <1>7, MildKeeps

\* A tally goes on: what was right of it stays right while it is written down.
LEMMA TallyGoesOn ==
    ASSUME DevicesTyped, NEW u \in Guests, UserSound(u), NEW p \in Panels, OnlyPanel(p), Tallying(panels[p], u),
           panels'[p].at \in {"expire", "write", "inactive", "flushed"}, Onward(panels[p], panels'[p]),
           panels'[p].count = panels[p].count, panels'[p].next = panels[p].next,
           throttled'[u] = throttled[u], pending'[u] = pending[u], dropped' = dropped,
           TallyRight(p, u) /\ ~StirredSince(u, panels[p].now)
               => LiveOf(devices'[u], panels[p].now) = LiveOf(devices[u], panels[p].now),
           TallyStored(p, u)', FlushAwaits(u)'
    PROVE  UserSound(u)'
<1>0. PICK w, x : w = panels[p] /\ x = panels'[p]
  OBVIOUS
<1>1. Counting(w, u) /\ Counting(x, u) /\ Tallying(x, u) /\ ~Upcoming(w, u) /\ u \in x.who
  BY <1>0 DEF Counting, Tallying, Upcoming, Onward
<1>2. Firm(p, u)
  BY DEF Firm
<1>3. SummaryRight(u)'
  BY <1>0, <1>1 DEF SummaryRight
<1>4. WriteTaken(p, u)'
  BY <1>0, <1>1 DEF UserSound, OwnSound, WriteTaken, Onward
<1>5. FlushCovered(p, u)'
  BY <1>0, <1>1 DEF FlushCovered
<1>6. TallyRight(p, u)'
  <2>1. SUFFICES ASSUME ~StirredSince(u, x.now)' PROVE RightAt(devices'[u], x.count[u], x.next[u], x.now)
    BY <1>0 DEF TallyRight
  <2>2. ~StirredSince(u, w.now)
    <3>1. AnyUpcoming(u) => AnyUpcoming(u)'
      BY <1>0, <1>1, ElsewhereUpcoming
    <3> QED BY <2>1, <3>1, <1>0 DEF StirredSince, Onward
  <2>3. TallyRight(p, u)
    BY DEF UserSound, OwnSound
  <2>4. RightAt(devices[u], w.count[u], w.next[u], w.now)
    BY <2>2, <2>3, <1>0 DEF TallyRight
  <2>5. LiveOf(devices'[u], w.now) = LiveOf(devices[u], w.now)
    BY <2>2, <2>3, <1>0
  <2> QED BY <2>4, <2>5, <1>0 DEF RightAt, Onward
<1> QED BY <1>0, <1>1, <1>2, <1>3, <1>4, <1>5, <1>6, CountedKeeps DEF OwnSound

\* The tally itself: the number online, and the end of the first entry.
FirstEnd(D, now) == IF LiveOf(D, now) = {} THEN Unset ELSE Min({e.seen : e \in LiveOf(D, now)}) + Window
NumberOnline(D, now) == Cardinality({e.phone : e \in LiveOf(D, now)})
StaleNames(D, now) == {[node |-> e.node, phone |-> e.phone] : e \in D \ LiveOf(D, now)}

LEMMA FirstEndIs ==
    ASSUME NEW D, EntriesOf(D), NEW now \in Nat
    PROVE  /\ FirstEnd(D, now) \in Nat \cup {Unset} /\ (FirstEnd(D, now) = Unset \/ FirstEnd(D, now) > now)
           /\ (FirstEnd(D, now) = Unset <=> LiveOf(D, now) = {})
           /\ LiveOf(D, now) # {} => \A e \in LiveOf(D, now) : FirstEnd(D, now) <= e.seen + Window
<1>0. Window \in Nat /\ Window > 0
  BY DeviceConstants
<1>1. CASE LiveOf(D, now) = {}
  BY <1>1 DEF FirstEnd
<1>2. CASE LiveOf(D, now) # {}
  <2>1. PICK S : S = {e.seen : e \in LiveOf(D, now)}
    OBVIOUS
  <2>2. \A e \in LiveOf(D, now) : e.seen \in S /\ e.seen \in Nat /\ e.seen > now - Window
    BY <2>1 DEF LiveOf, EntriesOf, DeviceEntry
  <2>3. S \subseteq Nat /\ S # {} /\ \A s \in S : s > now - Window
    BY <2>1, <2>2, <1>2
  <2>4. \E m \in S : \A s \in S : m <= s
    BY <2>3, LeastNatural
  <2>5. Min(S) \in S /\ \A s \in S : Min(S) <= s
    BY <2>4 DEF Min
  <2>6. FirstEnd(D, now) = Min(S) + Window
    BY <2>1, <1>2 DEF FirstEnd
  <2>7. PICK m \in Nat : m = Min(S)
    BY <2>3, <2>5
  <2>8. m > now - Window /\ \A e \in LiveOf(D, now) : m <= e.seen
    BY <2>2, <2>3, <2>5, <2>7
  <2> QED BY <1>0, <1>2, <2>2, <2>6, <2>7, <2>8 DEF Unset
<1> QED BY <1>1, <1>2

LEMMA NobodyOnline == ASSUME NEW D, NEW now, LiveOf(D, now) = {} PROVE NumberOnline(D, now) = 0
<1>1. {e.phone : e \in LiveOf(D, now)} = {}
  OBVIOUS
<1> QED BY <1>1, FS_EmptySet DEF NumberOnline

LEMMA TalliedRight ==
    ASSUME NEW D, EntriesOf(D), NEW now \in Nat
    PROVE  /\ RightAt(D, NumberOnline(D, now), FirstEnd(D, now), now)
           /\ \A e \in LiveOf(D, now) : [node |-> e.node, phone |-> e.phone] \notin StaleNames(D, now)
<1>1. RightAt(D, NumberOnline(D, now), FirstEnd(D, now), now)
  BY FirstEndIs DEF RightAt, NumberOnline
<1>2. ASSUME NEW e \in LiveOf(D, now), [node |-> e.node, phone |-> e.phone] \in StaleNames(D, now) PROVE FALSE
  <2>1. PICK f \in D \ LiveOf(D, now) : [node |-> e.node, phone |-> e.phone] = [node |-> f.node, phone |-> f.phone]
    BY <1>2 DEF StaleNames
  <2>2. e.node = f.node /\ e.phone = f.phone
    BY <2>1
  <2>3. e \in D /\ f \in D
    BY <2>1 DEF LiveOf
  <2> QED BY <2>1, <2>2, <2>3 DEF EntriesOf
<1> QED BY <1>1, <1>2

LEMMA ListKeeps == ASSUME DevicesInv, NEW p \in Panels, listUserDevices(p) PROVE DevicesInv'
<1>0. DevicesTyped
  BY DEF DevicesInv
<1>1. PICK w : w = panels[p]
  OBVIOUS
<1>2. w.at = "list" /\ w.who \subseteq Guests /\ OnTime(w, tick) /\ w.now \in Nat /\ w.now <= tick /\ tick \in Nat
  <2>1. w.at = "list" /\ w.who \subseteq Guests /\ OnTime(w, tick)
    BY <1>0, <1>1 DEF listUserDevices, DevicesTyped, OperationOK, Loads
  <2> QED BY <2>1, <1>0, LaterThanNow
<1> DEFINE Numbers == [u \in w.who |-> Cardinality(OnlineAt(u, w.now))]
           Next0 == [u \in w.who |-> IF LiveAt(u, w.now) = {} THEN Unset ELSE Min({e.seen : e \in LiveAt(u, w.now)}) + Window]
           Stale == [u \in w.who |-> {[node |-> e.node, phone |-> e.phone] : e \in StaleEntries(u, w.now)}]
           Lost == [u \in w.who |-> {e.node : e \in devices[u]} \ {e.node : e \in LiveAt(u, w.now)}]
           X == [at |-> "clean", who |-> w.who, now |-> w.now, flush |-> w.flush,
                 count |-> Numbers, next |-> Next0, stale |-> Stale, gone |-> Lost]
<1>3. Goes(p, X)
  BY <1>1 DEF listUserDevices
<1>4. PICK x : x = X
  OBVIOUS
<1>5. /\ x.at = "clean" /\ Onward(w, x) /\ x.count = Numbers /\ x.next = Next0 /\ x.stale = Stale
      /\ {"at", "who", "now", "flush", "count", "next"} \subseteq DOMAIN x
  BY <1>4 DEF Onward
<1>6. ASSUME NEW u \in w.who
      PROVE  x.count[u] = NumberOnline(devices[u], w.now) /\ x.next[u] = FirstEnd(devices[u], w.now)
             /\ x.stale[u] = StaleNames(devices[u], w.now)
  <2>1. LiveAt(u, w.now) = LiveOf(devices[u], w.now)
    BY DEF LiveAt, LiveOf
  <2>2. x.count[u] = Cardinality(OnlineAt(u, w.now))
    BY <1>5
  <2>3. x.next[u] = IF LiveAt(u, w.now) = {} THEN Unset ELSE Min({e.seen : e \in LiveAt(u, w.now)}) + Window
    BY <1>5
  <2>4. x.stale[u] = {[node |-> e.node, phone |-> e.phone] : e \in StaleEntries(u, w.now)}
    BY <1>5
  <2>5. x.count[u] = NumberOnline(devices[u], w.now)
    BY <2>1, <2>2 DEF OnlineAt, NumberOnline
  <2>6. x.next[u] = FirstEnd(devices[u], w.now)
    BY <2>1, <2>3 DEF FirstEnd
  <2>7. x.stale[u] = StaleNames(devices[u], w.now)
    BY <2>1, <2>4 DEF StaleEntries, StaleNames
  <2> QED BY <2>5, <2>6, <2>7
<1>7. tick' = tick /\ OnlyPanel(p) /\ panels'[p] = x /\ DOMAIN panels' = Panels
  <2>1. tick' = tick
    BY DEF listUserDevices, boundVars
  <2> HIDE DEF X
  <2> QED BY <2>1, <1>0, <1>3, <1>4, GoesOnly DEF DevicesTyped
<1> HIDE DEF Numbers, Next0, Stale, Lost, X
<1>8. UNCHANGED <<entryVars, summaryVars>> /\ dropped' = dropped \ w.who
  BY <1>1 DEF listUserDevices
<1>9. OperationOK(x) /\ OnTime(x, tick)
  BY <1>2, <1>5 DEF OperationOK, OnTime, Onward
<1>10. ASSUME NEW u \in Guests PROVE SummaryTyped(u)' /\ UserSound(u)'
  <2>1. SummaryTyped(u)' /\ EntriesOf(devices[u])
    BY <1>0, <1>8 DEF SummaryTyped, EntriesTyped, DevicesTyped, summaryVars
  <2>2. UserSound(u)
    BY DEF DevicesInv
  <2>3. /\ devices'[u] = devices[u] /\ throttled'[u] = throttled[u] /\ pending'[u] = pending[u] /\ expiring'[u] = expiring[u]
        /\ online'[u] = online[u]
    BY <1>8 DEF entryVars, summaryVars
  <2>4. CASE u \in w.who
    <3>1. Counting(w, u) /\ Counting(x, u) /\ Tallying(x, u) /\ u \in x.who
      BY <2>4, <1>2, <1>5 DEF Counting, Tallying, Onward
    <3>2. Firm(p, u)
      BY <2>3, <1>7 DEF Firm
    <3>3. SummaryRight(u)'
      BY <3>1, <1>7 DEF SummaryRight
    <3>4. FlushAwaits(u)'
      BY <2>2, <2>3 DEF UserSound, FlushAwaits
    <3>5. WriteTaken(p, u)'
      BY <3>1, <2>2, <2>3, <1>1, <1>5, <1>7 DEF UserSound, OwnSound, WriteTaken, Onward
    <3>6. FlushCovered(p, u)'
      BY <3>1, <1>5, <1>7 DEF FlushCovered
    <3>7. TallyStored(p, u)'
      <4>1. x.next[u] \in Nat \cup {Unset} /\ (x.next[u] = Unset \/ x.next[u] > w.now)
        BY <2>1, <2>4, <1>2, <1>6, FirstEndIs
      <4>2. x.count[u] > 0 => x.next[u] # Unset
        <5>1. SUFFICES ASSUME x.next[u] = Unset PROVE ~(x.count[u] > 0)
          OBVIOUS
        <5>2. LiveOf(devices[u], w.now) = {}
          BY <5>1, <2>1, <2>4, <1>2, <1>6, FirstEndIs
        <5>3. x.count[u] = 0
          BY <5>2, <2>4, <1>6, NobodyOnline
        <5> QED BY <5>3
      <4> QED BY <4>1, <4>2, <1>5, <1>7 DEF TallyStored, Onward
    <3>8. TallyRight(p, u)'
      <4>1. RightAt(devices[u], x.count[u], x.next[u], x.now) /\ Spared(x, u, devices[u])
        <5>1. RightAt(devices[u], NumberOnline(devices[u], w.now), FirstEnd(devices[u], w.now), w.now)
          BY <2>1, <1>2, TalliedRight
        <5>2. \A e \in LiveOf(devices[u], w.now) : [node |-> e.node, phone |-> e.phone] \notin StaleNames(devices[u], w.now)
          BY <2>1, <1>2, TalliedRight
        <5>3. RightAt(devices[u], x.count[u], x.next[u], x.now)
          BY <5>1, <2>4, <1>5, <1>6 DEF Onward
        <5>4. Spared(x, u, devices[u])
          BY <5>2, <2>4, <1>5, <1>6 DEF Onward, Spared
        <5> QED BY <5>3, <5>4
      <4> QED BY <4>1, <2>3, <1>7 DEF TallyRight
    <3> QED BY <2>1, <2>2, <3>1, <3>2, <3>3, <3>4, <3>5, <3>6, <3>7, <3>8, <1>0, <1>1, CountedKeeps DEF OwnSound
  <2>5. CASE u \notin w.who
    <3>1. u \in dropped => u \in dropped'
      BY <2>5, <1>8
    <3> QED BY <2>1, <2>2, <2>3, <2>5, <3>1, <1>0, <1>1, <1>2, <1>5, <1>7, RestStays DEF Past
  <2> QED BY <2>4, <2>5
<1>11. UNCHANGED entryVars
  BY <1>8
<1> QED BY <1>7, <1>9, <1>10, <1>11, SummaryStep

LEMMA CleanKeeps == ASSUME DevicesInv, NEW p \in Panels, cleanupStaleFields(p) PROVE DevicesInv'
<1>0. DevicesTyped
  BY DEF DevicesInv
<1>1. PICK w : w = panels[p]
  OBVIOUS
<1>2. w.at = "clean" /\ w.who \subseteq Guests /\ OnTime(w, tick)
  BY <1>0, <1>1 DEF cleanupStaleFields, DevicesTyped, OperationOK, Loads
<1>3. PICK x : x = [at |-> "expire", who |-> w.who, now |-> w.now, flush |-> w.flush, count |-> w.count, next |-> w.next]
  OBVIOUS
<1>4. Goes(p, x) /\ UNCHANGED <<summaryVars, boundVars, dropped>>
  BY <1>1, <1>3 DEF cleanupStaleFields
<1>5. x.at = "expire" /\ Onward(w, x) /\ x.count = w.count /\ x.next = w.next
      /\ {"at", "who", "now", "flush", "count", "next"} \subseteq DOMAIN x
  BY <1>3 DEF Onward
<1>6. tick' = tick /\ OnlyPanel(p) /\ panels'[p] = x /\ DOMAIN panels' = Panels
  BY <1>0, <1>4, GoesOnly DEF DevicesTyped, boundVars
<1>7. OperationOK(x) /\ OnTime(x, tick)
  BY <1>2, <1>5 DEF OperationOK, OnTime, Onward
<1>8. DOMAIN devices' = Guests
  BY DEF cleanupStaleFields
<1>9. ASSUME NEW u \in Guests
      PROVE  /\ devices'[u] \subseteq devices[u]
             /\ u \notin w.who => devices'[u] = devices[u]
             /\ u \in w.who => devices'[u] = {e \in devices[u] : [node |-> e.node, phone |-> e.phone] \notin w.stale[u]}
  <2>1. devices'[u] = {e \in devices[u] : [node |-> e.node, phone |-> e.phone] \notin (IF u \in w.who THEN w.stale[u] ELSE {})}
    BY <1>1 DEF cleanupStaleFields
  <2> QED BY <2>1
<1>10. IndexTyped'
  <2>1. DOMAIN nodeUsers' = Relays /\ \A n \in Relays : nodeUsers'[n] \subseteq nodeUsers[n]
    BY DEF cleanupStaleFields
  <2> QED BY <2>1, <1>0 DEF IndexTyped, DevicesTyped
<1>11. ASSUME NEW u \in Guests PROVE EntriesTyped(u)' /\ SummaryTyped(u)' /\ UserSound(u)'
  <2>1. SummaryTyped(u)'
    BY <1>0, <1>4 DEF SummaryTyped, DevicesTyped, summaryVars
  <2>2. EntriesTyped(u)'
    BY <1>0, <1>9 DEF EntriesTyped, EntriesOf, DevicesTyped
  <2>3. UserSound(u)
    BY DEF DevicesInv
  <2>4. throttled'[u] = throttled[u] /\ pending'[u] = pending[u] /\ expiring'[u] = expiring[u] /\ online'[u] = online[u] /\ dropped' = dropped
    BY <1>4 DEF summaryVars
  <2>5. CASE u \in w.who
    <3>1. Tallying(w, u) /\ Tallying(x, u)
      BY <2>5, <1>2, <1>5 DEF Tallying, Onward
    <3>2. TallyStored(p, u)'
      <4>1. TallyStored(p, u)
        BY <2>3 DEF UserSound, OwnSound
      <4> QED BY <4>1, <3>1, <1>1, <1>5, <1>6 DEF TallyStored, Onward
    <3>3. FlushAwaits(u)'
      BY <2>3, <2>4 DEF UserSound, FlushAwaits
    <3>4. TallyRight(p, u) /\ ~StirredSince(u, panels[p].now)
            => LiveOf(devices'[u], panels[p].now) = LiveOf(devices[u], panels[p].now)
      <4>1. SUFFICES ASSUME TallyRight(p, u), ~StirredSince(u, w.now) PROVE LiveOf(devices'[u], w.now) = LiveOf(devices[u], w.now)
        BY <1>1
      <4>2. Spared(w, u, devices[u])
        BY <4>1, <3>1, <1>1, <1>2 DEF TallyRight
      <4>3. devices'[u] = {e \in devices[u] : [node |-> e.node, phone |-> e.phone] \notin w.stale[u]}
        BY <1>9, <2>5
      <4> QED BY <4>2, <4>3 DEF Spared, LiveOf
    <3> QED BY <2>1, <2>2, <2>3, <2>4, <3>1, <3>2, <3>3, <3>4, <1>0, <1>1, <1>5, <1>6, TallyGoesOn
  <2>6. CASE u \notin w.who
    <3>1. devices'[u] = devices[u] /\ (u \in dropped => u \in dropped')
      BY <1>9, <2>6, <2>4
    <3> QED BY <2>1, <2>2, <2>3, <2>4, <2>6, <3>1, <1>0, <1>1, <1>2, <1>5, <1>6, RestStays DEF Past
  <2> QED BY <2>5, <2>6
<1>12. DevicesTyped'
  BY <1>0, <1>6, <1>7, <1>8, <1>10, <1>11, TypesStand
<1> QED BY <1>11, <1>12 DEF DevicesInv

\* The stages that write a tally down, each with what it writes of a user counted.
LEMMA StageKeeps ==
    ASSUME DevicesInv, NEW p \in Panels, NEW at, panels[p].at \in {"expire", "write", "inactive"},
           at \in {"write", "inactive", "flushed"},
           Goes(p, Staged(panels[p], at)), tick' = tick, UNCHANGED <<entryVars, throttled, pending, dropped>>,
           \A u \in Guests : u \notin panels[p].who => expiring'[u] = expiring[u] /\ online'[u] = online[u],
           \A u \in Guests : u \in panels[p].who /\ OnlyPanel(p) /\ panels'[p].at = at /\ panels'[p].next = panels[p].next
                                /\ panels'[p].count = panels[p].count /\ Onward(panels[p], panels'[p])
                             => SummaryTyped(u)' /\ TallyStored(p, u)' /\ FlushAwaits(u)'
    PROVE  DevicesInv'
<1>0. DevicesTyped
  BY DEF DevicesInv
<1>1. PICK w : w = panels[p]
  OBVIOUS
<1>2. /\ w.at \in {"expire", "write", "inactive"} /\ w.who \subseteq Guests /\ OnTime(w, tick)
      /\ {"at", "who", "now", "flush"} \subseteq DOMAIN w /\ {"count", "next"} \subseteq DOMAIN w
  BY <1>0, <1>1 DEF DevicesTyped, OperationOK, Loads
<1>3. PICK x : x = Staged(w, at)
  OBVIOUS
<1>4. x.at = at /\ Onward(w, x) /\ x.count = w.count /\ x.next = w.next /\ DOMAIN x = DOMAIN w
  BY <1>2, <1>3, StagedIs DEF Onward
<1>5. OnlyPanel(p) /\ panels'[p] = x /\ DOMAIN panels' = Panels
  BY <1>0, <1>1, <1>3, GoesOnly DEF DevicesTyped
<1>6. OperationOK(x) /\ OnTime(x, tick)
  BY <1>2, <1>4 DEF OperationOK, OnTime, Onward
<1>7. ASSUME NEW u \in Guests PROVE SummaryTyped(u)' /\ UserSound(u)'
  <2>1. UserSound(u) /\ SummaryTyped(u)
    BY <1>0 DEF DevicesInv, DevicesTyped
  <2>2. throttled'[u] = throttled[u] /\ pending'[u] = pending[u] /\ dropped' = dropped /\ devices'[u] = devices[u]
    BY DEF entryVars
  <2>3. CASE u \in w.who
    <3>1. Tallying(w, u)
      BY <2>3, <1>2 DEF Tallying
    <3>2. SummaryTyped(u)' /\ TallyStored(p, u)' /\ FlushAwaits(u)'
      BY <2>3, <1>1, <1>4, <1>5
    <3> QED BY <2>1, <2>2, <3>1, <3>2, <1>0, <1>1, <1>4, <1>5, TallyGoesOn
  <2>4. CASE u \notin w.who
    <3>1. expiring'[u] = expiring[u] /\ online'[u] = online[u]
      BY <2>4, <1>1
    <3>2. SummaryTyped(u)'
      BY <2>1, <2>2, <3>1 DEF SummaryTyped
    <3> QED BY <2>1, <2>2, <2>4, <3>1, <3>2, <1>0, <1>1, <1>2, <1>4, <1>5, RestStays DEF Past
  <2> QED BY <2>3, <2>4
<1> QED BY <1>5, <1>6, <1>7, SummaryStep

\* What is known of a tally, for the stages to use.
LEMMA TallyKnown ==
    ASSUME DevicesInv, NEW p \in Panels, panels[p].at \in {"clean", "expire", "write", "inactive", "flushed"},
           NEW u \in Guests, u \in panels[p].who
    PROVE  /\ Tallying(panels[p], u) /\ TallyStored(p, u) /\ FlushAwaits(u) /\ SummaryTyped(u)
           /\ panels[p].now \in Nat
<1>1. panels[p].now \in Nat
  BY DEF DevicesInv, DevicesTyped, OnTime
<1> QED BY <1>1 DEF DevicesInv, DevicesTyped, UserSound, OwnSound, Tallying

LEMMA ExpireKeeps == ASSUME DevicesInv, NEW p \in Panels, scheduleExpiries(p) PROVE DevicesInv'
<1>1. PICK w : w = panels[p]
  OBVIOUS
<1>2. /\ w.at = "expire" /\ Goes(p, Staged(w, "write")) /\ tick' = tick /\ online' = online
      /\ UNCHANGED <<entryVars, throttled, pending, dropped>>
  BY <1>1 DEF scheduleExpiries, Staged, boundVars
<1>3. \A u \in Guests : expiring'[u] = IF u \in w.who /\ w.next[u] # Unset THEN w.next[u] ELSE expiring[u]
  BY <1>1 DEF scheduleExpiries
<1>4. ASSUME NEW u \in Guests, u \in w.who, panels'[p].at = "write", panels'[p].next = w.next, panels'[p].count = w.count,
             Onward(w, panels'[p])
      PROVE  SummaryTyped(u)' /\ TallyStored(p, u)' /\ FlushAwaits(u)'
  <2>1. Tallying(w, u) /\ TallyStored(p, u) /\ FlushAwaits(u) /\ SummaryTyped(u)
    BY <1>1, <1>2, <1>4, TallyKnown
  <2>2. /\ w.next[u] \in Nat \cup {Unset} /\ (w.next[u] = Unset \/ w.next[u] > w.now)
        /\ w.count[u] > 0 => w.next[u] # Unset
    BY <2>1, <1>1 DEF TallyStored
  <2>3. SummaryTyped(u)'
    BY <2>1, <2>2, <1>2, <1>3 DEF SummaryTyped
  <2>4. TallyStored(p, u)'
    BY <2>2, <1>3, <1>4 DEF TallyStored, Onward
  <2>5. FlushAwaits(u)'
    BY <2>1, <1>2, <1>3 DEF FlushAwaits
  <2> QED BY <2>3, <2>4, <2>5
<1>5. \A u \in Guests : u \notin w.who => expiring'[u] = expiring[u] /\ online'[u] = online[u]
  BY <1>2, <1>3
<1> QED BY <1>1, <1>2, <1>4, <1>5, StageKeeps

LEMMA WriteKeeps == ASSUME DevicesInv, NEW p \in Panels, UpdateUserDeviceSummaries(p) PROVE DevicesInv'
<1>1. PICK w : w = panels[p]
  OBVIOUS
<1>2. /\ w.at = "write" /\ Goes(p, Staged(w, "inactive")) /\ tick' = tick /\ expiring' = expiring
      /\ UNCHANGED <<entryVars, throttled, pending, dropped>>
  BY <1>1 DEF UpdateUserDeviceSummaries, Staged, boundVars
<1>3. \A u \in Guests : online'[u] = IF u \in w.who THEN w.count[u] ELSE online[u]
  BY <1>1 DEF UpdateUserDeviceSummaries
<1>4. ASSUME NEW u \in Guests, u \in w.who, panels'[p].at = "inactive", panels'[p].next = w.next, panels'[p].count = w.count,
             Onward(w, panels'[p])
      PROVE  SummaryTyped(u)' /\ TallyStored(p, u)' /\ FlushAwaits(u)'
  <2>1. Tallying(w, u) /\ TallyStored(p, u) /\ FlushAwaits(u) /\ SummaryTyped(u) /\ w.now \in Nat
    BY <1>1, <1>2, <1>4, TallyKnown
  <2>2. /\ w.next[u] \in Nat \cup {Unset} /\ (w.next[u] = Unset \/ w.next[u] > w.now)
        /\ w.count[u] > 0 => w.next[u] # Unset
        /\ w.next[u] # Unset => expiring[u] = w.next[u] \/ pending[u] > w.now
    BY <2>1, <1>1, <1>2 DEF TallyStored
  <2>3. SummaryTyped(u)' /\ pending'[u] = pending[u] /\ expiring'[u] = expiring[u]
    BY <2>1, <1>2 DEF SummaryTyped
  <2>4. TallyStored(p, u)'
    BY <2>2, <2>3, <1>3, <1>4 DEF TallyStored, Onward
  <2>5. FlushAwaits(u)'
    BY <2>1, <2>2, <2>3, <1>3, <1>4 DEF FlushAwaits, Unset
  <2> QED BY <2>3, <2>4, <2>5
<1>5. \A u \in Guests : u \notin w.who => expiring'[u] = expiring[u] /\ online'[u] = online[u]
  BY <1>2, <1>3
<1> QED BY <1>1, <1>2, <1>4, <1>5, StageKeeps

LEMMA InactiveKeeps == ASSUME DevicesInv, NEW p \in Panels, clearInactiveExpiries(p) PROVE DevicesInv'
<1>1. PICK w : w = panels[p]
  OBVIOUS
<1>2. /\ w.at = "inactive" /\ Goes(p, Staged(w, "flushed")) /\ tick' = tick /\ online' = online
      /\ UNCHANGED <<entryVars, throttled, pending, dropped>>
  BY <1>1 DEF clearInactiveExpiries, Staged, boundVars
<1>3. \A u \in Guests : expiring'[u] = IF u \in w.who /\ w.next[u] = Unset THEN Unset ELSE expiring[u]
  BY <1>1 DEF clearInactiveExpiries
<1>4. ASSUME NEW u \in Guests, u \in w.who, panels'[p].at = "flushed", panels'[p].next = w.next, panels'[p].count = w.count,
             Onward(w, panels'[p])
      PROVE  SummaryTyped(u)' /\ TallyStored(p, u)' /\ FlushAwaits(u)'
  <2>1. Tallying(w, u) /\ TallyStored(p, u) /\ FlushAwaits(u) /\ SummaryTyped(u)
    BY <1>1, <1>2, <1>4, TallyKnown
  <2>2. /\ w.next[u] \in Nat \cup {Unset} /\ (w.next[u] = Unset \/ w.next[u] > w.now)
        /\ w.count[u] > 0 => w.next[u] # Unset
        /\ w.next[u] # Unset => expiring[u] = w.next[u] \/ pending[u] > w.now
        /\ online[u] = w.count[u]
    BY <2>1, <1>1, <1>2 DEF TallyStored
  <2>3. SummaryTyped(u)' /\ pending'[u] = pending[u] /\ online'[u] = online[u]
    BY <2>1, <1>2, <1>3, <1>4 DEF SummaryTyped
  <2>4. TallyStored(p, u)'
    BY <2>2, <2>3, <1>3, <1>4 DEF TallyStored, Onward
  <2>5. FlushAwaits(u)'
    BY <2>1, <2>2, <2>3, <1>3, <1>4 DEF FlushAwaits
  <2> QED BY <2>3, <2>4, <2>5
<1>5. \A u \in Guests : u \notin w.who => expiring'[u] = expiring[u] /\ online'[u] = online[u]
  BY <1>2, <1>3
<1> QED BY <1>1, <1>2, <1>4, <1>5, StageKeeps

\* What was due is struck off: only from users the operation counted, whose summary now says it all.
LEMMA StrikeCounted ==
    ASSUME DevicesTyped, NEW u \in Guests, UserSound(u), NEW p \in Panels, OnlyPanel(p), panels[p].at = "flushed", u \in panels[p].who,
           panels'[p].at = "ready", devices'[u] = devices[u], throttled'[u] = throttled[u], online'[u] = online[u], dropped' = dropped,
           pending'[u] = pending[u] \/ (pending'[u] = Unset /\ pending[u] <= panels[p].now),
           expiring'[u] = expiring[u] \/ (expiring'[u] = Unset /\ expiring[u] <= panels[p].now)
    PROVE  UserSound(u)'
<1>1. PICK w : w = panels[p]
  OBVIOUS
<1>2. w.at = "flushed" /\ u \in w.who /\ Counting(w, u) /\ Tallying(w, u) /\ ~Upcoming(w, u)
  BY <1>1 DEF Counting, Tallying, Upcoming
<1>3. /\ w.now \in Nat /\ w.now <= tick /\ tick \in Nat /\ Throttle \in Nat /\ throttled[u] \in Nat
      /\ pending[u] \in Nat \cup {Unset} /\ expiring[u] \in Nat \cup {Unset}
  BY <1>1, <1>2, DeviceConstants DEF DevicesTyped, OnTime, SummaryTyped
<1>4. OwnSound(p, u)
  BY DEF UserSound
<1>5. throttled[u] >= w.now + Throttle
  BY <1>1, <1>2, <1>4 DEF OwnSound, WriteTaken
<1>6. /\ w.next[u] \in Nat \cup {Unset} /\ (w.next[u] = Unset \/ w.next[u] > w.now)
      /\ w.count[u] > 0 => w.next[u] # Unset
      /\ w.next[u] # Unset => expiring[u] = w.next[u] \/ pending[u] > w.now
      /\ online[u] = w.count[u]
      /\ w.next[u] = Unset => expiring[u] = Unset
  BY <1>1, <1>2, <1>4 DEF OwnSound, TallyStored
<1>7. pending[u] > w.now => pending'[u] = pending[u]
  BY <1>1, <1>3
<1>8. pending[u] <= w.now => expiring'[u] = w.next[u]
  BY <1>1, <1>3, <1>6 DEF Unset
<1>9. OwnSound(p, u)'
  BY DEF OwnSound, WriteTaken, FlushCovered, TallyStored, TallyRight, Counting, Tallying
<1>10. ASSUME NEW q \in Panels, q # p PROVE OwnSound(q, u)'
  <2>1. PICK v : v = panels[q]
    OBVIOUS
  <2>2. panels'[q] = v /\ tick' = tick
    BY <1>10, <2>1 DEF OnlyPanel
  <2>3. ~Counting(v, u) /\ ~Tallying(v, u) /\ ~Outrun(q, u)
    BY <1>1, <1>2, <1>10, <2>1, <2>2, CountedOthers
  <2>4. FlushCovered(q, u)
    BY DEF UserSound, OwnSound
  <2>5. FlushCovered(q, u)'
    <3>1. SUFFICES ASSUME v.at \in {"list", "clean", "expire", "write", "inactive", "flushed"}, u \notin v.who PROVE PutOff(q, u)'
      BY <2>1, <2>2, <2>4 DEF FlushCovered
    <3>2. PutOff(q, u)
      BY <3>1, <2>1, <2>4 DEF FlushCovered
    <3>3. v.now \in Nat
      BY <3>1, <2>1 DEF DevicesTyped, OnTime
    <3>4. <<"pending", u>> \in v.flush => pending'[u] = Unset \/ pending'[u] > v.now
      BY <3>2, <2>1 DEF PutOff
    <3>5. ASSUME <<"expiry", u>> \in v.flush PROVE pending'[u] > v.now \/ Outrun(q, u)'
      <4>1. pending[u] > v.now
        BY <3>2, <3>5, <2>1, <2>3 DEF PutOff
      <4>2. CASE pending'[u] = pending[u]
        BY <4>1, <4>2
      <4>3. CASE pending'[u] = Unset /\ pending[u] <= w.now
        <5>1. w.now > v.now
          BY <4>1, <4>3, <3>3, <1>3 DEF Unset
        <5>2. throttled'[u] > v.now + Throttle
          BY <5>1, <3>3, <1>3, <1>5
        <5>3. expiring'[u] = Unset \/ expiring'[u] > v.now
          BY <5>1, <4>3, <3>3, <1>3, <1>6, <1>8
        <5>4. \A k \in Panels : ~Counting(panels'[k], u)
          <6>1. ~Counting(panels'[p], u)
            BY DEF Counting
          <6>2. ASSUME NEW k \in Panels, k # p PROVE ~Counting(panels'[k], u)
            BY <6>2, <1>1, <1>2, CountedOthers
          <6> QED BY <6>1, <6>2
        <5> QED BY <5>2, <5>3, <5>4, <2>1, <2>2 DEF Outrun, Uncounted
      <4> QED BY <4>2, <4>3, <1>1
    <3> QED BY <3>4, <3>5, <2>2 DEF PutOff
  <2> QED BY <2>2, <2>3, <2>5 DEF OwnSound, WriteTaken, TallyStored, TallyRight
<1>11. CountedOnce(u)'
  <2>1. ~Counting(panels'[p], u)
    BY DEF Counting
  <2>2. ASSUME NEW k \in Panels, k # p PROVE ~Counting(panels'[k], u)
    BY <2>2, <1>1, <1>2, CountedOthers
  <2> QED BY <2>1, <2>2 DEF CountedOnce
<1>12. SummaryRight(u)'
  <2>1. SUFFICES ASSUME ~Stirred(u)' PROVE \E n \in Nat : n <= tick' /\ RightAt(devices'[u], online'[u], expiring'[u], n)
    BY DEF SummaryRight
  <2>2. u \notin dropped' /\ pending'[u] = Unset /\ ~AnyUpcoming(u)'
    BY <2>1 DEF Stirred
  <2>3. ~(pending[u] > w.now)
    BY <2>2, <1>3, <1>7 DEF Unset
  <2>4. ~AnyUpcoming(u)
    BY <2>2, <1>1, <1>2, ElsewhereUpcoming
  <2>5. RightAt(devices[u], w.count[u], w.next[u], w.now)
    BY <2>2, <2>3, <2>4, <1>1, <1>2, <1>4 DEF OwnSound, TallyRight, StirredSince
  <2>6. expiring'[u] = w.next[u]
    BY <2>3, <1>3, <1>8 DEF Unset
  <2>7. RightAt(devices'[u], online'[u], expiring'[u], w.now)
    BY <2>5, <2>6, <1>6
  <2> QED BY <2>7, <1>3 DEF OnlyPanel
<1>13. FlushAwaits(u)'
  <2>1. SUFFICES ASSUME online'[u] > 0, pending'[u] = Unset PROVE expiring'[u] # Unset
    BY DEF FlushAwaits
  <2>2. ~(pending[u] > w.now)
    BY <2>1, <1>3, <1>7 DEF Unset
  <2>3. expiring'[u] = w.next[u] /\ w.next[u] # Unset
    BY <2>1, <2>2, <1>3, <1>6, <1>8 DEF Unset
  <2> QED BY <2>3
<1> QED BY <1>9, <1>10, <1>11, <1>12, <1>13 DEF UserSound

LEMMA StrikeKeeps == ASSUME DevicesInv, NEW p \in Panels, removeDuePending(p) PROVE DevicesInv'
<1>0. DevicesTyped
  BY DEF DevicesInv
<1>1. PICK w : w = panels[p]
  OBVIOUS
<1>2. w.at = "flushed" /\ w.now \in Nat
  BY <1>0, <1>1 DEF removeDuePending, DevicesTyped, OnTime
<1>3. Goes(p, Ready) /\ UNCHANGED <<entryVars, throttled, online, boundVars, dropped>>
  BY DEF removeDuePending
<1>4. tick' = tick /\ OnlyPanel(p) /\ panels'[p].at = "ready" /\ DOMAIN panels' = Panels
  <2>1. tick' = tick
    BY <1>3 DEF boundVars
  <2> QED BY <2>1, <1>0, <1>3, GoesOnly DEF DevicesTyped, Ready
<1>5. ASSUME NEW u \in Guests
      PROVE  /\ pending'[u] = IF <<"pending", u>> \in w.flush /\ pending[u] <= w.now THEN Unset ELSE pending[u]
             /\ expiring'[u] = IF <<"expiry", u>> \in w.flush /\ expiring[u] <= w.now THEN Unset ELSE expiring[u]
  BY <1>1 DEF removeDuePending
<1>6. ASSUME NEW u \in Guests PROVE SummaryTyped(u)' /\ UserSound(u)'
  <2>1. UserSound(u) /\ SummaryTyped(u)
    BY <1>0 DEF DevicesInv, DevicesTyped
  <2>2. devices'[u] = devices[u] /\ throttled'[u] = throttled[u] /\ online'[u] = online[u] /\ dropped' = dropped
    BY <1>3 DEF entryVars
  <2>3. SummaryTyped(u)'
    BY <2>1, <2>2, <1>5 DEF SummaryTyped
  <2>4. CASE u \in w.who
    <3>1. /\ pending'[u] = pending[u] \/ (pending'[u] = Unset /\ pending[u] <= w.now)
          /\ expiring'[u] = expiring[u] \/ (expiring'[u] = Unset /\ expiring[u] <= w.now)
      BY <1>5
    <3> QED BY <2>1, <2>2, <2>3, <2>4, <3>1, <1>0, <1>1, <1>2, <1>4, StrikeCounted
  <2>5. CASE u \notin w.who
    <3>1. PutOff(p, u)
      BY <2>1, <2>5, <1>1, <1>2 DEF UserSound, OwnSound, FlushCovered
    <3>2. pending'[u] = pending[u]
      BY <3>1, <2>1, <1>1, <1>2, <1>5 DEF PutOff, SummaryTyped, Unset
    <3>3. expiring'[u] = expiring[u] \/ (expiring'[u] = Unset /\ pending'[u] > expiring[u])
      BY <3>1, <3>2, <2>1, <1>1, <1>2, <1>5 DEF PutOff, Outrun, SummaryTyped, Unset
    <3>4. ~Counting(w, u) /\ ~Upcoming(w, u) /\ ~Counting(panels'[p], u) /\ ~Tallying(panels'[p], u)
      BY <2>5, <1>2, <1>4 DEF Counting, Upcoming, Tallying
    <3>5. AnyUpcoming(u) => AnyUpcoming(u)'
      BY <3>4, <1>1, <1>4, ElsewhereUpcoming
    <3>6. Mild(p, u)
      BY <3>2, <3>3, <3>4, <3>5, <2>2, <1>4 DEF Mild
    <3>7. OwnSound(p, u)'
      BY <3>4, <1>4 DEF OwnSound, WriteTaken, FlushCovered, TallyStored, TallyRight
    <3> QED BY <2>1, <2>3, <3>4, <3>6, <3>7, <1>0, <1>1, MildKeeps
  <2> QED BY <2>4, <2>5
<1>7. OperationOK(panels'[p]) /\ OnTime(panels'[p], tick)
  BY <1>4 DEF OperationOK, OnTime
<1>8. UNCHANGED entryVars
  BY <1>3
<1> QED BY <1>4, <1>6, <1>7, <1>8, SummaryStep

LEMMA StillKeeps ==
    ASSUME DevicesInv, UNCHANGED <<entryVars, summaryVars, panels, dropped>>, tick' \in Nat, tick <= tick',
           \A p \in Panels : OnTime(panels[p], tick')
    PROVE  DevicesInv'
<1>1. /\ devices' = devices /\ nodeUsers' = nodeUsers /\ throttled' = throttled /\ pending' = pending
      /\ expiring' = expiring /\ online' = online /\ panels' = panels /\ dropped' = dropped
  BY DEF entryVars, summaryVars
<1>2. DevicesTyped'
  BY <1>1 DEF DevicesInv, DevicesTyped, IndexTyped, EntriesTyped, SummaryTyped
<1>3. ASSUME NEW u \in Guests PROVE UserSound(u)'
  <2>1. UserSound(u)
    BY DEF DevicesInv
  <2>2. AnyUpcoming(u)' <=> AnyUpcoming(u)
    BY <1>1 DEF AnyUpcoming
  <2>3. CountedOnce(u)' /\ FlushAwaits(u)'
    BY <2>1, <1>1 DEF UserSound, CountedOnce, FlushAwaits
  <2>4. SummaryRight(u)'
    <3>1. SUFFICES ASSUME ~Stirred(u), \A p \in Panels : ~Tallying(panels[p], u)
                   PROVE  \E n \in Nat : n <= tick' /\ RightAt(devices[u], online[u], expiring[u], n)
      BY <2>2, <1>1 DEF SummaryRight, Stirred
    <3>2. PICK n \in Nat : n <= tick /\ RightAt(devices[u], online[u], expiring[u], n)
      BY <3>1, <2>1 DEF UserSound, SummaryRight
    <3>3. n <= tick'
      BY <3>2 DEF DevicesInv, DevicesTyped
    <3> QED BY <3>2, <3>3
  <2>5. ASSUME NEW p \in Panels PROVE OwnSound(p, u)'
    <3>1. OwnSound(p, u)
      BY <2>1 DEF UserSound
    <3>2. WriteTaken(p, u)' /\ TallyStored(p, u)'
      BY <3>1, <1>1 DEF OwnSound, WriteTaken, TallyStored
    <3>3. FlushCovered(p, u)'
      BY <3>1, <1>1 DEF OwnSound, FlushCovered, PutOff, Outrun, Uncounted
    <3>4. TallyRight(p, u)'
      BY <3>1, <2>2, <1>1 DEF OwnSound, TallyRight, StirredSince
    <3> QED BY <3>2, <3>3, <3>4 DEF OwnSound
  <2> QED BY <2>3, <2>4, <2>5 DEF UserSound
<1> QED BY <1>2, <1>3 DEF DevicesInv

LEMMA DeviceTickKeeps == ASSUME DevicesInv, DeviceTick PROVE DevicesInv'
<1>1. tick \in Nat /\ tick' = tick + 1 /\ UNCHANGED <<entryVars, summaryVars, panels, dropped>>
  BY DEF DevicesInv, DevicesTyped, DeviceTick
<1>2. ASSUME NEW p \in Panels PROVE OnTime(panels[p], tick')
  <2>1. OnTime(panels[p], tick)
    BY DEF DevicesInv, DevicesTyped
  <2>2. panels[p].at # "ready" => tick < panels[p].now + Patience
    BY DEF DeviceTick, Ready
  <2> QED BY <2>1, <2>2, <1>1, DeviceConstants DEF OnTime
<1> QED BY <1>1, <1>2, StillKeeps

LEMMA DevicesBegin == DevicesInit => DevicesInv
<1> SUFFICES ASSUME DevicesInit PROVE DevicesInv
  OBVIOUS
<1>1. \A p \in Panels : panels[p].at = "ready"
  BY DEF DevicesInit, Ready
<1>2. DevicesTyped
  BY <1>1 DEF DevicesInit, DevicesTyped, IndexTyped, EntriesTyped, EntriesOf, SummaryTyped, OperationOK, OnTime, Unset
<1>3. ASSUME NEW u \in Guests PROVE UserSound(u)
  <2>1. devices[u] = {} /\ online[u] = 0 /\ expiring[u] = Unset
    BY DEF DevicesInit
  <2>2. RightAt({}, 0, Unset, 0)
    <3>1. LiveOf({}, 0) = {}
      BY DEF LiveOf
    <3>2. NumberOnline({}, 0) = 0
      BY <3>1, NobodyOnline
    <3> QED BY <3>1, <3>2 DEF RightAt, NumberOnline
  <2>3. SummaryRight(u)
    BY <2>1, <2>2, <1>2 DEF SummaryRight, DevicesTyped
  <2>4. CountedOnce(u) /\ FlushAwaits(u)
    BY <2>1, <1>1 DEF CountedOnce, FlushAwaits, Counting
  <2>5. \A p \in Panels : OwnSound(p, u)
    BY <1>1 DEF OwnSound, WriteTaken, FlushCovered, TallyStored, TallyRight, Counting, Tallying
  <2> QED BY <2>3, <2>4, <2>5 DEF UserSound
<1> QED BY <1>2, <1>3 DEF DevicesInv

LEMMA DevicesStep == ASSUME DevicesInv, [DevicesNext]_deviceVars PROVE DevicesInv'
<1>1. CASE UNCHANGED deviceVars
  <2>1. UNCHANGED <<entryVars, summaryVars, panels, dropped>> /\ tick' = tick
    BY <1>1 DEF deviceVars, entryVars, summaryVars
  <2>2. tick \in Nat /\ \A p \in Panels : OnTime(panels[p], tick)
    BY DEF DevicesInv, DevicesTyped
  <2> QED BY <2>1, <2>2, StillKeeps
<1>2. CASE DeviceTick
  BY <1>2, DeviceTickKeeps
<1>3. ASSUME NEW p \in Panels, NEW n \in Relays, NEW us \in SUBSET Guests, NEW all \in BOOLEAN,
             NEW seen \in [us -> SUBSET Phones], ReplaceNodeDevices(p, n, seen, all)
      PROVE  DevicesInv'
  BY <1>3, ReplaceKeeps
<1>4. ASSUME NEW p \in Panels, NEW n \in Relays, ClearNodeDevices(p, n) PROVE DevicesInv'
  BY <1>4, ClearNodeKeeps
<1>5. ASSUME NEW p \in Panels, NEW u \in Guests, ClearUserDevices(p, u) PROVE DevicesInv'
  BY <1>5, ClearUserKeeps
<1>6. ASSUME NEW p \in Panels,
             \/ scanSetIDs(p) \/ replaceNodeDevicesScript(p) \/ ScriptsDone(p) \/ WipeUser(p)
             \/ FlushPending(p) \/ ReserveWrites(p) \/ DeferOthers(p) \/ listUserDevices(p) \/ cleanupStaleFields(p)
             \/ scheduleExpiries(p) \/ UpdateUserDeviceSummaries(p) \/ clearInactiveExpiries(p) \/ removeDuePending(p)
             \/ OperationFails(p)
      PROVE  DevicesInv'
  BY <1>6, ScanKeeps, ScriptKeeps, DoneKeeps, WipeKeeps, FlushKeeps, ReserveKeeps, DeferKeeps, ListKeeps, CleanKeeps,
     ExpireKeeps, WriteKeeps, InactiveKeeps, StrikeKeeps, OperationFailKeeps
<1> QED BY <1>1, <1>2, <1>3, <1>4, <1>5, <1>6 DEF DevicesNext

LEMMA DevicesInvHonest == ASSUME DevicesInv PROVE SummariesHonest
<1>1. ASSUME NEW u \in Guests, \A p \in Panels : panels[p] = Ready, pending[u] = Unset, u \notin DueBy(expiring, tick), u \notin dropped
      PROVE  online[u] = Cardinality(OnlineAt(u, tick))
  <2>1. ~Stirred(u) /\ \A p \in Panels : ~Tallying(panels[p], u)
    BY <1>1 DEF Stirred, AnyUpcoming, Upcoming, Tallying, Ready
  <2>2. PICK n \in Nat : n <= tick /\ RightAt(devices[u], online[u], expiring[u], n)
    BY <2>1 DEF DevicesInv, UserSound, SummaryRight
  <2>3. /\ expiring[u] \in Nat \cup {Unset} /\ EntriesOf(devices[u]) /\ tick \in Nat /\ Window \in Nat
        /\ expiring[u] = Unset \/ expiring[u] > tick
    BY <1>1, DeviceConstants DEF DevicesInv, DevicesTyped, SummaryTyped, EntriesTyped, DueBy, Unset
  <2>4. ASSUME NEW e \in LiveOf(devices[u], n) PROVE e \in LiveOf(devices[u], tick)
    <3>1. e \in devices[u] /\ e.seen \in Nat
      BY <2>3, <2>4 DEF LiveOf, EntriesOf, DeviceEntry
    <3>2. expiring[u] # Unset
      BY <2>2, <2>4 DEF RightAt
    <3>3. expiring[u] <= e.seen + Window /\ expiring[u] \in Nat /\ expiring[u] > tick
      BY <3>2, <2>2, <2>3, <2>4 DEF RightAt
    <3> QED BY <3>1, <3>3, <2>3 DEF LiveOf
  <2>5. ASSUME NEW e \in LiveOf(devices[u], tick) PROVE e \in LiveOf(devices[u], n)
    <3>1. e \in devices[u] /\ e.seen \in Nat
      BY <2>3, <2>5 DEF LiveOf, EntriesOf, DeviceEntry
    <3> QED BY <3>1, <2>2, <2>3, <2>5 DEF LiveOf
  <2>6. LiveOf(devices[u], n) = LiveOf(devices[u], tick)
    BY <2>4, <2>5
  <2>7. LiveAt(u, tick) = LiveOf(devices[u], tick)
    BY DEF LiveAt, LiveOf
  <2> QED BY <2>2, <2>6, <2>7 DEF RightAt, OnlineAt
<1>2. \A u \in Guests : online[u] > 0 => pending[u] # Unset \/ expiring[u] # Unset
  BY DEF DevicesInv, UserSound, FlushAwaits
<1> QED BY <1>1, <1>2 DEF SummariesHonest

\* The count in the database (service.go notifyUsers, FlushPending): for any panels, nodes, users
\* and addresses, however the round trips of their operations interleave and wherever one fails, a
\* user shown online has a flush to come, and once nothing is under way or due the count is the
\* number of addresses online, unless an operation left a change uncounted.
THEOREM SummariesStayHonest == DevicesSpec => []SummariesHonest
<1>1. DevicesInit => DevicesInv
  BY DevicesBegin
<1>2. DevicesInv /\ [DevicesNext]_deviceVars => DevicesInv'
  BY DevicesStep
<1>3. DevicesInv => SummariesHonest
  BY DevicesInvHonest
<1> QED BY <1>1, <1>2, <1>3, PTL DEF DevicesSpec
=============================================================================
