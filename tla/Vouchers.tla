------------------------------ MODULE Vouchers ------------------------------
(***************************************************************************)
(* Gift cards and coupons.  An administrator designs templates and issues  *)
(* codes; a customer redeems a code for money, traffic, a plan or a paid   *)
(* purchase, and the inviter gets a share; a coupon lowers the price of an *)
(* order and has a number of uses.  A form is saved in two steps, from     *)
(* what its handler read to what is stored by then.                        *)
(*                                                                         *)
(* A reward is its money and traffic, a subscription its plan, traffic and *)
(* the months left (-1: without end).  Rates are in units of Base.         *)
(***************************************************************************)
EXTENDS Integers, Sequences, FiniteSets, FiniteSetsExt

CONSTANTS
    Redeemers,
    InviterOf,      \* who invited whom
    Templates,
    Forms,          \* what a template form may say
    Base,           \* basis points of a whole
    MaxGift,       \* maxGiftCardMoney
    MaxCodes,       \* bound: codes issued in a behaviour
    MaxUses,        \* maxGiftCardUsage
    MaxEdits,       \* bound: forms opened
    Desks,          \* administrators' requests in progress
    CodeLives,      \* expiries a code is issued with
    PlanTraffic,    \* what a plan's traffic may be set to
    Coupons,
    MaxSales,       \* bound: orders
    Nothing             \* no plan, no inviter, no template, no expiry

ASSUME VoucherConstants ==
    /\ {Base, MaxGift, MaxCodes, MaxUses} \subseteq Nat \ {0}
    /\ {MaxEdits, MaxSales} \subseteq Nat
    /\ InviterOf \in [Redeemers -> Redeemers \cup {Nothing}]
    /\ Forms \subseteq [type : {"general", "plan", "mystery", "purchase"}, on : BOOLEAN, perUser : Nat, share : Nat,
                       festival : Nat, rewards : SUBSET [money : Nat, traffic : Nat], validity : Nat,
                       who : {"any", "invited", "planned", "unplanned"}, cooldown : Nat]
    /\ Nothing \notin Coupons
    /\ CodeLives \subseteq Int /\ PlanTraffic \subseteq Nat

VARIABLES
    cards,          \* gift_card_templates
    vouchers,       \* gift_card_codes
    wallets,        \* the customers' money, subscription and whether they are banned
    usages,         \* gift_card_usages, with the orders of purchase codes
    plan,           \* the one plan as it is now: its traffic
    desks,          \* what a handler read before it writes
    edits,
    coupons,
    sales           \* orders, with the coupon

voucherVars == <<cards, vouchers, wallets, usages, plan, desks, edits, coupons, sales>>

NoCard == [type |-> Nothing]
FreeDesk == [op |-> "none"]
IssuedCodes == DOMAIN vouchers
CodesOf(t) == {c \in IssuedCodes : vouchers[c].template = t /\ vouchers[c].status # "deleted"}
UsagesOf(c) == {i \in DOMAIN usages : usages[i].code = c}
OnlyCards == UNCHANGED <<vouchers, wallets, usages, plan, coupons, sales>>
OnlyCodes == UNCHANGED <<cards, wallets, usages, plan, coupons, sales>>

\* Forms that pass: a purchase card has no limits of its own and no festival, a plan card no other
\* reward than the plan and how long it is valid, a mystery card a pool of rewards.
validateGiftCardReward(f) ==
    /\ f.type \in {"plan", "purchase"} => f.rewards = {[money |-> 0, traffic |-> 0]}
    /\ f.type = "general" => Cardinality(f.rewards) = 1
    /\ f.type # "plan" => f.validity = 0
normalizeGiftCardTemplate(f) ==
    /\ f.type = "purchase" => f.perUser = 0 /\ f.share = 0 /\ f.festival = Base
    /\ f.type # "purchase" => f.perUser >= 1
    /\ validateGiftCardReward(f)

CreateGiftCardTemplate(t) ==
    /\ cards[t] = NoCard
    /\ \E f \in Forms : normalizeGiftCardTemplate(f) /\ cards' = [cards EXCEPT ![t] = f]
    /\ OnlyCards /\ UNCHANGED <<desks, edits>>

createGiftCardTemplate(t) == CreateGiftCardTemplate(t)
legacyCreateGiftCardTemplate(t) == CreateGiftCardTemplate(t)

\* A form is merged with the template the handler read, under its revision.
GetGiftCardTemplate(d, t) ==
    /\ desks[d] = FreeDesk /\ edits < MaxEdits /\ cards[t] # NoCard
    /\ desks' = [desks EXCEPT ![d] = [op |-> "template", id |-> t, seen |-> cards[t]]]
    /\ edits' = edits + 1
    /\ OnlyCards /\ UNCHANGED cards

updateGiftCardTemplate(d, t) == GetGiftCardTemplate(d, t)
legacyUpdateGiftCardTemplate(d, t) == GetGiftCardTemplate(d, t)

UpdateGiftCardTemplate(d) ==
    LET t == desks[d].id IN
    /\ desks[d].op = "template"
    /\ \E f \in Forms :
        IF /\ normalizeGiftCardTemplate(f) /\ cards[t] = desks[d].seen
           /\ ~(CodesOf(t) # {} /\ f.type # cards[t].type /\ "purchase" \in {f.type, cards[t].type})
        THEN cards' = [cards EXCEPT ![t] = f]
        ELSE UNCHANGED cards
    /\ desks' = [desks EXCEPT ![d] = FreeDesk]
    /\ OnlyCards /\ UNCHANGED edits

DeleteGiftCardTemplate(t) ==
    /\ cards[t] # NoCard /\ CodesOf(t) = {}
    /\ cards' = [cards EXCEPT ![t] = NoCard]
    /\ OnlyCards /\ UNCHANGED <<desks, edits>>

deleteGiftCardTemplate(t) == DeleteGiftCardTemplate(t)
legacyDeleteGiftCardTemplate(t) == DeleteGiftCardTemplate(t)

-----------------------------------------------------------------------------
purchaseSnapshot(t) == IF cards[t].type = "purchase" THEN plan ELSE Nothing

\* A batch of one.  A purchase code is good once, and keeps what the plan was when it was issued.
GenerateGiftCardCodes(t) ==
    /\ cards[t] # NoCard /\ cards[t].on /\ Len(vouchers) < MaxCodes
    /\ \E max \in 1..MaxUses, life \in CodeLives :
        /\ cards[t].type = "purchase" => max = 1
        /\ vouchers' = Append(vouchers,
                [template |-> t, status |-> "active", used |-> 0, max |-> max, life |-> life,
                 snap |-> purchaseSnapshot(t)])
    /\ OnlyCodes /\ UNCHANGED <<desks, edits>>

generateGiftCardCodes(t) == GenerateGiftCardCodes(t)
legacyGenerateGiftCardCodes(t) == GenerateGiftCardCodes(t)

CodeExpired(c) == c.life = 0
MayBeActive(c) == c.used < c.max /\ ~CodeExpired(c)

\* A handler reads the code it is about to write.
GetGiftCardCode(d, c, ops) ==
    /\ desks[d] = FreeDesk /\ edits < MaxEdits /\ vouchers[c].status # "deleted"
    /\ \E op \in ops :
        desks' = [desks EXCEPT ![d] = [op |-> op, id |-> c, seen |-> vouchers[c]]]
    /\ edits' = edits + 1
    /\ OnlyCodes /\ UNCHANGED vouchers

updateGiftCardCode(d, c) == GetGiftCardCode(d, c, {"code"})
legacyUpdateGiftCardCode(d, c) == GetGiftCardCode(d, c, {"code"})

\* Mutant: the form is not compared with the uses by now.
SaveUnchecked(c, form) == TRUE

\* What the transaction asks of the form against the code as it is by then.
Savable(c, form) ==
    /\ c.status # "deleted"
    /\ c.snap # Nothing => form.max = 1
    /\ form.max >= c.used
    /\ form.status = "active" => c.used < form.max /\ ~CodeExpired(form)

\* The handler fills what the form leaves out from what it read, the status too.
UpdateGiftCardCode(d) ==
    LET c == vouchers[desks[d].id]
        seen == desks[d].seen
    IN
    /\ desks[d].op = "code"
    /\ \E status \in {seen.status, "active", "used", "disabled", "expired"}, max \in {seen.max} \cup 1..MaxUses :
        vouchers' = IF Savable(c, [seen EXCEPT !.status = status, !.max = max])
                    THEN [vouchers EXCEPT ![desks[d].id].status = status, ![desks[d].id].max = max,
                                          ![desks[d].id].life = seen.life]
                    ELSE vouchers
    /\ desks' = [desks EXCEPT ![d] = FreeDesk]
    /\ OnlyCodes /\ UNCHANGED edits

\* ToggleGiftCardCode turns the status over, whatever it is by then.
Toggled(c) ==
    CASE c.status = "disabled" /\ MayBeActive(c) -> [c EXCEPT !.status = "active"]
      [] c.status = "active" -> [c EXCEPT !.status = "disabled"]
      [] OTHER -> c

ToggleGiftCardCode(c) == vouchers' = [vouchers EXCEPT ![c] = Toggled(@)]

toggleGiftCardCode(c) ==
    /\ edits < MaxEdits /\ vouchers[c].status # "deleted"
    /\ ToggleGiftCardCode(c)
    /\ edits' = edits + 1
    /\ OnlyCodes /\ UNCHANGED desks

\* The old panel's disable and enable look at the status first, and toggle if it is the other one.
legacyToggleGiftCardCode(d) ==
    LET c == desks[d].id
        seen == desks[d].seen.status
    IN
    /\ desks[d].op \in {"disable", "enable"}
    /\ IF seen = (IF desks[d].op = "disable" THEN "active" ELSE "disabled") /\ vouchers[c].status # "deleted"
       THEN ToggleGiftCardCode(c) ELSE UNCHANGED vouchers
    /\ desks' = [desks EXCEPT ![d] = FreeDesk]
    /\ OnlyCodes /\ UNCHANGED edits

DeleteGiftCardCode(c) ==
    /\ vouchers[c].status # "deleted" /\ UsagesOf(c) = {}
    /\ vouchers' = [vouchers EXCEPT ![c].status = "deleted"]
    /\ OnlyCodes /\ UNCHANGED <<desks, edits>>

deleteGiftCardCode(c) == DeleteGiftCardCode(c)
legacyDeleteGiftCardCode(c) == DeleteGiftCardCode(c)

-----------------------------------------------------------------------------
\* In two parts, so that the product stays in 64 bits.
multiplyGiftCardInt64(value, rate) == (value \div Base) * rate + ((value % Base) * rate) \div Base

multiplyGiftCardReward(r, rate) ==
    [money |-> multiplyGiftCardInt64(r.money, rate), traffic |-> multiplyGiftCardInt64(r.traffic, rate)]

\* One of the pool, times the festival's rate.
selectGiftCardMysteryReward(card) == card.rewards
Drawn(card) == {multiplyGiftCardReward(r, card.festival) : r \in selectGiftCardMysteryReward(card)}

FitsWallet(u, reward) == wallets[u].money <= MaxGift - reward.money

InviterShare(card, u, reward) ==
    IF InviterOf[u] = Nothing THEN [money |-> 0, traffic |-> 0]
    ELSE multiplyGiftCardReward(reward, card.share)

\* Whether this customer may use a card of this template now; who stands for the conditions on
\* invitation, payments, age and plan of the account.
validateGiftCardUserConditions(u, t) ==
    LET card == cards[t]
        w == wallets[u]
        used == {i \in DOMAIN usages : usages[i].user = u /\ usages[i].template = t}
    IN
    /\ ~w.banned
    /\ CASE card.who = "invited" -> InviterOf[u] # Nothing
         [] card.who = "planned" -> w.plan # Nothing
         [] card.who = "unplanned" -> w.plan = Nothing
         [] OTHER -> TRUE
    /\ card.type = "plan" => ~(w.plan # Nothing /\ w.months # 0)
    /\ card.type = "general" /\ (\E r \in card.rewards : r.traffic > 0) => w.plan # Nothing
    /\ Cardinality(used) < card.perUser
    /\ \A i \in used : usages[i].age >= card.cooldown

\* A purchase code renews the subscription or starts one, never changes its kind: one without end
\* gets traffic on top, one with months gets months.
giftPurchasePreview(u, snap) ==
    LET w == wallets[u] IN
    w.plan # Nothing => (w.months = -1) = (snap.months = -1)

applyGiftPurchase(u, snap) ==
    LET w == wallets[u] IN
    [w EXCEPT !.plan = "plan",
              !.traffic = IF w.plan = Nothing THEN snap.traffic
                          ELSE w.traffic + (IF snap.months = -1 THEN snap.traffic ELSE 0),
              !.months = IF snap.months = -1 THEN -1
                         ELSE (IF w.plan # Nothing THEN w.months ELSE 0) + snap.months]

\* A plan card without a validity leaves the account its expiry: the one of the plan that ran out, or
\* none.
PlanMonths(u, t) ==
    LET validity == multiplyGiftCardInt64(cards[t].validity, cards[t].festival) IN
    IF validity > 0 THEN validity ELSE IF wallets[u].plan = Nothing THEN -1 ELSE wallets[u].months

\* The account after a reward of the kinds that are not purchases.
applyGiftCardReward(u, t, reward) ==
    IF cards[t].type = "plan"
    THEN [wallets[u] EXCEPT !.plan = "plan", !.traffic = plan.traffic, !.months = PlanMonths(u, t)]
    ELSE [wallets[u] EXCEPT !.money = @ + reward.money, !.traffic = @ + reward.traffic]

Usage(u, c, reward, share) ==
    [code |-> c, template |-> vouchers[c].template, user |-> u, reward |-> reward, share |-> share,
     age |-> 0]

\* The claim of one use: the status turns with the last.
ClaimedUse(c) ==
    [vouchers EXCEPT ![c].used = @ + 1,
                     ![c].status = IF vouchers[c].used + 1 >= vouchers[c].max THEN "used" ELSE "active"]

OpenOrder(u) == \E i \in DOMAIN sales : sales[i].user = u /\ sales[i].status = "pending"

\* What code and customer must be; a purchase is an order, and a customer has one open order.
checkGiftCard(u, c) ==
    LET t == vouchers[c].template IN
    /\ vouchers[c].status = "active" /\ MayBeActive(vouchers[c]) /\ cards[t].on
    /\ IF cards[t].type = "purchase"
       THEN ~wallets[u].banned /\ ~OpenOrder(u) /\ giftPurchasePreview(u, vouchers[c].snap)
       ELSE validateGiftCardUserConditions(u, t)

\* The wallets after a reward and the inviter's share of it.
applyGiftCardInviterReward(u, mine, share) ==
    IF InviterOf[u] = Nothing THEN mine
    ELSE [mine EXCEPT ![InviterOf[u]].money = @ + share.money, ![InviterOf[u]].traffic = @ + share.traffic]

\* One transaction: check, claim, reward, the inviter's share, the record.  Whoever repeats the
\* redemption of a purchase code is told of the first one.
RedeemGiftCard(u, c) ==
    LET t == vouchers[c].template IN
    /\ checkGiftCard(u, c)
    /\ vouchers' = ClaimedUse(c)
    /\ \/ /\ cards[t].type = "purchase"
          /\ wallets' = [wallets EXCEPT ![u] = applyGiftPurchase(u, vouchers[c].snap)]
          /\ usages' = Append(usages, Usage(u, c, [money |-> 0, traffic |-> 0], [money |-> 0, traffic |-> 0]))
       \/ /\ cards[t].type # "purchase"
          /\ \E reward \in Drawn(cards[t]) :
                LET share == InviterShare(cards[t], u, reward)
                    mine == [wallets EXCEPT ![u] = applyGiftCardReward(u, t, reward)]
                IN
                /\ FitsWallet(u, reward)
                /\ InviterOf[u] # Nothing => FitsWallet(InviterOf[u], share)
                /\ wallets' = applyGiftCardInviterReward(u, mine, share)
                /\ usages' = Append(usages, Usage(u, c, reward, share))
    /\ UNCHANGED <<cards, plan, desks, edits, coupons, sales>>

redeemGiftCard(u, c) == RedeemGiftCard(u, c)
legacyRedeemGiftCard(u, c) == RedeemGiftCard(u, c)

\* An administrator changes the plan that purchase codes were issued for.
EditPlan ==
    /\ edits < MaxEdits
    /\ \E n \in PlanTraffic : n # plan.traffic /\ plan' = [plan EXCEPT !.traffic = n]
    /\ edits' = edits + 1
    /\ UNCHANGED <<cards, vouchers, wallets, usages, desks, coupons, sales>>

\* An administrator bans a customer, or lifts the ban.
SetBanned(u) ==
    /\ edits < MaxEdits
    /\ wallets' = [wallets EXCEPT ![u].banned = ~@]
    /\ edits' = edits + 1
    /\ UNCHANGED <<cards, vouchers, usages, plan, desks, coupons, sales>>

\* Time: codes expire, subscriptions run down.
VouchersAge ==
    /\ (\E c \in IssuedCodes : vouchers[c].life > 0) \/ (\E i \in DOMAIN usages : usages[i].age = 0)
    /\ vouchers' = [c \in IssuedCodes |-> [vouchers[c] EXCEPT !.life = IF @ > 0 THEN @ - 1 ELSE @]]
    /\ wallets' = [u \in Redeemers |-> [wallets[u] EXCEPT !.months = IF @ > 0 THEN @ - 1 ELSE @]]
    /\ usages' = [i \in DOMAIN usages |-> [usages[i] EXCEPT !.age = 1]]
    /\ UNCHANGED <<cards, plan, desks, edits, coupons, sales>>

-----------------------------------------------------------------------------
OnlyCoupons == UNCHANGED <<cards, vouchers, wallets, usages, plan, desks>>

SalesOf(k) == {i \in DOMAIN sales : sales[i].coupon = k}

\* A coupon form sets the uses left and the uses per customer, without limit if it says Nothing, and
\* whether it is shown; given is the uses it had when they were set, with those taken before.
normalizeCouponInput(k) ==
    {[left |-> left, each |-> each, show |-> show,
      given |-> IF left = Nothing THEN Nothing ELSE Cardinality(SalesOf(k)) + left] :
        left \in {Nothing} \cup 0..MaxUses, each \in {Nothing} \cup 0..MaxUses, show \in BOOLEAN}

SaveCoupon(k) ==
    /\ edits < MaxEdits
    /\ \E form \in normalizeCouponInput(k) : coupons' = [coupons EXCEPT ![k] = form]
    /\ edits' = edits + 1
    /\ OnlyCoupons /\ UNCHANGED sales

\* A code that is given, or a batch of random ones; the batch is of one.
CreateCoupon(k) == coupons[k] = Nothing /\ SaveCoupon(k)
CreateCouponBatch(k) == coupons[k] = Nothing /\ SaveCoupon(k)
createAdminCoupon(k) == CreateCoupon(k) \/ CreateCouponBatch(k)
batchAdminCoupons(k) == CreateCouponBatch(k)

\* The handlers keep the visibility they read; it may be another by then.
UpdateCoupon(k) == coupons[k] # Nothing /\ SaveCoupon(k)
updateAdminCoupon(k) == UpdateCoupon(k)
legacyGenerateAdminCoupon(k) == CreateCoupon(k) \/ CreateCouponBatch(k) \/ UpdateCoupon(k)

SetCouponVisibility(k) ==
    /\ coupons[k] # Nothing /\ edits < MaxEdits
    /\ \E show \in BOOLEAN : coupons' = [coupons EXCEPT ![k].show = show]
    /\ edits' = edits + 1
    /\ OnlyCoupons /\ UNCHANGED sales

setAdminCouponVisibility(k) == SetCouponVisibility(k)
legacyUpdateAdminCoupon(k) == SetCouponVisibility(k)
legacyToggleAdminCoupon(k) == SetCouponVisibility(k)

DeleteCoupon(k) ==
    /\ coupons[k] # Nothing /\ SalesOf(k) = {}
    /\ coupons' = [coupons EXCEPT ![k] = Nothing]
    /\ OnlyCoupons /\ UNCHANGED <<sales, edits>>

deleteAdminCoupon(k) == DeleteCoupon(k)
legacyDeleteAdminCoupon(k) == DeleteCoupon(k)

\* Pending and cancelled orders do not count for the customer's limit.
validateCoupon(k, u) ==
    /\ coupons[k] # Nothing /\ coupons[k].show /\ coupons[k].left # 0
    /\ coupons[k].each # Nothing =>
        Cardinality({i \in SalesOf(k) : sales[i].user = u /\ sales[i].status \notin {"pending", "cancelled"}})
            < coupons[k].each

\* The order takes a use with it, and keeps it when it is cancelled; a customer has one open order.
OrderWithCoupon(k, u) ==
    /\ Len(sales) < MaxSales /\ validateCoupon(k, u) /\ ~OpenOrder(u)
    /\ sales' = Append(sales, [coupon |-> k, user |-> u, status |-> "pending"])
    /\ coupons' = [coupons EXCEPT ![k].left = IF @ = Nothing THEN @ ELSE @ - 1]
    /\ OnlyCoupons /\ UNCHANGED edits

OrderWithoutCoupon(u) ==
    /\ Len(sales) < MaxSales /\ ~OpenOrder(u)
    /\ sales' = Append(sales, [coupon |-> Nothing, user |-> u, status |-> "pending"])
    /\ OnlyCoupons /\ UNCHANGED <<coupons, edits>>

EndOrder ==
    /\ \E i \in DOMAIN sales, status \in {"cancelled", "completed"} :
        /\ sales[i].status = "pending"
        /\ sales' = [sales EXCEPT ![i].status = status]
    /\ OnlyCoupons /\ UNCHANGED <<coupons, edits>>

-----------------------------------------------------------------------------
VouchersInit ==
    /\ cards = [t \in Templates |-> NoCard]
    /\ vouchers = <<>> /\ usages = <<>> /\ sales = <<>>
    /\ wallets \in [Redeemers -> {[money |-> 0, traffic |-> 0, plan |-> Nothing, months |-> 0,
                                   banned |-> FALSE],
                                  [money |-> 0, traffic |-> 1, plan |-> "plan", months |-> -1,
                                   banned |-> FALSE]}]
    /\ plan \in {[traffic |-> 1, months |-> 1], [traffic |-> 1, months |-> -1]}
    /\ desks = [d \in Desks |-> FreeDesk]
    /\ edits = 0
    /\ coupons = [k \in Coupons |-> Nothing]

GiftsNext ==
    \/ \E t \in Templates :
        \/ createGiftCardTemplate(t) \/ legacyCreateGiftCardTemplate(t)
        \/ deleteGiftCardTemplate(t) \/ legacyDeleteGiftCardTemplate(t)
        \/ generateGiftCardCodes(t) \/ legacyGenerateGiftCardCodes(t)
    \/ \E d \in Desks :
        \/ \E t \in Templates : updateGiftCardTemplate(d, t) \/ legacyUpdateGiftCardTemplate(d, t)
        \/ \E c \in IssuedCodes :
            \/ updateGiftCardCode(d, c) \/ legacyUpdateGiftCardCode(d, c)
            \/ GetGiftCardCode(d, c, {"disable", "enable"})
        \/ UpdateGiftCardTemplate(d) \/ UpdateGiftCardCode(d) \/ legacyToggleGiftCardCode(d)
    \/ \E c \in IssuedCodes : toggleGiftCardCode(c) \/ deleteGiftCardCode(c) \/ legacyDeleteGiftCardCode(c)
    \/ \E u \in Redeemers, c \in IssuedCodes : redeemGiftCard(u, c) \/ legacyRedeemGiftCard(u, c)
    \/ \E u \in Redeemers : SetBanned(u) \/ OrderWithoutCoupon(u)
    \/ EditPlan \/ EndOrder \/ VouchersAge

CouponsNext ==
    \/ \E k \in Coupons :
        \/ createAdminCoupon(k) \/ batchAdminCoupons(k) \/ updateAdminCoupon(k) \/ legacyGenerateAdminCoupon(k)
        \/ setAdminCouponVisibility(k) \/ legacyUpdateAdminCoupon(k) \/ legacyToggleAdminCoupon(k)
        \/ deleteAdminCoupon(k) \/ legacyDeleteAdminCoupon(k)
    \/ \E k \in Coupons, u \in Redeemers : OrderWithCoupon(k, u)
    \/ EndOrder

VouchersSpec == VouchersInit /\ [][GiftsNext \/ CouponsNext]_voucherVars

-----------------------------------------------------------------------------
\* What a use put into the wallet of u.
GivenTo(u, use) ==
    (IF use.user = u THEN use.reward.money ELSE 0) + (IF InviterOf[use.user] = u THEN use.share.money ELSE 0)

\* Nothing is given that no code stands for: a code is used as often as it was recorded, never more
\* than it allows and is not open once it is spent, although forms are saved over redemptions they
\* never saw; a wallet holds what its redemptions and its invitees' gave it; a code
\* issued as a purchase stays one, whatever becomes of its template; and the orders with a coupon are as many as its uses.
VouchersAccounted ==
    /\ \A c \in IssuedCodes :
        /\ vouchers[c].used = Cardinality(UsagesOf(c)) /\ vouchers[c].used <= vouchers[c].max
        /\ vouchers[c].used = vouchers[c].max => vouchers[c].status # "active"
        /\ vouchers[c].status = "deleted" => vouchers[c].used = 0
    /\ \A u \in Redeemers :
        wallets[u].money = SumFunction([i \in DOMAIN usages |-> GivenTo(u, usages[i])])
    /\ \A c \in IssuedCodes :
        vouchers[c].snap # Nothing /\ vouchers[c].status # "deleted" => cards[vouchers[c].template].type = "purchase"
    /\ \A k \in Coupons : coupons[k] # Nothing /\ coupons[k].left # Nothing =>
        coupons[k].left >= 0 /\ Cardinality(SalesOf(k)) = coupons[k].given - coupons[k].left
=============================================================================
