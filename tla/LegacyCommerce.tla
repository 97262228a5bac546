--------------------------- MODULE LegacyCommerce ---------------------------
(***************************************************************************)
(* Legacy migration: coupons, gift cards, payment methods, orders, nodes,  *)
(* distributor subscriptions, commissions and operational logs.            *)
(***************************************************************************)
EXTENDS LegacyAccounts

(***************************************************************************)
(* Coupons.  The switch is written without raising the revision.           *)
(***************************************************************************)
ValidateLegacyCouponsData(s) ==
    DistinctIds(Rows(s, "coupons")) /\ Distinct(Rows(s, "coupons"), LAMBDA x : x.code)

ReadCouponsSnapshot(s) ==
    [ok |-> Decoded("coupons", s) /\ ValidateLegacyCouponsData(s) /\ Raw(s, "coupons").valid, value |-> Value(s, "coupons")]

validateLegacyCouponPlanReferences(s) ==
    \A x \in Rows(s, "coupons") : \A p \in x.plans : Has("plans", p)

(* Orders imported before their coupons would be left without them. *)
validateExistingOrderCouponReferences(s) ==
    \A o \in db.rows["orders"] : o.coupon \in Ids(Rows(s, "coupons")) \cup {Nothing}

runLegacyCouponsMigrationCommand(c, s, p) ==
    Command(c, "coupons", s, p, ReadCouponsSnapshot(s).ok, TRUE)

readLegacyTargetCoupons(d) == d.rows["coupons"]

ImportLegacyCoupons(c) ==
    LET s == cmd[c].source
        after == [Insert(db, "coupons", Rows(s, "coupons")) EXCEPT
                     !.settings["coupons"] = ReadCouponsSnapshot(s).value]
    IN
    ImportRows(c, "coupons",
               /\ Empty({"coupons"}) /\ Untouched("coupons")
               /\ validateLegacyCouponPlanReferences(s) /\ validateExistingOrderCouponReferences(s),
               TRUE, after, readLegacyTargetCoupons(after), Rows(s, "coupons"))

(***************************************************************************)
(* Gift cards: templates, the codes made from them, their uses.            *)
(***************************************************************************)
ValidateLegacyGiftCardsData(s) ==
    /\ \A t \in {"templates", "cards", "usages"} : DistinctIds(Rows(s, t))
    /\ Distinct(Rows(s, "cards"), LAMBDA x : x.code)
    /\ \A x \in Rows(s, "cards") : x.template \in Ids(Rows(s, "templates")) /\ x.used <= x.max
    /\ \A u \in Rows(s, "usages") :
          \E x \in Rows(s, "cards") : x.id = u.card /\ x.template = u.template

validateLegacyGiftCardExternalReferences(s) ==
    /\ \A t \in Rows(s, "templates") : Has("users", t.user) /\ \A p \in t.plans : Has("plans", p)
    /\ \A u \in Rows(s, "usages") : Has("users", u.user)

insertLegacyGiftCards(s) ==
    Insert(Insert(Insert(db, "templates", Rows(s, "templates")), "cards", Rows(s, "cards")),
           "usages", Rows(s, "usages"))

ReadGiftCardsSnapshot(s) == Decoded("gift-cards", s) /\ ValidateLegacyGiftCardsData(s)

readLegacyTargetGiftCards(d) == <<d.rows["templates"], d.rows["cards"], d.rows["usages"]>>

runLegacyGiftCardsMigrationCommand(c, s, p) ==
    Command(c, "gift-cards", s, p, ReadGiftCardsSnapshot(s), TRUE)

ImportLegacyGiftCards(c) ==
    LET s == cmd[c].source IN
    ImportRows(c, "gift-cards",
               Empty({"templates", "cards", "usages"}) /\ validateLegacyGiftCardExternalReferences(s),
               TRUE, insertLegacyGiftCards(s), readLegacyTargetGiftCards(insertLegacyGiftCards(s)),
               <<Rows(s, "templates"), Rows(s, "cards"), Rows(s, "usages")>>)

(***************************************************************************)
(* Payment methods.                                                        *)
(***************************************************************************)
ValidateLegacyPaymentsData(s) ==
    DistinctIds(Rows(s, "payments")) /\ Distinct(Rows(s, "payments"), LAMBDA x : x.sort)

validateExistingOrderPaymentReferences(s) ==
    \A o \in db.rows["orders"] : o.payment \in Ids(Rows(s, "payments")) \cup {Nothing}

ReadPaymentsSnapshot(s) == Decoded("payments", s) /\ ValidateLegacyPaymentsData(s)

readLegacyTargetPayments(d) == d.rows["payments"]

runLegacyPaymentsMigrationCommand(c, s, p) ==
    Command(c, "payments", s, p, ReadPaymentsSnapshot(s), TRUE)

ImportLegacyPayments(c) ==
    LET s == cmd[c].source
        after == Insert(db, "payments", Rows(s, "payments"))
    IN
    ImportRows(c, "payments", Empty({"payments"}) /\ validateExistingOrderPaymentReferences(s), TRUE,
               after, readLegacyTargetPayments(after), Rows(s, "payments"))

(***************************************************************************)
(* Orders.  Payment methods may follow later.                              *)
(***************************************************************************)
ValidateLegacyOrdersData(s) ==
    LET O == Rows(s, "orders") IN
    /\ DistinctIds(O)
    /\ Distinct({o \in O : o.status \in {"pending", "processing"}}, LAMBDA o : o.user)
    /\ \A o \in O : \A x \in o.surplus :
          x # o.id /\ \E r \in O : r.id = x /\ r.user = o.user

validateLegacyOrderReferences(s) ==
    \A o \in Rows(s, "orders") : Human(o.user) /\ Has("plans", o.plan) /\ Has("coupons", o.coupon)

ReadOrdersSnapshot(s) == Decoded("orders", s) /\ ValidateLegacyOrdersData(s)

readLegacyTargetOrders(d) == d.rows["orders"]

runLegacyOrdersMigrationCommand(c, s, p) ==
    Command(c, "orders", s, p, ReadOrdersSnapshot(s), TRUE)

ImportLegacyOrders(c) ==
    LET s == cmd[c].source
        after == Insert(db, "orders", Rows(s, "orders"))
    IN
    ImportRows(c, "orders", Empty({"orders"}) /\ validateLegacyOrderReferences(s), TRUE,
               after, readLegacyTargetOrders(after), Rows(s, "orders"))

(***************************************************************************)
(* Nodes with their machines, memberships, schedules and traffic.          *)
(***************************************************************************)
ValidateLegacyNodesData(s) ==
    LET N == Rows(s, "nodes") IN
    /\ DistinctIds(N)
    /\ \A n \in N : /\ n.parent # Nothing => n.parent \in Ids(N) \ {n.id}
                    /\ n.machine \in Source[s].machines \cup {Nothing}

validateLegacyNodeReferencesInTarget(s) ==
    \A n \in Rows(s, "nodes") : /\ \A g \in n.groups : Has("groups", g)
                                /\ \A r \in n.routes : Has("routes", r)

ReadNodesSnapshot(s) == Decoded("nodes", s) /\ ValidateLegacyNodesData(s)

readLegacyTargetNodes(d) == d.rows["nodes"]

runLegacyNodesMigrationCommand(c, s, p) ==
    Command(c, "nodes", s, p, ReadNodesSnapshot(s), TRUE)

ImportLegacyNodes(c) ==
    LET s == cmd[c].source
        after == Insert(db, "nodes", Rows(s, "nodes"))
    IN
    ImportRows(c, "nodes", Empty({"nodes"}) /\ validateLegacyNodeReferencesInTarget(s), TRUE,
               after, readLegacyTargetNodes(after), Rows(s, "nodes"))

(***************************************************************************)
(* Distributor subscriptions: each brings the internal account behind it,  *)
(* and claims the completed orders its distributor paid for.  A row of     *)
(* "subscribers" is one subscription with its account: the account's id is *)
(* `id`, `order` the original order, `links` all of them.                  *)
(***************************************************************************)
ValidateLegacyDistributorsData(s) ==
    LET S == Rows(s, "subscribers") IN
    /\ DistinctIds(S) /\ Distinct(S, LAMBDA x : x.order)
    /\ \A x \in S : x.order \in x.links
    /\ \A x, y \in S : x # y => x.links \cap y.links = {}

requireLegacyDistributorPrerequisites(s) == SameSnapshot({"human-users", "orders"}, s)

validateLegacyDistributorOrders(s) ==
    \A x \in Rows(s, "subscribers") : \A i \in x.links : \E o \in db.rows["orders"] :
        /\ o.id = i /\ o.user = x.distributor /\ o.plan = x.plan /\ o.status = "completed"
        /\ o.type = IF i = x.order THEN "new" ELSE "renewal"
        /\ o.linked = Nothing

validateLegacyDistributorTargetReferences(s) ==
    /\ \A x \in Rows(s, "subscribers") :
          /\ Human(x.distributor) /\ Has("plans", x.plan) /\ Has("nodes", x.node)
          /\ x.id \notin Ids(db.rows["users"])
    /\ validateLegacyDistributorOrders(s)

InternalAccount(x) ==
    [Bootstrap EXCEPT !.id = x.id, !.email = x.id, !.plan = x.plan, !.admin = FALSE,
                      !.subscriber = TRUE]

Link(O, S) ==
    {[o EXCEPT !.linked = IF \E x \in S : o.id \in x.links THEN (CHOOSE x \in S : o.id \in x.links).id
                          ELSE @] : o \in O}

ReadDistributorsSnapshot(s) == Decoded("distributors", s) /\ ValidateLegacyDistributorsData(s)

runLegacyDistributorsMigrationCommand(c, s, p) ==
    Command(c, "distributors", s, p, ReadDistributorsSnapshot(s), TRUE)

(* Accounts, subscriptions and links as they are found in the target. *)
verifyLegacyTargetDistributors(d) ==
    <<{u.id : u \in {v \in d.rows["users"] : v.subscriber}}, d.rows["subscribers"],
      {o.id : o \in {q \in d.rows["orders"] : q.linked # Nothing}}>>

ImportLegacyDistributors(c) ==
    LET s == cmd[c].source
        S == Rows(s, "subscribers")
        after == [Insert(Insert(db, "users", {InternalAccount(x) : x \in S}), "subscribers", S)
                     EXCEPT !.rows["orders"] = Link(@, S)]
    IN
    ImportRows(c, "distributors",
               /\ Empty({"subscribers"}) /\ ~\E u \in db.rows["users"] : u.subscriber
               /\ requireLegacyDistributorPrerequisites(s)
               /\ validateLegacyDistributorTargetReferences(s),
               TRUE, after, verifyLegacyTargetDistributors(after),
               <<Ids(S), S, UNION {x.links : x \in S}>>)

(***************************************************************************)
(* Commissions of the orders of the same snapshot.                         *)
(***************************************************************************)
ValidateLegacyCommissionsData(s) ==
    LET L == Rows(s, "commissions") IN
    DistinctIds(L) /\ Distinct(L, LAMBDA l : <<l.order, l.inviter>>)

resolveLegacyCommissionReferences(s) ==
    \A l \in Rows(s, "commissions") :
        /\ Human(l.user) /\ Human(l.inviter)
        /\ \E o \in db.rows["orders"] : o.id = l.order /\ o.user = l.user

ReadCommissionsSnapshot(s) == Decoded("commissions", s) /\ ValidateLegacyCommissionsData(s)

readLegacyTargetCommissions(d) == d.rows["commissions"]

runLegacyCommissionsMigrationCommand(c, s, p) ==
    Command(c, "commissions", s, p, ReadCommissionsSnapshot(s), TRUE)

ImportLegacyCommissions(c) ==
    LET s == cmd[c].source
        after == Insert(db, "commissions", Rows(s, "commissions"))
    IN
    ImportRows(c, "commissions",
               /\ SameSnapshot({"human-users", "orders"}, s) /\ Empty({"commissions"})
               /\ resolveLegacyCommissionReferences(s),
               TRUE, after, readLegacyTargetCommissions(after), Rows(s, "commissions"))

(***************************************************************************)
(* Operational logs come last: the statistics rebuilt with them need all   *)
(* the accounts of the snapshot, which is checked by counting them.        *)
(***************************************************************************)
LegacyOperationalUserFacts(U) ==
    [registered |-> Cardinality(U), invited |-> Cardinality({u \in U : u.inviter # Nothing})]

verifyOperationalImportTarget(s) ==
    /\ LegacyOperationalUserFacts(db.rows["users"]) = LegacyOperationalUserFacts(Rows(s, "users"))
    /\ RowsKept("operational-logs", "logs")

OperationalPrerequisites == {"human-users", "distributors", "nodes", "orders", "commissions"}

ReadOperationalLogsSnapshot(s) == Decoded("operational-logs", s) /\ DistinctIds(Rows(s, "logs"))

readOperationalLogsResult(d) == d.rows["logs"]

runLegacyOperationalLogsMigrationCommand(c, s, p) ==
    Command(c, "operational-logs", s, p, ReadOperationalLogsSnapshot(s), verifyOperationalImportTarget(s))

ImportLegacyOperationalLogs(c) ==
    LET s == cmd[c].source
        after == Insert(db, "logs", Rows(s, "logs"))
    IN
    ImportRows(c, "operational-logs",
               /\ SameSnapshot(OperationalPrerequisites, s) /\ Empty({"logs"})
               /\ LegacyOperationalUserFacts(db.rows["users"]) = LegacyOperationalUserFacts(Rows(s, "users")),
               verifyOperationalImportTarget(s),
               after, readOperationalLogsResult(after), Rows(s, "logs"))
=============================================================================
