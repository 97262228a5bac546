--------------------------- MODULE LegacyAccounts ---------------------------
(***************************************************************************)
(* Legacy migration: content, groups and routes, plans, knowledge, human   *)
(* users and what belongs to them.  Source[s].rows[t] is the set of rows   *)
(* the old panel has for table t of the target.  A reader refuses the      *)
(* snapshot when its rows contradict each other; an import also wants its  *)
(* tables empty and every reference to another table resolved there.       *)
(***************************************************************************)
EXTENDS LegacySettings

Rows(s, t) == Source[s].rows[t]

(* Primary keys and UNIQUE columns. *)
Distinct(R, key(_)) == \A a, b \in R : key(a) = key(b) => a = b

DistinctIds(R) == Distinct(R, LAMBDA r : r.id)

Ids(R) == {r.id : r \in R}

Has(t, x) == x = Nothing \/ x \in Ids(db.rows[t])

Empty(T) == \A t \in T : db.rows[t] = {}

Insert(d, t, R) == [d EXCEPT !.rows[t] = @ \cup R]

(* A row that cannot be decoded fails the reader of its whole slice. *)
Decoded(k, s) == k \notin Source[s].malformed

(* After the rows are written they are read back, and the import fails unless what was read *)
(* is what was to be written.                                                               *)
ImportRows(c, k, ready, intact, after, target, source) ==
    Import(c, k, ready /\ target = source, intact, after, target)

(* What the reports of tickets and operational logs are compared with on a rerun. *)
RowsKept(k, t) == db.ledger[k] # Nothing => db.rows[t] = db.ledger[k].target

(***************************************************************************)
(* Content: site identity, notices, client catalogue.  It is only allowed  *)
(* while app_settings has never been saved, so it comes first; a snapshot  *)
(* without any identity key leaves that revision alone.                    *)
(***************************************************************************)
validateLegacyNotice(n) == n.valid

readLegacySettings(s) == [ok |-> Raw(s, "identity").valid, value |-> Value(s, "identity")]

decodeLegacyClientCatalog(s) ==
    [ok |-> Raw(s, "client catalog").valid, value |-> Value(s, "client catalog")]

readLegacyNotices(s) ==
    [ok |-> DistinctIds(Rows(s, "notices")) /\ \A n \in Rows(s, "notices") : validateLegacyNotice(n),
     rows |-> Rows(s, "notices")]

ReadContentSnapshot(s) ==
    Decoded("content", s) /\ readLegacySettings(s).ok /\ decodeLegacyClientCatalog(s).ok /\ readLegacyNotices(s).ok

runMigrationCommand(c, s, p) ==
    Command(c, "content", s, p, ReadContentSnapshot(s), TRUE)

validateAndMergeLegacySiteSettings(s) ==
    IF Raw(s, "identity").set THEN Write("identity", readLegacySettings(s).value) ELSE db

readLegacyTargetNotices(d) == d.rows["notices"]

ImportLegacyContent(c) ==
    LET s == cmd[c].source
        after == [Insert(validateAndMergeLegacySiteSettings(s), "notices", readLegacyNotices(s).rows)
                     EXCEPT !.settings["client catalog"] = decodeLegacyClientCatalog(s).value]
    IN
    ImportRows(c, "content",
               /\ db.revision = 1 /\ Untouched("identity") /\ Untouched("client catalog")
               /\ Empty({"notices"}),
               TRUE, after, readLegacyTargetNotices(after), readLegacyNotices(s).rows)

(***************************************************************************)
(* Groups and routes.                                                      *)
(***************************************************************************)
ValidateLegacyGroupsRoutesData(s) == DistinctIds(Rows(s, "groups")) /\ DistinctIds(Rows(s, "routes"))

ReadGroupsRoutesSnapshot(s) == Decoded("groups-routes", s) /\ ValidateLegacyGroupsRoutesData(s)

readLegacyTargetServerGroups(d) == d.rows["groups"]

readLegacyTargetRoutingRules(d) == d.rows["routes"]

runLegacyGroupsRoutesMigrationCommand(c, s, p) ==
    Command(c, "groups-routes", s, p, ReadGroupsRoutesSnapshot(s), TRUE)

ImportLegacyGroupsRoutes(c) ==
    LET s == cmd[c].source
        after == Insert(Insert(db, "groups", Rows(s, "groups")), "routes", Rows(s, "routes"))
    IN
    ImportRows(c, "groups-routes", Empty({"groups", "routes"}), TRUE, after,
               <<readLegacyTargetServerGroups(after), readLegacyTargetRoutingRules(after)>>,
               <<Rows(s, "groups"), Rows(s, "routes")>>)

(***************************************************************************)
(* Plans, with the panel's default traffic reset method.                   *)
(***************************************************************************)
ValidateLegacyPlansData(s) == DistinctIds(Rows(s, "plans"))

readLegacyTrafficResetMethod(s) ==
    [ok |-> Raw(s, "reset method").valid, value |-> Value(s, "reset method")]

readLegacyPlans(s) == Decoded("plans", s)

ReadPlansSnapshot(s) ==
    readLegacyPlans(s) /\ ValidateLegacyPlansData(s) /\ readLegacyTrafficResetMethod(s).ok

\* Mutant: a plan may name a group that was not imported.
PlanGroupsUnchecked(s) == TRUE

validateLegacyPlanGroups(s) == \A p \in Rows(s, "plans") : Has("groups", p.group)

runLegacyPlansMigrationCommand(c, s, p) == Command(c, "plans", s, p, ReadPlansSnapshot(s), TRUE)

readLegacyTargetPlans(d) == d.rows["plans"]

ImportLegacyPlans(c) ==
    LET s == cmd[c].source
        after == Insert(Write("reset method", readLegacyTrafficResetMethod(s).value), "plans",
                        Rows(s, "plans"))
    IN
    ImportRows(c, "plans",
               Empty({"plans"}) /\ Untouched("reset method") /\ validateLegacyPlanGroups(s),
               TRUE, after, readLegacyTargetPlans(after), Rows(s, "plans"))

(***************************************************************************)
(* Knowledge: an article uses ready attachments of its own, an attachment  *)
(* that has an article names an imported one, and a completed upload has   *)
(* its attachment.                                                         *)
(***************************************************************************)
legacyKnowledgeReferences(s, a) ==
    \A x \in a.uses : \E t \in Rows(s, "attachments") : t.id = x /\ t.article = a.id /\ t.ready

readLegacyKnowledgeUploads(s) == Source[s].completedUploads

validateLegacyKnowledgeData(s) ==
    /\ DistinctIds(Rows(s, "articles")) /\ DistinctIds(Rows(s, "attachments"))
    /\ \A t \in Rows(s, "attachments") : t.article \in Ids(Rows(s, "articles")) \cup {Nothing}
    /\ \A a \in Rows(s, "articles") : legacyKnowledgeReferences(s, a)
    /\ readLegacyKnowledgeUploads(s) \subseteq Ids(Rows(s, "attachments"))

ReadKnowledgeSnapshot(s) == Decoded("knowledge", s) /\ validateLegacyKnowledgeData(s)

readLegacyTargetKnowledge(d) == d.rows["articles"]

readLegacyTargetKnowledgeAttachments(d) == d.rows["attachments"]

runLegacyKnowledgeMigrationCommand(c, s, p) ==
    Command(c, "knowledge", s, p, ReadKnowledgeSnapshot(s), TRUE)

ImportLegacyKnowledge(c) ==
    LET s == cmd[c].source
        after == Insert(Insert(db, "articles", Rows(s, "articles")), "attachments",
                        Rows(s, "attachments"))
    IN
    ImportRows(c, "knowledge", Empty({"articles", "attachments"}), TRUE, after,
               <<readLegacyTargetKnowledge(after), readLegacyTargetKnowledgeAttachments(after)>>,
               <<Rows(s, "articles"), Rows(s, "attachments")>>)

(***************************************************************************)
(* Human users replace the bootstrap administrator, who must never have    *)
(* been used: nothing in the database may refer to that account, and every *)
(* administrator request leaves an audit row.  Internal subscribers (the   *)
(* accounts behind distributor subscriptions) are another slice's.         *)
(***************************************************************************)
HumanUsers(s) == {u \in Rows(s, "users") : u.id \notin Ids(Rows(s, "subscribers"))}

ValidateLegacyHumanUsersData(U) ==
    /\ U # {} /\ DistinctIds(U) /\ Distinct(U, LAMBDA u : u.email)
    /\ \A u \in U : u.inviter # Nothing => u.inviter \in Ids(U) \ {u.id}
    /\ \E u \in U : u.admin /\ ~u.banned

ReadHumanUsersSnapshot(s) ==
    Decoded("human-users", s) /\ ValidateLegacyHumanUsersData(HumanUsers(s))

validateReplaceableBootstrapAdmin == db.rows["users"] = {Bootstrap}

ensureNoUserDependencies ==
    /\ ~db.audited
    /\ \A t \in {"tokens", "codes", "tickets", "usages", "orders"} :
          \A r \in db.rows[t] : r.user # Bootstrap.id

validateLegacyHumanUserGroups(s) == \A u \in HumanUsers(s) : Has("groups", u.group)

validateLegacyHumanUserPlans(s) == \A u \in HumanUsers(s) : Has("plans", u.plan)

runLegacyHumanUsersMigrationCommand(c, s, p) ==
    Command(c, "human-users", s, p, ReadHumanUsersSnapshot(s), TRUE)

readLegacyTargetHumanUsers(d) == {u \in d.rows["users"] : ~u.subscriber}

ImportLegacyHumanUsers(c) ==
    LET s == cmd[c].source
        after == [db EXCEPT !.rows["users"] = (@ \ {Bootstrap}) \cup HumanUsers(s)]
    IN
    ImportRows(c, "human-users",
               /\ validateReplaceableBootstrapAdmin /\ ensureNoUserDependencies
               /\ validateLegacyHumanUserGroups(s) /\ validateLegacyHumanUserPlans(s),
               TRUE, after, readLegacyTargetHumanUsers(after), HumanUsers(s))

(***************************************************************************)
(* Access tokens and invitation codes of the users of the same snapshot.   *)
(***************************************************************************)
Human(x) == \E u \in db.rows["users"] : u.id = x /\ ~u.subscriber

ValidateLegacyAccessTokensData(s) ==
    DistinctIds(Rows(s, "tokens")) /\ Distinct(Rows(s, "tokens"), LAMBDA t : t.secret)

validateLegacyAccessTokenUsers(s) == \A t \in Rows(s, "tokens") : Human(t.user)

ReadAccessTokensSnapshot(s) == Decoded("access-tokens", s) /\ ValidateLegacyAccessTokensData(s)

summarizeLegacyTargetAccessTokens(d) == d.rows["tokens"]

runLegacyAccessTokensMigrationCommand(c, s, p) ==
    Command(c, "access-tokens", s, p, ReadAccessTokensSnapshot(s), TRUE)

ImportLegacyAccessTokens(c) ==
    LET s == cmd[c].source
        after == Insert(db, "tokens", Rows(s, "tokens"))
    IN
    ImportRows(c, "access-tokens",
               SameSnapshot({"human-users"}, s) /\ Empty({"tokens"}) /\ validateLegacyAccessTokenUsers(s),
               TRUE, after, summarizeLegacyTargetAccessTokens(after), Rows(s, "tokens"))

ValidateLegacyInvitationCodesData(s) ==
    DistinctIds(Rows(s, "codes")) /\ Distinct(Rows(s, "codes"), LAMBDA x : x.secret)

ReadInvitationCodesSnapshot(s) ==
    Decoded("invitation-codes", s) /\ ValidateLegacyInvitationCodesData(s)

summarizeLegacyTargetInvitationCodes(d) == d.rows["codes"]

validateLegacyInvitationCodeUsers(s) == \A x \in Rows(s, "codes") : Human(x.user)

(* A used or viewed code still counts; codes created since are ignored. *)
verifyLegacyInvitationCodesTarget ==
    db.ledger["invitation-codes"] # Nothing => db.ledger["invitation-codes"].target \subseteq db.rows["codes"]

runLegacyInvitationCodesMigrationCommand(c, s, p) ==
    Command(c, "invitation-codes", s, p, ReadInvitationCodesSnapshot(s),
            verifyLegacyInvitationCodesTarget)

ImportLegacyInvitationCodes(c) ==
    LET s == cmd[c].source
        after == Insert(db, "codes", Rows(s, "codes"))
    IN
    ImportRows(c, "invitation-codes",
               SameSnapshot({"human-users"}, s) /\ Empty({"codes"}) /\ validateLegacyInvitationCodeUsers(s),
               verifyLegacyInvitationCodesTarget,
               after, summarizeLegacyTargetInvitationCodes(after), Rows(s, "codes"))

(***************************************************************************)
(* Tickets.  The reader needs the messages of every ticket and the last    *)
(* replier to be the last author; a missing one is filled in from the      *)
(* messages.  Whoever answers another user's ticket is an administrator.   *)
(***************************************************************************)
LastAuthor(t) == t.authors[Len(t.authors)]

readLegacyTicketCandidates(s) ==
    {[t EXCEPT !.lastReply = IF @ = Nothing /\ t.authors # <<>> THEN LastAuthor(t) ELSE @] :
        t \in Rows(s, "tickets")}

ValidateLegacyTicketsData(T) ==
    /\ DistinctIds(T)
    /\ Distinct({t \in T : t.open}, LAMBDA t : t.user)

ReadTicketsSnapshot(s) ==
    LET T == readLegacyTicketCandidates(s) IN
    /\ Decoded("tickets", s) /\ ValidateLegacyTicketsData(T)
    /\ \A t \in T : /\ t.authors # <<>> /\ t.lastReply = LastAuthor(t)
                    /\ t.answered = (t.lastReply # t.user)

readLegacyTicketHumanRoles(t) ==
    /\ Human(t.user)
    /\ \A i \in 1..Len(t.authors) :
          t.authors[i] # t.user => \E u \in db.rows["users"] : u.id = t.authors[i] /\ u.admin

\* Mutant: users from any snapshot will do.
TicketPrerequisitesAnySnapshot(s) == db.ledger["human-users"] # Nothing /\ Empty({"tickets"})

requireLegacyTicketPrerequisites(s) == SameSnapshot({"human-users"}, s) /\ Empty({"tickets"})

verifyLegacyTicketsTarget == RowsKept("tickets", "tickets")

runLegacyTicketsMigrationCommand(c, s, p) ==
    Command(c, "tickets", s, p, ReadTicketsSnapshot(s), verifyLegacyTicketsTarget)

readLegacyTargetTicketDigest(d) == d.rows["tickets"]

ImportLegacyTickets(c) ==
    LET T == readLegacyTicketCandidates(cmd[c].source)
        after == Insert(db, "tickets", T)
    IN
    ImportRows(c, "tickets",
               /\ requireLegacyTicketPrerequisites(cmd[c].source)
               /\ \A t \in T : readLegacyTicketHumanRoles(t),
               verifyLegacyTicketsTarget, after, readLegacyTargetTicketDigest(after), T)
=============================================================================
