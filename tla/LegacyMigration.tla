--------------------------- MODULE LegacyMigration ---------------------------
(***************************************************************************)
(* The offline migration from the old panel: operators run import commands *)
(* in some order, commands die half-way, rollback archives are restored,   *)
(* and an administrator who should have waited changes the target.         *)
(***************************************************************************)
EXTENDS LegacyCommerce

(***************************************************************************)
(* The commands, slice by slice.                                           *)
(***************************************************************************)
SettingsCommand(c, s, p) ==
    \/ runLegacyClientAppSettingsMigrationCommand(c, s, p)
    \/ runLegacyCommissionPolicySettingsMigrationCommand(c, s, p)
    \/ runLegacyConfigurationCompatibilitySettingsMigrationCommand(c, s, p)
    \/ runLegacyCurrencySettingsMigrationCommand(c, s, p)
    \/ runLegacyMailSettingsMigrationCommand(c, s, p)
    \/ runLegacyMailTemplatesMigrationCommand(c, s, p)
    \/ runLegacyNodeAgentSettingsMigrationCommand(c, s, p)
    \/ runLegacyPublicOriginSettingsMigrationCommand(c, s, p)
    \/ runLegacyRegistrationTrialSettingsMigrationCommand(c, s, p)
    \/ runLegacySafeAccessSettingsMigrationCommand(c, s, p)
    \/ runLegacySitePolicySettingsMigrationCommand(c, s, p)
    \/ runLegacySubscriptionConfigMigrationCommand(c, s, p)
    \/ runLegacySubscriptionPolicySettingsMigrationCommand(c, s, p)
    \/ runLegacyTelegramSettingsMigrationCommand(c, s, p)
    \/ runLegacyThemeSettingsMigrationCommand(c, s, p)
    \/ runLegacyTrustedPluginsMigrationCommand(c, s, p)

RowsCommand(c, s, p) ==
    \/ runMigrationCommand(c, s, p)
    \/ runLegacyGroupsRoutesMigrationCommand(c, s, p)
    \/ runLegacyPlansMigrationCommand(c, s, p)
    \/ runLegacyKnowledgeMigrationCommand(c, s, p)
    \/ runLegacyHumanUsersMigrationCommand(c, s, p)
    \/ runLegacyAccessTokensMigrationCommand(c, s, p)
    \/ runLegacyInvitationCodesMigrationCommand(c, s, p)
    \/ runLegacyTicketsMigrationCommand(c, s, p)
    \/ runLegacyCouponsMigrationCommand(c, s, p)
    \/ runLegacyGiftCardsMigrationCommand(c, s, p)
    \/ runLegacyPaymentsMigrationCommand(c, s, p)
    \/ runLegacyOrdersMigrationCommand(c, s, p)
    \/ runLegacyNodesMigrationCommand(c, s, p)
    \/ runLegacyDistributorsMigrationCommand(c, s, p)
    \/ runLegacyCommissionsMigrationCommand(c, s, p)
    \/ runLegacyOperationalLogsMigrationCommand(c, s, p)

ImportSlice(c) ==
    \/ ImportLegacyClientAppSettings(c)
    \/ ImportLegacyCommissionPolicySettings(c)
    \/ ImportLegacyConfigurationCompatibilitySettings(c)
    \/ ImportLegacyCurrencySettings(c)
    \/ ImportLegacyMailSettings(c)
    \/ ImportLegacyMailTemplates(c)
    \/ ImportLegacyNodeAgentSettings(c)
    \/ ImportLegacyPublicOriginSettings(c)
    \/ ImportLegacyRegistrationTrialSettings(c)
    \/ ImportLegacySafeAccessSettings(c)
    \/ ImportLegacySitePolicySettings(c)
    \/ ImportLegacySubscriptionConfig(c)
    \/ ImportLegacySubscriptionPolicySettings(c)
    \/ ImportLegacyTelegramSettings(c)
    \/ ImportLegacyThemeSettings(c)
    \/ ImportLegacyTrustedPlugins(c)
    \/ ImportLegacyContent(c)
    \/ ImportLegacyGroupsRoutes(c)
    \/ ImportLegacyPlans(c)
    \/ ImportLegacyKnowledge(c)
    \/ ImportLegacyHumanUsers(c)
    \/ ImportLegacyAccessTokens(c)
    \/ ImportLegacyInvitationCodes(c)
    \/ ImportLegacyTickets(c)
    \/ ImportLegacyCoupons(c)
    \/ ImportLegacyGiftCards(c)
    \/ ImportLegacyPayments(c)
    \/ ImportLegacyOrders(c)
    \/ ImportLegacyNodes(c)
    \/ ImportLegacyDistributors(c)
    \/ ImportLegacyCommissions(c)
    \/ ImportLegacyOperationalLogs(c)

(***************************************************************************)
(* What else happens to the target.  Each of these uses up a mishap.       *)
(***************************************************************************)
Mishap ==
    /\ mishaps < scope.mishaps
    /\ mishaps' = mishaps + 1
    /\ UNCHANGED scope

(* The process dies: a transaction in progress is rolled back, an archive that was published *)
(* stays.                                                                                    *)
Crash(c) ==
    /\ Mishap /\ "crash" \in scope.faults /\ cmd[c].pc # "idle"
    /\ cmd' = [cmd EXCEPT ![c] = Idle]
    /\ UNCHANGED <<db, archives>>

(* `xboard restore` replaces the database; it is run with everything stopped. *)
Restore(p) ==
    /\ Mishap /\ "restore" \in scope.faults /\ archives[p] # Nothing
    /\ \A c \in Operator : cmd[c].pc = "idle"
    /\ db' = archives[p]
    /\ cmd' = [c \in Operator |-> Idle]
    /\ UNCHANGED archives

(* Every administrator request leaves an audit row with the account's id. *)
Panel(x, after) ==
    /\ Mishap /\ x \in scope.edits
    /\ db' = [after EXCEPT !.audited = TRUE]
    /\ UNCHANGED <<archives, cmd>>

SaveSettings(d) ==
    Panel(d, [db EXCEPT !.settings[d].from = "panel",
                        !.revision = IF d \in AppDomain \cup {"coupons"} THEN @ + 1 ELSE @,
                        !.themeRevision = IF d = "theme" THEN @ + 1 ELSE @])

CreateRow(t, r) == r.id \notin Ids(db.rows[t]) /\ Panel(t, Insert(db, t, {r}))

DeletePlan(p) ==
    /\ \A u \in db.rows["users"] : u.plan # p.id
    /\ \A o \in db.rows["orders"] : o.plan # p.id
    /\ db.settings["trial"].plan # p.id
    /\ Panel("plans", [db EXCEPT !.rows["plans"] = @ \ {p}])

DeleteServerGroup(g) ==
    /\ \A x \in db.rows["users"] \cup db.rows["plans"] : x.group # g.id
    /\ \A n \in db.rows["nodes"] : g.id \notin n.groups
    /\ Panel("groups", [db EXCEPT !.rows["groups"] = @ \ {g}])

Commands(c) ==
    \E s \in scope.sources, p \in Offered :
        SettingsCommand(c, s, p) \/ RowsCommand(c, s, p)

Next ==
    \/ \E c \in Operator : Commands(c) \/ Backup(c) \/ ImportSlice(c) \/ Crash(c)
    \/ \E p \in scope.paths : Restore(p)
    \/ \E d \in Domain : SaveSettings(d)
    \/ \E x \in PanelRows : CreateRow(x.table, x.row)
    \/ \E p \in db.rows["plans"] : DeletePlan(p)
    \/ \E g \in db.rows["groups"] : DeleteServerGroup(g)

Spec == LegacyInit /\ [][Next]_vars

(* An operator goes on with the next command, and starts again after a crash. *)
Fairness == \A c \in Operator : WF_vars(Commands(c)) /\ WF_vars(Backup(c)) /\ WF_vars(ImportSlice(c))

FairSpec == Spec /\ Fairness

-----------------------------------------------------------------------------

References(t, f(_), to) == \A r \in db.rows[t] : f(r) \in Ids(db.rows[to]) \cup {Nothing}

AllReferences(t, f(_), to) == \A r \in db.rows[t] : f(r) \subseteq Ids(db.rows[to])

RowsDistinct == \A t \in Table : DistinctIds(db.rows[t])

OwnersPresent ==
    /\ \A t \in {"tokens", "codes", "tickets", "orders", "usages", "templates"} :
          \A r \in db.rows[t] : r.user \in Ids(db.rows["users"])
    /\ References("users", LAMBDA u : u.inviter, "users")
    /\ References("users", LAMBDA u : u.group, "groups")
    /\ References("users", LAMBDA u : u.plan, "plans")

CommerceResolved ==
    /\ References("plans", LAMBDA p : p.group, "groups")
    /\ References("orders", LAMBDA o : o.plan, "plans")
    /\ References("orders", LAMBDA o : o.coupon, "coupons")
    /\ AllReferences("nodes", LAMBDA n : n.groups, "groups")
    /\ AllReferences("nodes", LAMBDA n : n.routes, "routes")
    /\ References("commissions", LAMBDA l : l.order, "orders")
    /\ References("subscribers", LAMBDA x : x.order, "orders")

OneEach ==
    /\ Distinct({o \in db.rows["orders"] : o.status \in {"pending", "processing"}}, LAMBDA o : o.user)
    /\ Distinct({t \in db.rows["tickets"] : t.open}, LAMBDA t : t.user)
    /\ \A o \in db.rows["orders"] : o.linked # Nothing =>
          \E x \in db.rows["subscribers"] : x.id = o.linked /\ o.id \in x.links /\ x.distributor = o.user

SettingsUsable ==
    /\ db.settings["safe access"].on => db.settings["identity"].on
    /\ db.settings["trial"].on => db.settings["trial"].plan \in Ids(db.rows["plans"])

Administered == \E u \in db.rows["users"] : u.admin /\ ~u.banned

(***************************************************************************)
(* Whatever was imported, from whichever snapshots, in whatever order, and *)
(* whatever was restored or edited in between, the panel that starts on    *)
(* this database works: ids are unique, every owner, group, plan, coupon   *)
(* and order that a row names is there, no user has two open orders or     *)
(* tickets, a linked order belongs to its subscription, safe mode has its  *)
(* site URL, the trial its plan, and somebody can log in as administrator. *)
(***************************************************************************)
TargetConsistent ==
    /\ RowsDistinct /\ OwnersPresent /\ CommerceResolved /\ OneEach
    /\ SettingsUsable /\ Administered

(***************************************************************************)
(* Every ledger entry keeps its way back: its archive exists, was written  *)
(* before the slice, and holds nothing that the database has lost since.   *)
(* And rows that belong to users and orders come from the snapshot these   *)
(* come from: old ids mean nothing in another one.                         *)
(***************************************************************************)
Belongs ==
    [k \in Slice |-> CASE k \in {"access-tokens", "invitation-codes", "tickets"} -> {"human-users"}
                       [] k \in {"distributors", "commissions"} -> {"human-users", "orders"}
                       [] k = "operational-logs" -> OperationalPrerequisites
                       [] OTHER -> {}]

WayBack ==
    \A k \in Slice : db.ledger[k] # Nothing =>
        LET a == archives[db.ledger[k].path] IN
        /\ a # Nothing /\ a.ledger[k] = Nothing
        /\ \A j \in Slice : a.ledger[j] # Nothing => a.ledger[j] = db.ledger[j]
        /\ SameSnapshot(Belongs[k], db.ledger[k].source)

(***************************************************************************)
(* One operator who is left alone can undo exactly the last slice: the     *)
(* archive named in the ledger is the database as it was just before.      *)
(***************************************************************************)
Alone == Cardinality(scope.operators) = 1 /\ scope.edits = {}

UndoesOneSlice ==
    [][Alone /\ mishaps' = mishaps =>
          \A k \in scope.slices : db'.ledger[k] # db.ledger[k] => archives[db'.ledger[k].path] = db]_vars

(***************************************************************************)
(* The documented order leads to a complete migration, whatever crashes on *)
(* the way: no slice shuts the door on a later one, with one exception.    *)
(* An old panel that verified e-mail addresses without having an SMTP host *)
(* has its site policy imported first, and ensureSMTPCanBeDisabled then    *)
(* refuses its mail settings for good; everything else goes through.       *)
(***************************************************************************)
PolicyNeedsMail(s) == Raw(s, "site policy").on /\ ~Raw(s, "mail").on

Importable ==
    scope.slices \ (IF \E s \in scope.sources : PolicyNeedsMail(s) THEN {"mail-settings"} ELSE {})

OrderCompletes ==
    scope.ordered => <>[](\A k \in scope.slices : db.ledger[k] # Nothing <=> k \in Importable)
=============================================================================
