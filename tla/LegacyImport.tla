---------------------------- MODULE LegacyImport ----------------------------
(***************************************************************************)
(* The protocol every `xboard migration import-legacy-...` command follows *)
(* (cmd/xboard/main.go and the files next to it): read one slice of a      *)
(* standalone snapshot of the old panel, look the slice up in the          *)
(* ledger legacy_migration_runs, write a rollback archive of the target,   *)
(* and import the slice in one transaction that also writes the ledger.    *)
(* The database is closed between lookup, archive and import, and          *)
(* --confirm-offline is only a promise, so other commands may run in       *)
(* between.  The slices themselves are in LegacySettings, LegacyAccounts   *)
(* and LegacyCommerce.                                                     *)
(***************************************************************************)
EXTENDS Naturals, FiniteSets, Sequences

CONSTANTS
    Operator,       \* processes that may run a command
    Path,           \* names for rollback archives
    NoPath,         \* --backup-output not given
    Snapshot,       \* old databases, identified by their SHA-256
    Source,         \* what each of them holds, slice by slice
    PanelRows,      \* rows an administrator may create, by table
    Scopes,         \* what the operators of one behaviour do, see Scope
    Nothing         \* no ledger row, no archive, no reference

ASSUME PathAssumption == Path \subseteq Nat

VARIABLES
    db,             \* the target database
    archives,       \* the rollback archives on disk
    cmd,            \* the commands being run
    mishaps,        \* administrator edits, crashes and restores so far
    scope           \* the scope chosen for this behaviour

vars == <<db, archives, cmd, mishaps, scope>>

AppDomain == {"identity", "commission policy", "compatibility", "currency", "mail",
              "public origin", "trial", "safe access", "site policy",
              "subscription policy", "telegram", "reset method"}
OwnDomain == {"client app", "mail templates", "node agent", "subscription config",
              "theme", "trusted plugins", "client catalog", "coupons"}
Domain == AppDomain \cup OwnDomain

SettingsSlice == {"client-app", "commission-policy", "configuration-compat", "currency",
                  "mail-settings", "mail-templates", "node-agent", "public-origin",
                  "registration-trial", "safe-access", "site-policy", "subscription-config",
                  "subscription-policy", "telegram", "theme", "trusted-plugins"}
RowSlice == {"content", "groups-routes", "knowledge", "plans", "human-users", "access-tokens",
             "invitation-codes", "tickets", "coupons", "gift-cards", "payments", "orders",
             "nodes", "distributors", "commissions", "operational-logs"}
Slice == SettingsSlice \cup RowSlice

Table == {"notices", "groups", "routes", "articles", "attachments", "plans", "users", "tokens",
          "codes", "tickets", "coupons", "templates", "cards", "usages", "payments", "orders",
          "nodes", "subscribers", "commissions", "logs"}

(***************************************************************************)
(* A settings value is where it came from and its main switch: SMTP on,    *)
(* e-mail verification on, safe mode on, a site URL present.  `plan` is    *)
(* the plan a registration trial grants.                                   *)
(***************************************************************************)
Default == [from |-> "default", on |-> FALSE, plan |-> Nothing]

(* The administrator that the first start of the new panel creates. *)
Bootstrap == [id |-> 1, email |-> "bootstrap", inviter |-> Nothing, group |-> Nothing,
              plan |-> Nothing, admin |-> TRUE, banned |-> FALSE, subscriber |-> FALSE]

Fresh == [rows         |-> [t \in Table |-> IF t = "users" THEN {Bootstrap} ELSE {}],
          settings     |-> [d \in Domain |-> Default],
          revision     |-> 1,
          themeRevision |-> 1,
          audited      |-> FALSE,
          ledger       |-> [k \in Slice |-> Nothing]]

Idle == [pc |-> "idle", slice |-> Nothing, source |-> Nothing, path |-> NoPath]

(* The slices run, snapshots read, archive names and operators at work; whether they follow *)
(* the documented order; what an administrator changes, what fails, and how often.          *)
Scope == [slices : SUBSET Slice, sources : SUBSET Snapshot, paths : SUBSET Path,
          operators : SUBSET Operator, ordered : BOOLEAN, edits : SUBSET (Domain \cup Table),
          faults : SUBSET {"crash", "restore"}, mishaps : Nat]

LegacyInit ==
    /\ db = Fresh
    /\ archives = [p \in Path |-> Nothing]
    /\ cmd = [c \in Operator |-> Idle]
    /\ mishaps = 0
    /\ scope \in Scopes

(***************************************************************************)
(* The ledger.                                                             *)
(***************************************************************************)

(* lookupLegacyXImport: the slice was imported from this very snapshot. *)
Recorded(k, s) == db.ledger[k] # Nothing /\ db.ledger[k].source = s

(* otherRuns # 0: it was imported from another one. *)
ImportedElsewhere(k, s) == db.ledger[k] # Nothing /\ db.ledger[k].source # s

(* "import X from the same snapshot before": the ledger row of a prerequisite. *)
SameSnapshot(K, s) == \A k \in K : Recorded(k, s)

(***************************************************************************)
(* The order the repository's README gives the commands in.                *)
(***************************************************************************)
DocumentedOrder ==
    <<"content", "groups-routes", "knowledge", "plans", "human-users", "access-tokens",
      "invitation-codes", "tickets", "coupons", "gift-cards", "payments", "orders", "nodes",
      "node-agent", "telegram", "trusted-plugins", "site-policy", "mail-settings",
      "subscription-policy", "subscription-config", "commission-policy", "registration-trial",
      "mail-templates", "client-app", "theme", "configuration-compat", "currency",
      "public-origin", "safe-access", "distributors", "commissions", "operational-logs">>

Turn == [k \in Slice |-> CHOOSE i \in DOMAIN DocumentedOrder : DocumentedOrder[i] = k]

Passed(c, k) == cmd[c].slice # Nothing /\ Turn[k] <= Turn[cmd[c].slice]

Due(c) == {k \in scope.slices : db.ledger[k] = Nothing /\ ~Passed(c, k)}

(* An operator who follows it always names a new archive and goes on with the next slice when *)
(* a command ends, applied or refused; after a crash, with the first one that is not in the   *)
(* ledger.                                                                                    *)
InTurn(c, k, p) ==
    scope.ordered => /\ p # NoPath /\ archives[p] = Nothing
                     /\ k \in Due(c) /\ \A j \in Due(c) : Turn[k] <= Turn[j]

(* The command ends: applied, already applied, or refused. *)
Answer(c, k) == cmd' = [cmd EXCEPT ![c] = [Idle EXCEPT !.slice = IF scope.ordered THEN k ELSE Nothing]]

(* Any archive that exists, or the next new name: names are interchangeable. *)
Offered ==
    LET taken == {p \in scope.paths : archives[p] # Nothing}
    IN  {p \in scope.paths : p <= Cardinality(taken) + 1} \cup {NoPath}

(***************************************************************************)
(* The first half of a command: the snapshot is read (it is immutable: its *)
(* hash is taken before and after), the target is opened, looked up and    *)
(* closed.  A recorded slice is answered from the ledger, when the path    *)
(* given is the recorded one, the archive still verifies and, for the      *)
(* slices that compare it, the target is still what was imported.          *)
(***************************************************************************)
Command(c, k, s, p, readable, intact) ==
    LET known == Recorded(k, s)
        again == /\ intact
                 /\ p \in {NoPath, db.ledger[k].path}
                 /\ archives[db.ledger[k].path] # Nothing
    IN
    /\ cmd[c].pc = "idle" /\ c \in scope.operators
    /\ k \in scope.slices /\ s \in scope.sources /\ InTurn(c, k, p)
    /\ \/ /\ readable /\ ~known /\ p # NoPath
          /\ cmd' = [cmd EXCEPT ![c] = [pc |-> "backup", slice |-> k, source |-> s,
                                        path |-> p]]
       \/ readable /\ known /\ again /\ Answer(c, k)
       \/ /\ ~readable \/ IF known THEN ~again ELSE p = NoPath
          /\ Answer(c, k)
    /\ UNCHANGED <<db, archives, mishaps, scope>>

\* Mutant: an archive that is already there is used as it is.
BackupReused(c) ==
    /\ cmd[c].pc = "backup"
    /\ archives' = [archives EXCEPT ![cmd[c].path] = IF @ = Nothing THEN db ELSE @]
    /\ cmd' = [cmd EXCEPT ![c].pc = "import"]
    /\ UNCHANGED <<db, mishaps, scope>>

(* backup.Create refuses a path that exists; the archive is verified before it is used. *)
Backup(c) ==
    /\ cmd[c].pc = "backup"
    /\ LET p == cmd[c].path IN
       \/ /\ archives[p] = Nothing
          /\ archives' = [archives EXCEPT ![p] = db]
          /\ cmd' = [cmd EXCEPT ![c].pc = "import"]
       \/ archives[p] # Nothing /\ Answer(c, cmd[c].slice) /\ UNCHANGED archives
    /\ UNCHANGED <<db, mishaps, scope>>

(***************************************************************************)
(* The import transaction: the ledger is looked up again, `ready` holds    *)
(* what the slice checks of the target, `after` what it writes, and        *)
(* `target` what the ledger's checksum is taken of.                        *)
(***************************************************************************)
Import(c, k, ready, intact, after, target) ==
    LET s == cmd[c].source IN
    /\ cmd[c].pc = "import" /\ cmd[c].slice = k
    /\ \/ Recorded(k, s) /\ intact /\ Answer(c, k) /\ UNCHANGED db
       \/ /\ ~Recorded(k, s) /\ ~ImportedElsewhere(k, s) /\ ready
          /\ db' = [after EXCEPT !.ledger[k] = [source |-> s, path |-> cmd[c].path,
                                                target |-> target]]
          /\ Answer(c, k)
       \/ /\ IF Recorded(k, s) THEN ~intact ELSE ImportedElsewhere(k, s) \/ ~ready
          /\ Answer(c, k) /\ UNCHANGED db
    /\ UNCHANGED <<archives, mishaps, scope>>
=============================================================================
