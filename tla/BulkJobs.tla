------------------------------ MODULE BulkJobs ------------------------------
(***************************************************************************)
(* Administrator bulk jobs: a mail to many users, a CSV export of them and *)
(* a ban.  A job takes a snapshot of its targets.  Mail workers and        *)
(* exporters claim work for a lease, so that one that dies is replaced and *)
(* one that is merely slow may be overtaken.  Jobs are cancelled, users    *)
(* deactivated and anonymised while the work is under way.                 *)
(*                                                                         *)
(* Time is a lease or a delay that runs out (LeaseEnds, RetryDue,          *)
(* OutputExpires); the exporter reads its targets one batch, here one      *)
(* user, at a time.                                                        *)
(***************************************************************************)
EXTENDS Integers, FiniteSets, FiniteSetsExt

CONSTANTS
    Targets,        \* human users, numbered
    Admin,          \* the administrator among them
    BulkIds,        \* bound: jobs in a behaviour
    Keys,           \* idempotency keys of bans
    Clerks,         \* mail workers
    Exporters,      \* export workers, and requests that export at once
    MaxTries,       \* maxAdminUserBulkAttempts
    MaxFaults       \* bound: processes that die, or are slower than their lease

ASSUME BulkConstants ==
    /\ Targets \subseteq Nat \ {0} /\ BulkIds \subseteq Nat \ {0} /\ Admin \in Targets
    /\ MaxTries \in Nat \ {0} /\ MaxFaults \in Nat

VARIABLES
    people,         \* each user's lifecycle, and whether banned
    bulk,           \* admin_user_bulk_jobs with their admin_user_bulk_targets
    files,          \* the export directory: whose rows a published file holds
    clerks,         \* what each mail worker is doing
    exporters,      \* what each exporter is doing
    sweeping,       \* the job whose expired file the cleanup is removing
    faults,
    delivered       \* how often the mail server accepted each target's mail (ghost)

bulkVars == <<people, bulk, files, clerks, exporters, sweeping, faults, delivered>>

Free == "free"
Fresh == [st |-> "pending", tries |-> 0, claim |-> Free, stale |-> FALSE, due |-> TRUE, named |-> TRUE]
Outside == [Fresh EXCEPT !.st = "none"]
NoJob == [kind |-> "none", status |-> "none", claim |-> Free, stale |-> FALSE, out |-> "none", path |-> FALSE,
          key |-> Free, scope |-> {}, overrun |-> FALSE, targets |-> [u \in Targets |-> Outside]]
AtRest == [stage |-> "idle"]
NoFile == {0}
Jobs(kind) == {j \in BulkIds : bulk[j].kind = kind}
Over(j) == bulk[j].status \in {"succeeded", "failed", "cancelled"}
Bulk(j, u) == bulk[j].targets[u]

------------------------------------------------------------------------------
\* Creating a job: the snapshot of the users in its scope.
Snapshot(kind, scope) ==
    {u \in scope : people[u].life # "anonymous" /\ (kind = "mail" => people[u].life = "active")}
createAdminUserBulkJobTx(kind, scope) ==
    [NoJob EXCEPT !.kind = kind, !.status = "queued", !.scope = scope,
        !.targets = [u \in Targets |-> IF u \in Snapshot(kind, scope) THEN Fresh ELSE Outside]]

NextId(j) == bulk[j] = NoJob /\ \A i \in BulkIds : i < j => bulk[i] # NoJob

CreateAdminUserBulkJob(j, kind, scope) ==
    /\ NextId(j) /\ Snapshot(kind, scope) # {}
    /\ ~people[Admin].banned
    /\ bulk' = [bulk EXCEPT ![j] = createAdminUserBulkJobTx(kind, scope)]
    /\ UNCHANGED <<people, files, clerks, exporters, sweeping, faults, delivered>>

createAdminUserBulkMail(j, scope) == CreateAdminUserBulkJob(j, "mail", scope)
legacyAdminUserBulkMail(j, scope) == CreateAdminUserBulkJob(j, "mail", scope)
createAdminUserBulkCSV(j, scope) == CreateAdminUserBulkJob(j, "csv", scope)
legacyAdminUserBulkCSV(j, scope) == CreateAdminUserBulkJob(j, "csv", scope)

\* What a job's targets say about the job.
refreshAdminUserBulkJobTx(job) ==
    LET states == {job.targets[u].st : u \in Targets} IN
    IF states \cap {"pending", "processing"} # {} THEN job
    ELSE [job EXCEPT !.status =
            IF job.status = "cancelling" \/ "cancelled" \in states THEN "cancelled"
            ELSE IF "failed" \in states THEN "failed" ELSE "succeeded"]

\* A ban runs within its request.  Its key finds it again: the same scope gets the job of the first
\* call, another scope is refused.  The administrator and the banned are skipped.
BanAdminUsers(j, k, scope) ==
    LET old == {i \in Jobs("ban") : bulk[i].key = k}
        hit == {u \in Snapshot("ban", scope) : u # Admin /\ ~people[u].banned}
        job == [createAdminUserBulkJobTx("ban", scope) EXCEPT !.key = k, !.status = "running",
                   !.targets = [u \in Targets |->
                       IF @[u].st = "none" THEN @[u]
                       ELSE [@[u] EXCEPT !.st = IF u \in hit THEN "succeeded" ELSE "skipped"]]]
    IN  /\ old = {} /\ NextId(j) /\ Snapshot("ban", scope) # {}
        /\ ~people[Admin].banned
        /\ bulk' = [bulk EXCEPT ![j] = refreshAdminUserBulkJobTx(job)]
        /\ people' = [u \in Targets |-> IF u \in hit THEN [people[u] EXCEPT !.banned = TRUE] ELSE people[u]]
        /\ UNCHANGED <<files, clerks, exporters, sweeping, faults, delivered>>

\* The old panel's ban has a key of its own every time.
banAdminUsers(j, k, scope) == BanAdminUsers(j, k, scope)
legacyAdminUserBulkBan(j, scope) == \E k \in Keys : BanAdminUsers(j, k, scope)

Unban(u) ==
    /\ people[u].banned /\ people' = [people EXCEPT ![u].banned = FALSE]
    /\ UNCHANGED <<bulk, files, clerks, exporters, sweeping, faults, delivered>>

CancelAdminUserBulkJob(j) ==
    /\ bulk[j] # NoJob /\ ~Over(j)
    /\ bulk' = [bulk EXCEPT ![j] = refreshAdminUserBulkJobTx([@ EXCEPT !.status = "cancelling",
          !.targets = [u \in Targets |->
              IF Bulk(j, u).st = "pending" THEN [Bulk(j, u) EXCEPT !.st = "cancelled", !.claim = Free]
              ELSE Bulk(j, u)]])]
    /\ UNCHANGED <<people, files, clerks, exporters, sweeping, faults, delivered>>

cancelAdminUserBulkJob(j) == CancelAdminUserBulkJob(j)

------------------------------------------------------------------------------
\* Mail: reap, claim, look again, send, record the result.
Reaped(job) ==
    IF job.kind # "mail" \/ job.status # "cancelling" THEN job
    ELSE refreshAdminUserBulkJobTx([job EXCEPT !.targets = [u \in Targets |->
             IF @[u].st = "processing" /\ @[u].stale
             THEN [@[u] EXCEPT !.st = "failed", !.claim = Free, !.stale = FALSE] ELSE @[u]]])

ReapCancellingAdminUserBulkMail(w) ==
    /\ clerks[w] = AtRest
    /\ bulk' = [j \in BulkIds |-> IF bulk[j] = NoJob THEN NoJob ELSE Reaped(bulk[j])]
    /\ bulk' # bulk
    /\ UNCHANGED <<people, files, clerks, exporters, sweeping, faults, delivered>>

Settled(t, to) == [t EXCEPT !.st = to, !.claim = Free, !.stale = FALSE]

ClaimableItem(j, u) ==
    /\ bulk[j].kind = "mail" /\ bulk[j].status \in {"queued", "running"}
    /\ \/ Bulk(j, u).st = "pending" /\ Bulk(j, u).due
       \/ Bulk(j, u).st = "processing" /\ Bulk(j, u).stale

\* The oldest job and its lowest target come first; one without attempts left is given up.
ClaimAdminUserBulkMail(w) ==
    /\ clerks[w] = AtRest
    /\ \E j \in BulkIds, u \in Targets :
        /\ ClaimableItem(j, u)
        /\ \A i \in BulkIds, v \in Targets : ClaimableItem(i, v) => i > j \/ (i = j /\ v >= u)
        /\ IF Bulk(j, u).tries >= MaxTries
           THEN /\ bulk' = [bulk EXCEPT ![j] = refreshAdminUserBulkJobTx([@ EXCEPT
                                !.targets[u] = Settled(Bulk(j, u), "failed")])]
                /\ UNCHANGED clerks
           ELSE /\ bulk' = [bulk EXCEPT ![j] = [@ EXCEPT !.status = "running",
                     !.targets[u] = [Bulk(j, u) EXCEPT !.st = "processing", !.tries = Bulk(j, u).tries + 1,
                                                       !.claim = w, !.stale = FALSE]]]
                /\ clerks' = [clerks EXCEPT ![w] =
                     [stage |-> "claimed", job |-> j, user |-> u, tries |-> Bulk(j, u).tries + 1]]
    /\ UNCHANGED <<people, files, exporters, sweeping, faults, delivered>>

\* A worker's claim is its own: the attempt tells two claims of one worker apart.
HoldsItem(w) ==
    LET c == clerks[w]  t == Bulk(c.job, c.user) IN t.st = "processing" /\ t.claim = w /\ t.tries = c.tries

AdminUserBulkMailClaimActive(w) ==
    HoldsItem(w) /\ bulk[clerks[w].job].status = "running" /\ people[clerks[w].user].life = "active"

\* A claim that lost its purpose is released, if its job is being cancelled.
ReleaseCancelledAdminUserBulkMailClaim(w) ==
    LET c == clerks[w] IN
    IF HoldsItem(w) /\ bulk[c.job].status \in {"cancelling", "cancelled"}
    THEN [bulk EXCEPT ![c.job] = refreshAdminUserBulkJobTx([@ EXCEPT
              !.targets[c.user] = Settled(Bulk(c.job, c.user), "cancelled")])]
    ELSE bulk

CheckClaim(w) ==
    LET c == clerks[w] IN
    /\ c.stage = "claimed"
    /\ IF AdminUserBulkMailClaimActive(w)
       THEN clerks' = [clerks EXCEPT ![w].stage = "checked"] /\ UNCHANGED bulk
       ELSE /\ clerks' = [clerks EXCEPT ![w] = AtRest]
            /\ bulk' = ReleaseCancelledAdminUserBulkMailClaim(w)
    /\ UNCHANGED <<people, files, exporters, sweeping, faults, delivered>>

SendBulkMail(w) ==
    LET c == clerks[w] IN
    /\ \/ /\ c.stage = "checked"
          /\ clerks' = [clerks EXCEPT ![w].stage = "sent"]
          /\ delivered' = [delivered EXCEPT ![c.job][c.user] = @ + 1]
       \/ /\ c.stage \in {"claimed", "checked"}   \* also: no sender, no key, a rendered mail too long
          /\ clerks' = [clerks EXCEPT ![w].stage = "failed"]
          /\ UNCHANGED delivered
    /\ UNCHANGED <<people, bulk, files, exporters, sweeping, faults>>

\* No sender, no key, or a rendered mail that is too long fail the attempt as the server does.
FailAdminUserBulkMail(t, c) ==
    IF bulk[c.job].status = "cancelling" THEN Settled(t, "cancelled")
    ELSE IF c.tries < MaxTries THEN [Settled(t, "pending") EXCEPT !.due = FALSE]
    ELSE Settled(t, "failed")

finishAdminUserBulkMail(w) ==
    LET c == clerks[w] IN
    /\ c.stage \in {"sent", "failed"}
    /\ clerks' = [clerks EXCEPT ![w] = AtRest]
    /\ bulk' = IF ~HoldsItem(w) THEN bulk
               ELSE [bulk EXCEPT ![c.job] = refreshAdminUserBulkJobTx([@ EXCEPT !.targets[c.user] =
                   IF c.stage = "sent" THEN Settled(Bulk(c.job, c.user), "succeeded")
                   ELSE FailAdminUserBulkMail(Bulk(c.job, c.user), c)])]
    /\ UNCHANGED <<people, files, exporters, sweeping, faults, delivered>>

------------------------------------------------------------------------------
\* Exports: claim, write row by row while refreshing the claim, publish, record.

\* Mutant: an export whose worker died is left alone.
ExportableOnce(j) == bulk[j].kind = "csv" /\ bulk[j].status = "queued" /\ bulk[j].claim = Free

Exportable(j) ==
    /\ bulk[j].kind = "csv"
    /\ \/ bulk[j].status = "queued" /\ bulk[j].claim = Free
       \/ bulk[j].status = "running" /\ bulk[j].stale

ClaimAdminUserBulkCSV(x, j) ==
    /\ exporters[x] = AtRest /\ Exportable(j)
    /\ bulk' = [bulk EXCEPT ![j] = [@ EXCEPT !.status = "running", !.claim = x, !.stale = FALSE,
          !.overrun = bulk[j].overrun \/ \E y \in Exporters : exporters[y] # AtRest /\ exporters[y].job = j]]
    /\ exporters' = [exporters EXCEPT ![x] = [stage |-> "writing", job |-> j, at |-> 0, rows |-> {}]]
    /\ UNCHANGED <<people, files, clerks, sweeping, faults, delivered>>

Exporting(x) == bulk[exporters[x].job].status = "running" /\ bulk[exporters[x].job].claim = x
Unwritten(x) == {u \in Targets : Bulk(exporters[x].job, u).st # "none" /\ u > exporters[x].at}

\* A batch holds what the snapshot says then; an anonymised user has no identity left in it.
WriteBatch(x) ==
    LET e == exporters[x]  u == Min(Unwritten(x)) IN
    /\ e.stage = "writing" /\ Unwritten(x) # {}
    /\ exporters' = [exporters EXCEPT ![x] = [@ EXCEPT !.at = u, !.stage = "wrote",
          !.rows = IF Bulk(e.job, u).named THEN e.rows \cup {u} ELSE e.rows]]
    /\ UNCHANGED <<people, bulk, files, clerks, sweeping, faults, delivered>>

RefreshAdminUserBulkCSVClaim(x) ==
    /\ exporters[x].stage = "wrote"
    /\ IF Exporting(x)
       THEN /\ bulk' = [bulk EXCEPT ![exporters[x].job].stale = FALSE]
            /\ exporters' = [exporters EXCEPT ![x].stage = "writing"]
       ELSE exporters' = [exporters EXCEPT ![x] = AtRest] /\ UNCHANGED bulk
    /\ UNCHANGED <<people, files, clerks, sweeping, faults, delivered>>

Publish(x) ==
    /\ exporters[x].stage = "writing" /\ Unwritten(x) = {}
    /\ files' = [files EXCEPT ![exporters[x].job] = exporters[x].rows]
    /\ exporters' = [exporters EXCEPT ![x].stage = "published"]
    /\ UNCHANGED <<people, bulk, clerks, sweeping, faults, delivered>>

Finished(job, to) ==
    [job EXCEPT !.status = to, !.claim = Free, !.stale = FALSE,
        !.targets = [u \in Targets |-> IF @[u].st = "pending" THEN [@[u] EXCEPT !.st = to] ELSE @[u]]]

\* Mutant: a finished export is given its day even if a user was anonymised meanwhile.
CompleteForADay(x) ==
    LET j == exporters[x].job IN
    /\ exporters[x].stage = "published"
    /\ IF Exporting(x)
       THEN /\ bulk' = [bulk EXCEPT ![j] = [Finished(@, "succeeded") EXCEPT !.path = TRUE, !.out = "live"]]
            /\ UNCHANGED files
       ELSE files' = [files EXCEPT ![j] = NoFile] /\ UNCHANGED bulk
    /\ exporters' = [exporters EXCEPT ![x] = AtRest]
    /\ UNCHANGED <<people, clerks, sweeping, faults, delivered>>

\* An export that may not be recorded takes the published file away again.
CompleteAdminUserBulkCSV(x) ==
    LET j == exporters[x].job IN
    /\ exporters[x].stage = "published"
    /\ IF Exporting(x)
       THEN /\ bulk' = [bulk EXCEPT ![j] = [Finished(@, "succeeded") EXCEPT
                  !.path = TRUE, !.out = IF bulk[j].out = "void" THEN "void" ELSE "live"]]
            /\ UNCHANGED files
       ELSE files' = [files EXCEPT ![j] = NoFile] /\ UNCHANGED bulk
    /\ exporters' = [exporters EXCEPT ![x] = AtRest]
    /\ UNCHANGED <<people, clerks, sweeping, faults, delivered>>

FailAdminUserBulkCSV(x) ==
    /\ exporters[x].stage \in {"writing", "wrote"}
    /\ bulk' = IF Exporting(x) THEN [bulk EXCEPT ![exporters[x].job] = Finished(@, "failed")] ELSE bulk
    /\ exporters' = [exporters EXCEPT ![x] = AtRest]
    /\ UNCHANGED <<people, files, clerks, sweeping, faults, delivered>>

Expired(j) == bulk[j].kind = "csv" /\ bulk[j].path /\ bulk[j].out \in {"expired", "void"}

\* The cleanup removes the file, then forgets where it was.
CleanupExpired ==
    /\ \/ \E j \in BulkIds : /\ sweeping = 0 /\ Expired(j) /\ sweeping' = j
                             /\ files' = [files EXCEPT ![j] = NoFile]
                             /\ UNCHANGED bulk
       \/ /\ sweeping # 0 /\ sweeping' = 0 /\ UNCHANGED files
          /\ bulk' = IF Expired(sweeping) THEN [bulk EXCEPT ![sweeping].path = FALSE] ELSE bulk
    /\ UNCHANGED <<people, clerks, exporters, faults, delivered>>

------------------------------------------------------------------------------
\* What happens to a user meanwhile.
DeactivateUser(u) ==
    /\ people[u].life = "active" /\ u # Admin
    /\ people' = [people EXCEPT ![u].life = "inactive"]
    /\ bulk' = [j \in BulkIds |->
          IF bulk[j].kind # "mail" \/ Bulk(j, u).st \notin {"pending", "processing"} THEN bulk[j]
          ELSE refreshAdminUserBulkJobTx([bulk[j] EXCEPT !.targets[u] = Settled(Bulk(j, u), "cancelled")])]
    /\ UNCHANGED <<files, clerks, exporters, sweeping, faults, delivered>>

RestoreUser(u) ==
    /\ people[u].life = "inactive" /\ people' = [people EXCEPT ![u].life = "active"]
    /\ UNCHANGED <<bulk, files, clerks, exporters, sweeping, faults, delivered>>

AnonymizeUser(u) ==
    /\ people[u].life = "inactive"
    /\ people' = [people EXCEPT ![u].life = "anonymous"]
    /\ bulk' = [j \in BulkIds |->
          IF bulk[j] = NoJob \/ Bulk(j, u).st = "none" THEN bulk[j]
          ELSE [bulk[j] EXCEPT !.targets[u].named = FALSE,
                               !.out = IF bulk[j].kind = "csv" THEN "void" ELSE @]]
    /\ UNCHANGED <<files, clerks, exporters, sweeping, faults, delivered>>

------------------------------------------------------------------------------
\* Time and faults.
\* A lease ends after a worker died, or under one that is slow.
Living(claim) ==
    \/ claim \in Clerks /\ clerks[claim] # AtRest /\ HoldsItem(claim)
    \/ claim \in Exporters /\ exporters[claim] # AtRest /\ Exporting(claim)
LeaseOver(claim) == faults' = faults + (IF Living(claim) THEN 1 ELSE 0) /\ faults' <= MaxFaults
LeaseEnds ==
    /\ \E j \in BulkIds :
        \/ /\ bulk[j].kind = "csv" /\ bulk[j].status = "running" /\ ~bulk[j].stale
           /\ bulk' = [bulk EXCEPT ![j].stale = TRUE]
           /\ LeaseOver(bulk[j].claim)
        \/ \E u \in Targets : /\ bulk[j].kind = "mail" /\ Bulk(j, u).st = "processing" /\ ~Bulk(j, u).stale
                              /\ bulk' = [bulk EXCEPT ![j].targets[u].stale = TRUE]
                              /\ LeaseOver(Bulk(j, u).claim)
    /\ UNCHANGED <<people, files, clerks, exporters, sweeping, delivered>>

RetryDue ==
    /\ \E j \in BulkIds, u \in Targets :
        /\ bulk[j].kind = "mail" /\ Bulk(j, u).st = "pending" /\ ~Bulk(j, u).due
        /\ bulk' = [bulk EXCEPT ![j].targets[u].due = TRUE]
    /\ UNCHANGED <<people, files, clerks, exporters, sweeping, faults, delivered>>

OutputExpires ==
    /\ \E j \in BulkIds : /\ bulk[j].kind = "csv" /\ bulk[j].out = "live"
                          /\ bulk' = [bulk EXCEPT ![j].out = "expired"]
    /\ UNCHANGED <<people, files, clerks, exporters, sweeping, faults, delivered>>

Die ==
    /\ faults < MaxFaults /\ faults' = faults + 1
    /\ \/ \E w \in Clerks : clerks[w] # AtRest /\ clerks' = [clerks EXCEPT ![w] = AtRest] /\ UNCHANGED <<exporters, sweeping>>
       \/ \E x \in Exporters : exporters[x] # AtRest /\ exporters' = [exporters EXCEPT ![x] = AtRest] /\ UNCHANGED <<clerks, sweeping>>
       \/ sweeping # 0 /\ sweeping' = 0 /\ UNCHANGED <<clerks, exporters>>
    /\ UNCHANGED <<people, bulk, files, delivered>>

------------------------------------------------------------------------------
BulkInit ==
    /\ people = [u \in Targets |-> [life |-> "active", banned |-> FALSE]]
    /\ bulk = [j \in BulkIds |-> NoJob]
    /\ files = [j \in BulkIds |-> NoFile]
    /\ clerks = [w \in Clerks |-> AtRest] /\ exporters = [x \in Exporters |-> AtRest]
    /\ sweeping = 0 /\ faults = 0
    /\ delivered = [j \in BulkIds |-> [u \in Targets |-> 0]]

RunMailOnce(w) ==
    \/ ReapCancellingAdminUserBulkMail(w) \/ ClaimAdminUserBulkMail(w)
    \/ CheckClaim(w) \/ SendBulkMail(w) \/ finishAdminUserBulkMail(w)
processClaimedCSVWithToken(x) ==
    \/ WriteBatch(x) \/ RefreshAdminUserBulkCSVClaim(x) \/ Publish(x)
    \/ CompleteAdminUserBulkCSV(x) \/ FailAdminUserBulkCSV(x)
\* The worker's loop, and the old panel's request for the export it has just asked for.
runCSVOnce(x) == (\E j \in BulkIds : ClaimAdminUserBulkCSV(x, j)) \/ processClaimedCSVWithToken(x)
TimePasses == LeaseEnds \/ RetryDue \/ OutputExpires
Meanwhile ==
    \/ \E j \in BulkIds : cancelAdminUserBulkJob(j)
    \/ \E u \in Targets : DeactivateUser(u) \/ RestoreUser(u) \/ AnonymizeUser(u)
    \/ CleanupExpired \/ Die

MailNext ==
    \/ \E j \in BulkIds, scope \in SUBSET Targets : createAdminUserBulkMail(j, scope) \/ legacyAdminUserBulkMail(j, scope)
    \/ \E w \in Clerks : RunMailOnce(w)
    \/ TimePasses \/ Meanwhile
ExportNext ==
    \/ \E j \in BulkIds, scope \in SUBSET Targets : createAdminUserBulkCSV(j, scope) \/ legacyAdminUserBulkCSV(j, scope)
    \/ \E x \in Exporters : runCSVOnce(x)
    \/ TimePasses \/ Meanwhile
BanNext ==
    \/ \E j \in BulkIds, scope \in SUBSET Targets :
        legacyAdminUserBulkBan(j, scope) \/ \E k \in Keys : banAdminUsers(j, k, scope)
    \/ \E u \in Targets : Unban(u) \/ DeactivateUser(u) \/ AnonymizeUser(u)

\* Mails, exports and bans in one panel.
BulkSpec == BulkInit /\ [][MailNext \/ ExportNext \/ BanNext]_bulkVars

------------------------------------------------------------------------------
\* Properties

\* A job tells the truth about its targets (admin_user_bulk_jobs.go, refreshAdminUserBulkJobTx and
\* the claims): a target that is recorded as mailed was accepted by the mail server, none is mailed
\* more often than it may be tried, and a job that is over has nothing under way and says succeeded
\* only if each target was reached; a ban's key names one job - with workers that die, are overtaken, or find their job
\* cancelled and their user gone.
BulkHonest ==
    \A j \in BulkIds :
        /\ \A i \in Jobs("ban") : bulk[j].kind = "ban" /\ bulk[i].key = bulk[j].key => i = j
        /\ \A u \in Targets :
            /\ bulk[j].kind = "mail" /\ Bulk(j, u).st = "succeeded" => delivered[j][u] > 0
            /\ delivered[j][u] <= MaxTries
        /\ Over(j) => \A u \in Targets : Bulk(j, u).st \notin {"pending", "processing"}
        /\ bulk[j].kind = "mail" /\ bulk[j].status = "succeeded" =>
             \A u \in Targets : Bulk(j, u).st # "none" => delivered[j][u] > 0

OpenCSV(j) == bulk[j].kind = "csv" /\ bulk[j].status = "succeeded" /\ bulk[j].path /\ bulk[j].out = "live"

\* Exports keep what anonymising promises (bulkops OpenCSV, CompleteAdminUserBulkCSV): no file that
\* can be downloaded names an anonymised user, even one whose row was written before; and a recorded
\* export has its file, unless an exporter was overtaken while it still ran, when the slower one
\* takes the faster one's file away.
ExportsPrivate ==
    \A j \in BulkIds : OpenCSV(j) =>
        /\ \A u \in files[j] \ NoFile : people[u].life # "anonymous"
        /\ bulk[j].overrun \/ files[j] # NoFile

\* What an administrator is told about a job is true, and no export tells more than it may.
BulkSound == BulkHonest /\ ExportsPrivate

\* Every job comes to an end, and an expired or void file goes, once administrators leave jobs alone:
\* workers that die only cost a lease (RunMailOnce, runCSVOnce, cleanupIfDue).
BulkEnds == []<>(\A j \in BulkIds : (bulk[j] # NoJob => Over(j)) /\ ~Expired(j))
=============================================================================
