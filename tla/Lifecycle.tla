----------------------------- MODULE Lifecycle ------------------------------
(***************************************************************************)
(* The deployment tool: install, upgrade and rollback of the containers,   *)
(* combined in one or split into gateway, frontend and backend, recorded   *)
(* in a journal under a lock file.  The panel serves while the tool works; *)
(* every command of Docker may fail, with or without its effect, the tool  *)
(* may be interrupted or killed at every step, and an entry of the journal *)
(* may be lost, torn, or written and reported as failed.                   *)
(*                                                                         *)
(* An image is its revision, and a database has the schema of the newest   *)
(* image that ever opened it.  Databases are numbered: 0 is the default,   *)
(* the others are restored ones.  Making and restoring an archive are      *)
(* single steps here; module Backups has them in detail.                   *)
(***************************************************************************)
EXTENDS Integers, Sequences

CONSTANTS
    Edges,          \* components of the split topology besides the backend
    NewestImage,    \* images are 1..NewestImage
    MaxWrites,      \* bound: requests that change the database
    MaxArchives,    \* bound: upgrades of the backend
    MaxRestores     \* bound: restored databases

ASSUME LifecycleConstants == {NewestImage, MaxWrites, MaxArchives, MaxRestores} \subseteq Nat

VARIABLES
    topology,       \* --topology
    boxes,          \* image of each component's container, 0 if there is none
    dsn,            \* XBOARD_DATABASE_DSN of the backend's last container
    up,             \* the backend runs
    edgesUp,        \* the other components run
    databases,
    acked,          \* changes the panel acknowledged
    archives,       \* pre-upgrade backups
    journal,        \* the last complete record
    torn,           \* the journal ends in half a record
    lockFile,
    cmd,            \* the command in progress
    rolled,         \* a rollback put a snapshot in place (ghost)
    proud           \* the last command reported success (ghost)

lifecycleVars == <<topology, boxes, dsn, up, edgesUp, databases, acked, archives, journal, torn, lockFile, cmd, rolled, proud>>

Images == 1..NewestImage
NoDsn == -1
NoDatabase == [schema |-> 0, changes |-> 0]
NoRecord == [status |-> "none"]
NoCmd == [do |-> "none", stage |-> "none"]
Nowhere == <<>>
Components == IF topology = "combined" THEN {"backend"} ELSE {"backend"} \cup Edges
Fleet == [Components -> Images]
Has(changed, c) == c \in changed

Runtime == <<boxes, dsn, up, edgesUp, databases, rolled>>
Paper == <<journal, torn>>
Step(stage) == cmd' = [cmd EXCEPT !.stage = stage]
Note(status, stage) == cmd' = [cmd EXCEPT !.stage = stage, !.rec.status = status]

------------------------------------------------------------------------------
\* The journal.  Half a record at its end is cut off before the next one is written, unless it is the
\* only one; a record whose sync fails is there all the same.
Load == journal # NoRecord \/ ~torn

appendJournalRecord(rec, done) ==
    \/ /\ done /\ Load
       /\ journal' = rec /\ torn' = FALSE
    \/ ~done /\ UNCHANGED journal /\ torn' \in (IF Load THEN BOOLEAN ELSE {torn})
    \/ ~done /\ Load /\ journal' = rec /\ torn' = FALSE

AcquireLock(c) == cmd = NoCmd /\ ~lockFile /\ lockFile' = TRUE /\ cmd' = c /\ proud' = FALSE
Release(success) == lockFile' = FALSE /\ cmd' = NoCmd /\ proud' = success

------------------------------------------------------------------------------
\* What Docker shows.
Current == [images |-> boxes, dsn |-> dsn, healthy |-> up /\ edgesUp]
Identified == \A c \in Components : boxes[c] # 0
validateApplication == Identified /\ Current.healthy
Fresh == (\A c \in Components : boxes[c] = 0) /\ databases[0] = NoDatabase

\* Containers of the components in some are replaced; a backend that meets a newer schema exits.
\* Without a new image the old container is gone and none has taken its place.
Recreate(some, to, d) ==
    /\ boxes' = [c \in Components |-> IF c \in some THEN to[c] ELSE boxes[c]]
    /\ edgesUp' \in (IF some \subseteq {"backend"} THEN {edgesUp} ELSE BOOLEAN)
    /\ CASE "backend" \notin some -> UNCHANGED <<dsn, up, databases, rolled>>
         [] "backend" \in some /\ to["backend"] = 0 -> up' = FALSE /\ UNCHANGED <<dsn, databases, rolled>>
         [] OTHER -> /\ dsn' = d
                     /\ up' = (databases[d].schema <= to["backend"])
                     /\ databases' = IF up' THEN [databases EXCEPT ![d].schema = to["backend"]] ELSE databases
                     /\ rolled' = (rolled \/ cmd.do = "rollback")

\* compose up fails half way: some are replaced, and of those in gone only the old container is removed.
Lacking(gone) == [c \in Components |-> IF c \in gone THEN 0 ELSE cmd.to[c]]
RecreateFails(some) == \E gone \in SUBSET some : Recreate(some, Lacking(gone), cmd.dsn) /\ Step("failed")

\* Binding the image's tag: an error here comes before anything is stopped.
BindImage ==
    /\ cmd.stage = "tag"
    /\ Step("prestart") \/ (~cmd.cancelled /\ Step(IF topology = "combined" THEN "stop" ELSE "up"))
    /\ UNCHANGED Runtime

\* Stop, recreate, wait for health.  One that is interrupted before the stop has changed nothing.
Activate ==
    /\ topology = "combined"
    /\ \/ BindImage
       \/ /\ cmd.stage = "stop" /\ cmd.cancelled /\ Step("prestart") /\ UNCHANGED Runtime
       \/ /\ cmd.stage = "stop" /\ ~cmd.cancelled
          /\ \/ up' = FALSE /\ Step("up")
             \/ up' \in {up, FALSE} /\ Step("failed")
          /\ UNCHANGED <<boxes, dsn, edgesUp, databases, rolled>>
       \/ cmd.stage = "up" /\ ~cmd.cancelled /\ Recreate({"backend"}, cmd.to, cmd.dsn) /\ Step("health")
       \/ cmd.stage = "up" /\ ~cmd.cancelled /\ RecreateFails({"backend"})
       \/ cmd.stage = "up" /\ Step("failed") /\ UNCHANGED Runtime
       \/ cmd.stage = "health" /\ up /\ ~cmd.cancelled /\ Step("ok") /\ UNCHANGED Runtime
       \/ cmd.stage = "health" /\ Step("failed") /\ UNCHANGED Runtime

\* One command recreates the changed components, and may fail half way.
ActivateDeployment ==
    /\ topology = "split"
    /\ \/ BindImage
       \/ cmd.stage = "up" /\ cmd.cancelled /\ Step("prestart") /\ UNCHANGED Runtime
       \/ cmd.stage = "up" /\ ~cmd.cancelled /\ Recreate(cmd.changed, cmd.to, cmd.dsn) /\ Step("health")
       \/ /\ cmd.stage = "up" /\ ~cmd.cancelled
          /\ \E some \in SUBSET cmd.changed : RecreateFails(some)
       \/ /\ cmd.stage = "health" /\ ~cmd.cancelled
          /\ boxes = cmd.to /\ dsn = cmd.dsn /\ Current.healthy
          /\ Step("ok") /\ UNCHANGED Runtime
       \/ cmd.stage = "health" /\ Step("failed") /\ UNCHANGED Runtime

Activation == /\ cmd # NoCmd
              /\ Activate \/ ActivateDeployment
              /\ UNCHANGED <<topology, acked, archives, journal, torn, lockFile, proud>>

------------------------------------------------------------------------------
\* Commands begin with their checks; the first thing they change is the journal, or an archive.
Command(do, stage, to, d, changed, rec) ==
    [do |-> do, stage |-> stage, to |-> to, dsn |-> d, changed |-> changed, rec |-> rec, cancelled |-> FALSE]
Record(status, previous, target, changed, d) ==
    [status |-> status, previous |-> previous, target |-> target, changed |-> changed, backup |-> 0,
     dsn |-> d, observed |-> Nowhere, phase |-> "none"]

InstallAll(to) ==
    /\ AcquireLock(Command("install", "prepare", to, 0, Components,
                           Record("install_prepared", Nowhere, to, Components, NoDsn)))
    /\ UNCHANGED <<topology, acked, archives>> /\ UNCHANGED <<Runtime, Paper>>

Install(to) == topology = "combined" /\ Fresh /\ InstallAll(to)
FreshDeployment == Fresh
DeploymentInstall(to) == topology = "split" /\ FreshDeployment /\ InstallAll(to)

UpgradeTo(to, changed) ==
    /\ AcquireLock(Command("upgrade", IF Has(changed, "backend") THEN "backup" ELSE "prepare", to, dsn, changed,
                           Record("prepared", boxes, to, changed, dsn)))
    /\ UNCHANGED <<topology, acked, archives>> /\ UNCHANGED <<Runtime, Paper>>

Upgrade(to) ==
    /\ topology = "combined" /\ validateApplication
    /\ to # boxes
    /\ UpgradeTo(to, Components)

\* The split topology compares what runs with what the journal expects.
expectedDeploymentForState ==
    CASE journal.status \in {"install_prepared", "installed", "install_failed", "prepared", "upgraded",
                             "target_failed"} -> journal.target
      [] journal.status \in {"auto_rolled_back", "rolled_back"} -> journal.previous
      [] OTHER -> IF journal.observed # Nowhere THEN journal.observed
                  ELSE CASE journal.phase = "restore" -> journal.target
                         [] journal.phase = "unknown" -> Nowhere
                         [] OTHER -> journal.previous

reconcileCurrentDeployment ==
    /\ Load
    /\ journal # NoRecord => /\ boxes = expectedDeploymentForState
                             /\ journal.dsn \in {NoDsn, dsn}

ChangedComponents(to) == {c \in Components : to[c] # boxes[c]}

DeploymentUpgrade(to) ==
    /\ topology = "split" /\ validateApplication /\ reconcileCurrentDeployment
    /\ ChangedComponents(to) # {}
    /\ UpgradeTo(to, ChangedComponents(to))

\* The archive of the running database, created and verified.
BackUp ==
    /\ cmd.stage = "backup"
    /\ \/ /\ ~cmd.cancelled /\ Len(archives) < MaxArchives
          /\ archives' = Append(archives, [dsn |-> dsn, rev |-> boxes["backend"], db |-> databases[dsn]])
          /\ cmd' = [cmd EXCEPT !.stage = "prepare", !.rec.backup = Len(archives) + 1]
          /\ UNCHANGED <<lockFile, proud>>
       \/ Release(FALSE) /\ UNCHANGED archives
    /\ UNCHANGED <<topology, acked>> /\ UNCHANGED <<Runtime, Paper>>

Backup == topology = "combined" /\ BackUp
BackupDeployment == topology = "split" /\ BackUp

------------------------------------------------------------------------------
\* A rollback needs an upgrade that ended, and the containers and the database it left.
RollbackTo(previous, changed, stage) ==
    /\ AcquireLock(Command("rollback", stage, previous, dsn, changed, journal))
    /\ UNCHANGED <<topology, acked, archives>> /\ UNCHANGED <<Runtime, Paper>>

\* Mutant: the database in use is not compared with the journal.
RollbackAnyDatabase ==
    /\ topology = "combined" /\ Load /\ journal.status \in {"upgraded", "target_failed"} /\ Identified
    /\ boxes = journal.target \/ (journal.status = "target_failed" /\ boxes = journal.previous)
    /\ journal.backup # 0
    /\ RollbackTo(journal.previous, Components, "restore")

Rollback ==
    /\ topology = "combined" /\ Load /\ journal.status \in {"upgraded", "target_failed"} /\ Identified
    /\ boxes = journal.target \/ (journal.status = "target_failed" /\ boxes = journal.previous)
    /\ journal.dsn \in {NoDsn, dsn}
    /\ journal.backup # 0
    /\ RollbackTo(journal.previous, Components, "restore")

sameDeploymentImages(a, b) == a = b

DeploymentRollback ==
    LET retry == journal.status = "rollback_failed" /\ journal.phase = "restore"
    IN  /\ topology = "split" /\ Load /\ Identified
        /\ journal.status \in {"upgraded", "target_failed"} \/ retry
        /\ \/ sameDeploymentImages(boxes, journal.target)
           \/ sameDeploymentImages(boxes, journal.observed)
           \/ (journal.status = "target_failed" \/ retry) /\ sameDeploymentImages(boxes, journal.previous)
        /\ journal.dsn \in {NoDsn, dsn}
        /\ Has(journal.changed, "backend") => journal.backup # 0
        /\ RollbackTo(journal.previous, journal.changed,
                      IF Has(journal.changed, "backend") THEN "restore" ELSE "tag")

\* The record of a rollback that failed; the split one looks at what runs now, if it still can.
rollbackFailure(phase) ==
    \/ /\ phase = "restore" \/ (~cmd.cancelled /\ Identified)
       /\ cmd' = [cmd EXCEPT !.stage = "conclude", !.rec.status = "rollback_failed", !.rec.phase = phase,
                             !.rec.observed = boxes, !.rec.dsn = IF phase = "activate" THEN dsn ELSE @]
    \/ /\ phase = "activate"
       /\ cmd' = [cmd EXCEPT !.stage = "conclude", !.rec.status = "rollback_failed", !.rec.phase = "unknown",
                             !.rec.observed = Nowhere]

\* The snapshot goes to a database of its own.
Unpack(failure) ==
    /\ cmd.stage = "restore"
    /\ \/ \E d \in 1..MaxRestores :
            /\ ~cmd.cancelled
            /\ databases[d] = NoDatabase /\ \A e \in 1..(d - 1) : databases[e] # NoDatabase
            /\ databases' = [databases EXCEPT ![d] = archives[cmd.rec.backup].db]
            /\ cmd' = [cmd EXCEPT !.stage = "tag", !.dsn = d]
       \/ failure /\ UNCHANGED databases
    /\ UNCHANGED <<topology, acked, archives, lockFile, proud, boxes, dsn, up, edgesUp, rolled>> /\ UNCHANGED Paper

RestoreCombined == topology = "combined" /\ Unpack(Note("rollback_failed", "conclude"))
restoreDeploymentBackup == topology = "split" /\ Unpack(rollbackFailure("restore"))

------------------------------------------------------------------------------
\* After the activation.
Stop == \/ up' = FALSE
        \/ UNCHANGED up
StopDeployment == Stop

InstallEnds ==
    /\ cmd.do = "install"
    /\ \/ /\ cmd.stage = "ok"
          /\ cmd' = [cmd EXCEPT !.stage = "succeed", !.rec.status = "installed", !.rec.dsn = 0]
       \/ cmd.stage \in {"prestart", "failed"} /\ Note("install_failed", "conclude")
    /\ UNCHANGED Runtime

\* An upgrade that may have touched the database stops the candidate and restores nothing.
UpgradeFails ==
    /\ cmd.stage = "failed" /\ Has(cmd.changed, "backend")
    /\ IF topology = "combined" THEN Stop ELSE StopDeployment
    /\ Note("target_failed", "conclude")
    /\ UNCHANGED <<boxes, dsn, edgesUp, databases, rolled>>

UpgradeEnds ==
    /\ cmd.do = "upgrade"
    /\ \/ UpgradeFails
       \/ /\ \/ cmd.stage = "ok" /\ Note("upgraded", "succeed")
             \/ cmd.stage = "prestart" /\ Note("auto_rolled_back", "conclude")
             \/ cmd.stage = "failed" /\ ~Has(cmd.changed, "backend") /\ Note("target_failed", "recover")
          /\ UNCHANGED Runtime

\* Gateway and frontend go back by themselves.
RecoveryEnds ==
    /\ cmd.do = "recover"
    /\ \/ cmd.stage = "ok" /\ Note("auto_rolled_back", "conclude")
       \/ cmd.stage \in {"prestart", "failed"} /\ rollbackFailure("activate")
    /\ UNCHANGED Runtime

RollbackEnds ==
    /\ cmd.do = "rollback"
    /\ \/ /\ cmd.stage = "ok"
          /\ cmd' = [cmd EXCEPT !.stage = "succeed", !.rec.status = "rolled_back", !.rec.dsn = cmd.dsn,
                                !.rec.observed = Nowhere, !.rec.phase = "none"]
       \/ /\ cmd.stage \in {"prestart", "failed"}
          /\ IF topology = "combined" THEN Note("rollback_failed", "conclude") ELSE rollbackFailure("activate")
    /\ UNCHANGED Runtime

ActivationEnds ==
    /\ cmd # NoCmd
    /\ InstallEnds \/ UpgradeEnds \/ RecoveryEnds \/ RollbackEnds
    /\ UNCHANGED <<topology, acked, archives, journal, torn, lockFile, proud>>

\* The entries of the journal: before the activation, at the end, and before a recovery.
WriteJournal ==
    /\ cmd # NoCmd
    /\ \E done \in BOOLEAN :
        /\ appendJournalRecord(cmd.rec, done)
        /\ \/ cmd.stage = "prepare" /\ done /\ Step("tag") /\ UNCHANGED <<lockFile, proud>>
           \/ cmd.stage \in {"prepare", "recover"} /\ ~done /\ Release(FALSE)
           \/ cmd.stage = "recover" /\ done
              /\ cmd' = [cmd EXCEPT !.do = "recover", !.stage = "tag", !.to = cmd.rec.previous]
              /\ UNCHANGED <<lockFile, proud>>
           \/ cmd.stage = "conclude" /\ Release(FALSE)
           \/ cmd.stage = "succeed" /\ (done \/ cmd.do # "upgrade") /\ Release(done)
           \/ cmd.stage = "succeed" /\ ~done /\ cmd.do = "upgrade" /\ Step("failed") /\ UNCHANGED <<lockFile, proud>>
    /\ UNCHANGED <<topology, acked, archives>> /\ UNCHANGED Runtime

------------------------------------------------------------------------------
\* Around the tool: the panel changes its database also before it is known to be healthy; it falls
\* over, and is started again; the tool is interrupted, or killed with its lock; an operator who has
\* looked at the journal removes the lock.
Serve ==
    /\ up /\ acked < MaxWrites /\ acked' = acked + 1
    /\ databases' = [databases EXCEPT ![dsn].changes = @ + 1]
    /\ UNCHANGED <<topology, boxes, dsn, up, edgesUp, archives, lockFile, cmd, rolled, proud>> /\ UNCHANGED Paper

FallOver == up /\ up' = FALSE /\ UNCHANGED edgesUp
Restart == /\ cmd = NoCmd /\ ~up /\ dsn # NoDsn /\ boxes["backend"] # 0 /\ databases[dsn].schema <= boxes["backend"]
           /\ up' = TRUE /\ UNCHANGED edgesUp
EdgeTurns == /\ topology = "split" /\ \A c \in Edges : boxes[c] # 0
             /\ edgesUp' = ~edgesUp /\ UNCHANGED up

Interrupt ==
    /\ cmd # NoCmd /\ ~cmd.cancelled /\ cmd' = [cmd EXCEPT !.cancelled = TRUE]
    /\ UNCHANGED <<lockFile, torn>>

Kill ==
    /\ cmd # NoCmd /\ cmd' = NoCmd /\ UNCHANGED lockFile
    /\ torn' \in (IF Load /\ cmd.stage \in {"prepare", "recover", "conclude", "succeed"} THEN BOOLEAN ELSE {torn})

RemoveLock == cmd = NoCmd /\ lockFile /\ lockFile' = FALSE /\ UNCHANGED <<cmd, torn>>

Around ==
    \/ Serve
    \/ /\ FallOver \/ Restart \/ EdgeTurns
       /\ UNCHANGED <<topology, boxes, dsn, databases, acked, archives, lockFile, cmd, rolled, proud>> /\ UNCHANGED Paper
    \/ /\ Interrupt \/ Kill \/ RemoveLock
       /\ UNCHANGED <<topology, acked, archives, journal, proud>> /\ UNCHANGED Runtime

LifecycleInit(t) ==
    /\ topology = t
    /\ boxes = [c \in Components |-> 0] /\ dsn = NoDsn /\ up = FALSE /\ edgesUp = (topology = "combined")
    /\ databases = [d \in 0..MaxRestores |-> NoDatabase]
    /\ acked = 0 /\ archives = <<>> /\ journal = NoRecord /\ torn = FALSE /\ lockFile = FALSE
    /\ cmd = NoCmd /\ rolled = FALSE /\ proud = FALSE

run(to) == Install(to) \/ Upgrade(to) \/ (to = [c \in Components |-> 1] /\ Rollback)
runSplit(to) == DeploymentInstall(to) \/ DeploymentUpgrade(to) \/ (to = [c \in Components |-> 1] /\ DeploymentRollback)

LifecycleNext ==
    \/ \E to \in Fleet : run(to) \/ runSplit(to)
    \/ Backup \/ BackupDeployment \/ RestoreCombined \/ restoreDeploymentBackup
    \/ Activation \/ ActivationEnds \/ WriteJournal \/ Around

LifecycleSpec == (\E t \in {"combined", "split"} : LifecycleInit(t)) /\ [][LifecycleNext]_lifecycleVars

------------------------------------------------------------------------------
\* The tool never loses what the panel acknowledged unless it is told to (lifecycle.go Upgrade,
\* Rollback; split_lifecycle.go; docs/operations/lifecycle-recovery.md): until a rollback of the
\* backend, the database in use has every acknowledged change, whatever failed or was cut off; a
\* rollback brings the previous backend only to a snapshot of the database in use that this backend
\* left behind; and after a command that reported success the journal tells what runs.
LifecycleSafe ==
    /\ ~rolled /\ dsn # NoDsn => databases[dsn].changes = acked
    /\ cmd.do = "rollback" /\ cmd.stage \in {"restore", "tag", "stop", "up"} /\ Has(cmd.changed, "backend")
       => LET a == archives[cmd.rec.backup]
          IN  /\ a.dsn = dsn /\ a.rev = cmd.to["backend"]
              /\ cmd.stage # "restore" => databases[cmd.dsn] = a.db
    /\ proud => boxes = expectedDeploymentForState /\ dsn = journal.dsn
=============================================================================
