------------------------------ MODULE Backups -------------------------------
(***************************************************************************)
(* Archives of the database and its attachments: created from the running  *)
(* panel, verified, copied, sealed with a key, sent to and fetched from a  *)
(* remote replica, and restored beside the database in use.  The commands  *)
(* run beside the panel and beside each other, may be cut off at any step  *)
(* (their temporary files are never looked at again), and any stored copy  *)
(* may rot.  A digest tells a spoiled file from a sound one.               *)
(***************************************************************************)
EXTENDS Integers, FiniteSets

CONSTANTS
    Files,          \* attachments
    Shelves,        \* paths of archives
    Clerks,         \* backup commands in progress
    SealKeys,       \* keys of encrypted archives
    MaxChanges      \* bound: changes of the database other than to its attachments

ASSUME BackupConstants == "absent" \notin Files /\ MaxChanges \in Nat

VARIABLES
    live,           \* the database in use: changes, and its rows of attachments
    disk,           \* the attachment root
    shelf,          \* the archive at each path
    remote,         \* the copy behind the replica's URL
    clerks,         \* what each command is doing
    restored,       \* the restored database
    root,           \* the restored attachment root
    past            \* every state the database was in (ghost)

backupVars == <<live, disk, shelf, remote, clerks, restored, root, past>>

Empty == [kind |-> "none"]
Absent == {"absent"}
Idle == [op |-> "none"]
Archive(format, db) ==
    [kind |-> "plain", key |-> "none", format |-> format, db |-> db, files |-> {}, sound |-> TRUE]
Spoilt(f) == [f EXCEPT !.sound = FALSE]
Assign(j, job) == clerks' = [clerks EXCEPT ![j] = job]
Stay == UNCHANGED <<live, disk, past>>

------------------------------------------------------------------------------
\* The panel: a change; an attachment, file before row; a purge, file before row.
Change ==
    /\ live.changes < MaxChanges
    /\ live' = [live EXCEPT !.changes = @ + 1] /\ UNCHANGED disk
Attach(f) ==
    \/ f \notin disk /\ f \notin live.rows /\ disk' = disk \cup {f} /\ UNCHANGED live
    \/ f \in disk /\ f \notin live.rows /\ live' = [live EXCEPT !.rows = @ \cup {f}] /\ UNCHANGED disk
Purge(f) ==
    \/ f \in disk /\ f \in live.rows /\ disk' = disk \ {f} /\ UNCHANGED live
    \/ f \notin disk /\ f \in live.rows /\ live' = [live EXCEPT !.rows = @ \ {f}] /\ UNCHANGED disk

PanelWorks ==
    /\ Change \/ \E f \in Files : Attach(f) \/ Purge(f)
    /\ past' = past \cup {live'}
    /\ UNCHANGED <<shelf, remote, clerks, restored, root>>

------------------------------------------------------------------------------
\* An output path must be unused when a command begins, and again when it publishes.
prepareNewOutputPath(to) == shelf[to] = Empty
prepareReplicaOutputPath(to) == shelf[to] = Empty

createSQLiteSnapshot == live

\* The snapshot comes first; with an attachment root the archive is a bundle.
Create(j, to, bundle) ==
    /\ clerks[j] = Idle /\ prepareNewOutputPath(to)
    /\ Assign(j, [op |-> "create", to |-> to, stage |-> IF bundle THEN "index" ELSE "publish",
                  temp |-> Archive(IF bundle THEN 2 ELSE 1, createSQLiteSnapshot)])
    /\ UNCHANGED <<shelf, remote, restored, root>> /\ Stay

\* Every row of the snapshot needs its file, when the index is made and when the file is archived.
readAttachmentManifest(j) ==
    /\ clerks[j].op = "create" /\ clerks[j].stage = "index" /\ clerks[j].temp.db.rows \subseteq disk
    /\ Assign(j, [clerks[j] EXCEPT !.stage = "archive"])
    /\ UNCHANGED <<shelf, remote, restored, root>> /\ Stay

\* Mutant: a file that has gone meanwhile is left out.
WriteWhatIsThere(j) ==
    /\ clerks[j].op = "create" /\ clerks[j].stage = "archive"
    /\ Assign(j, [clerks[j] EXCEPT !.stage = "publish", !.temp.files = @ \cup (clerks[j].temp.db.rows \cap disk)])
    /\ UNCHANGED <<shelf, remote, restored, root>> /\ Stay

writeArchive(j) ==
    /\ clerks[j].op = "create" /\ clerks[j].stage = "archive" /\ clerks[j].temp.db.rows \subseteq disk
    /\ Assign(j, [clerks[j] EXCEPT !.stage = "publish", !.temp.files = clerks[j].temp.db.rows])
    /\ UNCHANGED <<shelf, remote, restored, root>> /\ Stay

\* Sizes and digests of the manifest, of the database and of each file.
extractAndVerify(f) == f.kind = "plain" /\ f.sound
Verify(f) == extractAndVerify(f)

\* A copy is verified before it is published; what the source does meanwhile shows in it.
Replicate(j, from, to) ==
    /\ clerks[j] = Idle /\ from # to /\ prepareReplicaOutputPath(to) /\ Verify(shelf[from])
    /\ Assign(j, [op |-> "copy", to |-> to, stage |-> "publish", temp |-> shelf[from]])
    /\ UNCHANGED <<shelf, remote, restored, root>> /\ Stay

\* Sealing: the archive is verified, read again and written under the key.
writeEncryptedArchive(f, key) == [f EXCEPT !.kind = "sealed", !.key = key]

Encrypt(j, from, to, key) ==
    /\ clerks[j] = Idle /\ from # to /\ Verify(shelf[from]) /\ prepareNewOutputPath(to)
    /\ Assign(j, [op |-> "seal", to |-> to, stage |-> "read", from |-> from, key |-> key])
    /\ UNCHANGED <<shelf, remote, restored, root>> /\ Stay

\* What has rotted since it was verified no longer matches the digest in the header.
SealAgain(j) ==
    LET w == clerks[j] IN
    /\ w.op = "seal" /\ w.stage = "read" /\ shelf[w.from].kind = "plain"
    /\ Assign(j, [op |-> "seal", to |-> w.to, stage |-> "publish", temp |-> writeEncryptedArchive(shelf[w.from], w.key)])
    /\ UNCHANGED <<shelf, remote, restored, root>> /\ Stay

decryptToPath(f, key) == f.kind = "sealed" /\ f.sound /\ f.key = key
Opened(f) == [f EXCEPT !.kind = "plain", !.key = "none"]
VerifyEncrypted(f, key) == decryptToPath(f, key) /\ Verify(Opened(f))

Decrypt(j, from, to, key) ==
    /\ clerks[j] = Idle /\ from # to /\ prepareNewOutputPath(to) /\ VerifyEncrypted(shelf[from], key)
    /\ Assign(j, [op |-> "open", to |-> to, stage |-> "publish", temp |-> Opened(shelf[from])])
    /\ UNCHANGED <<shelf, remote, restored, root>> /\ Stay

\* The replica's server takes what is sent, and may spoil it; a fetched copy is not verified.
UploadHTTP(j, from) ==
    /\ clerks[j] = Idle /\ shelf[from] # Empty
    /\ remote' \in {shelf[from], Spoilt(shelf[from])}
    /\ UNCHANGED <<clerks, shelf, restored, root>> /\ Stay

DownloadHTTP(j, to) ==
    /\ clerks[j] = Idle /\ remote # Empty /\ prepareReplicaOutputPath(to)
    /\ \E f \in {remote, Spoilt(remote)} :
        Assign(j, [op |-> "copy", to |-> to, stage |-> "publish", temp |-> f])
    /\ UNCHANGED <<shelf, remote, restored, root>> /\ Stay

\* A hard link: it never replaces.  Copies and sealed archives are looked at once more.
publishNoReplace(j) ==
    LET w == clerks[j] IN
    /\ w.op \in {"create", "copy", "seal", "open"} /\ w.stage = "publish" /\ shelf[w.to] = Empty
    /\ shelf' = [shelf EXCEPT ![w.to] = w.temp]
    /\ Assign(j, IF w.op \in {"copy", "seal"} THEN [w EXCEPT !.stage = "check"] ELSE Idle)
    /\ UNCHANGED <<remote, restored, root>> /\ Stay

fileSHA256(f) == f.sound

CheckPublished(j) ==
    LET w == clerks[j]  f == shelf[w.to] IN
    /\ w.op \in {"copy", "seal"} /\ w.stage = "check"
    /\ shelf' = IF \/ w.op = "copy" /\ fileSHA256(f) = fileSHA256(w.temp)
                   \/ w.op = "seal" /\ VerifyEncrypted(f, w.temp.key)
                THEN shelf ELSE [shelf EXCEPT ![w.to] = Empty]
    /\ Assign(j, Idle)
    /\ UNCHANGED <<remote, restored, root>> /\ Stay

------------------------------------------------------------------------------
\* Restoring: a bundle needs a root for its attachments, an archive without them must have none.
prepareNewDirectoryPath == root = Absent

Restore(j, from, withRoot) ==
    /\ clerks[j] = Idle /\ restored = Empty /\ withRoot => prepareNewDirectoryPath
    /\ extractAndVerify(shelf[from])
    /\ withRoot <=> shelf[from].format = 2
    /\ Assign(j, [op |-> "restore", stage |-> IF withRoot THEN "root" ELSE "database", temp |-> shelf[from]])
    /\ UNCHANGED <<shelf, remote, restored, root>> /\ Stay

\* The root is renamed into place, where no directory may be.  That another restore puts one there
\* within the system call is left out.
RenameRoot(j) ==
    /\ clerks[j].op = "restore" /\ clerks[j].stage = "root" /\ root = Absent
    /\ root' = clerks[j].temp.files
    /\ Assign(j, [clerks[j] EXCEPT !.stage = "database"])
    /\ UNCHANGED <<shelf, remote, restored>> /\ Stay

\* The database is published last, never over another; when that fails the root is taken away again.
PublishDatabase(j) ==
    LET w == clerks[j] IN
    /\ w.op = "restore" /\ w.stage = "database"
    /\ \/ restored = Empty /\ restored' = w.temp /\ UNCHANGED root
       \/ root' = (IF w.temp.format = 2 THEN Absent ELSE root) /\ UNCHANGED restored
    /\ Assign(j, Idle)
    /\ UNCHANGED <<shelf, remote>> /\ Stay

------------------------------------------------------------------------------
\* A command fails or is killed; a stored copy rots.
Abandon(j) ==
    /\ clerks[j] # Idle /\ Assign(j, Idle)
    /\ UNCHANGED <<shelf, remote, restored, root>> /\ Stay

Rot(p) ==
    /\ shelf[p] # Empty /\ shelf[p].sound
    /\ shelf' = [shelf EXCEPT ![p] = Spoilt(@)]
    /\ UNCHANGED <<clerks, remote, restored, root>> /\ Stay

\* An operator deletes an archive no command is using.
Discard(p) ==
    /\ shelf[p] # Empty /\ \A j \in Clerks : clerks[j] = Idle
    /\ shelf' = [shelf EXCEPT ![p] = Empty]
    /\ UNCHANGED <<clerks, remote, restored, root>> /\ Stay

BackupsInit ==
    /\ live = [changes |-> 0, rows |-> {}] /\ disk = {} /\ past = {live}
    /\ shelf = [p \in Shelves |-> Empty] /\ remote = Empty
    /\ clerks = [j \in Clerks |-> Idle] /\ restored = Empty /\ root = Absent

BackupsNext ==
    \/ PanelWorks
    \/ \E j \in Clerks :
        \/ \E p \in Shelves : (\E bundle \in BOOLEAN : Create(j, p, bundle) \/ Restore(j, p, bundle))
                              \/ UploadHTTP(j, p) \/ DownloadHTTP(j, p)
        \/ \E p, q \in Shelves : Replicate(j, p, q) \/ \E k \in SealKeys : Encrypt(j, p, q, k) \/ Decrypt(j, p, q, k)
        \/ readAttachmentManifest(j) \/ writeArchive(j) \/ publishNoReplace(j) \/ SealAgain(j) \/ CheckPublished(j)
        \/ RenameRoot(j) \/ PublishDatabase(j) \/ Abandon(j)
    \/ \E p \in Shelves : Rot(p) \/ Discard(p)

BackupsSpec == BackupsInit /\ [][BackupsNext]_backupVars

------------------------------------------------------------------------------
\* What a restore puts in place is the panel as it once was (backup.go Create, Restore): a state the
\* database was in, with every attachment its rows name, whatever the panel purged while the archive
\* was written, however often it was copied, sealed, sent and fetched, and whichever commands were
\* cut off or used the same paths.  And no sound bundle lacks a file.
RestoredWhole ==
    /\ restored # Empty => /\ restored.sound /\ restored.db \in past
                           /\ restored.format = 2 => restored.db.rows \subseteq root
    /\ \A p \in Shelves : shelf[p] # Empty /\ shelf[p].sound /\ shelf[p].format = 2
                          => shelf[p].files = shelf[p].db.rows
=============================================================================
