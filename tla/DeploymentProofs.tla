-------------------------- MODULE DeploymentProofs --------------------------
(***************************************************************************)
(* Theorems about what lives beside the database: the backups and their    *)
(* restores, the deployment and the attachments.                           *)
(***************************************************************************)
EXTENDS Attachments, Backups, Lifecycle, FiniteSetTheorems, TLAPS

-----------------------------------------------------------------------------
(* Backups.  An archive is good if the database in it is one the panel was *)
(* in and, in a bundle, every attachment its rows name is there; being     *)
(* spoilt does not make it worse, only recognisable.                       *)

Databases == [changes : Nat, rows : SUBSET Files]
ArchiveType ==
    [kind : {"plain", "sealed"}, key : SealKeys \cup {"none"}, format : {1, 2}, db : Databases,
     files : SUBSET Files, sound : BOOLEAN]
Stored == ArchiveType \cup {Empty}

Good(f) == f.db \in past /\ (f.format = 2 => f.files = f.db.rows)

Creating == [op : {"create"}, to : Shelves, stage : {"index", "archive", "publish"}, temp : ArchiveType]
Copying == [op : {"copy", "seal", "open"}, to : Shelves, stage : {"publish", "check"}, temp : ArchiveType]
Sealing == [op : {"seal"}, to : Shelves, stage : {"read"}, from : Shelves, key : SealKeys]
Restoring == [op : {"restore"}, stage : {"root", "database"}, temp : ArchiveType]
JobType == {Idle} \cup Creating \cup Copying \cup Sealing \cup Restoring

BackupsTypeOK ==
    /\ live \in Databases /\ disk \in SUBSET Files /\ past \in SUBSET Databases
    /\ shelf \in [Shelves -> Stored] /\ remote \in Stored
    /\ clerks \in [Clerks -> JobType]
    /\ restored \in Stored /\ root \in (SUBSET Files) \cup {Absent}

(* Whatever is stored anywhere is good, and so is what a command is about to publish. *)
StoresGood ==
    /\ live \in past
    /\ \A p \in Shelves : shelf[p] # Empty => Good(shelf[p])
    /\ remote # Empty => Good(remote)
    /\ restored # Empty => Good(restored) /\ restored.sound

JobGood(w) ==
    /\ w.op = "create" => w.temp.db \in past /\ (w.stage = "publish" => Good(w.temp))
    /\ w.op \in {"copy", "open"} \/ (w.op = "seal" /\ w.stage # "read") => Good(w.temp)
    /\ w.op = "restore" => Good(w.temp) /\ w.temp.sound

JobsGood == \A j \in Clerks : JobGood(clerks[j])

(* A command that moved its root into place and has not published the database yet. *)
Rooted(w) == w.op = "restore" /\ w.stage = "database" /\ w.temp.format = 2

(* The root belongs to one restore. *)
RootOwned ==
    /\ \A j, k \in Clerks : Rooted(clerks[j]) /\ Rooted(clerks[k]) => j = k
    /\ \A j \in Clerks : Rooted(clerks[j]) => root = clerks[j].temp.files
    /\ restored # Empty /\ restored.format = 2 =>
        root = restored.files /\ \A j \in Clerks : ~Rooted(clerks[j])

BackupsInv == BackupsTypeOK /\ StoresGood /\ JobsGood /\ RootOwned

(* The records of the tables are told apart by their first field. *)
LEMMA Kinds ==
    /\ \A f \in ArchiveType : f # Empty
    /\ \A f \in Stored : f # Empty => f \in ArchiveType
    /\ \A f \in Stored : f.kind # "none" => f \in ArchiveType
  BY DEF ArchiveType, Stored, Empty

LEMMA Ops ==
    ASSUME NEW w \in JobType
    PROVE  /\ w.op = "create" => w \in Creating
           /\ w.op \in {"copy", "open"} \/ (w.op = "seal" /\ w.stage # "read") => w \in Copying
           /\ w.op = "seal" /\ w.stage = "read" => w \in Sealing
           /\ w.op = "restore" => w \in Restoring
           /\ w.op = "none" => w = Idle
  BY DEF JobType, Idle, Creating, Copying, Sealing, Restoring

LEMMA BackupsInvInit == BackupsInit => BackupsInv
  <1> SUFFICES ASSUME BackupsInit PROVE BackupsInv
    OBVIOUS
  <1> USE DEF BackupsInit
  <1>1. BackupsTypeOK
    <2>1. live \in Databases /\ past \in SUBSET Databases
      BY DEF Databases
    <2> QED BY <2>1 DEF BackupsTypeOK, Stored, JobType
  <1>2. StoresGood
    BY DEF StoresGood
  <1>3. JobsGood
    BY DEF JobsGood, JobGood, Idle
  <1>4. RootOwned
    BY DEF RootOwned, Rooted, Idle
  <1> QED BY <1>1, <1>2, <1>3, <1>4 DEF BackupsInv

(* A command that only changes what it is doing. *)
LEMMA AssignKeeps ==
    ASSUME BackupsInv, NEW j \in Clerks, NEW w \in JobType, Assign(j, w), JobGood(w), ~Rooted(w),
           UNCHANGED <<shelf, remote, restored, root>>, Stay
    PROVE  BackupsInv'
  <1> USE DEF Assign, Stay, BackupsInv
  <1>0. clerks' \in [Clerks -> JobType] /\ \A i \in Clerks : clerks'[i] = IF i = j THEN w ELSE clerks[i]
    BY DEF BackupsTypeOK
  <1>1. BackupsTypeOK'
    BY <1>0 DEF BackupsTypeOK
  <1>2. StoresGood'
    BY DEF StoresGood, Good
  <1>3. JobsGood'
    BY <1>0 DEF JobsGood, JobGood, Good
  <1>4. RootOwned'
    BY <1>0 DEF RootOwned, Rooted
  <1> QED BY <1>1, <1>2, <1>3, <1>4 DEF BackupsInv

(* An archive that changes place, the commands apart. *)
LEMMA ShelfKeeps ==
    ASSUME BackupsInv, NEW p \in Shelves, NEW f \in Stored, f # Empty => Good(f), shelf' = [shelf EXCEPT ![p] = f],
           clerks' \in [Clerks -> JobType], JobsGood', \A j \in Clerks : Rooted(clerks'[j]) => clerks'[j] = clerks[j],
           UNCHANGED <<remote, restored, root>>, Stay
    PROVE  BackupsInv'
  <1> USE DEF Stay, BackupsInv
  <1>1. BackupsTypeOK'
    BY DEF BackupsTypeOK
  <1>2. StoresGood'
    BY DEF StoresGood, Good, BackupsTypeOK
  <1>4. RootOwned'
    BY DEF RootOwned, Rooted
  <1> QED BY <1>1, <1>2, <1>4 DEF BackupsInv

LEMMA PanelKeeps == BackupsInv /\ PanelWorks => BackupsInv'
  <1> SUFFICES ASSUME BackupsInv, PanelWorks PROVE BackupsInv'
    OBVIOUS
  <1> USE DEF PanelWorks, BackupsInv
  <1>1. live' \in Databases /\ disk' \in SUBSET Files
    BY DEF BackupsTypeOK, Databases, Change, Attach, Purge
  <1>2. BackupsTypeOK'
    BY <1>1 DEF BackupsTypeOK
  <1>3. StoresGood'
    BY <1>1 DEF StoresGood, Good
  <1>4. JobsGood'
    BY DEF JobsGood, JobGood, Good
  <1>5. RootOwned'
    BY DEF RootOwned, Rooted
  <1> QED BY <1>2, <1>3, <1>4, <1>5 DEF BackupsInv

LEMMA CommandsKeep ==
    ASSUME BackupsInv, NEW j \in Clerks, NEW p \in Shelves, NEW q \in Shelves,
           \/ \E bundle \in BOOLEAN : Create(j, p, bundle) \/ Restore(j, p, bundle)
           \/ UploadHTTP(j, p) \/ DownloadHTTP(j, p)
           \/ Replicate(j, p, q) \/ \E k \in SealKeys : Encrypt(j, p, q, k) \/ Decrypt(j, p, q, k)
    PROVE  BackupsInv'
  <1> USE DEF BackupsInv
  <1>0. /\ shelf[p] \in Stored /\ (shelf[p] # Empty => shelf[p] \in ArchiveType /\ Good(shelf[p]))
        /\ shelf[p].kind \in {"plain", "sealed"} => shelf[p] \in ArchiveType /\ Good(shelf[p])
    BY Kinds DEF BackupsTypeOK, StoresGood, Empty
  <1>1. ASSUME NEW bundle \in BOOLEAN, Create(j, p, bundle) PROVE BackupsInv'
    <2> DEFINE w == [op |-> "create", to |-> p, stage |-> IF bundle THEN "index" ELSE "publish",
                     temp |-> Archive(IF bundle THEN 2 ELSE 1, createSQLiteSnapshot)]
    <2>1. w \in Creating /\ w.op = "create"
      BY DEF Creating, ArchiveType, Archive, createSQLiteSnapshot, BackupsTypeOK
    <2>2. JobGood(w)
      BY DEF JobGood, Good, Archive, createSQLiteSnapshot, StoresGood
    <2>3. w \in JobType /\ ~Rooted(w)
      BY <2>1 DEF JobType, Rooted
    <2>4. Assign(j, w) /\ UNCHANGED <<shelf, remote, restored, root>> /\ Stay
      BY <1>1 DEF Create
    <2> HIDE DEF w
    <2> QED BY <2>2, <2>3, <2>4, AssignKeeps
  <1>2. ASSUME NEW bundle \in BOOLEAN, Restore(j, p, bundle) PROVE BackupsInv'
    <2> DEFINE w == [op |-> "restore", stage |-> IF bundle THEN "root" ELSE "database", temp |-> shelf[p]]
    <2>1. shelf[p] \in ArchiveType /\ Good(shelf[p]) /\ shelf[p].sound /\ (bundle <=> shelf[p].format = 2)
      BY <1>0, <1>2 DEF Restore, extractAndVerify
    <2>2. w \in Restoring
      BY <2>1 DEF Restoring
    <2>3. w \in JobType /\ JobGood(w) /\ ~Rooted(w)
      BY <2>1, <2>2 DEF JobType, Rooted, JobGood
    <2>4. Assign(j, w) /\ UNCHANGED <<shelf, remote, restored, root>> /\ Stay
      BY <1>2 DEF Restore
    <2> HIDE DEF w
    <2> QED BY <2>3, <2>4, AssignKeeps
  <1>3. CASE UploadHTTP(j, p)
    <2>1. remote' \in Stored /\ (remote' # Empty => Good(remote'))
      <3>1. Spoilt(shelf[p]) \in ArchiveType /\ Good(Spoilt(shelf[p]))
        BY <1>0, <1>3 DEF UploadHTTP, Spoilt, ArchiveType, Good
      <3> QED BY <1>0, <1>3, <3>1 DEF UploadHTTP, Stored
    <2>2. BackupsTypeOK' /\ StoresGood'
      BY <1>3, <2>1 DEF UploadHTTP, Stay, BackupsTypeOK, StoresGood, Good
    <2> QED BY <1>3, <2>2 DEF UploadHTTP, Stay, JobsGood, JobGood, RootOwned, Rooted, Good
  <1>4. CASE DownloadHTTP(j, p)
    <2>1. PICK f \in {remote, Spoilt(remote)} : Assign(j, [op |-> "copy", to |-> p, stage |-> "publish", temp |-> f])
      BY <1>4 DEF DownloadHTTP
    <2> DEFINE w == [op |-> "copy", to |-> p, stage |-> "publish", temp |-> f]
    <2>2. f \in ArchiveType /\ Good(f)
      <3>1. remote \in ArchiveType /\ Good(remote)
        BY <1>4, Kinds DEF DownloadHTTP, BackupsTypeOK, StoresGood
      <3> QED BY <3>1 DEF Spoilt, ArchiveType, Good
    <2>3. w \in Copying
      BY <2>2 DEF Copying
    <2>4. w \in JobType /\ JobGood(w) /\ ~Rooted(w)
      BY <2>2, <2>3 DEF JobType, Rooted, JobGood
    <2>5. Assign(j, w) /\ UNCHANGED <<shelf, remote, restored, root>> /\ Stay
      BY <1>4, <2>1 DEF DownloadHTTP
    <2> HIDE DEF w
    <2> QED BY <2>4, <2>5, AssignKeeps
  <1>5. CASE Replicate(j, p, q)
    <2> DEFINE w == [op |-> "copy", to |-> q, stage |-> "publish", temp |-> shelf[p]]
    <2>1. shelf[p] \in ArchiveType /\ Good(shelf[p])
      BY <1>0, <1>5 DEF Replicate, Verify, extractAndVerify
    <2>2. w \in Copying
      BY <2>1 DEF Copying
    <2>3. w \in JobType /\ JobGood(w) /\ ~Rooted(w)
      BY <2>1, <2>2 DEF JobType, Rooted, JobGood
    <2>4. Assign(j, w) /\ UNCHANGED <<shelf, remote, restored, root>> /\ Stay
      BY <1>5 DEF Replicate
    <2> HIDE DEF w
    <2> QED BY <2>3, <2>4, AssignKeeps
  <1>6. ASSUME NEW k \in SealKeys, Encrypt(j, p, q, k) PROVE BackupsInv'
    <2> DEFINE w == [op |-> "seal", to |-> q, stage |-> "read", from |-> p, key |-> k]
    <2>1. w \in Sealing
      BY DEF Sealing
    <2>2. w \in JobType /\ JobGood(w) /\ ~Rooted(w)
      BY <2>1 DEF JobType, Rooted, JobGood
    <2>3. Assign(j, w) /\ UNCHANGED <<shelf, remote, restored, root>> /\ Stay
      BY <1>6 DEF Encrypt
    <2> HIDE DEF w
    <2> QED BY <2>2, <2>3, AssignKeeps
  <1>7. ASSUME NEW k \in SealKeys, Decrypt(j, p, q, k) PROVE BackupsInv'
    <2> DEFINE w == [op |-> "open", to |-> q, stage |-> "publish", temp |-> Opened(shelf[p])]
    <2>1. shelf[p] \in ArchiveType /\ Good(shelf[p])
      BY <1>0, <1>7 DEF Decrypt, VerifyEncrypted, decryptToPath
    <2>2. Opened(shelf[p]) \in ArchiveType /\ Good(Opened(shelf[p]))
      BY <2>1 DEF Opened, ArchiveType, Good
    <2>3. w \in Copying
      BY <2>2 DEF Copying
    <2>4. w \in JobType /\ JobGood(w) /\ ~Rooted(w)
      BY <2>2, <2>3 DEF JobType, Rooted, JobGood
    <2>5. Assign(j, w) /\ UNCHANGED <<shelf, remote, restored, root>> /\ Stay
      BY <1>7 DEF Decrypt
    <2> HIDE DEF w
    <2> QED BY <2>4, <2>5, AssignKeeps
  <1> QED BY <1>1, <1>2, <1>3, <1>4, <1>5, <1>6, <1>7

LEMMA StepsKeep ==
    ASSUME BackupsInv, NEW j \in Clerks,
           \/ readAttachmentManifest(j) \/ writeArchive(j) \/ SealAgain(j) \/ Abandon(j)
           \/ publishNoReplace(j) \/ CheckPublished(j) \/ RenameRoot(j) \/ PublishDatabase(j)
    PROVE  BackupsInv'
  <1> USE DEF BackupsInv
  <1> DEFINE w == clerks[j]
  <1>0. w \in JobType /\ JobGood(w) /\ Idle \in JobType /\ JobGood(Idle) /\ ~Rooted(Idle)
    BY DEF BackupsTypeOK, JobsGood, JobType, Idle, JobGood, Rooted
  <1>1. CASE readAttachmentManifest(j)
    <2> DEFINE x == [w EXCEPT !.stage = "archive"]
    <2>1. w \in Creating /\ JobGood(w) /\ w.op = "create"
      BY <1>0, <1>1, Ops DEF readAttachmentManifest
    <2>2. x \in Creating /\ x.op = "create" /\ JobGood(x)
      BY <2>1 DEF Creating, JobGood, Good
    <2>3. x \in JobType /\ ~Rooted(x)
      BY <2>2 DEF JobType, Rooted
    <2>4. Assign(j, x) /\ UNCHANGED <<shelf, remote, restored, root>> /\ Stay
      BY <1>1 DEF readAttachmentManifest
    <2> HIDE DEF x
    <2> QED BY <2>2, <2>3, <2>4, AssignKeeps
  <1>2. CASE writeArchive(j)
    <2> DEFINE x == [w EXCEPT !.stage = "publish", !.temp.files = w.temp.db.rows]
    <2>1. w \in Creating /\ JobGood(w) /\ w.op = "create" /\ w.temp \in ArchiveType
      BY <1>0, <1>2, Ops DEF writeArchive, Creating
    <2>2. [w.temp EXCEPT !.files = w.temp.db.rows] \in ArchiveType
      BY <2>1 DEF ArchiveType, Databases
    <2>3. x \in Creating /\ x.op = "create" /\ x.temp = [w.temp EXCEPT !.files = w.temp.db.rows]
      BY <2>1, <2>2 DEF Creating
    <2>4. JobGood(x)
      BY <2>1, <2>3 DEF JobGood, Good, ArchiveType
    <2>5. x \in JobType /\ ~Rooted(x)
      BY <2>3 DEF JobType, Rooted
    <2>6. Assign(j, x) /\ UNCHANGED <<shelf, remote, restored, root>> /\ Stay
      BY <1>2 DEF writeArchive
    <2> HIDE DEF x
    <2> QED BY <2>4, <2>5, <2>6, AssignKeeps
  <1>3. CASE SealAgain(j)
    <2> DEFINE f == writeEncryptedArchive(shelf[w.from], w.key)
               x == [op |-> "seal", to |-> w.to, stage |-> "publish", temp |-> f]
    <2>1. w \in Sealing /\ shelf[w.from] \in ArchiveType /\ Good(shelf[w.from])
      <3>1. w \in Sealing /\ shelf[w.from] \in Stored /\ shelf[w.from].kind = "plain"
        BY <1>0, <1>3, Ops DEF SealAgain, BackupsTypeOK, Sealing
      <3>2. shelf[w.from] \in ArchiveType /\ shelf[w.from] # Empty
        BY <3>1, Kinds DEF Empty
      <3> QED BY <3>1, <3>2 DEF StoresGood, Sealing
    <2>2. f \in ArchiveType /\ Good(f)
      BY <2>1 DEF writeEncryptedArchive, ArchiveType, Good, Sealing
    <2>3. x \in Copying
      BY <2>1, <2>2 DEF Copying, Sealing
    <2>4. x \in JobType /\ JobGood(x) /\ ~Rooted(x)
      BY <2>2, <2>3 DEF JobType, JobGood, Rooted
    <2>5. Assign(j, x) /\ UNCHANGED <<shelf, remote, restored, root>> /\ Stay
      BY <1>3 DEF SealAgain
    <2> HIDE DEF x
    <2> QED BY <2>4, <2>5, AssignKeeps
  <1>4. CASE Abandon(j)
    BY <1>0, <1>4, AssignKeeps DEF Abandon
  <1>5. CASE publishNoReplace(j)
    <2> DEFINE x == IF w.op \in {"copy", "seal"} THEN [w EXCEPT !.stage = "check"] ELSE Idle
    <2>1. w \in Creating \cup Copying /\ Good(w.temp)
      BY <1>0, <1>5, Ops DEF publishNoReplace, JobGood
    <2>2. w.to \in Shelves /\ w.temp \in Stored
      BY <2>1 DEF Creating, Copying, Stored
    <2>3. x \in JobType /\ JobGood(x) /\ ~Rooted(x)
      <3>1. CASE w.op \in {"copy", "seal"}
        <4>1. w \in Copying
          BY <2>1, <3>1 DEF Creating
        <4>2. x = [w EXCEPT !.stage = "check"] /\ x \in Copying /\ x.temp = w.temp /\ x.op = w.op /\ x.stage = "check"
          BY <3>1, <4>1 DEF Copying
        <4> QED BY <2>1, <3>1, <4>2 DEF JobType, JobGood, Rooted
      <3> QED BY <1>0, <3>1
    <2>4. /\ shelf' = [shelf EXCEPT ![w.to] = w.temp] /\ Assign(j, x)
          /\ UNCHANGED <<remote, restored, root>> /\ Stay
      BY <1>5 DEF publishNoReplace
    <2> HIDE DEF x
    <2>5. clerks' \in [Clerks -> JobType] /\ \A i \in Clerks : clerks'[i] = IF i = j THEN x ELSE clerks[i]
      BY <2>3, <2>4 DEF Assign, BackupsTypeOK
    <2>6. JobsGood' /\ \A i \in Clerks : Rooted(clerks'[i]) => clerks'[i] = clerks[i]
      BY <2>3, <2>4, <2>5 DEF JobsGood, JobGood, Good, Stay
    <2> HIDE DEF w
    <2> QED BY <2>1, <2>2, <2>4, <2>5, <2>6, ShelfKeeps
  <1>6. CASE CheckPublished(j)
    <2>1. w \in Copying /\ w.to \in Shelves
      BY <1>0, <1>6, Ops DEF CheckPublished, Copying
    <2>2. Assign(j, Idle) /\ UNCHANGED <<remote, restored, root>> /\ Stay
      BY <1>6 DEF CheckPublished
    <2>3. CASE shelf' = shelf
      BY <1>0, <2>2, <2>3, AssignKeeps
    <2>4. CASE shelf' = [shelf EXCEPT ![w.to] = Empty]
      <3>1. clerks' \in [Clerks -> JobType] /\ \A i \in Clerks : clerks'[i] = IF i = j THEN Idle ELSE clerks[i]
        BY <1>0, <2>2 DEF Assign, BackupsTypeOK
      <3>2. JobsGood' /\ \A i \in Clerks : Rooted(clerks'[i]) => clerks'[i] = clerks[i]
        BY <1>0, <2>2, <3>1 DEF JobsGood, JobGood, Good, Stay
      <3>3. Empty \in Stored
        BY DEF Stored
      <3> HIDE DEF w
      <3> QED BY <2>1, <2>2, <2>4, <3>1, <3>2, <3>3, ShelfKeeps
    <2> QED BY <1>6, <2>3, <2>4 DEF CheckPublished
  <1>7. CASE RenameRoot(j)
    <2> DEFINE x == [w EXCEPT !.stage = "database"]
    <2>0. w \in Restoring /\ w.temp \in ArchiveType /\ w.op = "restore" /\ w.stage = "root"
      BY <1>0, <1>7, Ops DEF RenameRoot, Restoring
    <2>1. x \in Restoring /\ x.temp = w.temp /\ x.op = "restore" /\ x.stage = "database" /\ Good(w.temp) /\ w.temp.sound
      BY <1>0, <2>0 DEF Restoring, JobGood
    <2>2. /\ clerks' = [clerks EXCEPT ![j] = x] /\ root' = w.temp.files /\ root = Absent
          /\ UNCHANGED <<shelf, remote, restored, live, disk, past>>
      BY <1>7 DEF RenameRoot, Assign, Stay
    <2> HIDE DEF x
    <2>3. clerks' \in [Clerks -> JobType] /\ \A i \in Clerks : clerks'[i] = IF i = j THEN x ELSE clerks[i]
      BY <2>1, <2>2 DEF BackupsTypeOK, JobType
    <2>4. BackupsTypeOK'
      BY <2>0, <2>2, <2>3 DEF BackupsTypeOK, ArchiveType
    <2>5. StoresGood'
      BY <2>2 DEF StoresGood, Good
    <2>6. JobsGood'
      BY <2>1, <2>2, <2>3 DEF JobsGood, JobGood, Good
    <2>7. RootOwned'
      <3>1. root = Absent
        BY <2>2
      <3>2. \A f \in ArchiveType : f.files # Absent
        BY BackupConstants DEF ArchiveType, Absent
      <3>3. \A i \in Clerks : ~Rooted(clerks[i])
        <4> SUFFICES ASSUME NEW i \in Clerks, Rooted(clerks[i]) PROVE FALSE
          OBVIOUS
        <4>1. clerks[i].temp \in ArchiveType /\ root = clerks[i].temp.files
          BY <3>1, Ops DEF RootOwned, BackupsTypeOK, Rooted, Restoring
        <4> QED BY <3>1, <3>2, <4>1
      <3>4. ~(restored # Empty /\ restored.format = 2)
        BY <3>1, <3>2, Kinds DEF RootOwned, BackupsTypeOK
      <3> QED BY <2>1, <2>2, <2>3, <3>3, <3>4 DEF RootOwned, Rooted
    <2> QED BY <2>4, <2>5, <2>6, <2>7
  <1>8. CASE PublishDatabase(j)
    <2>0. w \in Restoring /\ w.temp \in ArchiveType /\ w.op = "restore" /\ w.stage = "database" /\ Good(w.temp) /\ w.temp.sound
      BY <1>0, <1>8, Ops DEF PublishDatabase, Restoring, JobGood
    <2>1. /\ clerks' \in [Clerks -> JobType] /\ \A i \in Clerks : clerks'[i] = IF i = j THEN Idle ELSE clerks[i]
          /\ UNCHANGED <<shelf, remote>> /\ Stay
          /\ \/ restored = Empty /\ restored' = w.temp /\ UNCHANGED root
             \/ root' = (IF w.temp.format = 2 THEN Absent ELSE root) /\ UNCHANGED restored
      BY <1>0, <1>8 DEF PublishDatabase, Assign, BackupsTypeOK
    <2>2. BackupsTypeOK'
      BY <2>0, <2>1 DEF BackupsTypeOK, Stored, Stay
    <2>3. StoresGood'
      BY <2>0, <2>1 DEF StoresGood, Good, Stay
    <2>4. JobsGood'
      BY <1>0, <2>1 DEF JobsGood, JobGood, Good, Stay
    <2>5. RootOwned'
      <3>1. \A i \in Clerks : Rooted(clerks'[i]) => i # j /\ Rooted(clerks[i]) /\ clerks'[i] = clerks[i]
        BY <1>0, <2>1
      <3>2. CASE restored = Empty /\ restored' = w.temp /\ UNCHANGED root
        BY <2>0, <2>1, <3>1, <3>2 DEF RootOwned, Rooted
      <3>3. CASE root' = (IF w.temp.format = 2 THEN Absent ELSE root) /\ UNCHANGED restored
        BY <2>0, <2>1, <3>1, <3>3 DEF RootOwned, Rooted
      <3> QED BY <2>1, <3>2, <3>3
    <2> QED BY <2>2, <2>3, <2>4, <2>5
  <1> QED BY <1>1, <1>2, <1>3, <1>4, <1>5, <1>6, <1>7, <1>8

LEMMA LossKeeps ==
    ASSUME BackupsInv, NEW p \in Shelves, Rot(p) \/ Discard(p)
    PROVE  BackupsInv'
  <1> DEFINE f == IF Rot(p) THEN Spoilt(shelf[p]) ELSE Empty
  <1>1. shelf[p] \in ArchiveType /\ Good(shelf[p])
    BY Kinds DEF Rot, Discard, BackupsInv, BackupsTypeOK, StoresGood
  <1>2. Spoilt(shelf[p]) \in ArchiveType /\ Good(Spoilt(shelf[p]))
    BY <1>1 DEF Spoilt, ArchiveType, Good
  <1>3. f \in Stored /\ (f # Empty => Good(f))
    BY <1>2 DEF Stored
  <1>4. shelf' = [shelf EXCEPT ![p] = f] /\ UNCHANGED <<clerks, remote, restored, root>> /\ Stay
    BY DEF Rot, Discard
  <1>5. JobsGood' /\ clerks' \in [Clerks -> JobType]
    BY <1>4 DEF BackupsInv, BackupsTypeOK, JobsGood, JobGood, Good, Stay
  <1> HIDE DEF f
  <1> QED BY <1>3, <1>4, <1>5, ShelfKeeps

(* Whatever the panel changes, the commands do at once and leave undone,   *)
(* and whichever stored copies rot: a restore is the panel as it once was, *)
(* with every attachment, and no sound bundle lacks a file (backup.go      *)
(* Create, Restore).                                                       *)
THEOREM RestoresWhole == BackupsSpec => []RestoredWhole
  <1>1. BackupsInv /\ [BackupsNext]_backupVars => BackupsInv'
    <2> SUFFICES ASSUME BackupsInv, [BackupsNext]_backupVars PROVE BackupsInv'
      OBVIOUS
    <2>1. CASE UNCHANGED backupVars
      BY <2>1 DEF backupVars, BackupsInv, BackupsTypeOK, StoresGood, JobsGood, JobGood, RootOwned, Rooted, Good
    <2>2. CASE BackupsNext
      BY <2>2, PanelKeeps, CommandsKeep, StepsKeep, LossKeeps DEF BackupsNext
    <2> QED BY <2>1, <2>2
  <1>2. BackupsInv => RestoredWhole
    <2> SUFFICES ASSUME BackupsInv PROVE RestoredWhole
      OBVIOUS
    <2> QED BY DEF BackupsInv, StoresGood, RootOwned, Good, RestoredWhole
  <1> QED BY BackupsInvInit, <1>1, <1>2, PTL DEF BackupsSpec

-----------------------------------------------------------------------------
(* The deployment lifecycle.                                               *)

Dsns == 0..MaxRestores
DatabaseType == [schema : Nat, changes : Nat]
SnapshotType == [dsn : Dsns, rev : Images, db : DatabaseType]
Running == [Components -> Images \cup {0}]
Statuses == {"install_prepared", "installed", "install_failed", "prepared", "upgraded", "target_failed",
             "auto_rolled_back", "rolled_back", "rollback_failed"}
CommandStages == {"backup", "prepare", "restore", "tag", "stop", "up", "health", "ok", "failed", "prestart", "succeed", "conclude",
           "recover"}
RecordType ==
    [status : Statuses, previous : Fleet \cup {Nowhere}, target : Fleet, changed : SUBSET Components, backup : Nat,
     dsn : Dsns \cup {NoDsn}, observed : Running \cup {Nowhere}, phase : {"none", "restore", "activate", "unknown"}]
CommandType ==
    [do : {"install", "upgrade", "recover", "rollback"}, stage : CommandStages, to : Fleet, dsn : Dsns,
     changed : SUBSET Components, rec : RecordType, cancelled : BOOLEAN]

LifecycleTypeOK ==
    /\ topology \in {"combined", "split"} /\ boxes \in Running /\ dsn \in Dsns \cup {NoDsn}
    /\ up \in BOOLEAN /\ rolled \in BOOLEAN /\ proud \in BOOLEAN
    /\ databases \in [Dsns -> DatabaseType] /\ acked \in Nat
    /\ archives \in Seq(SnapshotType)
    /\ journal \in RecordType \cup {NoRecord} /\ cmd \in CommandType \cup {NoCmd}

(* Where the acknowledged changes are: until a rollback in the first       *)
(* database, which is the one in use once there is a backend.  A database  *)
(* in use is never taken for a free one, since it has a schema.            *)
InUse ==
    /\ dsn = NoDsn => boxes["backend"] = 0 /\ ~up /\ acked = 0 /\ databases[0].changes = 0
    /\ dsn # NoDsn => databases[dsn].schema >= 1 /\ databases[0].schema >= 1
    /\ ~rolled => dsn \in {0, NoDsn}
    /\ ~rolled /\ dsn # NoDsn => databases[dsn].changes = acked

(* What a record says of its backup: it is of the previous backend and, while a rollback may use it, *)
(* of the database in the record.                                                                     *)
Undoable(r) == r.status \in {"upgraded", "target_failed"} \/ (r.status = "rollback_failed" /\ r.phase = "restore")
RecordGood(r) ==
    /\ r.status \in {"prepared", "upgraded", "target_failed", "rollback_failed"} => r.previous \in Fleet
    /\ r.backup # 0 =>
        /\ r.backup \in DOMAIN archives /\ r.previous \in Fleet
        /\ archives[r.backup].rev = r.previous["backend"]
        /\ Undoable(r) \/ r.status = "prepared" => archives[r.backup].dsn = r.dsn

JournalGood == journal # NoRecord => RecordGood(journal)

(* What each command knows about the deployment at its stage. *)
Purpose ==
    /\ cmd.do = "install" => cmd.dsn = 0 /\ dsn \in {0, NoDsn} /\ cmd.rec.target = cmd.to /\ cmd.rec.backup = 0 
    /\ cmd.do = "upgrade" =>
        /\ cmd.dsn = dsn /\ cmd.rec.dsn = dsn /\ cmd.rec.target = cmd.to /\ cmd.rec.previous \in Fleet
        /\ cmd.rec.backup # 0 => archives[cmd.rec.backup].dsn = dsn
        /\ cmd.stage = "backup" => cmd.rec.previous = boxes /\ cmd.rec.status = "prepared"
    /\ cmd.do = "recover" => topology = "split" /\ "backend" \notin cmd.changed /\ cmd.rec.previous = cmd.to
    /\ cmd.do = "rollback" =>
        /\ cmd.rec.previous = cmd.to /\ dsn # NoDsn
        /\ cmd.stage \notin {"conclude", "succeed"} => Undoable(cmd.rec)
        /\ cmd.stage \in {"restore", "tag", "stop", "up"} /\ "backend" \in cmd.changed =>
            /\ cmd.rec.backup # 0 /\ archives[cmd.rec.backup].dsn = dsn
            /\ cmd.stage = "restore" => cmd.dsn = dsn
            /\ cmd.stage # "restore" => cmd.dsn # dsn /\ databases[cmd.dsn] = archives[cmd.rec.backup].db

Progress ==
    /\ topology = "combined" => cmd.changed = {"backend"}
    /\ cmd.stage = "backup" => cmd.do = "upgrade"
    /\ cmd.stage = "prepare" => cmd.do # "rollback"
    /\ cmd.stage = "restore" => cmd.do = "rollback" /\ "backend" \in cmd.changed
    /\ cmd.stage = "recover" => cmd.do = "upgrade" /\ "backend" \notin cmd.changed
    /\ cmd.stage \in {"ok", "succeed"} \/ (topology = "combined" /\ cmd.stage = "health") => boxes = cmd.to /\ dsn = cmd.dsn
    /\ cmd.stage = "succeed" =>
        /\ cmd.rec.dsn = cmd.dsn
        /\ <<cmd.do, cmd.rec.status>> \in {<<"install", "installed">>, <<"upgrade", "upgraded">>, <<"rollback", "rolled_back">>}

CommandGood == cmd # NoCmd => RecordGood(cmd.rec) /\ Purpose /\ Progress

ProudOfIt == proud => cmd = NoCmd /\ boxes = expectedDeploymentForState /\ dsn = journal.dsn

LifecycleInv == LifecycleTypeOK /\ InUse /\ JournalGood /\ CommandGood /\ ProudOfIt

LEMMA HasBackend == "backend" \in Components
  BY DEF Components

LEMMA LifecycleInvInit == ASSUME NEW t \in {"combined", "split"}, LifecycleInit(t) PROVE LifecycleInv
  <1> USE DEF LifecycleInit
  <1>1. LifecycleTypeOK
    <2>1. boxes \in Running /\ dsn \in Dsns \cup {NoDsn}
      BY DEF Running
    <2>2. databases \in [Dsns -> DatabaseType]
      BY DEF Dsns, DatabaseType, NoDatabase
    <2>3. archives \in Seq(SnapshotType)
      OBVIOUS
    <2> QED BY <2>1, <2>2, <2>3 DEF LifecycleTypeOK
  <1>2. InUse
    BY HasBackend, LifecycleConstants DEF InUse, NoDatabase, Dsns
  <1> QED BY <1>1, <1>2 DEF LifecycleInv, JournalGood, CommandGood, ProudOfIt

(* The topology never changes, and neither does what follows from it. *)
LEMMA SameTopology ==
    ASSUME topology' = topology
    PROVE  /\ Components' = Components /\ Fleet' = Fleet /\ Running' = Running
           /\ RecordType' = RecordType /\ CommandType' = CommandType
  BY DEF Components, Fleet, RecordType, CommandType, Running

(* A step of a command that leaves the containers and the journal alone. *)
LEMMA CommandSteps ==
    ASSUME LifecycleInv, NEW c \in CommandType, cmd' = c, proud' = FALSE,
           RecordGood(c.rec), (Purpose /\ Progress)',
           UNCHANGED <<topology, acked, archives>>, UNCHANGED <<Runtime, Paper>>
    PROVE  LifecycleInv'
  <1> USE DEF LifecycleInv, Runtime, Paper
  <1>2. LifecycleTypeOK'
    BY SameTopology DEF LifecycleTypeOK
  <1>3. InUse' /\ ProudOfIt'
    BY DEF InUse, ProudOfIt
  <1>4. JournalGood' /\ CommandGood'
    BY SameTopology DEF JournalGood, CommandGood, RecordGood, Undoable
  <1> QED BY <1>2, <1>3, <1>4

(* A command is known by its stage, and while there is one nobody is proud. *)
LEMMA Busy ==
    ASSUME LifecycleInv, cmd # NoCmd
    PROVE  cmd \in CommandType /\ RecordGood(cmd.rec) /\ Purpose /\ Progress /\ proud = FALSE
  BY DEF LifecycleInv, LifecycleTypeOK, CommandGood, ProudOfIt

LEMMA Begins ==
    ASSUME LifecycleInv, NEW to \in Fleet, run(to) \/ runSplit(to)
    PROVE  LifecycleInv'
  <1> USE DEF AcquireLock
  <1>0. "backend" \in Components /\ NoDsn \notin Dsns /\ 0 \in Dsns /\ boxes \in Running /\ topology \in {"combined", "split"}
        /\ dsn \in Dsns \cup {NoDsn}
    BY HasBackend, LifecycleConstants DEF NoDsn, Dsns, LifecycleInv, LifecycleTypeOK
  <1>1. CASE Fresh /\ InstallAll(to)
    <2> DEFINE r == Record("install_prepared", Nowhere, to, Components, NoDsn)
               c == Command("install", "prepare", to, 0, Components, r)
    <2>1. r \in RecordType
      BY <1>0 DEF Record, RecordType, Statuses
    <2>2. c \in CommandType
      BY <1>0, <2>1 DEF Command, CommandType, CommandStages, Has
    <2>3. RecordGood(r)
      BY DEF RecordGood, Record
    <2>4. dsn = NoDsn
      BY <1>0, <1>1 DEF Fresh, LifecycleInv, InUse, NoDatabase
    <2>5. cmd' = c /\ proud' = FALSE /\ UNCHANGED <<topology, acked, archives>> /\ UNCHANGED <<Runtime, Paper>>
      BY <1>1 DEF InstallAll
    <2>6. (Purpose /\ Progress)'
      BY <1>0, <2>4, <2>5, SameTopology DEF Purpose, Progress, Command, Record, Runtime, Paper, Components
    <2> QED BY <2>2, <2>3, <2>5, <2>6, CommandSteps DEF Command
  <1>2. CASE /\ validateApplication
             /\ \E changed \in SUBSET Components : UpgradeTo(to, changed) /\ (topology = "combined" => changed = Components)
    <2> PICK changed \in SUBSET Components : UpgradeTo(to, changed) /\ (topology = "combined" => changed = Components)
      BY <1>2
    <2> DEFINE r == Record("prepared", boxes, to, changed, dsn)
               c == Command("upgrade", IF Has(changed, "backend") THEN "backup" ELSE "prepare", to, dsn, changed, r)
    <2>0. boxes \in Fleet /\ dsn \in Dsns
      BY <1>0, <1>2 DEF validateApplication, Identified, Running, Fleet, LifecycleInv, InUse
    <2>1. r \in RecordType
      BY <1>0, <2>0 DEF Record, RecordType, Statuses
    <2>2. c \in CommandType
      BY <1>0, <2>0, <2>1 DEF Command, CommandType, CommandStages, Has
    <2>3. RecordGood(r)
      BY <2>0 DEF RecordGood, Record
    <2>5. cmd' = c /\ proud' = FALSE /\ UNCHANGED <<topology, acked, archives>> /\ UNCHANGED <<Runtime, Paper>>
      BY DEF UpgradeTo
    <2>6. (Purpose /\ Progress)'
      BY <1>0, <2>0, <2>5, SameTopology DEF Purpose, Progress, Command, Record, Runtime, Paper, Components
    <2> QED BY <2>2, <2>3, <2>5, <2>6, CommandSteps DEF Command
  <1>3. CASE /\ Identified /\ Undoable(journal) /\ journal.dsn \in {NoDsn, dsn}
             /\ \E changed \in SUBSET Components, stage \in {"restore", "tag"} :
                    /\ (Has(changed, "backend") => journal.backup # 0) /\ (Has(changed, "backend") <=> stage = "restore")
                    /\ RollbackTo(journal.previous, changed, stage)
                    /\ topology = "combined" => changed = Components
    <2> PICK changed \in SUBSET Components, stage \in {"restore", "tag"} :
                    /\ (Has(changed, "backend") => journal.backup # 0) /\ (Has(changed, "backend") <=> stage = "restore")
                    /\ RollbackTo(journal.previous, changed, stage)
                    /\ topology = "combined" => changed = Components
      BY <1>3
    <2> DEFINE c == Command("rollback", stage, journal.previous, dsn, changed, journal)
    <2>0. dsn \in Dsns
      BY <1>0, <1>3 DEF Identified, LifecycleInv, InUse
    <2>1. journal \in RecordType /\ RecordGood(journal) /\ journal.previous \in Fleet
      BY <1>3 DEF LifecycleInv, LifecycleTypeOK, JournalGood, NoRecord, Undoable, RecordGood
    <2>2. c \in CommandType
      BY <1>0, <2>0, <2>1 DEF Command, CommandType, CommandStages, Has
    <2>5. cmd' = c /\ proud' = FALSE /\ UNCHANGED <<topology, acked, archives>> /\ UNCHANGED <<Runtime, Paper>>
      BY DEF RollbackTo
    <2>6. Has(changed, "backend") => journal.backup # 0 /\ archives[journal.backup].dsn = dsn
      <3>1. SUFFICES ASSUME Has(changed, "backend") PROVE archives[journal.backup].dsn = dsn
        OBVIOUS
      <3>2. archives[journal.backup].dsn = journal.dsn /\ journal.backup \in DOMAIN archives
        BY <1>3, <2>1, <3>1 DEF RecordGood
      <3>3. archives[journal.backup].dsn \in Dsns
        <4>1. archives \in Seq(SnapshotType)
          BY DEF LifecycleInv, LifecycleTypeOK
        <4>2. archives[journal.backup] \in SnapshotType
          BY <3>2, <4>1
        <4> QED BY <4>2 DEF SnapshotType
      <3> QED BY <1>0, <1>3, <3>2, <3>3
    <2>7. Purpose'
      BY <1>0, <1>3, <2>0, <2>5, <2>6, SameTopology DEF Purpose, Command, Runtime, Paper, Has, Undoable
    <2>8. Progress'
      BY <1>0, <1>3, <2>5, SameTopology DEF Progress, Command, Runtime, Paper, Components, Has
    <2> QED BY <2>1, <2>2, <2>5, <2>7, <2>8, CommandSteps DEF Command
  <1>4. CASE Install(to) \/ DeploymentInstall(to)
    BY <1>1, <1>4 DEF Install, DeploymentInstall, FreshDeployment
  <1>5. CASE Upgrade(to) \/ DeploymentUpgrade(to)
    BY <1>2, <1>5 DEF Upgrade, DeploymentUpgrade, ChangedComponents
  <1>6. CASE Rollback
    BY <1>0, <1>3, <1>6 DEF Rollback, Undoable, Has
  <1>7. CASE DeploymentRollback
    <2>1. Undoable(journal)
      BY <1>7 DEF DeploymentRollback, Undoable
    <2>2. journal.changed \in SUBSET Components
      BY <2>1 DEF Undoable, LifecycleInv, LifecycleTypeOK, RecordType, NoRecord
    <2> QED BY <1>0, <1>3, <1>7, <2>1, <2>2 DEF DeploymentRollback, Has
  <1> QED BY <1>4, <1>5, <1>6, <1>7 DEF run, runSplit

(* A command ends, perhaps with a record in the journal. *)
LEMMA Abandons ==
    ASSUME LifecycleInv, cmd' = NoCmd, proud' = FALSE, journal' \in RecordType \cup {NoRecord},
           journal' # NoRecord => RecordGood(journal'),
           UNCHANGED <<topology, acked, archives>>, UNCHANGED Runtime
    PROVE  LifecycleInv'
  <1> USE DEF LifecycleInv, Runtime
  <1>1. LifecycleTypeOK'
    BY SameTopology DEF LifecycleTypeOK
  <1>2. InUse' /\ ProudOfIt' /\ CommandGood'
    BY DEF InUse, ProudOfIt, CommandGood
  <1>3. JournalGood'
    BY SameTopology DEF JournalGood, RecordGood, Undoable
  <1> QED BY <1>1, <1>2, <1>3

(* The archive of an upgrade. *)
LEMMA BacksUp == ASSUME LifecycleInv, BackUp PROVE LifecycleInv'
  <1> USE DEF Runtime, Paper
  <1>1. cmd # NoCmd
    BY DEF BackUp, NoCmd
  <1>2. cmd \in CommandType /\ RecordGood(cmd.rec) /\ Purpose /\ Progress /\ proud = FALSE
    BY <1>1, Busy
  <1>3. CASE Release(FALSE) /\ UNCHANGED archives
    <2>1. journal \in RecordType \cup {NoRecord} /\ (journal # NoRecord => RecordGood(journal))
      BY DEF LifecycleInv, LifecycleTypeOK, JournalGood
    <2> QED BY <1>3, <2>1, Abandons DEF BackUp, Release
  <1>4. CASE ~(Release(FALSE) /\ UNCHANGED archives)
    <2> DEFINE n == Len(archives) + 1
               a == [dsn |-> dsn, rev |-> boxes["backend"], db |-> databases[dsn]]
    <2>1. archives \in Seq(SnapshotType) /\ journal \in RecordType \cup {NoRecord} /\ Len(archives) \in Nat
      BY DEF LifecycleInv, LifecycleTypeOK
    <2>2. /\ archives' = Append(archives, a) /\ proud' = FALSE
          /\ cmd' = [cmd EXCEPT !.stage = "prepare", !.rec.backup = n]
          /\ cmd.stage = "backup" /\ UNCHANGED <<topology, acked>> /\ UNCHANGED <<Runtime, Paper>>
      BY <1>2, <1>4 DEF BackUp
    <2>3. /\ cmd'.rec = [cmd.rec EXCEPT !.backup = n] /\ cmd'.stage = "prepare" /\ cmd' \in CommandType
          /\ cmd'.do = cmd.do /\ cmd'.to = cmd.to /\ cmd'.dsn = cmd.dsn /\ cmd'.changed = cmd.changed
      <3> DEFINE r == [cmd.rec EXCEPT !.backup = n]
      <3>1. r \in RecordType
        BY <1>2, <2>1 DEF CommandType, RecordType
      <3>2. cmd' = [[cmd EXCEPT !.stage = "prepare"] EXCEPT !.rec = r]
        BY <1>2, <2>2 DEF CommandType
      <3> HIDE DEF r
      <3>3. /\ cmd'.rec = r /\ cmd'.stage = "prepare" /\ cmd' \in CommandType
            /\ cmd'.do = cmd.do /\ cmd'.to = cmd.to /\ cmd'.dsn = cmd.dsn /\ cmd'.changed = cmd.changed
        BY <1>2, <3>1, <3>2 DEF CommandType, CommandStages
      <3> QED BY <3>3 DEF r
    <2>4. cmd.do = "upgrade" /\ cmd.rec.previous = boxes /\ boxes \in Fleet /\ dsn \in Dsns
      BY <1>2, <2>2 DEF Purpose, Progress, CommandType
    <2>5. a \in SnapshotType
      <3>1. boxes["backend"] \in Images
        BY <2>4, HasBackend DEF Fleet
      <3>2. databases[dsn] \in DatabaseType
        BY <2>4 DEF LifecycleInv, LifecycleTypeOK
      <3> QED BY <2>4, <3>1, <3>2 DEF SnapshotType
    <2> HIDE DEF a
    <2>6. /\ archives' \in Seq(SnapshotType) /\ n \in DOMAIN archives' /\ archives'[n] = a
          /\ \A m \in DOMAIN archives : m \in DOMAIN archives' /\ archives'[m] = archives[m]
      BY <2>1, <2>2, <2>5
    <2>7. LifecycleTypeOK'
      BY <2>2, <2>3, <2>6, SameTopology DEF LifecycleInv, LifecycleTypeOK
    <2>8. InUse' /\ ProudOfIt'
      BY <2>2 DEF LifecycleInv, InUse, ProudOfIt
    <2>9. JournalGood'
      BY <2>2, <2>6, SameTopology DEF LifecycleInv, JournalGood, RecordGood, Undoable
    <2>10. a.dsn = dsn /\ a.rev = boxes["backend"]
      BY DEF a
    <2>11. cmd'.rec.previous = boxes /\ cmd'.rec.backup = n /\ cmd'.rec.dsn = dsn /\ cmd'.rec.target = cmd.to
           /\ cmd'.rec.status = "prepared"
      BY <1>2, <2>2, <2>3, <2>4 DEF Purpose, CommandType, RecordType
    <2>12. RecordGood(cmd.rec)'
      BY <2>2, <2>4, <2>6, <2>10, <2>11, SameTopology DEF RecordGood, Undoable
    <2>13. Purpose'
      BY <1>2, <2>2, <2>3, <2>4, <2>6, <2>10, <2>11, SameTopology DEF Purpose
    <2>14. Progress'
      BY <1>2, <2>2, <2>3 DEF Progress
    <2> QED BY <2>7, <2>8, <2>9, <2>12, <2>13, <2>14 DEF LifecycleInv, CommandGood
  <1> QED BY <1>3, <1>4

(* The snapshot is unpacked. *)
LEMMA Unpacks ==
    ASSUME LifecycleInv, cmd.stage = "restore", NEW d \in 1..MaxRestores, databases[d] = NoDatabase,
           databases' = [databases EXCEPT ![d] = archives[cmd.rec.backup].db],
           cmd' = [cmd EXCEPT !.stage = "tag", !.dsn = d],
           UNCHANGED <<topology, acked, archives, lockFile, proud, boxes, dsn, up, edgesUp, rolled>>, UNCHANGED Paper
    PROVE  LifecycleInv'
  <1> USE DEF Paper
  <1>0. cmd # NoCmd
    BY DEF NoCmd
  <1>1. cmd \in CommandType /\ RecordGood(cmd.rec) /\ Purpose /\ Progress /\ proud = FALSE
    BY <1>0, Busy
  <1>2. d \in Dsns /\ d # 0
    BY LifecycleConstants DEF Dsns
  <1>3. cmd.do = "rollback" /\ "backend" \in cmd.changed /\ dsn # NoDsn /\ cmd.rec.backup \in DOMAIN archives
    BY <1>1 DEF Purpose, Progress, RecordGood
  <1>4. archives[cmd.rec.backup] \in SnapshotType
    <2>1. archives \in Seq(SnapshotType)
      BY DEF LifecycleInv, LifecycleTypeOK
    <2> QED BY <1>3, <2>1
  <1>5. dsn # d
    BY <1>3 DEF LifecycleInv, InUse, NoDatabase
  <1>6. /\ cmd' \in CommandType /\ cmd'.rec = cmd.rec /\ cmd'.stage = "tag" /\ cmd'.dsn = d
        /\ cmd'.do = cmd.do /\ cmd'.to = cmd.to /\ cmd'.changed = cmd.changed
    BY <1>1, <1>2 DEF CommandType, CommandStages
  <1>7. /\ databases' \in [Dsns -> DatabaseType] /\ databases'[d] = archives[cmd.rec.backup].db
        /\ \A e \in Dsns \ {d} : databases'[e] = databases[e]
    BY <1>2, <1>4 DEF LifecycleInv, LifecycleTypeOK, SnapshotType
  <1>8. LifecycleTypeOK'
    BY <1>6, <1>7, SameTopology DEF LifecycleInv, LifecycleTypeOK
  <1>9. InUse'
    BY <1>2, <1>3, <1>5, <1>7 DEF LifecycleInv, InUse, LifecycleTypeOK
  <1>10. ProudOfIt' /\ JournalGood'
    BY <1>1, SameTopology DEF LifecycleInv, ProudOfIt, JournalGood, RecordGood, Undoable
  <1>11. RecordGood(cmd.rec)'
    BY <1>1, <1>6, SameTopology DEF RecordGood, Undoable
  <1>12. Purpose'
    BY <1>1, <1>3, <1>5, <1>6, <1>7, SameTopology DEF Purpose, Undoable
  <1>13. Progress'
    BY <1>1, <1>6 DEF Progress
  <1> QED BY <1>8, <1>9, <1>10, <1>11, <1>12, <1>13 DEF LifecycleInv, CommandGood

(* A rollback that failed while it restored: nothing has changed, and it may be tried again. *)
LEMMA NotesFailure ==
    ASSUME LifecycleInv, cmd # NoCmd, cmd.do \in {"rollback", "recover"}, proud' = proud,
           cmd.stage \in {"restore", "prestart", "failed"},
           \/ Note("rollback_failed", "conclude") /\ topology = "combined"
           \/ cmd.stage = "restore" /\ rollbackFailure("restore")
           \/ rollbackFailure("activate"),
           UNCHANGED <<topology, acked, archives>>, UNCHANGED <<Runtime, Paper>>
    PROVE  LifecycleInv'
  <1>1. cmd \in CommandType /\ RecordGood(cmd.rec) /\ Purpose /\ Progress /\ proud = FALSE /\ cmd.rec \in RecordType
    BY Busy DEF CommandType
  <1>2. PICK p \in {"none", "restore", "activate", "unknown"}, o \in Running \cup {Nowhere}, e \in Dsns \cup {NoDsn} :
          /\ cmd' = [cmd EXCEPT !.stage = "conclude", !.rec.status = "rollback_failed", !.rec.phase = p, !.rec.observed = o,
                                !.rec.dsn = e]
          /\ p = "restore" => Undoable(cmd.rec) /\ e = cmd.rec.dsn
    <2>1. boxes \in Running \cup {Nowhere} /\ dsn \in Dsns \cup {NoDsn} /\ Nowhere \in Running \cup {Nowhere}
      BY DEF LifecycleInv, LifecycleTypeOK
    <2>2. CASE Note("rollback_failed", "conclude") /\ topology = "combined"
      <3>1. cmd' = [cmd EXCEPT !.stage = "conclude", !.rec.status = "rollback_failed", !.rec.phase = cmd.rec.phase,
                               !.rec.observed = cmd.rec.observed, !.rec.dsn = cmd.rec.dsn]
        BY <1>1, <2>2 DEF Note, CommandType, RecordType
      <3>2. cmd.do = "rollback" /\ Undoable(cmd.rec)
        BY <1>1, <2>2 DEF Purpose, Progress
      <3> QED BY <1>1, <3>1, <3>2 DEF RecordType
    <2>3. CASE cmd.stage = "restore" /\ rollbackFailure("restore")
      <3>1. cmd' = [cmd EXCEPT !.stage = "conclude", !.rec.status = "rollback_failed", !.rec.phase = "restore",
                               !.rec.observed = boxes, !.rec.dsn = cmd.rec.dsn]
        BY <1>1, <2>3 DEF rollbackFailure, CommandType, RecordType
      <3>2. Undoable(cmd.rec)
        BY <1>1, <2>3 DEF Purpose, Progress
      <3> QED BY <1>1, <2>1, <3>1, <3>2 DEF RecordType
    <2>4. CASE rollbackFailure("activate")
      <3>1. \/ cmd' = [cmd EXCEPT !.stage = "conclude", !.rec.status = "rollback_failed", !.rec.phase = "activate",
                                  !.rec.observed = boxes, !.rec.dsn = dsn]
            \/ cmd' = [cmd EXCEPT !.stage = "conclude", !.rec.status = "rollback_failed", !.rec.phase = "unknown",
                                  !.rec.observed = Nowhere, !.rec.dsn = cmd.rec.dsn]
        <4>1. \/ cmd' = [cmd EXCEPT !.stage = "conclude", !.rec.status = "rollback_failed", !.rec.phase = "activate",
                                    !.rec.observed = boxes, !.rec.dsn = dsn]
              \/ cmd' = [cmd EXCEPT !.stage = "conclude", !.rec.status = "rollback_failed", !.rec.phase = "unknown",
                                    !.rec.observed = Nowhere]
          BY <2>4 DEF rollbackFailure
        <4>2. [cmd EXCEPT !.stage = "conclude", !.rec.status = "rollback_failed", !.rec.phase = "unknown", !.rec.observed = Nowhere]
              = [cmd EXCEPT !.stage = "conclude", !.rec.status = "rollback_failed", !.rec.phase = "unknown",
                            !.rec.observed = Nowhere, !.rec.dsn = cmd.rec.dsn]
          BY <1>1, ZenonT(60) DEF CommandType, RecordType
        <4> QED BY <4>1, <4>2
      <3>2. cmd.rec.dsn \in Dsns \cup {NoDsn}
        BY <1>1 DEF RecordType
      <3> QED BY <2>1, <3>1, <3>2
    <2> QED BY <2>2, <2>3, <2>4
  <1>3. /\ cmd' \in CommandType /\ cmd'.stage = "conclude" /\ cmd'.dsn = cmd.dsn
        /\ cmd'.do = cmd.do /\ cmd'.to = cmd.to /\ cmd'.changed = cmd.changed
        /\ cmd'.rec.status = "rollback_failed" /\ cmd'.rec.phase = p /\ cmd'.rec.dsn = e
        /\ cmd'.rec.previous = cmd.rec.previous /\ cmd'.rec.backup = cmd.rec.backup
    <2> DEFINE r == [cmd.rec EXCEPT !.status = "rollback_failed", !.phase = p, !.observed = o, !.dsn = e]
    <2>1. /\ r \in RecordType /\ r.status = "rollback_failed" /\ r.phase = p /\ r.dsn = e
          /\ r.previous = cmd.rec.previous /\ r.backup = cmd.rec.backup
      BY <1>1, <1>2 DEF RecordType, Statuses
    <2>2. cmd' = [cmd EXCEPT !.stage = "conclude", !.rec = r]
      BY <1>1, <1>2 DEF CommandType
    <2> HIDE DEF r
    <2> QED BY <1>1, <2>1, <2>2 DEF CommandType, CommandStages
  <1>4. cmd.rec.previous \in Fleet
    BY <1>1 DEF Purpose, CommandType
  <1>5. RecordGood(cmd'.rec)
    BY <1>1, <1>2, <1>3, <1>4 DEF RecordGood, Undoable
  <1>6. (Purpose /\ Progress)'
    BY <1>1, <1>3 DEF Purpose, Progress, Runtime
  <1> QED BY <1>1, <1>3, <1>5, <1>6, CommandSteps

(* Only the command's stage changes, to one that promises nothing new. *)
LEMMA StageOnly ==
    ASSUME LifecycleInv, cmd # NoCmd, NEW stage \in {"prestart", "stop", "up", "failed", "ok", "tag"}, Step(stage),
           stage \in {"stop", "up"} => cmd.stage \in {"tag", "stop"},
           stage = "tag" => cmd.stage = "prepare" /\ cmd.do # "rollback",
           stage = "ok" => boxes = cmd.to /\ dsn = cmd.dsn,
           cmd.do = "rollback" => cmd.stage \notin {"conclude", "succeed"}
    PROVE  /\ cmd' \in CommandType /\ cmd'.rec = cmd.rec /\ RecordGood(cmd'.rec)
           /\ UNCHANGED <<topology, dsn, boxes, archives, databases>> => (Purpose /\ Progress)'
  <1>1. cmd \in CommandType /\ RecordGood(cmd.rec) /\ Purpose /\ Progress /\ proud = FALSE
    BY Busy
  <1>2. /\ cmd' \in CommandType /\ cmd'.rec = cmd.rec /\ cmd'.stage = stage /\ cmd'.dsn = cmd.dsn
        /\ cmd'.do = cmd.do /\ cmd'.to = cmd.to /\ cmd'.changed = cmd.changed
    BY <1>1 DEF CommandType, CommandStages, Step
  <1>3. ASSUME UNCHANGED <<topology, dsn, boxes, archives, databases>> PROVE Purpose'
    BY <1>1, <1>2, <1>3, SameTopology DEF Purpose, Undoable
  <1>4. ASSUME UNCHANGED <<topology, dsn, boxes, archives, databases>> PROVE Progress'
    BY <1>1, <1>2, <1>4, SameTopology DEF Progress
  <1> QED BY <1>1, <1>2, <1>3, <1>4

LEMMA LacksNone == ASSUME cmd \in CommandType PROVE Lacking({}) = cmd.to
  <1>1. cmd.to \in [Components -> Images]
    BY DEF CommandType, Fleet
  <1> QED BY <1>1 DEF Lacking

(* Containers are recreated: the backend gets the database of its command, which is the one in use *)
(* unless a snapshot is put in its place.                                                          *)
LEMMA Recreates ==
    ASSUME LifecycleInv, cmd # NoCmd, cmd.stage = "up", NEW some \in SUBSET cmd.changed, NEW gone \in SUBSET some,
           Recreate(some, Lacking(gone), cmd.dsn), NEW stage \in {"health", "failed"}, Step(stage),
           stage = "health" => gone = {},
           topology = "combined" => some = {"backend"},
           UNCHANGED <<topology, acked, archives, journal, torn, lockFile, proud>>
    PROVE  LifecycleInv'
  <1>1. cmd \in CommandType /\ RecordGood(cmd.rec) /\ Purpose /\ Progress /\ proud = FALSE
    BY Busy
  <1>2. /\ cmd' \in CommandType /\ cmd'.rec = cmd.rec /\ cmd'.stage = stage /\ cmd'.dsn = cmd.dsn
        /\ cmd'.do = cmd.do /\ cmd'.to = cmd.to /\ cmd'.changed = cmd.changed
    BY <1>1 DEF CommandType, CommandStages, Step
  <1>3. /\ cmd.to \in [Components -> Images] /\ cmd.dsn \in Dsns /\ "backend" \in Components /\ NoDsn \notin Dsns
        /\ some \in SUBSET Components /\ Images \subseteq Nat \ {0} /\ cmd.to["backend"] \in Nat \ {0}
    BY <1>1, HasBackend, LifecycleConstants DEF CommandType, Fleet, Images, NoDsn, Dsns
  <1>t. /\ boxes \in Running /\ databases \in [Dsns -> DatabaseType] /\ acked \in Nat /\ dsn \in Dsns \cup {NoDsn}
        /\ up \in BOOLEAN /\ rolled \in BOOLEAN
    BY DEF LifecycleInv, LifecycleTypeOK
  <1> DEFINE to == Lacking(gone)
  <1>to. /\ to \in [Components -> Images \cup {0}] /\ \A c \in Components \ gone : to[c] = cmd.to[c]
         /\ "backend" \in gone => to["backend"] = 0
    BY <1>3 DEF Lacking
  <1>re. Recreate(some, to, cmd.dsn)
    OBVIOUS
  <1> HIDE DEF to
  <1>4. boxes' \in Running
    BY <1>3, <1>t, <1>to, <1>re DEF Recreate, Running
  <1>5. CASE "backend" \notin some
    <2>1. UNCHANGED <<dsn, up, databases, rolled>> /\ boxes'["backend"] = boxes["backend"]
      BY <1>3, <1>5, <1>re DEF Recreate
    <2>2. topology = "split" /\ topology' = topology
      BY <1>5 DEF LifecycleInv, LifecycleTypeOK
    <2>3. LifecycleTypeOK'
      BY <1>2, <1>4, <2>1, SameTopology DEF LifecycleInv, LifecycleTypeOK
    <2>4. InUse'
      BY <2>1 DEF LifecycleInv, InUse
    <2>5. ProudOfIt' /\ JournalGood' /\ RecordGood(cmd.rec)'
      BY <1>1, <1>2, SameTopology DEF LifecycleInv, ProudOfIt, JournalGood, RecordGood, Undoable
    <2>6. Purpose'
      BY <1>1, <1>2, <2>1, SameTopology DEF Purpose, Undoable
    <2>7. Progress'
      BY <1>1, <1>2, <2>1, <2>2 DEF Progress
    <2> QED BY <2>3, <2>4, <2>5, <2>6, <2>7 DEF LifecycleInv, CommandGood
  <1>6. CASE "backend" \in some \ gone
    <2>0. to["backend"] = cmd.to["backend"] /\ to["backend"] # 0
      BY <1>3, <1>6, <1>to
    <2>1. /\ dsn' = cmd.dsn /\ up' \in BOOLEAN /\ rolled' \in BOOLEAN /\ boxes'["backend"] = cmd.to["backend"]
          /\ rolled' = (rolled \/ cmd.do = "rollback")
      BY <1>3, <1>6, <1>t, <1>re, <2>0 DEF Recreate
    <2>2. databases[cmd.dsn] \in DatabaseType
      BY <1>3, <1>t
    <2>3. /\ databases' \in [Dsns -> DatabaseType] /\ databases'[cmd.dsn].schema >= 1
          /\ databases'[cmd.dsn].changes = databases[cmd.dsn].changes
          /\ \A e \in Dsns \ {cmd.dsn} : databases'[e] = databases[e]
      <3> DEFINE d == cmd.dsn
                 t == cmd.to["backend"]
      <3>0. /\ up' = (databases[d].schema <= t) /\ databases' = (IF up' THEN [databases EXCEPT ![d].schema = t] ELSE databases)
            /\ d \in Dsns /\ t \in Nat \ {0} /\ databases[d].schema \in Nat
        BY <1>3, <1>6, <1>re, <2>0, <2>2 DEF Recreate, DatabaseType
      <3> HIDE DEF d, t
      <3>1. CASE up'
        <4>1. databases' = [databases EXCEPT ![d] = [databases[d] EXCEPT !.schema = t]]
          BY <1>t, <3>0, <3>1
        <4>2. /\ [databases[d] EXCEPT !.schema = t] \in DatabaseType /\ [databases[d] EXCEPT !.schema = t].schema = t
              /\ [databases[d] EXCEPT !.schema = t].changes = databases[d].changes
          BY <2>2, <3>0 DEF DatabaseType, d
        <4>3. /\ databases' \in [Dsns -> DatabaseType] /\ databases'[d] = [databases[d] EXCEPT !.schema = t]
              /\ \A e \in Dsns \ {d} : databases'[e] = databases[e]
          BY <1>t, <3>0, <4>1, <4>2
        <4>4. t >= 1
          BY <3>0
        <4> QED BY <4>2, <4>3, <4>4 DEF d
      <3>2. CASE ~up'
        <4>1. databases' = databases /\ ~(databases[d].schema <= t)
          BY <3>0, <3>2
        <4>2. databases[d].schema >= 1
          BY <3>0, <4>1
        <4> QED BY <1>t, <4>1, <4>2 DEF d
      <3> QED BY <3>1, <3>2
    <2>4. LifecycleTypeOK'
      BY <1>2, <1>4, <2>1, <2>3, <1>3, SameTopology DEF LifecycleInv, LifecycleTypeOK
    <2>5. cmd.do \in {"install", "upgrade", "rollback"} /\ cmd.dsn # NoDsn
      BY <1>1, <1>3, <1>6 DEF Purpose, CommandType
    <2>6. cmd.do # "rollback" /\ ~rolled => cmd.dsn = 0 /\ databases[0].changes = acked
      BY <1>1, <2>5, <1>3 DEF Purpose, LifecycleInv, InUse
    <2>7. InUse'
      <3>0. cmd.dsn = 0 \/ databases[0].schema >= 1
        BY <1>1, <1>3, <2>5 DEF Purpose, LifecycleInv, InUse
      <3>1. dsn' # NoDsn /\ databases'[dsn'].schema >= 1 /\ databases'[0].schema >= 1
        BY <1>3, <2>1, <2>3, <2>5, <3>0, LifecycleConstants DEF Dsns
      <3>2. ~rolled' => dsn' = 0 /\ databases'[dsn'].changes = acked'
        BY <2>1, <2>3, <2>6
      <3> QED BY <3>1, <3>2 DEF InUse
    <2>8. ProudOfIt' /\ JournalGood' /\ RecordGood(cmd.rec)'
      BY <1>1, <1>2, SameTopology DEF LifecycleInv, ProudOfIt, JournalGood, RecordGood, Undoable
    <2>9. Purpose'
      BY <1>1, <1>2, <2>1, <2>5, SameTopology DEF Purpose, Undoable
    <2>10. topology = "combined" => boxes' = cmd.to
      <3> SUFFICES ASSUME topology = "combined" PROVE boxes' = cmd.to
        OBVIOUS
      <3>1. Components = {"backend"}
        BY DEF Components
      <3>2. boxes' = [c \in Components |-> cmd.to[c]]
        BY <1>6, <1>re, <2>0, <3>1 DEF Recreate
      <3> QED BY <1>3, <3>2
    <2>11. Progress'
      BY <1>1, <1>2, <2>1, <2>10 DEF Progress
    <2> QED BY <2>4, <2>7, <2>8, <2>9, <2>11 DEF LifecycleInv, CommandGood
  <1>7. CASE "backend" \in gone
    <2>1. /\ UNCHANGED <<dsn, databases, rolled>> /\ up' = FALSE /\ boxes'["backend"] = 0
          /\ stage = "failed"
      BY <1>3, <1>7, <1>to, <1>re DEF Recreate
    <2>3. LifecycleTypeOK'
      BY <1>2, <1>4, <2>1, SameTopology DEF LifecycleInv, LifecycleTypeOK
    <2>4. InUse'
      BY <2>1 DEF LifecycleInv, InUse
    <2>5. ProudOfIt' /\ JournalGood' /\ RecordGood(cmd.rec)'
      BY <1>1, <1>2, SameTopology DEF LifecycleInv, ProudOfIt, JournalGood, RecordGood, Undoable
    <2>6. Purpose'
      BY <1>1, <1>2, <2>1, SameTopology DEF Purpose, Undoable
    <2>7. Progress'
      BY <1>1, <1>2, <2>1 DEF Progress
    <2> QED BY <2>3, <2>4, <2>5, <2>6, <2>7 DEF LifecycleInv, CommandGood
  <1> QED BY <1>5, <1>6, <1>7

(* Stop, recreate, wait for health: only the last may report that everything runs as it was asked. *)
LEMMA Activates == ASSUME LifecycleInv, Activation PROVE LifecycleInv'
  <1>1. cmd # NoCmd /\ UNCHANGED <<topology, acked, archives, journal, torn, lockFile, proud>> /\ (Activate \/ ActivateDeployment)
    BY DEF Activation
  <1>2. cmd \in CommandType /\ RecordGood(cmd.rec) /\ Purpose /\ Progress /\ proud = FALSE
    BY <1>1, Busy
  <1>3. CASE /\ UNCHANGED Runtime
             /\ \E stage \in {"prestart", "stop", "up", "failed", "ok"} :
                   /\ Step(stage)
                   /\ stage \in {"stop", "up"} => cmd.stage \in {"tag", "stop"}
                   /\ stage = "ok" => boxes = cmd.to /\ dsn = cmd.dsn
                   /\ cmd.stage \notin {"conclude", "succeed"}
    <2>1. PICK stage \in {"prestart", "stop", "up", "failed", "ok"} :
                   /\ Step(stage)
                   /\ stage \in {"stop", "up"} => cmd.stage \in {"tag", "stop"}
                   /\ stage = "ok" => boxes = cmd.to /\ dsn = cmd.dsn
                   /\ cmd.stage \notin {"conclude", "succeed"}
      BY <1>3
    <2>2. UNCHANGED <<topology, dsn, boxes, archives, databases>>
      BY <1>1, <1>3 DEF Runtime
    <2>3. cmd' \in CommandType /\ RecordGood(cmd'.rec) /\ (Purpose /\ Progress)'
      BY <1>1, <2>1, <2>2, StageOnly
    <2> QED BY <1>1, <1>2, <1>3, <2>3, CommandSteps DEF Paper
  <1>4. CASE /\ cmd.stage = "stop" /\ UNCHANGED <<boxes, dsn, databases, rolled>> /\ up' \in {up, FALSE}
             /\ Step("up") \/ Step("failed")
    <2>1. cmd' \in CommandType /\ cmd'.rec = cmd.rec /\ RecordGood(cmd'.rec) /\ (Purpose /\ Progress)'
      BY <1>1, <1>4, StageOnly
    <2>2. LifecycleTypeOK'
      BY <1>1, <1>4, <2>1, SameTopology DEF LifecycleInv, LifecycleTypeOK
    <2>3. InUse'
      <3>1. ~up => ~up'
        BY <1>4
      <3> QED BY <1>1, <1>4, <3>1 DEF LifecycleInv, InUse
    <2>4. ProudOfIt' /\ JournalGood' /\ RecordGood(cmd.rec)'
      BY <1>1, <1>2, <2>1, SameTopology DEF LifecycleInv, ProudOfIt, JournalGood, RecordGood, Undoable
    <2> QED BY <2>1, <2>2, <2>3, <2>4 DEF LifecycleInv, CommandGood
  <1>5. CASE BindImage
    <2>1. cmd.stage = "tag" /\ UNCHANGED Runtime /\ \E stage \in {"prestart", "stop", "up"} : Step(stage)
      BY <1>5 DEF BindImage
    <2> QED BY <1>3, <2>1
  <1>6. CASE Activate /\ ~BindImage
    <2>1. topology = "combined" /\ {"backend"} \in SUBSET cmd.changed
      BY <1>2, <1>6 DEF Activate, Progress
    <2>2. cmd.stage \in {"stop", "up", "health"}
      BY <1>6 DEF Activate
    <2>3. CASE cmd.stage = "stop"
      BY <1>3, <1>4, <1>6, <2>3 DEF Activate
    <2>4. CASE cmd.stage = "up"
      <3>1. CASE Recreate({"backend"}, cmd.to, cmd.dsn) /\ Step("health")
        BY <1>1, <1>2, <2>1, <2>4, <3>1, LacksNone, Recreates
      <3>2. CASE RecreateFails({"backend"})
        <4> PICK gone \in SUBSET {"backend"} : Recreate({"backend"}, Lacking(gone), cmd.dsn) /\ Step("failed")
          BY <3>2 DEF RecreateFails
        <4> QED BY <1>1, <2>1, <2>4, Recreates
      <3> QED BY <1>3, <1>6, <2>4, <3>1, <3>2 DEF Activate
    <2>5. CASE cmd.stage = "health"
      <3>1. boxes = cmd.to /\ dsn = cmd.dsn
        BY <1>2, <2>1, <2>5 DEF Progress
      <3> QED BY <1>3, <1>6, <2>5, <3>1 DEF Activate
    <2> QED BY <2>2, <2>3, <2>4, <2>5
  <1>7. CASE ActivateDeployment /\ ~BindImage
    <2>1. topology # "combined" /\ cmd.changed \in SUBSET cmd.changed
      BY <1>7 DEF ActivateDeployment
    <2>2. cmd.stage \in {"up", "health"}
      BY <1>7 DEF ActivateDeployment
    <2>4. CASE cmd.stage = "up"
      <3>1. CASE Recreate(cmd.changed, cmd.to, cmd.dsn) /\ Step("health")
        BY <1>1, <1>2, <2>1, <2>4, <3>1, LacksNone, Recreates
      <3>2. ASSUME NEW some \in SUBSET cmd.changed, RecreateFails(some) PROVE LifecycleInv'
        <4> PICK gone \in SUBSET some : Recreate(some, Lacking(gone), cmd.dsn) /\ Step("failed")
          BY <3>2 DEF RecreateFails
        <4> QED BY <1>1, <2>1, <2>4, Recreates
      <3> QED BY <1>3, <1>7, <2>4, <3>1, <3>2 DEF ActivateDeployment
    <2>5. CASE cmd.stage = "health"
      BY <1>3, <1>7, <2>5 DEF ActivateDeployment
    <2> QED BY <2>2, <2>4, <2>5
  <1> QED BY <1>1, <1>5, <1>6, <1>7

(* The record of what came out is noted. *)
LEMMA Ends == ASSUME LifecycleInv, ActivationEnds PROVE LifecycleInv'
  <1>1. cmd # NoCmd /\ UNCHANGED <<topology, acked, archives, journal, torn, lockFile, proud>>
        /\ (InstallEnds \/ UpgradeEnds \/ RecoveryEnds \/ RollbackEnds)
    BY DEF ActivationEnds
  <1>2. cmd \in CommandType /\ RecordGood(cmd.rec) /\ Purpose /\ Progress /\ proud = FALSE /\ cmd.rec \in RecordType
    BY <1>1, Busy DEF CommandType
  <1>3. ASSUME NEW s \in Statuses, NEW g \in {"conclude", "succeed", "recover"}, NEW r \in RecordType,
               UNCHANGED <<boxes, dsn, databases, rolled>>, up' \in {up, FALSE},
               cmd' = [cmd EXCEPT !.stage = g, !.rec = r], RecordGood(r),
               r.status = s, r.previous = cmd.rec.previous, r.target = cmd.rec.target, r.backup = cmd.rec.backup,
               cmd.do = "upgrade" => r.dsn = cmd.rec.dsn,
               g = "succeed" =>
                 /\ cmd.stage = "ok" /\ r.dsn = cmd.dsn
                 /\ <<cmd.do, s>> \in {<<"install", "installed">>, <<"upgrade", "upgraded">>, <<"rollback", "rolled_back">>},
               g = "recover" => cmd.do = "upgrade" /\ "backend" \notin cmd.changed
        PROVE  LifecycleInv'
    <2>1. /\ cmd' \in CommandType /\ cmd'.rec = r /\ cmd'.stage = g /\ cmd'.dsn = cmd.dsn
          /\ cmd'.do = cmd.do /\ cmd'.to = cmd.to /\ cmd'.changed = cmd.changed
      BY <1>2, <1>3 DEF CommandType, CommandStages
    <2>2. LifecycleTypeOK'
      BY <1>1, <1>3, <2>1, SameTopology DEF LifecycleInv, LifecycleTypeOK
    <2>3. InUse'
      <3>1. ~up => ~up'
        BY <1>3
      <3> QED BY <1>1, <1>3, <3>1 DEF LifecycleInv, InUse
    <2>4. ProudOfIt' /\ JournalGood' /\ RecordGood(cmd.rec)'
      BY <1>1, <1>2, <1>3, <2>1, SameTopology DEF LifecycleInv, ProudOfIt, JournalGood, RecordGood, Undoable
    <2>5. Purpose'
      BY <1>1, <1>2, <1>3, <2>1, SameTopology DEF Purpose
    <2>6. Progress'
      BY <1>1, <1>2, <1>3, <2>1 DEF Progress
    <2> QED BY <2>1, <2>2, <2>3, <2>4, <2>5, <2>6 DEF LifecycleInv, CommandGood
  <1>4. ASSUME NEW s \in Statuses, NEW g \in {"conclude", "succeed", "recover"}, Note(s, g),
               UNCHANGED <<boxes, dsn, databases, rolled>>, up' \in {up, FALSE},
               cmd.do \in {"install", "upgrade", "recover"}, s # "rollback_failed",
               s \in {"prepared", "upgraded", "target_failed"} => cmd.do = "upgrade",
               g = "succeed" => cmd.stage = "ok" /\ cmd.do = "upgrade" /\ s = "upgraded",
               g = "recover" => cmd.do = "upgrade" /\ "backend" \notin cmd.changed
        PROVE  LifecycleInv'
    <2> DEFINE r == [cmd.rec EXCEPT !.status = s]
    <2>1. /\ r \in RecordType /\ r.status = s /\ r.previous = cmd.rec.previous /\ r.target = cmd.rec.target
          /\ r.backup = cmd.rec.backup /\ r.dsn = cmd.rec.dsn
      BY <1>2 DEF RecordType
    <2>2. cmd' = [cmd EXCEPT !.stage = g, !.rec = r]
      BY <1>2, <1>4 DEF Note, CommandType
    <2> HIDE DEF r
    <2>3. cmd.do = "upgrade" => cmd.rec.previous \in Fleet /\ (r.backup # 0 => archives[r.backup].dsn = r.dsn) /\ cmd.dsn = r.dsn
      BY <1>2, <2>1 DEF Purpose
    <2>4. RecordGood(r)
      BY <1>2, <1>4, <2>1, <2>3 DEF RecordGood, Undoable
    <2> QED BY <1>3, <1>4, <2>1, <2>2, <2>3, <2>4
  <1>5. CASE InstallEnds
    <2>1. CASE cmd.stage = "ok"
      <3> DEFINE r == [cmd.rec EXCEPT !.status = "installed", !.dsn = 0]
      <3>0. cmd.dsn = 0 /\ 0 \in Dsns
        BY <1>2, <1>5 DEF InstallEnds, Purpose, CommandType
      <3>1. /\ r \in RecordType /\ r.status = "installed" /\ r.previous = cmd.rec.previous /\ r.target = cmd.rec.target
            /\ r.backup = cmd.rec.backup /\ r.dsn = 0
        BY <1>2, <3>0 DEF RecordType, Statuses
      <3>2. cmd' = [cmd EXCEPT !.stage = "succeed", !.rec = r] /\ cmd.do = "install" /\ UNCHANGED Runtime
        BY <1>2, <1>5, <2>1 DEF InstallEnds, CommandType
      <3> HIDE DEF r
      <3>3. RecordGood(r)
        BY <1>2, <3>1 DEF RecordGood, Undoable
      <3> QED BY <1>3, <2>1, <3>0, <3>1, <3>2, <3>3 DEF Statuses, Runtime
    <2>2. CASE cmd.stage # "ok"
      BY <1>4, <1>5, <2>2 DEF InstallEnds, Statuses, Runtime
    <2> QED BY <2>1, <2>2
  <1>6. CASE UpgradeEnds
    <2>1. CASE UpgradeFails
      <3>1. up' \in {up, FALSE}
        BY <2>1 DEF UpgradeFails, Stop, StopDeployment
      <3> QED BY <1>4, <1>6, <2>1, <3>1 DEF UpgradeEnds, UpgradeFails, Statuses
    <2>2. CASE ~UpgradeFails
      BY <1>4, <1>6, <2>2 DEF UpgradeEnds, Statuses, Runtime, Has
    <2> QED BY <2>1, <2>2
  <1>7. CASE RecoveryEnds
    <2>1. CASE cmd.stage = "ok"
      BY <1>4, <1>7, <2>1 DEF RecoveryEnds, Statuses, Runtime
    <2>2. CASE cmd.stage # "ok"
      BY <1>1, <1>7, <2>2, NotesFailure DEF RecoveryEnds, Paper
    <2> QED BY <2>1, <2>2
  <1>8. CASE RollbackEnds
    <2>1. CASE cmd.stage = "ok"
      <3> DEFINE r == [cmd.rec EXCEPT !.status = "rolled_back", !.dsn = cmd.dsn, !.observed = Nowhere, !.phase = "none"]
      <3>1. /\ r \in RecordType /\ r.status = "rolled_back" /\ r.previous = cmd.rec.previous /\ r.target = cmd.rec.target
            /\ r.backup = cmd.rec.backup /\ r.dsn = cmd.dsn
        BY <1>2 DEF RecordType, Statuses, CommandType
      <3>2. cmd' = [cmd EXCEPT !.stage = "succeed", !.rec = r] /\ cmd.do = "rollback" /\ UNCHANGED Runtime
        BY <1>2, <1>8, <2>1 DEF RollbackEnds, CommandType
      <3> HIDE DEF r
      <3>3. RecordGood(r)
        BY <1>2, <3>1 DEF RecordGood, Undoable
      <3> QED BY <1>3, <2>1, <3>1, <3>2, <3>3 DEF Statuses, Runtime
    <2>2. CASE cmd.stage # "ok"
      BY <1>1, <1>8, <2>2, NotesFailure DEF RollbackEnds, Paper
    <2> QED BY <2>1, <2>2
  <1> QED BY <1>1, <1>5, <1>6, <1>7, <1>8

(* What a journal holds after an attempt to append. *)
LEMMA Appends ==
    ASSUME LifecycleInv, cmd # NoCmd, NEW done \in BOOLEAN, appendJournalRecord(cmd.rec, done)
    PROVE  /\ journal' \in RecordType \cup {NoRecord} /\ (journal' # NoRecord => RecordGood(journal'))
           /\ done => journal' = cmd.rec
  <1>1. cmd \in CommandType /\ RecordGood(cmd.rec) /\ cmd.rec \in RecordType
    BY Busy DEF CommandType
  <1>2. journal' \in {journal, cmd.rec} /\ (done => journal' = cmd.rec)
    BY DEF appendJournalRecord
  <1> QED BY <1>1, <1>2 DEF LifecycleInv, LifecycleTypeOK, JournalGood

LEMMA WritesJournal == ASSUME LifecycleInv, WriteJournal PROVE LifecycleInv'
  <1>1. PICK done \in BOOLEAN :
        /\ appendJournalRecord(cmd.rec, done)
        /\ \/ cmd.stage = "prepare" /\ done /\ Step("tag") /\ UNCHANGED <<lockFile, proud>>
           \/ cmd.stage \in {"prepare", "recover"} /\ ~done /\ Release(FALSE)
           \/ /\ cmd.stage = "recover" /\ done
              /\ cmd' = [cmd EXCEPT !.do = "recover", !.stage = "tag", !.to = cmd.rec.previous]
              /\ UNCHANGED <<lockFile, proud>>
           \/ cmd.stage = "conclude" /\ Release(FALSE)
           \/ cmd.stage = "succeed" /\ (done \/ cmd.do # "upgrade") /\ Release(done)
           \/ cmd.stage = "succeed" /\ ~done /\ cmd.do = "upgrade" /\ Step("failed") /\ UNCHANGED <<lockFile, proud>>
    BY DEF WriteJournal
  <1>2. cmd # NoCmd /\ UNCHANGED <<topology, acked, archives>> /\ UNCHANGED Runtime
    BY DEF WriteJournal
  <1>3. cmd \in CommandType /\ RecordGood(cmd.rec) /\ Purpose /\ Progress /\ proud = FALSE /\ cmd.rec \in RecordType
    BY <1>2, Busy DEF CommandType
  <1>4. /\ journal' \in RecordType \cup {NoRecord} /\ (journal' # NoRecord => RecordGood(journal'))
        /\ done => journal' = cmd.rec
    BY <1>1, <1>2, Appends
  <1>5. ASSUME cmd' \in CommandType, cmd'.rec = cmd.rec, (Purpose /\ Progress)', proud' = proud
        PROVE  LifecycleInv'
    <2>1. LifecycleTypeOK'
      BY <1>2, <1>3, <1>4, <1>5, SameTopology DEF LifecycleInv, LifecycleTypeOK, Runtime
    <2>2. InUse' /\ ProudOfIt'
      BY <1>2, <1>3, <1>5 DEF LifecycleInv, InUse, ProudOfIt, Runtime
    <2>3. JournalGood' /\ RecordGood(cmd.rec)'
      BY <1>2, <1>3, <1>4, <1>5, SameTopology DEF JournalGood, RecordGood, Undoable
    <2> QED BY <1>5, <2>1, <2>2, <2>3 DEF LifecycleInv, CommandGood
  <1>6. CASE cmd.stage = "prepare" /\ done /\ Step("tag") /\ UNCHANGED proud
    <2>1. cmd.do # "rollback"
      BY <1>3, <1>6 DEF Progress
    <2> QED BY <1>2, <1>5, <1>6, <2>1, StageOnly DEF Runtime
  <1>7. CASE Release(FALSE)
    BY <1>2, <1>4, <1>7, Abandons DEF Release
  <1>8. CASE /\ cmd.stage = "recover" /\ done /\ UNCHANGED proud
             /\ cmd' = [cmd EXCEPT !.do = "recover", !.stage = "tag", !.to = cmd.rec.previous]
    <2>1. cmd.do = "upgrade" /\ "backend" \notin cmd.changed /\ cmd.rec.previous \in Fleet /\ topology = "split"
      BY <1>3, <1>8 DEF Purpose, Progress, LifecycleInv, LifecycleTypeOK
    <2>2. /\ cmd' \in CommandType /\ cmd'.rec = cmd.rec /\ cmd'.stage = "tag" /\ cmd'.dsn = cmd.dsn
          /\ cmd'.do = "recover" /\ cmd'.to = cmd.rec.previous /\ cmd'.changed = cmd.changed
      BY <1>3, <1>8, <2>1 DEF CommandType, CommandStages
    <2>3. (Purpose /\ Progress)'
      BY <1>2, <1>3, <2>1, <2>2 DEF Purpose, Progress
    <2> QED BY <1>5, <1>8, <2>2, <2>3
  <1>9. CASE cmd.stage = "succeed" /\ done /\ Release(TRUE)
    <2>1. LifecycleTypeOK'
      BY <1>2, <1>4, <1>9, SameTopology DEF LifecycleInv, LifecycleTypeOK, Runtime, Release
    <2>2. InUse' /\ CommandGood'
      BY <1>2, <1>9 DEF LifecycleInv, InUse, CommandGood, Runtime, Release
    <2>3. JournalGood'
      BY <1>2, <1>4, SameTopology DEF JournalGood, RecordGood, Undoable
    <2>4. /\ boxes' = cmd.to /\ dsn' = journal'.dsn
          /\ \/ journal'.status \in {"installed", "upgraded"} /\ journal'.target = cmd.to
             \/ journal'.status = "rolled_back" /\ journal'.previous = cmd.to
      BY <1>2, <1>3, <1>4, <1>9 DEF Progress, Purpose, Runtime
    <2>5. boxes' = expectedDeploymentForState'
      <3> DEFINE j == journal'
      <3>1. CASE j.status \in {"installed", "upgraded"} /\ j.target = cmd.to
        <4>1. expectedDeploymentForState' = j.target
          BY <3>1 DEF expectedDeploymentForState
        <4> QED BY <2>4, <3>1, <4>1
      <3>2. CASE j.status = "rolled_back" /\ j.previous = cmd.to
        <4>1. expectedDeploymentForState' = j.previous
          BY <3>2 DEF expectedDeploymentForState
        <4> QED BY <2>4, <3>2, <4>1
      <3> QED BY <2>4, <3>1, <3>2
    <2> QED BY <1>9, <2>1, <2>2, <2>3, <2>4, <2>5 DEF LifecycleInv, ProudOfIt, Release
  <1>10. CASE cmd.stage = "succeed" /\ cmd.do = "upgrade" /\ Step("failed") /\ UNCHANGED proud
    BY <1>2, <1>5, <1>10, StageOnly DEF Runtime
  <1> QED BY <1>1, <1>6, <1>7, <1>8, <1>9, <1>10

LEMMA AroundIt == ASSUME LifecycleInv, Around PROVE LifecycleInv'
  <1>1. CASE Serve
    <2>1. /\ dsn # NoDsn /\ dsn \in Dsns /\ databases \in [Dsns -> DatabaseType] /\ acked \in Nat
      BY <1>1 DEF Serve, LifecycleInv, InUse, LifecycleTypeOK
    <2> DEFINE db == [databases[dsn] EXCEPT !.changes = @ + 1]
    <2>2. /\ acked' = acked + 1 /\ databases' = [databases EXCEPT ![dsn] = db]
          /\ UNCHANGED <<topology, boxes, dsn, up, archives, lockFile, cmd, rolled, proud, journal>>
      BY <1>1, <2>1 DEF Serve, Paper
    <2>3. db \in DatabaseType /\ db.schema = databases[dsn].schema /\ db.changes = databases[dsn].changes + 1
          /\ databases[dsn].changes \in Nat
      <3>1. databases[dsn] \in DatabaseType
        BY <2>1
      <3> QED BY <3>1 DEF DatabaseType
    <2> HIDE DEF db
    <2>4. databases' \in [Dsns -> DatabaseType] /\ databases'[dsn] = db /\ \A e \in Dsns \ {dsn} : databases'[e] = databases[e]
      BY <2>1, <2>2, <2>3
    <2>5. LifecycleTypeOK'
      BY <2>1, <2>2, <2>4, SameTopology DEF LifecycleInv, LifecycleTypeOK
    <2>6. InUse'
      <3>1. UNCHANGED <<boxes, dsn, rolled>> /\ databases'[dsn].schema = databases[dsn].schema
            /\ databases'[dsn].changes = databases[dsn].changes + 1 /\ databases'[0].schema = databases[0].schema
        BY <2>2, <2>3, <2>4, LifecycleConstants DEF Dsns
      <3> QED BY <2>1, <2>2, <3>1 DEF LifecycleInv, InUse
    <2>7. JournalGood' /\ ProudOfIt'
      BY <2>2, SameTopology DEF LifecycleInv, JournalGood, RecordGood, Undoable, ProudOfIt, expectedDeploymentForState
    <2>8. CommandGood'
      <3> SUFFICES ASSUME cmd # NoCmd PROVE RecordGood(cmd.rec)' /\ Purpose' /\ Progress'
        BY <2>2 DEF CommandGood
      <3>1. cmd \in CommandType /\ RecordGood(cmd.rec) /\ Purpose /\ Progress
        BY Busy
      <3>2. RecordGood(cmd.rec)' /\ Progress'
        BY <2>2, <3>1, SameTopology DEF RecordGood, Undoable, Progress
      <3>3. cmd.dsn \in Dsns
        BY <3>1 DEF CommandType
      <3>4. Purpose'
        BY <2>2, <2>4, <3>1, <3>3, SameTopology DEF Purpose, Undoable
      <3> QED BY <3>2, <3>4
    <2> QED BY <2>5, <2>6, <2>7, <2>8 DEF LifecycleInv
  <1>2. CASE /\ FallOver \/ Restart \/ EdgeTurns
             /\ UNCHANGED <<topology, boxes, dsn, databases, acked, archives, lockFile, cmd, rolled, proud>> /\ UNCHANGED Paper
    <2>1. up' \in BOOLEAN /\ (dsn = NoDsn => ~up')
      <3>1. up \in BOOLEAN /\ (dsn = NoDsn => ~up)
        BY DEF LifecycleInv, LifecycleTypeOK, InUse
      <3>2. CASE FallOver
        BY <3>2 DEF FallOver
      <3>3. CASE Restart
        BY <3>3 DEF Restart
      <3>4. CASE EdgeTurns
        BY <3>1, <3>4 DEF EdgeTurns
      <3> QED BY <1>2, <3>2, <3>3, <3>4
    <2>2. LifecycleTypeOK'
      BY <1>2, <2>1, SameTopology DEF LifecycleInv, LifecycleTypeOK, Paper
    <2>3. InUse'
      BY <1>2, <2>1 DEF LifecycleInv, InUse
    <2>4. JournalGood' /\ ProudOfIt'
      BY <1>2, SameTopology DEF LifecycleInv, JournalGood, RecordGood, Undoable, ProudOfIt, expectedDeploymentForState, Paper
    <2>5. CommandGood'
      BY <1>2, SameTopology DEF LifecycleInv, CommandGood, RecordGood, Undoable, Purpose, Progress
    <2> QED BY <2>2, <2>3, <2>4, <2>5 DEF LifecycleInv
  <1>3. CASE (Interrupt \/ Kill \/ RemoveLock) /\ UNCHANGED <<topology, acked, archives, journal, proud>> /\ UNCHANGED Runtime
    <2>1. CASE Interrupt
      <3>1. cmd \in CommandType /\ RecordGood(cmd.rec) /\ Purpose /\ Progress /\ proud = FALSE
        BY <2>1, Busy DEF Interrupt
      <3>2. /\ cmd' \in CommandType /\ cmd'.rec = cmd.rec /\ cmd'.stage = cmd.stage /\ cmd'.dsn = cmd.dsn
            /\ cmd'.do = cmd.do /\ cmd'.to = cmd.to /\ cmd'.changed = cmd.changed
        BY <2>1, <3>1 DEF Interrupt, CommandType
      <3>3. (Purpose /\ Progress)'
        BY <1>3, <3>1, <3>2, SameTopology DEF Purpose, Progress, Undoable, Runtime
      <3>4. UNCHANGED <<topology, acked, archives>> /\ UNCHANGED <<Runtime, Paper>> /\ proud' = FALSE
        BY <1>3, <2>1, <3>1 DEF Interrupt, Paper
      <3> QED BY <3>1, <3>2, <3>3, <3>4, CommandSteps
    <2>2. CASE Kill
      <3>1. proud' = FALSE /\ cmd' = NoCmd
        BY <1>3, <2>2, Busy DEF Kill
      <3> QED BY <1>3, <3>1, Abandons DEF LifecycleInv, LifecycleTypeOK, JournalGood
    <2>3. CASE RemoveLock
      <3>1. UNCHANGED <<topology, boxes, dsn, up, databases, acked, archives, journal, cmd, rolled, proud>> /\ cmd = NoCmd
        BY <1>3, <2>3 DEF RemoveLock, Runtime
      <3>2. LifecycleTypeOK' /\ InUse'
        BY <3>1, SameTopology DEF LifecycleInv, LifecycleTypeOK, InUse
      <3>3. JournalGood' /\ ProudOfIt' /\ CommandGood'
        BY <3>1, SameTopology DEF LifecycleInv, JournalGood, RecordGood, Undoable, ProudOfIt, expectedDeploymentForState, CommandGood
      <3> QED BY <3>2, <3>3 DEF LifecycleInv
    <2> QED BY <1>3, <2>1, <2>2, <2>3
  <1> QED BY <1>1, <1>2, <1>3 DEF Around

(* The snapshot of a rollback. *)
LEMMA Restores == ASSUME LifecycleInv, RestoreCombined \/ restoreDeploymentBackup PROVE LifecycleInv'
  <1>1. PICK failure \in {"note", "look"} :
          /\ failure = "note" => topology = "combined" /\ Unpack(Note("rollback_failed", "conclude"))
          /\ failure = "look" => Unpack(rollbackFailure("restore"))
    BY DEF RestoreCombined, restoreDeploymentBackup
  <1>2. cmd.stage = "restore" /\ cmd # NoCmd /\ UNCHANGED <<topology, acked, archives, lockFile, proud, boxes, dsn, up, edgesUp, rolled>>
        /\ UNCHANGED Paper
    <2>1. cmd.stage = "restore" /\ UNCHANGED <<topology, acked, archives, lockFile, proud, boxes, dsn, up, edgesUp, rolled>> /\ UNCHANGED Paper
      BY <1>1 DEF Unpack
    <2>2. cmd # NoCmd
      BY <2>1 DEF NoCmd
    <2> QED BY <2>1, <2>2
  <1>3. cmd.do = "rollback"
    BY <1>2, Busy DEF Progress
  <1>4. CASE \E d \in 1..MaxRestores :
            /\ databases[d] = NoDatabase
            /\ databases' = [databases EXCEPT ![d] = archives[cmd.rec.backup].db]
            /\ cmd' = [cmd EXCEPT !.stage = "tag", !.dsn = d]
    BY <1>2, <1>4, Unpacks
  <1>5. CASE /\ (Note("rollback_failed", "conclude") /\ topology = "combined") \/ rollbackFailure("restore")
             /\ UNCHANGED databases
    BY <1>2, <1>3, <1>5, NotesFailure DEF Runtime
  <1> QED BY <1>1, <1>4, <1>5 DEF Unpack

(* Every behaviour of the deployment tool, with any number of components, images, writes, archives   *)
(* and restored databases, in both topologies: no acknowledged change is lost before a rollback, a   *)
(* rollback restores the right snapshot, and success is reported only with a true journal.           *)
THEOREM LifecycleStaysSafe == LifecycleSpec => []LifecycleSafe
  <1>1. (\E t \in {"combined", "split"} : LifecycleInit(t)) => LifecycleInv
    BY LifecycleInvInit
  <1>2. LifecycleInv /\ [LifecycleNext]_lifecycleVars => LifecycleInv'
    <2> SUFFICES ASSUME LifecycleInv, [LifecycleNext]_lifecycleVars PROVE LifecycleInv'
      OBVIOUS
    <2>1. CASE UNCHANGED lifecycleVars
      <3>1. UNCHANGED <<topology, boxes, dsn, up, databases, acked, archives, journal, cmd, rolled, proud>>
        BY <2>1 DEF lifecycleVars
      <3>2. LifecycleTypeOK' /\ InUse'
        BY <3>1, SameTopology DEF LifecycleInv, LifecycleTypeOK, InUse
      <3>3. JournalGood' /\ ProudOfIt'
        BY <3>1, SameTopology DEF LifecycleInv, JournalGood, RecordGood, Undoable, ProudOfIt, expectedDeploymentForState
      <3>4. CommandGood'
        BY <3>1, SameTopology DEF LifecycleInv, CommandGood, RecordGood, Undoable, Purpose, Progress
      <3> QED BY <3>2, <3>3, <3>4 DEF LifecycleInv
    <2>2. CASE \E to \in Fleet : run(to) \/ runSplit(to)
      BY <2>2, Begins
    <2>3. CASE Backup \/ BackupDeployment
      BY <2>3, BacksUp DEF Backup, BackupDeployment
    <2>4. CASE RestoreCombined \/ restoreDeploymentBackup
      BY <2>4, Restores
    <2>5. CASE Activation \/ ActivationEnds
      BY <2>5, Activates, Ends
    <2>6. CASE WriteJournal \/ Around
      BY <2>6, WritesJournal, AroundIt
    <2> QED BY <2>1, <2>2, <2>3, <2>4, <2>5, <2>6 DEF LifecycleNext
  <1>3. LifecycleInv => LifecycleSafe
    <2> SUFFICES ASSUME LifecycleInv PROVE LifecycleSafe
      OBVIOUS
    <2>1. ~rolled /\ dsn # NoDsn => databases[dsn].changes = acked
      BY DEF LifecycleInv, InUse
    <2>2. ASSUME cmd.do = "rollback", cmd.stage \in {"restore", "tag", "stop", "up"}, Has(cmd.changed, "backend")
          PROVE  /\ archives[cmd.rec.backup].dsn = dsn /\ archives[cmd.rec.backup].rev = cmd.to["backend"]
                 /\ cmd.stage # "restore" => databases[cmd.dsn] = archives[cmd.rec.backup].db
      <3>1. cmd # NoCmd
        BY <2>2 DEF NoCmd
      <3> QED BY <2>2, <3>1, Busy DEF Purpose, RecordGood, Has
    <2>3. proud => boxes = expectedDeploymentForState /\ dsn = journal.dsn
      BY DEF LifecycleInv, ProudOfIt
    <2> QED BY <2>1, <2>2, <2>3 DEF LifecycleSafe
  <1> QED BY <1>1, <1>2, <1>3, PTL DEF LifecycleSpec

-----------------------------------------------------------------------------
(* Attachments.  A request relies on what it saw under the lock of its id; *)
(* a row and its file part only where the invariant says so.               *)

SessionType ==
    [status : {"none", "initialized", "uploading", "completing", "expired", "completed", "gone"},
     recorded : SUBSET Parts, sound : BOOLEAN, lapsed : BOOLEAN]
DocType == [state : {"none", "live", "trash"}, article : Articles \cup {0}, old : BOOLEAN, ripe : BOOLEAN]
Completing ==
    [op : {"complete"}, id : Ids, stage : {"assemble", "publish", "finish", "unpublish", "wipe"}]
Chunking == [op : {"chunk"}, id : Ids, stage : {"record"}, part : Parts, created : BOOLEAN]
Cancelling == [op : {"cancel"}, id : Ids, stage : {"delete"}, kept : SUBSET Parts]
Dropping == [op : {"drop"}, id : Ids, stage : {"delete"}, kept : {"none", "new", "old"}]
Cloning == [op : {"clone"}, id : Ids, stage : {"insert"}, copy : Ids]
EditorType == {Calm} \cup Completing \cup Chunking \cup Cancelling \cup Dropping \cup Cloning
SweepType ==
    [stage : {"none", "uploads", "drafts", "purge", "orphans", "query", "remove"}, todo : SUBSET Ids, id : Ids \cup {0},
     old : SUBSET Ids, orphan : Ids \cup {0}]

AttachmentsTypeOK ==
    /\ quota \in Nat /\ sessions \in [Ids -> SessionType] /\ docs \in [Ids -> DocType]
    /\ parts \in [Ids -> SUBSET Parts] /\ objects \in [Ids -> {"none", "new", "old"}]
    /\ editors \in [Editors -> EditorType] /\ sweep \in SweepType
    /\ overdue \in SUBSET Ids /\ forfeited \in SUBSET Ids

(* The lock of an id has one holder. *)
Locks ==
    /\ \A e, f \in Editors : editors[e].id = editors[f].id => e = f \/ editors[e] = Calm
    /\ \A e \in Editors : sweep.id # 0 => editors[e].id # sweep.id
    /\ \A e, f \in Editors : editors[e].op = "clone" /\ editors[f].op = "clone" /\ editors[e].copy = editors[f].copy => e = f

(* What a request in progress relies on until it is over. *)
Relies(w, ss, os, ds, lost) ==
    /\ w.op = "chunk" => ss[w.id].status \in {"initialized", "uploading", "expired"}
    /\ w.op = "cancel" => ss[w.id].status \in {"initialized", "uploading", "expired"}
    /\ w.op = "complete" /\ w.stage # "wipe" => ss[w.id].status = "completing"
    /\ w.op = "complete" /\ w.stage = "finish" => os[w.id] = "new" \/ w.id \in lost
    /\ w.op = "drop" => ds[w.id].state # "none" /\ (w.kept = "none" => w.id \in lost)
    /\ w.op = "clone" => ss[w.copy] = NoSession /\ ds[w.copy].state = "none" /\ os[w.copy] = "new"
Hands == \A e \in Editors : Relies(editors[e], sessions, objects, docs, forfeited)

(* A row and an unfinished upload exclude each other; only what is in the trash is ripe. *)
RowsGood ==
    \A id \in Ids : /\ sessions[id].status \in Unfinished => docs[id].state = "none"
                    /\ docs[id].state = "none" => docs[id] = NoDoc
                    /\ docs[id].ripe => docs[id].state = "trash"

(* A row has its file, in the trash too until its retention is over. *)
Dropped(id) == \E e \in Editors : editors[e].id = id /\ editors[e].op = "drop"
FilesKept ==
    \A id \in Ids : docs[id].state # "none" /\ ~docs[id].ripe /\ id \notin forfeited /\ ~Dropped(id) => objects[id] # "none"

(* What the sweep is about to purge is not a draft, and may be lost. *)
SweepGood ==
    /\ sweep.id \in sweep.todo \cup {0}
    /\ sweep.stage \in {"none", "drafts", "orphans", "query", "remove"} => sweep.id = 0
    /\ sweep.stage = "purge" => \A id \in sweep.todo :
          /\ docs[id].ripe \/ (id \in forfeited /\ docs[id].state # "none")
          /\ docs[id].state = "trash" \/ docs[id].article # 0

(* What the sweep is about to remove as an orphan gets no row meanwhile, unless its file is forfeited. *)
OrphanGood ==
    /\ IF sweep.stage \in {"query", "remove"} THEN sweep.orphan \in Ids ELSE sweep.orphan = 0
    /\ \A e \in Editors : editors[e].op = "complete" /\ editors[e].stage = "finish" /\ editors[e].id = sweep.orphan
                           => sweep.orphan \in forfeited
    /\ \A e \in Editors : editors[e].op = "clone" => editors[e].copy # sweep.orphan
    /\ sweep.stage = "remove" => docs[sweep.orphan].state = "none" \/ sweep.orphan \in forfeited

Used == {id \in Ids : docs[id].state # "none"}
Held == {id \in Ids : sessions[id].status \in Unfinished /\ ~sessions[id].lapsed}
Counted ==
    /\ \A id \in overdue : sessions[id].status = "completed"
    /\ Cardinality(Used) + Cardinality(Held) <= quota + Cardinality(overdue)

AttachmentsInv == AttachmentsTypeOK /\ Locks /\ Hands /\ RowsGood /\ FilesKept /\ SweepGood /\ OrphanGood /\ Counted

LEMMA NoRows == NoSession \in SessionType /\ NoDoc \in DocType /\ Draft \in DocType /\ NoSweep \in SweepType /\ Calm \in EditorType
  BY DEF NoSession, SessionType, NoDoc, Draft, DocType, NoSweep, SweepType, Calm, EditorType

LEMMA Finite ==
    ASSUME NEW S \in SUBSET Ids PROVE IsFiniteSet(S) /\ Cardinality(S) \in Nat
  BY AttachmentConstants, FS_Subset, FS_CardinalityType

LEMMA AttachmentsInvInit == AttachmentsInit => AttachmentsInv
  <1> SUFFICES ASSUME AttachmentsInit PROVE AttachmentsInv
    OBVIOUS
  <1> USE DEF AttachmentsInit
  <1>1. AttachmentsTypeOK
    <2>1. quota \in Nat
      OBVIOUS
    <2> QED BY <2>1, NoRows DEF AttachmentsTypeOK
  <1>2. Locks /\ Hands /\ RowsGood /\ FilesKept /\ SweepGood /\ OrphanGood
    BY DEF Locks, Hands, Relies, RowsGood, FilesKept, SweepGood, OrphanGood, Calm, NoSession, NoDoc, NoSweep, Unfinished
  <1>3. Counted
    <2>1. Used = {} /\ Held = {} /\ overdue = {}
      BY DEF Used, Held, NoDoc, NoSession, Unfinished
    <2> QED BY <1>1, <2>1, FS_EmptySet DEF Counted, AttachmentsTypeOK
  <1> QED BY <1>1, <1>2, <1>3 DEF AttachmentsInv

(* Fewer rows and reservations keep within the quota. *)
LEMMA CountsDown ==
    ASSUME Counted, AttachmentsTypeOK, Used' \subseteq Used, Held' \subseteq Held, UNCHANGED <<quota, overdue>>,
           \A id \in Ids : sessions[id].status = "completed" => sessions'[id].status = "completed"
    PROVE  Counted'
  <1>1. Used \in SUBSET Ids /\ Held \in SUBSET Ids /\ overdue \in SUBSET Ids /\ quota \in Nat
    BY DEF Used, Held, AttachmentsTypeOK
  <1>2. Cardinality(Used') <= Cardinality(Used) /\ Cardinality(Held') <= Cardinality(Held)
    BY <1>1, Finite, FS_Subset
  <1>3. /\ Cardinality(Used) \in Nat /\ Cardinality(Held) \in Nat /\ Cardinality(overdue) \in Nat
        /\ Cardinality(Used') \in Nat /\ Cardinality(Held') \in Nat
    BY <1>1, Finite
  <1> QED BY <1>1, <1>2, <1>3 DEF Counted

(* The kinds of requests are told apart by their operation. *)
LEMMA EditorKinds ==
    ASSUME NEW w \in EditorType
    PROVE  /\ w.op \in {"none", "complete", "chunk", "cancel", "drop", "clone"} /\ w.id \in Ids \cup {0}
           /\ w.op = "none" <=> w = Calm
           /\ w.op # "none" => w.id \in Ids /\ w.id # 0
           /\ w.op = "complete" => w \in Completing
           /\ w.op = "chunk" => w \in Chunking
           /\ w.op = "cancel" => w \in Cancelling
           /\ w.op = "drop" => w \in Dropping
           /\ w.op = "clone" => w \in Cloning
  <1>1. CASE w = Calm
    BY <1>1, AttachmentConstants DEF Calm
  <1>2. CASE w \in Completing
    BY <1>2, AttachmentConstants DEF Calm, Completing
  <1>3. CASE w \in Chunking
    BY <1>3, AttachmentConstants DEF Calm, Chunking
  <1>4. CASE w \in Cancelling
    BY <1>4, AttachmentConstants DEF Calm, Cancelling
  <1>5. CASE w \in Dropping
    BY <1>5, AttachmentConstants DEF Calm, Dropping
  <1>6. CASE w \in Cloning
    BY <1>6, AttachmentConstants DEF Calm, Cloning
  <1> QED BY <1>1, <1>2, <1>3, <1>4, <1>5, <1>6 DEF EditorType

(* The orphan of the sweep while requests and sweep stand still, and a sweep that has none. *)
LEMMA OrphanStays ==
    ASSUME AttachmentsInv, UNCHANGED <<editors, sweep>>, forfeited \subseteq forfeited',
           \A i \in Ids : docs[i].state = "none" => docs'[i].state = "none"
    PROVE  OrphanGood'
  BY DEF AttachmentsInv, OrphanGood

LEMMA NoOrphan ==
    ASSUME editors' \in [Editors -> EditorType], sweep'.orphan = 0, sweep'.stage \notin {"query", "remove"} PROVE OrphanGood'
  <1>1. ASSUME NEW e \in Editors
        PROVE  /\ ~(editors'[e].op = "complete" /\ editors'[e].stage = "finish" /\ editors'[e].id = 0)
               /\ editors'[e].op = "clone" => editors'[e].copy # 0
    <2>1. editors'[e] \in EditorType
      OBVIOUS
    <2> QED BY <2>1, EditorKinds, AttachmentConstants DEF Cloning
  <1> QED BY <1>1 DEF OrphanGood

LEMMA InitializeSafe == ASSUME AttachmentsInv, NEW id \in Ids, Initialize(id) PROVE AttachmentsInv'
  <1> PICK sound \in BOOLEAN : ReserveKnowledgeAttachmentUpload(id, sound)
    BY DEF Initialize
  <1> DEFINE s == [NoSession EXCEPT !.status = "initialized", !.sound = sound]
  <1>s. /\ s \in SessionType /\ s.status = "initialized" /\ ~s.lapsed
        /\ sessions' = [sessions EXCEPT ![id] = s] /\ KnowledgeAttachmentUsage < quota
    BY DEF ReserveKnowledgeAttachmentUpload, NoSession, SessionType
  <1> HIDE DEF s
  <1>u. UNCHANGED <<quota, parts, objects, docs, articles, editors, sweep, overdue, forfeited>>
    BY DEF Initialize, Ghosts
  <1>0. sessions[id] = NoSession /\ docs[id] = NoDoc /\ objects[id] = "none"
    BY DEF Initialize, Unused
  <1>1. AttachmentsTypeOK'
    BY <1>s, <1>u DEF AttachmentsInv, AttachmentsTypeOK
  <1>2. Locks' /\ FilesKept' /\ SweepGood'
    BY <1>u DEF AttachmentsInv, Locks, FilesKept, SweepGood, Dropped
  <1>3. Hands'
    <2> SUFFICES ASSUME NEW e \in Editors PROVE Relies(editors'[e], sessions', objects', docs', forfeited')
      BY DEF Hands
    <2>1. Relies(editors[e], sessions, objects, docs, forfeited) /\ editors[e] \in EditorType /\ editors'[e] = editors[e]
      BY <1>u DEF AttachmentsInv, Hands, AttachmentsTypeOK
    <2>2. editors[e].op = "clone" => editors[e].copy # id
      BY DEF Initialize, Unused
    <2>3. CASE editors[e].op = "none"
      BY <2>1, <2>3 DEF Relies
    <2>4. CASE editors[e].op = "clone"
      BY <1>s, <1>u, <2>1, <2>2, <2>4, EditorKinds DEF Relies, Cloning, AttachmentsInv, AttachmentsTypeOK
    <2>5. CASE editors[e].id # id
      BY <1>s, <1>u, <2>1, <2>2, <2>5, EditorKinds DEF Relies, Cloning, AttachmentsInv, AttachmentsTypeOK
    <2>6. CASE editors[e].id = id /\ editors[e].op \notin {"none", "clone"}
      BY <1>s, <1>u, <1>0, <2>1, <2>6, EditorKinds DEF Relies, Completing, NoSession, NoDoc, AttachmentsInv, AttachmentsTypeOK
    <2> QED BY <2>3, <2>4, <2>5, <2>6
  <1>4. RowsGood'
    BY <1>s, <1>u, <1>0 DEF AttachmentsInv, AttachmentsTypeOK, RowsGood, NoDoc
  <1>5. Counted'
    <2>1. Used' = Used /\ Held' = Held \cup {id} /\ id \notin Held
      BY <1>s, <1>u, <1>0 DEF Used, Held, NoSession, AttachmentsInv, AttachmentsTypeOK, Unfinished
    <2>2. Used \in SUBSET Ids /\ Held \in SUBSET Ids /\ overdue \in SUBSET Ids /\ quota \in Nat
      BY DEF Used, Held, AttachmentsTypeOK, AttachmentsInv
    <2>3. IsFiniteSet(Held)
      BY <2>2, Finite
    <2>4. Cardinality(Held') = Cardinality(Held) + 1
      BY <2>1, <2>3, FS_AddElement
    <2>5. Cardinality(Used) \in Nat /\ Cardinality(Held) \in Nat /\ Cardinality(overdue) \in Nat
      BY <2>2, Finite
    <2>6. Cardinality(Used) + Cardinality(Held) < quota
      BY <1>s DEF KnowledgeAttachmentUsage, Used, Held
    <2>7. \A i \in overdue' : sessions'[i].status = "completed"
      BY <1>s, <1>u, <1>0, <2>2 DEF AttachmentsInv, Counted, AttachmentsTypeOK, NoSession
    <2> QED BY <2>1, <2>2, <2>4, <2>5, <2>6, <2>7, <1>u DEF Counted
  <1>6. OrphanGood'
    BY <1>u, OrphanStays
  <1> QED BY <1>1, <1>2, <1>3, <1>4, <1>5, <1>6 DEF AttachmentsInv

LEMMA StatusSafe == ASSUME AttachmentsInv, NEW id \in Ids, Status(id) PROVE AttachmentsInv'
  <1> DEFINE s == [sessions[id] EXCEPT !.status = "expired"]
  <1>0. sessions[id] \in SessionType /\ sessions[id].status \in {"initialized", "uploading"}
    BY DEF AttachmentsInv, AttachmentsTypeOK, Status, ExpireKnowledgeAttachmentUpload
  <1>s. s \in SessionType /\ s.status = "expired" /\ sessions' = [sessions EXCEPT ![id] = s]
    BY <1>0 DEF Status, ExpireKnowledgeAttachmentUpload, SessionType
  <1> HIDE DEF s
  <1>u. UNCHANGED <<quota, parts, objects, docs, articles, editors, sweep, overdue, forfeited>>
    BY DEF Status, Ghosts
  <1>1. AttachmentsTypeOK'
    BY <1>s, <1>u DEF AttachmentsInv, AttachmentsTypeOK
  <1>2. Locks' /\ FilesKept' /\ SweepGood'
    BY <1>u DEF AttachmentsInv, Locks, FilesKept, SweepGood, Dropped
  <1>3. Hands'
    <2> SUFFICES ASSUME NEW e \in Editors PROVE Relies(editors'[e], sessions', objects', docs', forfeited')
      BY DEF Hands
    <2>1. Relies(editors[e], sessions, objects, docs, forfeited) /\ editors[e] \in EditorType /\ editors'[e] = editors[e]
      BY <1>u, <1>0 DEF AttachmentsInv, Hands, AttachmentsTypeOK
    <2> QED BY <1>s, <1>u, <1>0, <2>1, EditorKinds DEF Relies, Cloning, AttachmentsInv, AttachmentsTypeOK, NoSession
  <1>4. RowsGood'
    BY <1>s, <1>u DEF AttachmentsInv, AttachmentsTypeOK, RowsGood, Unfinished
  <1>5. Used' \subseteq Used /\ Held' \subseteq Held
    BY <1>s, <1>u DEF Used, Held, AttachmentsInv, AttachmentsTypeOK, Unfinished
  <1>6. Counted'
    BY <1>s, <1>u, <1>0, <1>5, CountsDown DEF AttachmentsInv, AttachmentsTypeOK
  <1>7. OrphanGood'
    BY <1>u, OrphanStays
  <1> QED BY <1>1, <1>2, <1>3, <1>4, <1>6, <1>7 DEF AttachmentsInv

(* A step of one request: it entered with the lock of its id, or goes on with it, or leaves. *)
Moves(e) ==
    /\ editors' \in [Editors -> EditorType] /\ \A f \in Editors \ {e} : editors'[f] = editors[f]
    /\ \/ editors'[e] = Calm
       \/ editors'[e].id = editors[e].id /\ editors'[e].op # "clone"
       \/ /\ lock(editors'[e].id)
          /\ editors'[e].op = "clone" => /\ \A f \in Editors : editors[f].op = "clone" => editors[f].copy # editors'[e].copy
                                         /\ editors'[e].copy # sweep.orphan
    /\ editors'[e].op = "complete" /\ editors'[e].stage = "finish" /\ editors'[e].id = sweep.orphan => sweep.orphan \in forfeited'

LEMMA OneEditor ==
    ASSUME AttachmentsInv, NEW e \in Editors, Moves(e), UNCHANGED sweep PROVE Locks'
  <1>1. editors \in [Editors -> EditorType] /\ sweep \in SweepType /\ editors' \in [Editors -> EditorType]
    BY DEF AttachmentsInv, AttachmentsTypeOK, Moves
  <1>3. \A f \in Editors : (editors[f].op = "none" <=> editors[f] = Calm) /\ (editors[f] # Calm => editors[f].id # 0)
    BY <1>1, EditorKinds
  <1>4. editors'[e] # Calm => editors'[e].id # 0
    BY <1>1, EditorKinds
  <1>5. Calm.id = 0 /\ Calm.op = "none"
    BY DEF Calm
  <1>6. Locks
    BY DEF AttachmentsInv
  <1>7. CASE editors'[e] = Calm
    BY <1>1, <1>3, <1>5, <1>6, <1>7 DEF Locks, Moves
  <1>8. CASE editors'[e] # Calm /\ editors'[e].id = editors[e].id /\ editors'[e].op # "clone"
    BY <1>1, <1>3, <1>4, <1>5, <1>6, <1>8 DEF Locks, Moves
  <1>9. CASE /\ lock(editors'[e].id)
             /\ editors'[e].op = "clone" => /\ \A f \in Editors : editors[f].op = "clone" => editors[f].copy # editors'[e].copy
                                            /\ editors'[e].copy # sweep.orphan
    BY <1>1, <1>3, <1>4, <1>5, <1>6, <1>9 DEF Locks, lock, Moves
  <1> QED BY <1>7, <1>8, <1>9 DEF Moves

(* Such a step gives the orphan no row. *)
LEMMA OneOrphan ==
    ASSUME AttachmentsInv, NEW e \in Editors, Moves(e), UNCHANGED sweep, forfeited \subseteq forfeited',
           \A i \in Ids : docs[i].state = "none" => docs'[i].state = "none" \/ i # sweep.orphan \/ i \in forfeited
    PROVE  OrphanGood'
  <1>0. OrphanGood /\ sweep \in SweepType
    BY DEF AttachmentsInv, AttachmentsTypeOK
  <1>1. ASSUME NEW f \in Editors \ {e}
        PROVE  /\ editors'[f].op = "complete" /\ editors'[f].stage = "finish" /\ editors'[f].id = sweep.orphan => sweep.orphan \in forfeited'
               /\ editors'[f].op = "clone" => editors'[f].copy # sweep.orphan
    BY <1>0 DEF OrphanGood, Moves
  <1>2. editors'[e].op = "clone" => editors'[e].copy # sweep.orphan
    BY DEF Moves, Calm
  <1>3. editors'[e].op = "complete" /\ editors'[e].stage = "finish" /\ editors'[e].id = sweep.orphan => sweep.orphan \in forfeited'
    BY DEF Moves
  <1>4. sweep.stage = "remove" => docs'[sweep.orphan].state = "none" \/ sweep.orphan \in forfeited'
    BY <1>0 DEF OrphanGood
  <1> QED BY <1>0, <1>1, <1>2, <1>3, <1>4 DEF OrphanGood

(* The other requests rely on other ids. *)
LEMMA OneHand ==
    ASSUME AttachmentsInv, forfeited \subseteq forfeited', NEW e \in Editors, NEW id \in Ids, Moves(e), Relies(editors'[e], sessions', objects', docs', forfeited'),
           editors[e].id = id \/ lock(id),
           docs[id].state # "none" \/ sessions[id] # NoSession \/ objects[id] # "new",
           \A i \in Ids \ {id} : sessions'[i] = sessions[i] /\ objects'[i] = objects[i] /\ docs'[i].state = docs[i].state
    PROVE  Hands'
  <1> SUFFICES ASSUME NEW f \in Editors \ {e} PROVE Relies(editors'[f], sessions', objects', docs', forfeited')
    BY DEF Hands
  <1>1. editors'[f] = editors[f] /\ editors[f] \in EditorType /\ Relies(editors[f], sessions, objects, docs, forfeited)
    BY DEF AttachmentsInv, AttachmentsTypeOK, Hands, Moves
  <1>2. editors[e].id = id => editors[e] # Calm
    BY AttachmentConstants DEF Calm
  <1>3. editors[f].id # id
    BY <1>2 DEF lock, AttachmentsInv, Locks
  <1> QED BY <1>1, <1>3, EditorKinds DEF Relies, Cloning

(* A request that only touches its upload. *)
LEMMA OneUpload ==
    ASSUME AttachmentsInv, NEW e \in Editors, NEW id \in Ids, Moves(e), Relies(editors'[e], sessions', objects', docs', forfeited'),
           UNCHANGED <<quota, objects, docs, articles, sweep, overdue, forfeited>>,
           parts' \in [Ids -> SUBSET Parts], sessions' \in [Ids -> SessionType],
           \A i \in Ids \ {id} : sessions'[i] = sessions[i],
           editors[e].id = id \/ lock(id), editors[e].op # "drop",
           sessions[id].status # "none",
           sessions'[id].status \in Unfinished =>
               sessions[id].status \in Unfinished /\ (~sessions'[id].lapsed => ~sessions[id].lapsed),
           sessions[id].status = "completed" => sessions'[id].status = "completed"
    PROVE  AttachmentsInv'
  <1>1. Locks' /\ editors' \in [Editors -> EditorType]
    BY OneEditor DEF Moves
  <1>2. AttachmentsTypeOK'
    BY <1>1 DEF AttachmentsInv, AttachmentsTypeOK
  <1>3. Hands'
    <2>1. sessions[id] # NoSession
      BY DEF NoSession
    <2>2. \A i \in Ids \ {id} : sessions'[i] = sessions[i] /\ objects'[i] = objects[i] /\ docs'[i].state = docs[i].state
      OBVIOUS
    <2> QED BY <2>1, <2>2, OneHand
  <1>4. RowsGood' /\ SweepGood'
    BY DEF AttachmentsInv, RowsGood, SweepGood
  <1>5. FilesKept'
    <2>1. \A i \in Ids : Dropped(i) => Dropped(i)'
      BY DEF Dropped, Moves
    <2> QED BY <2>1 DEF AttachmentsInv, FilesKept
  <1>6. Used' \subseteq Used /\ Held' \subseteq Held
    BY DEF Used, Held
  <1>7. Counted'
    <2>1. \A i \in Ids : sessions[i].status = "completed" => sessions'[i].status = "completed"
      OBVIOUS
    <2> QED BY <1>6, <2>1, CountsDown DEF AttachmentsInv
  <1>8. OrphanGood'
    BY OneOrphan
  <1> QED BY <1>1, <1>2, <1>3, <1>4, <1>5, <1>7, <1>8 DEF AttachmentsInv

LEMMA StoreChunkSafe ==
    ASSUME AttachmentsInv, NEW e \in Editors, NEW id \in Ids, NEW i \in Parts, StoreChunk(e, id, i) PROVE AttachmentsInv'
  <1> DEFINE w == [op |-> "chunk", id |-> id, stage |-> "record", part |-> i, created |-> i \notin parts[id]]
  <1>1. lock(id) /\ editors[e].op = "none" /\ sessions[id].status \in {"initialized", "uploading"}
    BY DEF StoreChunk, Calm
  <1>2. w \in EditorType /\ w.id = id /\ w.op = "chunk"
    BY DEF EditorType, Chunking
  <1>3. editors' = [editors EXCEPT ![e] = w]
    BY DEF StoreChunk
  <1> HIDE DEF w
  <1>4. parts' \in [Ids -> SUBSET Parts]
    BY DEF StoreChunk, AttachmentsInv, AttachmentsTypeOK
  <1>5. UNCHANGED <<quota, sessions, objects, docs, articles, sweep, overdue, forfeited>>
    BY DEF StoreChunk, Ghosts
  <1>6. Moves(e) /\ Relies(editors'[e], sessions', objects', docs', forfeited')
    BY <1>1, <1>2, <1>3, <1>5 DEF Moves, Relies, AttachmentsInv, AttachmentsTypeOK
  <1>7. sessions' \in [Ids -> SessionType]
    BY <1>5 DEF AttachmentsInv, AttachmentsTypeOK
  <1> QED BY <1>1, <1>4, <1>5, <1>6, <1>7, OneUpload

(* What leaving means. *)
LEMMA LeaveMoves ==
    ASSUME AttachmentsInv, NEW e \in Editors, Leave(e)
    PROVE  /\ Moves(e) /\ Relies(editors'[e], sessions', objects', docs', forfeited') /\ editors'[e] = Calm
           /\ \A f \in Editors \ {e} : editors'[f] = editors[f]
  <1>1. editors \in [Editors -> EditorType] /\ Calm \in EditorType
    BY NoRows DEF AttachmentsInv, AttachmentsTypeOK
  <1>2. editors' \in [Editors -> EditorType] /\ editors'[e] = Calm /\ \A f \in Editors \ {e} : editors'[f] = editors[f]
    BY <1>1 DEF Leave
  <1>3. Relies(editors'[e], sessions', objects', docs', forfeited')
    BY <1>2 DEF Relies, Calm
  <1>4. Calm.op = "none"
    BY DEF Calm
  <1> QED BY <1>2, <1>3, <1>4 DEF Moves

(* What going on means, for a completion. *)
LEMMA ProceedMoves ==
    ASSUME AttachmentsInv, NEW e \in Editors, editors[e].op = "complete",
           NEW stage \in {"publish", "finish", "unpublish", "wipe"}, Proceed(e, stage),
           stage = "finish" /\ editors[e].id = sweep.orphan => sweep.orphan \in forfeited'
    PROVE  /\ Moves(e) /\ editors'[e].op = "complete" /\ editors'[e].id = editors[e].id /\ editors'[e].stage = stage
           /\ \A f \in Editors \ {e} : editors'[f] = editors[f]
  <1>1. editors \in [Editors -> EditorType] /\ editors[e] \in Completing
    BY EditorKinds DEF AttachmentsInv, AttachmentsTypeOK
  <1> DEFINE w == [editors[e] EXCEPT !.stage = stage]
  <1>2. w \in EditorType /\ w.op = "complete" /\ w.id = editors[e].id /\ w.stage = stage
    BY <1>1 DEF EditorType, Completing
  <1>3. editors' = [editors EXCEPT ![e] = w]
    BY DEF Proceed
  <1> HIDE DEF w
  <1> QED BY <1>1, <1>2, <1>3 DEF Moves

LEMMA RecordSafe ==
    ASSUME AttachmentsInv, NEW e \in Editors, RecordKnowledgeAttachmentChunk(e) PROVE AttachmentsInv'
  <1>1. editors[e] \in EditorType /\ editors[e].op = "chunk" /\ Relies(editors[e], sessions, objects, docs, forfeited)
    BY DEF AttachmentsInv, AttachmentsTypeOK, Hands, RecordKnowledgeAttachmentChunk, At
  <1> PICK id \in Ids : id = editors[e].id
    BY <1>1, EditorKinds DEF Chunking
  <1> PICK i \in Parts : i = editors[e].part
    BY <1>1, EditorKinds DEF Chunking
  <1>2. sessions[id].status \in {"initialized", "uploading", "expired"} /\ sessions[id] \in SessionType /\ sessions \in [Ids -> SessionType]
    BY <1>1 DEF Relies, AttachmentsInv, AttachmentsTypeOK
  <1>3. parts' \in [Ids -> SUBSET Parts]
    BY DEF RecordKnowledgeAttachmentChunk, AttachmentsInv, AttachmentsTypeOK
  <1>4. UNCHANGED <<quota, objects, docs, articles, sweep, overdue, forfeited>> /\ Leave(e)
    BY DEF RecordKnowledgeAttachmentChunk, Ghosts
  <1>5. /\ sessions' \in [Ids -> SessionType] /\ \A j \in Ids \ {id} : sessions'[j] = sessions[j]
        /\ sessions'[id].status \in Unfinished => sessions[id].status \in Unfinished
        /\ sessions'[id].lapsed = sessions[id].lapsed
    <2> DEFINE t == [sessions[id] EXCEPT !.recorded = @ \cup {i}, !.status = "uploading"]
    <2>1. t \in SessionType /\ t.status = "uploading" /\ t.lapsed = sessions[id].lapsed
      BY <1>2 DEF SessionType
    <2>2. (sessions' = [sessions EXCEPT ![id] = t] /\ sessions[id].status \in {"initialized", "uploading"}) \/ UNCHANGED sessions
      BY <1>2 DEF RecordKnowledgeAttachmentChunk, SessionType
    <2> HIDE DEF t
    <2> QED BY <1>2, <2>1, <2>2 DEF Unfinished
  <1>6. sessions[id].status \notin {"none", "completed"}
    BY <1>2
  <1>7. Moves(e) /\ Relies(editors'[e], sessions', objects', docs', forfeited')
    BY <1>4, LeaveMoves
  <1> QED BY <1>1, <1>2, <1>3, <1>4, <1>5, <1>6, <1>7, OneUpload

(* A request that goes on, or leaves, and touches at most the chunks. *)
LEMMA OneMove ==
    ASSUME AttachmentsInv, NEW e \in Editors, Moves(e), Relies(editors'[e], sessions', objects', docs', forfeited'),
           UNCHANGED <<quota, sessions, objects, docs, articles, sweep, overdue, forfeited>>,
           parts' \in [Ids -> SUBSET Parts], editors[e].op # "drop"
    PROVE  AttachmentsInv'
  <1>1. Locks' /\ AttachmentsTypeOK'
    BY OneEditor DEF Moves, AttachmentsInv, AttachmentsTypeOK
  <1>2. Hands'
    BY DEF AttachmentsInv, Hands, Moves
  <1>3. RowsGood' /\ SweepGood' /\ Counted'
    BY DEF AttachmentsInv, RowsGood, SweepGood, Counted, Used, Held
  <1>4. FilesKept'
    <2>1. \A i \in Ids : Dropped(i) => Dropped(i)'
      BY DEF Dropped, Moves
    <2> QED BY <2>1 DEF AttachmentsInv, FilesKept
  <1>5. OrphanGood'
    BY OneOrphan
  <1> QED BY <1>1, <1>2, <1>3, <1>4, <1>5 DEF AttachmentsInv

LEMMA CompleteSafe ==
    ASSUME AttachmentsInv, NEW e \in Editors, NEW id \in Ids, Complete(e, id) PROVE AttachmentsInv'
  <1>1. lock(id) /\ editors[e].op = "none" /\ sessions[id].status \in {"uploading", "completing"}
    BY DEF Complete, Enter, Calm, BeginKnowledgeAttachmentCompletion
  <1> DEFINE w == [op |-> "complete", id |-> id, stage |-> "assemble"]
  <1>2. w \in EditorType /\ w.id = id /\ w.op = "complete" /\ w.stage = "assemble"
    BY DEF EditorType, Completing
  <1>3. editors' = [editors EXCEPT ![e] = w]
    BY DEF Complete, Enter
  <1> HIDE DEF w
  <1>4. UNCHANGED <<quota, parts, objects, docs, articles, sweep, overdue, forfeited>>
    BY DEF Complete, Ghosts
  <1>5. /\ sessions' \in [Ids -> SessionType] /\ \A j \in Ids \ {id} : sessions'[j] = sessions[j]
        /\ sessions'[id].status = "completing" /\ sessions'[id].lapsed = sessions[id].lapsed
    <2>1. sessions \in [Ids -> SessionType]
      BY DEF AttachmentsInv, AttachmentsTypeOK
    <2> DEFINE t == [sessions[id] EXCEPT !.status = "completing"]
    <2>2. t \in SessionType /\ t.status = "completing" /\ t.lapsed = sessions[id].lapsed
      BY <2>1 DEF SessionType
    <2>3. sessions' = [sessions EXCEPT ![id] = t] \/ (UNCHANGED sessions /\ sessions[id].status = "completing")
      BY <2>1 DEF Complete, BeginKnowledgeAttachmentCompletion
    <2> HIDE DEF t
    <2> QED BY <2>1, <2>2, <2>3
  <1>6. Moves(e) /\ Relies(editors'[e], sessions', objects', docs', forfeited') /\ parts' \in [Ids -> SUBSET Parts]
    BY <1>1, <1>2, <1>3, <1>4, <1>5 DEF Moves, Relies, AttachmentsInv, AttachmentsTypeOK
  <1>7. sessions[id].status \in Unfinished /\ sessions[id].status \notin {"none", "completed"}
    BY <1>1 DEF Unfinished
  <1> QED BY <1>1, <1>4, <1>5, <1>6, <1>7, OneUpload

(* A completion that is not over has its upload marked. *)
LEMMA Marked ==
    ASSUME AttachmentsInv, NEW e \in Editors, editors[e].op = "complete", editors[e].stage # "wipe"
    PROVE  editors[e].id \in Ids /\ sessions[editors[e].id].status = "completing" /\ docs[editors[e].id].state = "none"
  <1>1. editors[e] \in EditorType /\ Relies(editors[e], sessions, objects, docs, forfeited)
    BY DEF AttachmentsInv, AttachmentsTypeOK, Hands
  <1>2. editors[e].id \in Ids /\ sessions[editors[e].id].status = "completing"
    BY <1>1, EditorKinds DEF Relies
  <1> QED BY <1>2 DEF AttachmentsInv, RowsGood, Unfinished

LEMMA ResetUpload ==
    ASSUME AttachmentsInv, NEW id \in Ids, sessions[id].status = "completing", ResetKnowledgeAttachmentUpload(id)
    PROVE  /\ sessions' \in [Ids -> SessionType] /\ \A j \in Ids \ {id} : sessions'[j] = sessions[j]
           /\ sessions'[id].status = "initialized" /\ sessions'[id].lapsed = sessions[id].lapsed
  <1>1. sessions \in [Ids -> SessionType]
    BY DEF AttachmentsInv, AttachmentsTypeOK
  <1> DEFINE t == [sessions[id] EXCEPT !.recorded = {}, !.status = "initialized"]
  <1>2. t \in SessionType /\ t.status = "initialized" /\ t.lapsed = sessions[id].lapsed
    BY <1>1 DEF SessionType
  <1>3. sessions' = [sessions EXCEPT ![id] = t]
    BY <1>1 DEF ResetKnowledgeAttachmentUpload, SessionType
  <1> HIDE DEF t
  <1> QED BY <1>1, <1>2, <1>3

LEMMA FailSafe ==
    ASSUME AttachmentsInv, NEW e \in Editors, failCompletion(e) PROVE AttachmentsInv'
  <1>1. editors[e].op = "complete" /\ editors[e].stage # "wipe"
    BY DEF failCompletion
  <1> PICK id \in Ids : id = editors[e].id
    BY <1>1, Marked
  <1>2. sessions[id].status = "completing" /\ sessions[id].status \in Unfinished
    BY <1>1, Marked DEF Unfinished
  <1>3. /\ UNCHANGED <<quota, parts, objects, docs, articles, sweep, overdue, forfeited>> /\ Leave(e)
        /\ ResetKnowledgeAttachmentUpload(id)
    BY DEF failCompletion, Ghosts
  <1>4. /\ sessions' \in [Ids -> SessionType] /\ \A j \in Ids \ {id} : sessions'[j] = sessions[j]
        /\ sessions'[id].status = "initialized" /\ sessions'[id].lapsed = sessions[id].lapsed
    BY <1>2, <1>3, ResetUpload
  <1>5. Moves(e) /\ Relies(editors'[e], sessions', objects', docs', forfeited') /\ parts' \in [Ids -> SUBSET Parts]
    BY <1>3, LeaveMoves DEF AttachmentsInv, AttachmentsTypeOK
  <1> QED BY <1>1, <1>2, <1>3, <1>4, <1>5, OneUpload

LEMMA AssembleSafe ==
    ASSUME AttachmentsInv, NEW e \in Editors, Assemble(e) PROVE AttachmentsInv'
  <1>1. editors[e].op = "complete" /\ editors[e].stage # "wipe"
    BY DEF Assemble, At
  <1> PICK id \in Ids : id = editors[e].id
    BY <1>1, Marked
  <1>2. sessions[id].status = "completing" /\ sessions[id].status \in Unfinished
    BY <1>1, Marked DEF Unfinished
  <1>3. UNCHANGED <<quota, parts, objects, docs, articles, sweep, overdue, forfeited>> /\ parts' \in [Ids -> SUBSET Parts]
    BY DEF Assemble, Ghosts, AttachmentsInv, AttachmentsTypeOK
  <1>4. CASE sessions[id].sound
    <2>1. Proceed(e, "publish") /\ UNCHANGED sessions
      BY <1>4 DEF Assemble
    <2>2. Moves(e) /\ editors'[e].op = "complete" /\ editors'[e].id = id /\ editors'[e].stage = "publish"
      BY <1>1, <2>1, ProceedMoves
    <2>3. Relies(editors'[e], sessions', objects', docs', forfeited')
      BY <1>2, <2>1, <2>2 DEF Relies
    <2> QED BY <1>1, <1>3, <2>1, <2>2, <2>3, OneMove
  <1>5. CASE ~sessions[id].sound
    <2>1. Proceed(e, "wipe") /\ ResetKnowledgeAttachmentUpload(id)
      BY <1>5 DEF Assemble
    <2>2. Moves(e) /\ editors'[e].op = "complete" /\ editors'[e].id = id /\ editors'[e].stage = "wipe"
      BY <1>1, <2>1, ProceedMoves
    <2>3. Relies(editors'[e], sessions', objects', docs', forfeited')
      BY <2>2 DEF Relies
    <2>4. /\ sessions' \in [Ids -> SessionType] /\ \A j \in Ids \ {id} : sessions'[j] = sessions[j]
          /\ sessions'[id].status = "initialized" /\ sessions'[id].lapsed = sessions[id].lapsed
      BY <1>2, <2>1, ResetUpload
    <2> QED BY <1>1, <1>2, <1>3, <2>2, <2>3, <2>4, OneUpload
  <1> QED BY <1>4, <1>5

LEMMA WipeSafe ==
    ASSUME AttachmentsInv, NEW e \in Editors, Wipe(e) PROVE AttachmentsInv'
  <1>1. /\ UNCHANGED <<quota, sessions, objects, docs, articles, sweep, overdue, forfeited>> /\ Leave(e)
        /\ editors[e].op = "complete" /\ parts' \in [Ids -> SUBSET Parts]
    BY DEF Wipe, Ghosts, At, AttachmentsInv, AttachmentsTypeOK
  <1> QED BY <1>1, LeaveMoves, OneMove

LEMMA CancelSafe ==
    ASSUME AttachmentsInv, NEW e \in Editors, NEW id \in Ids, Cancel(e, id) PROVE AttachmentsInv'
  <1>1. lock(id) /\ editors[e].op = "none" /\ sessions[id].status \in {"initialized", "uploading", "expired"}
    BY DEF Cancel, Calm
  <1> DEFINE w == [op |-> "cancel", id |-> id, stage |-> "delete", kept |-> parts[id]]
  <1>2. w \in EditorType /\ w.id = id /\ w.op = "cancel"
    BY DEF EditorType, Cancelling, AttachmentsInv, AttachmentsTypeOK
  <1>3. editors' = [editors EXCEPT ![e] = w]
    BY DEF Cancel
  <1> HIDE DEF w
  <1>4. UNCHANGED <<quota, sessions, objects, docs, articles, sweep, overdue, forfeited>> /\ parts' \in [Ids -> SUBSET Parts]
    BY DEF Cancel, Ghosts, AttachmentsInv, AttachmentsTypeOK
  <1>5. Moves(e) /\ Relies(editors'[e], sessions', objects', docs', forfeited')
    BY <1>1, <1>2, <1>3, <1>4 DEF Moves, Relies, AttachmentsInv, AttachmentsTypeOK
  <1> QED BY <1>1, <1>4, <1>5, OneMove

LEMMA EndedGone == Ended("gone") \in SessionType /\ Ended("gone").status = "gone"
  BY DEF Ended, NoSession, SessionType

LEMMA CancelledSafe ==
    ASSUME AttachmentsInv, NEW e \in Editors, CancelKnowledgeAttachmentUpload(e) PROVE AttachmentsInv'
  <1>1. editors[e] \in EditorType /\ editors[e].op = "cancel" /\ Relies(editors[e], sessions, objects, docs, forfeited)
    BY DEF AttachmentsInv, AttachmentsTypeOK, Hands, CancelKnowledgeAttachmentUpload, At
  <1> PICK id \in Ids : id = editors[e].id
    BY <1>1, EditorKinds
  <1>2. sessions[id].status \in {"initialized", "uploading", "expired"} /\ editors[e].kept \in SUBSET Parts
    BY <1>1, EditorKinds DEF Relies, Cancelling
  <1>3. /\ UNCHANGED <<quota, objects, docs, articles, sweep, overdue, forfeited>> /\ Leave(e)
        /\ parts' \in [Ids -> SUBSET Parts]
    BY <1>2 DEF CancelKnowledgeAttachmentUpload, Ghosts, AttachmentsInv, AttachmentsTypeOK
  <1>4. Moves(e) /\ Relies(editors'[e], sessions', objects', docs', forfeited')
    BY <1>3, LeaveMoves
  <1>5. CASE UNCHANGED sessions
    BY <1>1, <1>3, <1>4, <1>5, OneMove
  <1>6. CASE sessions' = [sessions EXCEPT ![id] = Ended("gone")]
    <2>1. sessions' \in [Ids -> SessionType] /\ sessions'[id].status = "gone" /\ \A j \in Ids \ {id} : sessions'[j] = sessions[j]
      BY <1>6, EndedGone DEF AttachmentsInv, AttachmentsTypeOK
    <2>2. sessions'[id].status \notin Unfinished
      BY <2>1 DEF Unfinished
    <2> QED BY <1>1, <1>2, <1>3, <1>4, <2>1, <2>2, OneUpload
  <1> QED BY <1>5, <1>6 DEF CancelKnowledgeAttachmentUpload

(* A request that only touches the file of its id, and has a row without one only if it has to. *)
LEMMA OneFile ==
    ASSUME AttachmentsInv, NEW e \in Editors, NEW id \in Ids, Moves(e), Relies(editors'[e], sessions', objects', docs', forfeited'),
           UNCHANGED <<quota, sessions, parts, docs, articles, sweep, overdue>>,
           forfeited' \in SUBSET Ids, forfeited \subseteq forfeited',
           objects' \in [Ids -> {"none", "new", "old"}], \A i \in Ids \ {id} : objects'[i] = objects[i],
           editors[e].id = id \/ lock(id), docs[id].state # "none" \/ sessions[id] # NoSession,
           docs[id].state = "none" \/ Dropped(id)' \/ objects'[id] # "none" \/ id \in forfeited,
           editors[e].op = "drop" => editors[e].id = id
    PROVE  AttachmentsInv'
  <1>1. Locks' /\ AttachmentsTypeOK'
    BY OneEditor DEF Moves, AttachmentsInv, AttachmentsTypeOK
  <1>2. Hands'
    BY OneHand
  <1>3. RowsGood' /\ SweepGood' /\ Counted'
    BY DEF AttachmentsInv, RowsGood, SweepGood, Counted, Used, Held
  <1>4. FilesKept'
    <2>1. \A i \in Ids \ {id} : Dropped(i) => Dropped(i)'
      BY DEF Dropped, Moves
    <2> QED BY <2>1 DEF AttachmentsInv, FilesKept
  <1>5. OrphanGood'
    BY OneOrphan
  <1> QED BY <1>1, <1>2, <1>3, <1>4, <1>5 DEF AttachmentsInv

LEMMA PublishSafe ==
    ASSUME AttachmentsInv, NEW e \in Editors, Publish(e) PROVE AttachmentsInv'
  <1>1. editors[e].op = "complete" /\ editors[e].stage # "wipe"
    BY DEF Publish, At
  <1> PICK id \in Ids : id = editors[e].id
    BY <1>1, Marked
  <1>2. sessions[id].status = "completing" /\ docs[id].state = "none" /\ sessions[id] # NoSession
    BY <1>1, Marked DEF NoSession
  <1>3. /\ UNCHANGED <<quota, sessions, parts, docs, articles, sweep, overdue>> /\ Proceed(e, "finish")
        /\ objects' = [objects EXCEPT ![id] = "new"]
        /\ forfeited' = IF sweep.orphan = id THEN forfeited \cup {id} ELSE forfeited
    BY DEF Publish
  <1>f. forfeited' \in SUBSET Ids /\ forfeited \subseteq forfeited'
    BY <1>3 DEF AttachmentsInv, AttachmentsTypeOK
  <1>4. Moves(e) /\ editors'[e].op = "complete" /\ editors'[e].id = id /\ editors'[e].stage = "finish"
    BY <1>1, <1>3, ProceedMoves
  <1>5. /\ objects' \in [Ids -> {"none", "new", "old"}] /\ objects'[id] = "new"
        /\ \A i \in Ids \ {id} : objects'[i] = objects[i]
    BY <1>3 DEF AttachmentsInv, AttachmentsTypeOK
  <1>6. Relies(editors'[e], sessions', objects', docs', forfeited')
    BY <1>2, <1>3, <1>4, <1>5 DEF Relies
  <1> QED BY <1>1, <1>2, <1>3, <1>f, <1>4, <1>5, <1>6, OneFile

(* The upload is over and its row is there: the reservation becomes use, or is overdue. *)
LEMMA FinishSafe ==
    ASSUME AttachmentsInv, NEW e \in Editors, FinishKnowledgeAttachmentUpload(e) PROVE AttachmentsInv'
  <1>1. editors[e].op = "complete" /\ editors[e].stage = "finish"
    BY DEF FinishKnowledgeAttachmentUpload, At
  <1> PICK id \in Ids : id = editors[e].id
    BY <1>1, Marked
  <1>2. sessions[id].status = "completing" /\ docs[id].state = "none" /\ sessions[id] # NoSession
    BY <1>1, Marked DEF NoSession
  <1>t. AttachmentsTypeOK /\ (id = sweep.orphan => id \in forfeited)
    BY <1>1 DEF AttachmentsInv, OrphanGood
  <1>3. UNCHANGED <<quota, parts, articles, sweep, forfeited>>
    BY DEF FinishKnowledgeAttachmentUpload
  <1>4. CASE UNCHANGED <<sessions, docs, overdue>> /\ Proceed(e, "unpublish") /\ objects' = [objects EXCEPT ![id] = "none"]
    <2>1. Moves(e) /\ editors'[e].op = "complete" /\ editors'[e].id = id /\ editors'[e].stage = "unpublish"
      BY <1>1, <1>4, ProceedMoves
    <2>2. objects' \in [Ids -> {"none", "new", "old"}] /\ \A i \in Ids \ {id} : objects'[i] = objects[i]
      BY <1>4, <1>t DEF AttachmentsTypeOK
    <2>3. Relies(editors'[e], sessions', objects', docs', forfeited')
      BY <1>2, <1>4, <2>1 DEF Relies
    <2>4. forfeited' \in SUBSET Ids /\ forfeited \subseteq forfeited'
      BY <1>3, <1>t DEF AttachmentsTypeOK
    <2> QED BY <1>1, <1>2, <1>3, <1>4, <2>1, <2>2, <2>3, <2>4, OneFile
  <1>5. CASE /\ sessions' = [sessions EXCEPT ![id] = Ended("completed")] /\ docs' = [docs EXCEPT ![id] = Draft]
             /\ overdue' = IF sessions[id].lapsed THEN overdue \cup {id} ELSE overdue
             /\ Proceed(e, "wipe") /\ UNCHANGED objects
    <2>1. Moves(e) /\ editors'[e].op = "complete" /\ editors'[e].id = id /\ editors'[e].stage = "wipe"
      BY <1>1, <1>5, ProceedMoves
    <2>2. Ended("completed") \in SessionType /\ Ended("completed").status = "completed"
      BY DEF Ended, NoSession, SessionType
    <2>3. Draft \in DocType /\ Draft.state = "live" /\ ~Draft.ripe
      BY NoRows DEF Draft, NoDoc
    <2>4. /\ sessions' \in [Ids -> SessionType] /\ sessions'[id].status = "completed"
          /\ docs' \in [Ids -> DocType] /\ docs'[id].state = "live" /\ ~docs'[id].ripe
          /\ \A i \in Ids \ {id} : sessions'[i] = sessions[i] /\ docs'[i] = docs[i] /\ objects'[i] = objects[i]
      BY <1>5, <1>t, <2>2, <2>3 DEF AttachmentsTypeOK
    <2>5. Locks' /\ AttachmentsTypeOK'
      BY <1>3, <1>5, <1>t, <2>1, <2>4, OneEditor DEF Moves, AttachmentsTypeOK
    <2>6. Hands'
      <3>1. Relies(editors'[e], sessions', objects', docs', forfeited')
        BY <2>1 DEF Relies
      <3> QED BY <1>2, <1>3, <2>1, <2>4, <3>1, OneHand
    <2>7. RowsGood'
      BY <2>4 DEF AttachmentsInv, RowsGood, Unfinished
    <2>8. FilesKept'
      <3>1. \A i \in Ids \ {id} : Dropped(i) => Dropped(i)'
        BY <1>1, <2>1 DEF Dropped, Moves
      <3>2. objects[id] = "new" \/ id \in forfeited
        BY <1>1 DEF AttachmentsInv, Hands, Relies
      <3> QED BY <1>3, <1>5, <2>4, <3>1, <3>2 DEF AttachmentsInv, FilesKept
    <2>9. SweepGood'
      <3>1. sweep.stage = "purge" => id \notin sweep.todo
        BY <1>2 DEF AttachmentsInv, SweepGood, RowsGood, NoDoc
      <3>2. SweepGood /\ sweep' = sweep /\ sweep \in SweepType /\ forfeited' = forfeited
        BY <1>3, <1>t DEF AttachmentsInv, AttachmentsTypeOK
      <3> QED BY <2>4, <3>1, <3>2 DEF SweepGood, SweepType
    <2>10. Counted'
      <3>1. Used' = Used \cup {id} /\ id \notin Used /\ Held' = Held \ {id} /\ (id \in Held <=> ~sessions[id].lapsed)
        BY <1>2, <2>4 DEF Used, Held, Unfinished
      <3>2. id \notin overdue /\ \A i \in overdue' : sessions'[i].status = "completed"
        BY <1>2, <1>5, <1>t, <2>4 DEF AttachmentsInv, Counted, AttachmentsTypeOK
      <3>3. Used \in SUBSET Ids /\ Held \in SUBSET Ids /\ overdue \in SUBSET Ids /\ quota \in Nat /\ quota' = quota
        BY <1>3, <1>t DEF Used, Held, AttachmentsTypeOK
      <3>4. IsFiniteSet(Used) /\ IsFiniteSet(Held) /\ IsFiniteSet(overdue)
        BY <3>3, Finite
      <3>5. Cardinality(Used) \in Nat /\ Cardinality(Held) \in Nat /\ Cardinality(overdue) \in Nat
        BY <3>3, Finite
      <3>6. Cardinality(Used') = Cardinality(Used) + 1
        BY <3>1, <3>4, FS_AddElement
      <3>7. Cardinality(Held') = IF id \in Held THEN Cardinality(Held) - 1 ELSE Cardinality(Held)
        BY <3>1, <3>4, FS_RemoveElement
      <3>8. Cardinality(overdue \cup {id}) = Cardinality(overdue) + 1
        BY <3>2, <3>4, FS_AddElement
      <3>9. Cardinality(Used) + Cardinality(Held) <= quota + Cardinality(overdue)
        BY DEF AttachmentsInv, Counted
      <3>10. CASE sessions[id].lapsed
        <4>1. overdue' = overdue \cup {id} /\ Cardinality(Held') = Cardinality(Held)
          BY <1>5, <3>1, <3>7, <3>10
        <4> QED BY <3>2, <3>3, <3>5, <3>6, <3>8, <3>9, <4>1 DEF Counted
      <3>11. CASE ~sessions[id].lapsed
        <4>1. overdue' = overdue /\ Cardinality(Held') = Cardinality(Held) - 1
          BY <1>5, <3>1, <3>7, <3>11
        <4> QED BY <3>2, <3>3, <3>5, <3>6, <3>9, <4>1 DEF Counted
      <3> QED BY <3>10, <3>11
    <2>11. OrphanGood'
      BY <1>3, <1>t, <2>1, <2>4, OneOrphan
    <2> QED BY <2>5, <2>6, <2>7, <2>8, <2>9, <2>10, <2>11 DEF AttachmentsInv
  <1> QED BY <1>4, <1>5 DEF FinishKnowledgeAttachmentUpload

LEMMA DropSafe ==
    ASSUME AttachmentsInv, NEW e \in Editors, NEW id \in Ids, DropDraft(e, id) PROVE AttachmentsInv'
  <1>1. lock(id) /\ editors[e].op = "none" /\ docs[id].state = "live" /\ objects[id] # "none"
    BY DEF DropDraft, Calm, GetDraftKnowledgeAttachment, Live
  <1> DEFINE w == [op |-> "drop", id |-> id, stage |-> "delete", kept |-> objects[id]]
  <1>2. w \in EditorType /\ w.id = id /\ w.op = "drop" /\ w.kept # "none"
    BY <1>1 DEF EditorType, Dropping, AttachmentsInv, AttachmentsTypeOK
  <1>3. editors' = [editors EXCEPT ![e] = w] /\ objects' = [objects EXCEPT ![id] = "none"]
    BY DEF DropDraft
  <1> HIDE DEF w
  <1>4. UNCHANGED <<quota, sessions, parts, docs, articles, sweep, overdue, forfeited>>
    BY DEF DropDraft, Ghosts
  <1>5. Moves(e) /\ Relies(editors'[e], sessions', objects', docs', forfeited') /\ editors'[e] = w
    BY <1>1, <1>2, <1>3, <1>4 DEF Moves, Relies, AttachmentsInv, AttachmentsTypeOK
  <1>6. Dropped(id)'
    BY <1>2, <1>5 DEF Dropped
  <1>7. objects' \in [Ids -> {"none", "new", "old"}] /\ \A i \in Ids \ {id} : objects'[i] = objects[i]
    BY <1>3 DEF AttachmentsInv, AttachmentsTypeOK
  <1>8. forfeited' \in SUBSET Ids /\ forfeited \subseteq forfeited'
    BY <1>4 DEF AttachmentsInv, AttachmentsTypeOK
  <1> QED BY <1>1, <1>4, <1>5, <1>6, <1>7, <1>8, OneFile

(* A draft that is gone is in nobody's hands and on nobody's list. *)
LEMMA DeleteDraftSafe ==
    ASSUME AttachmentsInv, NEW e \in Editors, DeleteDraftKnowledgeAttachment(e) PROVE AttachmentsInv'
  <1>1. editors[e] \in EditorType /\ editors[e].op = "drop" /\ Relies(editors[e], sessions, objects, docs, forfeited)
    BY DEF AttachmentsInv, AttachmentsTypeOK, Hands, DeleteDraftKnowledgeAttachment, At
  <1> PICK id \in Ids : id = editors[e].id
    BY <1>1, EditorKinds
  <1>2. docs[id].state # "none" /\ editors[e].kept \in {"none", "new", "old"} /\ (editors[e].kept = "none" => id \in forfeited)
    BY <1>1, EditorKinds DEF Relies, Dropping
  <1>3. UNCHANGED <<quota, sessions, parts, articles, sweep, overdue, forfeited>> /\ Leave(e)
    BY DEF DeleteDraftKnowledgeAttachment, Ghosts
  <1>4. /\ Moves(e) /\ Relies(editors'[e], sessions', objects', docs', forfeited') /\ editors'[e] = Calm
        /\ \A f \in Editors \ {e} : editors'[f] = editors[f]
    BY <1>3, LeaveMoves
  <1>5. CASE objects' = [objects EXCEPT ![id] = editors[e].kept] /\ UNCHANGED docs
    <2>1. /\ objects' \in [Ids -> {"none", "new", "old"}] /\ \A i \in Ids \ {id} : objects'[i] = objects[i]
          /\ objects'[id] # "none" \/ id \in forfeited
          /\ forfeited' \in SUBSET Ids /\ forfeited \subseteq forfeited'
      BY <1>2, <1>3, <1>5 DEF AttachmentsInv, AttachmentsTypeOK
    <2> QED BY <1>1, <1>2, <1>3, <1>4, <1>5, <2>1, OneFile
  <1>6. CASE GetDraftKnowledgeAttachment(id) /\ docs' = [docs EXCEPT ![id] = NoDoc] /\ UNCHANGED objects
    <2>0. NoDoc \in DocType /\ NoDoc.state = "none" /\ ~NoDoc.ripe
      BY NoRows DEF NoDoc
    <2>1. docs' \in [Ids -> DocType] /\ docs'[id] = NoDoc /\ \A i \in Ids \ {id} : docs'[i] = docs[i]
      BY <1>6, <2>0 DEF AttachmentsInv, AttachmentsTypeOK
    <2>2. Locks' /\ AttachmentsTypeOK'
      BY <1>3, <1>4, <1>6, <2>1, OneEditor DEF Moves, AttachmentsInv, AttachmentsTypeOK
    <2>3. Hands'
      BY <1>2, <1>3, <1>4, <1>6, <2>1, OneHand
    <2>4. RowsGood'
      BY <1>3, <2>0, <2>1 DEF AttachmentsInv, RowsGood
    <2>5. FilesKept'
      <3>1. \A i \in Ids \ {id} : Dropped(i) => Dropped(i)'
        BY <1>4 DEF Dropped
      <3> QED BY <1>3, <1>6, <2>0, <2>1, <3>1 DEF AttachmentsInv, FilesKept
    <2>6. SweepGood'
      <3>1. sweep.stage = "purge" => id \notin sweep.todo
        BY <1>6 DEF AttachmentsInv, SweepGood, GetDraftKnowledgeAttachment, Live
      <3>2. SweepGood /\ sweep \in SweepType
        BY DEF AttachmentsInv, AttachmentsTypeOK
      <3> QED BY <1>3, <2>1, <3>1, <3>2 DEF SweepGood, SweepType
    <2>7. Used' \subseteq Used /\ Held' \subseteq Held
      BY <1>2, <1>3, <2>1 DEF Used, Held
    <2>8. Counted'
      BY <1>3, <2>7, CountsDown DEF AttachmentsInv
    <2>9. OrphanGood'
      BY <1>3, <1>4, <2>0, <2>1, OneOrphan
    <2> QED BY <2>2, <2>3, <2>4, <2>5, <2>6, <2>8, <2>9 DEF AttachmentsInv
  <1> QED BY <1>5, <1>6 DEF DeleteDraftKnowledgeAttachment

(* A copy's file is under a new id, and nobody else's. *)
LEMMA CloneSafe ==
    ASSUME AttachmentsInv, NEW e \in Editors, NEW id \in Ids, NEW copy \in Ids, CloneForDraft(e, id, copy) PROVE AttachmentsInv'
  <1>1. /\ lock(id) /\ editors[e].op = "none"
        /\ sessions[copy] = NoSession /\ docs[copy].state = "none" /\ objects[copy] = "none"
        /\ \A f \in Editors : editors[f].op = "clone" => editors[f].copy # copy
        /\ copy # sweep.orphan
    BY DEF CloneForDraft, Unused, Calm, NoDoc
  <1> DEFINE w == [op |-> "clone", id |-> id, stage |-> "insert", copy |-> copy]
  <1>2. w \in EditorType /\ w.id = id /\ w.op = "clone" /\ w.copy = copy
    BY DEF EditorType, Cloning
  <1>3. editors' = [editors EXCEPT ![e] = w] /\ objects' = [objects EXCEPT ![copy] = "new"]
    BY DEF CloneForDraft
  <1> HIDE DEF w
  <1>4. UNCHANGED <<quota, sessions, parts, docs, articles, sweep, overdue, forfeited>>
    BY DEF CloneForDraft, Ghosts
  <1>5. /\ objects' \in [Ids -> {"none", "new", "old"}] /\ objects'[copy] = "new"
        /\ \A i \in Ids \ {copy} : objects'[i] = objects[i]
    BY <1>3 DEF AttachmentsInv, AttachmentsTypeOK
  <1>6. Moves(e) /\ editors'[e] = w
    BY <1>1, <1>2, <1>3, <1>4 DEF Moves, AttachmentsInv, AttachmentsTypeOK
  <1>7. Locks' /\ AttachmentsTypeOK'
    BY <1>4, <1>5, <1>6, OneEditor DEF Moves, AttachmentsInv, AttachmentsTypeOK
  <1>o. OrphanGood'
    BY <1>4, <1>6, OneOrphan
  <1>8. Hands'
    <2> SUFFICES ASSUME NEW f \in Editors PROVE Relies(editors'[f], sessions', objects', docs', forfeited')
      BY DEF Hands
    <2>1. CASE f = e
      BY <1>1, <1>2, <1>4, <1>5, <1>6, <2>1 DEF Relies
    <2>2. CASE f # e
      <3>1. editors'[f] = editors[f] /\ editors[f] \in EditorType /\ Relies(editors[f], sessions, objects, docs, forfeited)
        BY <1>6, <2>2 DEF AttachmentsInv, AttachmentsTypeOK, Hands, Moves
      <3>2. editors[f].op = "complete" /\ editors[f].stage = "finish" => editors[f].id # copy
        BY <1>1, <3>1 DEF Relies, NoSession
      <3> QED BY <1>1, <1>4, <1>5, <3>1, <3>2, EditorKinds DEF Relies, Cloning
    <2> QED BY <2>1, <2>2
  <1>9. RowsGood' /\ SweepGood' /\ Counted'
    BY <1>4 DEF AttachmentsInv, RowsGood, SweepGood, Counted, Used, Held
  <1>10. FilesKept'
    <2>1. \A i \in Ids : Dropped(i) => Dropped(i)'
      BY <1>1, <1>6 DEF Dropped, Moves
    <2> QED BY <1>4, <1>5, <2>1 DEF AttachmentsInv, FilesKept
  <1> QED BY <1>o, <1>7, <1>8, <1>9, <1>10 DEF AttachmentsInv

LEMMA ClonedSafe ==
    ASSUME AttachmentsInv, NEW e \in Editors, CreateClonedKnowledgeAttachments(e) PROVE AttachmentsInv'
  <1>1. editors[e] \in EditorType /\ editors[e].op = "clone" /\ Relies(editors[e], sessions, objects, docs, forfeited)
    BY DEF AttachmentsInv, AttachmentsTypeOK, Hands, CreateClonedKnowledgeAttachments, At
  <1> PICK copy \in Ids : copy = editors[e].copy
    BY <1>1, EditorKinds DEF Cloning
  <1>2. sessions[copy] = NoSession /\ docs[copy].state = "none" /\ objects[copy] = "new"
    BY <1>1 DEF Relies
  <1>3. UNCHANGED <<quota, sessions, parts, articles, sweep, overdue, forfeited>> /\ Leave(e)
    BY DEF CreateClonedKnowledgeAttachments, Ghosts
  <1>4. /\ Moves(e) /\ Relies(editors'[e], sessions', objects', docs', forfeited') /\ editors'[e] = Calm
        /\ \A f \in Editors \ {e} : editors'[f] = editors[f]
    BY <1>3, LeaveMoves
  <1>5. \/ /\ KnowledgeAttachmentUsage < quota /\ docs' = [docs EXCEPT ![copy] = Draft] /\ UNCHANGED objects
        \/ objects' = [objects EXCEPT ![copy] = "none"] /\ UNCHANGED docs
    BY DEF CreateClonedKnowledgeAttachments
  <1>6. Draft \in DocType /\ Draft.state = "live" /\ ~Draft.ripe
    BY NoRows DEF Draft, NoDoc
  <1>7. /\ docs' \in [Ids -> DocType] /\ docs'[copy].state \in {"none", "live"}
        /\ docs'[copy].state = "none" => docs'[copy] = docs[copy]
        /\ docs'[copy].state = "live" => ~docs'[copy].ripe /\ objects'[copy] = "new"
        /\ objects' \in [Ids -> {"none", "new", "old"}]
        /\ \A i \in Ids \ {copy} : docs'[i] = docs[i] /\ objects'[i] = objects[i]
    BY <1>2, <1>5, <1>6 DEF AttachmentsInv, AttachmentsTypeOK
  <1>8. Locks' /\ AttachmentsTypeOK'
    BY <1>3, <1>4, <1>7, OneEditor DEF Moves, AttachmentsInv, AttachmentsTypeOK
  <1>o. OrphanGood'
    <2>1. copy # sweep.orphan
      BY <1>1 DEF AttachmentsInv, OrphanGood
    <2> QED BY <1>3, <1>4, <1>7, <2>1, OneOrphan
  <1>9. Hands'
    <2> SUFFICES ASSUME NEW f \in Editors \ {e} PROVE Relies(editors'[f], sessions', objects', docs', forfeited')
      BY <1>4 DEF Hands
    <2>1. editors'[f] = editors[f] /\ editors[f] \in EditorType /\ Relies(editors[f], sessions, objects, docs, forfeited)
      BY <1>4 DEF AttachmentsInv, AttachmentsTypeOK, Hands
    <2>2. editors[f].op = "clone" => editors[f].copy # copy
      BY <1>1 DEF AttachmentsInv, Locks
    <2>3. editors[f].op = "complete" /\ editors[f].stage = "finish" => editors[f].id # copy
      BY <1>2, <2>1 DEF Relies, NoSession
    <2>4. editors[f].op = "drop" => editors[f].id # copy
      BY <1>2, <2>1 DEF Relies
    <2> QED BY <1>3, <1>7, <2>1, <2>2, <2>3, <2>4, EditorKinds DEF Relies, Cloning
  <1>10. RowsGood'
    BY <1>2, <1>3, <1>7 DEF AttachmentsInv, RowsGood, NoSession, Unfinished
  <1>11. FilesKept'
    <2>1. \A i \in Ids : Dropped(i) => Dropped(i)'
      BY <1>1, <1>4 DEF Dropped
    <2> QED BY <1>3, <1>7, <2>1 DEF AttachmentsInv, FilesKept
  <1>12. SweepGood'
    <2>1. sweep.stage = "purge" => copy \notin sweep.todo
      BY <1>2 DEF AttachmentsInv, SweepGood, RowsGood, NoDoc
    <2>2. SweepGood /\ sweep \in SweepType
      BY DEF AttachmentsInv, AttachmentsTypeOK
    <2> QED BY <1>3, <1>7, <2>1, <2>2 DEF SweepGood, SweepType
  <1>13. Counted'
    <2>1. CASE UNCHANGED docs
      BY <1>3, <2>1 DEF AttachmentsInv, Counted, Used, Held
    <2>2. CASE KnowledgeAttachmentUsage < quota /\ docs' = [docs EXCEPT ![copy] = Draft]
      <3>1. docs'[copy].state = "live"
        BY <1>6, <2>2 DEF AttachmentsInv, AttachmentsTypeOK
      <3>2. Used' = Used \cup {copy} /\ copy \notin Used /\ Held' = Held
        BY <1>2, <1>3, <1>7, <3>1 DEF Used, Held
      <3>3. Used \in SUBSET Ids /\ Held \in SUBSET Ids /\ overdue \in SUBSET Ids /\ quota \in Nat
        BY DEF Used, Held, AttachmentsTypeOK, AttachmentsInv
      <3>4. IsFiniteSet(Used)
        BY <3>3, Finite
      <3>5. Cardinality(Used') = Cardinality(Used) + 1
        BY <3>2, <3>4, FS_AddElement
      <3>6. Cardinality(Used) \in Nat /\ Cardinality(Held) \in Nat /\ Cardinality(overdue) \in Nat
        BY <3>3, Finite
      <3>7. Cardinality(Used) + Cardinality(Held) < quota
        BY <2>2 DEF KnowledgeAttachmentUsage, Used, Held
      <3>8. \A i \in overdue : sessions[i].status = "completed"
        BY DEF AttachmentsInv, Counted
      <3> QED BY <1>3, <3>2, <3>3, <3>5, <3>6, <3>7, <3>8 DEF Counted
    <2> QED BY <1>5, <2>1, <2>2
  <1> QED BY <1>o, <1>8, <1>9, <1>10, <1>11, <1>12, <1>13 DEF AttachmentsInv

(* Rows that stay rows, lose their ripeness only as forfeited, and stay off the list of drafts. *)
LEMMA SaveSafe ==
    ASSUME AttachmentsInv, UNCHANGED <<quota, sessions, parts, objects, editors, overdue>>,
           docs' \in [Ids -> DocType], forfeited' \in SUBSET Ids, forfeited \subseteq forfeited',
           sweep' \in SweepType, sweep'.id = sweep.id,
           \A i \in Ids : /\ docs'[i].state = "none" <=> docs[i].state = "none"
                          /\ docs[i].state = "none" => docs'[i] = docs[i]
                          /\ docs'[i].ripe => docs'[i].state = "trash"
                          /\ docs[i].ripe => docs'[i].ripe \/ i \in forfeited',
           SweepGood', OrphanGood'
    PROVE  AttachmentsInv'
  <1>1. AttachmentsTypeOK' /\ Locks'
    BY DEF AttachmentsInv, AttachmentsTypeOK, Locks
  <1>2. Hands'
    <2> SUFFICES ASSUME NEW f \in Editors PROVE Relies(editors'[f], sessions', objects', docs', forfeited')
      BY DEF Hands
    <2>1. editors'[f] = editors[f] /\ editors[f] \in EditorType /\ Relies(editors[f], sessions, objects, docs, forfeited)
      BY DEF AttachmentsInv, AttachmentsTypeOK, Hands
    <2> QED BY <2>1, EditorKinds DEF Relies, Cloning
  <1>3. RowsGood'
    BY DEF AttachmentsInv, RowsGood
  <1>4. FilesKept'
    BY DEF AttachmentsInv, FilesKept, Dropped
  <1>5. Used' = Used /\ Held' = Held
    BY DEF Used, Held
  <1>6. Counted'
    BY <1>5 DEF AttachmentsInv, Counted
  <1> QED BY <1>1, <1>2, <1>3, <1>4, <1>6 DEF AttachmentsInv

(* What saving an article makes of each row. *)
LEMMA Bindings ==
    ASSUME AttachmentsInv, NEW a \in Articles, NEW refs \in SUBSET Ids,
           \A i \in refs : docs[i].state # "none",
           docs' = applyKnowledgeAttachmentBindings(a, refs)
    PROVE  /\ docs' \in [Ids -> DocType]
           /\ \A i \in refs : docs'[i].state = "live" /\ docs'[i].article = a /\ ~docs'[i].ripe
           /\ \A i \in Ids \ refs : \/ docs'[i] = docs[i]
                                    \/ docs[i].state = "live" /\ docs'[i].state = "trash" /\ docs'[i].ripe = docs[i].ripe
  <1>0. docs \in [Ids -> DocType]
    BY DEF AttachmentsInv, AttachmentsTypeOK
  <1> DEFINE d == [Draft EXCEPT !.article = a]
             t(i) == [docs[i] EXCEPT !.state = "trash"]
  <1>1. d \in DocType /\ d.state = "live" /\ d.article = a /\ ~d.ripe
    BY DEF Draft, NoDoc, DocType
  <1>2. \A i \in Ids : t(i) \in DocType /\ t(i).state = "trash" /\ t(i).ripe = docs[i].ripe
    BY <1>0 DEF DocType
  <1>3. docs' = [i \in Ids |-> CASE i \in refs -> d
                                 [] i \notin refs /\ docs[i].article = a /\ Live(i) -> t(i)
                                 [] OTHER -> docs[i]]
    BY DEF applyKnowledgeAttachmentBindings
  <1> HIDE DEF d, t
  <1>4. \A i \in refs : docs'[i] = d
    BY <1>3
  <1>5. \A i \in Ids \ refs : docs'[i] = docs[i] \/ (Live(i) /\ docs'[i] = t(i))
    BY <1>3
  <1>6. docs' \in [Ids -> DocType]
    BY <1>0, <1>1, <1>2, <1>3
  <1> QED BY <1>1, <1>2, <1>4, <1>5, <1>6 DEF Live

LEMMA CreateSafe ==
    ASSUME AttachmentsInv, NEW a \in Articles, NEW refs \in SUBSET Ids, CreateKnowledgeWithAttachments(a, refs) PROVE AttachmentsInv'
  <1>1. \A i \in refs : docs[i].state = "live" /\ docs[i].article = 0
    BY DEF CreateKnowledgeWithAttachments, Live
  <1>2. UNCHANGED <<quota, sessions, parts, objects, editors, sweep, overdue, forfeited>>
    BY DEF CreateKnowledgeWithAttachments, Ghosts
  <1>3. /\ docs' \in [Ids -> DocType]
        /\ \A i \in refs : docs'[i].state = "live" /\ docs'[i].article = a /\ ~docs'[i].ripe
        /\ \A i \in Ids \ refs : \/ docs'[i] = docs[i]
                                 \/ docs[i].state = "live" /\ docs'[i].state = "trash" /\ docs'[i].ripe = docs[i].ripe
    <2>1. docs' = applyKnowledgeAttachmentBindings(a, refs)
      BY DEF CreateKnowledgeWithAttachments
    <2> QED BY <1>1, <2>1, Bindings
  <1>4. RowsGood /\ SweepGood /\ sweep \in SweepType /\ forfeited \in SUBSET Ids
    BY DEF AttachmentsInv, AttachmentsTypeOK
  <1>5. \A i \in Ids : /\ docs'[i].state = "none" <=> docs[i].state = "none"
                       /\ docs[i].state = "none" => docs'[i] = docs[i]
                       /\ docs'[i].ripe => docs'[i].state = "trash"
                       /\ docs[i].ripe => docs'[i].ripe
    BY <1>1, <1>3, <1>4 DEF RowsGood
  <1>6. SweepGood'
    BY <1>1, <1>2, <1>3, <1>4 DEF SweepGood, SweepType, RowsGood
  <1>o. OrphanGood'
    BY <1>2, <1>5, OrphanStays
  <1> QED BY <1>o, <1>2, <1>3, <1>4, <1>5, <1>6, SaveSafe

LEMMA UpdateSafe ==
    ASSUME AttachmentsInv, NEW a \in Articles, NEW refs \in SUBSET Ids, UpdateKnowledgeWithAttachments(a, refs) PROVE AttachmentsInv'
  <1>1. \A i \in refs : docs[i].state # "none"
    BY DEF UpdateKnowledgeWithAttachments, validateKnowledgeAttachmentBindings
  <1>2. /\ UNCHANGED <<quota, sessions, parts, objects, editors, sweep, overdue>>
        /\ forfeited' = forfeited \cup {id \in refs : docs[id].ripe}
    BY DEF UpdateKnowledgeWithAttachments
  <1>3. /\ docs' \in [Ids -> DocType]
        /\ \A i \in refs : docs'[i].state = "live" /\ docs'[i].article = a /\ ~docs'[i].ripe
        /\ \A i \in Ids \ refs : \/ docs'[i] = docs[i]
                                 \/ docs[i].state = "live" /\ docs'[i].state = "trash" /\ docs'[i].ripe = docs[i].ripe
    <2>1. docs' = applyKnowledgeAttachmentBindings(a, refs)
      BY DEF UpdateKnowledgeWithAttachments
    <2> QED BY <1>1, <2>1, Bindings
  <1>4. RowsGood /\ SweepGood /\ sweep \in SweepType /\ forfeited \in SUBSET Ids
    BY DEF AttachmentsInv, AttachmentsTypeOK
  <1>5. \A i \in Ids : /\ docs'[i].state = "none" <=> docs[i].state = "none"
                       /\ docs[i].state = "none" => docs'[i] = docs[i]
                       /\ docs'[i].ripe => docs'[i].state = "trash"
                       /\ docs[i].ripe => docs'[i].ripe \/ i \in forfeited'
    BY <1>1, <1>2, <1>3, <1>4 DEF RowsGood
  <1>6. SweepGood'
    BY <1>1, <1>2, <1>3, <1>4, AttachmentConstants DEF SweepGood, SweepType, RowsGood
  <1>7. forfeited' \in SUBSET Ids /\ forfeited \subseteq forfeited'
    BY <1>2, <1>4
  <1>o. OrphanGood'
    BY <1>2, <1>5, <1>7, OrphanStays
  <1> QED BY <1>o, <1>2, <1>3, <1>4, <1>5, <1>6, <1>7, SaveSafe

LEMMA DeleteSafe ==
    ASSUME AttachmentsInv, NEW a \in Articles, DeleteKnowledgeWithAttachments(a) PROVE AttachmentsInv'
  <1>0. docs \in [Ids -> DocType] /\ RowsGood /\ SweepGood /\ sweep \in SweepType /\ forfeited \in SUBSET Ids
    BY DEF AttachmentsInv, AttachmentsTypeOK
  <1>1. UNCHANGED <<quota, sessions, parts, objects, editors, sweep, overdue, forfeited>>
    BY DEF DeleteKnowledgeWithAttachments, Ghosts
  <1> DEFINE t(i) == [docs[i] EXCEPT !.state = "trash", !.article = 0]
  <1>2. \A i \in Ids : t(i) \in DocType /\ t(i).state = "trash" /\ t(i).ripe = docs[i].ripe
    BY <1>0 DEF DocType
  <1>3. docs' = [i \in Ids |-> IF docs[i].article # a THEN docs[i] ELSE t(i)]
    BY DEF DeleteKnowledgeWithAttachments
  <1> HIDE DEF t
  <1>4. \A i \in Ids : docs[i].article = a => docs[i].state # "none"
    BY <1>0, AttachmentConstants DEF RowsGood, NoDoc
  <1>5. docs' \in [Ids -> DocType]
    BY <1>0, <1>2, <1>3
  <1>6. \A i \in Ids : docs'[i] = docs[i] \/ (docs[i].state # "none" /\ docs'[i].state = "trash" /\ docs'[i].ripe = docs[i].ripe)
    BY <1>2, <1>3, <1>4
  <1>7. \A i \in Ids : /\ docs'[i].state = "none" <=> docs[i].state = "none"
                       /\ docs[i].state = "none" => docs'[i] = docs[i]
                       /\ docs'[i].ripe => docs'[i].state = "trash"
                       /\ docs[i].ripe => docs'[i].ripe
    BY <1>0, <1>6 DEF RowsGood
  <1>8. SweepGood'
    BY <1>0, <1>1, <1>6 DEF SweepGood, SweepType
  <1>o. OrphanGood'
    BY <1>1, <1>7, OrphanStays
  <1> QED BY <1>o, <1>0, <1>1, <1>5, <1>7, <1>8, SaveSafe

LEMMA RipenSafe ==
    ASSUME AttachmentsInv, NEW id \in Ids, Ripen(id) PROVE AttachmentsInv'
  <1>0. docs \in [Ids -> DocType] /\ RowsGood /\ SweepGood /\ sweep \in SweepType /\ forfeited \in SUBSET Ids
    BY DEF AttachmentsInv, AttachmentsTypeOK
  <1>1. UNCHANGED <<quota, sessions, parts, objects, editors, sweep, overdue, forfeited>> /\ docs[id].state = "trash"
    BY DEF Ripen, Ghosts
  <1> DEFINE t == [docs[id] EXCEPT !.ripe = TRUE]
  <1>2. t \in DocType /\ t.state = "trash" /\ t.ripe
    BY <1>0, <1>1 DEF DocType
  <1>3. docs' = [docs EXCEPT ![id] = t]
    BY DEF Ripen
  <1> HIDE DEF t
  <1>4. docs' \in [Ids -> DocType] /\ \A i \in Ids : docs'[i] = IF i = id THEN t ELSE docs[i]
    BY <1>0, <1>2, <1>3
  <1>5. \A i \in Ids : /\ docs'[i].state = "none" <=> docs[i].state = "none"
                       /\ docs[i].state = "none" => docs'[i] = docs[i]
                       /\ docs'[i].ripe => docs'[i].state = "trash"
                       /\ docs[i].ripe => docs'[i].ripe
    BY <1>0, <1>1, <1>2, <1>4 DEF RowsGood
  <1>6. SweepGood'
    BY <1>0, <1>1, <1>2, <1>4 DEF SweepGood, SweepType
  <1>o. OrphanGood'
    BY <1>1, <1>5, OrphanStays
  <1> QED BY <1>o, <1>0, <1>1, <1>4, <1>5, <1>6, SaveSafe

LEMMA SoftDeleteSafe ==
    ASSUME AttachmentsInv, SoftDeleteStaleDraftKnowledgeAttachments PROVE AttachmentsInv'
  <1>0. docs \in [Ids -> DocType] /\ RowsGood /\ SweepGood /\ sweep \in SweepType /\ forfeited \in SUBSET Ids
    BY DEF AttachmentsInv, AttachmentsTypeOK
  <1>1. /\ UNCHANGED <<quota, sessions, parts, objects, editors, overdue, forfeited>>
        /\ sweep.todo = {} /\ sweep' = [sweep EXCEPT !.stage = "drafts"]
    BY DEF SoftDeleteStaleDraftKnowledgeAttachments, Ghosts
  <1> DEFINE t(i) == [docs[i] EXCEPT !.state = "trash"]
  <1>2. \A i \in Ids : t(i) \in DocType /\ t(i).state = "trash" /\ t(i).ripe = docs[i].ripe
    BY <1>0 DEF DocType
  <1>3. docs' = [i \in Ids |-> IF GetDraftKnowledgeAttachment(i) /\ docs[i].old THEN t(i) ELSE docs[i]]
    BY DEF SoftDeleteStaleDraftKnowledgeAttachments
  <1> HIDE DEF t
  <1>4. docs' \in [Ids -> DocType]
    BY <1>0, <1>2, <1>3
  <1>5. \A i \in Ids : docs'[i] = docs[i] \/ (docs[i].state = "live" /\ docs'[i].state = "trash" /\ docs'[i].ripe = docs[i].ripe)
    BY <1>2, <1>3 DEF GetDraftKnowledgeAttachment, Live
  <1>6. \A i \in Ids : /\ docs'[i].state = "none" <=> docs[i].state = "none"
                       /\ docs[i].state = "none" => docs'[i] = docs[i]
                       /\ docs'[i].ripe => docs'[i].state = "trash"
                       /\ docs[i].ripe => docs'[i].ripe
    BY <1>0, <1>5 DEF RowsGood
  <1>7. sweep' \in SweepType /\ sweep'.id = sweep.id /\ SweepGood'
    BY <1>0, <1>1 DEF SweepGood, SweepType
  <1>o. OrphanGood'
    <2>1. editors' \in [Editors -> EditorType] /\ sweep.stage = "uploads" /\ sweep.orphan = 0
      BY <1>1 DEF AttachmentsInv, AttachmentsTypeOK, OrphanGood, SoftDeleteStaleDraftKnowledgeAttachments
    <2> QED BY <1>0, <1>1, <2>1, NoOrphan DEF SweepType
  <1> QED BY <1>o, <1>0, <1>1, <1>4, <1>6, <1>7, SaveSafe

LEMMA LapseSafe ==
    ASSUME AttachmentsInv, NEW id \in Ids, Lapse(id) PROVE AttachmentsInv'
  <1>0. sessions \in [Ids -> SessionType] /\ sessions[id].status \in Unfinished
    BY DEF AttachmentsInv, AttachmentsTypeOK, Lapse
  <1>u. UNCHANGED <<quota, parts, objects, docs, articles, editors, sweep, overdue, forfeited>>
    BY DEF Lapse, Ghosts
  <1> DEFINE s == [sessions[id] EXCEPT !.lapsed = TRUE]
  <1>1. s \in SessionType /\ s.status = sessions[id].status /\ s.lapsed
    BY <1>0 DEF SessionType
  <1>2. sessions' = [sessions EXCEPT ![id] = s]
    BY DEF Lapse
  <1> HIDE DEF s
  <1>3. sessions' \in [Ids -> SessionType] /\ \A i \in Ids : sessions'[i] = IF i = id THEN s ELSE sessions[i]
    BY <1>0, <1>1, <1>2
  <1>4. AttachmentsTypeOK' /\ Locks' /\ FilesKept' /\ SweepGood'
    BY <1>u, <1>3 DEF AttachmentsInv, AttachmentsTypeOK, Locks, FilesKept, SweepGood, Dropped
  <1>5. Hands'
    <2> SUFFICES ASSUME NEW f \in Editors PROVE Relies(editors'[f], sessions', objects', docs', forfeited')
      BY DEF Hands
    <2>1. editors'[f] = editors[f] /\ editors[f] \in EditorType /\ Relies(editors[f], sessions, objects, docs, forfeited)
      BY <1>u DEF AttachmentsInv, AttachmentsTypeOK, Hands
    <2>2. sessions[id] # NoSession
      BY <1>0 DEF NoSession, Unfinished
    <2> QED BY <1>u, <1>1, <1>3, <2>1, <2>2, EditorKinds DEF Relies, Cloning
  <1>6. RowsGood'
    BY <1>u, <1>1, <1>3 DEF AttachmentsInv, RowsGood
  <1>7. Used' \subseteq Used /\ Held' \subseteq Held
    BY <1>u, <1>1, <1>3 DEF Used, Held
  <1>8. Counted'
    BY <1>u, <1>1, <1>3, <1>7, CountsDown DEF AttachmentsInv
  <1>o. OrphanGood'
    BY <1>u, OrphanStays
  <1> QED BY <1>o, <1>4, <1>5, <1>6, <1>8 DEF AttachmentsInv

LEMMA GrowOldSafe ==
    ASSUME AttachmentsInv, NEW id \in Ids, GrowOld(id) PROVE AttachmentsInv'
  <1>0. /\ docs \in [Ids -> DocType] /\ objects \in [Ids -> {"none", "new", "old"}] /\ lock(id)
        /\ \A e \in Editors : editors[e].op = "clone" => editors[e].copy # id
    BY DEF AttachmentsInv, AttachmentsTypeOK, GrowOld
  <1>u. UNCHANGED <<quota, sessions, parts, articles, editors, sweep, overdue, forfeited>> /\ objects' = [objects EXCEPT ![id] = "old"]
    BY DEF GrowOld, Ghosts
  <1> DEFINE d == [docs[id] EXCEPT !.old = TRUE]
  <1>1. d \in DocType /\ d.state = docs[id].state /\ d.article = docs[id].article /\ d.ripe = docs[id].ripe
    BY <1>0 DEF DocType
  <1>2. docs' = IF docs[id].state = "none" THEN docs ELSE [docs EXCEPT ![id] = d]
    BY DEF GrowOld
  <1> HIDE DEF d
  <1>3. /\ docs' \in [Ids -> DocType]
        /\ \A i \in Ids : /\ docs'[i].state = docs[i].state /\ docs'[i].article = docs[i].article
                          /\ docs'[i].ripe = docs[i].ripe /\ (docs[i].state = "none" => docs'[i] = docs[i])
    BY <1>0, <1>1, <1>2
  <1>4. /\ objects' \in [Ids -> {"none", "new", "old"}] /\ objects'[id] = "old"
        /\ \A i \in Ids \ {id} : objects'[i] = objects[i]
    BY <1>0, <1>u
  <1>5. AttachmentsTypeOK' /\ Locks'
    BY <1>u, <1>3, <1>4 DEF AttachmentsInv, AttachmentsTypeOK, Locks
  <1>6. Hands'
    <2> SUFFICES ASSUME NEW f \in Editors PROVE Relies(editors'[f], sessions', objects', docs', forfeited')
      BY DEF Hands
    <2>1. /\ editors'[f] = editors[f] /\ editors[f] \in EditorType /\ Relies(editors[f], sessions, objects, docs, forfeited)
          /\ editors[f].id # id
      BY <1>0, <1>u DEF AttachmentsInv, AttachmentsTypeOK, Hands, lock
    <2> QED BY <1>0, <1>u, <1>3, <1>4, <2>1, EditorKinds DEF Relies, Cloning
  <1>7. RowsGood' /\ FilesKept'
    BY <1>u, <1>3, <1>4 DEF AttachmentsInv, RowsGood, FilesKept, Dropped
  <1>8. SweepGood'
    <2>1. SweepGood /\ sweep \in SweepType
      BY DEF AttachmentsInv, AttachmentsTypeOK
    <2> QED BY <1>u, <1>3, <2>1 DEF SweepGood, SweepType
  <1>9. Used' = Used /\ Held' = Held
    BY <1>u, <1>3 DEF Used, Held
  <1>10. Counted'
    BY <1>u, <1>9 DEF AttachmentsInv, Counted
  <1>o. OrphanGood'
    BY <1>u, <1>3, OrphanStays
  <1> QED BY <1>o, <1>5, <1>6, <1>7, <1>8, <1>10 DEF AttachmentsInv

LEMMA SweepUploadSafe ==
    ASSUME AttachmentsInv, NEW id \in Ids, SweepUpload(id) PROVE AttachmentsInv'
  <1>0. sweep \in SweepType /\ sweep.stage = "uploads" /\ id \in sweep.todo /\ lock(id) /\ sweep' = [sweep EXCEPT !.id = id]
    BY DEF AttachmentsInv, AttachmentsTypeOK, SweepUpload
  <1>u. UNCHANGED <<quota, sessions, objects, docs, articles, editors, overdue, forfeited>> /\ parts' \in [Ids -> SUBSET Parts]
    BY DEF SweepUpload, Ghosts, AttachmentsInv, AttachmentsTypeOK
  <1>1. sweep' \in SweepType /\ sweep'.stage = "uploads" /\ sweep'.id = id /\ sweep'.todo = sweep.todo
    BY <1>0 DEF SweepType
  <1>2. AttachmentsTypeOK' /\ SweepGood'
    BY <1>0, <1>u, <1>1 DEF AttachmentsInv, AttachmentsTypeOK, SweepGood
  <1>3. Locks'
    BY <1>0, <1>u, <1>1 DEF AttachmentsInv, Locks, lock
  <1>4. Hands' /\ RowsGood' /\ FilesKept' /\ Counted'
    BY <1>u DEF AttachmentsInv, Hands, RowsGood, FilesKept, Dropped, Counted, Used, Held
  <1>o. OrphanGood'
    <2>1. editors' \in [Editors -> EditorType] /\ sweep'.orphan = 0
      BY <1>0, <1>u DEF AttachmentsInv, AttachmentsTypeOK, OrphanGood, SweepType
    <2> QED BY <1>1, <2>1, NoOrphan
  <1> QED BY <1>o, <1>2, <1>3, <1>4 DEF AttachmentsInv

(* What is purged is ripe, or was restored too late. *)
LEMMA PurgeSafe ==
    ASSUME AttachmentsInv, NEW id \in Ids, PurgeObject(id) PROVE AttachmentsInv'
  <1>0. sweep \in SweepType /\ sweep.stage = "purge" /\ id \in sweep.todo /\ lock(id) /\ sweep' = [sweep EXCEPT !.id = id]
    BY DEF AttachmentsInv, AttachmentsTypeOK, PurgeObject
  <1>u. UNCHANGED <<quota, sessions, parts, docs, articles, editors, overdue, forfeited>>
    BY DEF PurgeObject, Ghosts
  <1>1. sweep' \in SweepType /\ sweep'.stage = "purge" /\ sweep'.id = id /\ sweep'.todo = sweep.todo
    BY <1>0 DEF SweepType
  <1>2. objects' \in [Ids -> {"none", "new", "old"}] /\ \A i \in Ids \ {id} : objects'[i] = objects[i]
    BY DEF PurgeObject, AttachmentsInv, AttachmentsTypeOK
  <1>3. AttachmentsTypeOK'
    BY <1>u, <1>1, <1>2 DEF AttachmentsInv, AttachmentsTypeOK
  <1>4. SweepGood'
    BY <1>0, <1>u, <1>1 DEF AttachmentsInv, SweepGood
  <1>5. Locks'
    BY <1>0, <1>u, <1>1 DEF AttachmentsInv, Locks, lock
  <1>6. (docs[id].ripe \/ id \in forfeited) /\ docs[id].state # "none"
    BY <1>0 DEF AttachmentsInv, SweepGood, RowsGood
  <1>7. Hands'
    <2> SUFFICES ASSUME NEW f \in Editors PROVE Relies(editors'[f], sessions', objects', docs', forfeited')
      BY DEF Hands
    <2>1. /\ editors'[f] = editors[f] /\ editors[f] \in EditorType /\ Relies(editors[f], sessions, objects, docs, forfeited)
          /\ editors[f].id # id
      BY <1>0, <1>u DEF AttachmentsInv, AttachmentsTypeOK, Hands, lock
    <2> QED BY <1>u, <1>2, <1>6, <2>1, EditorKinds DEF Relies, Cloning
  <1>8. FilesKept'
    BY <1>u, <1>2, <1>6 DEF AttachmentsInv, FilesKept, Dropped
  <1>9. RowsGood' /\ Counted'
    BY <1>u DEF AttachmentsInv, RowsGood, Counted, Used, Held
  <1>o. OrphanGood'
    <2>1. editors' \in [Editors -> EditorType] /\ sweep'.orphan = 0
      BY <1>0, <1>u DEF AttachmentsInv, AttachmentsTypeOK, OrphanGood, SweepType
    <2> QED BY <1>1, <2>1, NoOrphan
  <1> QED BY <1>o, <1>3, <1>4, <1>5, <1>7, <1>8, <1>9 DEF AttachmentsInv

(* Steps of the sweep that only move it on. *)
LEMMA SweepOn ==
    ASSUME AttachmentsInv, UNCHANGED <<quota, sessions, parts, objects, docs, articles, editors, overdue, forfeited>>,
           sweep' \in SweepType, sweep'.id = 0, SweepGood', OrphanGood'
    PROVE  AttachmentsInv'
  <1>1. AttachmentsTypeOK' /\ Locks'
    BY DEF AttachmentsInv, AttachmentsTypeOK, Locks
  <1>2. Hands' /\ RowsGood' /\ FilesKept' /\ Counted'
    BY DEF AttachmentsInv, Hands, RowsGood, FilesKept, Dropped, Counted, Used, Held
  <1> QED BY <1>1, <1>2 DEF AttachmentsInv

LEMMA CleanupSafe == ASSUME AttachmentsInv, Cleanup PROVE AttachmentsInv'
  <1>1. UNCHANGED <<quota, sessions, parts, objects, docs, articles, editors, overdue, forfeited>>
    BY DEF Cleanup, Ghosts
  <1>2. ListExpiredKnowledgeAttachmentUploads \in SUBSET Ids
    BY DEF ListExpiredKnowledgeAttachmentUploads
  <1> DEFINE aged == {id \in Ids : objects[id] = "old" \/ \E e \in Editors : Discarding(e) /\ editors[e].id = id}
             s == [NoSweep EXCEPT !.stage = "uploads", !.todo = ListExpiredKnowledgeAttachmentUploads, !.old = aged]
  <1>3. aged \in SUBSET Ids /\ sweep' = s
    BY DEF Cleanup
  <1> HIDE DEF aged
  <1>4. s \in SweepType /\ s.id = 0 /\ s.stage = "uploads" /\ s.orphan = 0
    BY <1>2, <1>3 DEF NoSweep, SweepType
  <1> HIDE DEF s
  <1>5. OrphanGood'
    BY <1>1, <1>3, <1>4, NoOrphan DEF AttachmentsInv, AttachmentsTypeOK
  <1> QED BY <1>1, <1>3, <1>4, <1>5, SweepOn DEF SweepGood

LEMMA ListSafe == ASSUME AttachmentsInv, ListPurgeableKnowledgeAttachments PROVE AttachmentsInv'
  <1>1. UNCHANGED <<quota, sessions, parts, objects, docs, articles, editors, overdue, forfeited>>
    BY DEF ListPurgeableKnowledgeAttachments, Ghosts
  <1>0. sweep \in SweepType /\ sweep.id = 0 /\ sweep.orphan = 0 /\ editors \in [Editors -> EditorType]
    BY DEF AttachmentsInv, AttachmentsTypeOK, SweepGood, OrphanGood, ListPurgeableKnowledgeAttachments
  <1>2. /\ sweep' \in SweepType /\ sweep'.id = 0 /\ sweep'.stage = "purge" /\ sweep'.orphan = 0
        /\ sweep'.todo = {id \in Ids : docs[id].state = "trash" /\ docs[id].ripe}
    BY <1>0 DEF ListPurgeableKnowledgeAttachments, SweepType
  <1>3. OrphanGood'
    BY <1>0, <1>1, <1>2, NoOrphan
  <1> QED BY <1>1, <1>2, <1>3, SweepOn DEF SweepGood

LEMMA PassOverSafe == ASSUME AttachmentsInv, NEW id \in Ids, PassOver(id) PROVE AttachmentsInv'
  <1>1. UNCHANGED <<quota, sessions, parts, objects, docs, articles, editors, overdue, forfeited>>
    BY DEF PassOver, Ghosts
  <1>0. /\ sweep \in SweepType /\ sweep.id = 0 /\ sweep.orphan = 0 /\ editors \in [Editors -> EditorType]
        /\ sweep.stage \in {"uploads", "purge"} /\ sweep' = [sweep EXCEPT !.todo = @ \ {id}]
    BY DEF AttachmentsInv, AttachmentsTypeOK, OrphanGood, PassOver
  <1>2. /\ sweep' \in SweepType /\ sweep'.id = 0 /\ sweep'.stage = sweep.stage /\ sweep'.orphan = 0
        /\ sweep'.todo = sweep.todo \ {id}
    BY <1>0 DEF SweepType
  <1>3. OrphanGood'
    BY <1>0, <1>1, <1>2, NoOrphan
  <1>4. SweepGood'
    BY <1>0, <1>1, <1>2 DEF AttachmentsInv, SweepGood
  <1> QED BY <1>1, <1>2, <1>3, <1>4, SweepOn

LEMMA DeleteExpiredSafe == ASSUME AttachmentsInv, DeleteExpiredKnowledgeAttachmentUpload PROVE AttachmentsInv'
  <1>0. sweep \in SweepType /\ sessions \in [Ids -> SessionType] /\ sweep.stage = "uploads"
    BY DEF AttachmentsInv, AttachmentsTypeOK, DeleteExpiredKnowledgeAttachmentUpload
  <1> PICK id \in Ids : id = sweep.id /\ id # 0
    BY <1>0 DEF DeleteExpiredKnowledgeAttachmentUpload, SweepType
  <1>u. UNCHANGED <<quota, parts, objects, docs, articles, editors, overdue, forfeited>>
    BY DEF DeleteExpiredKnowledgeAttachmentUpload, Ghosts
  <1>o. sweep.orphan = 0 /\ editors' \in [Editors -> EditorType]
    BY <1>0, <1>u DEF AttachmentsInv, AttachmentsTypeOK, OrphanGood
  <1>1. sweep' \in SweepType /\ sweep'.id = 0 /\ sweep'.stage = "uploads" /\ sweep'.orphan = 0
    BY <1>0, <1>o DEF DeleteExpiredKnowledgeAttachmentUpload, SweepType
  <1>2. SweepGood' /\ OrphanGood'
    BY <1>o, <1>1, NoOrphan DEF SweepGood
  <1>3. CASE UNCHANGED sessions
    BY <1>u, <1>1, <1>2, <1>3, SweepOn
  <1>4. CASE sessions[id].status \in Unfinished \cup {"expired"} /\ sessions' = [sessions EXCEPT ![id] = Ended("gone")]
    <2>1. /\ sessions' \in [Ids -> SessionType] /\ sessions'[id].status = "gone"
          /\ \A i \in Ids \ {id} : sessions'[i] = sessions[i]
      BY <1>0, <1>4, EndedGone
    <2>2. sessions'[id].status \notin Unfinished /\ sessions[id].status # "completed" /\ sessions[id] # NoSession
      BY <1>4, <2>1 DEF Unfinished, NoSession
    <2>3. AttachmentsTypeOK' /\ Locks' /\ FilesKept'
      BY <1>u, <1>1, <2>1 DEF AttachmentsInv, AttachmentsTypeOK, Locks, FilesKept, Dropped
    <2>4. Hands'
      <3> SUFFICES ASSUME NEW f \in Editors PROVE Relies(editors'[f], sessions', objects', docs', forfeited')
        BY DEF Hands
      <3>1. /\ editors'[f] = editors[f] /\ editors[f] \in EditorType /\ Relies(editors[f], sessions, objects, docs, forfeited)
            /\ editors[f].id # id
        BY <1>u DEF AttachmentsInv, AttachmentsTypeOK, Hands, Locks
      <3> QED BY <1>u, <2>1, <2>2, <3>1, EditorKinds DEF Relies, Cloning
    <2>5. RowsGood'
      BY <1>u, <2>1, <2>2 DEF AttachmentsInv, RowsGood
    <2>6. Used' \subseteq Used /\ Held' \subseteq Held
      BY <1>u, <2>1, <2>2 DEF Used, Held
    <2>7. Counted'
      BY <1>u, <2>1, <2>2, <2>6, CountsDown DEF AttachmentsInv
    <2> QED BY <1>2, <2>3, <2>4, <2>5, <2>7 DEF AttachmentsInv
  <1> QED BY <1>3, <1>4 DEF DeleteExpiredKnowledgeAttachmentUpload

LEMMA DeletePurgedSafe == ASSUME AttachmentsInv, DeletePurgedKnowledgeAttachment PROVE AttachmentsInv'
  <1>0. sweep \in SweepType /\ docs \in [Ids -> DocType] /\ sweep.stage = "purge" /\ SweepGood
    BY DEF AttachmentsInv, AttachmentsTypeOK, DeletePurgedKnowledgeAttachment
  <1> PICK id \in Ids : id = sweep.id /\ id # 0
    BY <1>0 DEF DeletePurgedKnowledgeAttachment, SweepType
  <1>u. UNCHANGED <<quota, sessions, parts, objects, articles, editors, overdue, forfeited>>
    BY DEF DeletePurgedKnowledgeAttachment, Ghosts
  <1>o. sweep.orphan = 0 /\ editors' \in [Editors -> EditorType]
    BY <1>0, <1>u DEF AttachmentsInv, AttachmentsTypeOK, OrphanGood
  <1>1. /\ sweep' \in SweepType /\ sweep'.id = 0 /\ sweep'.stage = "purge" /\ sweep'.todo = sweep.todo \ {id}
        /\ sweep'.orphan = 0
    BY <1>0, <1>o DEF DeletePurgedKnowledgeAttachment, SweepType
  <1>p. OrphanGood'
    BY <1>o, <1>1, NoOrphan
  <1>2. CASE UNCHANGED docs
    BY <1>0, <1>u, <1>1, <1>2, <1>p, SweepOn DEF SweepGood
  <1>3. CASE docs[id].state = "trash" /\ docs' = [docs EXCEPT ![id] = NoDoc]
    <2>0. NoDoc \in DocType /\ NoDoc.state = "none" /\ ~NoDoc.ripe
      BY NoRows DEF NoDoc
    <2>1. docs' \in [Ids -> DocType] /\ docs'[id] = NoDoc /\ \A i \in Ids \ {id} : docs'[i] = docs[i]
      BY <1>0, <1>3, <2>0
    <2>2. AttachmentsTypeOK' /\ Locks'
      BY <1>u, <1>1, <2>1 DEF AttachmentsInv, AttachmentsTypeOK, Locks
    <2>3. Hands'
      <3> SUFFICES ASSUME NEW f \in Editors PROVE Relies(editors'[f], sessions', objects', docs', forfeited')
        BY DEF Hands
      <3>1. /\ editors'[f] = editors[f] /\ editors[f] \in EditorType /\ Relies(editors[f], sessions, objects, docs, forfeited)
            /\ editors[f].id # id
        BY <1>u DEF AttachmentsInv, AttachmentsTypeOK, Hands, Locks
      <3> QED BY <1>u, <1>3, <2>1, <3>1, EditorKinds DEF Relies, Cloning
    <2>4. RowsGood' /\ FilesKept'
      BY <1>u, <2>0, <2>1 DEF AttachmentsInv, RowsGood, FilesKept, Dropped
    <2>5. SweepGood'
      BY <1>0, <1>u, <1>1, <2>1 DEF SweepGood, SweepType
    <2>6. Used' \subseteq Used /\ Held' \subseteq Held
      BY <1>u, <2>0, <2>1 DEF Used, Held
    <2>7. Counted'
      BY <1>u, <2>6, CountsDown DEF AttachmentsInv
    <2> QED BY <1>p, <2>2, <2>3, <2>4, <2>5, <2>7 DEF AttachmentsInv
  <1> QED BY <1>2, <1>3 DEF DeletePurgedKnowledgeAttachment

(* The quarantine: what a discard has moved aside is lost to it, and its id forfeited. *)
LEMMA QuarantineSafe == ASSUME AttachmentsInv, CleanupQuarantine PROVE AttachmentsInv'
  <1>0. /\ sweep \in SweepType /\ editors \in [Editors -> EditorType] /\ parts \in [Ids -> SUBSET Parts]
        /\ forfeited \in SUBSET Ids /\ sweep.stage = "purge" /\ sweep.todo = {} /\ SweepGood /\ sweep.orphan = 0
    BY DEF AttachmentsInv, AttachmentsTypeOK, OrphanGood, CleanupQuarantine
  <1>u. UNCHANGED <<quota, sessions, objects, docs, articles, overdue>>
    BY DEF CleanupQuarantine
  <1> DEFINE w(e) == [editors[e] EXCEPT !.kept = "none"]
  <1>p. PICK gone \in SUBSET {e \in Editors : Discarding(e) /\ editors[e].id \in sweep.old} :
            /\ editors' = [e \in Editors |-> IF e \in gone THEN w(e) ELSE editors[e]]
            /\ forfeited' = forfeited \cup {editors[e].id : e \in gone}
    BY DEF CleanupQuarantine
  <1>1. /\ editors' = [e \in Editors |-> IF e \in gone THEN w(e) ELSE editors[e]]
        /\ forfeited' = forfeited \cup {editors[e].id : e \in gone}
        /\ sweep' = [sweep EXCEPT !.stage = "orphans", !.todo = sweep.old]
    BY <1>p DEF CleanupQuarantine
  <1>2. ASSUME NEW e \in gone
        PROVE  /\ editors[e].op = "drop" /\ editors[e].id \in Ids /\ editors[e].id \in forfeited'
               /\ w(e) \in Dropping /\ w(e).op = "drop" /\ w(e).id = editors[e].id
    <2>1. editors[e].op = "drop" /\ editors[e] \in EditorType
      BY <1>0 DEF Discarding
    <2>2. editors[e] \in Dropping
      BY <2>1, EditorKinds
    <2> QED BY <1>1, <2>2 DEF Dropping
  <1>3. ASSUME NEW e \in Editors
        PROVE  \/ editors'[e] = editors[e]
               \/ /\ editors[e].op = "drop" /\ editors'[e].op = "drop" /\ editors'[e].id = editors[e].id
                  /\ editors[e].id \in forfeited' /\ editors'[e] \in Dropping
    BY <1>1, <1>2
  <1>4. editors' \in [Editors -> EditorType] /\ forfeited' \in SUBSET Ids /\ forfeited \subseteq forfeited'
    <2>1. \A e \in gone : w(e) \in EditorType
      BY <1>2 DEF EditorType
    <2>2. {editors[e].id : e \in gone} \in SUBSET Ids
      BY <1>2
    <2> HIDE DEF w
    <2>3. editors' \in [Editors -> EditorType]
      BY <1>0, <1>1, <2>1
    <2> QED BY <1>0, <1>1, <2>2, <2>3
  <1> HIDE DEF w
  <1>5. /\ sweep' \in SweepType /\ sweep'.stage = "orphans" /\ sweep'.id = sweep.id /\ sweep'.orphan = 0
    BY <1>0, <1>1 DEF SweepType
  <1>6. sweep.id = 0
    BY <1>0 DEF SweepGood
  <1>7. parts' \in [Ids -> SUBSET Parts]
    BY <1>0 DEF CleanupQuarantine
  <1>8. AttachmentsTypeOK'
    BY <1>u, <1>4, <1>5, <1>7 DEF AttachmentsInv, AttachmentsTypeOK
  <1>9. SweepGood' /\ OrphanGood'
    BY <1>4, <1>5, <1>6, NoOrphan DEF SweepGood
  <1>10. Locks'
    <2>1. \A e \in Editors : /\ editors'[e].id = editors[e].id /\ editors'[e].op = editors[e].op
                             /\ editors[e] = Calm => editors'[e] = Calm
                             /\ editors[e].op = "clone" => editors'[e] = editors[e]
      BY <1>3 DEF Calm
    <2> QED BY <1>5, <1>6, <2>1 DEF AttachmentsInv, Locks
  <1>11. Hands'
    <2> SUFFICES ASSUME NEW f \in Editors PROVE Relies(editors'[f], sessions', objects', docs', forfeited')
      BY DEF Hands
    <2>1. Relies(editors[f], sessions, objects, docs, forfeited)
      BY DEF AttachmentsInv, Hands
    <2>2. CASE editors'[f] = editors[f]
      BY <1>u, <1>4, <2>1, <2>2 DEF Relies
    <2>3. CASE /\ editors[f].op = "drop" /\ editors'[f].op = "drop" /\ editors'[f].id = editors[f].id
               /\ editors[f].id \in forfeited'
      BY <1>u, <2>1, <2>3 DEF Relies
    <2> QED BY <1>3, <2>2, <2>3
  <1>12. FilesKept'
    <2>1. \A i \in Ids : Dropped(i) => Dropped(i)'
      BY <1>3 DEF Dropped
    <2> QED BY <1>u, <1>4, <2>1 DEF AttachmentsInv, FilesKept
  <1>13. RowsGood' /\ Counted'
    BY <1>u DEF AttachmentsInv, RowsGood, Counted, Used, Held
  <1> QED BY <1>8, <1>9, <1>10, <1>11, <1>12, <1>13 DEF AttachmentsInv

(* An old file is in nobody's hands. *)
LEMMA StatSafe == ASSUME AttachmentsInv, NEW id \in Ids, StatOrphan(id) PROVE AttachmentsInv'
  <1>1. UNCHANGED <<quota, sessions, parts, objects, docs, articles, editors, overdue, forfeited>>
    BY DEF StatOrphan, Ghosts
  <1>0. /\ sweep \in SweepType /\ editors \in [Editors -> EditorType] /\ Hands /\ sweep.stage = "orphans" /\ sweep.id = 0
        /\ objects[id] = "old" /\ sweep' = [sweep EXCEPT !.stage = "query", !.orphan = id, !.todo = @ \ {id}]
    BY DEF AttachmentsInv, AttachmentsTypeOK, SweepGood, StatOrphan
  <1>2. sweep' \in SweepType /\ sweep'.id = 0 /\ sweep'.stage = "query" /\ sweep'.orphan = id
    BY <1>0 DEF SweepType
  <1>3. \A e \in Editors : /\ editors[e].op = "complete" /\ editors[e].stage = "finish" /\ editors[e].id = id => id \in forfeited
                           /\ editors[e].op = "clone" => editors[e].copy # id
    BY <1>0 DEF Hands, Relies
  <1>4. SweepGood' /\ OrphanGood'
    BY <1>1, <1>2, <1>3 DEF SweepGood, OrphanGood
  <1> QED BY <1>1, <1>2, <1>4, SweepOn

LEMMA QuerySafe == ASSUME AttachmentsInv, QueryOrphan PROVE AttachmentsInv'
  <1>1. UNCHANGED <<quota, sessions, parts, objects, docs, articles, editors, overdue, forfeited>>
    BY DEF QueryOrphan, Ghosts
  <1>0. /\ sweep \in SweepType /\ editors' \in [Editors -> EditorType] /\ OrphanGood /\ sweep.stage = "query" /\ sweep.id = 0
    BY <1>1 DEF AttachmentsInv, AttachmentsTypeOK, SweepGood, QueryOrphan
  <1>2. CASE KnowledgeAttachmentStoragePathExists(sweep.orphan)
    <2>1. sweep' \in SweepType /\ sweep'.id = 0 /\ sweep'.stage = "orphans" /\ sweep'.orphan = 0
      BY <1>0, <1>2 DEF QueryOrphan, SweepType
    <2>2. SweepGood' /\ OrphanGood'
      BY <1>0, <2>1, NoOrphan DEF SweepGood
    <2> QED BY <1>1, <2>1, <2>2, SweepOn
  <1>3. CASE ~KnowledgeAttachmentStoragePathExists(sweep.orphan)
    <2>1. sweep' \in SweepType /\ sweep'.id = 0 /\ sweep'.stage = "remove" /\ sweep'.orphan = sweep.orphan
      BY <1>0, <1>3 DEF QueryOrphan, SweepType
    <2>2. SweepGood' /\ OrphanGood'
      BY <1>0, <1>1, <1>3, <2>1 DEF SweepGood, OrphanGood, KnowledgeAttachmentStoragePathExists
    <2> QED BY <1>1, <2>1, <2>2, SweepOn
  <1> QED BY <1>2, <1>3

(* What is removed has no row, or is forfeited. *)
LEMMA RemoveSafe == ASSUME AttachmentsInv, RemoveOrphan PROVE AttachmentsInv'
  <1>0. /\ sweep \in SweepType /\ editors \in [Editors -> EditorType] /\ OrphanGood /\ sweep.stage = "remove" /\ sweep.id = 0
        /\ objects \in [Ids -> {"none", "new", "old"}] /\ Hands
    BY DEF AttachmentsInv, AttachmentsTypeOK, SweepGood, RemoveOrphan
  <1> PICK id \in Ids : id = sweep.orphan
    BY <1>0 DEF OrphanGood
  <1>u. /\ UNCHANGED <<quota, sessions, parts, docs, articles, editors, overdue, forfeited>>
        /\ objects' = [objects EXCEPT ![id] = "none"] /\ sweep' = [sweep EXCEPT !.stage = "orphans", !.orphan = 0]
    BY DEF RemoveOrphan, Ghosts
  <1>1. sweep' \in SweepType /\ sweep'.id = 0 /\ sweep'.stage = "orphans" /\ sweep'.orphan = 0
    BY <1>0, <1>u DEF SweepType
  <1>2. objects' \in [Ids -> {"none", "new", "old"}] /\ \A i \in Ids \ {id} : objects'[i] = objects[i]
    BY <1>0, <1>u
  <1>3. AttachmentsTypeOK' /\ Locks' /\ SweepGood' /\ OrphanGood'
    <2>1. AttachmentsTypeOK'
      BY <1>u, <1>1, <1>2 DEF AttachmentsInv, AttachmentsTypeOK
    <2>2. Locks' /\ SweepGood'
      BY <1>u, <1>1 DEF AttachmentsInv, Locks, SweepGood
    <2> QED BY <2>1, <2>2, <1>0, <1>u, <1>1, NoOrphan
  <1>4. Hands'
    <2> SUFFICES ASSUME NEW f \in Editors PROVE Relies(editors'[f], sessions', objects', docs', forfeited')
      BY DEF Hands
    <2>1. editors'[f] = editors[f] /\ editors[f] \in EditorType /\ Relies(editors[f], sessions, objects, docs, forfeited)
      BY <1>0, <1>u DEF Hands
    <2>2. /\ editors[f].op = "complete" /\ editors[f].stage = "finish" /\ editors[f].id = id => id \in forfeited
          /\ editors[f].op = "clone" => editors[f].copy # id
      BY <1>0 DEF OrphanGood
    <2> QED BY <1>u, <1>2, <2>1, <2>2, EditorKinds DEF Relies, Cloning
  <1>5. RowsGood' /\ Counted'
    BY <1>u DEF AttachmentsInv, RowsGood, Counted, Used, Held
  <1>6. FilesKept'
    <2>1. docs[id].state = "none" \/ id \in forfeited
      BY <1>0 DEF OrphanGood
    <2> QED BY <1>u, <1>2, <2>1 DEF AttachmentsInv, FilesKept, Dropped
  <1> QED BY <1>3, <1>4, <1>5, <1>6 DEF AttachmentsInv

LEMMA SweepEndsSafe == ASSUME AttachmentsInv, CleanupEnds PROVE AttachmentsInv'
  <1>1. UNCHANGED <<quota, sessions, parts, objects, docs, articles, editors, overdue, forfeited>> /\ sweep' = NoSweep
    BY DEF CleanupEnds, Ghosts
  <1>2. sweep' \in SweepType /\ sweep'.id = 0 /\ sweep'.stage = "none" /\ sweep'.orphan = 0
    BY <1>1, NoRows DEF NoSweep
  <1>3. editors' \in [Editors -> EditorType]
    BY <1>1 DEF AttachmentsInv, AttachmentsTypeOK
  <1>4. SweepGood' /\ OrphanGood'
    BY <1>2, <1>3, NoOrphan DEF SweepGood
  <1> QED BY <1>1, <1>2, <1>4, SweepOn

LEMMA OrphansSafe == ASSUME AttachmentsInv, cleanupOrphanFiles PROVE AttachmentsInv'
  BY QuarantineSafe, StatSafe, QuerySafe, RemoveSafe, SweepEndsSafe DEF cleanupOrphanFiles

LEMMA CrashSafe == ASSUME AttachmentsInv, Crash PROVE AttachmentsInv'
  <1>0. editors \in [Editors -> EditorType] /\ forfeited \in SUBSET Ids
    BY DEF AttachmentsInv, AttachmentsTypeOK
  <1>u. /\ UNCHANGED <<quota, sessions, parts, objects, docs, articles, overdue>> /\ sweep' = NoSweep
        /\ editors' = [e \in Editors |-> Calm]
        /\ forfeited' = forfeited \cup {editors[e].id : e \in {f \in Editors : editors[f].op = "drop"}}
    BY DEF Crash
  <1>1. sweep' \in SweepType /\ sweep'.id = 0 /\ sweep'.stage = "none" /\ sweep'.orphan = 0
    BY <1>u, NoRows DEF NoSweep
  <1>2. forfeited' \in SUBSET Ids /\ \A i \in Ids : Dropped(i) \/ i \in forfeited => i \in forfeited'
    <2>1. \A e \in Editors : editors[e].op = "drop" => editors[e].id \in Ids
      BY <1>0, EditorKinds
    <2> QED BY <1>0, <1>u, <2>1 DEF Dropped
  <1>3. editors' \in [Editors -> EditorType] /\ \A e \in Editors : editors'[e] = Calm
    BY <1>u, NoRows
  <1>4. AttachmentsTypeOK' /\ SweepGood'
    BY <1>u, <1>1, <1>2, <1>3 DEF AttachmentsInv, AttachmentsTypeOK, SweepGood
  <1>5. Locks' /\ Hands'
    BY <1>1, <1>3 DEF Locks, Hands, Relies, Calm
  <1>6. RowsGood' /\ Counted'
    BY <1>u DEF AttachmentsInv, RowsGood, Counted, Used, Held
  <1>7. FilesKept'
    BY <1>u, <1>2 DEF AttachmentsInv, FilesKept
  <1>8. OrphanGood'
    BY <1>1, <1>3, NoOrphan
  <1> QED BY <1>8, <1>4, <1>5, <1>6, <1>7 DEF AttachmentsInv

LEMMA EditorsSafe ==
    ASSUME AttachmentsInv, NEW e \in Editors,
           \/ storeKnowledgeAttachmentChunk(e) \/ completeKnowledgeAttachmentUpload(e)
           \/ cancelKnowledgeAttachmentUpload(e) \/ dropKnowledgeAttachment(e) \/ cloneKnowledgeAttachments(e)
    PROVE  AttachmentsInv'
  <1>1. CASE storeKnowledgeAttachmentChunk(e)
    BY <1>1, StoreChunkSafe, RecordSafe DEF storeKnowledgeAttachmentChunk
  <1>2. CASE completeKnowledgeAttachmentUpload(e)
    BY <1>2, CompleteSafe, AssembleSafe, FailSafe, PublishSafe, FinishSafe, WipeSafe DEF completeKnowledgeAttachmentUpload
  <1>3. CASE cancelKnowledgeAttachmentUpload(e)
    BY <1>3, CancelSafe, CancelledSafe DEF cancelKnowledgeAttachmentUpload
  <1>4. CASE dropKnowledgeAttachment(e)
    BY <1>4, DropSafe, DeleteDraftSafe DEF dropKnowledgeAttachment
  <1>5. CASE cloneKnowledgeAttachments(e)
    BY <1>5, CloneSafe, ClonedSafe DEF cloneKnowledgeAttachments
  <1> QED BY <1>1, <1>2, <1>3, <1>4, <1>5

LEMMA AttachmentsInvNext == AttachmentsInv /\ [AttachmentsNext]_attachmentVars => AttachmentsInv'
  <1> SUFFICES ASSUME AttachmentsInv, [AttachmentsNext]_attachmentVars PROVE AttachmentsInv'
    OBVIOUS
  <1>1. CASE UNCHANGED attachmentVars
    BY <1>1 DEF attachmentVars, AttachmentsInv, AttachmentsTypeOK, Locks, Hands, RowsGood, FilesKept, Dropped, SweepGood,
                OrphanGood, Counted, Used, Held
  <1>2. ASSUME NEW id \in Ids,
               initializeKnowledgeAttachmentUpload(id) \/ getKnowledgeAttachmentUpload(id)
               \/ SweepUpload(id) \/ PassOver(id) \/ PurgeObject(id) \/ Lapse(id) \/ GrowOld(id) \/ Ripen(id)
        PROVE  AttachmentsInv'
    BY <1>2, InitializeSafe, StatusSafe, SweepUploadSafe, PassOverSafe, PurgeSafe, LapseSafe, GrowOldSafe, RipenSafe
       DEF initializeKnowledgeAttachmentUpload, getKnowledgeAttachmentUpload
  <1>3. ASSUME NEW a \in Articles, createKnowledge(a) \/ updateKnowledge(a) \/ deleteKnowledge(a)
        PROVE  AttachmentsInv'
    BY <1>3, CreateSafe, UpdateSafe, DeleteSafe DEF createKnowledge, updateKnowledge, deleteKnowledge
  <1>4. CASE \/ Cleanup \/ DeleteExpiredKnowledgeAttachmentUpload \/ SoftDeleteStaleDraftKnowledgeAttachments
             \/ ListPurgeableKnowledgeAttachments \/ DeletePurgedKnowledgeAttachment \/ cleanupOrphanFiles \/ Crash
    BY <1>4, CleanupSafe, DeleteExpiredSafe, SoftDeleteSafe, ListSafe, DeletePurgedSafe, OrphansSafe, CrashSafe
  <1> QED BY <1>1, <1>2, <1>3, <1>4, EditorsSafe DEF AttachmentsNext

LEMMA AttachmentsInvKept == AttachmentsInv => AttachmentsKept
  <1> SUFFICES ASSUME AttachmentsInv PROVE AttachmentsKept
    OBVIOUS
  <1>1. KnowledgeAttachmentUsage <= quota + Cardinality(overdue)
    BY DEF AttachmentsInv, Counted, KnowledgeAttachmentUsage, Used, Held
  <1>2. \A id \in Ids : Live(id) => docs[id].state # "none" /\ ~docs[id].ripe
    BY DEF Live, AttachmentsInv, RowsGood
  <1> QED BY <1>1, <1>2 DEF AttachmentsKept, AttachmentsInv, FilesKept, Dropped

(* Attachments are kept (service.go, lifecycle.go, cleanup.go), whatever uploads, articles, sweeps and crashes there are: a *)
(* live row has its file, unless it was restored too late or half discarded, and the quota holds for all but overdue ones. *)
THEOREM AttachmentsStayKept == AttachmentsSpec => []AttachmentsKept
  <1>1. AttachmentsInit => AttachmentsInv
    BY AttachmentsInvInit
  <1>2. AttachmentsInv /\ [AttachmentsNext]_attachmentVars => AttachmentsInv'
    BY AttachmentsInvNext
  <1>3. AttachmentsInv => AttachmentsKept
    BY AttachmentsInvKept
  <1> QED BY <1>1, <1>2, <1>3, PTL DEF AttachmentsSpec

=============================================================================
