----------------------------- MODULE Attachments -----------------------------
(***************************************************************************)
(* Knowledge attachments: uploads in chunks, their completion as a         *)
(* published file and a row, drafts that articles take up, copies, the     *)
(* trash, and the sweep.  Every operation mixes steps on the disk with     *)
(* transactions; the lock of an upload's id keeps the service's operations *)
(* apart, but saving an article does not take it, and a crash forgets it.  *)
(*                                                                         *)
(* All files have size one, and one draft of one author is modelled.       *)
(* Times are flags: lapsed (the upload has expired), old (the draft's, or  *)
(* a file's, lifetime is over), ripe (the retention in the trash is over). *)
(* An operation is over before a file it writes is old.                    *)
(***************************************************************************)
EXTENDS Integers, FiniteSets

CONSTANTS
    Ids,            \* UUIDs of uploads and attachments
    Articles,
    Parts,          \* indices of an upload's chunks
    Editors,        \* requests in progress
    MaxCrashes      \* bound: crashes of the panel in a behaviour

\* 0 stands for no article and no id.
ASSUME AttachmentConstants == IsFiniteSet(Ids) /\ 0 \notin Ids \cup Articles /\ MaxCrashes \in Nat

VARIABLES
    quota,          \* TotalQuota
    sessions,       \* knowledge_attachment_uploads, knowledge_attachment_chunks
    parts,          \* the chunk files of each upload
    objects,        \* the published file of each attachment
    docs,           \* knowledge_attachments
    articles,       \* knowledge: the articles that exist
    editors,        \* what each request is doing
    sweep,          \* Cleanup
    crashes,
    overdue,        \* attachments finished after their reservation lapsed (ghost)
    forfeited       \* attachments restored after their retention, half discarded, or published
                    \* while the sweep was about to remove their file (ghost)

attachmentVars == <<quota, sessions, parts, objects, docs, articles, editors, sweep, crashes, overdue, forfeited>>

NoSession == [status |-> "none", recorded |-> {}, sound |-> TRUE, lapsed |-> FALSE]
Ended(status) == [NoSession EXCEPT !.status = status]
NoDoc == [state |-> "none", article |-> 0, old |-> FALSE, ripe |-> FALSE]
Draft == [NoDoc EXCEPT !.state = "live"]
Calm == [op |-> "none", id |-> 0, stage |-> "none"]
NoSweep == [stage |-> "none", todo |-> {}, id |-> 0, old |-> {}, orphan |-> 0]

Unfinished == {"initialized", "uploading", "completing"}
Live(id) == docs[id].state = "live"

\* The lock of an id, held from the first step of an operation to its last.
lock(id) == /\ \A e \in Editors : editors[e].id # id
            /\ sweep.id # id
Enter(e, op, id, stage) == /\ editors[e] = Calm /\ lock(id)
                           /\ editors' = [editors EXCEPT ![e] = [op |-> op, id |-> id, stage |-> stage]]
Proceed(e, stage) == editors' = [editors EXCEPT ![e].stage = stage]
Leave(e) == editors' = [editors EXCEPT ![e] = Calm]
At(e, op, stage) == editors[e].op = op /\ editors[e].stage = stage
Ghosts == UNCHANGED <<quota, crashes, overdue, forfeited>>

\* A UUID nobody has used.
Unused(id) == /\ sessions[id] = NoSession /\ docs[id] = NoDoc /\ objects[id] = "none" /\ sweep.orphan # id
             /\ \A e \in Editors : editors[e].op = "clone" => editors[e].copy # id

------------------------------------------------------------------------------
\* Used and reserved.  A reservation counts until it expires.
KnowledgeAttachmentUsage ==
    Cardinality({id \in Ids : docs[id].state # "none"})
    + Cardinality({id \in Ids : sessions[id].status \in Unfinished /\ ~sessions[id].lapsed})

ReserveKnowledgeAttachmentUpload(id, sound) ==
    /\ KnowledgeAttachmentUsage < quota
    /\ sessions' = [sessions EXCEPT ![id] = [NoSession EXCEPT !.status = "initialized", !.sound = sound]]

\* A new id; the digest the author declared may turn out wrong.
Initialize(id) ==
    /\ Unused(id)
    /\ \E sound \in BOOLEAN : ReserveKnowledgeAttachmentUpload(id, sound)
    /\ UNCHANGED <<parts, objects, docs, articles, editors, sweep>> /\ Ghosts

initializeKnowledgeAttachmentUpload(id) == Initialize(id)

\* An upload past its time is marked when it is looked at, unless it is being completed; looking
\* takes no lock.
ExpireKnowledgeAttachmentUpload(id) ==
    /\ sessions[id].lapsed /\ sessions[id].status \in {"initialized", "uploading"}
    /\ sessions' = [sessions EXCEPT ![id].status = "expired"]

Status(id) ==
    /\ ExpireKnowledgeAttachmentUpload(id)
    /\ UNCHANGED <<parts, objects, docs, articles, editors, sweep>> /\ Ghosts

getKnowledgeAttachmentUpload(id) == Status(id)

\* A chunk is published on the disk, then recorded; without its record the file goes again.
StoreChunk(e, id, i) ==
    /\ sessions[id].status \in {"initialized", "uploading"} /\ ~sessions[id].lapsed
    /\ editors[e] = Calm /\ lock(id)
    /\ editors' = [editors EXCEPT ![e] = [op |-> "chunk", id |-> id, stage |-> "record", part |-> i,
                                          created |-> i \notin parts[id]]]
    /\ parts' = [parts EXCEPT ![id] = @ \cup {i}]
    /\ UNCHANGED <<sessions, objects, docs, articles, sweep>> /\ Ghosts

RecordKnowledgeAttachmentChunk(e) ==
    LET w == editors[e] IN
    /\ At(e, "chunk", "record")
    /\ \/ /\ sessions[w.id].status \in {"initialized", "uploading"}
          /\ sessions' = [sessions EXCEPT ![w.id].recorded = @ \cup {w.part}, ![w.id].status = "uploading"]
          /\ UNCHANGED parts
       \/ /\ parts' = IF w.created THEN [parts EXCEPT ![w.id] = @ \ {w.part}] ELSE parts
          /\ UNCHANGED sessions
    /\ Leave(e)
    /\ UNCHANGED <<objects, docs, articles, sweep>> /\ Ghosts

storeKnowledgeAttachmentChunk(e) ==
    (\E id \in Ids, i \in Parts : StoreChunk(e, id, i)) \/ RecordKnowledgeAttachmentChunk(e)

------------------------------------------------------------------------------
\* Completion: marked, assembled and checked, published, recorded, tidied up.  One that was cut off
\* goes on where it is marked, also after the upload's time.
BeginKnowledgeAttachmentCompletion(id) ==
    /\ sessions[id].status = "uploading" /\ ~sessions[id].lapsed /\ sessions[id].recorded = Parts
    /\ sessions' = [sessions EXCEPT ![id].status = "completing"]

Complete(e, id) ==
    /\ Enter(e, "complete", id, "assemble")
    /\ BeginKnowledgeAttachmentCompletion(id) \/ (sessions[id].status = "completing" /\ UNCHANGED sessions)
    /\ UNCHANGED <<parts, objects, docs, articles, sweep>> /\ Ghosts

ResetKnowledgeAttachmentUpload(id) ==
    sessions' = [sessions EXCEPT ![id].recorded = {}, ![id].status = "initialized"]

\* A chunk is missing or cannot be read; the chunks that are there stay for the next try.
failCompletion(e) ==
    LET w == editors[e] IN
    /\ w.op = "complete" /\ w.stage \in {"assemble", "publish", "unpublish"}
    /\ ResetKnowledgeAttachmentUpload(w.id)
    /\ Leave(e)
    /\ UNCHANGED <<parts, objects, docs, articles, sweep>> /\ Ghosts

Assemble(e) ==
    LET w == editors[e] IN
    /\ At(e, "complete", "assemble") /\ parts[w.id] = Parts
    /\ IF sessions[w.id].sound THEN Proceed(e, "publish") /\ UNCHANGED sessions
       ELSE Proceed(e, "wipe") /\ ResetKnowledgeAttachmentUpload(w.id)
    /\ UNCHANGED <<parts, objects, docs, articles, sweep>> /\ Ghosts

Publish(e) ==
    LET id == editors[e].id IN
    /\ At(e, "complete", "publish")
    /\ objects' = [objects EXCEPT ![id] = "new"]
    /\ forfeited' = IF sweep.orphan = id THEN forfeited \cup {id} ELSE forfeited
    /\ Proceed(e, "finish")
    /\ UNCHANGED <<quota, sessions, parts, docs, articles, sweep, crashes, overdue>>

\* Neither the expiry nor the quota is looked at again.
FinishKnowledgeAttachmentUpload(e) ==
    LET id == editors[e].id IN
    /\ At(e, "complete", "finish")
    /\ \/ /\ sessions' = [sessions EXCEPT ![id] = Ended("completed")]
          /\ docs' = [docs EXCEPT ![id] = Draft]
          /\ overdue' = IF sessions[id].lapsed THEN overdue \cup {id} ELSE overdue
          /\ Proceed(e, "wipe")
          /\ UNCHANGED objects
       \/ /\ objects' = [objects EXCEPT ![id] = "none"]
          /\ Proceed(e, "unpublish")
          /\ UNCHANGED <<sessions, docs, overdue>>
    /\ UNCHANGED <<quota, parts, articles, sweep, crashes, forfeited>>

Wipe(e) ==
    /\ At(e, "complete", "wipe")
    /\ parts' = [parts EXCEPT ![editors[e].id] = {}]
    /\ Leave(e)
    /\ UNCHANGED <<sessions, objects, docs, articles, sweep>> /\ Ghosts

completeKnowledgeAttachmentUpload(e) ==
    \/ \E id \in Ids : Complete(e, id)
    \/ Assemble(e) \/ failCompletion(e) \/ Publish(e) \/ FinishKnowledgeAttachmentUpload(e) \/ Wipe(e)

------------------------------------------------------------------------------
\* Cancelling moves the chunks aside, deletes the upload, and moves them back if that fails.
Cancel(e, id) ==
    /\ sessions[id].status \in {"initialized", "uploading", "expired"}
    /\ editors[e] = Calm /\ lock(id)
    /\ editors' = [editors EXCEPT ![e] = [op |-> "cancel", id |-> id, stage |-> "delete", kept |-> parts[id]]]
    /\ parts' = [parts EXCEPT ![id] = {}]
    /\ UNCHANGED <<sessions, objects, docs, articles, sweep>> /\ Ghosts

CancelKnowledgeAttachmentUpload(e) ==
    LET w == editors[e] IN
    /\ At(e, "cancel", "delete")
    /\ \/ sessions' = [sessions EXCEPT ![w.id] = Ended("gone")] /\ UNCHANGED parts
       \/ parts' = [parts EXCEPT ![w.id] = w.kept] /\ UNCHANGED sessions
    /\ Leave(e)
    /\ UNCHANGED <<objects, docs, articles, sweep>> /\ Ghosts

cancelKnowledgeAttachmentUpload(e) == (\E id \in Ids : Cancel(e, id)) \/ CancelKnowledgeAttachmentUpload(e)

\* So does discarding a draft; an article may take it up in between.
GetDraftKnowledgeAttachment(id) == Live(id) /\ docs[id].article = 0

DropDraft(e, id) ==
    /\ GetDraftKnowledgeAttachment(id) /\ objects[id] # "none"
    /\ editors[e] = Calm /\ lock(id)
    /\ editors' = [editors EXCEPT ![e] = [op |-> "drop", id |-> id, stage |-> "delete", kept |-> objects[id]]]
    /\ objects' = [objects EXCEPT ![id] = "none"]
    /\ UNCHANGED <<sessions, parts, docs, articles, sweep>> /\ Ghosts

\* Mutant: a draft that is gone meanwhile, or was taken up, is not put back.
DropForGood(e) ==
    LET w == editors[e] IN
    /\ At(e, "drop", "delete")
    /\ docs' = IF GetDraftKnowledgeAttachment(w.id) THEN [docs EXCEPT ![w.id] = NoDoc] ELSE docs
    /\ Leave(e)
    /\ UNCHANGED <<sessions, parts, objects, articles, sweep>> /\ Ghosts

DeleteDraftKnowledgeAttachment(e) ==
    LET w == editors[e] IN
    /\ At(e, "drop", "delete")
    /\ \/ /\ GetDraftKnowledgeAttachment(w.id)
          /\ docs' = [docs EXCEPT ![w.id] = NoDoc] /\ UNCHANGED objects
       \/ objects' = [objects EXCEPT ![w.id] = w.kept] /\ UNCHANGED docs
    /\ Leave(e)
    /\ UNCHANGED <<sessions, parts, articles, sweep>> /\ Ghosts

dropKnowledgeAttachment(e) == (\E id \in Ids : DropDraft(e, id)) \/ DeleteDraftKnowledgeAttachment(e)

\* A copy of an article's attachment under a new id: file first, then the row within the quota.
CloneForDraft(e, id, copy) ==
    /\ Live(id) /\ docs[id].article # 0 /\ objects[id] # "none"
    /\ KnowledgeAttachmentUsage < quota
    /\ Unused(copy)
    /\ editors[e] = Calm /\ lock(id)
    /\ editors' = [editors EXCEPT ![e] = [op |-> "clone", id |-> id, stage |-> "insert", copy |-> copy]]
    /\ objects' = [objects EXCEPT ![copy] = "new"]
    /\ UNCHANGED <<sessions, parts, docs, articles, sweep>> /\ Ghosts

CreateClonedKnowledgeAttachments(e) ==
    LET copy == editors[e].copy IN
    /\ At(e, "clone", "insert")
    /\ \/ KnowledgeAttachmentUsage < quota /\ docs' = [docs EXCEPT ![copy] = Draft] /\ UNCHANGED objects
       \/ objects' = [objects EXCEPT ![copy] = "none"] /\ UNCHANGED docs
    /\ Leave(e)
    /\ UNCHANGED <<sessions, parts, articles, sweep>> /\ Ghosts

cloneKnowledgeAttachments(e) ==
    (\E id, copy \in Ids : CloneForDraft(e, id, copy)) \/ CreateClonedKnowledgeAttachments(e)

------------------------------------------------------------------------------
\* Articles.  Saving one is a single transaction: what it refers to is its own, in the trash or not,
\* or a draft; while an upload of the draft is unfinished it is refused.
validateKnowledgeAttachmentBindings(a, refs) ==
    /\ \A id \in Ids : sessions[id].status \in Unfinished => sessions[id].lapsed
    /\ \A id \in refs :
        /\ docs[id].state # "none"
        /\ docs[id].article = a \/ (docs[id].article = 0 /\ Live(id))

\* The table with the article's attachments outside refs in the trash and those in refs bound to it.
applyKnowledgeAttachmentBindings(a, refs) ==
    [id \in Ids |->
        CASE id \in refs -> [Draft EXCEPT !.article = a]
          [] id \notin refs /\ docs[id].article = a /\ Live(id) -> [docs[id] EXCEPT !.state = "trash"]
          [] OTHER -> docs[id]]

CreateKnowledgeWithAttachments(a, refs) ==
    /\ a \notin articles /\ validateKnowledgeAttachmentBindings(0, refs)
    /\ \A id \in refs : docs[id].article = 0 /\ Live(id)
    /\ articles' = articles \cup {a}
    /\ docs' = applyKnowledgeAttachmentBindings(a, refs)
    /\ UNCHANGED <<sessions, parts, objects, editors, sweep>> /\ Ghosts

UpdateKnowledgeWithAttachments(a, refs) ==
    /\ a \in articles /\ validateKnowledgeAttachmentBindings(a, refs)
    /\ docs' = applyKnowledgeAttachmentBindings(a, refs)
    /\ docs' # docs
    /\ forfeited' = forfeited \cup {id \in refs : docs[id].ripe}
    /\ UNCHANGED <<quota, sessions, parts, objects, articles, editors, sweep, crashes, overdue>>

\* The references go with the article.
DeleteKnowledgeWithAttachments(a) ==
    /\ a \in articles /\ articles' = articles \ {a}
    /\ docs' = [id \in Ids |-> IF docs[id].article # a THEN docs[id]
                                ELSE [docs[id] EXCEPT !.state = "trash", !.article = 0]]
    /\ UNCHANGED <<sessions, parts, objects, editors, sweep>> /\ Ghosts

createKnowledge(a) == \E refs \in SUBSET Ids : CreateKnowledgeWithAttachments(a, refs)
updateKnowledge(a) == \E refs \in SUBSET Ids : UpdateKnowledgeWithAttachments(a, refs)
deleteKnowledge(a) == DeleteKnowledgeWithAttachments(a)

------------------------------------------------------------------------------
\* The sweep, in the order of its steps, with the time of its start: what lapses or ages later is
\* left for the next one.  Whoever holds a lock is waited for, and a step that fails is passed over.
ListExpiredKnowledgeAttachmentUploads ==
    {id \in Ids : sessions[id].lapsed /\ sessions[id].status \in Unfinished \cup {"expired"}}

Discarding(e) == editors[e].op = "drop" /\ editors[e].kept = "old"

Cleanup ==
    /\ sweep = NoSweep
    /\ sweep' = [NoSweep EXCEPT !.stage = "uploads", !.todo = ListExpiredKnowledgeAttachmentUploads,
                    !.old = {id \in Ids : objects[id] = "old" \/ \E e \in Editors : Discarding(e) /\ editors[e].id = id}]
    /\ UNCHANGED <<sessions, parts, objects, docs, articles, editors>> /\ Ghosts

PassOver(id) ==
    /\ sweep.stage \in {"uploads", "purge"} /\ sweep.id = 0 /\ id \in sweep.todo
    /\ sweep' = [sweep EXCEPT !.todo = @ \ {id}]
    /\ UNCHANGED <<sessions, parts, objects, docs, articles, editors>> /\ Ghosts

\* Files go first, the row last.
SweepUpload(id) ==
    /\ sweep.stage = "uploads" /\ sweep.id = 0 /\ id \in sweep.todo /\ lock(id)
    /\ sweep' = [sweep EXCEPT !.id = id]
    /\ parts' = [parts EXCEPT ![id] = {}]
    /\ UNCHANGED <<sessions, objects, docs, articles, editors>> /\ Ghosts

DeleteExpiredKnowledgeAttachmentUpload ==
    LET id == sweep.id IN
    /\ sweep.stage = "uploads" /\ id # 0
    /\ \/ sessions[id].status \in Unfinished \cup {"expired"} /\ sessions' = [sessions EXCEPT ![id] = Ended("gone")]
       \/ UNCHANGED sessions
    /\ sweep' = [sweep EXCEPT !.id = 0, !.todo = @ \ {id}]
    /\ UNCHANGED <<parts, objects, docs, articles, editors>> /\ Ghosts

SoftDeleteStaleDraftKnowledgeAttachments ==
    /\ sweep.stage = "uploads" /\ sweep.todo = {}
    /\ docs' = [id \in Ids |-> IF GetDraftKnowledgeAttachment(id) /\ docs[id].old
                               THEN [docs[id] EXCEPT !.state = "trash"] ELSE docs[id]]
    /\ sweep' = [sweep EXCEPT !.stage = "drafts"]
    /\ UNCHANGED <<sessions, parts, objects, articles, editors>> /\ Ghosts

ListPurgeableKnowledgeAttachments ==
    /\ sweep.stage = "drafts"
    /\ sweep' = [sweep EXCEPT !.stage = "purge", !.todo = {id \in Ids : docs[id].state = "trash" /\ docs[id].ripe}]
    /\ UNCHANGED <<sessions, parts, objects, docs, articles, editors>> /\ Ghosts

PurgeObject(id) ==
    /\ sweep.stage = "purge" /\ sweep.id = 0 /\ id \in sweep.todo /\ lock(id)
    /\ sweep' = [sweep EXCEPT !.id = id]
    /\ objects' = [objects EXCEPT ![id] = "none"]
    /\ UNCHANGED <<sessions, parts, docs, articles, editors>> /\ Ghosts

DeletePurgedKnowledgeAttachment ==
    LET id == sweep.id IN
    /\ sweep.stage = "purge" /\ id # 0
    /\ \/ docs[id].state = "trash" /\ docs[id].ripe /\ docs' = [docs EXCEPT ![id] = NoDoc]
       \/ UNCHANGED docs
    /\ sweep' = [sweep EXCEPT !.id = 0, !.todo = @ \ {id}]
    /\ UNCHANGED <<sessions, parts, objects, articles, editors>> /\ Ghosts

KnowledgeAttachmentStoragePathExists(id) == docs[id].state # "none"
KnowledgeAttachmentTemporaryPathExists(id) == sessions[id].status \in Unfinished \cup {"expired"}

\* Files that were old when the sweep began, and that nothing refers to.  What a discard has moved
\* aside is not asked after, and keeps its age; chunks go with the uploads that are no more.
CleanupQuarantine ==
    /\ sweep.stage = "purge" /\ sweep.todo = {}
    /\ \E gone \in SUBSET {e \in Editors : Discarding(e) /\ editors[e].id \in sweep.old} :
        /\ editors' = [e \in Editors |-> IF e \in gone THEN [editors[e] EXCEPT !.kept = "none"] ELSE editors[e]]
        /\ forfeited' = forfeited \cup {editors[e].id : e \in gone}
    /\ \E ids \in SUBSET {id \in Ids : ~KnowledgeAttachmentTemporaryPathExists(id)} :
        parts' = [id \in Ids |-> IF id \in ids THEN {} ELSE parts[id]]
    /\ sweep' = [sweep EXCEPT !.stage = "orphans", !.todo = sweep.old]
    /\ UNCHANGED <<quota, sessions, objects, docs, articles, crashes, overdue>>

\* The age of a published file is looked at, then the rows; then it is removed, whatever it is now.
StatOrphan(id) ==
    /\ sweep.stage = "orphans" /\ id \in sweep.todo /\ objects[id] = "old"
    /\ sweep' = [sweep EXCEPT !.stage = "query", !.orphan = id, !.todo = @ \ {id}]
    /\ UNCHANGED <<sessions, parts, objects, docs, articles, editors>> /\ Ghosts

QueryOrphan ==
    /\ sweep.stage = "query"
    /\ sweep' = IF KnowledgeAttachmentStoragePathExists(sweep.orphan)
                THEN [sweep EXCEPT !.stage = "orphans", !.orphan = 0] ELSE [sweep EXCEPT !.stage = "remove"]
    /\ UNCHANGED <<sessions, parts, objects, docs, articles, editors>> /\ Ghosts

RemoveOrphan ==
    /\ sweep.stage = "remove"
    /\ objects' = [objects EXCEPT ![sweep.orphan] = "none"]
    /\ sweep' = [sweep EXCEPT !.stage = "orphans", !.orphan = 0]
    /\ UNCHANGED <<sessions, parts, docs, articles, editors>> /\ Ghosts

\* The scan is over, or at its limit; or the trash could not be listed.
CleanupEnds ==
    /\ sweep.stage \in {"drafts", "orphans"}
    /\ sweep' = NoSweep
    /\ UNCHANGED <<sessions, parts, objects, docs, articles, editors>> /\ Ghosts

cleanupOrphanFiles ==
    CleanupQuarantine \/ (\E id \in Ids : StatOrphan(id)) \/ QueryOrphan \/ RemoveOrphan \/ CleanupEnds

------------------------------------------------------------------------------
\* Time: an upload expires; a draft and a file, both younger than the upload, age after it; the
\* retention in the trash ends.  Requests are over by then.
Lapse(id) ==
    /\ sessions[id].status \in Unfinished /\ ~sessions[id].lapsed
    /\ sessions' = [sessions EXCEPT ![id].lapsed = TRUE]
    /\ UNCHANGED <<parts, objects, docs, articles, editors, sweep>> /\ Ghosts

GrowOld(id) ==
    /\ objects[id] = "new" /\ lock(id)
    /\ \A e \in Editors : editors[e].op = "clone" => editors[e].copy # id
    /\ sessions[id].status \in Unfinished => sessions[id].lapsed
    /\ objects' = [objects EXCEPT ![id] = "old"]
    /\ docs' = IF docs[id].state = "none" THEN docs ELSE [docs EXCEPT ![id].old = TRUE]
    /\ UNCHANGED <<sessions, parts, articles, editors, sweep>> /\ Ghosts

Ripen(id) ==
    /\ docs[id].state = "trash" /\ ~docs[id].ripe
    /\ docs' = [docs EXCEPT ![id].ripe = TRUE]
    /\ UNCHANGED <<sessions, parts, objects, articles, editors, sweep>> /\ Ghosts

\* The panel dies; what was moved aside stays aside.
Crash ==
    /\ crashes < MaxCrashes /\ crashes' = crashes + 1
    /\ editors' = [e \in Editors |-> Calm] /\ sweep' = NoSweep
    /\ forfeited' = forfeited \cup {editors[e].id : e \in {f \in Editors : editors[f].op = "drop"}}
    /\ UNCHANGED <<quota, sessions, parts, objects, docs, articles, overdue>>

AttachmentsInit ==
    /\ quota \in 1..Cardinality(Ids)
    /\ sessions = [id \in Ids |-> NoSession] /\ docs = [id \in Ids |-> NoDoc]
    /\ parts = [id \in Ids |-> {}] /\ objects = [id \in Ids |-> "none"]
    /\ articles = {} /\ editors = [e \in Editors |-> Calm] /\ sweep = NoSweep
    /\ crashes = 0 /\ overdue = {} /\ forfeited = {}

AttachmentsNext ==
    \/ \E id \in Ids : initializeKnowledgeAttachmentUpload(id) \/ getKnowledgeAttachmentUpload(id)
                       \/ SweepUpload(id) \/ PassOver(id) \/ PurgeObject(id) \/ Lapse(id) \/ GrowOld(id) \/ Ripen(id)
    \/ \E e \in Editors : \/ storeKnowledgeAttachmentChunk(e) \/ completeKnowledgeAttachmentUpload(e)
                          \/ cancelKnowledgeAttachmentUpload(e) \/ dropKnowledgeAttachment(e)
                          \/ cloneKnowledgeAttachments(e)
    \/ \E a \in Articles : createKnowledge(a) \/ updateKnowledge(a) \/ deleteKnowledge(a)
    \/ Cleanup \/ DeleteExpiredKnowledgeAttachmentUpload \/ SoftDeleteStaleDraftKnowledgeAttachments
    \/ ListPurgeableKnowledgeAttachments \/ DeletePurgedKnowledgeAttachment \/ cleanupOrphanFiles
    \/ Crash

AttachmentsSpec == AttachmentsInit /\ [][AttachmentsNext]_attachmentVars

------------------------------------------------------------------------------
\* What an article or a draft shows can be opened (service.go Complete, lifecycle.go DropDraft,
\* cleanup.go): no sweep, discard, copy or crash leaves a row without its file.  Left out are one that
\* was restored after its retention was over, which the purge may have taken already; one whose discard
\* a crash cut off, or the sweep, which takes an old file from the quarantine although the discard may
\* yet fail and want it back (cleanup.go:104); and one whose leftover file was published anew between
\* the look of the sweep and the removal, which no lock joins (cleanup.go:128).  And files and
\* reservations stay within the quota, except for the uploads that were finished after their
\* reservation had lapsed (knowledge_attachments.go:117).
AttachmentsKept ==
    /\ \A id \in Ids : Live(id) /\ id \notin forfeited /\ (\A e \in Editors : editors[e].id # id \/ editors[e].op # "drop")
                        => objects[id] # "none"
    /\ KnowledgeAttachmentUsage <= quota + Cardinality(overdue)
=============================================================================
