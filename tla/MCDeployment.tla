---------------------------- MODULE MCDeployment ----------------------------
(* Instances for TLC of what lives beside the database: the attachments of the *)
(* knowledge base, the backups and their copies, and the deployment itself.    *)
EXTENDS Attachments, Backups, Lifecycle

VARIABLE part

\* Two uploads share a quota of one; or an article's attachments are copied.
AttachmentsWithin ==
    /\ AttachmentsNext
    /\ (part = "uploads" /\ articles' = {}) \/ (part = "articles" /\ sessions'[2] = NoSession)

\* One command at a time with copies of bundles; or two that use the same paths.
BackupsWithin ==
    /\ BackupsNext
    /\ \/ /\ part = "copies" /\ clerks'["c2"] = Idle /\ live'.changes = 0
          /\ \A p \in Shelves : shelf'[p] # Empty => shelf'[p].format = 2
       \/ /\ part = "restores" /\ shelf'["b"] = Empty /\ remote' = Empty
          /\ \A j \in Clerks : clerks'[j].op \in {"none", "create", "restore"}
                               /\ (clerks'[j].op = "create" => clerks'[j].to = "a")

Init ==
    /\ part \in {"uploads", "articles", "copies", "restores", "split", "combined"}
    /\ AttachmentsInit /\ BackupsInit
    /\ quota = IF part = "articles" THEN 2 ELSE 1
    /\ LifecycleInit(IF part = "split" THEN "split" ELSE "combined")

Next ==
    /\ \/ part \in {"uploads", "articles"} /\ AttachmentsWithin /\ UNCHANGED <<backupVars, lifecycleVars>>
       \/ part \in {"copies", "restores"} /\ BackupsWithin /\ UNCHANGED <<attachmentVars, lifecycleVars>>
       \/ part \in {"split", "combined"} /\ LifecycleNext /\ UNCHANGED <<attachmentVars, backupVars>>
    /\ UNCHANGED part

Spec == Init /\ [][Next]_<<attachmentVars, backupVars, lifecycleVars, part>>
=============================================================================
