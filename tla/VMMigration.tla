---------------------------- MODULE VMMigration -----------------------------
(***************************************************************************)
(* The VMMigration controller                                              *)
(* (internal/controller/vmmigration_controller.go): one VMMigration object *)
(* that moves a VM from a source provider to a target provider by way of   *)
(* an exported disk file on a PersistentVolumeClaim.  Around it are the    *)
(* source and the target VirtualMachine objects, the claim, the provider   *)
(* pods that must mount it, and the providers' asynchronous tasks.         *)
(*                                                                         *)
(* API server, informer cache and private copy are modelled as in          *)
(* VirtualMachine, but updateStatus is not: on a conflict it takes a fresh *)
(* object from the cache and puts its own status over it.                  *)
(*                                                                         *)
(* spec.storage is set: generateStorageURL fails without it.  The phases   *)
(* Transferring and Converting have handlers, but no code moves a          *)
(* migration into them.                                                    *)
(***************************************************************************)
EXTENDS Naturals

CONSTANTS
    None,         \* the empty string, or no object
    Settings      \* the migrations considered and the world each of them finds

Operations == {"snapshot", "export", "import"}
Providers  == {"source", "target"}

ASSUME MigrationAssumption ==
    Settings \subseteq
      [options     : SUBSET {"createSnapshot", "snapshotRef", "deleteAfterMigration",
                             "verifyChecksums", \* the default
                             "existingPVC"},    \* what the spec asks for
       maxRetries  : Nat,                       \* of spec.options.retryPolicy, 0 without one
       tasks       : SUBSET Operations,         \* what the providers answer with a task
       environment : SUBSET {"managerMounts",   \* the manager's pod mounts the claim too
                             "targetTaken",     \* a VM of the target's name exists
                             "sha256sumFails"}, \* now and then, on a libvirt target
       lostCalls   : Nat]                       \* faults, late caches and interference

VARIABLES
    given,       \* the one of Settings that this migration has; it never changes
    migration,   \* the VMMigration held by the API server
    cache,       \* the informer's copy
    cacheFresh,  \* that copy is current
    pc,          \* where the reconcile in flight is
    copy,        \* its copy of the object, None between reconciles
    copyFresh,   \* nobody else wrote the object since
    source,      \* the source VirtualMachine object
    target,      \* the target VirtualMachine object
    pvc,         \* the claim
    mounted,     \* the providers whose pods mount the claim
    snapshot,    \* the migration's snapshot of the source machine
    file,        \* the exported disk on the claim
    disk,        \* the imported disk on the target
    task,        \* the last task of each operation
    torn,        \* an import has overwritten a complete disk with less
    skipped,     \* the target VM could not be looked up or deleted
    lost         \* what is left of given.lostCalls

apiVars == <<migration, cache, cacheFresh>>
copyVars == <<copy, copyFresh>>
worldVars == <<source, target, pvc, mounted, snapshot, file, disk, task, torn>>
vars == <<given, migration, cache, cacheFresh, pc, copy, copyFresh, source, target,
          pvc, mounted, snapshot, file, disk, task, torn, skipped, lost>>

Phases == {"", "Pending", "Validating", "Snapshotting", "Exporting", "Importing",
           "Creating", "ValidatingTarget", "Ready", "Failed"}

Status ==
    [phase      : Phases,
     snapshotID : {None, "own", "user"},
     exportID   : BOOLEAN,                   \* set or not, as the next two
     importID   : BOOLEAN,
     pvcName    : BOOLEAN,
     taskRef    : Operations \cup {None},
     cleanedUp  : BOOLEAN,
     retryCount : Nat]

Migrations == [present : BOOLEAN, deleting : BOOLEAN, finalizer : BOOLEAN, status : Status]

Contents == {"none", "partial", "complete", "other"}

Targets ==
    [state     : {"none", "there", "deleted", "removed"},  \* by the migration, by the user
     own       : BOOLEAN,      \* annotated with this migration
     ready     : BOOLEAN,      \* has an id and the Ready condition
     completed : BOOLEAN,      \* annotated migration-completed
     disk      : Contents]     \* what it runs from

NoTarget == [state |-> "none", own |-> FALSE, ready |-> FALSE, completed |-> FALSE, disk |-> "none"]

(* Every variable has its type, and Reconcile starts no retry beyond        *)
(* retryPolicy.maxRetries, although it decides on an object that may be old *)
(* and updateStatus writes over newer ones.                                 *)
TypeOK ==
    /\ given \in Settings
    /\ migration \in Migrations /\ cache \in Migrations
    /\ copy \in Migrations \cup {None}
    /\ cacheFresh \in BOOLEAN /\ copyFresh \in BOOLEAN
    /\ migration.status.retryCount <= given.maxRetries
    /\ pc \in Phases \cup {"idle", "savePVC", "wait", "status", "cleanSnapshot", "cleanSource",
                           "delete", "deleteSnapshot", "deleteTarget", "unfinalize"}
    /\ source \in {"unprovisioned", "there", "deleting", "deleted"}
    /\ target \in Targets
    /\ pvc \in {"none", "created", "existing", "deleted"}
    /\ mounted \subseteq Providers
    /\ snapshot \in {"none", "pending", "there"}
    /\ file \in Contents /\ disk \in Contents
    /\ task \in [Operations -> {"none", "running", "done", "failed"}]
    /\ torn \in BOOLEAN /\ skipped \in BOOLEAN
    /\ lost \in 0..given.lostCalls

(* A claim made by the user is mounted if it carries the label that         *)
(* discoverMigrationPVCs looks for.                                         *)
Init ==
    /\ given \in Settings
    /\ migration = [present |-> TRUE, deleting |-> FALSE, finalizer |-> FALSE,
                    status |-> [phase |-> "", snapshotID |-> None, exportID |-> FALSE,
                                importID |-> FALSE, pvcName |-> FALSE, taskRef |-> None,
                                cleanedUp |-> FALSE, retryCount |-> 0]]
    /\ cache = migration /\ cacheFresh = TRUE
    /\ pc = "idle" /\ copy = None /\ copyFresh = FALSE
    /\ source \in {"unprovisioned", "there"}
    /\ target = IF "targetTaken" \in given.environment
                THEN [NoTarget EXCEPT !.state = "there", !.disk = "other"] ELSE NoTarget
    /\ \/ "existingPVC" \notin given.options /\ pvc = "none" /\ mounted = {}
       \/ "existingPVC" \in given.options /\ pvc = "existing" /\ mounted \in {{}, Providers}
    /\ snapshot = "none" /\ file = "none" /\ disk = "none"
    /\ task = [o \in Operations |-> "none"]
    /\ torn = FALSE /\ skipped = FALSE
    /\ lost = given.lostCalls

Lose == lost > 0 /\ lost' = lost - 1

Return == pc' = "idle" /\ copy' = None /\ copyFresh' = FALSE

Write(m) == migration' = m /\ cacheFresh' = FALSE /\ UNCHANGED cache

(* The copy's status changes and the reconcile goes on at step p.           *)
Proceed(s, p) == copy' = [copy EXCEPT !.status = s] /\ pc' = p /\ UNCHANGED copyFresh

(* A handler that ends by moving to a phase, and writes the status.         *)
ToPhase(s, p) == Proceed([s EXCEPT !.phase = p], "status")

transitionToFailed == ToPhase(copy.status, "Failed")

-----------------------------------------------------------------------------
(* Reconcile.                                                               *)
ReadCache ==
    /\ pc = "idle"
    /\ cache.present
    /\ \/ cacheFresh /\ UNCHANGED lost
       \/ ~cacheFresh /\ Lose
    /\ copy' = cache /\ copyFresh' = cacheFresh

AddFinalizer ==
    /\ pc = "idle"
    /\ cache.present /\ cacheFresh
    /\ ~cache.deleting /\ ~cache.finalizer
    /\ Write([migration EXCEPT !.finalizer = TRUE])
    /\ UNCHANGED <<pc, copyVars, worldVars, skipped, lost>>

(* A migration that failed for good, or is cleaned up, is left alone.       *)
StartReconcile ==
    /\ ReadCache
    /\ LET s == cache.status IN
       \/ cache.deleting /\ pc' = "delete"
       \/ /\ ~cache.deleting /\ cache.finalizer
          /\ s.phase = "Failed" => s.retryCount < given.maxRetries
          /\ s.phase = "Ready" => ~s.cleanedUp
          /\ pc' = s.phase
    /\ UNCHANGED <<apiVars, worldVars, skipped>>

(* The first status, and handlePendingPhase.                                *)
initialize ==
    /\ pc = ""
    /\ ToPhase(copy.status, "Pending")
    /\ UNCHANGED <<apiVars, worldVars, skipped, lost>>

handlePendingPhase ==
    /\ pc = "Pending"
    /\ ToPhase(copy.status, "Validating")
    /\ UNCHANGED <<apiVars, worldVars, skipped, lost>>

-----------------------------------------------------------------------------
(* handleValidatingPhase: the claim is made before its name is saved, and    *)
(* the wait for the provider pods follows the save.                         *)
Validated == IF "createSnapshot" \in given.options THEN "Snapshotting" ELSE "Exporting"

SourceHasID == source \in {"there", "deleting"}

handleValidatingPhase ==
    /\ pc = "Validating"
    /\ \/ source = "deleted" /\ transitionToFailed /\ UNCHANGED pvc
       \/ source = "unprovisioned" /\ Proceed(copy.status, "status") /\ UNCHANGED pvc
       \/ SourceHasID /\ copy.status.pvcName /\ ToPhase(copy.status, Validated) /\ UNCHANGED pvc
       \/ /\ SourceHasID /\ ~copy.status.pvcName
          /\ pvc' = IF pvc = "none" THEN "created" ELSE pvc
          /\ Proceed([copy.status EXCEPT !.pvcName = TRUE], "savePVC")
    /\ UNCHANGED <<apiVars, source, target, mounted, snapshot, file, disk, task, torn, skipped, lost>>

waitForProvidersReady ==
    /\ pc = "wait"
    /\ mounted = Providers
    /\ ToPhase(copy.status, Validated)
    /\ UNCHANGED <<apiVars, worldVars, skipped, lost>>

(* Five minutes are over; nobody mounts a claim without the label.          *)
waitForProvidersReadyTimesOut ==
    /\ pc = "wait"
    /\ mounted # Providers
    /\ \/ pvc = "existing" /\ UNCHANGED lost
       \/ pvc # "existing" /\ Lose
    /\ transitionToFailed
    /\ UNCHANGED <<apiVars, worldVars, skipped>>

-----------------------------------------------------------------------------
(* handleSnapshottingPhase.  A snapshot that has an id counts as complete.  *)

(* Proxmox answers with a task and refuses a name that is taken; vSphere    *)
(* waits, and takes another snapshot of the same name.                      *)
SnapshotCreate ==
    /\ "snapshot" \in given.tasks => snapshot = "none"
    /\ IF "snapshot" \in given.tasks
       THEN snapshot' = "pending" /\ task' = [task EXCEPT !["snapshot"] = "running"]
       ELSE snapshot' = "there" /\ UNCHANGED task

handleSnapshottingPhase ==
    /\ pc = "Snapshotting"
    /\ LET s == copy.status IN
       \/ source = "deleted" /\ transitionToFailed /\ UNCHANGED <<snapshot, task>>
       \/ /\ source # "deleted" /\ "snapshotRef" \in given.options
          /\ ToPhase([s EXCEPT !.snapshotID = "user"], "Exporting")
          /\ UNCHANGED <<snapshot, task>>
       \/ /\ source # "deleted" /\ "snapshotRef" \notin given.options /\ s.snapshotID # None
          /\ ToPhase(s, "Exporting")
          /\ UNCHANGED <<snapshot, task>>
       \/ /\ source # "deleted" /\ "snapshotRef" \notin given.options /\ s.snapshotID = None
          /\ \/ /\ SnapshotCreate
                /\ IF "snapshot" \in given.tasks
                   THEN Proceed([s EXCEPT !.snapshotID = "own", !.taskRef = "snapshot"], "status")
                   ELSE ToPhase([s EXCEPT !.snapshotID = "own", !.taskRef = None], "Exporting")
             \/ /\ "snapshot" \in given.tasks /\ snapshot # "none"
                /\ transitionToFailed
                /\ UNCHANGED <<snapshot, task>>
    /\ UNCHANGED <<apiVars, source, target, pvc, mounted, file, disk, torn, skipped, lost>>

-----------------------------------------------------------------------------
(* handleExportingPhase and handleImportingPhase.                           *)

(* The task of an operation that has an id is over, or there is none.       *)
TaskOver(s) == s.taskRef # None => task[s.taskRef] = "done"

(* With an ExportID: wait for the task, if there is one.  IsTaskComplete    *)
(* turns a failed task into an error, and the object is queued again.       *)
handleExportingPhase ==
    /\ pc = "Exporting"
    /\ LET s == copy.status IN
       \/ source = "deleted" /\ transitionToFailed /\ UNCHANGED <<file, task>>
       \/ /\ source # "deleted" /\ s.exportID
          /\ IF TaskOver(s)
             THEN ToPhase([s EXCEPT !.taskRef = None], "Importing")
             ELSE Return
          /\ UNCHANGED <<file, task>>
       \/ /\ source # "deleted" /\ ~s.exportID /\ "source" \notin mounted
          /\ transitionToFailed
          /\ UNCHANGED <<file, task>>
       \/ /\ source # "deleted" /\ ~s.exportID /\ "source" \in mounted
          /\ IF "export" \in given.tasks
             THEN /\ file' = "partial" /\ task' = [task EXCEPT !["export"] = "running"]
                  /\ Proceed([s EXCEPT !.exportID = TRUE, !.taskRef = "export"], "status")
             ELSE /\ file' = "complete" /\ UNCHANGED task
                  /\ ToPhase([s EXCEPT !.exportID = TRUE, !.taskRef = None], "Importing")
    /\ UNCHANGED <<apiVars, source, target, pvc, mounted, snapshot, disk, torn, skipped, lost>>

(* ImportDisk is to compare the file with the checksum that ExportDisk      *)
(* answered with, if it answered after the upload.                          *)
Compares == "verifyChecksums" \in given.options /\ "export" \notin given.tasks

(* Mutant of Verified: the expected checksum is not sent along.             *)
VerifiedAssumed == TRUE

(* ImportDisk accepts the file.  When sha256sum fails, libvirt only warns.  *)
Verified == ~Compares \/ "sha256sumFails" \in given.environment \/ file = "complete"

(* The import so far, of whatever provider: an incomplete one may take the  *)
(* place of a complete disk, whose volume has the same name.                *)
WriteDisk(d) == disk' = d /\ torn' = (torn \/ (disk = "complete" /\ d # "complete"))

(* A checksum that does not match is found before anything is written, or,  *)
(* on libvirt, afterwards.                                                  *)
handleImportingPhase ==
    /\ pc = "Importing"
    /\ LET s == copy.status
           readable == "target" \in mounted /\ file # "none"
       IN
       \/ /\ s.importID
          /\ IF TaskOver(s)
             THEN ToPhase([s EXCEPT !.taskRef = None], "Creating")
             ELSE Return
          /\ UNCHANGED <<disk, task, torn>>
       \/ ~s.importID /\ ~readable /\ transitionToFailed /\ UNCHANGED <<disk, task, torn>>
       \/ /\ ~s.importID /\ readable /\ Compares /\ file # "complete"
          /\ WriteDisk(disk) \/ WriteDisk(file)
          /\ transitionToFailed
          /\ UNCHANGED task
       \/ /\ ~s.importID /\ readable /\ Verified
          /\ IF "import" \in given.tasks
             THEN /\ WriteDisk("partial") /\ task' = [task EXCEPT !["import"] = "running"]
                  /\ Proceed([s EXCEPT !.importID = TRUE, !.taskRef = "import"], "status")
             ELSE /\ WriteDisk(file) /\ UNCHANGED task
                  /\ ToPhase([s EXCEPT !.importID = TRUE, !.taskRef = None], "Creating")
    /\ UNCHANGED <<apiVars, source, target, pvc, mounted, snapshot, file, skipped, lost>>

-----------------------------------------------------------------------------
(* handleCreatingPhase: any VM of the target's name will do.                *)
handleCreatingPhase ==
    /\ pc = "Creating"
    /\ \/ target.state = "there" /\ target.ready
          /\ ToPhase(copy.status, "ValidatingTarget") /\ UNCHANGED target
       \/ target.state = "there" /\ ~target.ready /\ Return /\ UNCHANGED target
       \/ /\ target.state # "there"
          /\ target' = [NoTarget EXCEPT !.state = "there", !.own = TRUE, !.disk = disk]
          /\ Proceed(copy.status, "status")
    /\ UNCHANGED <<apiVars, source, pvc, mounted, snapshot, file, disk, task, torn, skipped, lost>>

(* handleValidatingTargetPhase: the annotation is written first; a write    *)
(* that fails is only logged.                                               *)
handleValidatingTargetPhase ==
    /\ pc = "ValidatingTarget"
    /\ \/ target.state # "there" /\ transitionToFailed /\ UNCHANGED <<target, lost>>
       \/ target.state = "there" /\ ~target.ready
          /\ Proceed(copy.status, "status") /\ UNCHANGED <<target, lost>>
       \/ /\ target.state = "there" /\ target.ready
          /\ \/ target' = [target EXCEPT !.completed = TRUE] /\ UNCHANGED lost
             \/ Lose /\ UNCHANGED target
          /\ ToPhase(copy.status, "Ready")
    /\ UNCHANGED <<apiVars, source, pvc, mounted, snapshot, file, disk, task, torn, skipped>>

-----------------------------------------------------------------------------
(* handleReadyPhase: three cleanups in a row; the first that fails ends the *)
(* reconcile, and the next one starts over.                                 *)

(* cleanupIntermediateStorage opens the claim in the manager's own pod.     *)
cleanupIntermediateStorage ==
    /\ pc = "Ready"
    /\ IF "managerMounts" \in given.environment
       THEN file' = "none" /\ pc' = "cleanSnapshot" /\ UNCHANGED copyVars
       ELSE Return /\ UNCHANGED file
    /\ UNCHANGED <<apiVars, source, target, pvc, mounted, snapshot, disk, task, torn, skipped, lost>>

(* Not the snapshot the user named.  vSphere refuses to delete a snapshot   *)
(* that is not there; for Proxmox that is the task's business, and no one   *)
(* looks at it.                                                             *)
OwnsSnapshot == copy.status.snapshotID # None /\ "snapshotRef" \notin given.options
SnapshotDeletable == source # "deleted" /\ ("snapshot" \in given.tasks \/ snapshot = "there")

deleteSourceSnapshot ==
    /\ pc = "cleanSnapshot"
    /\ IF OwnsSnapshot => SnapshotDeletable
       THEN /\ snapshot' = IF OwnsSnapshot THEN "none" ELSE snapshot
            /\ pc' = "cleanSource" /\ UNCHANGED copyVars
       ELSE Return /\ UNCHANGED snapshot
    /\ UNCHANGED <<apiVars, source, target, pvc, mounted, file, disk, task, torn, skipped, lost>>

deleteSourceVM ==
    /\ pc = "cleanSource"
    /\ IF "deleteAfterMigration" \in given.options /\ source = "deleted"
       THEN Return /\ UNCHANGED source
       ELSE /\ source' = IF "deleteAfterMigration" \in given.options THEN "deleting" ELSE source
            /\ Proceed([copy.status EXCEPT !.cleanedUp = TRUE], "status")
    /\ UNCHANGED <<apiVars, target, pvc, mounted, snapshot, file, disk, task, torn, skipped, lost>>

(* Mutant of handleFailedPhase: the retry is not counted.                   *)
handleFailedPhaseUncounted ==
    /\ pc = "Failed"
    /\ ToPhase([copy.status EXCEPT !.taskRef = None], "Pending")
    /\ UNCHANGED <<apiVars, worldVars, skipped, lost>>

(* Start over, with the ids of the snapshot, the export and the import, and *)
(* without the task.                                                        *)
handleFailedPhase ==
    /\ pc = "Failed"
    /\ ToPhase([copy.status EXCEPT !.retryCount = @ + 1, !.taskRef = None], "Pending")
    /\ UNCHANGED <<apiVars, worldVars, skipped, lost>>

(* A lookup or an RPC of a handler fails, before its effect, half way or    *)
(* with its answer.  An export that breaks off leaves what it wrote         *)
(* (storage/pvc.go writes at the final path), and so does an import.        *)
PhaseFails ==
    /\ pc \in {"Validating", "Snapshotting", "Exporting", "Importing", "Creating", "ValidatingTarget"}
    /\ Lose
    /\ transitionToFailed
    /\ file' \in IF pc = "Exporting" /\ "source" \in mounted /\ ~copy.status.exportID
                 THEN {file, "partial", "complete"} ELSE {file}
    /\ \E d \in IF pc = "Importing" /\ "target" \in mounted /\ file # "none" /\ ~copy.status.importID
                 THEN {disk, "partial", file} ELSE {disk} : WriteDisk(d)
    /\ UNCHANGED <<apiVars, source, target, pvc, mounted, snapshot, task, skipped>>

(* A provider is not ready: handleValidatingPhase writes that down and      *)
(* comes back later.                                                        *)
ProviderNotReady ==
    /\ pc = "Validating" /\ SourceHasID
    /\ Lose
    /\ Proceed(copy.status, "status")
    /\ UNCHANGED <<apiVars, worldVars, skipped>>

(* A cleanup fails: the next reconcile tries again.                         *)
CleanupFails ==
    /\ pc \in {"Ready", "cleanSnapshot", "cleanSource"}
    /\ Lose
    /\ Return
    /\ UNCHANGED <<apiVars, worldVars, skipped>>

-----------------------------------------------------------------------------
(* updateStatus.                                                            *)
Writing == pc \in {"status", "savePVC"}

updateStatus ==
    /\ Writing
    /\ migration.present /\ copyFresh
    /\ Write([migration EXCEPT !.status = copy.status])
    /\ IF pc = "status" THEN Return ELSE pc' = "wait" /\ UNCHANGED copyVars
    /\ UNCHANGED <<worldVars, skipped, lost>>

(* A conflict: take the object from the cache and put the status over it.   *)
refreshStatus ==
    /\ Writing
    /\ ~copyFresh
    /\ cache.present /\ cacheFresh
    /\ copy' = [cache EXCEPT !.status = copy.status]
    /\ copyFresh' = TRUE
    /\ UNCHANGED <<apiVars, pc, worldVars, skipped, lost>>

(* The object is gone, the API server does not answer, or the cache stays   *)
(* behind for all three attempts.                                           *)
updateStatusFails ==
    /\ Writing
    /\ \/ ~migration.present /\ UNCHANGED lost
       \/ migration.present /\ Lose
    /\ Return
    /\ UNCHANGED <<apiVars, worldVars, skipped>>

-----------------------------------------------------------------------------
(* handleDeletion: four cleanups and the finalizer.  A cleanup that fails   *)
(* is only logged.                                                          *)
deleteStorage ==
    /\ pc = "delete"
    /\ file' = IF ~copy.status.cleanedUp /\ "managerMounts" \in given.environment THEN "none" ELSE file
    /\ \/ pvc' = (IF copy.status.pvcName THEN "deleted" ELSE pvc) /\ UNCHANGED lost
       \/ copy.status.pvcName /\ Lose /\ UNCHANGED pvc
    /\ pc' = "deleteSnapshot"
    /\ UNCHANGED <<apiVars, copyVars, source, target, mounted, snapshot, disk, task, torn, skipped>>

deleteSnapshot ==
    /\ pc = "deleteSnapshot"
    /\ \/ snapshot' = (IF OwnsSnapshot /\ SnapshotDeletable THEN "none" ELSE snapshot) /\ UNCHANGED lost
       \/ OwnsSnapshot /\ Lose /\ UNCHANGED snapshot
    /\ pc' = "deleteTarget"
    /\ UNCHANGED <<apiVars, copyVars, source, target, pvc, mounted, file, disk, task, torn, skipped>>

(* Mutant of PartialTarget: only of a failed migration.                     *)
PartialTargetFailedOnly ==
    /\ copy.status.phase = "Failed"
    /\ target.state = "there" /\ target.own /\ ~target.completed

PartialTarget ==
    /\ copy.status.phase \in {"Failed", "Creating"}
    /\ target.state = "there" /\ target.own /\ ~target.completed

deletePartialTarget ==
    /\ pc = "deleteTarget"
    /\ \/ /\ target' = IF PartialTarget THEN [target EXCEPT !.state = "deleted"] ELSE target
          /\ UNCHANGED <<skipped, lost>>
       \/ PartialTarget /\ Lose /\ skipped' = TRUE /\ UNCHANGED target
    /\ pc' = "unfinalize"
    /\ UNCHANGED <<apiVars, copyVars, source, pvc, mounted, snapshot, file, disk, task, torn>>

(* The object is gone with its last finalizer, unless the write conflicts.  *)
RemoveFinalizer ==
    /\ pc = "unfinalize"
    /\ IF copyFresh
       THEN Write([migration EXCEPT !.present = FALSE, !.finalizer = FALSE])
       ELSE UNCHANGED apiVars
    /\ Return
    /\ UNCHANGED <<worldVars, skipped, lost>>

-----------------------------------------------------------------------------
(* The API server, the user and the rest of the cluster.                    *)
RequestDeletion ==
    /\ migration.present /\ ~migration.deleting
    /\ Write([migration EXCEPT !.deleting = TRUE, !.present = migration.finalizer])
    /\ copyFresh' = FALSE
    /\ UNCHANGED <<pc, copy, worldVars, skipped, lost>>

InformerSync ==
    /\ ~cacheFresh
    /\ cache' = migration /\ cacheFresh' = TRUE
    /\ UNCHANGED <<migration, pc, copyVars, worldVars, skipped, lost>>

(* The manager restarts: the reconcile is gone, the informer lists afresh.  *)
Crash ==
    /\ pc # "idle"
    /\ Lose
    /\ Return
    /\ cache' = migration /\ cacheFresh' = TRUE
    /\ UNCHANGED <<migration, worldVars, skipped>>

(* The Provider controller mounts the labelled claims and the pod restarts. *)
PodsRestart(p) ==
    /\ pvc = "created" /\ p \notin mounted
    /\ mounted' = mounted \cup {p}
    /\ UNCHANGED <<apiVars, pc, copyVars, source, target, pvc, snapshot, file, disk, task, torn, skipped, lost>>

(* The garbage collector follows the claim's owner reference.               *)
ClaimCollected ==
    /\ ~migration.present /\ pvc = "created"
    /\ pvc' = "deleted"
    /\ UNCHANGED <<apiVars, pc, copyVars, source, target, mounted, snapshot, file, disk, task, torn, skipped, lost>>

SourceProvisioned ==
    /\ source = "unprovisioned"
    /\ source' = "there"
    /\ UNCHANGED <<apiVars, pc, copyVars, target, pvc, mounted, snapshot, file, disk, task, torn, skipped, lost>>

SourceRemoved ==
    /\ source = "deleting"
    /\ source' = "deleted"
    /\ UNCHANGED <<apiVars, pc, copyVars, target, pvc, mounted, snapshot, file, disk, task, torn, skipped, lost>>

TargetProvisioned ==
    /\ target.state = "there" /\ ~target.ready
    /\ target' = [target EXCEPT !.ready = TRUE]
    /\ UNCHANGED <<apiVars, pc, copyVars, source, pvc, mounted, snapshot, file, disk, task, torn, skipped, lost>>

TargetRemoved ==
    /\ target.state = "there"
    /\ Lose
    /\ target' = [target EXCEPT !.state = "removed"]
    /\ UNCHANGED <<apiVars, pc, copyVars, source, pvc, mounted, snapshot, file, disk, task, torn, skipped>>

TaskSucceeds(o) ==
    /\ task[o] = "running"
    /\ task' = [task EXCEPT ![o] = "done"]
    /\ snapshot' = IF o = "snapshot" /\ snapshot = "pending" THEN "there" ELSE snapshot
    /\ file' = IF o = "export" THEN "complete" ELSE file
    /\ WriteDisk(IF o = "import" THEN file ELSE disk)
    /\ UNCHANGED <<apiVars, pc, copyVars, source, target, pvc, mounted, skipped, lost>>

TaskFails(o) ==
    /\ task[o] = "running"
    /\ Lose
    /\ task' = [task EXCEPT ![o] = "failed"]
    /\ snapshot' = IF o = "snapshot" THEN "none" ELSE snapshot
    /\ UNCHANGED <<apiVars, pc, copyVars, source, target, pvc, mounted, file, disk, torn, skipped>>

-----------------------------------------------------------------------------
Reconcile ==
    \/ AddFinalizer \/ StartReconcile
    \/ initialize \/ handlePendingPhase
    \/ handleValidatingPhase \/ waitForProvidersReady \/ waitForProvidersReadyTimesOut
    \/ handleSnapshottingPhase \/ handleExportingPhase \/ handleImportingPhase
    \/ handleCreatingPhase \/ handleValidatingTargetPhase
    \/ cleanupIntermediateStorage \/ deleteSourceSnapshot \/ deleteSourceVM
    \/ handleFailedPhase
    \/ updateStatus \/ refreshStatus
    \/ deleteStorage \/ deleteSnapshot \/ deletePartialTarget \/ RemoveFinalizer

Faults == PhaseFails \/ ProviderNotReady \/ CleanupFails \/ updateStatusFails \/ Crash

Cluster ==
    \/ InformerSync \/ ClaimCollected
    \/ SourceProvisioned \/ SourceRemoved \/ TargetProvisioned
    \/ \E p \in Providers : PodsRestart(p)
    \/ \E o \in Operations : TaskSucceeds(o)

User == RequestDeletion \/ TargetRemoved

Next ==
    /\ Reconcile \/ Faults \/ Cluster \/ User \/ \E o \in Operations : TaskFails(o)
    /\ UNCHANGED given

Spec == Init /\ [][Next]_vars

(* The work queue keeps a key until its reconcile succeeds, and every       *)
(* handler that waits asks for another reconcile (RequeueAfter).  updateStatus *)
(* returns, on whatever path.  Watches deliver; the VM and Provider         *)
(* controllers and the providers get their work done.                       *)
Fairness ==
    /\ WF_vars((Reconcile \/ updateStatusFails) /\ UNCHANGED given)
    /\ WF_vars(InformerSync /\ UNCHANGED given)
    /\ WF_vars(SourceProvisioned /\ UNCHANGED given)
    /\ WF_vars(TargetProvisioned /\ UNCHANGED given)
    /\ \A p \in Providers : WF_vars(PodsRestart(p) /\ UNCHANGED given)
    /\ \A o \in Operations : WF_vars(TaskSucceeds(o) /\ UNCHANGED given)

FairSpec == Spec /\ Fairness

-----------------------------------------------------------------------------
(* What the controller keeps true.                                          *)

(* A source VM is only deleted when the target VM was made from all of its  *)
(* disk: neither an export that broke off, nor a crash, nor an old object   *)
(* read by a handler, nor a status written over a newer one lets            *)
(* handleReadyPhase delete the source of an incomplete copy.  Checksums are *)
(* to be verified, and no import has spoilt a disk that an earlier one had  *)
(* completed: a pass with an old copy imports a second time, and when that  *)
(* breaks off and a crash loses its verdict, the status still names the     *)
(* disk.                                                                    *)
DataPreserved ==
    /\ source \in {"deleting", "deleted"}
    /\ "verifyChecksums" \in given.options /\ "sha256sumFails" \notin given.environment
    /\ ~torn
    => target.disk = "complete"

(* A migration that is deleted as Failed or Creating takes its unfinished   *)
(* target VM with it, although handleDeletion decides on a copy that may be *)
(* old, unless that very deletion failed.                                   *)
PartialTargetDeleted ==
    /\ ~migration.present
    /\ migration.status.phase \in {"Failed", "Creating"}
    /\ target.state = "there" /\ target.own /\ ~target.completed
    => skipped

(* Every migration comes to rest: Ready, Failed with its retries used up,   *)
(* or deleted.  handleFailedPhase does not retry for ever.                  *)
Settled ==
    \/ ~migration.present
    \/ migration.status.phase = "Ready"
    \/ migration.status.phase = "Failed" /\ migration.status.retryCount = given.maxRetries

Settles == <>[]Settled
=============================================================================
