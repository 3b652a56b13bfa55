----------------------------- MODULE VMSnapshot -----------------------------
(***************************************************************************)
(* The VMSnapshot controller                                               *)
(* (internal/controller/vmsnapshot_controller.go) with one VMSnapshot      *)
(* object, the VirtualMachine it refers to, and the snapshots the provider *)
(* holds of that machine.  The API server, the informer cache and the      *)
(* reconcile's private copy are modelled as in VirtualMachine; unlike that *)
(* controller this one returns most errors of its status writes, and it is *)
(* woken by every change of its object.                                    *)
(***************************************************************************)
EXTENDS Naturals

CONSTANTS
    Kinds,      \* the kinds of provider: of "mock", "libvirt", "vsphere", "proxmox"
    SnapIds,    \* snapshot identifiers
    Name,       \* the name buildSnapshotCreateRequest asks for
    None,       \* the empty string
    LostCalls   \* how many calls fail, passes start from a stale cache, crashes happen

ASSUME SnapshotAssumption ==
    /\ Kinds \subseteq {"mock", "libvirt", "vsphere", "proxmox"}
    /\ Name \in SnapIds
    /\ None \notin SnapIds
    /\ LostCalls \in Nat

VARIABLES
    kind,        \* spec.type of the Provider; it never changes, nor does
    retention,   \* spec.retentionPolicy, the options of it that are set
    snapshot,    \* the VMSnapshot held by the API server
    cache,       \* the informer's copy
    cacheFresh,  \* the copy is current
    pc,          \* where the reconcile in flight is
    copy,        \* its copy of the object, None between reconciles
    copyFresh,   \* nobody else wrote the object since
    vm,          \* the referenced VirtualMachine
    held,        \* snapshot id -> what the hypervisor holds
    task,        \* snapshot id -> the task that creates it
    aged,        \* maxAge has passed since status.creationTime
    refused,     \* the snapshots whose deletion failed, in the call or in its task
    lost         \* what is left of LostCalls

apiVars == <<snapshot, cache, cacheFresh>>
copyVars == <<copy, copyFresh>>
providerVars == <<held, task>>
givenVars == <<kind, retention>>
vars == <<kind, retention, snapshot, cache, cacheFresh, pc, copy, copyFresh, vm,
          held, task, aged, refused, lost>>

ByName == kind \in {"libvirt", "proxmox"}   \* the id is the name asked for
Async  == kind \in {"mock", "proxmox"}      \* operations end with a task

Phases == {"", "Creating", "Ready", "Failed", "Deleting"}
RetentionPolicy == {"maxAge", "vmDelete"}

VMSnapshots ==
    [present : BOOLEAN, deleting : BOOLEAN, finalizer : BOOLEAN,
     phase   : Phases,
     id      : SnapIds \cup {None},
     taskRef : SnapIds \cup {None},
     created : BOOLEAN]             \* status.creationTime is set

(* Every variable has its type; in particular status.phase is one of the    *)
(* values the CRD admits, whichever handler wrote it last.                  *)
TypeOK ==
    /\ kind \in Kinds /\ retention \subseteq RetentionPolicy
    /\ snapshot \in VMSnapshots /\ cache \in VMSnapshots
    /\ copy \in VMSnapshots \cup {None}
    /\ cacheFresh \in BOOLEAN /\ copyFresh \in BOOLEAN
    /\ pc \in {"idle", "create", "check", "retention", "status",
               "delete", "providerDelete", "unfinalize"}
    /\ vm \in {"provisioning", "provisioned", "gone"}
    /\ held \in [SnapIds -> {"unused", "pending", "there", "deleting", "deleted"}]
    /\ task \in [SnapIds -> {"none", "running", "done", "failed"}]
    /\ aged \in BOOLEAN /\ refused \subseteq SnapIds
    /\ lost \in 0..LostCalls

Init ==
    /\ kind \in Kinds /\ retention \in SUBSET RetentionPolicy
    /\ snapshot = [present |-> TRUE, deleting |-> FALSE, finalizer |-> FALSE,
                   phase |-> "", id |-> None, taskRef |-> None, created |-> FALSE]
    /\ cache = snapshot /\ cacheFresh = TRUE
    /\ pc = "idle" /\ copy = None /\ copyFresh = FALSE
    /\ vm \in {"provisioning", "provisioned"}
    /\ held = [s \in SnapIds |-> "unused"]
    /\ task = [s \in SnapIds |-> "none"]
    /\ aged = FALSE /\ refused = {}
    /\ lost = LostCalls

Lose == lost > 0 /\ lost' = lost - 1

Return == pc' = "idle" /\ copy' = None /\ copyFresh' = FALSE

(* A write by anybody but the reconcile in flight.                          *)
Write(o) == snapshot' = o /\ cacheFresh' = FALSE /\ UNCHANGED cache

-----------------------------------------------------------------------------
(* The provider, behind SnapshotCreate and SnapshotDelete.                  *)

(* libvirt and Proxmox name the snapshot themselves and refuse a name that  *)
(* is taken; mock and vSphere hand out a new id.  vSphere and libvirt wait. *)
SnapshotCreate(s) ==
    /\ vm # "gone"
    /\ IF ByName THEN s = Name /\ held[s] \in {"unused", "deleted"} ELSE held[s] = "unused"
    /\ held' = [held EXCEPT ![s] = IF kind = "proxmox" THEN "pending" ELSE "there"]
    /\ task' = [task EXCEPT ![s] = IF Async THEN "running" ELSE "none"]

SnapshotCreateRefused == \/ vm = "gone"
                         \/ ByName /\ held[Name] \notin {"unused", "deleted"}

SnapshotDelete(s) ==
    /\ held[s] = "there"
    /\ held' = [held EXCEPT ![s] = IF Async THEN "deleting" ELSE "deleted"]
    /\ UNCHANGED task

-----------------------------------------------------------------------------
(* Reconcile, from the cache.                                               *)
ReadCache ==
    /\ pc = "idle"
    /\ cache.present
    /\ \/ cacheFresh /\ UNCHANGED lost
       \/ ~cacheFresh /\ Lose

AddFinalizer ==
    /\ pc = "idle"
    /\ cache.present /\ cacheFresh
    /\ ~cache.deleting /\ ~cache.finalizer
    /\ Write([snapshot EXCEPT !.finalizer = TRUE])
    /\ UNCHANGED <<pc, copyVars, vm, providerVars, aged, refused, lost>>

(* The VM is not there, or has no id yet: a condition is written, which     *)
(* gives the object a new version, and the pass ends.                       *)
WaitForVM ==
    /\ pc = "idle"
    /\ cache.present /\ cacheFresh
    /\ ~cache.deleting /\ cache.finalizer
    /\ vm # "provisioned"
    /\ cacheFresh' = FALSE
    /\ UNCHANGED <<snapshot, cache, pc, copyVars, vm, providerVars, aged, refused, lost>>

(* The switch over status.phase; Failed is left alone.                      *)
StartReconcile ==
    /\ ReadCache
    /\ \/ cache.deleting /\ pc' = "delete"
       \/ /\ ~cache.deleting /\ cache.finalizer
          /\ vm = "provisioned"
          /\ \/ cache.phase = "" /\ pc' = "create"
             \/ cache.phase = "Creating" /\ pc' = "check"
             \/ cache.phase = "Ready" /\ pc' = "retention"
    /\ copy' = cache /\ copyFresh' = cacheFresh
    /\ UNCHANGED <<apiVars, vm, providerVars, aged, refused>>

-----------------------------------------------------------------------------
(* createSnapshot.                                                          *)

createSnapshot ==
    /\ pc = "create"
    /\ pc' = "status"
    /\ \/ \E s \in SnapIds :
             /\ SnapshotCreate(s)
             /\ copy' = [copy EXCEPT !.id = s, !.created = TRUE,
                                     !.phase = IF Async THEN "Creating" ELSE "Ready",
                                     !.taskRef = IF Async THEN s ELSE None]
       \/ /\ SnapshotCreateRefused
          /\ copy' = [copy EXCEPT !.phase = "Failed"]
          /\ UNCHANGED providerVars
    /\ UNCHANGED <<apiVars, copyFresh, vm, aged, refused, lost>>

(* The Provider or its client is not to be had: the phase is already        *)
(* Creating and stays so.  The RPC fails, with or without its effect: the   *)
(* phase is Failed.                                                         *)
createSnapshotFails ==
    /\ pc = "create"
    /\ Lose
    /\ pc' = "status"
    /\ \/ copy' = [copy EXCEPT !.phase = "Creating"] /\ UNCHANGED providerVars
       \/ /\ copy' = [copy EXCEPT !.phase = "Failed"]
          /\ UNCHANGED providerVars \/ \E s \in SnapIds : SnapshotCreate(s)
    /\ UNCHANGED <<apiVars, copyFresh, vm, aged, refused>>

(* checkSnapshotCreation.  Without a task reference the snapshot is taken   *)
(* to be complete.                                                          *)
checkSnapshotCreation ==
    /\ pc = "check"
    /\ \/ /\ copy.taskRef # None => task[copy.taskRef] = "done"
          /\ copy' = [copy EXCEPT !.phase = "Ready", !.taskRef = None]
          /\ pc' = "status" /\ UNCHANGED copyFresh
       \/ /\ copy.taskRef # None /\ task[copy.taskRef] = "failed"
          /\ copy' = [copy EXCEPT !.phase = "Failed", !.taskRef = None]
          /\ pc' = "status" /\ UNCHANGED copyFresh
       \/ copy.taskRef # None /\ task[copy.taskRef] = "running" /\ Return
    /\ UNCHANGED <<apiVars, vm, providerVars, aged, refused, lost>>

(* A failed call is tried again later; the Proxmox server reports its own   *)
(* failed status call as a failed task.                                     *)
checkSnapshotCreationFails ==
    /\ pc = "check"
    /\ copy.taskRef # None
    /\ Lose
    /\ \/ Return
       \/ /\ kind = "proxmox"
          /\ copy' = [copy EXCEPT !.phase = "Failed", !.taskRef = None]
          /\ pc' = "status" /\ UNCHANGED copyFresh
    /\ UNCHANGED <<apiVars, vm, providerVars, aged, refused>>

(* Mutant of handleRetention: maxAge is not looked at.                      *)
handleRetentionAgeless ==
    /\ pc = "retention"
    /\ Return
    /\ UNCHANGED <<apiVars, vm, providerVars, aged, refused, lost>>

(* handleRetention.  maxAge reads status.creationTime, and a nil one ends   *)
(* the pass with a panic.                                                   *)
handleRetention ==
    /\ pc = "retention"
    /\ Return
    /\ IF /\ "maxAge" \in retention => copy.created
          /\ \/ "maxAge" \in retention /\ aged
             \/ "vmDelete" \in retention /\ vm = "gone"
          /\ snapshot.present /\ ~snapshot.deleting
       THEN Write([snapshot EXCEPT !.deleting = TRUE])
       ELSE UNCHANGED apiVars
    /\ UNCHANGED <<vm, providerVars, aged, refused, lost>>

-----------------------------------------------------------------------------
(* Status().Update of the copy.                                             *)
WithStatus(o, c) == [o EXCEPT !.phase = c.phase, !.id = c.id,
                              !.taskRef = c.taskRef, !.created = c.created]

(* Mutant of updateStatus: the write does not carry the version it read.    *)
updateStatusBlind ==
    /\ pc = "status"
    /\ Return
    /\ IF snapshot.present THEN Write(WithStatus(snapshot, copy)) ELSE UNCHANGED apiVars
    /\ UNCHANGED <<vm, providerVars, aged, refused, lost>>

updateStatus ==
    /\ pc = "status"
    /\ Return
    /\ IF copyFresh THEN Write(WithStatus(snapshot, copy)) ELSE UNCHANGED apiVars
    /\ UNCHANGED <<vm, providerVars, aged, refused, lost>>

updateStatusFails ==
    /\ pc = "status"
    /\ Lose
    /\ Return
    /\ UNCHANGED <<apiVars, vm, providerVars, aged, refused>>

-----------------------------------------------------------------------------
(* handleDeletion: the phase is written first, and whether that worked is   *)
(* not asked; a refused write leaves a copy that is not current.  What      *)
(* SnapshotDelete answers, an error or a task, is only logged.              *)
MarkDeleting ==
    /\ pc = "delete"
    /\ pc' = "providerDelete"
    /\ copy' = [copy EXCEPT !.phase = "Deleting"]
    /\ IF copyFresh THEN Write(WithStatus(snapshot, copy')) ELSE UNCHANGED apiVars
    /\ UNCHANGED <<copyFresh, vm, providerVars, aged, refused, lost>>

(* Mutant of handleDeletion: nothing is asked of the provider.              *)
handleDeletionLocal ==
    /\ pc = "providerDelete"
    /\ pc' = "unfinalize"
    /\ UNCHANGED <<apiVars, copyVars, vm, providerVars, aged, refused, lost>>

handleDeletion ==
    /\ pc = "providerDelete"
    /\ pc' = "unfinalize"
    /\ IF vm # "provisioned" \/ copy.id = None
       THEN UNCHANGED <<providerVars, refused>>
       ELSE \/ SnapshotDelete(copy.id) /\ UNCHANGED refused
            \/ /\ held[copy.id] # "there"
               /\ refused' = refused \cup {copy.id}
               /\ UNCHANGED providerVars
    /\ UNCHANGED <<apiVars, copyVars, vm, aged, lost>>

(* Reading the VM or the Provider fails: again later.  SnapshotDelete fails: *)
(* go on.                                                                   *)
handleDeletionFails ==
    /\ pc = "providerDelete"
    /\ Lose
    /\ \/ Return /\ UNCHANGED <<providerVars, refused>>
       \/ /\ vm = "provisioned" /\ copy.id # None
          /\ pc' = "unfinalize" /\ UNCHANGED copyVars
          /\ refused' = refused \cup {copy.id}
          /\ UNCHANGED providerVars \/ SnapshotDelete(copy.id)
    /\ UNCHANGED <<apiVars, vm, aged>>

RemoveFinalizer ==
    /\ pc = "unfinalize"
    /\ Return
    /\ IF copyFresh THEN Write([snapshot EXCEPT !.present = FALSE]) ELSE UNCHANGED apiVars
    /\ UNCHANGED <<vm, providerVars, aged, refused, lost>>

-----------------------------------------------------------------------------
(* Everybody else.                                                          *)
RequestDeletion ==
    /\ snapshot.present /\ ~snapshot.deleting
    /\ Write(IF snapshot.finalizer THEN [snapshot EXCEPT !.deleting = TRUE]
                                   ELSE [snapshot EXCEPT !.present = FALSE])
    /\ copyFresh' = FALSE
    /\ UNCHANGED <<pc, copy, vm, providerVars, aged, refused, lost>>

InformerSync ==
    /\ ~cacheFresh
    /\ cache' = snapshot /\ cacheFresh' = TRUE
    /\ UNCHANGED <<snapshot, pc, copyVars, vm, providerVars, aged, refused, lost>>

Crash ==
    /\ pc # "idle"
    /\ Lose
    /\ Return
    /\ cache' = snapshot /\ cacheFresh' = TRUE
    /\ UNCHANGED <<snapshot, vm, providerVars, aged, refused>>

VMProvisioned ==
    /\ vm = "provisioning" /\ vm' = "provisioned"
    /\ UNCHANGED <<apiVars, pc, copyVars, providerVars, aged, refused, lost>>

(* The machine goes, and its snapshots with it.                             *)
VMDeleted ==
    /\ vm = "provisioned" /\ vm' = "gone"
    /\ held' = [s \in SnapIds |-> IF held[s] = "unused" THEN "unused" ELSE "deleted"]
    /\ task' = [s \in SnapIds |-> IF task[s] = "running" THEN "failed" ELSE task[s]]
    /\ UNCHANGED <<apiVars, pc, copyVars, aged, refused, lost>>

TaskEnds(s) ==
    /\ task[s] = "running"
    /\ \/ /\ task' = [task EXCEPT ![s] = "done"]
          /\ held' = [held EXCEPT ![s] = IF @ = "pending" THEN "there" ELSE @]
          /\ UNCHANGED lost
       \/ /\ kind = "proxmox" /\ Lose
          /\ task' = [task EXCEPT ![s] = "failed"]
          /\ held' = [held EXCEPT ![s] = IF @ = "pending" THEN "unused" ELSE @]
    /\ UNCHANGED <<apiVars, pc, copyVars, vm, aged, refused>>

(* A deletion that ends with a task ends after the answer; on Proxmox the   *)
(* task may fail, and the snapshot stays.                                   *)
DeletionEnds(s) ==
    /\ held[s] = "deleting"
    /\ \/ /\ held' = [held EXCEPT ![s] = "deleted"]
          /\ UNCHANGED <<refused, lost>>
       \/ /\ kind = "proxmox" /\ Lose
          /\ held' = [held EXCEPT ![s] = "there"]
          /\ refused' = refused \cup {s}
    /\ UNCHANGED <<apiVars, pc, copyVars, vm, task, aged>>

MaxAgePasses ==
    /\ ~aged /\ "maxAge" \in retention /\ snapshot.created
    /\ aged' = TRUE
    /\ UNCHANGED <<apiVars, pc, copyVars, vm, providerVars, refused, lost>>

Worker ==
    \/ createSnapshot \/ checkSnapshotCreation \/ handleRetention \/ updateStatus
    \/ MarkDeleting \/ handleDeletion \/ RemoveFinalizer

LostCall ==
    \/ createSnapshotFails \/ checkSnapshotCreationFails \/ updateStatusFails
    \/ handleDeletionFails \/ Crash

Reconcile == AddFinalizer \/ WaitForVM \/ StartReconcile

Next ==
    /\ \/ Reconcile \/ Worker \/ LostCall
       \/ RequestDeletion \/ InformerSync \/ VMProvisioned \/ VMDeleted \/ MaxAgePasses
       \/ \E s \in SnapIds : TaskEnds(s) \/ DeletionEnds(s)
    /\ UNCHANGED givenVars

Spec == Init /\ [][Next]_vars

(* Every pass that leaves work to do asks for another or changes the object, *)
(* which wakes the controller; the provider ends its tasks.                  *)
Fairness ==
    /\ WF_vars(Reconcile /\ UNCHANGED givenVars)
    /\ WF_vars(Worker /\ UNCHANGED givenVars)
    /\ WF_vars(InformerSync /\ UNCHANGED givenVars)
    /\ WF_vars(MaxAgePasses /\ UNCHANGED givenVars)
    /\ \A s \in SnapIds : /\ WF_vars(TaskEnds(s) /\ UNCHANGED givenVars)
                          /\ WF_vars(DeletionEnds(s) /\ UNCHANGED givenVars)

FairSpec == Spec /\ Fairness

-----------------------------------------------------------------------------
(* A snapshot that was reported Ready or Failed is never reported otherwise  *)
(* again, except that it is being deleted: a pass that started from an older *)
(* copy cannot write over the verdict.                                       *)
VerdictIsFinal ==
    [][snapshot.phase \in {"Ready", "Failed"} =>
          snapshot'.phase \in {snapshot.phase, "Deleting"}]_vars

(* The finalizer does not go while the recorded snapshot is on the           *)
(* hypervisor, unless its deletion failed: with an error of SnapshotDelete,  *)
(* or on Proxmox in the task it answered with, neither of which              *)
(* handleDeletion heeds.  A pass that skips the provider because its copy    *)
(* lags cannot also remove the finalizer.                                    *)
RecordedIsDeleted ==
    ~snapshot.present /\ snapshot.id # None /\ snapshot.id \notin refused /\ vm = "provisioned"
        => held[snapshot.id] # "there"

(* A Ready snapshot past its maxAge is deleted, as long as its VM exists.    *)
ExpiryDeletes ==
    snapshot.phase = "Ready" /\ snapshot.created /\ aged
        ~> snapshot.deleting \/ ~snapshot.present \/ vm = "gone"
=============================================================================
