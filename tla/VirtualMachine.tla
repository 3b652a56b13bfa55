--------------------------- MODULE VirtualMachine ---------------------------
(***************************************************************************)
(* The VirtualMachine controller                                           *)
(* (internal/controller/virtualmachine_controller.go) with one             *)
(* VirtualMachine object, its VMClass, the API server, the informer cache  *)
(* the controller reads from, and the hypervisor behind the provider.      *)
(*                                                                         *)
(* A reconcile works on a private copy of the object (vm) and makes its    *)
(* RPCs and its writes one at a time; everybody else moves in between.     *)
(* The work queue runs one reconcile per object at a time, and every path  *)
(* through Reconcile asks to be run again.  A resourceVersion is only ever *)
(* compared with the current one, so it is reduced to whether the copy is  *)
(* still current (cacheFresh, vmFresh).                                    *)
(*                                                                         *)
(* What the environment may still do is bounded by budget: edits by the    *)
(* user, lost calls (a failed or timed-out RPC or API request, a crash of  *)
(* the manager, a reconcile started from a cache that lags), changes made  *)
(* on the hypervisor directly, and tasks that fail.                        *)
(***************************************************************************)
EXTENDS Hypervisor, Naturals

CONSTANTS
    Name,        \* the object's name, and the name Create asks for
    SpecPowers,  \* the values of spec.powerState the user chooses from
    Budget       \* how often the environment interferes, for each kind of provider

ASSUME VirtualMachineAssumption ==
    /\ Name \in Names
    /\ SpecPowers \subseteq {"On", "Off", "OffGraceful"}
    /\ Budget \in [Kinds -> [{"edit", "lost", "drift", "taskFailure"} -> Nat]]

VARIABLES
    obj,         \* the object held by the API server
    cache,       \* the informer's copy of it
    cacheFresh,  \* the informer has seen the last write
    class,       \* VMClass.spec of spec.classRef
    pc,          \* where the reconcile in flight is
    vm,          \* its copy of the object, None between reconciles
    vmFresh,     \* nobody else wrote the object since that copy was made
    vmClass,     \* the class it read in getDependencies
    budget       \* what is left of Budget

apiVars      == <<obj, cache, cacheFresh, class>>
reconcileVars == <<pc, vm, vmFresh, vmClass>>
vars == <<kind, machines, tasks, obj, cache, cacheFresh, class, pc, vm, vmFresh, vmClass, budget>>

Status ==
    [id              : MachineIds \cup {None},
     lastTask        : TaskIds \cup {None},
     reconfigureTask : TaskIds \cup {None},
     current         : Classes \cup {None},
     power           : {"On", "Off", "on", "off", None},
     ready           : BOOLEAN]

Object ==
    [present   : BOOLEAN,
     deleting  : BOOLEAN,
     finalizer : BOOLEAN,
     power     : SpecPowers,
     resources : Classes \cup {None},     \* spec.resources, the override of the class
     status    : Status]

NoStatus == [id |-> None, lastTask |-> None, reconfigureTask |-> None,
             current |-> None, power |-> None, ready |-> FALSE]

Steps == {"idle", "dependencies", "tasks", "describe", "create", "power",
          "reconfigure", "status", "delete", "unfinalize"}

(* Every variable has its type; in particular every power state that a      *)
(* Describe reports and every id that a Create returns fits the status.     *)
TypeOK ==
    /\ kind \in Kinds
    /\ HypervisorTypeOK
    /\ obj \in Object /\ cache \in Object
    /\ vm \in Object \cup {None}
    /\ cacheFresh \in BOOLEAN /\ vmFresh \in BOOLEAN
    /\ class \in Classes
    /\ vmClass \in Classes \cup {None}
    /\ pc \in Steps
    /\ budget \in [{"edit", "lost", "drift", "taskFailure"} -> Nat]

Init ==
    /\ kind \in Kinds
    /\ machines = [m \in MachineIds |-> NoMachine]
    /\ tasks = [t \in TaskIds |-> FreeTask]
    /\ \E p \in SpecPowers :
          obj = [present |-> TRUE, deleting |-> FALSE, finalizer |-> FALSE,
                 power |-> p, resources |-> None, status |-> NoStatus]
    /\ cache = obj /\ cacheFresh = TRUE
    /\ class \in Classes
    /\ pc = "idle" /\ vm = None /\ vmFresh = FALSE /\ vmClass = None
    /\ budget = Budget[kind]

Spend(k) == budget[k] > 0 /\ budget' = [budget EXCEPT ![k] = @ - 1]

-----------------------------------------------------------------------------
(* The API server, the informer and the user.                               *)

(* Anybody but the reconcile in flight writes the object.                   *)
Write(o) == obj' = o /\ cacheFresh' = FALSE /\ vmFresh' = FALSE /\ UNCHANGED <<cache, class>>

SetPower(p) ==
    /\ obj.present /\ p # obj.power
    /\ Spend("edit")
    /\ Write([obj EXCEPT !.power = p])
    /\ UNCHANGED <<hypervisorVars, pc, vm, vmClass>>

SetResources(c) ==
    /\ obj.present /\ c # obj.resources
    /\ Spend("edit")
    /\ Write([obj EXCEPT !.resources = c])
    /\ UNCHANGED <<hypervisorVars, pc, vm, vmClass>>

SetClass(c) ==
    /\ c # class
    /\ Spend("edit")
    /\ class' = c
    /\ UNCHANGED <<hypervisorVars, obj, cache, cacheFresh, reconcileVars>>

(* kubectl delete: the object stays, marked, while it has a finalizer.      *)
RequestDeletion ==
    /\ obj.present /\ ~obj.deleting
    /\ IF obj.finalizer THEN Write([obj EXCEPT !.deleting = TRUE])
                        ELSE Write([obj EXCEPT !.present = FALSE])
    /\ UNCHANGED <<hypervisorVars, pc, vm, vmClass, budget>>

InformerSync ==
    /\ ~cacheFresh
    /\ cache' = obj /\ cacheFresh' = TRUE
    /\ UNCHANGED <<hypervisorVars, obj, class, reconcileVars, budget>>

-----------------------------------------------------------------------------
(* Reconcile: Get from the cache, then one of three ways on.                *)
ReadCache ==
    /\ pc = "idle"
    /\ cache.present
    /\ \/ cacheFresh /\ UNCHANGED budget
       \/ ~cacheFresh /\ Spend("lost")

(* Mutant of HandleDeletion: IsBeingDeleted is not asked.                   *)
HandleDeletionAlways ==
    /\ ReadCache
    /\ cache.finalizer
    /\ vm' = cache /\ vmFresh' = cacheFresh
    /\ pc' = "delete"
    /\ UNCHANGED <<hypervisorVars, apiVars, vmClass>>

HandleDeletion ==
    /\ ReadCache
    /\ cache.deleting /\ cache.finalizer
    /\ vm' = cache /\ vmFresh' = cacheFresh
    /\ pc' = "delete"
    /\ UNCHANGED <<hypervisorVars, apiVars, vmClass>>

(* Update with the cached copy; a copy that is not current is refused, which *)
(* changes nothing.                                                         *)
AddFinalizer ==
    /\ pc = "idle"
    /\ cache.present /\ cacheFresh
    /\ ~cache.deleting /\ ~cache.finalizer
    /\ Write([obj EXCEPT !.finalizer = TRUE])
    /\ UNCHANGED <<hypervisorVars, pc, vm, vmClass, budget>>

(* Mutant of StartReconcile: the missing finalizer does not end the pass.   *)
StartReconcileUnguarded ==
    /\ ReadCache
    /\ ~cache.deleting
    /\ vm' = cache /\ vmFresh' = cacheFresh
    /\ pc' = "dependencies"
    /\ UNCHANGED <<hypervisorVars, apiVars, vmClass>>

StartReconcile ==
    /\ ReadCache
    /\ ~cache.deleting /\ cache.finalizer
    /\ vm' = cache /\ vmFresh' = cacheFresh
    /\ pc' = "dependencies"
    /\ UNCHANGED <<hypervisorVars, apiVars, vmClass>>

-----------------------------------------------------------------------------
(* reconcileVM, up to its first state-changing call.                        *)

(* The copy's status changes and the reconcile goes on at step p.           *)
Proceed(s, p) == vm' = [vm EXCEPT !.status = s] /\ pc' = p /\ UNCHANGED <<vmFresh, vmClass>>

(* The reconcile returns, and its copy is garbage.                          *)
Return == pc' = "idle" /\ vm' = None /\ vmFresh' = FALSE /\ vmClass' = None

NotReady == [vm.status EXCEPT !.ready = FALSE]

getDependencies ==
    /\ pc = "dependencies"
    /\ vmClass' = class
    /\ pc' = "tasks"
    /\ UNCHANGED <<hypervisorVars, apiVars, vm, vmFresh, budget>>

(* A dependency is missing, the provider is not resolved, or Validate fails. *)
DependenciesFail ==
    /\ pc = "dependencies"
    /\ Spend("lost")
    /\ Proceed(NotReady, "status")
    /\ UNCHANGED <<hypervisorVars, apiVars>>

(* What the object asks for and updateCurrentResources records: the class   *)
(* with the override of spec.resources.  buildCreateRequest sends the class *)
(* alone.                                                                   *)
Wanted(o, c) == IF o.resources = None THEN c ELSE o.resources

Finished(t) == t # None => TaskDone(t)

(* Both task references, in the code's order.                               *)
CheckTasks ==
    /\ pc = "tasks"
    /\ LET s == vm.status
           cleared == [s EXCEPT !.lastTask = None]
       IN \/ /\ ~Finished(s.lastTask)                     \* still running, or an error
             /\ Proceed(s, "status")
          \/ /\ Finished(s.lastTask) /\ ~Finished(s.reconfigureTask)
             /\ Proceed(cleared, "status")
          \/ /\ Finished(s.lastTask) /\ Finished(s.reconfigureTask)
             /\ Proceed([cleared EXCEPT
                           !.reconfigureTask = None,
                           !.current = IF s.reconfigureTask = None THEN @
                                       ELSE Wanted(vm, vmClass)],
                        IF s.id = None THEN "create" ELSE "describe")
    /\ UNCHANGED <<hypervisorVars, apiVars, budget>>

(* The TaskStatus RPC itself fails.                                         *)
CheckTasksFails ==
    /\ pc = "tasks"
    /\ Spend("lost")
    /\ \/ vm.status.lastTask # None /\ Proceed(vm.status, "status")
       \/ /\ Finished(vm.status.lastTask) /\ vm.status.reconfigureTask # None
          /\ Proceed([vm.status EXCEPT !.lastTask = None], "status")
    /\ UNCHANGED <<hypervisorVars, apiVars>>

needsReconfigure == vm.status.current \notin {None, Wanted(vm, vmClass)}

(* Describe, and what reconcileVM makes of the answer.                      *)
Vanished == Proceed([vm.status EXCEPT !.id = None], "create")

(* Mutant of Described: the machine's state is not compared with the spec.  *)
DescribedPowerIgnored ==
    LET m == vm.status.id
        seen == [vm.status EXCEPT !.power = ReportedPower(m)]
    IN IF needsReconfigure THEN Proceed(seen, "reconfigure")
       ELSE Proceed([seen EXCEPT !.ready = TRUE], "status")

Described ==
    LET m == vm.status.id
        seen == [vm.status EXCEPT !.power = ReportedPower(m)]
    IN IF ReportedPower(m) # vm.power THEN Proceed(seen, "power")
       ELSE IF needsReconfigure THEN Proceed(seen, "reconfigure")
       ELSE Proceed([seen EXCEPT !.ready = TRUE], "status")

Describe ==
    /\ pc = "describe"
    /\ IF There(vm.status.id) THEN Described
       ELSE IF DescribeErrsOnMissing THEN Proceed(NotReady, "status")
       ELSE Vanished
    /\ UNCHANGED <<hypervisorVars, apiVars, budget>>

(* The call fails on its way; the vSphere server turns the errors below it  *)
(* into "does not exist".                                                   *)
DescribeFails ==
    /\ pc = "describe"
    /\ Spend("lost")
    /\ \/ Proceed(NotReady, "status")
       \/ DescribeHidesErrors /\ Vanished
    /\ UNCHANGED <<hypervisorVars, apiVars>>

-----------------------------------------------------------------------------
(* createVM, adjustPowerState and reconfigureVM: one RPC each, whose effect  *)
(* and answer may part company when the call is lost.                       *)

(* Mutant of createVM: the id is recorded only together with a task.        *)
createVMKeepsId ==
    /\ pc = "create"
    /\ \E m \in MachineIds, t \in TaskIds \cup {None} :
          /\ Create(Name, vmClass, m, t)
          /\ Proceed(IF t = None THEN vm.status
                     ELSE [vm.status EXCEPT !.id = m, !.lastTask = t], "status")
    /\ UNCHANGED <<apiVars, budget>>

createVM ==
    /\ pc = "create"
    /\ \E m \in MachineIds, t \in TaskIds \cup {None} :
          /\ Create(Name, vmClass, m, t)
          /\ Proceed([vm.status EXCEPT !.id = m, !.lastTask = t,
                                       !.current = Wanted(vm, vmClass)], "status")
    /\ UNCHANGED <<apiVars, budget>>

createVMFails ==
    /\ pc = "create"
    /\ Spend("lost")
    /\ \/ UNCHANGED hypervisorVars
       \/ \E m \in MachineIds, t \in TaskIds \cup {None} : Create(Name, vmClass, m, t)
    /\ Proceed(vm.status, "status")
    /\ UNCHANGED apiVars

adjustPowerState ==
    /\ pc = "power"
    /\ \/ \E t \in TaskIds \cup {None} :
             /\ Power(vm.status.id, vm.power, t)
             /\ Proceed(IF t = None THEN vm.status
                        ELSE [vm.status EXCEPT !.lastTask = t], "status")
       \/ /\ PowerRefused(vm.status.id, vm.power)
          /\ Proceed(NotReady, "status")
          /\ UNCHANGED hypervisorVars
    /\ UNCHANGED <<apiVars, budget>>

adjustPowerStateFails ==
    /\ pc = "power"
    /\ Spend("lost")
    /\ \/ UNCHANGED hypervisorVars
       \/ \E t \in TaskIds \cup {None} : Power(vm.status.id, vm.power, t)
    /\ Proceed(NotReady, "status")
    /\ UNCHANGED apiVars

reconfigureVM ==
    /\ pc = "reconfigure"
    /\ \/ \E t \in TaskIds \cup {None} :
             /\ Reconfigure(vm.status.id, vmClass, t)
             /\ Proceed(IF t = None
                        THEN [vm.status EXCEPT !.current = Wanted(vm, vmClass), !.ready = TRUE]
                        ELSE [vm.status EXCEPT !.reconfigureTask = t], "status")
       \/ /\ ReconfigureRefused(vm.status.id)
          /\ Proceed(vm.status, "status")
          /\ UNCHANGED hypervisorVars
    /\ UNCHANGED <<apiVars, budget>>

reconfigureVMFails ==
    /\ pc = "reconfigure"
    /\ Spend("lost")
    /\ \/ UNCHANGED hypervisorVars
       \/ \E t \in TaskIds \cup {None} : Reconfigure(vm.status.id, vmClass, t)
    /\ Proceed(vm.status, "status")
    /\ UNCHANGED apiVars

(* buildCreateRequest fails: the pass ends before anything is written.      *)
reconfigureVMUnbuilt ==
    /\ pc = "reconfigure"
    /\ Spend("lost")
    /\ Return
    /\ UNCHANGED <<hypervisorVars, apiVars>>

-----------------------------------------------------------------------------
(* updateStatus: the API server takes the status if the copy is current and  *)
(* status.powerState is in the enumeration of the CRD.  An error is logged   *)
(* and forgotten.                                                           *)
Accepted == vmFresh /\ obj.present /\ vm.status.power \in {None, "On", "Off", "OffGraceful"}

updateStatus ==
    /\ pc = "status"
    /\ Return
    /\ \/ /\ Accepted
          /\ obj' = [obj EXCEPT !.status = vm.status] /\ cacheFresh' = FALSE
       \/ /\ Accepted => vm.status = obj.status      \* refused, or nothing new to write
          /\ UNCHANGED <<obj, cacheFresh>>
    /\ UNCHANGED <<hypervisorVars, cache, class, budget>>

updateStatusFails ==
    /\ pc = "status"
    /\ Spend("lost")
    /\ Return
    /\ UNCHANGED <<hypervisorVars, apiVars>>

-----------------------------------------------------------------------------
(* handleDeletion.  Its Delete task is not waited for.                      *)
handleDeletion ==
    /\ pc = "delete"
    /\ pc' = "unfinalize"
    /\ IF vm.status.id = None \/ DeleteRefused(vm.status.id)
       THEN UNCHANGED hypervisorVars
       ELSE \E t \in TaskIds \cup {None} : Delete(vm.status.id, t)
    /\ UNCHANGED <<apiVars, vm, vmFresh, vmClass, budget>>

(* Reading the Provider fails: try again later.  The Provider is gone, is   *)
(* not resolved or Delete fails: go on without.                             *)
handleDeletionFails ==
    /\ pc = "delete"
    /\ vm.status.id # None
    /\ Spend("lost")
    /\ \/ Return /\ UNCHANGED hypervisorVars
       \/ /\ pc' = "unfinalize" /\ UNCHANGED <<vm, vmFresh, vmClass>>
          /\ \/ UNCHANGED hypervisorVars
             \/ \E t \in TaskIds \cup {None} : Delete(vm.status.id, t)
    /\ UNCHANGED apiVars

(* Mutant of RemoveFinalizer: the finalizer is dropped from the copy only.  *)
RemoveFinalizerFromCopy ==
    /\ pc = "unfinalize"
    /\ Return
    /\ UNCHANGED <<hypervisorVars, apiVars, budget>>

(* With the last finalizer gone the API server drops the object; a conflict *)
(* is returned, and the object queued again.                                *)
RemoveFinalizer ==
    /\ pc = "unfinalize"
    /\ Return
    /\ IF vmFresh THEN obj' = [obj EXCEPT !.present = FALSE] /\ cacheFresh' = FALSE
                  ELSE UNCHANGED <<obj, cacheFresh>>
    /\ UNCHANGED <<hypervisorVars, cache, class, budget>>

RemoveFinalizerFails ==
    /\ pc = "unfinalize"
    /\ Spend("lost")
    /\ Return
    /\ UNCHANGED <<hypervisorVars, apiVars>>

-----------------------------------------------------------------------------
(* The rest of the environment.                                             *)

(* The manager restarts: the reconcile is gone, the informer lists afresh.  *)
Crash ==
    /\ pc # "idle"
    /\ Spend("lost")
    /\ Return
    /\ cache' = obj /\ cacheFresh' = TRUE
    /\ UNCHANGED <<hypervisorVars, obj, class>>

(* Someone removes the machine, or it stops by itself.                      *)
Drift(m) ==
    /\ There(m)
    /\ Spend("drift")
    /\ \/ machines' = [machines EXCEPT ![m].state = "lost"]
       \/ machines[m].power = "On" /\ machines' = Powered(m, "Off")
    /\ UNCHANGED <<tasks, apiVars, reconcileVars>>

TaskEnds(t) ==
    /\ \/ TaskFinishes(t) /\ UNCHANGED budget
       \/ TaskFails(t) /\ Spend("taskFailure")
    /\ UNCHANGED <<apiVars, reconcileVars>>

(* An identifier nobody refers to any more may be used again.               *)
Referenced(t) ==
    \E o \in {obj, cache} \cup (IF vm = None THEN {} ELSE {vm}) : t \in {o.status.lastTask, o.status.reconfigureTask}

TaskForgotten(t) ==
    /\ tasks[t].state \in {"done", "failed"}
    /\ ~Referenced(t)
    /\ tasks' = [tasks EXCEPT ![t] = FreeTask]
    /\ UNCHANGED <<machines, apiVars, reconcileVars, budget>>

-----------------------------------------------------------------------------
Reconcile == HandleDeletion \/ AddFinalizer \/ StartReconcile

Worker ==
    \/ getDependencies \/ CheckTasks \/ Describe
    \/ createVM \/ adjustPowerState \/ reconfigureVM
    \/ updateStatus \/ handleDeletion \/ RemoveFinalizer

LostCall ==
    \/ DependenciesFail \/ CheckTasksFails \/ DescribeFails
    \/ createVMFails \/ adjustPowerStateFails
    \/ reconfigureVMFails \/ reconfigureVMUnbuilt
    \/ updateStatusFails \/ handleDeletionFails \/ RemoveFinalizerFails \/ Crash

User ==
    \/ \E p \in SpecPowers : SetPower(p)
    \/ \E c \in Classes \cup {None} : SetResources(c)
    \/ \E c \in Classes : SetClass(c)
    \/ RequestDeletion

Next ==
    /\ \/ Reconcile \/ Worker \/ LostCall \/ User \/ InformerSync
       \/ \E m \in MachineIds : Drift(m)
       \/ \E t \in TaskIds : TaskEnds(t) \/ TaskForgotten(t)
    /\ UNCHANGED kind

Spec == Init /\ [][Next]_vars

(* The queue holds the object after every pass, a reconcile runs to its end,  *)
(* watches deliver, and a hypervisor task ends.                               *)
Fairness ==
    /\ WF_vars(Reconcile /\ UNCHANGED kind)
    /\ WF_vars(Worker /\ UNCHANGED kind)
    /\ WF_vars(InformerSync /\ UNCHANGED kind)
    /\ \A t \in TaskIds : /\ WF_vars(TaskEnds(t) /\ UNCHANGED kind)
                          /\ WF_vars(TaskForgotten(t) /\ UNCHANGED kind)

FairSpec == Spec /\ Fairness

-----------------------------------------------------------------------------
(* While the object exists, a machine can only be there once the finalizer   *)
(* is on the object itself, not merely on a copy of it: Reconcile ends the   *)
(* pass after AddFinalizer, and the next one starts from a read.  Without it *)
(* a deletion would never reach handleDeletion.                              *)
FinalizerBeforeMachine == obj.present /\ ThereIds # {} => obj.finalizer

(* The controller removes a machine only after somebody asked for the        *)
(* deletion of the object: a lagging cache, a lost answer or a machine that  *)
(* seems to be gone never lead to provider.Delete.                           *)
DeletesOnlyOnRequest ==
    [][\A m \in MachineIds :
          There(m) /\ machines'[m].state = "deleted" => obj.deleting \/ ~obj.present]_vars

(* With a provider that looks a machine up by its name before it creates one *)
(* (vSphere, libvirt), a Create repeated after a lost answer or a lost       *)
(* status write does not make a second machine.                              *)
LooksUpNames == kind \in {"libvirt", "vsphere"}

OneMachine == LooksUpNames => \A a, b \in Named(Name) : a = b

(* A machine that is there is recorded in status.id sooner or later, or the  *)
(* object is on its way out: the id that a lost answer or a swallowed error  *)
(* of updateStatus lost is found again by the next Create of a provider that *)
(* looks names up.                                                           *)
MachinesBecomeKnown ==
    \A m \in MachineIds :
        LooksUpNames /\ There(m)
            ~> \/ ~There(m) \/ obj.status.id = m
               \/ obj.deleting \/ ~obj.present

(* handleDeletion never gets stuck: an object that is being deleted goes     *)
(* away, whatever happened to its machine, its tasks and its provider.       *)
DeletionCompletes == obj.deleting ~> ~obj.present

(* Once edits, failures and drift stop, the machine is there in the power    *)
(* state asked for, and the object says so.  Two things are left out:        *)
(* "OffGraceful", which no provider ever reports, and Proxmox, whose power   *)
(* states the API server refuses.                                            *)
Converged ==
    \/ obj.deleting \/ ~obj.present
    \/ kind = "proxmox" \/ obj.power = "OffGraceful"
    \/ /\ obj.status.ready
       /\ obj.status.id # None
       /\ There(obj.status.id)
       /\ machines[obj.status.id].power = obj.power
       /\ obj.status.power = obj.power

Converges == <>[]Converged
=============================================================================
