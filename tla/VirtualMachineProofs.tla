------------------------ MODULE VirtualMachineProofs ------------------------
(***************************************************************************)
(* Theorems about VirtualMachine for every provider kind, every number of  *)
(* machines, tasks and classes, and every budget of edits, lost calls,     *)
(* drift and failing tasks.                                                *)
(***************************************************************************)
EXTENDS VirtualMachine, TLAPS

Deleting(t) == tasks[t].state = "running" /\ tasks[t].op = "delete"

(* What the hypervisor part of a step may not do.                           *)
NoNewMachine   == \A m \in MachineIds :
                      There(m)' => There(m) /\ machines'[m].name = machines[m].name
NoNewDeletion  == \A t \in TaskIds : Deleting(t)' => Deleting(t)
NothingDeleted == \A m \in MachineIds : There(m) => machines'[m].state # "deleted"

-----------------------------------------------------------------------------
(* The provider operations keep the types.                                  *)

(* A task that starts is well formed, and only a Delete starts a deletion.  *)
LEMMA TaskStarts ==
    ASSUME tasks \in [TaskIds -> Task], NEW t, NEW m \in MachineIds,
           NEW o \in {"create", "delete", "On", "Off", "reconfigure"}, Start(t, o, m)
    PROVE  tasks' \in [TaskIds -> Task] /\ (o # "delete" => NoNewDeletion)
<1>1. PICK r : r = [state |-> "running", op |-> o, machine |-> m]
  BY Zenon
<1>2. r \in Task /\ r.op = o
  BY <1>1 DEF Task
<1>3. t \in TaskIds /\ tasks' = [tasks EXCEPT ![t] = r]
  BY <1>1, Zenon DEF Start
<1>4. tasks' \in [TaskIds -> Task]
  BY <1>2, <1>3
<1>5. ASSUME o # "delete", NEW u \in TaskIds, Deleting(u)'  PROVE Deleting(u)
  <2>1. u # t
    BY <1>2, <1>3, <1>5 DEF Deleting
  <2> QED
    BY <1>3, <1>5, <2>1 DEF Deleting
<1> QED
  BY <1>4, <1>5 DEF NoNewDeletion

(* A task that ends stays well formed and is a deletion no longer.          *)
LEMMA TaskIsOver ==
    ASSUME tasks \in [TaskIds -> Task], NEW t \in TaskIds, NEW q \in {"done", "failed"},
           tasks' = [tasks EXCEPT ![t].state = q]
    PROVE  tasks' \in [TaskIds -> Task] /\ NoNewDeletion
<1>1. PICK r : r = [tasks[t] EXCEPT !.state = q]
  BY Zenon
<1>2. r \in Task /\ r.state # "running"
  BY <1>1 DEF Task
<1>3. tasks' = [tasks EXCEPT ![t] = r]
  BY <1>1, Zenon
<1>4. tasks' \in [TaskIds -> Task]
  BY <1>2, <1>3
<1>5. ASSUME NEW u \in TaskIds, Deleting(u)'  PROVE Deleting(u)
  <2>1. u # t
    BY <1>2, <1>3, <1>5 DEF Deleting
  <2> QED
    BY <1>3, <1>5, <2>1 DEF Deleting
<1> QED
  BY <1>4, <1>5 DEF NoNewDeletion

(* A machine whose power or class changes is the machine it was.            *)
LEMMA MachineAdjusted ==
    ASSUME machines \in [MachineIds -> Machine], NEW m \in MachineIds, NEW r \in Machine,
           r.state = machines[m].state, r.name = machines[m].name,
           machines' = [machines EXCEPT ![m] = r]
    PROVE  machines' \in [MachineIds -> Machine] /\ NoNewMachine /\ NothingDeleted
<1>1. machines' \in [MachineIds -> Machine]
  OBVIOUS
<1>2. \A o \in MachineIds : machines'[o].state = machines[o].state /\ machines'[o].name = machines[o].name
  OBVIOUS
<1> QED
  BY <1>1, <1>2 DEF NoNewMachine, NothingDeleted, There

LEMMA MachinePowered ==
    ASSUME machines \in [MachineIds -> Machine], NEW m \in MachineIds, NEW p \in {"On", "Off"},
           machines' = Powered(m, p)
    PROVE  machines' \in [MachineIds -> Machine] /\ NoNewMachine /\ NothingDeleted
<1>1. PICK r : r = [machines[m] EXCEPT !.power = p]
  BY Zenon
<1>2. r \in Machine /\ r.state = machines[m].state /\ r.name = machines[m].name
  BY <1>1 DEF Machine
<1>3. machines' = [machines EXCEPT ![m] = r]
  BY <1>1, Zenon DEF Powered
<1> QED
  BY <1>2, <1>3, MachineAdjusted, Zenon

LEMMA MachineReclassed ==
    ASSUME machines \in [MachineIds -> Machine], NEW m \in MachineIds, NEW c \in Classes \cup {None},
           machines' = [machines EXCEPT ![m].class = c]
    PROVE  machines' \in [MachineIds -> Machine] /\ NoNewMachine /\ NothingDeleted
<1>1. PICK r : r = [machines[m] EXCEPT !.class = c]
  BY Zenon
<1>2. r \in Machine /\ r.state = machines[m].state /\ r.name = machines[m].name
  BY <1>1 DEF Machine
<1>3. machines' = [machines EXCEPT ![m] = r]
  BY <1>1, Zenon
<1> QED
  BY <1>2, <1>3, MachineAdjusted, Zenon

(* Nothing happens to the machines, or to the tasks.                        *)
LEMMA MachinesStay ==
    ASSUME machines \in [MachineIds -> Machine], machines' = machines
    PROVE  machines' \in [MachineIds -> Machine] /\ NoNewMachine /\ NothingDeleted
BY DEF NoNewMachine, NothingDeleted, There

LEMMA TasksStay ==
    ASSUME tasks \in [TaskIds -> Task], tasks' = tasks
    PROVE  tasks' \in [TaskIds -> Task] /\ NoNewDeletion
BY DEF NoNewDeletion, Deleting

(* Create makes machines and deletes none, whatever the provider.           *)
LEMMA CreateEffect ==
    ASSUME HypervisorTypeOK, NEW n \in Names, NEW c \in Classes \cup {None},
           NEW m \in MachineIds, NEW t \in TaskIds \cup {None}, Create(n, c, m, t)
    PROVE  HypervisorTypeOK' /\ NoNewDeletion /\ NothingDeleted
<1> USE DEF HypervisorTypeOK, Machine, Task, NewMachine, There
<1>1. ASSUME NEW p \in {"On", "Off"}, NEW d \in Classes \cup {None}
      PROVE  NewMachine(n, p, d) \in Machine
  OBVIOUS
<1>2. machines' \in [MachineIds -> Machine] /\ NothingDeleted
  <2>1. machines' = machines
        \/ \E p \in {"On", "Off"}, d \in Classes \cup {None} :
              machines' = [machines EXCEPT ![m] = NewMachine(n, p, d)]
    BY DEF Create, mockCreate, libvirtCreate, vsphereCreate, proxmoxCreate
  <2>2. QED
    BY <2>1, <1>1 DEF NothingDeleted
<1>3. tasks' \in [TaskIds -> Task] /\ NoNewDeletion
  <2>1. tasks' = tasks \/ Start(t, "create", m)
    BY DEF Create, mockCreate, libvirtCreate, vsphereCreate, proxmoxCreate, Synchronous
  <2>2. QED
    BY <2>1 DEF Start, NoNewDeletion, Deleting
<1>4. QED
  BY <1>2, <1>3

(* Delete may remove the machine or start a task that will.                 *)
LEMMA DeleteEffect ==
    ASSUME HypervisorTypeOK, NEW m \in MachineIds, NEW t \in TaskIds \cup {None}, Delete(m, t)
    PROVE  HypervisorTypeOK' /\ NoNewMachine
<1> USE DEF HypervisorTypeOK
<1>1. machines' = machines \/ machines' = Removed(m)
  BY DEF Delete, mockDelete, libvirtDelete, vsphereDelete, proxmoxDelete
<1>2. tasks' = tasks \/ Start(t, "delete", m)
  BY DEF Delete, mockDelete, libvirtDelete, vsphereDelete, proxmoxDelete, Synchronous
<1>3. machines' \in [MachineIds -> Machine] /\ NoNewMachine
  BY <1>1 DEF Removed, NoNewMachine, There, Machine
<1>4. tasks' \in [TaskIds -> Task]
  BY <1>2, TasksStay, TaskStarts, Zenon
<1>5. QED
  BY <1>3, <1>4

(* Power neither makes nor deletes a machine.                               *)
LEMMA PowerEffect ==
    ASSUME HypervisorTypeOK, NEW m \in MachineIds, NEW t \in TaskIds \cup {None},
           NEW op, Power(m, op, t)
    PROVE  HypervisorTypeOK' /\ NoNewMachine /\ NoNewDeletion /\ NothingDeleted
<1> USE DEF HypervisorTypeOK
<1>1. machines' = machines \/ machines' = Powered(m, Target(op))
  BY DEF Power, mockPower, libvirtPower, vspherePower, proxmoxPower
<1>2. tasks' = tasks \/ Start(t, Target(op), m)
  BY DEF Power, mockPower, libvirtPower, vspherePower, proxmoxPower, Synchronous
<1>3. Target(op) \in {"On", "Off"}
  BY DEF Target
<1>4. machines' \in [MachineIds -> Machine] /\ NoNewMachine /\ NothingDeleted
  BY <1>1, <1>3, MachinesStay, MachinePowered, Zenon
<1>5. tasks' \in [TaskIds -> Task] /\ NoNewDeletion
  <2>1. Target(op) \in {"create", "delete", "On", "Off", "reconfigure"} /\ Target(op) # "delete"
    BY <1>3
  <2> QED
    BY <1>2, <2>1, TasksStay, TaskStarts, Zenon
<1>6. QED
  BY <1>4, <1>5

(* Neither does Reconfigure.                                                *)
LEMMA ReconfigureEffect ==
    ASSUME HypervisorTypeOK, NEW m \in MachineIds, NEW t \in TaskIds \cup {None},
           NEW c \in Classes \cup {None}, Reconfigure(m, c, t)
    PROVE  HypervisorTypeOK' /\ NoNewMachine /\ NoNewDeletion /\ NothingDeleted
<1> USE DEF HypervisorTypeOK
<1>1. machines' = machines \/ machines' = [machines EXCEPT ![m].class = c]
  BY DEF Reconfigure, mockReconfigure, libvirtReconfigure, vsphereReconfigure, proxmoxReconfigure
<1>2. tasks' = tasks \/ Start(t, "reconfigure", m)
  BY DEF Reconfigure, mockReconfigure, libvirtReconfigure, vsphereReconfigure,
         proxmoxReconfigure, Synchronous
<1>3. machines' \in [MachineIds -> Machine] /\ NoNewMachine /\ NothingDeleted
  BY <1>1, MachinesStay, MachineReclassed, Zenon
<1>4. tasks' \in [TaskIds -> Task] /\ NoNewDeletion
  BY <1>2, TasksStay, TaskStarts, Zenon
<1>5. QED
  BY <1>3, <1>4

(* The end of a task makes no machine and starts no deletion.               *)
LEMMA TaskEndEffect ==
    ASSUME HypervisorTypeOK, NEW t \in TaskIds, TaskFinishes(t) \/ TaskFails(t)
    PROVE  /\ HypervisorTypeOK' /\ NoNewMachine /\ NoNewDeletion
           /\ Deleting(t) \/ NothingDeleted
<1>3. tasks' \in [TaskIds -> Task] /\ NoNewDeletion
  <2>1. PICK q \in {"done", "failed"} : tasks' = [tasks EXCEPT ![t].state = q]
    BY Zenon DEF TaskFinishes, TaskFails
  <2> QED
    BY <2>1, TaskIsOver, Zenon DEF HypervisorTypeOK
<1> USE DEF HypervisorTypeOK, Machine, Task, TaskRunning
<1> DEFINE x == tasks[t].machine
<1>1. \/ machines' = machines
      \/ Deleting(t) /\ machines' = Removed(x)
      \/ tasks[t].op \in {"On", "Off"} /\ machines' = Powered(x, tasks[t].op)
  BY DEF TaskFinishes, TaskFails, Deleting
<1>2. machines' \in [MachineIds -> Machine] /\ NoNewMachine /\ (Deleting(t) \/ NothingDeleted)
  <2>1. CASE machines' = machines
    BY <2>1 DEF NoNewMachine, NothingDeleted, There
  <2>2. ASSUME NEW r, machines' = [machines EXCEPT ![x] = r], x \notin MachineIds
        PROVE  machines' = machines
    BY <2>2
  <2>3. CASE Deleting(t) /\ machines' = Removed(x)
    <3>1. CASE x \in MachineIds
      BY <2>3, <3>1 DEF Removed, NoNewMachine, There
    <3>2. CASE x \notin MachineIds
      BY <2>1, <2>2, <2>3, <3>2 DEF Removed
    <3>3. QED
      BY <3>1, <3>2
  <2>4. CASE tasks[t].op \in {"On", "Off"} /\ machines' = Powered(x, tasks[t].op)
    <3>1. CASE x \in MachineIds
      <4> DEFINE o == tasks[t].op
      <4>1. o \in {"On", "Off"} /\ machines' = Powered(x, o)
        BY <2>4
      <4> HIDE DEF o, x
      <4>2. QED
        BY <4>1, <3>1, MachinePowered, Zenon DEF HypervisorTypeOK
    <3>2. CASE x \notin MachineIds
      BY <2>1, <2>2, <2>4, <3>2 DEF Powered
    <3>3. QED
      BY <3>1, <3>2
  <2>5. QED
    BY <1>1, <2>1, <2>3, <2>4
<1>4. QED
  BY <1>2, <1>3

-----------------------------------------------------------------------------
(* The inductive invariant.  A finalizer or a deletion mark seen in a copy   *)
(* is on the object, because the object never loses either before it goes;   *)
(* so a reconcile that got past AddFinalizer works on an object that has the *)
(* finalizer, and a machine or a delete task implies the mark it started     *)
(* from.                                                                     *)
Budgets == [{"edit", "lost", "drift", "taskFailure"} -> Nat]

Active ==
    /\ pc # "idle" => vm \in Object /\ obj.finalizer
    /\ pc \in {"describe", "power", "reconfigure"} => vm.status.id \in MachineIds

FinalizerInv ==
    /\ cache.finalizer => obj.finalizer
    /\ \A m \in MachineIds : There(m) => obj.finalizer

DeletionInv ==
    /\ cache.deleting => obj.deleting
    /\ pc \in {"delete", "unfinalize"} => obj.deleting
    /\ \A t \in TaskIds : Deleting(t) => obj.deleting

IInv == TypeOK /\ Active /\ FinalizerInv /\ DeletionInv

(* Spending from a budget leaves a budget.                                  *)
LEMMA SpendTyped ==
    ASSUME budget \in Budgets, NEW k \in {"edit", "lost", "drift", "taskFailure"}, Spend(k)
    PROVE  budget' \in Budgets
BY DEF Budgets, Spend

(* A reconcile that goes on keeps a typed copy, with the status it set.     *)
LEMMA ProceedTyped ==
    ASSUME vm \in Object, NEW s \in Status, NEW p, Proceed(s, p)
    PROVE  vm' \in Object /\ vm'.status = s /\ pc' = p
BY DEF Object, Proceed

(* A step of a reconcile that leaves the object and its cached copy alone.  *)
LEMMA ReconcileStep ==
    ASSUME IInv, UNCHANGED kind, pc # "idle",
           HypervisorTypeOK', NoNewDeletion \/ obj.deleting,
           UNCHANGED <<obj, cache, class>>, cacheFresh' \in BOOLEAN,
           pc' \in Steps, vmFresh' \in BOOLEAN, vmClass' \in Classes \cup {None},
           pc' = "idle" => vm' = None,
           pc' # "idle" => vm' \in Object,
           pc' \in {"describe", "power", "reconfigure"} => vm'.status.id \in MachineIds,
           pc' \in {"delete", "unfinalize"} => obj.deleting,
           budget' \in Budgets
    PROVE  IInv'
<1>1. TypeOK'
  BY DEF IInv, TypeOK, Budgets
<1>2. Active'
  BY DEF IInv, Active
<1>3. FinalizerInv'
  BY DEF IInv, Active, FinalizerInv
<1>4. DeletionInv'
  BY DEF IInv, DeletionInv, NoNewDeletion
<1>5. QED
  BY <1>1, <1>2, <1>3, <1>4 DEF IInv

(* A write by anybody else, and the informer: no reconcile step.            *)
LEMMA ObjectStep ==
    ASSUME IInv, UNCHANGED kind, HypervisorTypeOK', NoNewMachine, NoNewDeletion,
           obj' \in Object, cache' \in Object, cache' \in {cache, obj},
           obj.finalizer => obj'.finalizer, obj.deleting => obj'.deleting,
           cacheFresh' \in BOOLEAN, vmFresh' \in BOOLEAN, class' \in Classes,
           UNCHANGED <<pc, vm, vmClass>>, budget' \in Budgets
    PROVE  IInv'
<1>1. TypeOK'
  BY DEF IInv, TypeOK, Budgets
<1>2. Active'
  BY DEF IInv, Active
<1>3. FinalizerInv'
  BY DEF IInv, FinalizerInv, NoNewMachine
<1>4. DeletionInv'
  BY DEF IInv, DeletionInv, NoNewDeletion
<1>5. QED
  BY <1>1, <1>2, <1>3, <1>4 DEF IInv

(* A step that leaves the hypervisor alone makes and deletes nothing.       *)
LEMMA SameHypervisor ==
    ASSUME IInv, UNCHANGED hypervisorVars
    PROVE  HypervisorTypeOK' /\ NoNewMachine /\ NoNewDeletion /\ NothingDeleted
BY DEF IInv, TypeOK, hypervisorVars, HypervisorTypeOK, NoNewMachine, NoNewDeletion,
       NothingDeleted, There, Deleting, Machine

(* The user and the informer.                                               *)
LEMMA UserStep ==
    ASSUME IInv, UNCHANGED kind, User \/ InformerSync
    PROVE  IInv'
<1> obj \in Object /\ cache \in Object /\ class \in Classes
    /\ cacheFresh \in BOOLEAN /\ vmFresh \in BOOLEAN
  BY DEF IInv, TypeOK
<1> budget \in Budgets
  BY DEF IInv, TypeOK, Budgets
<1>1. ASSUME NEW p \in SpecPowers, SetPower(p) PROVE IInv'
  <2>1. obj' = [obj EXCEPT !.power = p] /\ Spend("edit") /\ UNCHANGED hypervisorVars
    BY <1>1 DEF SetPower, Write
  <2>2. obj' \in Object /\ obj'.finalizer = obj.finalizer /\ obj'.deleting = obj.deleting
    BY <2>1 DEF Object
  <2>3. QED
    BY <1>1, <2>1, <2>2, SameHypervisor, SpendTyped, ObjectStep, Zenon DEF SetPower, Write
<1>2. ASSUME NEW c \in Classes \cup {None}, SetResources(c) PROVE IInv'
  <2>1. obj' = [obj EXCEPT !.resources = c] /\ Spend("edit") /\ UNCHANGED hypervisorVars
    BY <1>2 DEF SetResources, Write
  <2>2. obj' \in Object /\ obj'.finalizer = obj.finalizer /\ obj'.deleting = obj.deleting
    BY <2>1 DEF Object
  <2>3. QED
    BY <1>2, <2>1, <2>2, SameHypervisor, SpendTyped, ObjectStep, Zenon DEF SetResources, Write
<1>3. ASSUME NEW c \in Classes, SetClass(c) PROVE IInv'
  BY <1>3, SameHypervisor, SpendTyped, ObjectStep DEF SetClass, reconcileVars
<1>4. CASE RequestDeletion
  <2>1. \/ obj' = [obj EXCEPT !.deleting = TRUE]
        \/ obj' = [obj EXCEPT !.present = FALSE]
    BY <1>4 DEF RequestDeletion, Write
  <2>2. obj' \in Object /\ obj'.finalizer = obj.finalizer /\ (obj.deleting => obj'.deleting)
    BY <2>1, Zenon DEF Object
  <2>3. QED
    BY <1>4, <2>2, SameHypervisor, ObjectStep, Zenon DEF RequestDeletion, Write
<1>5. CASE InformerSync
  BY <1>5, SameHypervisor, ObjectStep DEF InformerSync, reconcileVars
<1>6. QED
  BY <1>1, <1>2, <1>3, <1>4, <1>5 DEF User

(* A reconcile starts, or puts the finalizer on.                            *)
LEMMA StartStep ==
    ASSUME IInv, UNCHANGED kind, Reconcile
    PROVE  IInv'
<1> obj \in Object /\ cache \in Object /\ class \in Classes
    /\ cacheFresh \in BOOLEAN /\ vmFresh \in BOOLEAN /\ vmClass \in Classes \cup {None}
  BY DEF IInv, TypeOK
<1> budget \in Budgets
  BY DEF IInv, TypeOK, Budgets
<1>1. CASE AddFinalizer
  <2>1. obj' = [obj EXCEPT !.finalizer = TRUE]
    BY <1>1 DEF AddFinalizer, Write
  <2>2. obj' \in Object /\ obj'.finalizer /\ obj'.deleting = obj.deleting
    BY <2>1, Zenon DEF Object
  <2>3. QED
    BY <1>1, <2>2, SameHypervisor, ObjectStep, Zenon DEF AddFinalizer, Write
<1>2. CASE HandleDeletion \/ StartReconcile
  <2>1. /\ UNCHANGED <<machines, tasks, obj, cache, cacheFresh, class, vmClass>>
        /\ cache.finalizer
        /\ vm' = cache /\ vmFresh' = cacheFresh
        /\ (pc' = "delete" /\ cache.deleting) \/ pc' = "dependencies"
    BY <1>2 DEF HandleDeletion, StartReconcile, apiVars, hypervisorVars
  <2>2. budget' \in Budgets
    BY <1>2, SpendTyped DEF HandleDeletion, StartReconcile, ReadCache
  <2>3. TypeOK'
    BY <2>1, <2>2 DEF IInv, TypeOK, Budgets, HypervisorTypeOK, Steps
  <2>4. Active' /\ FinalizerInv'
    BY <2>1 DEF IInv, Active, FinalizerInv, There
  <2>5. DeletionInv'
    BY <2>1 DEF IInv, DeletionInv, Deleting
  <2>6. QED
    BY <2>3, <2>4, <2>5 DEF IInv
<1>3. QED
  BY <1>1, <1>2 DEF Reconcile

-----------------------------------------------------------------------------
(* The copy a reconcile in flight works on has its type.                    *)
LEMMA CopyTyped ==
    ASSUME IInv, pc # "idle"
    PROVE  /\ vm \in Object /\ vm.status \in Status /\ NotReady \in Status
           /\ Wanted(vm, vmClass) \in Classes \cup {None}
           /\ vmClass \in Classes \cup {None} /\ vmFresh \in BOOLEAN
           /\ budget \in Budgets /\ cacheFresh \in BOOLEAN
BY ZenonT(60) DEF IInv, TypeOK, Active, Object, Status, NotReady, Wanted, Budgets

(* A step that ends in Proceed, whatever it did to the hypervisor short of  *)
(* starting a deletion.                                                     *)
LEMMA ProceedStep ==
    ASSUME IInv, UNCHANGED kind, pc # "idle", HypervisorTypeOK', NoNewDeletion, UNCHANGED apiVars,
           NEW s \in Status, NEW p \in Steps \ {"idle", "delete", "unfinalize"}, Proceed(s, p),
           p \in {"describe", "power", "reconfigure"} => s.id \in MachineIds,
           budget' \in Budgets
    PROVE  IInv'
<1>1. vm' \in Object /\ vm'.status = s /\ pc' = p /\ UNCHANGED <<vmFresh, vmClass>>
  BY CopyTyped, ProceedTyped DEF Proceed
<1>2. QED
  BY <1>1, CopyTyped, ReconcileStep DEF apiVars

(* The reconcile returns without a write to the object.                     *)
LEMMA ReturnStep ==
    ASSUME IInv, UNCHANGED kind, pc # "idle", UNCHANGED hypervisorVars,
           UNCHANGED <<obj, cache, class>>, cacheFresh' \in BOOLEAN, Return, budget' \in Budgets
    PROVE  IInv'
BY SameHypervisor, ReconcileStep, Zenon DEF Return, Steps

(* getDependencies keeps the invariant.                                     *)
LEMMA getDependenciesStep ==
    ASSUME IInv, UNCHANGED kind, getDependencies \/ DependenciesFail
    PROVE  IInv'
<1>1. CASE getDependencies
  <2>1. class \in Classes
    BY DEF IInv, TypeOK
  <2>2. QED
    BY <1>1, <2>1, CopyTyped, SameHypervisor, ReconcileStep DEF getDependencies, apiVars, Steps
<1>2. CASE DependenciesFail
  BY <1>2, CopyTyped, SameHypervisor, SpendTyped, ProceedStep DEF DependenciesFail, Steps
<1>3. QED
  BY <1>1, <1>2

(* The task checks keep it, and go on to Describe only with an id.          *)
LEMMA CheckTasksStep ==
    ASSUME IInv, UNCHANGED kind, CheckTasks \/ CheckTasksFails
    PROVE  IInv'
<1> DEFINE s == vm.status
           cleared == [s EXCEPT !.lastTask = None]
           recorded == [cleared EXCEPT
                           !.reconfigureTask = None,
                           !.current = IF s.reconfigureTask = None THEN @ ELSE Wanted(vm, vmClass)]
<1>1. pc = "tasks" /\ UNCHANGED apiVars /\ UNCHANGED hypervisorVars
  BY DEF CheckTasks, CheckTasksFails
<1>2. s \in Status /\ cleared \in Status /\ recorded \in Status /\ recorded.id = s.id
  BY ZenonT(60), <1>1, CopyTyped DEF Status
<1>3. budget' \in Budgets
  BY <1>1, CopyTyped, SpendTyped DEF CheckTasks, CheckTasksFails
<1>4. \/ Proceed(s, "status") \/ Proceed(cleared, "status")
      \/ Proceed(recorded, IF s.id = None THEN "create" ELSE "describe")
  BY DEF CheckTasks, CheckTasksFails
<1>5. s.id # None => s.id \in MachineIds
  BY <1>2 DEF Status
<1> HIDE DEF s, cleared, recorded
<1>6. QED
  BY <1>1, <1>2, <1>3, <1>4, <1>5, SameHypervisor, ProceedStep DEF Steps

(* Describe keeps it: what it reports fits the status.                      *)
LEMMA DescribeStep ==
    ASSUME IInv, UNCHANGED kind, Describe \/ DescribeFails
    PROVE  IInv'
<1> DEFINE m == vm.status.id
           seen == [vm.status EXCEPT !.power = ReportedPower(m)]
           gone == [vm.status EXCEPT !.id = None]
<1>1. pc = "describe" /\ UNCHANGED apiVars /\ UNCHANGED hypervisorVars
  BY DEF Describe, DescribeFails
<1>2. m \in MachineIds
  BY <1>1 DEF IInv, Active
<1>3. ReportedPower(m) \in {"On", "Off", "on", "off", None}
  BY <1>2 DEF IInv, TypeOK, HypervisorTypeOK, Machine, ReportedPower
<1>4. /\ seen \in Status /\ seen.id = m /\ [seen EXCEPT !.ready = TRUE] \in Status
      /\ gone \in Status
  BY <1>1, <1>3, CopyTyped, ZenonT(30) DEF Status
<1>5. budget' \in Budgets
  BY <1>1, CopyTyped, SpendTyped DEF Describe, DescribeFails
<1>6. \/ Proceed(seen, "power") \/ Proceed(seen, "reconfigure")
      \/ Proceed([seen EXCEPT !.ready = TRUE], "status")
      \/ Proceed(NotReady, "status") \/ Proceed(gone, "create")
  BY DEF Describe, DescribeFails, Described, Vanished
<1> HIDE DEF m, seen, gone
<1>7. QED
  BY <1>1, <1>2, <1>4, <1>5, <1>6, CopyTyped, SameHypervisor, ProceedStep DEF Steps

(* createVM keeps it and deletes nothing, also when its answer is lost.     *)
LEMMA createVMStep ==
    ASSUME IInv, UNCHANGED kind, createVM \/ createVMFails
    PROVE  IInv' /\ NothingDeleted
<1>1. pc = "create" /\ UNCHANGED apiVars
  BY Zenon DEF createVM, createVMFails
<1>2. budget' \in Budgets
  BY <1>1, CopyTyped, SpendTyped, ZenonT(30) DEF createVM, createVMFails
<1>3. HypervisorTypeOK' /\ NoNewDeletion /\ NothingDeleted
  BY <1>1, CopyTyped, CreateEffect, SameHypervisor, VirtualMachineAssumption
    , Zenon DEF createVM, createVMFails, IInv, TypeOK
<1>4. \E st \in Status : Proceed(st, "status")
  <2>1. CASE createVM
    <3>1. PICK m \in MachineIds, t \in TaskIds \cup {None} :
             Proceed([vm.status EXCEPT !.id = m, !.lastTask = t,
                                       !.current = Wanted(vm, vmClass)], "status")
      BY <2>1, Zenon DEF createVM
    <3>2. [vm.status EXCEPT !.id = m, !.lastTask = t, !.current = Wanted(vm, vmClass)] \in Status
      BY <1>1, CopyTyped, Zenon DEF Status
    <3>3. QED
      BY <3>1, <3>2
  <2>2. CASE createVMFails
    BY <1>1, <2>2, CopyTyped DEF createVMFails
  <2>3. QED
    BY <2>1, <2>2
<1>5. QED
  BY <1>1, <1>2, <1>3, <1>4, ProceedStep DEF Steps

(* adjustPowerState keeps it and neither makes nor deletes a machine.       *)
LEMMA adjustPowerStateStep ==
    ASSUME IInv, UNCHANGED kind, adjustPowerState \/ adjustPowerStateFails
    PROVE  IInv' /\ NothingDeleted /\ NoNewMachine
<1>1. pc = "power" /\ UNCHANGED apiVars
  BY DEF adjustPowerState, adjustPowerStateFails
<1>2. budget' \in Budgets
  BY <1>1, CopyTyped, SpendTyped DEF adjustPowerState, adjustPowerStateFails
<1>3. vm.status.id \in MachineIds
  BY <1>1 DEF IInv, Active
<1>4. HypervisorTypeOK' /\ NoNewDeletion /\ NothingDeleted /\ NoNewMachine
  BY <1>3, PowerEffect, SameHypervisor
    , Zenon DEF adjustPowerState, adjustPowerStateFails, IInv, TypeOK
<1>5. \E st \in Status : Proceed(st, "status")
  <2>1. ASSUME NEW t \in TaskIds \cup {None}
        PROVE  [vm.status EXCEPT !.lastTask = t] \in Status
    BY <1>1, CopyTyped DEF Status
  <2>2. QED
    BY <1>1, <2>1, CopyTyped, Zenon DEF adjustPowerState, adjustPowerStateFails
<1>6. QED
  BY <1>1, <1>2, <1>4, <1>5, ProceedStep DEF Steps

(* reconfigureVM keeps it and neither makes nor deletes a machine.          *)
LEMMA reconfigureVMStep ==
    ASSUME IInv, UNCHANGED kind, reconfigureVM \/ reconfigureVMFails \/ reconfigureVMUnbuilt
    PROVE  IInv' /\ NothingDeleted /\ NoNewMachine
<1>1. pc = "reconfigure" /\ UNCHANGED apiVars
  BY DEF reconfigureVM, reconfigureVMFails, reconfigureVMUnbuilt
<1>2. budget' \in Budgets
  BY <1>1, CopyTyped, SpendTyped DEF reconfigureVM, reconfigureVMFails, reconfigureVMUnbuilt
<1>3. vm.status.id \in MachineIds
  BY <1>1 DEF IInv, Active
<1>4. CASE reconfigureVM \/ reconfigureVMFails
  <2>1. HypervisorTypeOK' /\ NoNewDeletion /\ NothingDeleted /\ NoNewMachine
    BY <1>1, <1>3, <1>4, CopyTyped, ReconfigureEffect, SameHypervisor
      , Zenon DEF reconfigureVM, reconfigureVMFails, IInv, TypeOK
  <2>2. ASSUME NEW t \in TaskIds \cup {None}
        PROVE  /\ [vm.status EXCEPT !.reconfigureTask = t] \in Status
               /\ [vm.status EXCEPT !.current = Wanted(vm, vmClass), !.ready = TRUE] \in Status
    BY <1>1, CopyTyped, Zenon DEF Status
  <2>3. \E st \in Status : Proceed(st, "status")
    BY <1>1, <1>4, <2>2, CopyTyped, Zenon DEF reconfigureVM, reconfigureVMFails
  <2>4. QED
    BY <1>1, <1>2, <2>1, <2>3, ProceedStep DEF Steps
<1>5. CASE reconfigureVMUnbuilt
  BY <1>1, <1>2, <1>5, CopyTyped, SameHypervisor, ReturnStep DEF reconfigureVMUnbuilt, apiVars
<1>6. QED
  BY <1>4, <1>5

(* updateStatus keeps it: the status write touches no mark.                 *)
LEMMA updateStatusStep ==
    ASSUME IInv, UNCHANGED kind, updateStatus \/ updateStatusFails
    PROVE  IInv'
<1>1. pc = "status" /\ Return /\ UNCHANGED hypervisorVars /\ UNCHANGED <<cache, class>>
  BY DEF updateStatus, updateStatusFails, apiVars
<1>2. budget' \in Budgets
  BY <1>1, CopyTyped, SpendTyped DEF updateStatus, updateStatusFails
<1>3. CASE obj' = obj
  BY <1>1, <1>2, <1>3, CopyTyped, ReturnStep, Zenon DEF updateStatus, updateStatusFails, apiVars
<1>4. CASE obj' # obj
  <2>1. obj' = [obj EXCEPT !.status = vm.status] /\ cacheFresh' = FALSE
    BY <1>4 DEF updateStatus, updateStatusFails, apiVars
  <2>2. obj \in Object /\ obj' \in Object /\ obj'.finalizer = obj.finalizer /\ obj'.deleting = obj.deleting
    BY <1>1, <2>1, CopyTyped DEF IInv, TypeOK, Object
  <2>3. TypeOK'
    BY <1>1, <1>2, <2>1, <2>2, SameHypervisor, Zenon DEF IInv, TypeOK, Return, Steps, Budgets
  <2>4. Active' /\ FinalizerInv'
    BY <1>1, <2>2 DEF IInv, Active, FinalizerInv, There, Return, hypervisorVars
  <2>5. DeletionInv'
    BY <1>1, <2>2 DEF IInv, DeletionInv, Deleting, Return, hypervisorVars
  <2>6. QED
    BY <2>3, <2>4, <2>5 DEF IInv
<1>5. QED
  BY <1>3, <1>4

(* handleDeletion keeps it, and runs only on an object marked deleted.      *)
LEMMA handleDeletionStep ==
    ASSUME IInv, UNCHANGED kind, handleDeletion \/ handleDeletionFails
    PROVE  IInv' /\ NoNewMachine /\ obj.deleting
<1>1. pc = "delete" /\ obj.deleting /\ UNCHANGED apiVars
  BY DEF handleDeletion, handleDeletionFails, IInv, DeletionInv
<1>2. budget' \in Budgets
  BY <1>1, CopyTyped, SpendTyped DEF handleDeletion, handleDeletionFails
<1>3. vm.status.id # None => vm.status.id \in MachineIds
  BY <1>1, CopyTyped DEF Status
<1>4. HypervisorTypeOK' /\ NoNewMachine
  BY <1>3, DeleteEffect, SameHypervisor DEF handleDeletion, handleDeletionFails, IInv, TypeOK
<1>5. \/ pc' = "unfinalize" /\ UNCHANGED <<vm, vmFresh, vmClass>>
      \/ Return /\ UNCHANGED hypervisorVars
  BY DEF handleDeletion, handleDeletionFails
<1>6. CASE pc' = "unfinalize" /\ UNCHANGED <<vm, vmFresh, vmClass>>
  BY <1>1, <1>2, <1>4, <1>6, CopyTyped, ReconcileStep DEF apiVars, Steps
<1>7. CASE Return /\ UNCHANGED hypervisorVars
  BY <1>1, <1>2, <1>4, <1>7, CopyTyped, ReturnStep DEF apiVars
<1>8. QED
  BY <1>1, <1>4, <1>5, <1>6, <1>7

(* RemoveFinalizer keeps it: the object goes as a whole.                    *)
LEMMA RemoveFinalizerStep ==
    ASSUME IInv, UNCHANGED kind, RemoveFinalizer \/ RemoveFinalizerFails
    PROVE  IInv'
<1>1. pc = "unfinalize" /\ Return /\ UNCHANGED hypervisorVars /\ UNCHANGED <<cache, class>>
  BY DEF RemoveFinalizer, RemoveFinalizerFails, apiVars
<1>2. budget' \in Budgets
  BY <1>1, CopyTyped, SpendTyped DEF RemoveFinalizer, RemoveFinalizerFails
<1>3. CASE obj' = obj
  BY <1>1, <1>2, <1>3, CopyTyped, ReturnStep, Zenon DEF RemoveFinalizer, RemoveFinalizerFails, apiVars
<1>4. CASE obj' # obj
  <2>1. obj' = [obj EXCEPT !.present = FALSE] /\ cacheFresh' = FALSE
    BY <1>4 DEF RemoveFinalizer, RemoveFinalizerFails, apiVars
  <2>2. obj' \in Object /\ obj'.finalizer = obj.finalizer /\ obj'.deleting = obj.deleting
    BY <2>1, Zenon DEF IInv, TypeOK, Object
  <2>3. TypeOK'
    BY <1>1, <1>2, <2>1, <2>2, SameHypervisor, Zenon DEF IInv, TypeOK, Return, Steps, Budgets
  <2>4. Active' /\ FinalizerInv'
    BY <1>1, <2>2 DEF IInv, Active, FinalizerInv, There, Return, hypervisorVars
  <2>5. DeletionInv'
    BY <1>1, <2>2 DEF IInv, DeletionInv, Deleting, Return, hypervisorVars
  <2>6. QED
    BY <2>3, <2>4, <2>5 DEF IInv
<1>5. QED
  BY <1>3, <1>4

(* A restart of the manager keeps it.                                       *)
LEMMA CrashStep ==
    ASSUME IInv, UNCHANGED kind, Crash
    PROVE  IInv'
<1>1. pc # "idle" /\ Return /\ UNCHANGED hypervisorVars /\ UNCHANGED <<obj, class>>
      /\ cache' = obj /\ cacheFresh' = TRUE
  BY DEF Crash
<1>2. budget' \in Budgets
  BY <1>1, CopyTyped, SpendTyped DEF Crash
<1>3. TypeOK'
  BY <1>1, <1>2, SameHypervisor, Zenon DEF IInv, TypeOK, Return, Steps, Budgets
<1>4. Active' /\ FinalizerInv'
  BY <1>1 DEF IInv, Active, FinalizerInv, There, Return, hypervisorVars
<1>5. DeletionInv'
  BY <1>1 DEF IInv, DeletionInv, Deleting, Return, hypervisorVars
<1>6. QED
  BY <1>3, <1>4, <1>5 DEF IInv

(* The hypervisor moves by itself.                                          *)
LEMMA HypervisorStep ==
    ASSUME IInv, UNCHANGED kind,
           \/ \E m \in MachineIds : Drift(m)
           \/ \E t \in TaskIds : TaskEnds(t) \/ TaskForgotten(t)
    PROVE  /\ IInv' /\ NoNewMachine
           /\ NothingDeleted \/ \E t \in TaskIds : Deleting(t)
<1>1. /\ HypervisorTypeOK /\ obj \in Object /\ cache \in Object /\ class \in Classes
      /\ cacheFresh \in BOOLEAN /\ vmFresh \in BOOLEAN /\ budget \in Budgets
  BY DEF IInv, TypeOK, Budgets
<1>2. UNCHANGED apiVars /\ UNCHANGED reconcileVars
  BY DEF Drift, TaskEnds, TaskForgotten
<1>3. budget' \in Budgets
  BY <1>1, SpendTyped DEF Drift, TaskEnds, TaskForgotten
<1>4. /\ HypervisorTypeOK' /\ NoNewMachine /\ NoNewDeletion
      /\ NothingDeleted \/ \E t \in TaskIds : Deleting(t)
  <2>1. ASSUME NEW m \in MachineIds, Drift(m)
        PROVE  HypervisorTypeOK' /\ NoNewMachine /\ NoNewDeletion /\ NothingDeleted
    BY <1>1, <2>1 DEF Drift, HypervisorTypeOK, Machine, Powered, There, NoNewMachine,
                      NoNewDeletion, NothingDeleted, Deleting
  <2>2. ASSUME NEW t \in TaskIds, TaskForgotten(t)
        PROVE  HypervisorTypeOK' /\ NoNewMachine /\ NoNewDeletion /\ NothingDeleted
    BY <1>1, <2>2 DEF TaskForgotten, HypervisorTypeOK, Machine, Task, FreeTask, There,
                      NoNewMachine, NoNewDeletion, NothingDeleted, Deleting
  <2>3. QED
    BY <1>1, <2>1, <2>2, TaskEndEffect DEF TaskEnds
<1>5. QED
  BY <1>1, <1>2, <1>3, <1>4, ObjectStep DEF apiVars, reconcileVars

-----------------------------------------------------------------------------
(* A step other than the creation of a machine, a deletion and a move of    *)
(* the hypervisor leaves the hypervisor alone.                              *)
LEMMA OtherSteps ==
    ASSUME \/ User \/ InformerSync \/ Reconcile \/ getDependencies \/ DependenciesFail
           \/ CheckTasks \/ CheckTasksFails \/ Describe \/ DescribeFails
           \/ updateStatus \/ updateStatusFails \/ RemoveFinalizer \/ RemoveFinalizerFails
           \/ Crash
    PROVE  UNCHANGED hypervisorVars
<1>1. ASSUME User \/ InformerSync \/ Reconcile PROVE UNCHANGED hypervisorVars
  BY <1>1, Zenon DEF User, InformerSync, Reconcile, SetPower, SetResources, SetClass,
              RequestDeletion, HandleDeletion, AddFinalizer, StartReconcile
<1>2. QED
  BY <1>1 DEF getDependencies, DependenciesFail, CheckTasks, CheckTasksFails, Describe,
              DescribeFails, updateStatus, updateStatusFails, RemoveFinalizer,
              RemoveFinalizerFails, Crash

(* Every step keeps the invariant, removes a machine only after a request,  *)
(* and makes one only in createVM.                                          *)
LEMMA NextStep ==
    ASSUME IInv, Next
    PROVE  /\ IInv'
           /\ NothingDeleted \/ obj.deleting
           /\ NoNewMachine \/ createVM \/ createVMFails
<1>0. UNCHANGED kind
  BY DEF Next
<1>1. CASE User \/ InformerSync \/ Reconcile \/ getDependencies \/ DependenciesFail
           \/ CheckTasks \/ CheckTasksFails \/ Describe \/ DescribeFails
           \/ updateStatus \/ updateStatusFails \/ RemoveFinalizer \/ RemoveFinalizerFails
           \/ Crash
  <2>1. NothingDeleted /\ NoNewMachine
    BY <1>1, OtherSteps, SameHypervisor
  <2>2. IInv'
    BY <1>0, <1>1, UserStep, StartStep, getDependenciesStep, CheckTasksStep, DescribeStep,
       updateStatusStep, RemoveFinalizerStep, CrashStep
  <2>3. QED
    BY <2>1, <2>2
<1>2. CASE createVM \/ createVMFails
  BY <1>0, <1>2, createVMStep
<1>3. CASE adjustPowerState \/ adjustPowerStateFails
  BY <1>0, <1>3, adjustPowerStateStep
<1>4. CASE reconfigureVM \/ reconfigureVMFails \/ reconfigureVMUnbuilt
  BY <1>0, <1>4, reconfigureVMStep
<1>5. CASE handleDeletion \/ handleDeletionFails
  BY <1>0, <1>5, handleDeletionStep
<1>6. CASE \/ \E m \in MachineIds : Drift(m)
           \/ \E t \in TaskIds : TaskEnds(t) \/ TaskForgotten(t)
  BY <1>0, <1>6, HypervisorStep DEF IInv, DeletionInv
<1>7. QED
  BY <1>1, <1>2, <1>3, <1>4, <1>5, <1>6 DEF Next, Worker, LostCall

(* The invariant holds of a new object and an empty hypervisor.             *)
LEMMA InitIInv == ASSUME Init PROVE IInv
<1>1. PICK p \in SpecPowers :
         obj = [present |-> TRUE, deleting |-> FALSE, finalizer |-> FALSE,
                power |-> p, resources |-> None, status |-> NoStatus]
  BY Zenon DEF Init
<1>2. obj \in Object /\ cache = obj
  BY <1>1 DEF Init, Object, Status, NoStatus
<1>3. HypervisorTypeOK /\ (\A m \in MachineIds : ~There(m)) /\ (\A t \in TaskIds : ~Deleting(t))
  BY DEF Init, HypervisorTypeOK, Machine, Task, NoMachine, FreeTask, There, Deleting
<1>4. TypeOK
  BY <1>2, <1>3, VirtualMachineAssumption, Zenon DEF Init, TypeOK, Steps
<1>5. Active /\ FinalizerInv /\ DeletionInv
  BY <1>1, <1>2, <1>3 DEF Init, Active, FinalizerInv, DeletionInv
<1>6. QED
  BY <1>4, <1>5 DEF IInv

(* A step that changes nothing keeps it.                                    *)
LEMMA StutterIInv == ASSUME IInv, UNCHANGED vars PROVE IInv'
BY DEF IInv, TypeOK, HypervisorTypeOK, Active, FinalizerInv, DeletionInv, There, Deleting, vars

(* The inductive invariant holds: types, and the two chains of evidence from *)
(* a copy, a machine or a task back to the object.                           *)
THEOREM InvariantHolds == Spec => []IInv
<1>1. Init => IInv
  BY InitIInv
<1>2. IInv /\ [Next]_vars => IInv'
  BY NextStep, StutterIInv
<1>3. QED
  BY <1>1, <1>2, PTL DEF Spec

(* Every variable of the controller model keeps its type.                    *)
THEOREM TypeCorrect == Spec => []TypeOK
<1>1. IInv => TypeOK
  BY DEF IInv
<1>2. QED
  BY <1>1, InvariantHolds, PTL

(* No machine without a finalizer on the stored object: Reconcile never      *)
(* reaches createVM before AddFinalizer was written, however stale its cache *)
(* and whatever calls are lost.                                              *)
THEOREM FinalizerFirst == Spec => []FinalizerBeforeMachine
<1>1. IInv => FinalizerBeforeMachine
  BY DEF IInv, FinalizerInv, FinalizerBeforeMachine, ThereIds
<1>2. QED
  BY <1>1, InvariantHolds, PTL

(* The controller removes a machine, at once or through a task, only when    *)
(* the deletion of the object was requested.                                 *)
THEOREM OnlyRequestedDeletions == Spec => DeletesOnlyOnRequest
<1> DEFINE A == \A m \in MachineIds :
                   There(m) /\ machines'[m].state = "deleted" => obj.deleting \/ ~obj.present
<1>1. IInv /\ [Next]_vars => [A]_vars
  BY NextStep DEF NothingDeleted
<1>2. QED
  BY <1>1, InvariantHolds, PTL DEF Spec, DeletesOnlyOnRequest

-----------------------------------------------------------------------------
(* Providers that look a name up before they create.  A libvirt domain is    *)
(* its name.                                                                 *)
ByName ==
    /\ OneMachine
    /\ kind = "libvirt" => \A m \in MachineIds : There(m) => machines[m].name = m

(* Create on a provider that looks names up keeps one machine per name.     *)
LEMMA CreateByName ==
    ASSUME LooksUpNames, UNCHANGED kind, HypervisorTypeOK, ByName,
           NEW c, NEW m \in MachineIds, NEW t, Create(Name, c, m, t)
    PROVE  ByName'
<1>0. DOMAIN machines = MachineIds
  BY DEF HypervisorTypeOK
<1>1. CASE kind = "vsphere"
  <2>1. \/ machines' = machines
        \/ /\ Named(Name) = {}
           /\ \E r : machines' = [machines EXCEPT ![m] = r]
    BY <1>1 DEF Create, vsphereCreate
  <2>2. CASE machines' = machines
    BY <1>1, <2>2 DEF ByName, OneMachine, LooksUpNames, Named, ThereIds, There
  <2>3. CASE Named(Name) = {} /\ \E r : machines' = [machines EXCEPT ![m] = r]
    <3>1. \A x \in MachineIds \ {m} : machines'[x] = machines[x]
      BY <1>0, <2>3
    <3>2. \A x \in MachineIds : ~(There(x) /\ machines[x].name = Name)
      BY <2>3 DEF Named, ThereIds
    <3>3. \A x \in MachineIds : There(x)' /\ machines'[x].name = Name => x = m
      BY <3>1, <3>2 DEF There
    <3>4. \A x \in Named(Name)' : x = m
      BY <3>3 DEF Named, ThereIds
    <3>5. QED
      BY <1>1, <3>4 DEF ByName, OneMachine
  <2>4. QED
    BY <2>1, <2>2, <2>3
<1>2. CASE kind = "libvirt"
  <2>1. /\ m = Name
        /\ \/ machines' = machines
           \/ machines' = [machines EXCEPT ![m] = NewMachine(Name, "Off", c)]
    BY <1>2 DEF Create, libvirtCreate
  <2>2. \A x \in MachineIds : There(x) => machines[x].name = x
    BY <1>2 DEF ByName
  <2>3. \A x \in MachineIds : machines'[x] = machines[x] \/ (x = m /\ machines'[x].name = m)
    BY <1>0, <2>1 DEF NewMachine
  <2>4. \A x \in MachineIds : There(x)' => machines'[x].name = x
    BY <2>2, <2>3 DEF There
  <2>5. \A x \in Named(Name)' : x = Name
    BY <2>4 DEF Named, ThereIds
  <2>6. QED
    BY <2>4, <2>5 DEF ByName, OneMachine
<1>3. QED
  BY <1>1, <1>2 DEF LooksUpNames

(* Repeating Create after a lost answer or a lost status write is safe on a  *)
(* provider that looks names up: vSphere and libvirt never hold two machines *)
(* for the object.                                                           *)
THEOREM CreateByNameIsIdempotent == Spec => []OneMachine
<1>1. Init => ByName
  <2> SUFFICES ASSUME Init PROVE ByName
    OBVIOUS
  <2>1. \A m \in MachineIds : machines[m] = NoMachine
    BY DEF Init
  <2>2. \A m \in MachineIds : ~There(m)
    BY <2>1 DEF There, NoMachine
  <2>3. QED
    BY <2>2 DEF ByName, OneMachine, Named, ThereIds
<1>2. IInv /\ ByName /\ [Next]_vars => ByName'
  <2> SUFFICES ASSUME IInv, ByName, [Next]_vars PROVE ByName'
    OBVIOUS
  <2>0. UNCHANGED kind
    BY DEF Next, vars
  <2>1. CASE UNCHANGED vars
    BY <2>1, Zenon DEF vars, ByName, OneMachine, LooksUpNames, Named, ThereIds, There
  <2>2. CASE Next /\ NoNewMachine
    BY <2>0, <2>2 DEF NoNewMachine, ByName, OneMachine, LooksUpNames, Named, ThereIds
  <2>3. CASE createVM \/ createVMFails
    <3>1. CASE UNCHANGED hypervisorVars
      BY <2>0, <3>1 DEF hypervisorVars, ByName, OneMachine, LooksUpNames, Named, ThereIds, There
    <3>2. CASE \E m \in MachineIds, t \in TaskIds \cup {None} : Create(Name, vmClass, m, t)
      <4>1. CASE LooksUpNames
        BY <2>0, <3>2, <4>1, CreateByName DEF IInv, TypeOK
      <4>2. CASE ~LooksUpNames
        BY <2>0, <4>2 DEF ByName, OneMachine, LooksUpNames
      <4>3. QED
        BY <4>1, <4>2
    <3>3. QED
      BY <2>3, <3>1, <3>2, Zenon DEF createVM, createVMFails
  <2>4. QED
    BY <2>1, <2>2, <2>3, NextStep
<1>3. ByName => OneMachine
  BY DEF ByName
<1>4. QED
  BY <1>1, <1>2, <1>3, InvariantHolds, PTL DEF Spec
=============================================================================
