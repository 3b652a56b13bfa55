----------------------------- MODULE VMAdoption -----------------------------
(***************************************************************************)
(* The VMAdoption controller (internal/controller/vmadoption_controller.go)*)
(* next to the controllers it races with: the VirtualMachine controller,   *)
(* which sees an adopted object before its id is recorded, and the         *)
(* Provider controller, which writes the same status.                      *)
(*                                                                         *)
(* A machine has an id and a name on the hypervisor.  What the             *)
(* VirtualMachine object records in status.id is the name for libvirt and  *)
(* the id otherwise; Create looks a machine up by name for libvirt and     *)
(* vSphere, and draws a new id for Proxmox.                                *)
(*                                                                         *)
(* A status write fails when somebody else wrote the object since it was   *)
(* read: instead of resource versions each copy carries a flag `fresh'     *)
(* that the writes of the others clear.                                    *)
(***************************************************************************)
EXTENDS FiniteSets, Naturals

CONSTANTS Machines,    \* the machines that are there before
          NewMachines, \* ids of machines that Create makes
          Names,       \* names of VirtualMachine objects
          Sanitized,   \* machine name -> object name, None if nothing is left of it
          Fallback,    \* machine -> the object name made of its id
          Settings,    \* the settings explored, see SettingType
          None,        \* no id, no name
          MaxFailures  \* bound on failed calls, restarts and user actions

Ids == Machines \cup NewMachines
RawNames == DOMAIN Sanitized
Kinds == {"libvirt", "vsphere", "proxmox"}

(* The kind of provider; the machines' names, CPUs, and which of them are  *)
(* templates; the CPU bounds of the filter (0: none); the objects a user   *)
(* creates, and those there already with the machine each records; and     *)
(* whether the user deletes objects and moves the annotation.              *)
SettingType ==
    [kind : Kinds, named : [Machines -> RawNames], cpu : [Machines -> 0..3],
     templates : SUBSET Machines, minCPU : 0..3, maxCPU : 0..3,
     user : SUBSET Names, managed : [Names -> Machines \cup {None}],
     deletes : BOOLEAN, toggles : BOOLEAN]

(* Something is left of every object's name, since it begins with a letter *)
(* or a digit; sanitizing a name a second time changes nothing, and        *)
(* neither does sanitizing "vm-" and an id of vSphere or Proxmox.          *)
ASSUME AdoptionAssumption ==
    /\ MaxFailures \in Nat /\ None \notin Names \cup RawNames \cup Ids
    /\ Names \subseteq RawNames /\ \A n \in Names : Sanitized[n] # None
    /\ \A r \in RawNames :
          /\ Sanitized[r] \in Names \cup {None}
          /\ Sanitized[r] # None => Sanitized[Sanitized[r]] = Sanitized[r]
    /\ \A m \in Machines : Fallback[m] \in Names /\ Sanitized[Fallback[m]] = Fallback[m]
    /\ Settings \subseteq SettingType

VARIABLES setting,
          machines,   \* the machines that exist
          named,      \* their names on the hypervisor
          cr,         \* the VirtualMachine objects
          classes,    \* the VMClass objects made by adoption, by their CPUs
          annotated,  \* the adopt-vms annotation of the Provider
          adoption,   \* status.adoption: none, init, recent or old discovery
          queued,     \* the Provider is in the adoption controller's queue
          ad,         \* the adoption reconcile in progress
          vc,         \* the VirtualMachine controller's reconcile, per object
          pv,         \* the Provider controller's copy of status.adoption
          failures

vars == <<setting, machines, named, cr, classes, annotated, adoption, queued, ad, vc, pv, failures>>

Adoptions == {"none", "init", "recent", "old"}
NoObject == [exists |-> FALSE, adopted |-> FALSE, id |-> None, disk |-> None,
             class |-> 0, final |-> FALSE, deleting |-> FALSE]
AdIdle == [at |-> "idle", adoption |-> "none", fresh |-> FALSE, found |-> {},
           todo |-> {}, cur |-> None, crFresh |-> FALSE]
VcIdle == [at |-> "idle", fresh |-> FALSE, id |-> None]
Refs == Ids \cup RawNames \cup Names \cup {None}

(* One type invariant. *)
TypeOK ==
    /\ setting \in Settings
    /\ machines \subseteq Ids
    /\ named \in [Ids -> RawNames \cup Names \cup {None}]
    /\ cr \in [Names -> [exists : BOOLEAN, adopted : BOOLEAN, id : Refs,
                         disk : Refs, class : 0..3, final : BOOLEAN, deleting : BOOLEAN]]
    /\ classes \subseteq 1..3
    /\ annotated \in BOOLEAN /\ queued \in BOOLEAN
    /\ adoption \in Adoptions /\ pv \in Adoptions \cup {"idle"}
    /\ ad \in [at : {"idle", "list", "objects", "adopt", "record"}, adoption : Adoptions,
               fresh : BOOLEAN, found : SUBSET Ids, todo : SUBSET Ids,
               cur : Ids \cup {None}, crFresh : BOOLEAN]
    /\ vc \in [Names -> [at : {"idle", "create", "write"}, fresh : BOOLEAN, id : Refs]]
    /\ failures \in 0..MaxFailures

(* What status.id records of a machine. *)
RefOf(i) == IF setting.kind = "libvirt" THEN named[i] ELSE i
Recorded(r) == {n \in Names : cr[n].exists /\ cr[n].id = r}

Init ==
    /\ setting \in Settings
    /\ machines = Machines
    /\ named = [i \in Ids |-> IF i \in Machines THEN setting.named[i] ELSE None]
    /\ cr = [n \in Names |->
               IF setting.managed[n] = None THEN NoObject
               ELSE [NoObject EXCEPT !.exists = TRUE, !.final = TRUE,
                                     !.id = RefOf(setting.managed[n])]]
    /\ classes = {}
    /\ annotated = TRUE /\ queued = TRUE
    /\ adoption = "none" /\ pv = "idle"
    /\ ad = AdIdle
    /\ vc = [n \in Names |-> VcIdle]
    /\ failures = 0

Fails == failures < MaxFailures /\ failures' = failures + 1
Works == failures' = failures

sanitizeVMName(raw) == Sanitized[raw]

(* The name of the object that stands for a machine.  When nothing is left *)
(* of the machine's name it is made of the id; libvirt's id is that same   *)
(* name, and what it gives is no name that the API server accepts.         *)
vmName(i) ==
    IF sanitizeVMName(named[i]) # None THEN sanitizeVMName(named[i])
    ELSE IF setting.kind = "libvirt" THEN None ELSE Fallback[i]

(* A write of object n by the VirtualMachine controller or the user makes  *)
(* the adoption controller's copy stale, and the other way round.          *)
StaleForAdoption(n) ==
    [ad EXCEPT !.crFresh = @ /\ (ad.cur # None => vmName(ad.cur) # n)]
StaleForVM(n) == [vc EXCEPT ![n].fresh = FALSE]

-----------------------------------------------------------------------------
(* ListVMs of each provider.  Machines whose details cannot be read are    *)
(* left out; Proxmox leaves out templates, vSphere does not.               *)
listLibvirt(unread) == machines \ unread
listVSphere(unread) == machines \ unread
listProxmox(unread) == {i \in machines \ unread : i \notin setting.templates}

ListVMs(unread) ==
    CASE setting.kind = "libvirt" -> listLibvirt(unread)
      [] setting.kind = "vsphere" -> listVSphere(unread)
      [] OTHER -> listProxmox(unread)

CPUOf(i) == IF i \in Machines THEN setting.cpu[i] ELSE 1

(* matchesFilter, with the CPU bounds standing for all its criteria. *)
matchesFilter(i) ==
    /\ setting.minCPU > 0 => CPUOf(i) >= setting.minCPU
    /\ setting.maxCPU > 0 => CPUOf(i) <= setting.maxCPU

(* The class of a machine, named after its CPUs; two when the provider     *)
(* does not say.                                                           *)
ensureVMClass(i) == IF CPUOf(i) = 0 THEN 2 ELSE CPUOf(i)

(* Mutant of managedVMIDs: compares names only. *)
managedByName == {n \in Names : cr[n].exists}

(* The ids of the machines that an object of this provider stands for: its *)
(* status.id, or its name when that is empty.                              *)
managedVMIDs == {IF cr[n].id = None THEN n ELSE cr[n].id : n \in {x \in Names : cr[x].exists}}

-----------------------------------------------------------------------------
(* Reconcile up to discovery.  Without the annotation the status is        *)
(* cleared; a failed write is only logged and not tried again.             *)
Begin ==
    /\ queued /\ ad.at = "idle"
    /\ \/ /\ ~annotated
          /\ \/ Works /\ adoption' = "none"
             \/ Fails /\ UNCHANGED adoption
          /\ queued' = FALSE
          /\ UNCHANGED ad
       \/ /\ annotated
          /\ Works
          /\ ad' = [AdIdle EXCEPT !.at = "list", !.fresh = TRUE,
                        !.adoption = IF adoption = "none" THEN "init" ELSE adoption]
          /\ UNCHANGED <<adoption, queued>>
    /\ UNCHANGED <<setting, machines, named, cr, classes, annotated, vc, pv>>

(* The reconcile stops with a message, whose write may be refused, and is  *)
(* tried again later.                                                      *)
StopsWithMessage ==
    /\ ad.at = "list"
    /\ Fails
    /\ adoption' = IF ad.fresh THEN ad.adoption ELSE adoption
    /\ ad' = AdIdle
    /\ UNCHANGED <<setting, machines, named, cr, classes, annotated, queued, vc, pv>>

providerNotReady == StopsWithMessage
discoveryFails == StopsWithMessage

(* discoverUnmanagedVMs: the machines first, the objects afterwards. *)
discoverMachines ==
    /\ ad.at = "list"
    /\ \E unread \in {{}} \cup {{i} : i \in machines} :
          /\ IF unread = {} THEN Works ELSE Fails
          /\ ad' = [ad EXCEPT !.at = "objects", !.found = ListVMs(unread)]
    /\ UNCHANGED <<setting, machines, named, cr, classes, annotated, adoption, queued, vc, pv>>

(* What is left over is adopted, unless the last discovery was less than   *)
(* five minutes ago.                                                       *)
discoverUnmanagedVMs ==
    /\ ad.at = "objects"
    /\ LET unmanaged == {i \in ad.found : RefOf(i) \notin managedVMIDs /\ matchesFilter(i)} IN
       ad' = IF ad.adoption = "recent" THEN AdIdle
             ELSE [ad EXCEPT !.at = "adopt", !.found = {}, !.todo = unmanaged]
    /\ Works
    /\ UNCHANGED <<setting, machines, named, cr, classes, annotated, adoption, queued, vc, pv>>

-----------------------------------------------------------------------------
Left(i) == [ad EXCEPT !.at = "adopt", !.todo = @ \ {i}, !.cur = None, !.crFresh = FALSE]

(* adoptVM of a machine whose object exists: one that adoption created and *)
(* that has no id yet gets it now, every other one is left alone.  Either  *)
(* way the machine counts as adopted.                                      *)
existingVM(i) ==
    LET n == vmName(i)
        unfinished == cr[n].adopted /\ cr[n].id = None
    IN
    /\ ad.at = "adopt" /\ i \in ad.todo /\ n # None /\ cr[n].exists
    /\ \/ /\ unfinished
          /\ Works
          /\ cr' = [cr EXCEPT ![n].id = RefOf(i)]
          /\ vc' = StaleForVM(n)
       \/ /\ unfinished
          /\ Fails
          /\ UNCHANGED <<cr, vc>>
       \/ /\ ~unfinished
          /\ Works
          /\ UNCHANGED <<cr, vc>>
    /\ ad' = Left(i)
    /\ UNCHANGED <<setting, machines, named, classes, annotated, adoption, queued, pv>>

(* adoptVM of a machine without an object: the class is made if it is not  *)
(* there, then the object, without its status; either may fail, and an     *)
(* object whose name is not accepted always does.                          *)
createObject(i) ==
    LET n == vmName(i) IN
    /\ ad.at = "adopt" /\ i \in ad.todo /\ (n # None => ~cr[n].exists)
    /\ \/ /\ n # None
          /\ Works
          /\ classes' = classes \cup {ensureVMClass(i)}
          /\ cr' = [cr EXCEPT ![n] = [NoObject EXCEPT !.exists = TRUE, !.adopted = TRUE,
                                         !.disk = RefOf(i), !.class = ensureVMClass(i)]]
          /\ ad' = [ad EXCEPT !.at = "record", !.cur = i, !.crFresh = TRUE]
       \/ /\ n = None
          /\ Works
          /\ classes' = classes \cup {ensureVMClass(i)}
          /\ ad' = Left(i)
          /\ UNCHANGED cr
       \/ /\ Fails
          /\ classes' \in {classes, classes \cup {ensureVMClass(i)}}
          /\ ad' = Left(i)
          /\ UNCHANGED cr
    /\ UNCHANGED <<setting, machines, named, annotated, adoption, queued, vc, pv>>

(* The second write, of the status: refused when the object has changed. *)
recordID ==
    LET n == vmName(ad.cur) IN
    /\ ad.at = "record"
    /\ \/ /\ ad.crFresh
          /\ Works
          /\ cr' = [cr EXCEPT ![n].id = RefOf(ad.cur)]
          /\ vc' = StaleForVM(n)
       \/ /\ ~ad.crFresh
          /\ Works
          /\ UNCHANGED <<cr, vc>>
       \/ /\ Fails
          /\ UNCHANGED <<cr, vc>>
    /\ ad' = Left(ad.cur)
    /\ UNCHANGED <<setting, machines, named, classes, annotated, adoption, queued, pv>>

(* Mutant of finish: a conflict ends the matter. *)
conflictEndsIt ==
    /\ ad.at = "adopt" /\ ad.todo = {}
    /\ Works
    /\ adoption' = IF ad.fresh THEN "recent" ELSE adoption
    /\ queued' = ad.fresh
    /\ ad' = AdIdle
    /\ UNCHANGED <<setting, machines, named, cr, classes, annotated, vc, pv>>

(* The counters are written; a conflict returns an error and the reconcile *)
(* starts over.                                                            *)
finish ==
    /\ ad.at = "adopt" /\ ad.todo = {}
    /\ Works
    /\ adoption' = IF ad.fresh THEN "recent" ELSE adoption
    /\ ad' = AdIdle
    /\ UNCHANGED <<setting, machines, named, cr, classes, annotated, queued, vc, pv>>

Adoption ==
    \/ Begin \/ discoverMachines \/ discoverUnmanagedVMs
    \/ (\E i \in Ids : existingVM(i) \/ createObject(i))
    \/ recordID \/ finish

-----------------------------------------------------------------------------
(* The VirtualMachine controller, reduced to what concerns the id. *)

(* A pass over object n: the finalizer first, which changes the object;    *)
(* then Create when no id is recorded or the machine is gone.              *)
ReconcileVM(n) ==
    /\ cr[n].exists /\ ~cr[n].deleting /\ vc[n].at = "idle"
    /\ \/ /\ ~cr[n].final
          /\ cr' = [cr EXCEPT ![n].final = TRUE]
          /\ ad' = StaleForAdoption(n)
          /\ UNCHANGED vc
       \/ /\ cr[n].final
          /\ cr[n].id \notin {RefOf(i) : i \in machines}
          /\ vc' = [vc EXCEPT ![n] = [at |-> "create", fresh |-> TRUE, id |-> None]]
          /\ UNCHANGED <<cr, ad>>
    /\ Works
    /\ UNCHANGED <<setting, machines, named, classes, annotated, adoption, queued, pv>>

(* The next unused id; which one it is makes no difference. *)
Unused ==
    LET free == {x \in NewMachines : named[x] = None} IN
    IF free = {} THEN {} ELSE {CHOOSE x \in free : TRUE}

(* Mutant of CreateVM: no provider looks for a machine of that name. *)
createsAlways(n) ==
    /\ vc[n].at = "create"
    /\ \E i \in Unused :
          /\ machines' = machines \cup {i}
          /\ named' = [named EXCEPT ![i] = n]
          /\ vc' = [vc EXCEPT ![n].at = "write", ![n].id = i]
    /\ Works
    /\ UNCHANGED <<setting, cr, classes, annotated, adoption, queued, ad, pv>>

(* The provider's Create: a machine of that name, or a new one. *)
CreateVM(n) ==
    LET existing == {i \in machines : named[i] = n} IN
    /\ vc[n].at = "create"
    /\ \/ /\ setting.kind # "proxmox" /\ existing # {}
          /\ \E i \in existing :
                vc' = [vc EXCEPT ![n].at = "write", ![n].id = RefOf(i)]
          /\ UNCHANGED <<machines, named>>
       \/ /\ setting.kind = "proxmox" \/ existing = {}
          /\ \E i \in Unused :
                /\ machines' = machines \cup {i}
                /\ named' = [named EXCEPT ![i] = n]
                /\ vc' = [vc EXCEPT ![n].at = "write",
                                    ![n].id = IF setting.kind = "libvirt" THEN n ELSE i]
    /\ Works
    /\ UNCHANGED <<setting, cr, classes, annotated, adoption, queued, ad, pv>>

(* updateStatus: a conflict is only logged. *)
WriteID(n) ==
    /\ vc[n].at = "write"
    /\ \/ /\ vc[n].fresh /\ cr[n].exists
          /\ cr' = [cr EXCEPT ![n].id = vc[n].id]
          /\ ad' = StaleForAdoption(n)
       \/ /\ ~(vc[n].fresh /\ cr[n].exists)
          /\ UNCHANGED <<cr, ad>>
    /\ vc' = [vc EXCEPT ![n] = VcIdle]
    /\ Works
    /\ UNCHANGED <<setting, machines, named, classes, annotated, adoption, queued, pv>>

(* handleDeletion: the machine is deleted, or that fails, and the object   *)
(* goes either way.                                                        *)
DeleteVM(n) ==
    /\ cr[n].deleting /\ vc[n].at = "idle"
    /\ \/ Works /\ machines' = {i \in machines : RefOf(i) # cr[n].id}
       \/ Fails /\ UNCHANGED machines
    /\ cr' = [cr EXCEPT ![n] = NoObject]
    /\ ad' = StaleForAdoption(n)
    /\ UNCHANGED <<setting, named, classes, annotated, adoption, queued, vc, pv>>

VMSteps(n) == ReconcileVM(n) \/ CreateVM(n) \/ WriteID(n) \/ DeleteVM(n)

-----------------------------------------------------------------------------
(* The Provider controller reads the Provider, and writes the whole status *)
(* it has read over whatever is there by then.                             *)
ProviderReads ==
    /\ pv = "idle"
    /\ pv' = adoption
    /\ UNCHANGED <<setting, machines, named, cr, classes, annotated, adoption, queued, ad, vc, failures>>

ProviderWrites ==
    /\ pv # "idle"
    /\ adoption' = pv
    /\ pv' = "idle"
    /\ ad' = [ad EXCEPT !.fresh = FALSE]
    /\ UNCHANGED <<setting, machines, named, cr, classes, annotated, queued, vc, failures>>

(* Five minutes pass. *)
Ages(a) == IF a = "recent" THEN "old" ELSE a
TimePasses ==
    /\ "recent" \in {adoption, ad.adoption, pv}
    /\ adoption' = Ages(adoption)
    /\ pv' = Ages(pv)
    /\ ad' = [ad EXCEPT !.adoption = Ages(@)]
    /\ UNCHANGED <<setting, machines, named, cr, classes, annotated, queued, vc, failures>>

(* The user. *)
UserCreates(n) ==
    /\ n \in setting.user /\ ~cr[n].exists /\ Fails
    /\ cr' = [cr EXCEPT ![n] = [NoObject EXCEPT !.exists = TRUE]]
    /\ UNCHANGED <<setting, machines, named, classes, annotated, adoption, queued, ad, vc, pv>>

UserDeletes(n) ==
    /\ setting.deletes /\ cr[n].exists /\ cr[n].final /\ ~cr[n].deleting /\ Fails
    /\ cr' = [cr EXCEPT ![n].deleting = TRUE]
    /\ ad' = StaleForAdoption(n)
    /\ vc' = StaleForVM(n)
    /\ UNCHANGED <<setting, machines, named, classes, annotated, adoption, queued, pv>>

(* Setting the annotation queues the Provider; removing it does not. *)
Annotates ==
    /\ setting.toggles /\ Fails
    /\ annotated' = ~annotated
    /\ queued' = (queued \/ annotated')
    /\ ad' = [ad EXCEPT !.fresh = FALSE]
    /\ UNCHANGED <<setting, machines, named, cr, classes, adoption, vc, pv>>

(* A restart of the manager loses every pass and every timer; only a       *)
(* Provider with the annotation is queued again.                           *)
ManagerRestarts ==
    /\ Fails
    /\ queued' = annotated
    /\ ad' = AdIdle
    /\ vc' = [n \in Names |-> VcIdle]
    /\ pv' = "idle"
    /\ UNCHANGED <<setting, machines, named, cr, classes, annotated, adoption>>

Next ==
    \/ Adoption \/ providerNotReady \/ discoveryFails
    \/ \E n \in Names : VMSteps(n) \/ UserCreates(n) \/ UserDeletes(n)
    \/ ProviderReads \/ ProviderWrites \/ TimePasses
    \/ Annotates \/ ManagerRestarts

Spec == Init /\ [][Next]_vars

(* Every pass of the adoption controller over an annotated Provider is     *)
(* followed by another one (an event, a timer or the error's retry), the   *)
(* VirtualMachine controller visits its objects again, and time passes.    *)
Fairness ==
    /\ WF_vars(Adoption)
    /\ \A n \in Names : WF_vars(VMSteps(n))
    /\ WF_vars(TimePasses) /\ WF_vars(ProviderWrites)

FairSpec == Spec /\ Fairness

-----------------------------------------------------------------------------
(* Create finds the machine by the object's name, which no other machine   *)
(* and no other object's name comes down to.                               *)
FoundByName(m) ==
    /\ setting.kind # "proxmox"
    /\ Sanitized[setting.named[m]] = setting.named[m]
    /\ \A o \in Machines \ {m} : vmName(o) # vmName(m)
    /\ \A o \in Names \ {vmName(m)} : sanitizeVMName(o) # vmName(m)

(* Object o has been there from the start for a machine that has n's name  *)
(* and is not the one that n was made for.                                 *)
StandsForNamesake(o, n) ==
    LET m == setting.managed[o] IN m # None /\ named[m] = n /\ cr[n].disk # RefOf(m)

(* No machine is recorded by two objects when one of them comes from       *)
(* adoption: discovery compares the machines with the recorded ids, and an *)
(* object whose id is still missing is held by the name both would use.    *)
(* Left out are the two ways in which the code does record one twice.  An  *)
(* object whose name sanitizing changes (one with a dot) has its machine   *)
(* adopted under the other name before its own id is written.  And when    *)
(* the id of an adopted object is not written, its Create may find by name *)
(* a machine other than its own, one that another object stands for.       *)
RecordedOnce ==
    \A n, o \in Names :
        (/\ n # o /\ cr[n].exists /\ cr[o].exists /\ cr[n].adopted /\ cr[n].id # None
         /\ sanitizeVMName(o) = o /\ ~StandsForNamesake(o, n))
            => cr[o].id # cr[n].id

(* An adopted object comes to record the machine it was made for, as long  *)
(* as that one exists, whoever writes the id first: adoption with its      *)
(* second write, or the VirtualMachine controller, whose Create finds the  *)
(* machine by name.                                                        *)
AdoptedKeepsMachine ==
    \A n \in Names : \A m \in Machines \cap machines :
        (FoundByName(m) /\ cr[n].exists /\ cr[n].adopted /\ cr[n].disk = RefOf(m)
             /\ cr[n].id # None)
            => cr[n].id = RefOf(m)

(* With the annotation in place, every machine the filter lets through is  *)
(* in the end recorded by an object, though calls fail, status writes      *)
(* conflict and the manager restarts; for machines that Create finds by    *)
(* name (the others may be created a second time first).                   *)
AllAdopted ==
    LET asked(m) == /\ FoundByName(m) /\ setting.cpu[m] >= setting.minCPU
                    /\ setting.maxCPU = 0 \/ setting.cpu[m] <= setting.maxCPU
    IN  <>[]annotated =>
            <>[](\A m \in Machines \cap machines : asked(m) => Recorded(RefOf(m)) # {})

(* What the comment on the failed status write expects of the              *)
(* VirtualMachine controller: the Create it may try "should fail           *)
(* gracefully if the VM already exists", so that adoption never leads to a *)
(* second machine of the same name.                                        *)
NoSecondMachine ==
    \A n \in Names : \A m \in Machines \cap machines :
        (cr[n].exists /\ cr[n].adopted /\ cr[n].disk = RefOf(m))
            => cr[n].id \notin {RefOf(i) : i \in NewMachines \cap machines}
=============================================================================
