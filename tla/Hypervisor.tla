----------------------------- MODULE Hypervisor -----------------------------
(***************************************************************************)
(* What the controllers see of the four provider servers through           *)
(* internal/transport/grpc/client.go: the machines on the hypervisor and   *)
(* the asynchronous tasks, with one operator per provider RPC and kind.    *)
(* An operator is an action fragment: it fixes machines', tasks' and the   *)
(* RPC's answer (an id, or a task reference that may be None).  The calls  *)
(* a provider makes one level down (virsh, govmomi, the PVE API) succeed   *)
(* here; their failures are the lost calls of the modules that use this    *)
(* one.                                                                    *)
(*                                                                         *)
(* machines[m].class is the VMClass the machine really runs with, None     *)
(* where the provider ignores the class it is sent.                        *)
(***************************************************************************)
CONSTANTS
    Kinds,       \* the kinds of provider: of "mock", "libvirt", "vsphere", "proxmox"
    Names,       \* names a machine may have on the hypervisor
    Classes,     \* contents of a VMClass (CPU and memory)
    MachineIds,  \* identifiers the hypervisor may hand out
    TaskIds,     \* identifiers of asynchronous tasks
    None         \* the empty string, where the code uses it for "no value"

(* A libvirt domain is identified by its name (provider_virsh.go:206).      *)
ASSUME HypervisorAssumption ==
    /\ Kinds \subseteq {"mock", "libvirt", "vsphere", "proxmox"}
    /\ "libvirt" \in Kinds => Names \subseteq MachineIds
    /\ None \notin Names \cup Classes \cup MachineIds \cup TaskIds

VARIABLES
    kind,        \* spec.type of the Provider; it never changes
    machines,    \* machine id -> what the hypervisor holds under it
    tasks        \* task id -> the asynchronous operation it stands for

hypervisorVars == <<machines, tasks>>

Machine ==
    [state : {"unused", "there", "deleted", "lost"},  \* lost: removed behind the operator's back
     name  : Names \cup {None},
     power : {"On", "Off"},
     class : Classes \cup {None}]

Task ==
    [state   : {"free", "running", "done", "failed"},
     op      : {"create", "delete", "On", "Off", "reconfigure"},
     machine : MachineIds \cup {None}]

NoMachine == [state |-> "unused", name |-> None, power |-> "Off", class |-> None]
FreeTask  == [state |-> "free", op |-> "create", machine |-> None]

HypervisorTypeOK ==
    /\ machines \in [MachineIds -> Machine]
    /\ tasks \in [TaskIds -> Task]

There(m) == machines[m].state = "there"
ThereIds == {m \in MachineIds : There(m)}
Named(n) == {m \in ThereIds : machines[m].name = n}

NewMachine(n, p, c) == [state |-> "there", name |-> n, power |-> p, class |-> c]

(* Start an operation that finishes later under task reference t.           *)
Start(t, o, m) ==
    /\ t \in TaskIds
    /\ tasks[t].state = "free"
    /\ tasks' = [tasks EXCEPT ![t] = [state |-> "running", op |-> o, machine |-> m]]

(* The operation is over when the RPC returns: no task reference.           *)
Synchronous(t) == t = None /\ UNCHANGED tasks

-----------------------------------------------------------------------------
(* Create.  m is the id in the response, t its task reference.              *)

(* generateID always gives a new id: the name is not looked at.             *)
mockCreate(n, c, m, t) ==
    /\ machines[m].state = "unused"
    /\ machines' = [machines EXCEPT ![m] = NewMachine(n, "Off", None)]
    /\ Start(t, "create", m)

(* A domain of that name is returned as it is; otherwise one is defined,    *)
(* and not started.                                                         *)
libvirtCreate(n, c, m, t) ==
    /\ m = n
    /\ machines' = IF There(m) THEN machines
                   ELSE [machines EXCEPT ![m] = NewMachine(n, "Off", c)]
    /\ Synchronous(t)

(* Mutant of vsphereCreate: the lookup by name is left out.                 *)
vsphereCreateUnchecked(n, c, m, t) ==
    /\ machines[m].state = "unused"
    /\ machines' = [machines EXCEPT ![m] = NewMachine(n, "On", c)]
    /\ Synchronous(t)

(* Same lookup by name; a clone is powered on whatever spec.powerState is,  *)
(* and a power-on that fails is only logged.                                *)
vsphereCreate(n, c, m, t) ==
    /\ \/ m \in Named(n) /\ UNCHANGED machines
       \/ /\ Named(n) = {}
          /\ machines[m].state = "unused"
          /\ \E p \in {"On", "Off"} :
                machines' = [machines EXCEPT ![m] = NewMachine(n, p, c)]
    /\ Synchronous(t)

(* The VMID is drawn from the clock, so the lookup before the creation asks *)
(* for a machine that does not exist.  The class is read under keys the     *)
(* client does not send ("cpus", "memory").                                 *)
proxmoxCreate(n, c, m, t) ==
    /\ machines[m].state = "unused"
    /\ machines' = [machines EXCEPT ![m] = NewMachine(n, "Off", None)]
    /\ Synchronous(t) \/ Start(t, "create", m)

Create(n, c, m, t) ==
    \/ kind = "mock"    /\ mockCreate(n, c, m, t)
    \/ kind = "libvirt" /\ libvirtCreate(n, c, m, t)
    \/ kind = "vsphere" /\ vsphereCreate(n, c, m, t)
    \/ kind = "proxmox" /\ proxmoxCreate(n, c, m, t)

-----------------------------------------------------------------------------
(* Delete.  Every kind but mock succeeds when the machine is not there;     *)
(* mock answers NotFound, which changes nothing either.                     *)
Removed(m) == [machines EXCEPT ![m].state = "deleted"]

mockDelete(m, t) ==
    /\ There(m)
    /\ Start(t, "delete", m)
    /\ UNCHANGED machines

libvirtDelete(m, t) ==
    /\ machines' = IF There(m) THEN Removed(m) ELSE machines
    /\ Synchronous(t)

vsphereDelete(m, t) ==
    /\ machines' = IF There(m) THEN Removed(m) ELSE machines
    /\ Synchronous(t)

proxmoxDelete(m, t) ==
    /\ UNCHANGED machines
    /\ IF There(m) THEN Start(t, "delete", m) ELSE Synchronous(t)

Delete(m, t) ==
    \/ kind = "mock"    /\ mockDelete(m, t)
    \/ kind = "libvirt" /\ libvirtDelete(m, t)
    \/ kind = "vsphere" /\ vsphereDelete(m, t)
    \/ kind = "proxmox" /\ proxmoxDelete(m, t)

(* The RPC answers with an error of its own.                                *)
DeleteRefused(m) == kind = "mock" /\ ~There(m)

-----------------------------------------------------------------------------
(* Power.  op is "On", "Off" or "OffGraceful" (ShutdownGraceful).           *)
Powered(m, p) == [machines EXCEPT ![m].power = p]
Target(op)    == IF op = "On" THEN "On" ELSE "Off"

mockPower(m, op, t) ==
    /\ There(m)
    /\ Start(t, Target(op), m)
    /\ UNCHANGED machines

(* virsh start fails on a running domain, destroy on a stopped one; virsh   *)
(* shutdown only asks the guest.                                            *)
libvirtPower(m, op, t) ==
    /\ There(m)
    /\ machines[m].power # Target(op)
    /\ \/ machines' = Powered(m, Target(op))
       \/ op = "OffGraceful" /\ UNCHANGED machines
    /\ Synchronous(t)

(* Waits for the task; a graceful shutdown that times out becomes a hard    *)
(* power-off.                                                               *)
vspherePower(m, op, t) ==
    /\ There(m)
    /\ machines[m].power # Target(op)
    /\ machines' = Powered(m, Target(op))
    /\ Synchronous(t)

proxmoxPower(m, op, t) ==
    /\ There(m)
    /\ Start(t, Target(op), m)
    /\ UNCHANGED machines

Power(m, op, t) ==
    \/ kind = "mock"    /\ mockPower(m, op, t)
    \/ kind = "libvirt" /\ libvirtPower(m, op, t)
    \/ kind = "vsphere" /\ vspherePower(m, op, t)
    \/ kind = "proxmox" /\ proxmoxPower(m, op, t)

PowerRefused(m, op) ==
    \/ ~There(m)
    \/ kind \in {"libvirt", "vsphere"} /\ machines[m].power = Target(op)

-----------------------------------------------------------------------------
(* Reconfigure.  The client marshals contracts.CreateRequest, which has no  *)
(* JSON tags ("Class", "CPU", "MemoryMiB").                                 *)

(* A task that touches nothing.                                             *)
mockReconfigure(m, c, t) ==
    /\ There(m)
    /\ Start(t, "reconfigure", m)
    /\ UNCHANGED machines

(* Unmarshals into the same struct, so the keys fit.  virsh setvcpus and    *)
(* setmem --live may fail on a running domain; that is only logged.         *)
libvirtReconfigure(m, c, t) ==
    /\ There(m)
    /\ \/ machines' = [machines EXCEPT ![m].class = c]
       \/ machines[m].power = "On" /\ UNCHANGED machines
    /\ Synchronous(t)

(* Looks under "class", "cpus" and "memory", finds nothing to change and    *)
(* answers success.                                                         *)
vsphereReconfigure(m, c, t) ==
    /\ There(m)
    /\ UNCHANGED machines
    /\ Synchronous(t)

proxmoxReconfigure(m, c, t) ==
    /\ There(m)
    /\ UNCHANGED machines
    /\ Synchronous(t)

Reconfigure(m, c, t) ==
    \/ kind = "mock"    /\ mockReconfigure(m, c, t)
    \/ kind = "libvirt" /\ libvirtReconfigure(m, c, t)
    \/ kind = "vsphere" /\ vsphereReconfigure(m, c, t)
    \/ kind = "proxmox" /\ proxmoxReconfigure(m, c, t)

ReconfigureRefused(m) == ~There(m)

-----------------------------------------------------------------------------
(* Describe.  A machine that is not there is Exists: false, except that     *)
(* libvirt answers with an error (virsh dominfo fails); vSphere answers     *)
(* Exists: false on every error.                                            *)
DescribeErrsOnMissing == kind = "libvirt"
DescribeHidesErrors   == kind = "vsphere"

(* The power state as the response spells it.                               *)
ReportedPower(m) ==
    IF kind = "proxmox"
    THEN IF machines[m].power = "On" THEN "on" ELSE "off"
    ELSE machines[m].power

(* TaskStatus, as client.IsTaskComplete returns it: a task that failed is   *)
(* an error, not a completed task.                                          *)
TaskDone(t) == tasks[t].state = "done"
TaskRunning(t) == tasks[t].state = "running"

-----------------------------------------------------------------------------
(* A task finishes, with its effect.                                        *)
TaskFinishes(t) ==
    /\ TaskRunning(t)
    /\ tasks' = [tasks EXCEPT ![t].state = "done"]
    /\ LET m == tasks[t].machine IN
       machines' = IF ~There(m) THEN machines
                   ELSE CASE tasks[t].op = "delete" -> Removed(m)
                          [] tasks[t].op \in {"On", "Off"} -> Powered(m, tasks[t].op)
                          [] OTHER -> machines

(* A task ends with an error and without its effect: an ExitStatus other    *)
(* than OK of a PVE task.  The mock provider never sets Task.Error, and the *)
(* two others hand out no task.                                             *)
TaskFails(t) ==
    /\ kind = "proxmox"
    /\ TaskRunning(t)
    /\ tasks' = [tasks EXCEPT ![t].state = "failed"]
    /\ UNCHANGED machines
=============================================================================
