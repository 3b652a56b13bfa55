--------------------------- MODULE VSphereProvider ---------------------------
(***************************************************************************)
(* The vSphere provider (internal/providers/vsphere/server.go): the        *)
(* handlers of its gRPC server, step by step, against a vCenter whose      *)
(* tasks run on when nobody waits for them any more.                       *)
(*                                                                         *)
(* Two callers: "vmc" is the VirtualMachine controller at work on one      *)
(* object, one call at a time; "op" is whoever makes snapshots, clones,    *)
(* upgrades and reconfigurations.  A caller may give up waiting, which     *)
(* cancels the handler but not the vCenter task it has started.            *)
(*                                                                         *)
(* vCenter's part (machines, tasks, names unique in a folder, slots and    *)
(* files of disks, snapshots) is modelled from how the handlers use it.    *)
(* Disk sizes are in half GiB, so that one can lie between two GiB.        *)
(***************************************************************************)
EXTENDS CreateRequest, FiniteSets

CONSTANTS MaxVM,     \* machines are numbered 1..MaxVM, no number twice
          MaxSnap,   \* likewise the snapshots
          MaxUnit,   \* last unit of a SCSI controller
          Reserved,  \* its own unit
          Settings   \* the settings explored, see SettingType

ASSUME VSphereAssumption ==
    /\ {MaxVM, MaxSnap, MaxUnit, Reserved} \subseteq Nat
    /\ Reserved <= MaxUnit

Ids == 1..MaxVM
SnapIds == 1..MaxSnap
Callers == {"vmc", "op"}
Buses == 0..1

(* The objects that a machine is wanted for, and who asks: the controller,  *)
(* or a client of the gRPC interface that also fills in the disks' buses,   *)
(* which the controller does not.  The template has `disks' disks of        *)
(* `tplSize'.  Then the power state wanted, whether the guest runs VMware   *)
(* Tools, the operations performed, the form in which Reconfigure gets its  *)
(* JSON, and the bound on failures.                                         *)
SettingType ==
    [object : ObjectType, client : {"controller", "other"}, disks : 1..2, tplSize : 2..5,
     wants : {"On", "Off", "OffGraceful"}, tools : BOOLEAN,
     ops : SUBSET {"delete", "snapshot", "clone", "upgrade", "reconfigure", "offline",
                   "outside"},
     nested : BOOLEAN, maxFailures : Nat]

ASSUME SettingsAssumption ==
    \A s \in Settings : s \in SettingType /\ Sent(s.object) \subseteq RequestType

(* The VMSpec that Create gets in each setting, {} when no call is made.    *)
received ==
    [s \in Settings |->
        {IF s.client = "controller" THEN vsphereParseCreateRequest(req)
         ELSE [vsphereParseCreateRequest(req) EXCEPT !.additionalDisks = s.object.disks] :
            req \in Sent(s.object)}]

VARIABLES setting,
          machine,  \* the machines of vCenter
          snap,     \* its snapshots
          tasks,    \* its running tasks
          call,     \* the call of each caller that is being served
          session,  \* the client's login: none (never made), lost or valid
          rec,      \* the id in the VirtualMachine's status, 0 if empty
          object,   \* the VirtualMachine object: there, deleting or gone
          opened,   \* operations of "op" begun
          failures

vars == <<setting, machine, snap, tasks, call, session, rec, object, opened, failures>>

spec == The(received[setting])
fromTemplate == spec.diskPath = {}

Folders == 0..1  \* the configured one, and the default one
NoMachine == [born |-> FALSE, exists |-> FALSE, name |-> "", folder |-> 0,
              on |-> FALSE, stopping |-> FALSE, cpus |-> 0, size |-> 0, ctrls |-> {},
              disks |-> {}, devices |-> {}, version |-> 0, data |-> 0, base |-> "",
              guest |-> [userdata |-> <<>>, metadata |-> <<>>]]
NoSnap == [born |-> FALSE, exists |-> FALSE, vm |-> 0, data |-> 0]
NoCall == [op |-> "", at |-> "idle", id |-> 0, arg |-> 0, waits |-> FALSE,
           ok |-> FALSE, fault |-> FALSE]
NoDisk == [bus |-> 0, unit |-> 0, file |-> 0]
DiskType == [bus : Buses, unit : 0..MaxUnit, file : 0..4]

(* One type invariant. *)
TypeOK ==
    /\ setting \in Settings
    /\ machine \in [Ids -> [born : BOOLEAN, exists : BOOLEAN, name : {"", "vm", "copy"},
                            folder : Folders, on : BOOLEAN, stopping : BOOLEAN,
                            cpus : 0..2, size : 0..6, ctrls : SUBSET Buses,
                            disks : SUBSET DiskType, devices : SUBSET {"tpm", "nic"},
                            version : 0..2, data : 0..2, base : STRING,
                            guest : [userdata : Seq(STRING), metadata : Seq(STRING)]]]
    /\ snap \in [SnapIds -> [born : BOOLEAN, exists : BOOLEAN, vm : 0..MaxVM, data : 0..2]]
    /\ \A t \in tasks : t.owner \in Callers \cup {"nobody"} /\ t.id \in 0..MaxVM
    /\ call \in [Callers -> [op : STRING, at : STRING, id : 0..MaxVM, arg : Nat,
                             waits : BOOLEAN, ok : BOOLEAN, fault : BOOLEAN]]
    /\ session \in {"none", "lost", "valid"}
    /\ rec \in 0..MaxVM
    /\ object \in {"there", "deleting", "gone"}
    /\ opened \in 0..3
    /\ failures \in 0..setting.maxFailures

Init ==
    /\ setting \in Settings
    /\ machine = [i \in Ids |-> NoMachine]
    /\ snap = [s \in SnapIds |-> NoSnap]
    /\ tasks = {}
    /\ call = [c \in Callers |-> NoCall]
    /\ session \in IF "offline" \in setting.ops THEN {"none", "valid"} ELSE {"valid"}
    /\ rec = 0
    /\ object = "there"
    /\ opened = 0
    /\ failures = 0

(* A request to vCenter is answered, or fails: always without a session,   *)
(* otherwise as often as the bound lets it.                                *)
Works == session = "valid" /\ failures' = failures
Fails ==
    IF session = "valid"
    THEN failures < setting.maxFailures /\ failures' = failures + 1
    ELSE failures' = failures

Serving(c, at) == call[c].at = at /\ ~call[c].waits
Goto(c, at) == call' = [call EXCEPT ![c].at = at]
Answer(c, ok) == call' = [call EXCEPT ![c].at = "done", ![c].ok = ok]

(* The handler starts a task and goes on at `at' when it has ended. *)
Start(c, kind, id, arg, at) ==
    /\ tasks' = tasks \cup {[kind |-> kind, id |-> id, arg |-> arg, disk |-> NoDisk, owner |-> c]}
    /\ call' = [call EXCEPT ![c].at = at, ![c].waits = TRUE]

Vcenter == <<machine, snap>>
Objects == <<setting, session, rec, object, opened>>

-----------------------------------------------------------------------------
(* vCenter: what a task does when it ends.                                 *)

NewId == {i \in Ids : ~machine[i].born /\ \A j \in Ids : j < i => machine[j].born}
NewSnap == {s \in SnapIds : ~snap[s].born /\ \A j \in SnapIds : j < s => snap[j].born}
Named(name, folder) ==
    {i \in Ids : machine[i].exists /\ machine[i].name = name /\ machine[i].folder = folder}
TaskEnds(t, ok, id) ==
    /\ tasks' = tasks \ {t}
    /\ call' = IF t.owner = "nobody" THEN call
               ELSE [call EXCEPT ![t.owner].waits = FALSE, ![t.owner].ok = ok,
                                 ![t.owner].id = IF id = 0 THEN @ ELSE id]

(* The devices of the ConfigSpec: the network's assignment replaces the    *)
(* list that holds the TPM.                                                *)
devices == IF spec.networkName # "" THEN {"nic"} ELSE IF spec.tpm THEN {"tpm"} ELSE {}

(* vCenter finds what the machine is to be made from.  An imported disk    *)
(* without a path has got one in libvirt's directory, which is on no       *)
(* datastore.                                                              *)
sourceFound == fromTemplate \/ The(spec.diskPath).dir # "images"

(* The machine that CloneVM_Task or CreateVM_Task makes. *)
Made(folder) ==
    [NoMachine EXCEPT
        !.born = TRUE, !.exists = TRUE, !.name = "vm", !.folder = folder,
        !.cpus = spec.cpu, !.version = 1, !.ctrls = {0}, !.devices = devices,
        !.guest = guestinfo(spec),
        !.base = IF fromTemplate THEN spec.templateName ELSE The(spec.diskPath).file,
        !.size = IF fromTemplate THEN setting.tplSize ELSE 2,
        !.disks = IF fromTemplate
                  THEN {[bus |-> 0, unit |-> n - 1, file |-> n - 1] : n \in 1..setting.disks}
                  ELSE {NoDisk}]

(* What a task changes in the machine it is about, and when it may. *)
Applies(t) ==
    LET m == machine[t.id] IN
    CASE t.kind = "on" -> ~m.on
      [] t.kind = "off" -> m.on
      [] t.kind = "destroy" -> ~m.on
      [] t.kind = "upgrade" -> ~m.on
      [] t.kind = "resize" -> t.arg >= m.size
      [] t.kind = "config" -> t.arg = 0 \/ t.arg >= m.size
      [] t.kind = "attach" -> /\ t.disk.bus \in m.ctrls
                              /\ \A d \in m.disks : d.file # t.disk.file
                              /\ \A d \in m.disks : d.bus = t.disk.bus => d.unit # t.disk.unit
      [] OTHER -> TRUE

Applied(t) ==
    LET m == machine[t.id] IN
    CASE t.kind = "on" -> [m EXCEPT !.on = TRUE, !.stopping = FALSE]
      [] t.kind = "off" -> [m EXCEPT !.on = FALSE, !.stopping = FALSE]
      [] t.kind = "destroy" -> [NoMachine EXCEPT !.born = TRUE]
      [] t.kind = "upgrade" -> [m EXCEPT !.version = t.arg]
      [] t.kind = "attach" -> [m EXCEPT !.disks = @ \cup {t.disk}]
      [] t.kind = "controller" -> [m EXCEPT !.ctrls = @ \cup {t.arg}]
      [] t.kind = "resize" -> [m EXCEPT !.size = t.arg]
      [] t.kind = "config" -> [m EXCEPT !.cpus = 2, !.size = IF t.arg = 0 THEN @ ELSE t.arg]
      [] t.kind = "revert" -> [m EXCEPT !.data = snap[t.arg].data, !.on = FALSE,
                                                   !.stopping = FALSE]
      [] OTHER -> m

(* A task on an existing machine ends well, or vCenter refuses it. *)
TaskOnMachine(t) ==
    /\ t.kind \notin {"create", "clone", "snapshot", "remove"}
    /\ LET ok == t.id # 0 /\ (IF t.id # 0 THEN machine[t.id].exists /\ Applies(t) ELSE FALSE)
       IN  /\ machine' = IF ok THEN [machine EXCEPT ![t.id] = Applied(t)] ELSE machine
           /\ TaskEnds(t, ok, 0)
    /\ UNCHANGED <<snap, failures>>

TaskCreates(t) ==
    /\ t.kind \in {"create", "clone"}
    /\ LET name == IF t.kind = "create" THEN "vm" ELSE "copy"
           folder == IF t.kind = "create" THEN t.arg ELSE 0
           source == IF t.kind = "create" THEN sourceFound ELSE machine[t.id].exists
       IN  IF source /\ Named(name, folder) = {}
           THEN \E i \in NewId :
                   /\ machine' = [machine EXCEPT ![i] =
                          IF t.kind = "create" THEN Made(folder)
                          ELSE [machine[t.id] EXCEPT !.name = "copy", !.on = FALSE,
                                                     !.stopping = FALSE]]
                   /\ TaskEnds(t, TRUE, i)
           ELSE UNCHANGED machine /\ TaskEnds(t, FALSE, 0)
    /\ UNCHANGED <<snap, failures>>

TaskOnSnapshot(t) ==
    /\ t.kind \in {"snapshot", "remove"}
    /\ IF ~machine[t.id].exists
       THEN UNCHANGED snap /\ TaskEnds(t, FALSE, 0)
       ELSE \/ /\ t.kind = "snapshot"
               /\ \E s \in NewSnap :
                     /\ snap' = [snap EXCEPT ![s] = [born |-> TRUE, exists |-> TRUE,
                                     vm |-> t.id, data |-> machine[t.id].data]]
                     /\ tasks' = tasks \ {t}
                     /\ call' = IF t.owner = "nobody" THEN call
                                ELSE [call EXCEPT ![t.owner].waits = FALSE,
                                         ![t.owner].ok = TRUE, ![t.owner].arg = s]
            \/ /\ t.kind = "remove"
               /\ snap' = [snap EXCEPT ![t.arg].exists = FALSE]
               /\ TaskEnds(t, snap[t.arg].exists, 0)
    /\ UNCHANGED <<machine, failures>>

(* A task fails for reasons of its own. *)
TaskFails(t) ==
    /\ Fails
    /\ TaskEnds(t, FALSE, 0)
    /\ UNCHANGED Vcenter

TaskStep ==
    /\ \E t \in tasks : TaskOnMachine(t) \/ TaskCreates(t) \/ TaskOnSnapshot(t)
    /\ UNCHANGED Objects

(* The guest shuts down when asked to, and writes to its disk. *)
GuestStops ==
    /\ \E i \in Ids :
          /\ machine[i].exists /\ machine[i].stopping
          /\ machine' = [machine EXCEPT ![i].on = FALSE, ![i].stopping = FALSE]
    /\ UNCHANGED <<snap, tasks, call, failures, Objects>>

GuestWrites ==
    /\ "snapshot" \in setting.ops
    /\ \E i \in Ids :
          /\ machine[i].exists /\ machine[i].on /\ machine[i].data < 2
          /\ machine' = [machine EXCEPT ![i].data = @ + 1]
    /\ UNCHANGED <<snap, tasks, call, failures, Objects>>

-----------------------------------------------------------------------------
(* Every call is preceded by Validate.  Client.Valid only says that there  *)
(* is a client, so that a session which is lost stays lost.  A provider    *)
(* that never had a client stays without, and no call is made.             *)
Begin(c, op, at, id, arg) ==
    /\ session # "none"
    /\ call' = [call EXCEPT ![c] = [NoCall EXCEPT !.op = op, !.at = at, !.id = id, !.arg = arg]]
    /\ UNCHANGED <<failures, session, setting, machine, snap, tasks>>

(* Mutant of Create: it does not look for a machine of that name. *)
createsUnseen(c) ==
    /\ Serving(c, "create")
    /\ Goto(c, "place")
    /\ UNCHANGED <<Vcenter, tasks, failures, Objects>>

(* Create: a machine of that name is returned as it is.  Neither a failed  *)
(* lookup nor two machines of the name stop the creation.                  *)
Create(c) ==
    LET existing == {i \in Ids : machine[i].exists /\ machine[i].name = "vm"} IN
    /\ Serving(c, "create")
    /\ \/ /\ Works
          /\ IF Cardinality(existing) = 1
             THEN \E i \in existing :
                     call' = [call EXCEPT ![c].at = "done", ![c].ok = TRUE, ![c].id = i]
             ELSE Goto(c, "place")
       \/ Fails /\ Goto(c, "place")
    /\ UNCHANGED <<Vcenter, tasks, Objects>>

(* createVirtualMachine's check of the source: of the image's forms only   *)
(* the template counts, the URL of an OVA is not looked at.                *)
hasSource == fromTemplate => spec.templateName # ""

(* createVirtualMachine up to the task: without a source, or when any      *)
(* lookup fails, it ends; only a folder that is not found is replaced by   *)
(* the default one.                                                        *)
place(c) ==
    /\ Serving(c, "place")
    /\ \/ Works /\ hasSource /\ Start(c, "create", 0, 0, "created")
       \/ session = "valid" /\ Fails /\ hasSource /\ Start(c, "create", 0, 1, "created")
       \/ Works /\ ~hasSource /\ Answer(c, FALSE) /\ UNCHANGED tasks
       \/ Fails /\ Answer(c, FALSE) /\ UNCHANGED tasks
    /\ UNCHANGED <<Vcenter, Objects>>

(* Only the machine cloned from a template is worked on further: the       *)
(* reference of one made from an imported disk is lost in an inner scope,  *)
(* and every request about it fails with a warning.                        *)
created(c) ==
    /\ Serving(c, "created")
    /\ IF call[c].ok /\ fromTemplate
       THEN Goto(c, "resize") ELSE Answer(c, call[c].ok)
    /\ UNCHANGED <<Vcenter, tasks, failures, Objects>>

(* Mutant of currentSizeGB: rounds up. *)
roundsUp(size) == (size + 1) \div 2

currentSizeGB(size) == size \div 2

(* resizeVMDisk: grows only; a failure is a warning. *)
resizeVMDisk(c) ==
    LET next == [call EXCEPT ![c].at = "attach", ![c].arg = 1] IN
    /\ Serving(c, "resize")
    /\ \/ /\ Works
          /\ IF spec.sizeGB > currentSizeGB(machine[call[c].id].size)
             THEN /\ tasks' = tasks \cup {[kind |-> "resize", id |-> call[c].id,
                                          arg |-> 2 * spec.sizeGB, disk |-> NoDisk,
                                          owner |-> c]}
                  /\ call' = [next EXCEPT ![c].waits = TRUE]
             ELSE call' = next /\ UNCHANGED tasks
       \/ Fails /\ call' = next /\ UNCHANGED tasks
    /\ UNCHANGED <<Vcenter, Objects>>

freeUnits(used) == {u \in 0..MaxUnit : u # Reserved /\ u \notin used}

(* attachAdditionalDisk on a bus whose controller is there: the lowest     *)
(* free unit, and a file named after the disk's place in the list; what    *)
(* cannot be attached is skipped.                                          *)
AttachOn(c, bus, used) ==
    LET n == call[c].arg
        free == freeUnits(used)
        unit == CHOOSE u \in free : \A v \in free : u <= v
        skip == [call EXCEPT ![c].at = "attach", ![c].arg = n + 1]
    IN  IF free = {}
        THEN call' = skip /\ UNCHANGED tasks
        ELSE /\ tasks' = tasks \cup {[kind |-> "attach", id |-> call[c].id, arg |-> n,
                                      owner |-> c, disk |-> [bus |-> bus, unit |-> unit,
                                                             file |-> n]]}
             /\ call' = [skip EXCEPT ![c].waits = TRUE]

attachAdditionalDisk(c) ==
    LET n == call[c].arg
        m == machine[call[c].id]
        bus == IF spec.additionalDisks[n] = NoBus THEN 0 ELSE spec.additionalDisks[n]
        skip == [call EXCEPT ![c].arg = n + 1]
    IN
    /\ Serving(c, "attach") /\ n <= Len(spec.additionalDisks)
    /\ \/ /\ Works
          /\ IF bus \in m.ctrls
             THEN AttachOn(c, bus, {d.unit : d \in {x \in m.disks : x.bus = bus}})
             ELSE IF spec.additionalDisks[n] = NoBus
             THEN call' = skip /\ UNCHANGED tasks
             ELSE Start(c, "controller", call[c].id, bus, "controller")
       \/ Fails /\ call' = skip /\ UNCHANGED tasks
    /\ UNCHANGED <<Vcenter, Objects>>

(* createSCSIController has ended: the machine is read again to find it. *)
createSCSIController(c) ==
    LET n == call[c].arg
        skip == [call EXCEPT ![c].at = "attach", ![c].arg = n + 1]
    IN
    /\ Serving(c, "controller")
    /\ \/ call[c].ok /\ Works /\ AttachOn(c, spec.additionalDisks[n], {})
       \/ ~call[c].ok /\ call' = skip /\ UNCHANGED <<tasks, failures>>
       \/ call[c].ok /\ Fails /\ call' = skip /\ UNCHANGED tasks
    /\ UNCHANGED <<Vcenter, Objects>>

(* Whatever happens to the power, the machine has been created. *)
powerOnCreated(c) ==
    /\ Serving(c, "attach") /\ call[c].arg > Len(spec.additionalDisks)
    /\ \/ Works /\ Start(c, "on", call[c].id, 0, "answer")
       \/ Fails /\ Answer(c, TRUE) /\ UNCHANGED tasks
    /\ UNCHANGED <<Vcenter, Objects>>

answerCreated(c) ==
    /\ Serving(c, "answer")
    /\ Answer(c, TRUE)
    /\ UNCHANGED <<Vcenter, tasks, failures, Objects>>

-----------------------------------------------------------------------------
(* Delete: any fault vCenter reports for the first look counts as a        *)
(* machine that is not there; other errors end the call.                   *)
Delete(c) ==
    LET m == machine[call[c].id] IN
    /\ Serving(c, "delete")
    /\ \/ /\ Works
          /\ IF ~m.exists THEN Answer(c, TRUE) /\ UNCHANGED tasks
             ELSE IF m.on THEN Start(c, "off", call[c].id, 0, "destroy")
             ELSE Goto(c, "destroy") /\ UNCHANGED tasks
       \/ /\ Fails /\ UNCHANGED tasks
          /\ \/ Answer(c, FALSE)
             \/ call' = [call EXCEPT ![c].at = "done", ![c].ok = TRUE, ![c].fault = TRUE]
    /\ UNCHANGED <<Vcenter, Objects>>

(* A failed power-off does not stop the deletion. *)
destroy(c) ==
    /\ Serving(c, "destroy")
    /\ \/ Works /\ Start(c, "destroy", call[c].id, 0, "ended")
       \/ Fails /\ Answer(c, FALSE) /\ UNCHANGED tasks
    /\ UNCHANGED <<Vcenter, Objects>>

(* Mutant of ended: the handler does not look at the task's result. *)
endsWell(c) ==
    /\ Serving(c, "ended")
    /\ Answer(c, TRUE)
    /\ UNCHANGED <<Vcenter, tasks, failures, Objects>>

(* WaitForResult of the last task decides the answer. *)
ended(c) ==
    /\ Serving(c, "ended")
    /\ Answer(c, call[c].ok)
    /\ UNCHANGED <<Vcenter, tasks, failures, Objects>>

(* Power on and hard power off. *)
Power(c) ==
    /\ Serving(c, "power")
    /\ \/ Works /\ Start(c, call[c].op, call[c].id, 0, "ended")
       \/ Fails /\ Answer(c, FALSE) /\ UNCHANGED tasks
    /\ UNCHANGED <<Vcenter, Objects>>

(* performGracefulShutdown: through VMware Tools where they run. *)
performGracefulShutdown(c) ==
    LET m == machine[call[c].id] IN
    /\ Serving(c, "shutdown")
    /\ \/ /\ Works /\ m.exists /\ m.on /\ setting.tools
          /\ machine' = [machine EXCEPT ![call[c].id].stopping = TRUE]
          /\ Goto(c, "poll")
       \/ /\ Works /\ ~(m.exists /\ m.on /\ setting.tools)
          /\ Goto(c, "fallback") /\ UNCHANGED machine
       \/ /\ Fails
          /\ Goto(c, "fallback") /\ UNCHANGED machine
    /\ UNCHANGED <<snap, tasks, Objects>>

(* waitForGracefulShutdown: polls until the machine is off or the time is  *)
(* up; a failed poll is repeated.                                          *)
waitForGracefulShutdown(c) ==
    /\ Serving(c, "poll")
    /\ \/ Works /\ ~machine[call[c].id].on /\ Answer(c, TRUE)
       \/ failures' = failures /\ Goto(c, "fallback")
    /\ UNCHANGED <<Vcenter, tasks, Objects>>

fallbackToPowerOff(c) ==
    /\ Serving(c, "fallback")
    /\ \/ Works /\ Start(c, "off", call[c].id, 0, "ended")
       \/ Fails /\ Answer(c, FALSE) /\ UNCHANGED tasks
    /\ UNCHANGED <<Vcenter, Objects>>

(* Describe: when the properties cannot be read the machine is said not to *)
(* exist; without a datacenter the call fails.                             *)
Describe(c) ==
    LET m == machine[call[c].id] IN
    /\ Serving(c, "describe")
    /\ \/ /\ Works
          /\ call' = [call EXCEPT ![c].at = "done", ![c].ok = m.exists,
                                  ![c].arg = IF m.on THEN 1 ELSE 0]
       \/ /\ Fails
          /\ Answer(c, FALSE) \/ call' = [call EXCEPT ![c] = NoCall]
    /\ UNCHANGED <<Vcenter, tasks, Objects>>

-----------------------------------------------------------------------------
SnapshotsOf(id) == {s \in SnapIds : snap[s].exists /\ snap[s].vm = id}

SnapshotCreate(c) ==
    /\ Serving(c, "snapshot")
    /\ \/ Works /\ Start(c, "snapshot", call[c].id, 0, "ended")
       \/ Fails /\ Answer(c, FALSE) /\ UNCHANGED tasks
    /\ UNCHANGED <<Vcenter, Objects>>

(* SnapshotDelete and SnapshotRevert find the snapshot by its reference in *)
(* the machine's tree.  (A name equal to the reference is accepted too;    *)
(* names here are unlike references.)                                      *)
findSnapshotByID(c) == call[c].arg \in SnapshotsOf(call[c].id)

SnapshotDelete(c) ==
    /\ Serving(c, "remove")
    /\ \/ /\ Works
          /\ IF findSnapshotByID(c) THEN Start(c, "remove", call[c].id, call[c].arg, "ended")
             ELSE Answer(c, FALSE) /\ UNCHANGED tasks
       \/ Fails /\ Answer(c, FALSE) /\ UNCHANGED tasks
    /\ UNCHANGED <<Vcenter, Objects>>

SnapshotRevert(c) ==
    /\ Serving(c, "revert")
    /\ \/ /\ Works
          /\ IF findSnapshotByID(c) THEN Start(c, "revert", call[c].id, call[c].arg, "ended")
             ELSE Answer(c, FALSE) /\ UNCHANGED tasks
       \/ Fails /\ Answer(c, FALSE) /\ UNCHANGED tasks
    /\ UNCHANGED <<Vcenter, Objects>>

(* A full clone, or a linked one: that hangs on a snapshot, which is made  *)
(* when there is none and stays when the clone fails.                      *)
Clone(c) ==
    /\ Serving(c, "clone")
    /\ \/ Works /\ Start(c, "clone", call[c].id, 0, "ended")
       \/ /\ Works
          /\ IF SnapshotsOf(call[c].id) # {}
             THEN Start(c, "clone", call[c].id, 0, "ended")
             ELSE Start(c, "snapshot", call[c].id, 0, "base")
       \/ Fails /\ Answer(c, FALSE) /\ UNCHANGED tasks
    /\ UNCHANGED <<Vcenter, Objects>>

cloneOnBase(c) ==
    /\ Serving(c, "base")
    /\ \/ call[c].ok /\ Works /\ Start(c, "clone", call[c].id, 0, "ended")
       \/ ~call[c].ok /\ Answer(c, FALSE) /\ UNCHANGED <<tasks, failures>>
       \/ call[c].ok /\ Fails /\ Answer(c, FALSE) /\ UNCHANGED tasks
    /\ UNCHANGED <<Vcenter, Objects>>

isNewerHardwareVersion(current, target) == target > current

(* HardwareUpgrade, of a machine that is off. *)
HardwareUpgrade(c) ==
    LET m == machine[call[c].id]
        target == call[c].arg
    IN
    /\ Serving(c, "upgrade")
    /\ \/ /\ Works
          /\ IF m.exists /\ ~m.on /\ isNewerHardwareVersion(m.version, target)
             THEN Start(c, "upgrade", call[c].id, target, "ended")
             ELSE Answer(c, m.exists /\ ~m.on /\ m.version = target) /\ UNCHANGED tasks
       \/ Fails /\ Answer(c, FALSE) /\ UNCHANGED tasks
    /\ UNCHANGED <<Vcenter, Objects>>

(* Reconfigure to two CPUs and two GiB.  Only the nested form of the JSON  *)
(* has the keys the handler looks for; with the one the gRPC client sends  *)
(* there is nothing to change.                                             *)
Reconfigure(c) ==
    LET m == machine[call[c].id]
        grown == IF 2 > currentSizeGB(m.size) THEN 4 ELSE 0
    IN
    /\ Serving(c, "reconfigure")
    /\ \/ /\ Works
          /\ IF m.exists /\ setting.nested /\ (m.cpus # 2 \/ grown # 0)
             THEN Start(c, "config", call[c].id, grown, "ended")
             ELSE Answer(c, m.exists) /\ UNCHANGED tasks
       \/ Fails /\ Answer(c, FALSE) /\ UNCHANGED tasks
    /\ UNCHANGED <<Vcenter, Objects>>

(* The handlers that each caller reaches. *)
VMHandler ==
    LET c == "vmc" IN
    \/ Create(c) \/ place(c) \/ created(c) \/ resizeVMDisk(c) \/ attachAdditionalDisk(c)
    \/ createSCSIController(c) \/ powerOnCreated(c) \/ answerCreated(c)
    \/ Delete(c) \/ destroy(c) \/ ended(c) \/ Power(c) \/ performGracefulShutdown(c)
    \/ waitForGracefulShutdown(c) \/ fallbackToPowerOff(c) \/ Describe(c)

OpHandler ==
    LET c == "op" IN
    \/ SnapshotCreate(c) \/ SnapshotDelete(c) \/ SnapshotRevert(c) \/ Clone(c)
    \/ cloneOnBase(c) \/ HardwareUpgrade(c) \/ Reconfigure(c) \/ ended(c)

-----------------------------------------------------------------------------
(* The VirtualMachine controller's passes over its object. *)
Reconcile ==
    /\ call["vmc"].at = "idle"
    /\ \/ object = "there" /\ rec = 0 /\ received[setting] # {}
             /\ Begin("vmc", "create", "create", 0, 0)
       \/ object = "there" /\ rec # 0 /\ Begin("vmc", "describe", "describe", rec, 0)
       \/ object = "deleting" /\ rec # 0 /\ Begin("vmc", "delete", "delete", rec, 0)
    /\ UNCHANGED <<rec, object, opened>>

(* A pass without a provider that validates, or that cannot be reached:    *)
(* nothing happens to an object that is wanted, one that is not goes.  So  *)
(* does one without an id.                                                 *)
Unserved ==
    /\ call["vmc"].at = "idle" /\ object # "gone"
    /\ \/ session = "none" /\ UNCHANGED failures
       \/ /\ object = "deleting"
          /\ failures < setting.maxFailures /\ failures' = failures + 1
       \/ object = "deleting" /\ rec = 0 /\ UNCHANGED failures
    /\ object' = IF object = "deleting" THEN "gone" ELSE object
    /\ UNCHANGED <<setting, Vcenter, tasks, call, session, rec, opened>>

(* adjustPowerState: the graceful form never equals what Describe says. *)
PowerOp(on) ==
    CASE setting.wants = "On" /\ on = 0 -> "on"
      [] setting.wants = "Off" /\ on = 1 -> "off"
      [] setting.wants = "OffGraceful" -> "shutdown"
      [] OTHER -> ""

(* The answer: Create's id is recorded, a machine that is gone is          *)
(* forgotten, the power is adjusted, and the object goes after Delete      *)
(* whatever it said.                                                       *)
Answered ==
    LET a == call["vmc"] IN
    /\ a.at = "done"
    /\ rec' = CASE a.op = "create" /\ a.ok -> a.id
                [] a.op = "describe" /\ ~a.ok -> 0
                [] OTHER -> rec
    /\ object' = IF a.op = "delete" THEN "gone" ELSE object
    /\ call' = [call EXCEPT !["vmc"] =
                   IF a.op = "describe" /\ a.ok /\ PowerOp(a.arg) # ""
                   THEN [NoCall EXCEPT !.op = PowerOp(a.arg), !.id = a.id,
                           !.at = IF PowerOp(a.arg) = "shutdown" THEN "shutdown" ELSE "power"]
                   ELSE NoCall]
    /\ UNCHANGED <<setting, Vcenter, tasks, session, opened, failures>>

VMController == Reconcile \/ Unserved \/ Answered \/ VMHandler

(* Other operations, three at most. *)
Operates ==
    /\ call["op"].at \in {"idle", "done"} /\ opened < 3 /\ rec # 0
    /\ opened' = opened + 1
    /\ \/ "snapshot" \in setting.ops /\ Begin("op", "snapshot", "snapshot", rec, 0)
       \/ "snapshot" \in setting.ops
             /\ \E s \in SnapIds : /\ snap[s].born
                                   /\ \/ Begin("op", "remove", "remove", rec, s)
                                      \/ Begin("op", "revert", "revert", rec, s)
       \/ "clone" \in setting.ops /\ Begin("op", "clone", "clone", rec, 0)
       \/ "upgrade" \in setting.ops
             /\ \E v \in 0..2 : Begin("op", "upgrade", "upgrade", rec, v)
       \/ "reconfigure" \in setting.ops /\ Begin("op", "reconfigure", "reconfigure", rec, 0)
    /\ UNCHANGED <<rec, object>>

UserDeletes ==
    /\ "delete" \in setting.ops /\ object = "there"
    /\ object' = "deleting"
    /\ UNCHANGED <<setting, Vcenter, tasks, call, session, rec, opened, failures>>

(* The machine is removed behind the operator's back. *)
RemovedOutside ==
    /\ "outside" \in setting.ops
    /\ failures < setting.maxFailures /\ failures' = failures + 1
    /\ \E i \in Ids :
          /\ machine[i].exists
          /\ machine' = [machine EXCEPT ![i] = [NoMachine EXCEPT !.born = TRUE]]
    /\ UNCHANGED <<snap, tasks, call, Objects>>

(* The handler ends, the task it has started does not. *)
Orphaned(C) == {IF t.owner \in C THEN [t EXCEPT !.owner = "nobody"] ELSE t : t \in tasks}
Abandoned(a) ==
    IF a.op = "delete" THEN [a EXCEPT !.at = "done", !.ok = FALSE, !.waits = FALSE] ELSE NoCall

(* The caller's deadline passes. *)
GivesUp(c) ==
    /\ call[c].at \notin {"idle", "done"}
    /\ failures < setting.maxFailures /\ failures' = failures + 1
    /\ tasks' = Orphaned({c})
    /\ call' = [call EXCEPT ![c] = Abandoned(@)]
    /\ UNCHANGED <<Vcenter, Objects>>

SessionLost ==
    /\ session = "valid"
    /\ failures < setting.maxFailures /\ failures' = failures + 1
    /\ session' = "lost"
    /\ UNCHANGED <<setting, Vcenter, tasks, call, rec, object, opened>>

(* The provider's pod is replaced: a new client logs in, or cannot, and    *)
(* then there is none.                                                     *)
New ==
    /\ failures < setting.maxFailures /\ failures' = failures + 1
    /\ session' \in {"valid", "none"}
    /\ tasks' = Orphaned(Callers)
    /\ call' = [c \in Callers |-> IF call[c].at \in {"idle", "done"} THEN call[c]
                                  ELSE Abandoned(call[c])]
    /\ UNCHANGED <<setting, Vcenter, rec, object, opened>>

Next ==
    \/ VMController \/ OpHandler \/ Operates \/ UserDeletes
    \/ TaskStep \/ GuestStops \/ GuestWrites
    \/ ((\E t \in tasks : TaskFails(t)) /\ UNCHANGED Objects)
    \/ (\E c \in Callers : GivesUp(c)) \/ SessionLost \/ New \/ RemovedOutside

Spec == Init /\ [][Next]_vars

(* The controller visits its object again and again, the server goes on    *)
(* with its handlers, and vCenter ends its tasks; the guest may ignore the *)
(* shutdown for ever.                                                      *)
Fairness ==
    /\ WF_vars(VMController)
    /\ WF_vars(OpHandler)
    /\ WF_vars(TaskStep)

FairSpec == Spec /\ Fairness

-----------------------------------------------------------------------------
(* Settings in which the code delivers what is asked.  Left out: machines  *)
(* made from an imported disk, images with sources for other providers,    *)
(* templates with a second disk (its file has the name of the first        *)
(* additional one), and a network with a part for libvirt, whose name      *)
(* replaces vSphere's even when it is empty.                               *)
Deliverable(s) ==
    LET o == s.object IN
    /\ o.imported = {} /\ s.disks = 1
    /\ \A image \in o.image : image.libvirt = {} /\ image.proxmox = {}
    /\ o.networks # <<>> => o.networks[1].libvirt = {}

(* When nothing fails, a machine that Create answers for has everything    *)
(* that the objects ask: it comes from the image's template, its root disk *)
(* has the class's size (whole GiB of it) and lost nothing of the          *)
(* template's, every additional disk is there once, with a file of its     *)
(* own, and the devices, and it is on.  The TPM is there unless there is a *)
(* network too, and the disks when there are fewer of them than units.     *)
CreatedAsAsked ==
    LET a == call["vmc"]
        o == setting.object
        m == machine[a.id]
        net == o.networks # <<>> /\ o.networks[1].vsphere \notin {{}, {""}}
    IN  (a.at = "done" /\ a.op = "create" /\ a.ok /\ failures = 0 /\ Deliverable(setting)) =>
            /\ m.exists /\ m.on
            /\ m.base = The(The(o.image).vsphere).template
            /\ m.size >= 2 * (o.class.size \div 2) /\ m.size >= setting.tplSize
            /\ Len(o.disks) < MaxUnit =>
                   /\ {d.file : d \in m.disks} = 0..Len(o.disks)
                   /\ \A d, e \in m.disks : d.file = e.file => d = e
            /\ net => "nic" \in m.devices
            /\ (o.class.tpm /\ ~net) => "tpm" \in m.devices

(* Whatever fails, no machine of the object ever exists without the user   *)
(* data that the object writes inline and in a Secret, or with the Secret  *)
(* or its key missing, since it would boot without (nothing under the key  *)
(* counts as wanting none); and its metadata is there next to user data    *)
(* (alone it is not sent).                                                 *)
GuestGetsItsData ==
    LET o == setting.object
        Parts(ci) == (IF ci.inline THEN {"inline"} ELSE {})
                        \cup (IF ci.secret = "present" THEN {"secret"} ELSE {})
        Held(parts) == {parts[i] : i \in DOMAIN parts}
    IN  \A i \in Ids : (machine[i].exists /\ machine[i].name = "vm") =>
            /\ o.userData.secret \in {"none", "empty", "present"}
            /\ Held(machine[i].guest.userdata) = Parts(o.userData)
            /\ Parts(o.userData) # {} => Parts(o.metaData) \subseteq Held(machine[i].guest.metadata)

(* A Delete that succeeds leaves no machine behind, whatever became of the *)
(* power-off before; the one exception is a fault met at the first look,   *)
(* which the code takes for a missing machine.                             *)
DeletedIsGone ==
    LET a == call["vmc"] IN
    (a.at = "done" /\ a.op = "delete" /\ a.ok /\ ~a.fault) => ~machine[a.id].exists

(* An object that is not deleted ends up with a machine in the power state *)
(* it wants, through failed requests, calls given up in the middle of      *)
(* Create, restarts of the provider and machines missing or taken for it.  *)
(* Four conditions: the Secrets it names are there, its image names a      *)
(* template or its disk a path on a datastore, the provider ends up with a *)
(* session (a lost one comes back with a restart only), and no second      *)
(* machine of the name came about in the default folder (then the name     *)
(* finds neither).                                                         *)
Converges ==
    (/\ "delete" \notin setting.ops /\ received[setting] # {}
     /\ hasSource /\ sourceFound /\ <>[](session = "valid")) =>
        \/ <>[](/\ rec # 0 /\ machine[rec].exists
                /\ machine[rec].on = (setting.wants = "On"))
        \/ <>(Cardinality({i \in Ids : machine[i].exists /\ machine[i].name = "vm"}) > 1)
=============================================================================
