--------------------------- MODULE ProxmoxProvider ---------------------------
(***************************************************************************)
(* The Proxmox provider below its RPC surface, in three layers: the RPC    *)
(* handlers of internal/providers/proxmox/server.go, the PVE API client    *)
(* they call (pveapi/client.go), and the PVE server behind it, as the fake *)
(* server of the repository (pvefake/server.go) answers.                   *)
(*                                                                         *)
(* Every request may be lost on its way, or carried out and its answer     *)
(* lost.  Calls for different machines interleave between their requests.  *)
(*                                                                         *)
(* Machine ids are drawn from the clock, in whole seconds.  The clock is   *)
(* abstracted to the id it would give: Tick moves on to an id that nothing *)
(* refers to, so ids never wrap (in the code they do after 11.6 days), and *)
(* tells every call in flight that time has passed.                        *)
(***************************************************************************)
EXTENDS CreateRequest, FiniteSets, FiniteSetsExt

CONSTANTS Names,         \* machine names
          Ids,           \* ids the clock can give, numbers
          Settings,      \* credentials, task speed, the names there are, the objects
                         \* behind each, and which machines are operated on
          SpareIds,      \* bound: ids that must be free for a Create to start
          MaxSnapshots,  \* bound on the snapshots of a machine
          MaxFailures    \* bound on lost requests and answers

ASSUME ProxmoxAssumption ==
    /\ IsFiniteSet(Names) /\ Ids \subseteq Nat \ {0} /\ Ids # {}
    /\ MaxFailures \in Nat /\ MaxSnapshots \in Nat
    /\ SpareIds \in Nat

VARIABLES setting,   \* how the provider is configured and what is asked of it
          now,       \* the id the clock gives in this second
          vms,       \* id -> the machine on the PVE server, or NoVM
          snapshots, \* id -> how many snapshots it has of one name
          want,      \* name -> what its VirtualMachine is after
          record,    \* name -> the id in its status, NoId, or Gone
          call,      \* name -> its call in flight
          failures   \* requests and answers lost so far

server == <<vms, snapshots>>
vars == <<setting, now, vms, snapshots, want, record, call, failures>>

-----------------------------------------------------------------------------
NoId == 0              \* numbers that are no ids
Gone == 99
Template == 9000       \* the seeded template
NoVM == [name |-> "none"]

Disks == {"virtio0", "scsi0", "sata0", "ide0"}
NoBoot == "template's"

VM == [name : Names \cup {"template"}, status : {"running", "stopped"},
       cpus : 0..2, size : 1..2, disk : Disks,
       boot : Disks \cup {NoBoot}, cloudInit : BOOLEAN]

(* A request has a blank disk, or names a template: by the number of one    *)
(* that exists, of one that does not, or by a name.                         *)
RequestTypes == [image : {"blank", "template", "missing", "name"}, userData : BOOLEAN]

(* The request that each machine's objects, whose Secrets are there, lead   *)
(* to.  "9000" and "9999" are the numbers in the objects.                   *)
received ==
    [s \in Settings |-> [n \in Names |->
        LET config == proxmoxParseCreateRequest(The(Sent(s.object[n]))) IN
        [image |-> CASE config.template = "" -> "blank"
                     [] config.template = "9000" -> "template"
                     [] config.template = "9999" -> "missing"
                     [] OTHER -> "name",
         userData |-> config.cloudInit]]]

createRequest(n) == received[setting][n]

Steps == {"idle", "check", "make", "waitClone", "detect", "cloudInit", "waitConfig", "answer"}

(* A task runs for TaskDelay seconds on the fake server, the client waits   *)
(* for TaskTimeout.                                                         *)
TaskDelay == IF setting.slow THEN 9 ELSE 1
TaskTimeout == 3

(* id is the id drawn, boot the primary disk found, age the seconds the     *)
(* awaited task has run, due whether a second has passed since the last     *)
(* poll, or since the end of the last call.                                 *)
Call == [step : Steps, id : Ids \cup {NoId}, boot : Disks \cup {NoBoot},
         age : 0..TaskTimeout, due : BOOLEAN]

TypeOK ==
    /\ setting \in Settings
    /\ now \in Ids
    /\ vms \in [Ids \cup {Template} -> VM \cup {NoVM}]
    /\ snapshots \in [Ids \cup {Template} -> 0..MaxSnapshots]
    /\ want \in [Names -> {"machine", "gone", "cut", "again"}]
    /\ record \in [Names -> Ids \cup {NoId, Gone}]
    /\ call \in [Names -> Call]
    /\ failures \in 0..MaxFailures

Idle == [step |-> "idle", id |-> NoId, boot |-> NoBoot, age |-> 0, due |-> FALSE]

(* seedData: the template; its disk is on the bus the setting says.         *)
seedData ==
    [i \in Ids \cup {Template} |->
        IF i = Template
        THEN [name |-> "template", status |-> "stopped", cpus |-> 0, size |-> 1,
              disk |-> setting.disk, boot |-> NoBoot, cloudInit |-> FALSE]
        ELSE NoVM]

Init ==
    /\ setting \in Settings
    /\ now = Min(Ids)
    /\ vms = seedData
    /\ snapshots = [i \in Ids \cup {Template} |-> 0]
    /\ want = [n \in Names |-> "machine"]
    /\ record = [n \in Names |-> IF n \in setting.names THEN NoId ELSE Gone]
    /\ call = [n \in Names |-> [Idle EXCEPT !.due = TRUE]]
    /\ failures = 0

-----------------------------------------------------------------------------
(* The PVE server.  A handler gives the status code and the server's state  *)
(* after it.  Creating, cloning and the rest take effect at once; the task  *)
(* that is answered only makes the caller wait.                             *)
Response(code, v, s) == [code |-> code, vms |-> v, snapshots |-> s, spent |-> 0]
Unchanged(code) == Response(code, vms, snapshots)
Exists(i) == i \in DOMAIN vms /\ vms[i] # NoVM

handleGetVM(i) == Unchanged(IF Exists(i) THEN 200 ELSE 404)

(* The fake server always names one disk, scsi0; a real one names the disks *)
(* there are, as is modelled.                                               *)
handleGetVMConfig(i) == Unchanged(IF Exists(i) THEN 200 ELSE 404)

handleCreateVM(i, vm) ==
    IF Exists(i) THEN Unchanged(409) ELSE Response(200, [vms EXCEPT ![i] = vm], snapshots)

handleCloneVM(source, i, n) ==
    IF ~Exists(source) THEN Unchanged(404)
    ELSE IF Exists(i) THEN Unchanged(409)
    ELSE Response(200,
                  [vms EXCEPT ![i] = [vms[source] EXCEPT !.name = n, !.status = "stopped"]],
                  snapshots)

handleDeleteVM(i) ==
    IF ~Exists(i) THEN Unchanged(404) ELSE Response(200, [vms EXCEPT ![i] = NoVM], snapshots)

(* There is no route for "shutdown", only for the operations below.         *)
handlePowerOp(i, op) ==
    IF ~Exists(i) \/ op = "shutdown" THEN Unchanged(404)
    ELSE CASE op = "start"  -> Response(200, [vms EXCEPT ![i].status = "running"], snapshots)
           [] op = "stop"   -> Response(200, [vms EXCEPT ![i].status = "stopped"], snapshots)
           [] op = "reboot" -> Unchanged(200)

handleReconfigureVM(i, vm) ==
    IF ~Exists(i) THEN Unchanged(404) ELSE Response(200, [vms EXCEPT ![i] = vm], snapshots)

handleResizeDisk(i, gb) ==
    IF ~Exists(i) THEN Unchanged(404) ELSE Response(200, [vms EXCEPT ![i].size = gb], snapshots)

handleCreateSnapshot(i) ==
    IF ~Exists(i) THEN Unchanged(404)
    ELSE Response(200, vms, [snapshots EXCEPT ![i] = @ + 1])

(* The first snapshot of the name goes; one that is not there is no error.  *)
handleDeleteSnapshot(i) ==
    IF ~Exists(i) THEN Unchanged(404)
    ELSE Response(200, vms, [snapshots EXCEPT ![i] = IF @ = 0 THEN 0 ELSE @ - 1])

handleRevertSnapshot(i) == Unchanged(IF Exists(i) THEN 200 ELSE 404)

(* A task is done when it is asked about after its delay; it always ends    *)
(* well on the fake server, a real one may report another exit code.        *)
handleGetTaskStatus(age) ==
    IF age <= TaskDelay THEN {"running"}
    ELSE {"OK"} \cup (IF failures < MaxFailures THEN {"failed"} ELSE {})

-----------------------------------------------------------------------------
(* The client.  request: without a token no Authorization header is set,    *)
(* also when a user name and a password are configured, and the server      *)
(* refuses (ServeHTTP).  Otherwise the server answers, fails the request    *)
(* (shouldFail), or the answer does not arrive; code 0 stands for both.     *)
ServeHTTP(resp) ==
    IF setting.auth # "token" THEN {Unchanged(401)}
    ELSE {resp} \cup (IF failures < MaxFailures THEN {[Unchanged(0) EXCEPT !.spent = 1]} ELSE {})

request(resp) ==
    ServeHTTP(resp)
        \cup (IF setting.auth = "token" /\ failures < MaxFailures
              THEN {[resp EXCEPT !.code = 0, !.spent = 1]} ELSE {})

(* What most client functions make of an answer.                            *)
Outcome(r, absent) ==
    [r EXCEPT !.code = CASE @ = 200 -> "ok" [] @ = 404 -> absent [] OTHER -> "error"]

GetVM(i) == {Outcome(r, "absent") : r \in request(handleGetVM(i))}
GetVMConfig(i) == {Outcome(r, "absent") : r \in request(handleGetVMConfig(i))}
CreateVM(i, vm) == {Outcome(r, "error") : r \in request(handleCreateVM(i, vm))}
CloneVM(source, i, n) == {Outcome(r, "error") : r \in request(handleCloneVM(source, i, n))}
PowerOperation(i, op) == {Outcome(r, "error") : r \in request(handlePowerOp(i, op))}
ReconfigureVM(i, cpus) ==
    {Outcome(r, "error") : r \in request(handleReconfigureVM(i, [vms[i] EXCEPT !.cpus = cpus]))}
ResizeDisk(i, gb) == {Outcome(r, "error") : r \in request(handleResizeDisk(i, gb))}
CreateSnapshot(i) == {Outcome(r, "error") : r \in request(handleCreateSnapshot(i))}
RevertSnapshot(i) == {Outcome(r, "error") : r \in request(handleRevertSnapshot(i))}

(* A machine or a snapshot that is not there counts as deleted.             *)
DeleteVM(i) == {Outcome(r, "ok") : r \in request(handleDeleteVM(i))}
DeleteSnapshot(i) == {Outcome(r, "ok") : r \in request(handleDeleteSnapshot(i))}

(* The cloud-init drive, keys, user, networks and boot order in one go.     *)
ReconfigureVMRaw(i, boot) ==
    {Outcome(r, "error") : r \in
        request(handleReconfigureVM(i, IF Exists(i)
                                       THEN [vms[i] EXCEPT !.boot = boot, !.cloudInit = TRUE]
                                       ELSE NoVM))}

(* The first bus, in this order, that holds a disk which is not a CD drive; *)
(* machines have one disk here.                                             *)
DetectPrimaryDisk(i) ==
    {[o EXCEPT !.code = IF @ = "ok" THEN vms[i].disk ELSE "scsi0"] : o \in GetVMConfig(i)}

(* The answer of a status request, or that it failed.                       *)
GetTaskStatus(age) ==
    IF setting.auth # "token" THEN {"error"}
    ELSE handleGetTaskStatus(age) \cup (IF failures < MaxFailures THEN {"error"} ELSE {})

Apply(o) ==
    /\ vms' = o.vms
    /\ snapshots' = o.snapshots
    /\ failures' = failures + o.spent

-----------------------------------------------------------------------------
(* Calls of the RPC handlers.  Without credentials there is no client and   *)
(* every handler answers Unavailable.                                       *)
NewClient == setting.auth \in {"token", "password"}

At(n, s) == call[n].step = s
Go(n, s) == call' = [call EXCEPT ![n].step = s]
Ended(n) == call' = [call EXCEPT ![n] = Idle]

(* Ids nothing refers to: what a clock that never wraps can give next.      *)
FreshIds ==
    {i \in Ids : /\ i # now /\ ~Exists(i) /\ snapshots[i] = 0
                 /\ \A n \in Names : record[n] # i /\ call[n].id # i}

(* Mutant of Draw: the id does not depend on the time.                      *)
sameIdEachTime == Min(Ids)

(* parseCreateRequest and Clone take the id from the clock.                 *)
Draw == now

(* The machine that CreateVM asks for, a blank one.                         *)
blankMachine(n) ==
    [name |-> n, status |-> "stopped", cpus |-> 0, size |-> 1, disk |-> "scsi0",
     boot |-> NoBoot, cloudInit |-> createRequest(n).userData]

(* A failed Create is repeated after 5 s, hence in a later second.          *)
Create(n) ==
    /\ At(n, "idle") /\ call[n].due
    /\ want[n] = "machine" /\ record[n] = NoId
    /\ NewClient
    /\ Cardinality(FreshIds) >= SpareIds
    /\ call' = [call EXCEPT ![n] = [Idle EXCEPT !.step = "check", !.id = Draw]]
    /\ UNCHANGED <<server, setting, now, want, record, failures>>

(* Mutant of CheckExisting: whatever machine has the id is taken.           *)
takesAnyMachine(n) ==
    /\ At(n, "check")
    /\ \E o \in GetVM(call[n].id) :
        /\ Apply(o)
        /\ Go(n, IF o.code = "ok" THEN "answer" ELSE "make")
    /\ UNCHANGED <<setting, now, want, record>>

(* A machine of the name under the id is taken, one of another name makes   *)
(* the id be drawn again, unchecked; an error of any kind is no machine.    *)
CheckExisting(n) ==
    /\ At(n, "check")
    /\ \E o \in GetVM(call[n].id) :
        /\ Apply(o)
        /\ \/ /\ o.code = "ok" /\ vms[call[n].id].name = n
              /\ Go(n, "answer")
           \/ /\ o.code = "ok" /\ vms[call[n].id].name # n
              /\ call' = [call EXCEPT ![n].step = "make", ![n].id = Draw]
           \/ /\ o.code # "ok"
              /\ Go(n, "make")
    /\ UNCHANGED <<setting, now, want, record>>

(* A template must be given by its number; a missing one fails the clone.   *)
MakeMachine(n) ==
    LET i == call[n].id
        source == IF createRequest(n).image = "template" THEN Template ELSE NoId IN
    /\ At(n, "make")
    /\ \/ /\ createRequest(n).image = "name"
          /\ Ended(n)
          /\ UNCHANGED <<server, failures>>
       \/ /\ createRequest(n).image = "blank"
          /\ \E o \in CreateVM(i, blankMachine(n)) :
                Apply(o) /\ (IF o.code = "ok" THEN Go(n, "answer") ELSE Ended(n))
       \/ /\ createRequest(n).image \in {"template", "missing"}
          /\ \E o \in CloneVM(source, i, n) :
                Apply(o) /\ (IF o.code = "ok" THEN Go(n, "waitClone") ELSE Ended(n))
    /\ UNCHANGED <<setting, now, want, record>>

AfterWait(n) ==
    IF At(n, "waitClone") /\ createRequest(n).userData THEN "detect" ELSE "answer"

(* Mutant of WaitForTask: a task that still runs counts as failed.          *)
runningIsFailed(n) ==
    /\ call[n].step \in {"waitClone", "waitConfig"} /\ call[n].due
    /\ \E t \in GetTaskStatus(call[n].age) :
        /\ IF t = "OK"
           THEN call' = [call EXCEPT ![n].step = AfterWait(n), ![n].age = 0, ![n].due = FALSE]
           ELSE Ended(n)
        /\ failures' = IF t \in {"failed", "error"} THEN failures + 1 ELSE failures
    /\ UNCHANGED <<server, setting, now, want, record>>

(* WaitForTask: a poll per tick; an error of the poll ends the wait.        *)
WaitForTask(n) ==
    /\ call[n].step \in {"waitClone", "waitConfig"} /\ call[n].due
    /\ \E t \in GetTaskStatus(call[n].age) :
        /\ CASE t = "OK" -> call' = [call EXCEPT ![n].step = AfterWait(n), ![n].age = 0, ![n].due = FALSE]
             [] t = "running" -> call' = [call EXCEPT ![n].due = FALSE]
             [] OTHER -> Ended(n)
        /\ failures' = IF t \in {"failed", "error"} THEN failures + 1 ELSE failures
    /\ UNCHANGED <<server, setting, now, want, record>>

(* The wait ends at its deadline; the task goes on.                         *)
TaskTimedOut(n) ==
    /\ call[n].step \in {"waitClone", "waitConfig"}
    /\ call[n].age = TaskTimeout /\ ~call[n].due
    /\ Ended(n)
    /\ UNCHANGED <<server, setting, now, want, record, failures>>

DetectDisk(n) ==
    /\ At(n, "detect")
    /\ \E o \in DetectPrimaryDisk(call[n].id) :
        /\ Apply(o)
        /\ call' = [call EXCEPT ![n].step = "cloudInit", ![n].boot = o.code]
    /\ UNCHANGED <<setting, now, want, record>>

(* Mutant of ApplyCloudInit: its failure is only logged.                    *)
cloudInitErrorIgnored(n) ==
    /\ At(n, "cloudInit")
    /\ \E o \in ReconfigureVMRaw(call[n].id, call[n].boot) :
        Apply(o) /\ Go(n, "waitConfig")
    /\ UNCHANGED <<setting, now, want, record>>

ApplyCloudInit(n) ==
    /\ At(n, "cloudInit")
    /\ \E o \in ReconfigureVMRaw(call[n].id, call[n].boot) :
        Apply(o) /\ (IF o.code = "ok" THEN Go(n, "waitConfig") ELSE Ended(n))
    /\ UNCHANGED <<setting, now, want, record>>

(* The answer reaches the controller, which records the id; or it does not, *)
(* or the status is not written; or the user's deletion has made the        *)
(* controller's copy old, and the write fails on its version.               *)
CreateAnswered(n) ==
    /\ At(n, "answer")
    /\ Ended(n)
    /\ \/ /\ want[n] = "machine"
          /\ record' = [record EXCEPT ![n] = call[n].id]
          /\ UNCHANGED failures
       \/ /\ want[n] = "machine" /\ failures < MaxFailures
          /\ failures' = failures + 1
          /\ UNCHANGED record
       \/ /\ want[n] = "cut"
          /\ UNCHANGED <<record, failures>>
    /\ UNCHANGED <<server, setting, now, want>>

-----------------------------------------------------------------------------
(* The handlers that make one request, or a read and a request, for the     *)
(* machine on record.                                                       *)
Recorded(n) == At(n, "idle") /\ record[n] \in Ids /\ NewClient
Operated(n) == Recorded(n) /\ want[n] = "machine" /\ n \in setting.operated

(* The controller's handleDeletion around Delete.  Whatever Delete answers  *)
(* the finalizer is removed and the VirtualMachine goes.  A request that is *)
(* lost stands also for a Delete that could not be called, and for a delete *)
(* task that fails later: nobody waits for it.  If the finalizer is not     *)
(* removed, the next pass deletes again.                                    *)
Delete(n) ==
    /\ Recorded(n) /\ want[n] # "machine"
    /\ \E o \in DeleteVM(record[n]) :
        /\ vms' = o.vms
        /\ snapshots' = o.snapshots
        /\ \/ /\ record' = [record EXCEPT ![n] = Gone]
              /\ failures' = failures + o.spent
              /\ UNCHANGED want
           \/ /\ failures + o.spent < MaxFailures
              /\ failures' = failures + o.spent + 1
              /\ want' = [want EXCEPT ![n] = "again"]
              /\ UNCHANGED record
    /\ UNCHANGED <<setting, now, call>>

(* A VirtualMachine without an id is let go without a call.                 *)
Finalize(n) ==
    /\ At(n, "idle") /\ want[n] # "machine" /\ record[n] = NoId
    /\ record' = [record EXCEPT ![n] = Gone]
    /\ UNCHANGED <<server, setting, now, want, call, failures>>

(* Describe says that the machine does not exist, and the id is dropped.    *)
Describe(n) ==
    /\ Recorded(n) /\ want[n] = "machine"
    /\ \E o \in GetVM(record[n]) : o.code = "absent" /\ Apply(o)
    /\ record' = [record EXCEPT ![n] = NoId]
    /\ UNCHANGED <<setting, now, want, call>>

Power(n) ==
    /\ Operated(n)
    /\ \E op \in {"start", "stop", "reboot", "shutdown"} :
        \E o \in PowerOperation(record[n], op) : Apply(o)
    /\ UNCHANGED <<setting, now, want, record, call>>

(* A smaller disk is refused; a larger one is resized and the call returns, *)
(* leaving the CPUs for the next; only a disk called scsi0 is looked at.    *)
Reconfigure(n) ==
    /\ Operated(n)
    /\ \E cpus \in 1..2, gb \in 1..2 :
        \E c \in GetVMConfig(record[n]) :
            IF c.code # "ok" THEN Apply(c)
            ELSE /\ ~(vms[record[n]].disk = "scsi0" /\ gb < vms[record[n]].size)
                 /\ IF vms[record[n]].disk = "scsi0" /\ gb > vms[record[n]].size
                    THEN \E o \in ResizeDisk(record[n], gb) : Apply(o)
                    ELSE \E o \in ReconfigureVM(record[n], cpus) : Apply(o)
    /\ UNCHANGED <<setting, now, want, record, call>>

(* The snapshot's id is its name: the hint, or one made from the clock; in  *)
(* both cases another snapshot may have got the same, as all have here.     *)
SnapshotCreate(n) ==
    /\ Operated(n) /\ snapshots[record[n]] < MaxSnapshots
    /\ \E o \in CreateSnapshot(record[n]) : Apply(o)
    /\ UNCHANGED <<setting, now, want, record, call>>

SnapshotDelete(n) ==
    /\ Operated(n)
    /\ \E o \in DeleteSnapshot(record[n]) : Apply(o)
    /\ UNCHANGED <<setting, now, want, record, call>>

(* What a machine's disks become again is not modelled.                     *)
SnapshotRevert(n) ==
    /\ Operated(n)
    /\ \E o \in RevertSnapshot(record[n]) : Apply(o)
    /\ UNCHANGED <<setting, now, want, record, call>>

-----------------------------------------------------------------------------
(* The VirtualMachine is deleted by its user, perhaps while it is created.  *)
UserDeletes(n) ==
    /\ want[n] = "machine" /\ record[n] # Gone
    /\ want' = [want EXCEPT ![n] = IF At(n, "idle") THEN "gone" ELSE "cut"]
    /\ UNCHANGED <<server, setting, now, record, call, failures>>

Waiting(c) == c.step \in {"idle", "waitClone", "waitConfig"}

(* A second passes.  A poll that is due is sent before the next one.        *)
Tick ==
    /\ \A n \in Names : call[n].step \in {"waitClone", "waitConfig"} => ~call[n].due
    /\ \A n \in Names : call[n].age < TaskTimeout
    /\ FreshIds # {}
    /\ now' = Min(FreshIds)
    /\ call' = [n \in Names |->
                  IF Waiting(call[n])
                  THEN [call[n] EXCEPT !.due = TRUE, !.age = IF At(n, "idle") THEN 0 ELSE @ + 1]
                  ELSE call[n]]
    /\ UNCHANGED <<server, setting, want, record, failures>>

(* The controller's calls for one VirtualMachine.                           *)
VMStep(n) ==
    \/ Create(n) \/ CheckExisting(n) \/ MakeMachine(n)
    \/ WaitForTask(n) \/ TaskTimedOut(n)
    \/ DetectDisk(n) \/ ApplyCloudInit(n) \/ CreateAnswered(n)
    \/ Delete(n) \/ Finalize(n) \/ Describe(n)

Next ==
    \/ Tick
    \/ \E n \in Names :
        \/ VMStep(n) \/ UserDeletes(n)
        \/ Power(n) \/ Reconfigure(n) \/ SnapshotCreate(n) \/ SnapshotDelete(n) \/ SnapshotRevert(n)

Spec == Init /\ [][Next]_vars

(* A handler runs on until it returns, the controller repeats what failed,  *)
(* and time passes.                                                         *)
FairSpec ==
    /\ Spec
    /\ WF_vars(Tick)
    /\ \A n \in Names : WF_vars(VMStep(n))

-----------------------------------------------------------------------------
(* The id that the status of a VirtualMachine holds is the id of a machine  *)
(* of its own, although two Creates of one second draw the same id.  A      *)
(* VirtualMachine that is deleted again is left out: a Create which drew    *)
(* the id in that second may have used it after the first deletion.         *)
RecordedIsOwn ==
    \A n \in Names :
        (record[n] \in Ids /\ want[n] # "again" /\ Exists(record[n]))
            => vms[record[n]].name = n

(* A machine is put on record only with its cloud-init data in place, also  *)
(* when an earlier Create left a clone without it behind: Create's check    *)
(* for an existing machine looks under a new id.                            *)
CloudInitApplied ==
    \A n \in Names :
        (/\ record[n] \in Ids /\ want[n] # "again" /\ Exists(record[n])
         /\ createRequest(n).userData)
            => vms[record[n]].cloudInit

Stray(i) ==
    Exists(i) /\ \A n \in Names : record[n] # i /\ call[n].id # i

(* Every machine on the server that no VirtualMachine and no Create in      *)
(* progress knows is explained by a request, an answer or a status write    *)
(* that failed, one by one, or by a VirtualMachine that was deleted while   *)
(* it was created: neither clashing ids, nor the retries after them, nor    *)
(* the wait for the tasks leave machines behind.  Slow servers are left     *)
(* out: every Create that runs into its deadline leaves its clone.          *)
StraysAreExplained ==
    ~setting.slow =>
        Cardinality({i \in Ids : Stray(i)})
            <= failures + Cardinality({n \in Names : want[n] = "cut"})

(* With a token, an image that can be used and clones that end in time, a   *)
(* VirtualMachine gets its machine although ids drawn in one second clash,  *)
(* and keeps it on record until the user deletes it.                        *)
Servable(n) ==
    /\ n \in setting.names /\ setting.auth = "token" /\ ~setting.slow
    /\ createRequest(n).image \in {"blank", "template"}

CreateCompletes ==
    <>[](\A n \in Names : Servable(n) => record[n] \in Ids \/ want[n] # "machine")
=============================================================================
