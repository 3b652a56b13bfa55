--------------------------- MODULE LibvirtProvider ---------------------------
(***************************************************************************)
(* The libvirt provider below its RPC surface: the sequences of virsh and  *)
(* shell commands that internal/providers/libvirt runs on a hypervisor     *)
(* host to create, delete, start, stop, reconfigure, snapshot and describe *)
(* domains (provider_virsh.go, virsh.go, storage.go, cloudinit.go and      *)
(* server.go).                                                             *)
(*                                                                         *)
(* A step is a command, or a run of commands that touches nothing another  *)
(* call looks at, and may fail.  A call may also end between two steps:    *)
(* the RPC deadline passes, or the provider pod restarts.                  *)
(* Calls for different domains interleave on the one storage pool of the   *)
(* host.  Calls for one domain come from two callers that do not wait for  *)
(* each other: the VirtualMachine controller (call) and the VMSnapshot     *)
(* controller (snap).                                                      *)
(*                                                                         *)
(* Two kinds of connection are modelled: ssh with a password, on which     *)
(* every command runs on the host, and a libvirtd that shares the file     *)
(* system of the provider.  On any other (qemu+tcp, qemu+tls, ssh with a   *)
(* key) the file commands run in the pod, away from the host's files.      *)
(*                                                                         *)
(* A file is a pair <<kind, owner>>; the contents of files and of domain   *)
(* XML are abstracted to which files the domain refers to.                 *)
(***************************************************************************)
EXTENDS CreateRequest, Naturals, FiniteSets

CONSTANTS Names,         \* domain names (the id of a domain is its name)
          DiskNameOf,    \* pairs <<n, m>>: the name m is n followed by "-disk"
          Images,        \* image files given by a path on the host
          Snapshots,     \* snapshot names
          Settings,      \* connections, the objects behind every name, who is snapshotted
          Operated,      \* names whose machine is described and switched
          MaxFailures    \* bound on failing commands and aborted calls

ASSUME LibvirtAssumption ==
    /\ IsFiniteSet(Names) /\ Names # {} /\ Snapshots # {}
    /\ DiskNameOf \subseteq (Names \X Names) /\ Operated \subseteq Names
    /\ MaxFailures \in Nat

VARIABLES remote,    \* file commands run over ssh on the host, not in the pod
          request,   \* name -> the create request of its VirtualMachine
          snapshotted, \* names whose machine is snapshotted
          pool,      \* the "default" storage pool
          files,     \* files on the host
          domains,   \* name -> the defined domain, or NoDomain
          want,      \* name -> what the VirtualMachine controller is after
          known,     \* name -> the VirtualMachine records the domain's id
          call,      \* name -> its call in flight for the VirtualMachine
          snap,      \* name -> its call in flight for a VMSnapshot
          failuresLeft  \* failing commands and aborted calls to come

config == <<remote, request, snapshotted>>
vars == <<remote, request, snapshotted, pool, files, domains, want, known, call, snap, failuresLeft>>

-----------------------------------------------------------------------------
NoFile == <<"none", "none">>
NoDomain == [power |-> "undefined"]

Volume(n) == <<"volume", n>>     \* <name>-disk or <name>-disk.qcow2 in the pool
Stray(n) == <<"stray", n>>       \* the same in a pool with another path
Overlay(n) == <<"overlay", n>>   \* what a --disk-only snapshot diverts writes to
SeedISO(n) == <<"seed", n>>      \* /tmp/virtrigaud-cloudinit/<name>/cloud-init.iso
ImageFile(i) == <<"image", i>>   \* an image given by its path

AllFiles ==
    {ImageFile(i) : i \in Images}
        \cup UNION {{Volume(n), Stray(n), Overlay(n), SeedISO(n)} : n \in Names}

(* What Create takes from the request: the disk source ("blank": no image,  *)
(* "url", "file": an image to copy, "pool": a .qcow2 file that already lies *)
(* in the pool directory, "unknown": a template nobody knows) and whether   *)
(* the user supplied cloud-init data.                                       *)
RequestTypes ==
    [source : {"blank", "url", "file", "pool", "unknown"}, image : STRING, userData : BOOLEAN]

(* The request for the objects o, whose Secrets are there.                  *)
createRequest(o) ==
    LET req == libvirtParseCreateRequest(The(Sent(o)))
        from == extractImageSpec(req)
    IN  [source |-> from.source, image |-> from.image, userData |-> req.userData # <<>>]

(* disk is the file the domain writes to, config the one its persistent     *)
(* definition names, base the one it was created with.  A transient domain  *)
(* has no persistent definition and vanishes when it stops.                 *)
Domain ==
    [power : {"running", "shut off", "paused"}, transient : BOOLEAN,
     base : AllFiles, disk : AllFiles, config : AllFiles,
     iso : AllFiles \cup {NoFile}, snapshots : SUBSET Snapshots]

CreateSteps == {"pool", "poolRemove", "poolDefine", "disk", "convert", "seed",
                "define", "answer"}
DeleteSteps == {"cleanup", "inspect", "destroy", "undefine", "remove"}
PowerSteps == {"start", "stop", "shutdown", "restart", "sync", "syncDefine"}

Call ==
    [step : CreateSteps \cup DeleteSteps \cup PowerSteps \cup {"idle"},
     disk : AllFiles \cup {NoFile}, iso : AllFiles \cup {NoFile},
     clean : BOOLEAN,
     answer : {"none", "deleted", "On", "Off"}]

(* Only SnapshotRevert reads what it uses after another command.            *)
SnapCall == [step : {"idle"}] \cup [step : {"revert"}, name : Snapshots, running : BOOLEAN]

TypeOK ==
    /\ remote \in BOOLEAN
    /\ request \in [Names -> RequestTypes]
    /\ snapshotted \subseteq Names
    /\ pool \in {"absent", "elsewhere", "inactive", "active"}
    /\ files \subseteq AllFiles
    /\ domains \in [Names -> Domain \cup {NoDomain}]
    /\ want \in [Names -> {"machine", "gone"}]
    /\ known \in [Names -> BOOLEAN]
    /\ call \in [Names -> Call]
    /\ snap \in [Names -> SnapCall]
    /\ failuresLeft \in 0..MaxFailures

Idle(a) == [step |-> "idle", disk |-> NoFile, iso |-> NoFile,
            clean |-> TRUE, answer |-> a]
IdleSnap == [step |-> "idle"]

Init ==
    /\ \E s \in Settings :
          /\ remote = s.remote
          /\ request = [n \in Names |-> createRequest(s.object[n])]
          /\ snapshotted = s.snapshotted
    /\ pool \in {"absent", "elsewhere", "inactive", "active"}
    /\ files = {ImageFile(i) : i \in Images}
    /\ domains = [n \in Names |-> NoDomain]
    /\ want = [n \in Names |-> "machine"]
    /\ known = [n \in Names |-> FALSE]
    /\ call = [n \in Names |-> Idle("none")]
    /\ snap = [n \in Names |-> IdleSnap]
    /\ failuresLeft = MaxFailures

-----------------------------------------------------------------------------
Defined(n) == domains[n] # NoDomain
At(n, s) == call[n].step = s
Go(n, s) == call' = [call EXCEPT ![n].step = s, ![n].answer = "none"]
Return(n, a) == call' = [call EXCEPT ![n] = Idle(a)]
Stopped(d) ==
    IF d = NoDomain \/ d.transient THEN NoDomain ELSE [d EXCEPT !.power = "shut off", !.disk = d.config]
Spend == failuresLeft > 0 /\ failuresLeft' = failuresLeft - 1
Succeeds == UNCHANGED failuresLeft

(* The controller lets a VirtualMachine go whose Delete answered an error,  *)
(* with whatever the Delete left.                                           *)
LetGo(n) ==
    known' = [known EXCEPT ![n] = @ /\ call[n].step \notin DeleteSteps]

(* runVirshCommand: a command of one of these steps that exits with an      *)
(* error makes the handler give up and return a retryable error.  The seed  *)
(* step gives up only on cloud-init data the user supplied.                 *)
FatalSteps == {"pool", "poolDefine", "disk", "convert", "define",
               "undefine", "start", "stop"}

Fatal(n) ==
    \/ call[n].step \in FatalSteps
    \/ At(n, "seed") /\ request[n].userData

(* CleanupCloudInit, which a Create defers once the seed is written:        *)
(* os.RemoveAll in the provider's own file system, which is the host's on a *)
(* local connection.                                                        *)
CleanupCloudInit(n, fs) ==
    IF ~remote /\ call[n].step \in CreateSteps /\ call[n].iso # NoFile
    THEN fs \ {SeedISO(n)} ELSE fs

runVirshCommandFails(n) ==
    /\ Fatal(n)
    /\ Spend
    /\ Return(n, "none")
    /\ files' = CleanupCloudInit(n, files)
    /\ LetGo(n)
    /\ UNCHANGED <<config, pool, domains, want, snap>>

(* The deadline of the RPC or a restart of the provider ends the call       *)
(* between two commands.  When the controller restarts as well, it does not *)
(* see the error, and a Delete is repeated.                                 *)
CallAborted(n) ==
    /\ ~At(n, "idle")
    /\ Spend
    /\ Return(n, "none")
    /\ LetGo(n) \/ UNCHANGED known
    /\ UNCHANGED <<config, pool, files, domains, want, snap>>

-----------------------------------------------------------------------------
(* Create: listDomains, and a domain of this name is taken for the one to   *)
(* create.                                                                  *)
Create(n) ==
    /\ At(n, "idle") /\ want[n] = "machine" /\ ~known[n]
    /\ Go(n, IF Defined(n) THEN "answer" ELSE "pool")
    /\ UNCHANGED <<config, pool, files, domains, want, known, snap, failuresLeft>>

(* pool-start of a pool that does not run.                                  *)
ensurePoolActive(state) == IF state = "inactive" THEN "active" ELSE state

(* pool-list, pool-dumpxml and, for a pool with the right path, the         *)
(* pool-start of ensurePoolActive.  Without an answer from pool-dumpxml the *)
(* pool is taken as it is.                                                  *)
EnsureDefaultStoragePool(n) ==
    /\ At(n, "pool")
    /\ \/ /\ Succeeds
          /\ Go(n, CASE pool = "absent" -> "poolDefine"
                     [] pool = "elsewhere" -> "poolRemove"
                     [] OTHER -> "disk")
          /\ pool' = ensurePoolActive(pool)
       \/ /\ pool = "elsewhere" /\ Spend
          /\ Go(n, "disk")
          /\ UNCHANGED pool
    /\ UNCHANGED <<config, files, domains, want, known, snap>>

(* pool-destroy and pool-undefine of whatever is called "default" by now;   *)
(* their errors are ignored.                                                *)
RemovePool(n) ==
    /\ At(n, "poolRemove")
    /\ \/ Succeeds /\ pool' = "absent"
       \/ Spend /\ UNCHANGED pool
    /\ Go(n, "poolDefine")
    /\ UNCHANGED <<config, files, domains, want, known, snap>>

(* pool-define, which libvirt refuses while a pool has the name; then       *)
(* pool-build and pool-autostart, and the pool-start of ensurePoolActive.   *)
createDefaultStoragePool(n) ==
    /\ At(n, "poolDefine")
    /\ IF pool = "absent"
       THEN pool' = "active" /\ Go(n, "disk")
       ELSE Return(n, "none") /\ UNCHANGED pool
    /\ UNCHANGED <<config, files, domains, want, known, snap, failuresLeft>>

(* The disk of the machine, in the directory GetPoolInfo reads from the     *)
(* pool, which must still be there.                                         *)
VolumeIn(n) == IF pool = "elsewhere" THEN Stray(n) ELSE Volume(n)
HaveDisk(n, step, file) ==
    call' = [call EXCEPT ![n].step = step, ![n].disk = file]

(* CreateVolume: vol-create-as, refused while a volume has the name, then   *)
(* vol-info, vol-path and the ownership of the file.                        *)
CreateVolume(n) ==
    /\ At(n, "disk") /\ request[n].source = "blank"
    /\ pool # "absent" /\ VolumeIn(n) \notin files
    /\ files' = files \cup {VolumeIn(n)}
    /\ HaveDisk(n, "seed", VolumeIn(n))
    /\ UNCHANGED <<config, pool, domains, want, known, snap, failuresLeft>>

(* DownloadCloudImage, also reached through CreateVolumeFromTemplate: wget  *)
(* into /tmp.                                                               *)
DownloadCloudImage(n) ==
    /\ At(n, "disk") /\ request[n].source = "url"
    /\ pool # "absent"
    /\ HaveDisk(n, "convert", VolumeIn(n))
    /\ UNCHANGED <<config, pool, files, domains, want, known, snap, failuresLeft>>

(* CreateVolumeFromImageFile: test -f, and an image that already lies in    *)
(* the pool directory becomes the disk as it is.                            *)
CreateVolumeFromImageFile(n) ==
    /\ At(n, "disk") /\ request[n].source \in {"file", "pool"}
    /\ pool # "absent" /\ ImageFile(request[n].image) \in files
    /\ IF request[n].source = "pool" /\ pool = "active"
       THEN HaveDisk(n, "seed", ImageFile(request[n].image))
       ELSE HaveDisk(n, "convert", VolumeIn(n))
    /\ UNCHANGED <<config, pool, files, domains, want, known, snap, failuresLeft>>

(* What the disk step refuses without a command failing: the pool is gone,  *)
(* the volume exists, the image does not, the template has no URL.          *)
DiskRefused(n) ==
    /\ At(n, "disk")
    /\ \/ pool = "absent"
       \/ request[n].source = "blank" /\ VolumeIn(n) \in files
       \/ request[n].source \in {"file", "pool"} /\ ImageFile(request[n].image) \notin files
       \/ request[n].source = "unknown"
    /\ Return(n, "none")
    /\ UNCHANGED <<config, pool, files, domains, want, known, snap, failuresLeft>>

(* Mutant of convert: a volume that exists is refused, as vol-create-as     *)
(* does.                                                                    *)
convertRefusesExisting(n) ==
    /\ At(n, "convert")
    /\ IF call[n].disk \in files
       THEN Return(n, "none") /\ UNCHANGED files
       ELSE Go(n, "seed") /\ files' = files \cup {call[n].disk}
    /\ UNCHANGED <<config, pool, domains, want, known, snap, failuresLeft>>

(* qemu-img convert and resize write the volume, over what a former attempt *)
(* left.                                                                    *)
convert(n) ==
    /\ At(n, "convert")
    /\ files' = files \cup {call[n].disk}
    /\ Go(n, "seed")
    /\ UNCHANGED <<config, pool, domains, want, known, snap, failuresLeft>>

(* PrepareCloudInit: the directory, user-data, meta-data and the ISO.       *)
(* Without cloud-init data of the user a failure is only logged, and the    *)
(* machine gets no ISO.                                                     *)
PrepareCloudInit(n) ==
    /\ At(n, "seed")
    /\ \/ /\ Succeeds
          /\ files' = files \cup {SeedISO(n)}
          /\ call' = [call EXCEPT ![n].step = "define", ![n].iso = SeedISO(n)]
       \/ /\ ~request[n].userData /\ Spend
          /\ Go(n, "define")
          /\ UNCHANGED files
    /\ UNCHANGED <<config, pool, domains, want, known, snap>>

(* generateDomainXMLWithStorage: a definition on this disk and this ISO.    *)
generateDomainXMLWithStorage(diskPath, isoPath) ==
    [power |-> "shut off", transient |-> FALSE, base |-> diskPath, disk |-> diskPath,
     config |-> diskPath, iso |-> isoPath, snapshots |-> {}]

(* createDomainDefinition and defineDomain.                                 *)
defineDomain(n) ==
    /\ At(n, "define")
    /\ domains' = [domains EXCEPT ![n] =
                      generateDomainXMLWithStorage(call[n].disk, call[n].iso)]
    /\ Go(n, "answer")
    /\ UNCHANGED <<config, pool, files, want, known, snap, failuresLeft>>

(* The deferred cleanup, and the controller records the id it is answered.  *)
CreateAnswered(n) ==
    /\ At(n, "answer")
    /\ files' = CleanupCloudInit(n, files)
    /\ known' = [known EXCEPT ![n] = TRUE]
    /\ Return(n, "none")
    /\ UNCHANGED <<config, pool, domains, want, snap, failuresLeft>>

createVMWithCloudInit(n) ==
    \/ EnsureDefaultStoragePool(n) \/ RemovePool(n) \/ createDefaultStoragePool(n)
    \/ CreateVolume(n) \/ DownloadCloudImage(n) \/ CreateVolumeFromImageFile(n)
    \/ DiskRefused(n) \/ convert(n) \/ PrepareCloudInit(n)
    \/ defineDomain(n) \/ CreateAnswered(n)

-----------------------------------------------------------------------------
(* Delete.  The controller sees that the object is to go when it next looks *)
(* at it, which is not during a call.                                       *)
WantGone(n) ==
    /\ want[n] = "machine" /\ At(n, "idle")
    /\ want' = [want EXCEPT ![n] = "gone"]
    /\ UNCHANGED <<config, pool, files, domains, known, call, snap, failuresLeft>>

(* A VirtualMachine without a recorded id is let go without a call.         *)
(* Another one of the same name may follow, and meets what was left of it.  *)
WantAgain(n) ==
    /\ want[n] = "gone" /\ At(n, "idle") /\ ~known[n]
    /\ want' = [want EXCEPT ![n] = "machine"]
    /\ call' = [call EXCEPT ![n] = Idle("none")]
    /\ UNCHANGED <<config, pool, files, domains, known, snap, failuresLeft>>

(* listDomains.                                                             *)
Delete(n) ==
    /\ At(n, "idle") /\ want[n] = "gone" /\ known[n]
    /\ Go(n, IF Defined(n) THEN "inspect" ELSE "cleanup")
    /\ UNCHANGED <<config, pool, files, domains, want, known, snap, failuresLeft>>

Deleted(n, clean) ==
    /\ known' = [known EXCEPT ![n] = FALSE]
    /\ Return(n, IF clean THEN "deleted" ELSE "none")

(* cleanupOrphanedResources: the files a domain of this name may have left, *)
(* <name>.qcow2 included, which is the volume of another name when this one *)
(* ends in "-disk".  A failing rm is ignored, and its file stays.           *)
OrphanedFiles(n) ==
    {Volume(n), SeedISO(n)} \cup {Volume(m) : m \in {k \in Names : <<k, n>> \in DiskNameOf}}

(* Mutant of cleanupOrphanedResources: an absent domain is left at that.    *)
absentDomainLeftAtThat(n) ==
    /\ At(n, "cleanup")
    /\ Deleted(n, TRUE)
    /\ UNCHANGED <<config, pool, files, domains, want, snap, failuresLeft>>

cleanupOrphanedResources(n) ==
    /\ At(n, "cleanup")
    /\ \/ Succeeds /\ files' = files \ OrphanedFiles(n) /\ Deleted(n, TRUE)
       \/ Spend /\ UNCHANGED files /\ Deleted(n, FALSE)
    /\ UNCHANGED <<config, pool, domains, want, snap>>

(* getDomainDiskPaths and getCloudInitISOPath read the domain's XML; when   *)
(* that fails there is nothing to remove.                                   *)
getDomainDiskPaths(n) ==
    /\ At(n, "inspect")
    /\ \/ /\ Defined(n) /\ Succeeds
          /\ call' = [call EXCEPT ![n].step = "destroy", ![n].disk = domains[n].disk,
                                  ![n].iso = domains[n].iso]
       \/ /\ IF Defined(n) THEN Spend ELSE Succeeds
          /\ call' = [call EXCEPT ![n].step = "destroy", ![n].clean = FALSE]
    /\ UNCHANGED <<config, pool, files, domains, want, known, snap>>

(* destroyDomain; its error is ignored.                                     *)
destroyDomain(n) ==
    /\ At(n, "destroy")
    /\ \/ Succeeds /\ domains' = [domains EXCEPT ![n] = Stopped(@)]
       \/ Spend /\ UNCHANGED domains
    /\ Go(n, "undefine")
    /\ UNCHANGED <<config, pool, files, want, known, snap>>

(* Mutant of undefineDomain: a refusal is logged and the Delete goes on.    *)
undefineRefusalIgnored(n) ==
    /\ At(n, "undefine")
    /\ domains' = IF Defined(n) /\ domains[n].snapshots = {} /\ domains[n].power = "shut off"
                  THEN [domains EXCEPT ![n] = NoDomain] ELSE domains
    /\ Go(n, "remove")
    /\ UNCHANGED <<config, pool, files, want, known, snap, failuresLeft>>

(* undefineDomain: libvirt refuses a domain with snapshots, and one with no *)
(* persistent definition; a domain that still runs becomes transient.       *)
undefineDomain(n) ==
    /\ At(n, "undefine")
    /\ IF Defined(n) /\ domains[n].snapshots = {} /\ ~domains[n].transient
       THEN /\ domains' = [domains EXCEPT ![n] = 
                               IF @.power = "shut off" THEN NoDomain
                               ELSE [@ EXCEPT !.transient = TRUE]]
            /\ Go(n, "remove") /\ UNCHANGED known
       ELSE UNCHANGED domains /\ Return(n, "none") /\ LetGo(n)
    /\ UNCHANGED <<config, pool, files, want, snap, failuresLeft>>

(* deleteDiskFile and deleteCloudInitResources; a failing rm is only logged. *)
deleteDiskFile(n) ==
    /\ At(n, "remove")
    /\ \/ /\ Succeeds
          /\ files' = files \ {call[n].disk, call[n].iso}
          /\ Deleted(n, call[n].clean)
       \/ /\ Spend
          /\ \E gone \in SUBSET {call[n].disk, call[n].iso} : files' = files \ gone
          /\ Deleted(n, FALSE)
    /\ UNCHANGED <<config, pool, domains, want, snap>>

DeleteStep(n) ==
    \/ cleanupOrphanedResources(n) \/ getDomainDiskPaths(n) \/ destroyDomain(n)
    \/ undefineDomain(n) \/ deleteDiskFile(n)

-----------------------------------------------------------------------------
(* Describe and Power *)
mapLibvirtPowerState(state) == IF state = "running" THEN "On" ELSE "Off"

Describe(n) ==
    /\ At(n, "idle") /\ n \in Operated /\ want[n] = "machine" /\ known[n]
    /\ Return(n, IF Defined(n) THEN mapLibvirtPowerState(domains[n].power) ELSE "none")
    /\ UNCHANGED <<config, pool, files, domains, want, known, snap, failuresLeft>>

(* The operation that the reported power state calls for.                   *)
Power(n) ==
    /\ At(n, "idle") /\ want[n] = "machine" /\ known[n]
    /\ \/ call[n].answer = "Off" /\ Go(n, "start")
       \/ call[n].answer = "On" /\ \E op \in {"stop", "shutdown", "restart"} : Go(n, op)
    /\ UNCHANGED <<config, pool, files, domains, want, known, snap, failuresLeft>>

Startable(n) ==
    /\ Defined(n) /\ domains[n].power = "shut off"
    /\ domains[n].config \in files /\ domains[n].iso \in files \cup {NoFile}

(* startDomain: a domain that is active or lacks a file is refused.         *)
startDomain(n) ==
    /\ At(n, "start")
    /\ IF Startable(n)
       THEN domains' = [domains EXCEPT ![n].power = "running"] /\ Go(n, "sync")
       ELSE UNCHANGED domains /\ Return(n, "none")
    /\ UNCHANGED <<config, pool, files, want, known, snap, failuresLeft>>

(* stopDomain: virsh destroy.                                               *)
stopDomain(n) ==
    /\ At(n, "stop")
    /\ IF Defined(n) /\ domains[n].power # "shut off"
       THEN domains' = [domains EXCEPT ![n] = Stopped(@)] /\ Return(n, "none")
       ELSE UNCHANGED domains /\ Return(n, "none")
    /\ UNCHANGED <<config, pool, files, want, known, snap, failuresLeft>>

(* shutdownDomain asks the guest; on an error the domain is stopped.        *)
shutdownDomain(n) ==
    /\ At(n, "shutdown")
    /\ \/ Succeeds /\ IF Defined(n) /\ domains[n].power = "running"
                      THEN Return(n, "none") ELSE Go(n, "stop")
       \/ Spend /\ Go(n, "stop")
    /\ UNCHANGED <<config, pool, files, domains, want, known, snap>>

(* PowerOpReboot: the error of the stop is ignored.                         *)
rebootDomain(n) ==
    /\ At(n, "restart")
    /\ \/ /\ Succeeds
          /\ domains' = [domains EXCEPT ![n] = Stopped(@)]
       \/ Spend /\ UNCHANGED domains
    /\ Go(n, "start")
    /\ UNCHANGED <<config, pool, files, want, known, snap>>

(* syncPersistentXML: dumpxml of the running domain into a file, then       *)
(* define from that file.  A failure of either is only logged.              *)
syncPersistentXML(n) ==
    /\ At(n, "sync")
    /\ \/ /\ Succeeds
          /\ call' = [call EXCEPT ![n].step = "syncDefine", ![n].disk = domains[n].disk]
       \/ Spend /\ Return(n, "none")
    /\ UNCHANGED <<config, pool, files, domains, want, known, snap>>

syncDefine(n) ==
    /\ At(n, "syncDefine")
    /\ \/ /\ Succeeds
          /\ domains' = [domains EXCEPT ![n].config = call[n].disk,
                           ![n].disk = IF domains[n].power = "shut off"
                                       THEN call[n].disk ELSE @]
       \/ Spend /\ UNCHANGED domains
    /\ Return(n, "none")
    /\ UNCHANGED <<config, pool, files, want, known, snap>>

PowerStep(n) ==
    \/ startDomain(n) \/ stopDomain(n) \/ shutdownDomain(n) \/ rebootDomain(n)
    \/ syncPersistentXML(n) \/ syncDefine(n)

(* The guest shuts down by itself, or the host pauses it on an I/O error.   *)
GuestStops(n) ==
    /\ Defined(n) /\ domains[n].power = "running"
    /\ \/ domains' = [domains EXCEPT ![n] = Stopped(@)]
       \/ domains' = [domains EXCEPT ![n].power = "paused"]
    /\ UNCHANGED <<config, pool, files, want, known, call, snap, failuresLeft>>

-----------------------------------------------------------------------------
(* Snapshots.  The VMSnapshot controller calls with the id the              *)
(* VirtualMachine records, whatever the other controller is doing.  A       *)
(* failing command changes nothing.                                         *)
HasSnapshot(n, s) == Defined(n) /\ s \in domains[n].snapshots

(* SnapshotCreate: with the memory of a running domain inside the disk,     *)
(* else --disk-only, which diverts the writes to an overlay.                *)
SnapshotCreate(n, s) ==
    /\ n \in snapshotted /\ known[n] /\ snap[n] = IdleSnap
    /\ Defined(n) /\ ~domains[n].transient /\ s \notin domains[n].snapshots
    /\ \/ /\ domains[n].power = "running"
          /\ domains' = [domains EXCEPT ![n].snapshots = @ \cup {s}]
          /\ UNCHANGED files
       \/ /\ domains' = [domains EXCEPT ![n].snapshots = @ \cup {s},
                          ![n].disk = Overlay(n), ![n].config = Overlay(n)]
          /\ files' = files \cup {Overlay(n)}
    /\ UNCHANGED <<config, pool, want, known, call, snap, failuresLeft>>

(* SnapshotDelete: an absent snapshot is a success.  libvirt merges an      *)
(* overlay back, or refuses to (older versions).                            *)
SnapshotDelete(n, s) ==
    /\ n \in snapshotted /\ known[n] /\ snap[n] = IdleSnap
    /\ HasSnapshot(n, s)
    /\ domains' = [domains EXCEPT ![n].snapshots = @ \ {s},
                     ![n].disk = domains[n].base, ![n].config = domains[n].base]
    /\ files' = files \ {Overlay(n)}
    /\ UNCHANGED <<config, pool, want, known, call, snap, failuresLeft>>

(* SnapshotRevert: snapshot-list and domstate, then snapshot-revert, which  *)
(* keeps running what was running before; otherwise the snapshot decides.   *)
SnapshotRevert(n, s) ==
    /\ n \in snapshotted /\ known[n] /\ snap[n] = IdleSnap
    /\ HasSnapshot(n, s)
    /\ snap' = [snap EXCEPT ![n] = [step |-> "revert", name |-> s,
                                    running |-> domains[n].power = "running"]]
    /\ UNCHANGED <<config, pool, files, domains, want, known, call, failuresLeft>>

snapshotRevertCommand(n) ==
    /\ snap[n] # IdleSnap
    /\ snap' = [snap EXCEPT ![n] = IdleSnap]
    /\ \/ /\ HasSnapshot(n, snap[n].name) /\ domains[n].config \in files
          /\ \E power \in IF snap[n].running THEN {"running"} ELSE {"running", "shut off"} :
                domains' = [domains EXCEPT ![n].power = power, ![n].disk = domains[n].config]
       \/ UNCHANGED domains
    /\ UNCHANGED <<config, pool, files, want, known, call, failuresLeft>>

SnapshotStep(n) ==
    \/ \E s \in Snapshots :
          SnapshotCreate(n, s) \/ SnapshotDelete(n, s) \/ SnapshotRevert(n, s)
    \/ snapshotRevertCommand(n)

-----------------------------------------------------------------------------
CallStep(n) == createVMWithCloudInit(n) \/ DeleteStep(n) \/ PowerStep(n)

Next ==
    \E n \in Names :
        \/ Create(n) \/ Delete(n) \/ Describe(n) \/ Power(n) \/ CallStep(n)
        \/ runVirshCommandFails(n) \/ CallAborted(n) \/ GuestStops(n)
        \/ WantGone(n) \/ WantAgain(n)
        \/ SnapshotStep(n)

Spec == Init /\ [][Next]_vars

(* The controllers requeue a VirtualMachine they have not finished with,    *)
(* and a command that was started ends: a call that is due is made and a    *)
(* call in flight takes its next step.  Nothing is assumed of the guest, of *)
(* the user or of failing commands.                                         *)
FairSpec ==
    /\ Spec
    /\ \A n \in Names : /\ WF_vars(Create(n)) /\ WF_vars(Delete(n))
                        /\ WF_vars(CallStep(n))

-----------------------------------------------------------------------------
(* Every domain with a persistent definition has the disk it was created    *)
(* with and, while it is active, the one it writes to: no Delete, cleanup   *)
(* of orphans, retry of a Create or snapshot, of this name or of another,   *)
(* takes them away.  The ISO is left out on a local connection, where the   *)
(* cleanup deferred by createVMWithCloudInit removes it.                    *)
DomainHasItsFiles ==
    \A n \in Names :
        Defined(n) /\ ~domains[n].transient =>
            /\ domains[n].base \in files
            /\ domains[n].power # "shut off" => domains[n].disk \in files
            /\ remote => domains[n].iso \in files \cup {NoFile}

(* A Delete that succeeds, with none of its commands failing, leaves        *)
(* neither the volume of the machine nor the cloud-init ISO the user's data *)
(* went into, whatever became of the Creates, Deletes and power operations  *)
(* before it.  A machine with snapshots is left out: the disk that Delete   *)
(* looks up may be an overlay which SnapshotDelete merges before the domain *)
(* is undefined.                                                            *)
NothingLeft ==
    \A n \in Names \ snapshotted :
        call[n].answer = "deleted" =>
            /\ Volume(n) \notin files
            /\ request[n].userData => SeedISO(n) \notin files

(* A Create of an image to copy or to download is answered in the end,      *)
(* however the attempts before it were interrupted and whatever the calls   *)
(* for other machines did to the storage pool.                              *)
CreateCompletes ==
    \A n \in Names :
        request[n].source \in {"url", "file"} =>
            ((want[n] = "machine") ~> (known[n] \/ want[n] = "gone"))
=============================================================================
