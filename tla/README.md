# TLA+ verification of virtrigaud

virtrigaud is a Kubernetes operator. Its controllers keep virtual machines,
snapshots and migrations in the state their custom resources ask for, through
provider servers (libvirt, vSphere, Proxmox, mock) that they reach over gRPC.
What is hard in it happens between two steps: a provider call and the status
write that records its answer, a cached read and the decision taken from it, a
task and the pass that looks for its result, a command and the next one on the
same host. The modules here model these steps and what can come between them.
TLC checks them on small instances; TLAPS proves the facts that matter most for
every instance.

`PROJECT.json` lists components, runs, mutants, the source lines behind every
definition, findings, hazards and theorems.

## The system

| Part | State | Operations | Module |
|---|---|---|---|
| VirtualMachine controller | VM object (finalizer, id, task references, power, resources), the pass's copy | Reconcile with its dependencies, task checks, Describe, Create, Power, Reconfigure, status write, deletion | `VirtualMachine` |
| VMSnapshot controller | snapshot object (phase, id, task) | create, check, retention, deletion | `VMSnapshot` |
| VMMigration controller | migration object (phase, ids, retries), claim, source and target VM, disk file | the phases, retry, cleanup, deletion | `VMMigration` |
| VMAdoption controller | VM objects made for found machines, the Provider's adoption status | discover, adopt, filter | `VMAdoption` |
| Provider controller, with pods and claims | Service, Deployment, pods, status, migration claims | reconcile, clean-up | `ProviderRuntime` |
| Provider resolver | the map of gRPC clients | look up, validate, dial, store, close | `Resolver` |
| Create requests | VirtualMachine, VMClass, VMImage, VMNetworkAttachment, Secrets | build, encode, parse | `CreateRequest` |
| Provider servers, as the controllers see them | machines, tasks | one operator per RPC and kind | `Hypervisor`, and inside `VMSnapshot` and `VMMigration` |
| libvirt provider | domains, files of the storage pool | the command sequences of every RPC | `LibvirtProvider` |
| Proxmox provider, API client, fake server | machines, snapshots, tasks, the clock | handlers, requests, PVE routes | `ProxmoxProvider` |
| vSphere provider | machines, devices, disks, snapshots, tasks, session | handlers, one step per request | `VSphereProvider` |
| Disk export and import, migration storage | disks, files on the claim, temporary files, volumes | ExportDisk, ImportDisk, Upload, Download | `DiskTransfer`, abstractly `Transfer` |
| Circuit breaker | state, counters | allowCall, recordResult, Reset | `CircuitBreaker` |
| Retry policy, breaker registry, error classes | attempts, the registry's map | Retry, Execute, GetOrCreate, error mapping | `ResiliencePolicy` |

How they interact: a controller reads its object from an informer cache, asks
the resolver for the provider's client, calls the provider, and writes the
status. The migration controller works through VM objects too: it creates the
target VM, which the VirtualMachine controller provisions, and deletes the
source VM. The Provider controller restarts a provider's pods so that they mount
a migration's claim, and publishes the endpoint that the resolver dials. The
adoption controller creates VM objects that the VirtualMachine controller sees
before their id is recorded.

Compositions that are modelled: `VirtualMachine` with `Hypervisor`;
`ProviderRuntime` with `Resolver` (the one EXTENDS the other and drives what it
leaves free); `ResiliencePolicy` with `CircuitBreaker`; the three provider
modules with `CreateRequest`; `VMAdoption` with the VirtualMachine and the
Provider controller, both reduced to what they write; `DiskTransfer` with the
migration that calls it.

### How a reconcile is modelled

The controller modules share one reading of controller-runtime:

* Passes for one object do not overlap, so each module has one pass, which is
  idle when its private copy is `None`.
* `ReadCache` takes the copy from a cache that may lag behind the API server.
  A write from an old copy is a conflict. Of resource versions only their
  comparison matters, which is a Boolean per copy (is it still current).
* A pass is several actions: one before each provider call or write that others
  can get in front of. Everything between two such points is one action.
* A provider call may fail, or work and lose its answer; a pass may be cut off
  by a crash, after which the informer lists afresh. Faults, edits and drift are
  limited by named budgets.
* What a deployment fixes is a variable that `Init` chooses and no step changes:
  `kind`, `retention`, `given`, `setting`. One run then covers several
  deployments, and a property may depend on which one it is.
* An object with a finalizer and a deletion timestamp disappears when the
  finalizer goes.

### How a provider is modelled

A step is a command on the host, a request to the PVE API or to vCenter, or a
run of them that touches nothing another call looks at. Each may fail; a call
may be given up between any two; a vCenter or PVE task goes on when nobody waits
for it any more. Calls for several machines, or of two controllers for one
machine, interleave between the steps. virsh, vCenter and qemu-img are modelled
from how the code uses them; PVE as the repository's fake server answers.

## Modules

**`CircuitBreaker`** (`internal/resilience/circuitbreaker.go`). `Call` is split
where the mutex is released: `allowCall` or `rejects`, then, when the called
function returns, `recordResult`. Any number of callers may be in between.
`ResetTimeoutElapses` stands for the clock.

**`ResiliencePolicy`** (`retry.go`, the registry, `sdk/provider/errors`,
`sdk/provider/middleware`, `transport/grpc/client.go`, `contracts/errors.go`).
Callers take the breaker through GetOrCreate's two locked sections and run
Policy.Execute. The error of a handler passes the SDK's constructor, the status
code, the client's mapping and Retry's classification. It refines
`CircuitBreaker`, whose variables it shares: `PolicyKeepsTheBreaker` is that
module's specification.

**`Hypervisor`** (`internal/providers/*`, `internal/transport/grpc/client.go`).
One operator per RPC and provider kind: what the call does to the machines, and
whether it answers with a task. The kinds differ where the code does: libvirt
and vSphere look a machine up by name before creating one; mock and Proxmox do
not; vSphere's and Proxmox's `Reconfigure` read keys the client does not send;
Proxmox spells power states in a way the CRD refuses.

**`VirtualMachine`**, **`VMSnapshot`**, **`VMMigration`**
(`internal/controller/`). The actions carry the names of the functions; an
action ending in `Fails` is the error path of the call in the one it is named
after. The migration's disk file is absent, partial or complete, and the target
VM remembers which it was made from.

**`VMAdoption`** (`vmadoption_controller.go`). Discovery lists the machines and
the objects; `adoptVM` creates the object and records the id in two writes,
between which the VirtualMachine controller may add its finalizer or call
Create, and the Provider controller may write the Provider's status.

**`Resolver`** (`internal/runtime/remote/resolver.go`). The lock covers the look
into the map and the change of the map; validating, dialling and calling are
steps outside it. **`ProviderRuntime`** (`provider_controller.go`) adds the
reconcile (service, two lists of claims, deployment, status), the pods that
follow the Deployment, and the claims that come and go in between.

**`CreateRequest`** (`virtualmachine_controller.go`, `cloudinit.go`,
`transport/grpc/client.go`, the parsers of the three servers, the API types). A
pure function from the objects to what each provider understands; sizes change
their unit on the way, as in the code. No variables: the provider modules take
their requests from it.

**`LibvirtProvider`**, **`ProxmoxProvider`**, **`VSphereProvider`**
(`internal/providers/*`). One action per step of a handler. In libvirt a file is
a pair of kind and owner; in Proxmox the clock is the id it would give; in
vSphere disks have bus, unit and file, and sizes are in half GiB.

**`Transfer`** states what the transfer of a disk promises: what a verified
import installs is what was exported. **`DiskTransfer`** (`internal/storage/pvc.go`
and the ExportDisk and ImportDisk of every provider) copies a file in two parts,
so that a copy can end half way and two handlers can mix their parts; it
implements `Transfer` with `installed` and `exported` as the refinement mapping.

The `MC` modules hold the settings of the runs, the `Proofs` modules the
theorems.

## What the runs show

Twelve runs, eleven of which pass. TypeOK is a definition of each module that
the runs do not repeat; what each run checks is in `PROJECT.json`.

| Run | Question | Bounds | States |
|---|---|---|---|
| `resilience` | Do retrying callers keep the breaker's specification, hold one breaker, stop at a final error, and recover after an outage? | 2 callers, threshold 2, 1 slot, 2 attempts, 2 changes of the provider's condition | 201,193 |
| `vm` | libvirt, vSphere: does the finalizer precede the machine, is a repeated Create harmless, is a lost machine found again, does a VM converge? | 2 machine ids, a lost call, an edit, a drift (vSphere) | 342,434 |
| `vm_tasks` | mock, Proxmox: is nothing deleted unasked, does deletion end? | 3 machine ids, 2 tasks, an edit, a lost call (mock), a failing task (Proxmox) | 150,534 |
| `snapshot` | Is a verdict final, a due snapshot expired, a recorded one deleted? | 4 kinds, all retention policies, 2 lost calls, failed tasks or crashes | 139,448 |
| `migration` | Is the source of a verified copy deleted only when the target has its disk? Does a deleted migration take its unfinished target along? Does every migration come to rest? | 6 settings, up to 5 faults, up to 2 retries | 283,978 |
| `adoption` | Is a machine recorded once, does an adopted object keep its machine, is every machine adopted? | 2 machines, 12 settings, 3 faults | 242,332 |
| `provider` | Do the endpoint, the claims' mounts and the calls converge? Is a cached client open? | 2 callers, 3 clients, 2 claims, 4 settings, 3 edits, 1 failure | 245,852 |
| `libvirt` | Do domains keep their files, does Delete leave nothing, does Create end? | 2 machines, 3 settings, every first state of the pool, 1 failing command | 117,580 |
| `proxmox` | Is the recorded id one's own, are cloud-init data applied, is every machine that nobody records explained, does Create end? | 2 machines, 6 ids, 7 settings, 1 lost request | 275,340 |
| `vsphere` | Is the machine as asked for, with its data? Is Deleted gone? Does it converge? | 19 settings, up to 4 failures | 218,551 |
| `disks` | Is an export the whole disk, a verified import the export? Does the transfer end? | 3 attempts of each kind alive, 15 settings, up to 2 failures | 95,205 |
| `adoption_second` | violated: see below | Proxmox, else as `adoption` | |

The bounds let the interesting cases happen: a lost answer is followed by a pass
that repeats the call, one machine too many takes two ids, a second handler is
alive while the first goes on, a controller with four units runs full. `SYMMETRY`
is not used, since most runs check liveness; in `vm` and `vm_tasks` unused machine
and task ids are handed out in one order (`HandedOutInOrder`), which leaves out
only behaviours that differ by a renaming. Deadlock is
checked in `resilience` and `adoption`; elsewhere a system at rest with its
budgets used up may stop. Every property has a mutant of the code that violates
it.

Where a bound or a condition limits what a passing run says:

* **`migration` has no faults in its setting with export and import tasks.** With
  one, `DataPreserved` is violated (below). So the property holds for providers
  that export and import synchronously, as the ones in the tree do, and not for
  everything the controller's contract allows. None of the settings that delete
  the source has a taken target name, where it is violated too.
* **`DataPreserved`** is for migrations that verify checksums (the default). Without
  them nothing tells a broken export from a whole one, and libvirt goes on when
  sha256sum fails. It also excepts a complete disk that a second import has spoilt
  (`torn`): with an old copy a pass imports again, libvirt writes over the volume
  before it compares, and a crash loses the verdict.
* **`RecordedIsDeleted`** excepts a snapshot whose deletion failed. The object goes
  all the same, after an error of SnapshotDelete and, on Proxmox, before the task
  has ended.
* **`vm` has no drift for libvirt.** With it `Converges` is violated: a domain
  removed by hand is an error of Describe for ever, so it is never made again.
* `Converges` of `vm` asks nothing of Proxmox, whose power state the CRD refuses,
  and of OffGraceful, which no provider reports. `OneMachine` and
  `MachinesBecomeKnown` are about libvirt and vSphere; mock and Proxmox make a
  second machine when an answer is lost.
* Proxmox has no lost calls in `vm_tasks`. A larger instance that has them
  passes too (1.15 million states). A creation needs an unused machine id: with
  fewer than three, `vm_tasks` waits for one.
* **`libvirt`** has one failing command, images outside the pool directory, and
  no name that ends in "-disk". With an image in the pool `DomainHasItsFiles` is
  violated when two machines use it; with such a name, when one machine's
  clean-up removes the other's volume. `CreateCompletes` leaves out blank disks:
  a Create interrupted after the volume was made cannot be repeated. `NothingLeft`
  is about a Delete that succeeds, of a machine without snapshots; the object goes
  also when Delete fails, and a later one of its name meets what was left. Only
  connections whose file commands reach the host's files are modelled (below).
* **`proxmox`**: `Tick` gives only ids nobody refers to, so ids do not wrap.
  `RecordedIsOwn` and `CloudInitApplied` except an object whose Delete is repeated
  because its finalizer could not be removed. `StraysAreExplained` counts: there
  are no more machines that nobody records than failures and objects deleted
  during their Create, clones that outlast the deadline excepted.
  `CreateCompletes` needs a token and clones that end in time.
* **`provider`**: the convergence is for a Provider with no claim in deletion. A
  terminating claim stays listed, its pods keep it, and it never goes.
* **`adoption`**: `AdoptedKeepsMachine` and `AllAdopted` are for machines that
  Create finds by their object's name.
* **`vsphere`**: `CreatedAsAsked` is for a Create without failures (a repeated one
  returns the machine as it was left) and excepts what its comment lists.
  `Converges` is for a session that is valid from some point on, and for a source
  that vCenter has.
* **`disks`**: an import counts as verified when no other import of the same
  target name was alive; `Converges` excepts a file overwritten by an abandoned
  export.

### Fairness

Only weak fairness is assumed, and only of what the code or its platform keeps
doing. Controllers: controller-runtime retries a failed pass, and every pass
ends with a requeue or is woken by a watch. The informer delivers; the
Deployment controller, the garbage collector and the clock go on. Handlers of a
provider run until they return, and its tasks end, either way. Callers of the
breaker keep calling and their calls return. Faults, edits, drift, deletions by
users, the guest's reaction to a shutdown and the return of a failed provider
are not fair.

### The disagreement kept as a run

`adoption_second` violates `NoSecondMachine`, which states what the comment at
vmadoption_controller.go:384 expects: that the VirtualMachine controller's Create
"should fail gracefully if the VM already exists". adoptVM creates the object
and writes its id afterwards; the finalizer update in between makes that write a
conflict, and Create is called for an object without id. The run is for Proxmox,
whose Create draws a new id and never looks for the name: a second machine is made
and recorded. (On libvirt and vSphere Create finds the machine by the object's name;
where sanitizing has changed that, as of "Web_1", it makes a second one too.)

### Other disagreements, seen in these models

They were found with TLC or while translating, and are not kept as runs.

Controllers

* virtualmachine_controller.go:831 (README.md:23): a deletion during Create makes
  the status write a conflict; the id is lost and the machine stays. At line 289
  the object goes although Delete failed, and without waiting for its task.
* virtualmachine_types.go:230: Proxmox's "on" and "off" are refused by the CRD, so
  no status is ever written for it.
* virtualmachine_controller.go:155: a failed task is an error in every later pass.
  At line 919 a class change is recorded although vSphere changed nothing.
* mock/provider.go:159, proxmox/server.go:855: a repeated Create makes a second
  machine, where contracts/provider.go:86 says "idempotent".
* vmsnapshot_controller.go:281 (vmsnapshot_types.go:290): a snapshot never taken is
  reported Ready. At line 505 a conflict loses the id of a snapshot; at line 121
  deleteOnVMDelete is never looked at once the VM is gone. At lines 479-488 a
  deletion that failed, or whose task will fail, lets the object go.
* vmmigration_controller.go:1149 (CHANGELOG.md:631): a retry takes a running export
  for finished, and the source is deleted after an incomplete import. It needs an
  export task, which the contract allows and no provider uses. At line 483 a
  failed export task is polled for ever; at 383 nobody waits for the snapshot.
* vmmigration_controller.go:1193 (README.md:468): the user's own claim is deleted
  with the migration. At 810 (vmmigration_types.go:386) any VM of the target's name
  completes it. At 1020 (vmmigration_types.go:68) the cleanup needs a mount the
  manager does not have, so the source stays. At 988, after four faults, the
  target of a Ready migration is deleted with it.
* provider_controller.go: a terminating claim stays listed; a failed list counts as
  no claims; ProviderAvailable, and Healthy with it, never becomes false again
  (provider_types.go:309). Two callers that miss the resolver's map leak a client;
  a passing failure of Validate closes a connection somebody else is using.
* vmadoption_controller.go: names that come down to one object name leave a machine
  without an object; vSphere's templates are listed as machines; a deleted VM is
  adopted again.

Create requests

* All sources of a VMImage end in one request (examples/nested-virtualization.yaml:103),
  the last one winning; metadata without user data is dropped; per-disk SCSI
  settings (virtualmachine_types.go:417) and Placement.Host (541) reach no provider.
  An accepted key of a Secret with nothing under it counts as data
  (cloudinit.go:36). An imported disk without a path gets one of libvirt's
  (virtualmachine_controller.go:620), which no vSphere datastore has.

Providers

* libvirt: a Create interrupted after vol-create-as cannot be repeated; a failed
  destroy leaves a transient domain without its disk; on a local connection the
  deferred clean-up removes the ISO in use; a paused domain is "Off" and cannot be
  started; syncPersistentXML (provider_virsh.go:504) defines an XML that a snapshot
  may have changed meanwhile. Without an ssh password (qemu+tcp, qemu+tls, ssh with
  a key) virsh.go:246-270 runs the file commands in the pod, not on the host whose
  domains will use the files.
* Proxmox: password credentials are never sent; a clone that outlasts the timeout
  leaves one clone per repetition; Reconfigure returns after growing the disk and
  drops CPU and memory; a repeated snapshot deletion takes the other snapshot of
  the name; a repeated Delete may meet another's machine under a reused id.
* vSphere: a repeated Create returns the machine without resize, disks and
  power-on; any fault at Delete's first look counts as deleted; assigning the
  network drops the TPM (server.go:2477); a template's second disk has the file
  name of the first additional one; a provider that starts without a session has
  no client afterwards. server.go:343: `Valid` of the client is a check for nil, so
  a lost session is not renewed until the pod is replaced, where the comment at 328
  speaks of reconnecting, and a Delete meanwhile counts as done.
* Disks: two imports of one target name share a temporary file; the rename on
  Proxmox is not checked; a missing extent is only logged; a vSphere disk on a
  snapshot exports its base; a checksum that cannot be computed is only warned of.

Resilience

* circuitbreaker.go:134: the call that moves the breaker to half-open takes no slot,
  so `HalfOpenMaxCalls` + 1 calls are admitted. At 112 a panicking function never
  gives its slot back. retry.go:32: jitter is added after the cap; the delay
  overflows from attempt 35. A rate limit, which the SDK calls retryable, is not
  retried after the client's mapping.

## What is proved

All proofs are checked by TLAPS with the SMT, Zenon and PTL backends, from the
constants' named assumptions only. Each inductive invariant was checked with TLC
before it was proved.

**`CircuitBreakerProofs`**: any threshold, slot count and set of callers. The
invariant relates the half-open counter to the calls in flight that were admitted
as probes. `NeverWedged`, `AdmissionBound`, `ClosedIsBelowThreshold`, and the
action property `ClosesOnlyAfterProbingHolds`.

**`ResiliencePolicyProofs`**: any number of attempts and callers. Every step of the
policy is a step of the breaker or leaves it alone (`PolicyRefinesTheBreaker`), so
`PolicyNeverWedges` follows from the breaker's theorem. `OneBreaker`: GetOrCreate's
second look under the write lock. `FinalAnswers`: the invariant adds that a caller
still at work has no result yet; a lemma shows that what Retry calls retryable the
handler does too.

**`VirtualMachineProofs`**: any provider kind, names, ids and budgets. `TypeCorrect`.
`FinalizerFirst`: the pass works from a copy, so the invariant adds that a pass
beyond the finalizer check holds a copy with the finalizer, and that finalizers
only go with a deletion. `OnlyRequestedDeletions`: a pass in deletion works on an
object whose deletion was requested, and delete tasks were started by such a pass.
`CreateByNameIsIdempotent`: one machine of a name, on libvirt and vSphere.

**`VMSnapshotProofs`**: any provider, ids and number of lost calls, stale passes and
crashes. The invariant has four parts. A copy that is current agrees with the
object until the pass has an outcome, which it only has for an undecided snapshot
(`Current`). Finalizers and deletion timestamps last (`Lasting`). Nothing is
recorded before the VM is there (`Unrecorded`). What SnapshotDelete took away is
not made again, because every later pass is a deletion too (`Asked`). From these
`VerdictsAreFinal` and `FinalizerOutlivesSnapshot`.

**`VMMigrationProofs`**: any options, retry policy and number of faults.
`SourceOutlivesPartialCopy` is `DataPreserved`, under `Synchronous` (no export or
import tasks, a free target name). The point of its invariant is that a status may
be as old as it likes and be written over a newer one: whatever it says of the
import and of the target is still so (`Truthful`), since a verified import leaves a
complete disk, as long as no later import spoils it (`torn`). `NoTargetLeftBehind` is
`PartialTargetDeleted`, without that assumption. A pass that removes the finalizer
worked on the phase the object still has (`Current`); a deletion timestamp stays,
and the finalizer goes with the object only (`Lasting`); so when the object is gone
only deletions are left, and these make no target (`Dealt`).

**`ResolverProofs`**: any callers, clients and endpoints. `CachedClientsAreOpen`: a
client in the map is not closed. `ConnectionsInUse`: a client closed while somebody
calls it had failed a validation. Both rest on `ResolverInvariant`: a client that
is being dialled is private to its caller, so nobody closes it before it is
stored. The module is extended by `ProviderRuntime`; the theorems are about
`Resolver` with an environment that moves freely.

**`DiskTransferProofs`**: any settings, attempts and files. `ExportsAreWhole`: what
an export under way has read and written agrees with the disk up to where it is
(`ExportInv`), and a handler that its caller has left never answers that caller.
`TransferImplementsItsPromise`: the initial states map to initial states of
`Transfer` and every step to a step or a stutter. A file is shared by the handlers
that opened it, so the invariant (`TransferInv`) says of an import without a rival
of its name that what it has compared is still what it has in hand (`Carried`).

**`CreateRequestProofs`**: `UserDataArrives`, for all objects: if a request is sent,
the user data that every provider parses from it hold what is written inline and
what the Secret holds, and a missing Secret sends no request.

Only model-checked: all liveness, since TLAPS does not handle fairness and
ENABLED; the safety properties of `VMAdoption` and the three provider modules.

## Not modelled

* Lengths of delays and backoffs (a delay elapses or is cancelled), and the
  overflow of the arithmetic behind them.
* Dialling and TLS set-up of the gRPC client; the SDK's server start and shutdown,
  its client (`WaitForTask` cannot succeed: the calls it makes return a typed nil as
  their error) and the interceptors that are stubs. Nothing in the tree uses them
  beside a provider's main function.
* Registry.Remove, Get and List, CleanupClient and CleanupAllClients: no callers.
* Statistics, guest-agent parsing, console URLs, the mock's Clone and ImagePrepare,
  Proxmox's Clone and ImagePrepare: no controller depends on what they do.
* VMClone, VMSet and VMPlacementPolicy: types without a controller.
* Logging, metrics, tracing, configuration, commands, conformance runner,
  scaffolding: they decide no state of the system.
* Lag of the informer cache behind the Provider controller's own status and in
  adoption's lists; more than one manager at a time.
