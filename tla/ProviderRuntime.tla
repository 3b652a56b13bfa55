--------------------------- MODULE ProviderRuntime ---------------------------
(***************************************************************************)
(* The Provider controller (internal/controller/provider_controller.go)    *)
(* together with what it manages and what depends on it: the Service, the  *)
(* Deployment and its pods, the migration claims the pods mount, and the   *)
(* resolver through which the other controllers reach the pods.            *)
(*                                                                         *)
(* A reconcile reads the Provider once and writes its status once, at the  *)
(* end; in between it updates the Service, lists the migration claims      *)
(* twice (once for the container's mounts, once for the pod's volumes) and *)
(* updates the Deployment.  Users, migrations and the cluster act between  *)
(* these steps.  Container settings that no step depends on (resources,    *)
(* environment, probes) are left out of the pod template.                  *)
(***************************************************************************)
EXTENDS Resolver, Naturals

CONSTANTS Claims,       \* the migration claims of the namespace
          DefaultPort,  \* 9443, for a spec without a service port
          Settings,     \* the settings explored, see SettingType
          MaxEdits,     \* bound on changes of the Provider and the claims
          MaxFailures   \* bound on failed API calls, pods and answers, and restarts

ProviderSpec == [image : BOOLEAN, port : Endpoints \cup {None}, replicas : 0..1]

(* Who calls, the first spec and those the user may change it to, the      *)
(* claims that come and go, and how many changes and failures there are.   *)
SettingType == [users : SUBSET Users, first : ProviderSpec, specs : SUBSET ProviderSpec,
                claims : SUBSET Claims, edits : 0..MaxEdits, failures : 0..MaxFailures]

ASSUME RuntimeAssumption ==
    /\ DefaultPort \in Endpoints /\ MaxEdits \in Nat /\ MaxFailures \in Nat
    /\ Settings \subseteq SettingType

VARIABLES setting,     \* the setting, fixed
          object,      \* the Provider object: present, deleting or absent
          spec,        \* its spec: image given, port, replicas
          phase,       \* status.runtime.phase
          healthy,     \* status.healthy, and the ProviderAvailable condition
          service,     \* the port of the Service
          deployment,  \* the Deployment's pod template and replicas
          pods,        \* the templates of the pods that are ready
          claims,      \* the migration claims that exist
          terminating, \* those of them that are being deleted
          rec,         \* the reconcile in progress
          edits, failures

runtimeVars == <<object, spec, phase, healthy, service, deployment, pods,
                 claims, terminating, rec, edits, failures>>
vars == <<setting, published, reachable, resolverVars, runtimeVars>>

Template == [port : Endpoints, mounts : SUBSET Claims, volumes : SUBSET Claims]
Phases == {"", "Pending", "Running", "Failed"}
RecSteps == {"idle", "service", "container", "volumes", "status", "cleanup", "unserve"}

(* One type invariant for the controller's state. *)
TypeOK ==
    /\ ResolverTypeOK
    /\ setting \in Settings
    /\ object \in {"present", "deleting", "absent"}
    /\ spec \in ProviderSpec
    /\ phase \in Phases
    /\ healthy \in BOOLEAN
    /\ service \in Endpoints \cup {None}
    /\ deployment = None \/ (deployment.template \in Template /\ deployment.replicas \in 0..1)
    /\ pods \subseteq Template
    /\ claims \subseteq Claims /\ terminating \subseteq claims
    /\ rec.at \in RecSteps /\ rec.spec \in ProviderSpec /\ rec.mounts \subseteq Claims
    /\ rec.phase \in Phases /\ rec.healthy \in BOOLEAN
    /\ rec.endpoint \in Endpoints \cup {None}
    /\ edits \in 0..MaxEdits /\ failures \in 0..MaxFailures

NoReconcile == [at |-> "idle", mounts |-> {}, phase |-> "", healthy |-> FALSE,
                endpoint |-> None,
                spec |-> [image |-> TRUE, port |-> None, replicas |-> 1]]

Init ==
    /\ ResolverInit
    /\ published = [endpoint |-> None, running |-> FALSE]
    /\ reachable = {}
    /\ object = "present"
    /\ setting \in Settings
    /\ spec = setting.first
    /\ phase = "" /\ healthy = FALSE
    /\ service = None /\ deployment = None
    /\ pods = {} /\ claims = {} /\ terminating = {}
    /\ rec = NoReconcile
    /\ edits = 0 /\ failures = 0

-----------------------------------------------------------------------------
(* A provider server answers at an endpoint when the Service forwards its  *)
(* port to a ready pod that was started with that port.                    *)
Reachable == {p \in Endpoints : service = p /\ \E t \in pods : t.port = p}

Fails == failures < setting.failures /\ failures' = failures + 1
Works == failures' = failures

(* The port of the Service, of the container and of the endpoint. *)
GrpcPort(s) == IF s.port = None THEN DefaultPort ELSE s.port

(* What the cluster does not change when the Provider controller moves. *)
Cluster == <<object, spec, pods, claims, terminating, edits>>

-----------------------------------------------------------------------------
(* Reconcile reads the object: a deleted one is gone, one being deleted is *)
(* cleaned up, and validateRemoteRuntimeSpec stops one without an image.   *)
Reconcile ==
    /\ rec.at = "idle"
    /\ object # "absent"
    /\ rec' = [rec EXCEPT
                 !.at = CASE object = "deleting" -> "cleanup"
                          [] spec.image -> "service"
                          [] OTHER -> "status",
                 !.spec = spec,
                 !.mounts = {},
                 !.endpoint = published.endpoint,
                 !.phase = IF spec.image THEN phase ELSE "Failed",
                 !.healthy = healthy]
    /\ Works
    /\ UNCHANGED <<Cluster, phase, healthy, service, deployment, published>>

(* An error of a step: reconcileRemoteRuntime sets the Failed phase and    *)
(* returns, and Reconcile goes on to write the status.                     *)
FailTo(step) == rec' = [rec EXCEPT !.at = step, !.phase = "Failed"]

(* Mutant of reconcileService: leaves a Service that exists alone. *)
createsOnly ==
    /\ rec.at = "service"
    /\ Works /\ rec' = [rec EXCEPT !.at = "container"]
    /\ service' = IF service = None THEN GrpcPort(rec.spec) ELSE service
    /\ UNCHANGED <<Cluster, phase, healthy, deployment, published>>

(* reconcileService: created, or its ports updated. *)
reconcileService ==
    /\ rec.at = "service"
    /\ \/ Works /\ service' = GrpcPort(rec.spec) /\ rec' = [rec EXCEPT !.at = "container"]
       \/ Fails /\ FailTo("status") /\ UNCHANGED service
    /\ UNCHANGED <<Cluster, phase, healthy, deployment, published>>

(* The two lists of the labelled claims, those being deleted included; an  *)
(* error of the list is taken for "no claims".                             *)
discoverMigrationVolumeMounts(listed) == IF listed THEN claims ELSE {}
discoverMigrationPVCs(listed) == IF listed THEN claims ELSE {}

(* Mutant of buildProviderContainer: an existing Deployment keeps its mounts. *)
keepsTheMounts ==
    /\ rec.at = "container"
    /\ Works
    /\ rec' = [rec EXCEPT !.at = "volumes",
                          !.mounts = IF deployment = None THEN claims
                                     ELSE deployment.template.mounts]
    /\ UNCHANGED <<Cluster, phase, healthy, service, deployment, published>>

(* buildProviderContainer: the first list becomes the mounts. *)
buildProviderContainer ==
    /\ rec.at = "container"
    /\ \E listed \in BOOLEAN :
          /\ IF listed THEN Works ELSE Fails
          /\ rec' = [rec EXCEPT !.at = "volumes",
                                !.mounts = discoverMigrationVolumeMounts(listed)]
    /\ UNCHANGED <<Cluster, phase, healthy, service, deployment, published>>

(* The phase and ProviderAvailable that the Deployment's ready pods give:  *)
(* ProviderAvailable is set to true and never to false.                    *)
StatusOf(s, ready) ==
    [phase |-> IF ready > 0 THEN "Running" ELSE "Pending",
     healthy |-> ready > 0 \/ s.healthy]

(* buildPodVolumes, with the second list of the claims, and the write of   *)
(* the Deployment, which the API server refuses when a mount names no      *)
(* volume of the pod.  A new Deployment has no ready pods in the answer.   *)
reconcileDeployment ==
    /\ rec.at = "volumes"
    /\ \E listed \in BOOLEAN :
          LET volumes == discoverMigrationPVCs(listed)
              accepted == rec.mounts \subseteq volumes
              ready == IF deployment = None THEN 0 ELSE Cardinality(pods)
              new == StatusOf(rec, ready)
          IN  /\ IF listed THEN Works ELSE Fails
              /\ \/ /\ accepted
                    /\ deployment' = [template |-> [port |-> GrpcPort(rec.spec),
                                                    mounts |-> rec.mounts,
                                                    volumes |-> volumes],
                                      replicas |-> rec.spec.replicas]
                    /\ rec' = [rec EXCEPT !.at = "status", !.phase = new.phase,
                                          !.healthy = new.healthy,
                                          !.endpoint = GrpcPort(rec.spec)]
                 \/ /\ ~accepted
                    /\ FailTo("status")
                    /\ UNCHANGED deployment
    /\ UNCHANGED <<Cluster, phase, healthy, service, published>>

(* The create or update of the Deployment fails. *)
deploymentFails ==
    /\ rec.at = "volumes"
    /\ Fails
    /\ FailTo("status")
    /\ UNCHANGED <<Cluster, phase, healthy, service, deployment, published>>

(* The status is written whole over the latest object, conflicts retried;  *)
(* it fails when the object is gone.                                       *)
updateStatus ==
    /\ rec.at = "status"
    /\ \/ /\ object # "absent"
          /\ Works
          /\ phase' = rec.phase
          /\ healthy' = rec.healthy
          /\ published' = [endpoint |-> rec.endpoint, running |-> rec.phase = "Running"]
       \/ /\ object = "absent"
          /\ Works
          /\ UNCHANGED <<phase, healthy, published>>
       \/ /\ Fails
          /\ UNCHANGED <<phase, healthy, published>>
    /\ rec' = NoReconcile
    /\ UNCHANGED <<Cluster, service, deployment>>

(* cleanupRemoteRuntime of an object being deleted: the Deployment, then   *)
(* the Service; an error returns and the reconcile is retried.             *)
cleanupRemoteRuntime ==
    /\ rec.at = "cleanup"
    /\ \/ Works /\ deployment' = None /\ rec' = [rec EXCEPT !.at = "unserve"]
       \/ Fails /\ rec' = NoReconcile /\ UNCHANGED deployment
    /\ UNCHANGED <<Cluster, phase, healthy, service, published>>

deleteService ==
    /\ rec.at = "unserve"
    /\ \/ Works /\ service' = None
       \/ Fails /\ UNCHANGED service
    /\ rec' = NoReconcile
    /\ UNCHANGED <<Cluster, phase, healthy, deployment, published>>

Controller ==
    \/ Reconcile \/ reconcileService \/ buildProviderContainer \/ reconcileDeployment
    \/ deploymentFails \/ updateStatus \/ cleanupRemoteRuntime \/ deleteService

-----------------------------------------------------------------------------
(* The cluster. *)
Apart == <<phase, healthy, service, rec, published>>

(* A pod of the Deployment's template becomes ready: all its volumes are   *)
(* claims that exist and are not being deleted.                            *)
PodStarts ==
    /\ deployment # None /\ deployment.replicas > 0
    /\ deployment.template \notin pods
    /\ deployment.template.volumes \subseteq claims \ terminating
    /\ pods' = pods \cup {deployment.template}
    /\ UNCHANGED <<Apart, object, spec, deployment, claims, terminating, edits, failures>>

(* A pod of an older template goes once one of the new template is ready,  *)
(* or at once when no pod is wanted.                                       *)
PodRetired ==
    /\ \E t \in pods :
          /\ deployment # None =>
                deployment.replicas = 0 \/ deployment.template \in pods \ {t}
          /\ pods' = pods \ {t}
    /\ UNCHANGED <<Apart, object, spec, deployment, claims, terminating, edits, failures>>

PodFails ==
    /\ Fails
    /\ \E t \in pods : pods' = pods \ {t}
    /\ UNCHANGED <<Apart, object, spec, deployment, claims, terminating, edits>>

(* A claim that is deleted stays until no ready pod mounts it. *)
ClaimGone ==
    /\ \E c \in terminating :
          /\ \A t \in pods : c \notin t.volumes
          /\ claims' = claims \ {c}
          /\ terminating' = terminating \ {c}
    /\ UNCHANGED <<Apart, object, spec, deployment, pods, edits, failures>>

Edit == edits < setting.edits /\ edits' = edits + 1

(* A migration creates its claim, or deletes it when it is cleaned up. *)
ClaimEdited ==
    /\ Edit
    /\ \/ \E c \in setting.claims \ claims : claims' = claims \cup {c} /\ UNCHANGED terminating
       \/ \E c \in claims \ terminating : terminating' = terminating \cup {c} /\ UNCHANGED claims
    /\ UNCHANGED <<Apart, object, spec, deployment, pods, failures>>

(* A user edits the Provider. *)
SpecEdited ==
    /\ object = "present" /\ Edit
    /\ spec' \in setting.specs \ {spec}
    /\ UNCHANGED <<Apart, object, deployment, pods, claims, terminating, failures>>

(* A user deletes the Provider; a finalizer of somebody else keeps it as   *)
(* "deleting", this controller adds none.                                  *)
ProviderDeleted ==
    /\ object = "present" /\ Edit
    /\ object' = "deleting"
    /\ UNCHANGED <<Apart, spec, deployment, pods, claims, terminating, failures>>

ProviderGone ==
    /\ object = "deleting"
    /\ object' = "absent"
    /\ published' = [endpoint |-> None, running |-> FALSE]
    /\ UNCHANGED <<spec, phase, healthy, service, rec, deployment, pods, claims,
                   terminating, edits, failures>>

(* The garbage collector follows the owner references. *)
GarbageCollected ==
    /\ object = "absent"
    /\ deployment # None \/ service # None
    /\ deployment' = None /\ service' = None
    /\ UNCHANGED <<object, spec, phase, healthy, rec, published, pods, claims,
                   terminating, edits, failures>>

ClusterSteps ==
    \/ PodStarts \/ PodRetired \/ ClaimGone \/ GarbageCollected
    \/ PodFails \/ ClaimEdited \/ SpecEdited \/ ProviderDeleted \/ ProviderGone

-----------------------------------------------------------------------------
(* The manager restarts: the reconcile, the callers and the map are gone.  *)
ManagerRestarts ==
    /\ Fails
    /\ rec' = NoReconcile
    /\ cache' = None
    /\ open' = [c \in Clients |-> FALSE]
    /\ at' = [u \in Users |-> "idle"]
    /\ held' = [u \in Users |-> None]
    /\ UNCHANGED <<setting, Cluster, phase, healthy, service, deployment, published,
                   reachable, target, wanted, suspect>>

Moves(A) == A /\ reachable' = Reachable' /\ UNCHANGED <<setting, resolverVars>>

Calls(u) ==
    \/ ResolverStep(u) /\ UNCHANGED <<setting, published, reachable, runtimeVars>>
    \/ \E answers \in BOOLEAN :
          /\ ResolverHears(u, answers)
          /\ IF answers THEN Works ELSE Fails
          /\ UNCHANGED <<setting, published, reachable, object, spec, phase, healthy, service,
                         deployment, pods, claims, terminating, rec, edits>>

Next ==
    \/ Moves(Controller)
    \/ Moves(ClusterSteps)
    \/ ManagerRestarts
    \/ \E u \in setting.users : Calls(u)

Spec == Init /\ [][Next]_vars

(* The work queue, the periodic resync, the Deployment controller and the  *)
(* garbage collector go on; users and migrations need not.                 *)
Fairness ==
    /\ WF_vars(Moves(Controller))
    /\ WF_vars(Moves(PodStarts)) /\ WF_vars(Moves(PodRetired))
    /\ WF_vars(Moves(ClaimGone)) /\ WF_vars(Moves(GarbageCollected))
    /\ \A u \in Users : WF_vars(u \in setting.users /\ Calls(u))

FairSpec == Spec /\ Fairness

-----------------------------------------------------------------------------
(* The Provider is wanted and nothing in the cluster holds its pods back.  *)
(* A claim whose deletion is pending may hold them back for ever: the      *)
(* controller goes on listing it, the pods that mount it keep it, and a    *)
(* pod of a new template cannot start with it.                             *)
Wanted == object = "present" /\ spec.image /\ terminating = {}

(* After the last change of the spec and the last failure the status names *)
(* the endpoint the spec asks for, and with replicas a provider server     *)
(* answers there and the phase is Running: every reconcile rewrites the    *)
(* Service, the Deployment and the whole status, so that what a stale or   *)
(* failed reconcile left behind is repaired.                               *)
EndpointConverges ==
    <>[](Wanted => /\ published.endpoint = GrpcPort(spec)
                   /\ spec.replicas > 0 => /\ phase = "Running"
                                           /\ GrpcPort(spec) \in reachable)

(* After the last change every ready pod has every migration claim as a    *)
(* mount and as a volume, whatever the two lists of one reconcile saw.     *)
ClaimsMounted ==
    <>[](Wanted => \A t \in pods : t.mounts = claims /\ t.volumes = claims)

(* In the end no controller is handed a client of an endpoint at which     *)
(* nobody answers: GetProvider validates what it finds in the map.         *)
CallsReachProvider ==
    <>[](Wanted => \A u \in Users : at[u] = "call" => target[held[u]] \in reachable)
=============================================================================
