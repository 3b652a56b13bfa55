------------------------- MODULE VMMigrationProofs --------------------------
(***************************************************************************)
(* DataPreserved for providers that answer an export or an import when it  *)
(* is over, as those in the tree do, and a target name that is not taken;  *)
(* and PartialTargetDeleted without these conditions.  Both for any        *)
(* options, retry policy and number of faults; of a migration that does    *)
(* not verify checksums DataPreserved says nothing.                        *)
(***************************************************************************)
EXTENDS VMMigration, TLAPS

(* Exports and imports without tasks, and a target name that is free.       *)
Synchronous ==
    /\ "export" \notin given.tasks /\ "import" \notin given.tasks
    /\ "targetTaken" \notin given.environment

(* And the checksums are compared.                                          *)
Verifying ==
    "verifyChecksums" \in given.options /\ "sha256sumFails" \notin given.environment
Checked == Synchronous /\ Verifying

Typed ==
    /\ migration \in Migrations /\ cache \in Migrations
    /\ pc # "idle" => copy \in Migrations

(* What a status says of the import and of the target VM is so, however old *)
(* the status is: an imported disk stays complete, and so does a target.    *)
Truthful(s) ==
    /\ s.importID => disk = "complete"
    /\ s.phase = "Creating" => s.importID
    /\ s.phase \in {"ValidatingTarget", "Ready"} => target.disk = "complete"

Statuses ==
    /\ Truthful(migration.status) /\ Truthful(cache.status)
    /\ pc # "idle" => Truthful(copy.status)

(* A handler runs for the phase its copy is in, and the cleanups of a       *)
(* migration only for a complete target.                                    *)
Handlers ==
    /\ pc \in Phases => copy.status.phase = pc
    /\ pc \in {"cleanSnapshot", "cleanSource"} => target.disk = "complete"

(* DataPreserved of a migration that verifies and has spoilt no disk.       *)
SourceKept == source \in {"deleting", "deleted"} => target.disk = "complete"

World ==
    /\ target \in Targets
    /\ DOMAIN task = Operations
    /\ task["export"] # "running" /\ task["import"] # "running"
    /\ target.state # "none" => target.disk = "complete"
    /\ SourceKept

IInv == Checked /\ Typed /\ Statuses /\ Handlers /\ World

(* What a step must not undo.                                               *)
Keeps ==
    /\ UNCHANGED given
    /\ disk = "complete" => disk' = "complete"
    /\ target.disk = "complete" => target'.disk = "complete"
    /\ World'

-----------------------------------------------------------------------------
(* The ends of a handler.                                                   *)

(* A status that was truthful stays so.                                     *)
LEMMA TruthfulStays ==
    ASSUME Keeps, NEW s, Truthful(s)
    PROVE  Truthful(s)'
BY DEF Keeps, Truthful

(* A handler that goes on with another truthful status keeps the invariant. *)
LEMMA ProceedKeeps ==
    ASSUME IInv, Keeps, UNCHANGED apiVars, pc # "idle",
           NEW s \in Status, Truthful(s)', NEW p \in {"status", "savePVC"}, Proceed(s, p)
    PROVE  IInv'
<1>1. copy \in Migrations
    BY DEF IInv, Typed
<1>2. copy' \in Migrations /\ copy'.status = s /\ pc' = p
    BY <1>1 DEF Proceed, Migrations
<1>3. Typed'
    BY <1>2 DEF IInv, Typed, apiVars
<1>4. Statuses'
    BY <1>2, TruthfulStays DEF IInv, Statuses, Truthful, Keeps, apiVars
<1>5. Handlers' /\ Checked' /\ World'
    BY <1>2, Zenon DEF IInv, Handlers, Phases, Checked, Synchronous, Verifying, Keeps
<1> QED
    BY <1>3, <1>4, <1>5 DEF IInv

(* So does one that moves to a phase of which the status then tells truly.  *)
LEMMA PhaseKeeps ==
    ASSUME IInv, Keeps, UNCHANGED apiVars, pc # "idle",
           NEW s \in Status, NEW p \in Phases, ToPhase(s, p),
           s.importID => disk' = "complete",
           p = "Creating" => s.importID,
           p \in {"ValidatingTarget", "Ready"} => target'.disk = "complete"
    PROVE  IInv'
<1> DEFINE t == [s EXCEPT !.phase = p]
<1>1. t \in Status /\ t.importID = s.importID /\ t.phase = p
    BY DEF Status
<1>2. Truthful(t)'
    BY <1>1 DEF Truthful
<1>3. Proceed(t, "status")
    BY DEF ToPhase
<1> HIDE DEF t
<1> QED
    BY <1>1, <1>2, <1>3, ProceedKeeps

(* A pass that fails keeps it.                                              *)
LEMMA FailedKeeps ==
    ASSUME IInv, Keeps, UNCHANGED apiVars, pc # "idle", transitionToFailed
    PROVE  IInv'
<1>1. copy.status \in Status
    BY DEF IInv, Typed, Migrations
<1>2. copy.status.importID => disk' = "complete"
    BY DEF IInv, Statuses, Truthful, Keeps
<1> QED
    BY <1>1, <1>2, PhaseKeeps, Zenon DEF transitionToFailed, Phases

(* A pass that ends, or has not begun, keeps it.                            *)
LEMMA ReturnKeeps ==
    ASSUME IInv, Keeps, UNCHANGED apiVars, Return
    PROVE  IInv'
<1>1. Typed' /\ Handlers' /\ Checked' /\ World'
    BY Zenon DEF IInv, Typed, Handlers, Phases, Checked, Synchronous, Verifying, Keeps, Return, apiVars
<1>2. Statuses'
    BY TruthfulStays DEF IInv, Statuses, Truthful, Keeps, Return, apiVars
<1> QED
    BY <1>1, <1>2 DEF IInv

(* The world moves, the controller does not.                                *)
LEMMA WorldKeeps ==
    ASSUME IInv, Keeps, UNCHANGED apiVars, UNCHANGED copy,
           pc' = pc \/ (pc # "idle" /\ pc' \notin Phases \cup {"idle", "cleanSnapshot", "cleanSource"})
                    \/ (pc # "idle" /\ pc' \in {"cleanSnapshot", "cleanSource"} /\ target.disk = "complete")
    PROVE  IInv'
<1>1. Typed' /\ Handlers' /\ Checked' /\ World'
    BY Zenon DEF IInv, Typed, Handlers, Phases, Checked, Synchronous, Verifying, Keeps, apiVars
<1>2. Statuses'
    BY DEF IInv, Statuses, Truthful, Keeps, apiVars
<1> QED
    BY <1>1, <1>2 DEF IInv

(* The object is written with a truthful status.                            *)
LEMMA WriteKeeps ==
    ASSUME IInv, Keeps, UNCHANGED <<disk, target>>,
           NEW m \in Migrations, Truthful(m.status), Write(m),
           Return \/ (copy' = copy /\ pc' = pc)
                  \/ (copy' = copy /\ pc # "idle" /\ pc' \notin Phases \cup {"idle", "cleanSnapshot", "cleanSource"})
    PROVE  IInv'
<1>1. Typed' /\ Handlers' /\ Checked' /\ World'
    BY Zenon DEF IInv, Typed, Handlers, Phases, Checked, Synchronous, Verifying, Keeps, Return, Write
<1>2. Statuses'
    BY DEF IInv, Statuses, Truthful, Keeps, Return, Write
<1> QED
    BY <1>1, <1>2 DEF IInv

-----------------------------------------------------------------------------
(* The actions.                                                             *)

(* The copy of a pass is an object with a truthful status.                  *)
LEMMA CopyFacts ==
    ASSUME IInv, pc # "idle"
    PROVE  /\ copy \in Migrations /\ copy.status \in Status
           /\ Truthful(copy.status)
BY DEF IInv, Typed, Statuses, Migrations

(* A handler that moves on, before the import is known to be complete.      *)
LEMMA MovesOnKeeps ==
    ASSUME IInv, Keeps, UNCHANGED apiVars, pc # "idle",
           NEW s \in Status, s.importID = copy.status.importID,
           NEW p \in Phases \ {"Creating", "ValidatingTarget", "Ready"}, ToPhase(s, p)
    PROVE  IInv'
<1>1. s.importID => disk' = "complete"
    BY CopyFacts DEF Truthful, Keeps
<1> QED
    BY <1>1, PhaseKeeps

(* A handler that stays in its phase, and writes what it learned.           *)
LEMMA StaysKeeps ==
    ASSUME IInv, Keeps, UNCHANGED apiVars, pc # "idle",
           NEW s \in Status, s.importID = copy.status.importID, s.phase = copy.status.phase,
           NEW p \in {"status", "savePVC"}, Proceed(s, p)
    PROVE  IInv'
<1>1. Truthful(s)'
    BY CopyFacts DEF Truthful, Keeps
<1> QED
    BY <1>1, ProceedKeeps

(* A step that leaves disk, target, source and the tasks alone.             *)
LEMMA QuietKeeps ==
    ASSUME IInv, UNCHANGED <<given, disk, target, source, task>>
    PROVE  Keeps
BY DEF IInv, Keeps, World, SourceKept

(* Reconcile up to its handler: the finalizer and the copy of the cache.    *)
LEMMA StartKeeps ==
    ASSUME IInv, AddFinalizer \/ StartReconcile, UNCHANGED given
    PROVE  IInv'
<1>1. Keeps
    BY QuietKeeps DEF AddFinalizer, StartReconcile, worldVars
<1>2. CASE AddFinalizer
  <2> DEFINE m == [migration EXCEPT !.finalizer = TRUE]
  <2>1. m \in Migrations /\ m.status = migration.status
    BY Zenon DEF IInv, Typed, Migrations
  <2>2. Truthful(m.status)
    BY <2>1 DEF IInv, Statuses
  <2>3. Write(m) /\ copy' = copy /\ pc' = pc /\ UNCHANGED <<disk, target>>
    BY <1>2 DEF AddFinalizer, copyVars, worldVars
  <2> HIDE DEF m
  <2> QED
    BY <1>1, <2>1, <2>2, <2>3, WriteKeeps
<1>3. CASE StartReconcile
  <2>1. copy' = cache /\ UNCHANGED apiVars /\ (pc' = "delete" \/ pc' = cache.status.phase)
    BY <1>3 DEF StartReconcile, ReadCache
  <2>2. Typed' /\ Checked' /\ World'
    BY <1>1, <2>1 DEF IInv, Typed, Checked, Synchronous, Verifying, Keeps, apiVars
  <2>3. Statuses'
    BY <1>1, <2>1 DEF IInv, Statuses, Truthful, Keeps, apiVars
  <2>4. Handlers'
    BY <2>1, Zenon DEF IInv, Typed, Handlers, Phases, Migrations, Status
  <2> QED
    BY <2>2, <2>3, <2>4 DEF IInv
<1> QED
    BY <1>2, <1>3

(* The first phases, up to the wait for the provider pods.                  *)
LEMMA ValidatingKeeps ==
    ASSUME IInv, UNCHANGED given,
           \/ initialize \/ handlePendingPhase \/ handleValidatingPhase
           \/ waitForProvidersReady \/ waitForProvidersReadyTimesOut
    PROVE  IInv'
<1>1. Keeps /\ UNCHANGED apiVars /\ pc # "idle"
    BY QuietKeeps, Zenon DEF initialize, handlePendingPhase, handleValidatingPhase,
       waitForProvidersReady, waitForProvidersReadyTimesOut, worldVars
<1>2. copy.status \in Status
    BY <1>1, CopyFacts
<1>3. CASE \E p \in Phases \ {"Creating", "ValidatingTarget", "Ready"} : ToPhase(copy.status, p)
    BY <1>1, <1>2, <1>3, MovesOnKeeps
<1>4. CASE Proceed(copy.status, "status")
    BY <1>1, <1>2, <1>4, StaysKeeps
<1>5. CASE Proceed([copy.status EXCEPT !.pvcName = TRUE], "savePVC")
  <2> DEFINE s == [copy.status EXCEPT !.pvcName = TRUE]
  <2>1. s \in Status /\ s.importID = copy.status.importID /\ s.phase = copy.status.phase
    BY <1>2, Zenon DEF Status
  <2>2. Proceed(s, "savePVC")
    BY <1>5
  <2> HIDE DEF s
  <2> QED
    BY <1>1, <2>1, <2>2, StaysKeeps
<1> QED
    BY <1>3, <1>4, <1>5, Zenon DEF initialize, handlePendingPhase, handleValidatingPhase,
       waitForProvidersReady, waitForProvidersReadyTimesOut, transitionToFailed, Validated, Phases

(* handleSnapshottingPhase.                                                 *)
LEMMA SnapshottingKeeps ==
    ASSUME IInv, UNCHANGED given, handleSnapshottingPhase
    PROVE  IInv'
<1>1. UNCHANGED <<apiVars, disk, target, source>> /\ pc # "idle"
    BY DEF handleSnapshottingPhase
<1>2. /\ DOMAIN task' = Operations
      /\ task'["export"] # "running" /\ task'["import"] # "running"
  <2>1. task' = task \/ task' = [task EXCEPT !["snapshot"] = "running"]
    BY DEF handleSnapshottingPhase, SnapshotCreate
  <2> QED
    BY <2>1 DEF IInv, World, Operations
<1>3. Keeps
    BY <1>1, <1>2 DEF IInv, Keeps, World, SourceKept
<1>4. copy.status \in Status
    BY <1>1, CopyFacts
<1> DEFINE u == [copy.status EXCEPT !.snapshotID = "user"]
           a == [copy.status EXCEPT !.snapshotID = "own", !.taskRef = "snapshot"]
           b == [copy.status EXCEPT !.snapshotID = "own", !.taskRef = None]
<1>5. \A s \in {copy.status, u, a, b} :
        s \in Status /\ s.importID = copy.status.importID /\ s.phase = copy.status.phase
    BY ZenonT(60), <1>4 DEF Status, Operations
<1>6. \/ \E s \in {copy.status, u, b} : ToPhase(s, "Exporting") \/ ToPhase(s, "Failed")
      \/ Proceed(a, "status")
    BY DEF handleSnapshottingPhase, transitionToFailed
<1> HIDE DEF u, a, b
<1>7. CASE \E s \in {copy.status, u, b} : ToPhase(s, "Exporting") \/ ToPhase(s, "Failed")
    BY <1>1, <1>3, <1>5, <1>7, MovesOnKeeps, Zenon DEF Phases
<1>8. CASE Proceed(a, "status")
    BY <1>1, <1>3, <1>5, <1>8, StaysKeeps
<1> QED
    BY <1>6, <1>7, <1>8

(* handleExportingPhase.                                                    *)
LEMMA ExportingKeeps ==
    ASSUME IInv, UNCHANGED given, handleExportingPhase
    PROVE  IInv'
<1>1. UNCHANGED <<apiVars, disk, target, source>> /\ pc # "idle"
    BY DEF handleExportingPhase
<1>2. UNCHANGED task
    BY DEF handleExportingPhase, IInv, Checked, Synchronous, Verifying
<1>3. Keeps
    BY <1>1, <1>2, QuietKeeps
<1>4. copy.status \in Status
    BY <1>1, CopyFacts
<1> DEFINE a == [copy.status EXCEPT !.taskRef = None]
           b == [copy.status EXCEPT !.exportID = TRUE, !.taskRef = None]
<1>5. \A s \in {copy.status, a, b} : s \in Status /\ s.importID = copy.status.importID
    BY <1>4, Zenon DEF Status
<1>6. \/ \E s \in {copy.status, a, b} : ToPhase(s, "Importing") \/ ToPhase(s, "Failed")
      \/ Return
    BY DEF handleExportingPhase, transitionToFailed, IInv, Checked, Synchronous, Verifying
<1> HIDE DEF a, b
<1>7. CASE \E s \in {copy.status, a, b} : ToPhase(s, "Importing") \/ ToPhase(s, "Failed")
    BY <1>1, <1>3, <1>5, <1>7, MovesOnKeeps, Zenon DEF Phases
<1>8. CASE Return
    BY <1>1, <1>3, <1>8, ReturnKeeps
<1> QED
    BY <1>6, <1>7, <1>8

(* handleImportingPhase: what is imported is the verified export, and what  *)
(* is written and refused spoils no complete disk.                          *)
LEMMA ImportingKeeps ==
    ASSUME IInv, UNCHANGED given, handleImportingPhase, ~torn'
    PROVE  IInv'
<1>1. UNCHANGED <<apiVars, target, source>> /\ pc # "idle"
    BY DEF handleImportingPhase
<1>2. UNCHANGED task
    BY DEF handleImportingPhase, IInv, Checked, Synchronous, Verifying
<1>3. disk = "complete" => disk' = "complete"
    BY DEF handleImportingPhase, WriteDisk
<1>4. Keeps
    BY <1>1, <1>2, <1>3 DEF IInv, Keeps, World, SourceKept
<1>5. copy.status \in Status /\ (copy.status.importID => disk' = "complete")
    BY <1>1, <1>4, CopyFacts DEF Truthful, Keeps
<1> DEFINE a == [copy.status EXCEPT !.taskRef = None]
           b == [copy.status EXCEPT !.importID = TRUE, !.taskRef = None]
<1>6. a \in Status /\ a.importID = copy.status.importID /\ b \in Status /\ b.importID
    BY <1>5, Zenon DEF Status
<1>7. \/ copy.status.importID /\ ToPhase(a, "Creating")
      \/ Return
      \/ transitionToFailed
      \/ disk' = "complete" /\ ToPhase(b, "Creating")
    BY DEF handleImportingPhase, Verified, Compares, WriteDisk, IInv, Checked, Synchronous, Verifying
<1> HIDE DEF a, b
<1>8. CASE copy.status.importID /\ ToPhase(a, "Creating")
    BY <1>1, <1>4, <1>5, <1>6, <1>8, PhaseKeeps, Zenon DEF Phases
<1>9. CASE disk' = "complete" /\ ToPhase(b, "Creating")
    BY <1>1, <1>4, <1>6, <1>9, PhaseKeeps, Zenon DEF Phases
<1> QED
    BY <1>1, <1>4, <1>7, <1>8, <1>9, ReturnKeeps, FailedKeeps

(* handleCreatingPhase makes the target VM of the imported disk.            *)
LEMMA CreatingKeeps ==
    ASSUME IInv, UNCHANGED given, handleCreatingPhase
    PROVE  IInv'
<1>1. UNCHANGED <<apiVars, disk, source, task>> /\ pc = "Creating"
    BY DEF handleCreatingPhase
<1>2. copy.status \in Status /\ copy.status.importID /\ disk = "complete"
    BY <1>1, CopyFacts DEF IInv, Handlers, Phases, Truthful
<1>3. CASE UNCHANGED target
  <2>1. Keeps
    BY <1>1, <1>3, QuietKeeps
  <2>2. \/ target.state = "there" /\ ToPhase(copy.status, "ValidatingTarget")
        \/ Return
        \/ Proceed(copy.status, "status")
    BY <1>3 DEF handleCreatingPhase
  <2>3. target.state = "there" => target'.disk = "complete"
    BY <1>3 DEF IInv, World
  <2>4. CASE target.state = "there" /\ ToPhase(copy.status, "ValidatingTarget")
    BY <1>1, <1>2, <2>1, <2>3, <2>4, PhaseKeeps, Zenon DEF Phases
  <2> QED
    BY <1>1, <1>2, <2>1, <2>2, <2>4, ReturnKeeps, StaysKeeps, Zenon
<1>4. CASE target' = [NoTarget EXCEPT !.state = "there", !.own = TRUE, !.disk = disk]
  <2>1. target'.disk = "complete"
    BY <1>2, <1>4 DEF NoTarget
  <2>2. target' \in Targets
    BY <1>2, <1>4, Zenon DEF NoTarget, Targets, Contents
  <2>3. Keeps
    BY <1>1, <2>1, <2>2 DEF IInv, Keeps, World, SourceKept
  <2>4. \/ ToPhase(copy.status, "ValidatingTarget")
        \/ Return
        \/ Proceed(copy.status, "status")
    BY DEF handleCreatingPhase
  <2>5. CASE ToPhase(copy.status, "ValidatingTarget")
    BY <1>1, <1>2, <2>1, <2>3, <2>5, PhaseKeeps, Zenon DEF Phases
  <2> QED
    BY <1>1, <1>2, <2>3, <2>4, <2>5, ReturnKeeps, StaysKeeps, Zenon
<1> QED
    BY <1>3, <1>4 DEF handleCreatingPhase

(* handleValidatingTargetPhase changes only the target's annotation.        *)
LEMMA ValidatingTargetKeeps ==
    ASSUME IInv, UNCHANGED given, handleValidatingTargetPhase
    PROVE  IInv'
<1>1. UNCHANGED <<apiVars, disk, source, task>> /\ pc = "ValidatingTarget"
    BY DEF handleValidatingTargetPhase
<1>2. copy.status \in Status /\ target.disk = "complete"
    BY <1>1, CopyFacts DEF IInv, Handlers, Phases, Truthful
<1>3. target' = target \/ target' = [target EXCEPT !.completed = TRUE]
    BY DEF handleValidatingTargetPhase
<1>4. target' \in Targets /\ target'.disk = "complete"
    BY <1>2, <1>3, Zenon DEF IInv, World, Targets
<1>5. Keeps
    BY <1>1, <1>4 DEF IInv, Keeps, World, SourceKept
<1>6. copy.status.importID => disk' = "complete"
    BY <1>1, CopyFacts DEF Truthful
<1>7. transitionToFailed \/ Proceed(copy.status, "status") \/ ToPhase(copy.status, "Ready")
    BY DEF handleValidatingTargetPhase
<1>8. CASE ToPhase(copy.status, "Ready")
    BY <1>1, <1>2, <1>4, <1>5, <1>6, <1>8, PhaseKeeps, Zenon DEF Phases
<1> QED
    BY <1>1, <1>2, <1>5, <1>7, <1>8, FailedKeeps, StaysKeeps

(* handleReadyPhase's three cleanups run for a complete target only.        *)
LEMMA ReadyKeeps ==
    ASSUME IInv, UNCHANGED given,
           cleanupIntermediateStorage \/ deleteSourceSnapshot \/ deleteSourceVM
    PROVE  IInv'
<1> USE DEF cleanupIntermediateStorage, deleteSourceSnapshot, deleteSourceVM
<1>1. UNCHANGED <<apiVars, disk, target, task>> /\ pc \in {"Ready", "cleanSnapshot", "cleanSource"}
    OBVIOUS
<1>2. copy.status \in Status /\ target.disk = "complete"
    BY <1>1, CopyFacts, Zenon DEF IInv, Handlers, Phases, Truthful
<1>3. Keeps
    BY <1>1, <1>2 DEF IInv, Keeps, World, SourceKept
<1>4. \/ Return
      \/ pc' \in {"cleanSnapshot", "cleanSource"} /\ UNCHANGED copy
      \/ Proceed([copy.status EXCEPT !.cleanedUp = TRUE], "status")
    BY DEF copyVars
<1> DEFINE s == [copy.status EXCEPT !.cleanedUp = TRUE]
<1>5. s \in Status /\ s.importID = copy.status.importID /\ s.phase = copy.status.phase
    BY <1>2, Zenon DEF Status
<1>6. CASE Proceed(s, "status")
  <2> HIDE DEF s
  <2> QED
    BY <1>1, <1>3, <1>5, <1>6, StaysKeeps
<1>7. CASE pc' \in {"cleanSnapshot", "cleanSource"} /\ UNCHANGED copy
    BY <1>1, <1>2, <1>3, <1>7, WorldKeeps
<1> QED
    BY <1>1, <1>3, <1>4, <1>6, <1>7, ReturnKeeps

(* handleFailedPhase starts over with the ids of the attempt before.        *)
LEMMA RetryKeeps ==
    ASSUME IInv, UNCHANGED given, handleFailedPhase
    PROVE  IInv'
<1>1. Keeps /\ UNCHANGED apiVars /\ pc # "idle"
    BY QuietKeeps DEF handleFailedPhase, worldVars
<1> DEFINE s == [copy.status EXCEPT !.retryCount = @ + 1, !.taskRef = None]
<1>2. s \in Status /\ s.importID = copy.status.importID
  <2>1. copy.status \in Status
    BY <1>1, CopyFacts
  <2>2. copy.status.retryCount + 1 \in Nat
    BY <2>1 DEF Status
  <2> QED
    BY <2>1, <2>2, Zenon DEF Status
<1>3. ToPhase(s, "Pending")
    BY DEF handleFailedPhase
<1> HIDE DEF s
<1> QED
    BY <1>1, <1>2, <1>3, MovesOnKeeps, Zenon DEF Phases

(* Lost calls and a crash of the manager.                                   *)
LEMMA FaultsKeep ==
    ASSUME IInv, UNCHANGED given, Faults, ~torn'
    PROVE  IInv'
<1>1. Keeps
  <2>1. CASE PhaseFails
    <3>1. UNCHANGED <<target, source, task>>
      BY <2>1 DEF PhaseFails
    <3>2. disk = "complete" => disk' = "complete"
      BY <2>1 DEF PhaseFails, WriteDisk
    <3> QED
      BY <3>1, <3>2 DEF IInv, Keeps, World, SourceKept
  <2>2. CASE ProviderNotReady \/ CleanupFails \/ updateStatusFails \/ Crash
    BY <2>2, QuietKeeps DEF ProviderNotReady, CleanupFails, updateStatusFails, Crash, worldVars
  <2> QED
    BY <2>1, <2>2 DEF Faults
<1>2. CASE PhaseFails
    BY <1>1, <1>2, FailedKeeps DEF PhaseFails
<1>5. CASE ProviderNotReady
  <2>1. UNCHANGED apiVars /\ pc # "idle" /\ Proceed(copy.status, "status")
    BY <1>5 DEF ProviderNotReady
  <2>2. copy.status \in Status
    BY <2>1, CopyFacts
  <2> QED
    BY <1>1, <2>1, <2>2, StaysKeeps
<1>3. CASE CleanupFails \/ updateStatusFails
    BY <1>1, <1>3, ReturnKeeps DEF CleanupFails, updateStatusFails
<1>4. CASE Crash
  <2>1. Typed' /\ Handlers' /\ Checked' /\ World'
    BY <1>1, <1>4, Zenon DEF IInv, Typed, Handlers, Phases, Checked, Synchronous, Verifying, Keeps, Return, Crash
  <2>2. Statuses'
    BY <1>1, <1>4 DEF IInv, Statuses, Truthful, Keeps, Return, Crash
  <2> QED
    BY <2>1, <2>2 DEF IInv
<1> QED
    BY <1>2, <1>3, <1>4, <1>5 DEF Faults

(* updateStatus writes the copy's status over the object, and after a       *)
(* conflict over the one in the cache: a truthful status either way.        *)
LEMMA StatusKeeps ==
    ASSUME IInv, UNCHANGED given, updateStatus \/ refreshStatus
    PROVE  IInv'
<1>1. Keeps /\ pc \in {"status", "savePVC"}
    BY QuietKeeps DEF updateStatus, refreshStatus, Writing, worldVars
<1>2. copy \in Migrations /\ copy.status \in Status /\ Truthful(copy.status)
    BY <1>1, CopyFacts
<1>3. CASE updateStatus
  <2> DEFINE m == [migration EXCEPT !.status = copy.status]
  <2>1. m \in Migrations /\ m.status = copy.status
    BY <1>2 DEF IInv, Typed, Migrations
  <2>2. Write(m) /\ UNCHANGED <<disk, target>> /\ (Return \/ (copy' = copy /\ pc' = "wait"))
    BY <1>3, Zenon DEF updateStatus, copyVars, worldVars
  <2>3. Truthful(m.status)
    BY <1>2, <2>1
  <2> HIDE DEF m
  <2> QED
    BY <1>1, <2>1, <2>2, <2>3, WriteKeeps, Zenon DEF Phases
<1>4. CASE refreshStatus
  <2>1. copy' = [cache EXCEPT !.status = copy.status] /\ UNCHANGED <<apiVars, pc, disk, target>>
    BY <1>4 DEF refreshStatus, worldVars
  <2>2. copy' \in Migrations /\ copy'.status = copy.status
    BY <1>2, <2>1 DEF IInv, Typed, Migrations
  <2>3. Typed' /\ Handlers' /\ Checked' /\ World'
    BY <1>1, <2>1, <2>2, Zenon DEF IInv, Typed, Handlers, Phases, Checked, Synchronous, Verifying, Keeps, apiVars
  <2>4. Statuses'
    BY <1>2, <2>1, <2>2 DEF IInv, Statuses, Truthful, apiVars
  <2> QED
    BY <2>3, <2>4 DEF IInv
<1> QED
    BY <1>3, <1>4

(* handleDeletion: a partial target goes, and nothing else of interest.     *)
LEMMA DeletionKeeps ==
    ASSUME IInv, UNCHANGED given,
           deleteStorage \/ deleteSnapshot \/ deletePartialTarget \/ RemoveFinalizer
    PROVE  IInv'
<1>1. CASE deleteStorage \/ deleteSnapshot
  <2>1. Keeps /\ UNCHANGED <<apiVars, copy>>
    BY <1>1, QuietKeeps DEF deleteStorage, deleteSnapshot, copyVars
  <2> QED
    BY <1>1, <2>1, WorldKeeps, Zenon DEF deleteStorage, deleteSnapshot, Phases
<1>2. CASE deletePartialTarget
  <2>1. target' = target \/ (PartialTarget /\ target' = [target EXCEPT !.state = "deleted"])
    BY <1>2 DEF deletePartialTarget
  <2>2. /\ target' \in Targets /\ target'.disk = target.disk
        /\ target'.state # "none" => target.state # "none"
    BY <2>1 DEF PartialTarget, IInv, World, Targets
  <2>3. UNCHANGED <<apiVars, copy, disk, source, task>> /\ pc = "deleteTarget" /\ pc' = "unfinalize"
    BY <1>2 DEF deletePartialTarget, copyVars
  <2>4. Keeps
    BY <2>2, <2>3 DEF IInv, Keeps, World, SourceKept
  <2> QED
    BY <2>3, <2>4, WorldKeeps DEF Phases
<1>3. CASE RemoveFinalizer
  <2>1. Keeps /\ Return /\ UNCHANGED <<disk, target>>
    BY <1>3, QuietKeeps DEF RemoveFinalizer, worldVars
  <2> DEFINE m == [migration EXCEPT !.present = FALSE, !.finalizer = FALSE]
  <2>2. m \in Migrations /\ m.status = migration.status
    BY Zenon DEF IInv, Typed, Migrations
  <2>3. Truthful(m.status)
    BY <2>2 DEF IInv, Statuses
  <2>4. Write(m) \/ UNCHANGED apiVars
    BY <1>3 DEF RemoveFinalizer
  <2> HIDE DEF m
  <2> QED
    BY <2>1, <2>2, <2>3, <2>4, WriteKeeps, ReturnKeeps
<1> QED
    BY <1>1, <1>2, <1>3

(* The rest of the cluster and the user.                                    *)
LEMMA ClusterKeeps ==
    ASSUME IInv, UNCHANGED given, Cluster \/ User \/ \E o \in Operations : TaskFails(o)
    PROVE  IInv'
<1>1. CASE InformerSync
  <2>1. Keeps
    BY <1>1, QuietKeeps DEF InformerSync, worldVars
  <2>2. Typed' /\ Handlers' /\ Checked' /\ World'
    BY <1>1, <2>1 DEF IInv, Typed, Handlers, Checked, Synchronous, Verifying, Keeps, InformerSync, copyVars, worldVars
  <2>3. Statuses'
    BY <1>1 DEF IInv, Statuses, Truthful, InformerSync, copyVars, worldVars
  <2> QED
    BY <2>2, <2>3 DEF IInv
<1>2. CASE ClaimCollected \/ \E p \in Providers : PodsRestart(p)
  <2>1. Keeps
    BY <1>2, QuietKeeps DEF ClaimCollected, PodsRestart
  <2> QED
    BY <1>2, <2>1, WorldKeeps DEF ClaimCollected, PodsRestart, copyVars
<1>3. CASE SourceProvisioned \/ SourceRemoved
  <2>1. Keeps
    BY <1>3 DEF SourceProvisioned, SourceRemoved, IInv, Keeps, World, SourceKept
  <2> QED
    BY <1>3, <2>1, WorldKeeps DEF SourceProvisioned, SourceRemoved, copyVars
<1>4. CASE TargetProvisioned \/ TargetRemoved
  <2>1. /\ target.state = "there"
        /\ target' = [target EXCEPT !.ready = TRUE] \/ target' = [target EXCEPT !.state = "removed"]
    BY <1>4 DEF TargetProvisioned, TargetRemoved
  <2>2. target' \in Targets /\ target'.disk = target.disk
    BY <2>1, Zenon DEF IInv, World, Targets
  <2>3. UNCHANGED <<apiVars, pc, copy, disk, source, task>>
    BY <1>4 DEF TargetProvisioned, TargetRemoved, copyVars
  <2>4. Keeps
    BY <2>1, <2>2, <2>3 DEF IInv, Keeps, World, SourceKept
  <2> QED
    BY <2>3, <2>4, WorldKeeps
<1>5. CASE \E o \in Operations : TaskSucceeds(o) \/ TaskFails(o)
  <2>1. PICK o \in Operations : TaskSucceeds(o) \/ TaskFails(o)
    BY <1>5
  <2>2. o = "snapshot"
    BY <2>1 DEF TaskSucceeds, TaskFails, Operations, IInv, World
  <2>3. UNCHANGED <<apiVars, pc, copy, disk, target, source>>
    BY <2>1, <2>2 DEF TaskSucceeds, TaskFails, WriteDisk, copyVars
  <2>4. task' = [task EXCEPT !["snapshot"] = "done"] \/ task' = [task EXCEPT !["snapshot"] = "failed"]
    BY <2>1, <2>2 DEF TaskSucceeds, TaskFails
  <2>5. Keeps
    BY <2>3, <2>4 DEF IInv, Keeps, World, SourceKept, Operations
  <2> QED
    BY <2>3, <2>5, WorldKeeps
<1>6. CASE RequestDeletion
  <2>1. Keeps
    BY <1>6, QuietKeeps DEF RequestDeletion, worldVars
  <2> DEFINE m == [migration EXCEPT !.deleting = TRUE, !.present = migration.finalizer]
  <2>2. m \in Migrations /\ m.status = migration.status
    BY Zenon DEF IInv, Typed, Migrations
  <2>3. Truthful(m.status)
    BY <2>2 DEF IInv, Statuses
  <2>4. Write(m) /\ copy' = copy /\ pc' = pc /\ UNCHANGED <<disk, target>>
    BY <1>6 DEF RequestDeletion, worldVars
  <2> HIDE DEF m
  <2> QED
    BY <2>1, <2>2, <2>3, <2>4, WriteKeeps
<1> QED
    BY <1>1, <1>2, <1>3, <1>4, <1>5, <1>6 DEF Cluster, User

-----------------------------------------------------------------------------
(* The invariant holds at the start, ...                                    *)
LEMMA InitIInv == Init /\ Checked => IInv
<1> SUFFICES ASSUME Init, Checked PROVE IInv
    OBVIOUS
<1> USE DEF Init
<1>1. migration \in Migrations
    BY Zenon DEF Migrations, Status, Phases
<1>2. Typed /\ Statuses /\ Handlers
    BY <1>1, Zenon DEF Typed, Statuses, Truthful, Handlers, Phases
<1>3. target = NoTarget
    BY Zenon DEF Checked, Synchronous, Verifying
<1>4. World
  <2>1. target \in Targets /\ target.state = "none"
    <3>1. NoTarget \in Targets /\ NoTarget.state = "none"
      BY Zenon DEF NoTarget, Targets, Contents
    <3> QED
      BY <1>3, <3>1, Zenon
  <2>2. /\ DOMAIN task = Operations
        /\ task["export"] # "running" /\ task["import"] # "running"
    BY Zenon DEF Operations
  <2> QED
    BY <2>1, <2>2, Zenon DEF World, SourceKept
<1> QED
    BY <1>2, <1>4, Zenon DEF IInv

(* ... and every step keeps it that spoils no disk.                         *)
LEMMA NextIInv == IInv /\ [Next]_vars /\ ~torn' => IInv'
<1> SUFFICES ASSUME IInv, [Next]_vars, ~torn' PROVE IInv'
    OBVIOUS
<1>1. CASE UNCHANGED vars
  <2>1. Keeps
    BY <1>1, QuietKeeps DEF vars
  <2> QED
    BY <1>1, <2>1, WorldKeeps DEF vars, apiVars
<1>2. CASE Reconcile /\ UNCHANGED given
    BY <1>2, StartKeeps, ValidatingKeeps, SnapshottingKeeps, ExportingKeeps, ImportingKeeps,
       CreatingKeeps, ValidatingTargetKeeps, ReadyKeeps, RetryKeeps, StatusKeeps, DeletionKeeps
       DEF Reconcile
<1> QED
    BY <1>1, <1>2, FaultsKeep, ClusterKeeps DEF Next

(* What has been spoilt counts as spoilt ever after.                        *)
LEMMA TornStays == torn /\ [Next]_vars => torn'
<1> SUFFICES ASSUME torn, [Next]_vars PROVE torn'
    OBVIOUS
<1>1. CASE UNCHANGED vars
    BY <1>1 DEF vars
<1>2. CASE Reconcile
  <2>1. CASE handleImportingPhase
    BY <2>1 DEF handleImportingPhase, WriteDisk
  <2>2. CASE \/ AddFinalizer \/ StartReconcile \/ initialize \/ handlePendingPhase
             \/ waitForProvidersReady \/ waitForProvidersReadyTimesOut \/ handleFailedPhase
             \/ updateStatus \/ refreshStatus \/ RemoveFinalizer
    BY <2>2, Zenon DEF AddFinalizer, StartReconcile, initialize, handlePendingPhase, waitForProvidersReady,
       waitForProvidersReadyTimesOut, handleFailedPhase, updateStatus, refreshStatus,
       RemoveFinalizer, worldVars
  <2>3. CASE \/ handleValidatingPhase \/ handleSnapshottingPhase \/ handleExportingPhase
             \/ handleCreatingPhase \/ handleValidatingTargetPhase
    BY <2>3, Zenon DEF handleValidatingPhase, handleSnapshottingPhase, handleExportingPhase,
       handleCreatingPhase, handleValidatingTargetPhase
  <2>4. CASE \/ cleanupIntermediateStorage \/ deleteSourceSnapshot \/ deleteSourceVM
             \/ deleteStorage \/ deleteSnapshot \/ deletePartialTarget
    BY <2>4, Zenon DEF cleanupIntermediateStorage, deleteSourceSnapshot, deleteSourceVM,
       deleteStorage, deleteSnapshot, deletePartialTarget
  <2> QED
    BY <1>2, <2>1, <2>2, <2>3, <2>4, Zenon DEF Reconcile
<1>3. CASE Faults
  <2>1. CASE PhaseFails
    BY <2>1 DEF PhaseFails, WriteDisk
  <2> QED
    BY <1>3, <2>1 DEF Faults, ProviderNotReady, CleanupFails, updateStatusFails, Crash, worldVars
<1>4. CASE Cluster \/ User \/ \E o \in Operations : TaskFails(o)
  <2>1. CASE \E o \in Operations : TaskSucceeds(o)
    BY <2>1 DEF TaskSucceeds, WriteDisk
  <2> QED
    BY <1>4, <2>1 DEF Cluster, User, InformerSync, ClaimCollected, SourceProvisioned, SourceRemoved,
       TargetProvisioned, TargetRemoved, PodsRestart, RequestDeletion, TaskFails, worldVars
<1> QED
    BY <1>1, <1>2, <1>3, <1>4 DEF Next

(* deleteSourceVM deletes only a source whose target VM was made of all of  *)
(* its disk, if checksums are verified and no import has spoilt a complete  *)
(* disk: for any other options, any retry policy and any number of lost     *)
(* calls, stale passes, interrupted exports and imports and crashes, with   *)
(* providers that answer ExportDisk and ImportDisk when they are over and a *)
(* target name that is free.                                                *)
THEOREM SourceOutlivesPartialCopy == Spec /\ Synchronous => []DataPreserved
<1> DEFINE Kept == torn \/ ~Verifying \/ IInv
<1>1. Init /\ Synchronous => Kept
    BY InitIInv DEF Checked
<1>2. Kept /\ [Next]_vars => Kept'
  <2> SUFFICES ASSUME Kept, [Next]_vars PROVE Kept'
    OBVIOUS
  <2>1. ~Verifying => ~Verifying'
    BY DEF Verifying, Next, vars
  <2> QED
    BY <2>1, TornStays, NextIInv
<1>3. Kept => DataPreserved
    BY DEF DataPreserved, Verifying, IInv, World, SourceKept
<1> QED
    BY <1>1, <1>2, <1>3, PTL DEF Spec

-----------------------------------------------------------------------------
(* PartialTargetDeleted, whatever the providers answer with and whoever     *)
(* made the target.                                                         *)
Deletion == {"delete", "deleteSnapshot", "deleteTarget", "unfinalize"}
Unfinished == target.state = "there" /\ target.own /\ ~target.completed

HasFields(m) ==
    /\ DOMAIN m = {"present", "deleting", "finalizer", "status"}
    /\ "phase" \in DOMAIN m.status /\ m.status.phase \in Phases

Fields ==
    /\ HasFields(migration) /\ HasFields(cache)
    /\ pc # "idle" => HasFields(copy)
    /\ DOMAIN target = {"state", "own", "ready", "completed", "disk"}

(* A current copy is of an object that exists, and a deletion has its phase. *)
Current ==
    /\ cacheFresh => cache = migration
    /\ copyFresh => pc # "idle" /\ migration.present
    /\ copyFresh /\ pc \in Deletion => copy.status.phase = migration.status.phase

(* A deletion timestamp stays, and the finalizer goes with the object only. *)
Lasting ==
    /\ cache.deleting => migration.deleting
    /\ pc \in Deletion => cache.deleting /\ migration.deleting
    /\ migration.present /\ ~migration.finalizer =>
          ~cache.finalizer /\ pc \in Deletion \cup {"idle"} /\ migration.status.phase = ""

(* Once the object is gone only deletions are left, and these make no       *)
(* target.                                                                  *)
Dealt ==
    /\ pc = "unfinalize" /\ copy.status.phase \in {"Failed", "Creating"} => (Unfinished => skipped)
    /\ ~migration.present /\ migration.status.phase \in {"Failed", "Creating"} =>
          /\ cache.present => cache.deleting
          /\ pc \in Deletion \cup {"idle"}
          /\ Unfinished => skipped

JInv == Fields /\ Current /\ Lasting /\ Dealt

(* A handler leaves the object alone, and none runs once it is gone.        *)
LEMMA HandlerDeals ==
    ASSUME JInv, UNCHANGED apiVars, pc \notin Deletion \cup {"idle"}, pc' \notin Deletion,
           pc' # "idle" => HasFields(copy)',
           copyFresh' => copyFresh /\ pc' # "idle",
           DOMAIN target' = DOMAIN target
    PROVE  JInv'
<1>1. Fields'
    BY DEF JInv, Fields, HasFields, apiVars
<1>2. Current' /\ Lasting'
    BY Zenon DEF JInv, Current, Lasting, apiVars, Deletion
<1>3. Dealt'
    BY DEF JInv, Dealt, apiVars, Deletion
<1> QED
    BY <1>1, <1>2, <1>3 DEF JInv

(* The ends of a handler give the copy a phase.                             *)
LEMMA EndFields ==
    ASSUME JInv, pc # "idle", NEW s, DOMAIN s = DOMAIN copy.status
    PROVE  /\ \A p : s.phase \in Phases /\ Proceed(s, p) => HasFields(copy)'
           /\ \A p \in Phases : ToPhase(s, p) => HasFields(copy)'
<1>1. DOMAIN copy = {"present", "deleting", "finalizer", "status"} /\ "phase" \in DOMAIN s
    BY DEF JInv, Fields, HasFields
<1>2. ASSUME NEW p, s.phase \in Phases, Proceed(s, p) PROVE HasFields(copy)'
    BY <1>1, <1>2 DEF HasFields, Proceed
<1>3. ASSUME NEW p \in Phases, ToPhase(s, p) PROVE HasFields(copy)'
  <2> DEFINE t == [s EXCEPT !.phase = p]
  <2>1. DOMAIN t = DOMAIN s /\ t.phase = p
    BY <1>1
  <2>2. copy' = [copy EXCEPT !.status = t]
    BY <1>3 DEF ToPhase, Proceed
  <2> HIDE DEF t
  <2> QED
    BY <1>1, <2>1, <2>2 DEF HasFields
<1> QED
    BY <1>2, <1>3

Handler ==
    \/ initialize \/ handlePendingPhase
    \/ handleValidatingPhase \/ waitForProvidersReady \/ waitForProvidersReadyTimesOut
    \/ handleSnapshottingPhase \/ handleExportingPhase \/ handleImportingPhase
    \/ handleCreatingPhase \/ handleValidatingTargetPhase
    \/ cleanupIntermediateStorage \/ deleteSourceSnapshot \/ deleteSourceVM
    \/ handleFailedPhase \/ PhaseFails \/ ProviderNotReady \/ CleanupFails \/ updateStatusFails

(* Each of the handlers is one.                                             *)
LEMMA HandlersDeal == ASSUME JInv, Handler PROVE JInv'
<1>0. pc # "idle" => \A s : /\ DOMAIN s = DOMAIN copy.status /\ s.phase = copy.status.phase
                          /\ \/ Proceed(s, "status") \/ Proceed(s, "savePVC")
                             \/ \E p \in Phases : ToPhase(s, p)
                          => HasFields(copy)'
    BY EndFields DEF JInv, Fields, HasFields
<1>1. CASE initialize
  <2>1. UNCHANGED apiVars /\ pc \notin Deletion \cup {"idle"} /\ pc' \notin Deletion
    BY <1>1, Zenon DEF initialize, Return, Proceed, ToPhase, transitionToFailed, Deletion
  <2>2. copyFresh' => copyFresh /\ pc' # "idle"
    BY <1>1, Zenon DEF initialize, Return, Proceed, ToPhase, transitionToFailed
  <2>4. DOMAIN target' = DOMAIN target
    BY <1>1, Zenon DEF initialize, worldVars
  <2>6. pc' # "idle" =>
          \E s \in {copy.status} : \/ Proceed(s, "status") \/ Proceed(s, "savePVC")
                               \/ \E p \in Phases : ToPhase(s, p)
    BY <1>1, Zenon DEF initialize, transitionToFailed, Return, Phases
  <2>7. pc' # "idle" => HasFields(copy)'
    BY <1>0, <2>1, <2>6
  <2> QED
    BY <2>1, <2>2, <2>4, <2>7, HandlerDeals
<1>2. CASE handlePendingPhase
  <2>1. UNCHANGED apiVars /\ pc \notin Deletion \cup {"idle"} /\ pc' \notin Deletion
    BY <1>2 DEF handlePendingPhase, Return, Proceed, ToPhase, transitionToFailed, Deletion
  <2>2. copyFresh' => copyFresh /\ pc' # "idle"
    BY <1>2 DEF handlePendingPhase, Return, Proceed, ToPhase, transitionToFailed
  <2>4. DOMAIN target' = DOMAIN target
    BY <1>2 DEF handlePendingPhase, worldVars
  <2>6. pc' # "idle" =>
          \E s \in {copy.status} : \/ Proceed(s, "status") \/ Proceed(s, "savePVC")
                               \/ \E p \in Phases : ToPhase(s, p)
    BY <1>2, Zenon DEF handlePendingPhase, transitionToFailed, Return, Phases
  <2>7. pc' # "idle" => HasFields(copy)'
    BY <1>0, <2>1, <2>6
  <2> QED
    BY <2>1, <2>2, <2>4, <2>7, HandlerDeals
<1>3. CASE handleValidatingPhase
  <2>1. UNCHANGED apiVars /\ pc \notin Deletion \cup {"idle"} /\ pc' \notin Deletion
    BY <1>3 DEF handleValidatingPhase, Validated, Return, Proceed, ToPhase, transitionToFailed, Deletion
  <2>2. copyFresh' => copyFresh /\ pc' # "idle"
    BY <1>3, Zenon DEF handleValidatingPhase, Validated, Return, Proceed, ToPhase, transitionToFailed
  <2>4. DOMAIN target' = DOMAIN target
    BY <1>3 DEF handleValidatingPhase, Validated, worldVars
  <2> DEFINE a == [copy.status EXCEPT !.pvcName = TRUE]
  <2>5. \A s \in {copy.status, a} : DOMAIN s = DOMAIN copy.status /\ s.phase = copy.status.phase
    <3>1. "phase" \in DOMAIN copy.status
      BY <2>1 DEF JInv, Fields, HasFields
    <3> QED
      BY <3>1
  <2>6. pc' # "idle" =>
          \E s \in {copy.status, a} : \/ Proceed(s, "status") \/ Proceed(s, "savePVC")
                               \/ \E p \in Phases : ToPhase(s, p)
    BY <1>3, Zenon DEF handleValidatingPhase, Validated, transitionToFailed, Return, Phases
  <2> HIDE DEF a
  <2>7. pc' # "idle" => HasFields(copy)'
    BY <1>0, <2>1, <2>5, <2>6
  <2> QED
    BY <2>1, <2>2, <2>4, <2>7, HandlerDeals
<1>4. CASE waitForProvidersReady
  <2>1. UNCHANGED apiVars /\ pc \notin Deletion \cup {"idle"} /\ pc' \notin Deletion
    BY <1>4 DEF waitForProvidersReady, Validated, Return, Proceed, ToPhase, transitionToFailed, Deletion
  <2>2. copyFresh' => copyFresh /\ pc' # "idle"
    BY <1>4 DEF waitForProvidersReady, Validated, Return, Proceed, ToPhase, transitionToFailed
  <2>4. DOMAIN target' = DOMAIN target
    BY <1>4 DEF waitForProvidersReady, Validated, worldVars
  <2>6. pc' # "idle" =>
          \E s \in {copy.status} : \/ Proceed(s, "status") \/ Proceed(s, "savePVC")
                               \/ \E p \in Phases : ToPhase(s, p)
    BY <1>4, Zenon DEF waitForProvidersReady, Validated, transitionToFailed, Return, Phases
  <2>7. pc' # "idle" => HasFields(copy)'
    BY <1>0, <2>1, <2>6
  <2> QED
    BY <2>1, <2>2, <2>4, <2>7, HandlerDeals
<1>5. CASE waitForProvidersReadyTimesOut
  <2>1. UNCHANGED apiVars /\ pc \notin Deletion \cup {"idle"} /\ pc' \notin Deletion
    BY <1>5 DEF waitForProvidersReadyTimesOut, Return, Proceed, ToPhase, transitionToFailed, Deletion
  <2>2. copyFresh' => copyFresh /\ pc' # "idle"
    BY <1>5 DEF waitForProvidersReadyTimesOut, Return, Proceed, ToPhase, transitionToFailed
  <2>4. DOMAIN target' = DOMAIN target
    BY <1>5 DEF waitForProvidersReadyTimesOut, worldVars
  <2>6. pc' # "idle" =>
          \E s \in {copy.status} : \/ Proceed(s, "status") \/ Proceed(s, "savePVC")
                               \/ \E p \in Phases : ToPhase(s, p)
    BY <1>5, Zenon DEF waitForProvidersReadyTimesOut, transitionToFailed, Return, Phases
  <2>7. pc' # "idle" => HasFields(copy)'
    BY <1>0, <2>1, <2>6
  <2> QED
    BY <2>1, <2>2, <2>4, <2>7, HandlerDeals
<1>6. CASE handleSnapshottingPhase
  <2>1. UNCHANGED apiVars /\ pc \notin Deletion \cup {"idle"} /\ pc' \notin Deletion
    BY <1>6 DEF handleSnapshottingPhase, Return, Proceed, ToPhase, transitionToFailed, Deletion
  <2>2. copyFresh' => copyFresh /\ pc' # "idle"
    BY <1>6, Zenon DEF handleSnapshottingPhase, Return, Proceed, ToPhase, transitionToFailed
  <2>4. DOMAIN target' = DOMAIN target
    BY <1>6 DEF handleSnapshottingPhase, worldVars
  <2> DEFINE a == [copy.status EXCEPT !.snapshotID = "user"]
             b == [copy.status EXCEPT !.snapshotID = "own", !.taskRef = "snapshot"]
             c == [copy.status EXCEPT !.snapshotID = "own", !.taskRef = None]
  <2>5. \A s \in {copy.status, a, b, c} : DOMAIN s = DOMAIN copy.status /\ s.phase = copy.status.phase
    <3>1. "phase" \in DOMAIN copy.status
      BY <2>1 DEF JInv, Fields, HasFields
    <3> QED
      BY <3>1, Zenon
  <2>6. pc' # "idle" =>
          \E s \in {copy.status, a, b, c} : \/ Proceed(s, "status") \/ Proceed(s, "savePVC")
                               \/ \E p \in Phases : ToPhase(s, p)
    BY <1>6, Zenon DEF handleSnapshottingPhase, transitionToFailed, Return, Phases
  <2> HIDE DEF a, b, c
  <2>7. pc' # "idle" => HasFields(copy)'
    BY <1>0, <2>1, <2>5, <2>6
  <2> QED
    BY <2>1, <2>2, <2>4, <2>7, HandlerDeals
<1>7. CASE handleExportingPhase
  <2>1. UNCHANGED apiVars /\ pc \notin Deletion \cup {"idle"} /\ pc' \notin Deletion
    BY <1>7 DEF handleExportingPhase, Return, Proceed, ToPhase, transitionToFailed, Deletion
  <2>2. copyFresh' => copyFresh /\ pc' # "idle"
    BY <1>7, Zenon DEF handleExportingPhase, Return, Proceed, ToPhase, transitionToFailed
  <2>4. DOMAIN target' = DOMAIN target
    BY <1>7 DEF handleExportingPhase, worldVars
  <2> DEFINE a == [copy.status EXCEPT !.taskRef = None]
             b == [copy.status EXCEPT !.exportID = TRUE, !.taskRef = "export"]
             c == [copy.status EXCEPT !.exportID = TRUE, !.taskRef = None]
  <2>5. \A s \in {copy.status, a, b, c} : DOMAIN s = DOMAIN copy.status /\ s.phase = copy.status.phase
    <3>1. "phase" \in DOMAIN copy.status
      BY <2>1 DEF JInv, Fields, HasFields
    <3> QED
      BY <3>1, Zenon
  <2>6. pc' # "idle" =>
          \E s \in {copy.status, a, b, c} : \/ Proceed(s, "status") \/ Proceed(s, "savePVC")
                               \/ \E p \in Phases : ToPhase(s, p)
    BY <1>7, Zenon DEF handleExportingPhase, transitionToFailed, Return, Phases
  <2> HIDE DEF a, b, c
  <2>7. pc' # "idle" => HasFields(copy)'
    BY <1>0, <2>1, <2>5, <2>6
  <2> QED
    BY <2>1, <2>2, <2>4, <2>7, HandlerDeals
<1>8. CASE handleImportingPhase
  <2>1. UNCHANGED apiVars /\ pc \notin Deletion \cup {"idle"} /\ pc' \notin Deletion
    BY <1>8 DEF handleImportingPhase, Return, Proceed, ToPhase, transitionToFailed, Deletion
  <2>2. copyFresh' => copyFresh /\ pc' # "idle"
    BY <1>8, Zenon DEF handleImportingPhase, Return, Proceed, ToPhase, transitionToFailed
  <2>4. DOMAIN target' = DOMAIN target
    BY <1>8 DEF handleImportingPhase, worldVars
  <2> DEFINE a == [copy.status EXCEPT !.taskRef = None]
             b == [copy.status EXCEPT !.importID = TRUE, !.taskRef = "import"]
             c == [copy.status EXCEPT !.importID = TRUE, !.taskRef = None]
  <2>5. \A s \in {copy.status, a, b, c} : DOMAIN s = DOMAIN copy.status /\ s.phase = copy.status.phase
    <3>1. "phase" \in DOMAIN copy.status
      BY <2>1 DEF JInv, Fields, HasFields
    <3> QED
      BY <3>1, Zenon
  <2>6. pc' # "idle" =>
          \E s \in {copy.status, a, b, c} : \/ Proceed(s, "status") \/ Proceed(s, "savePVC")
                               \/ \E p \in Phases : ToPhase(s, p)
    BY <1>8, Zenon DEF handleImportingPhase, transitionToFailed, Return, Phases
  <2> HIDE DEF a, b, c
  <2>7. pc' # "idle" => HasFields(copy)'
    BY <1>0, <2>1, <2>5, <2>6
  <2> QED
    BY <2>1, <2>2, <2>4, <2>7, HandlerDeals
<1>9. CASE handleCreatingPhase
  <2>1. UNCHANGED apiVars /\ pc \notin Deletion \cup {"idle"} /\ pc' \notin Deletion
    BY <1>9 DEF handleCreatingPhase, Return, Proceed, ToPhase, transitionToFailed, Deletion
  <2>2. copyFresh' => copyFresh /\ pc' # "idle"
    BY <1>9, Zenon DEF handleCreatingPhase, Return, Proceed, ToPhase, transitionToFailed
  <2>3. target' = target \/ target' = [NoTarget EXCEPT !.state = "there", !.own = TRUE, !.disk = disk]
    BY <1>9 DEF handleCreatingPhase
  <2>4. DOMAIN target' = DOMAIN target
    BY <2>3, Zenon DEF NoTarget, JInv, Fields
  <2>6. pc' # "idle" =>
          \E s \in {copy.status} : \/ Proceed(s, "status") \/ Proceed(s, "savePVC")
                               \/ \E p \in Phases : ToPhase(s, p)
    BY <1>9, Zenon DEF handleCreatingPhase, transitionToFailed, Return, Phases
  <2>7. pc' # "idle" => HasFields(copy)'
    BY <1>0, <2>1, <2>6
  <2> QED
    BY <2>1, <2>2, <2>4, <2>7, HandlerDeals
<1>10. CASE handleValidatingTargetPhase
  <2>1. UNCHANGED apiVars /\ pc \notin Deletion \cup {"idle"} /\ pc' \notin Deletion
    BY <1>10 DEF handleValidatingTargetPhase, Return, Proceed, ToPhase, transitionToFailed, Deletion
  <2>2. copyFresh' => copyFresh /\ pc' # "idle"
    BY <1>10, Zenon DEF handleValidatingTargetPhase, Return, Proceed, ToPhase, transitionToFailed
  <2>3. target' = target \/ target' = [target EXCEPT !.completed = TRUE]
    BY <1>10 DEF handleValidatingTargetPhase
  <2>4. DOMAIN target' = DOMAIN target
    BY <2>3
  <2>6. pc' # "idle" =>
          \E s \in {copy.status} : \/ Proceed(s, "status") \/ Proceed(s, "savePVC")
                               \/ \E p \in Phases : ToPhase(s, p)
    BY <1>10, Zenon DEF handleValidatingTargetPhase, transitionToFailed, Return, Phases
  <2>7. pc' # "idle" => HasFields(copy)'
    BY <1>0, <2>1, <2>6
  <2> QED
    BY <2>1, <2>2, <2>4, <2>7, HandlerDeals
<1>11. CASE deleteSourceVM
  <2>1. UNCHANGED apiVars /\ pc \notin Deletion \cup {"idle"} /\ pc' \notin Deletion
    BY <1>11 DEF deleteSourceVM, Return, Proceed, ToPhase, transitionToFailed, Deletion
  <2>2. copyFresh' => copyFresh /\ pc' # "idle"
    BY <1>11, Zenon DEF deleteSourceVM, Return, Proceed, ToPhase, transitionToFailed
  <2>4. DOMAIN target' = DOMAIN target
    BY <1>11 DEF deleteSourceVM, worldVars
  <2> DEFINE a == [copy.status EXCEPT !.cleanedUp = TRUE]
  <2>5. \A s \in {copy.status, a} : DOMAIN s = DOMAIN copy.status /\ s.phase = copy.status.phase
    <3>1. "phase" \in DOMAIN copy.status
      BY <2>1 DEF JInv, Fields, HasFields
    <3> QED
      BY <3>1
  <2>6. pc' # "idle" =>
          \E s \in {copy.status, a} : \/ Proceed(s, "status") \/ Proceed(s, "savePVC")
                               \/ \E p \in Phases : ToPhase(s, p)
    BY <1>11, Zenon DEF deleteSourceVM, transitionToFailed, Return, Phases
  <2> HIDE DEF a
  <2>7. pc' # "idle" => HasFields(copy)'
    BY <1>0, <2>1, <2>5, <2>6
  <2> QED
    BY <2>1, <2>2, <2>4, <2>7, HandlerDeals
<1>12. CASE handleFailedPhase
  <2>1. UNCHANGED apiVars /\ pc \notin Deletion \cup {"idle"} /\ pc' \notin Deletion
    BY <1>12 DEF handleFailedPhase, Return, Proceed, ToPhase, transitionToFailed, Deletion
  <2>2. copyFresh' => copyFresh /\ pc' # "idle"
    BY <1>12 DEF handleFailedPhase, Return, Proceed, ToPhase, transitionToFailed
  <2>4. DOMAIN target' = DOMAIN target
    BY <1>12 DEF handleFailedPhase, worldVars
  <2> DEFINE a == [copy.status EXCEPT !.retryCount = @ + 1, !.taskRef = None]
  <2>5. \A s \in {copy.status, a} : DOMAIN s = DOMAIN copy.status /\ s.phase = copy.status.phase
    <3>1. "phase" \in DOMAIN copy.status
      BY <2>1 DEF JInv, Fields, HasFields
    <3> QED
      BY <3>1, Zenon
  <2>6. pc' # "idle" =>
          \E s \in {copy.status, a} : \/ Proceed(s, "status") \/ Proceed(s, "savePVC")
                               \/ \E p \in Phases : ToPhase(s, p)
    BY <1>12, Zenon DEF handleFailedPhase, transitionToFailed, Return, Phases
  <2> HIDE DEF a
  <2>7. pc' # "idle" => HasFields(copy)'
    BY <1>0, <2>1, <2>5, <2>6
  <2> QED
    BY <2>1, <2>2, <2>4, <2>7, HandlerDeals
<1>13. CASE PhaseFails \/ ProviderNotReady
  <2>1. UNCHANGED apiVars /\ pc \notin Deletion \cup {"idle"} /\ pc' \notin Deletion
    BY <1>13 DEF PhaseFails, ProviderNotReady, Return, Proceed, ToPhase, transitionToFailed, Deletion
  <2>2. copyFresh' => copyFresh /\ pc' # "idle"
    BY <1>13 DEF PhaseFails, ProviderNotReady, Return, Proceed, ToPhase, transitionToFailed
  <2>4. DOMAIN target' = DOMAIN target
    BY <1>13 DEF PhaseFails, ProviderNotReady, worldVars
  <2>6. pc' # "idle" =>
          \E s \in {copy.status} : \/ Proceed(s, "status") \/ Proceed(s, "savePVC")
                               \/ \E p \in Phases : ToPhase(s, p)
    BY <1>13, Zenon DEF PhaseFails, ProviderNotReady, transitionToFailed, Return, Phases
  <2>7. pc' # "idle" => HasFields(copy)'
    BY <1>0, <2>1, <2>6
  <2> QED
    BY <2>1, <2>2, <2>4, <2>7, HandlerDeals
<1>14. CASE cleanupIntermediateStorage \/ deleteSourceSnapshot \/ CleanupFails \/ updateStatusFails
  <2>1. UNCHANGED apiVars /\ pc \notin Deletion \cup {"idle"} /\ pc' \notin Deletion
    BY <1>14, Zenon DEF cleanupIntermediateStorage, deleteSourceSnapshot, CleanupFails,
       updateStatusFails, Writing, worldVars, copyVars, Return, Deletion
  <2>2. /\ copyFresh' => copyFresh /\ pc' # "idle"
        /\ DOMAIN target' = DOMAIN target
        /\ pc' # "idle" => copy' = copy
    BY <1>14, Zenon DEF cleanupIntermediateStorage, deleteSourceSnapshot, CleanupFails,
       updateStatusFails, Writing, worldVars, copyVars, Return
  <2>3. pc' # "idle" => HasFields(copy)'
    BY <2>1, <2>2, Zenon DEF JInv, Fields, HasFields
  <2> QED
    BY <2>1, <2>2, <2>3, HandlerDeals
<1> QED
    BY <1>1, <1>2, <1>3, <1>4, <1>5, <1>6, <1>7, <1>8, <1>9, <1>10, <1>11, <1>12, <1>13, <1>14 DEF Handler

(* Reconcile up to its handler.  Only a deletion starts from an old copy of *)
(* an object that is gone.                                                  *)
LEMMA StartDeals == ASSUME JInv, AddFinalizer \/ StartReconcile PROVE JInv'
<1>1. CASE AddFinalizer
  <2>1. /\ migration' = [migration EXCEPT !.finalizer = TRUE]
        /\ cacheFresh' = FALSE /\ cache' = cache /\ cache = migration
        /\ pc = "idle" /\ cache.present
        /\ UNCHANGED <<pc, copy, copyFresh, target, skipped>>
    BY <1>1 DEF AddFinalizer, Write, copyVars, worldVars, JInv, Current
  <2>2. /\ HasFields(migration')
        /\ migration'.present = migration.present /\ migration'.deleting = migration.deleting
        /\ migration'.finalizer /\ migration'.status = migration.status
    BY <2>1 DEF JInv, Fields, HasFields
  <2>3. Fields' /\ Current'
    BY <2>1, <2>2 DEF JInv, Fields, Current, HasFields
  <2>4. Lasting' /\ Dealt'
    BY <2>1, <2>2, Zenon DEF JInv, Lasting, Dealt, Deletion
  <2> QED
    BY <2>3, <2>4 DEF JInv
<1>2. CASE StartReconcile
  <2>1. /\ UNCHANGED <<migration, cache, cacheFresh, target, skipped>>
        /\ cache.present /\ copy' = cache /\ copyFresh' = cacheFresh
        /\ \/ cache.deleting /\ pc' = "delete"
           \/ ~cache.deleting /\ cache.finalizer /\ pc' = cache.status.phase
    BY <1>2, Zenon DEF StartReconcile, ReadCache, apiVars, worldVars
  <2>2. pc' # "idle" /\ pc' # "unfinalize" /\ (pc' \in Deletion => cache.deleting)
    BY <2>1, Zenon DEF JInv, Fields, HasFields, Phases, Deletion
  <2>3. Fields' /\ Current'
    BY <2>1, <2>2, Zenon DEF JInv, Fields, Current, HasFields
  <2>4. Lasting' /\ Dealt'
    BY <2>1, <2>2, Zenon DEF JInv, Lasting, Dealt, Deletion, Unfinished
  <2> QED
    BY <2>3, <2>4 DEF JInv
<1> QED
    BY <1>1, <1>2

(* updateStatus needs an object that is there, and gets another copy only   *)
(* of one.                                                                  *)
LEMMA StatusDeals == ASSUME JInv, updateStatus \/ refreshStatus PROVE JInv'
<1>1. CASE updateStatus
  <2>1. /\ migration' = [migration EXCEPT !.status = copy.status]
        /\ cacheFresh' = FALSE /\ cache' = cache
        /\ pc \in {"status", "savePVC"} /\ migration.present
        /\ \/ pc' = "idle" /\ ~copyFresh'
           \/ pc' = "wait" /\ copy' = copy /\ copyFresh' = copyFresh
        /\ UNCHANGED target
    BY <1>1, Zenon DEF updateStatus, Writing, Write, Return, copyVars, worldVars
  <2>2. /\ HasFields(migration')
        /\ migration'.present = migration.present /\ migration'.deleting = migration.deleting
        /\ migration'.finalizer = migration.finalizer
    BY <2>1, Zenon DEF JInv, Fields, HasFields
  <2>3. Fields'
    BY <2>1, <2>2 DEF JInv, Fields, HasFields
  <2>4. Current'
    BY <2>1, <2>2 DEF JInv, Current, Deletion
  <2>5. Lasting' /\ Dealt'
    BY <2>1, <2>2, Zenon DEF JInv, Lasting, Dealt, Deletion
  <2> QED
    BY <2>3, <2>4, <2>5 DEF JInv
<1>2. CASE refreshStatus
  <2>1. /\ UNCHANGED <<migration, cache, cacheFresh, pc, target>>
        /\ copy' = [cache EXCEPT !.status = copy.status]
        /\ pc \in {"status", "savePVC"} /\ cache.present /\ cacheFresh
    BY <1>2 DEF refreshStatus, Writing, apiVars, worldVars
  <2>2. HasFields(copy')
    BY <2>1 DEF JInv, Fields, HasFields
  <2>3. Fields'
    BY <2>1, <2>2 DEF JInv, Fields, HasFields
  <2>4. Current'
    BY <2>1 DEF JInv, Current, Deletion
  <2>5. Lasting' /\ Dealt'
    BY <2>1, Zenon DEF JInv, Lasting, Dealt, Deletion
  <2> QED
    BY <2>3, <2>4, <2>5 DEF JInv
<1> QED
    BY <1>1, <1>2

(* handleDeletion: the target is looked at before the finalizer goes.       *)
LEMMA DeletionDeals ==
    ASSUME JInv, deleteStorage \/ deleteSnapshot \/ deletePartialTarget \/ RemoveFinalizer
    PROVE  JInv'
<1>1. CASE deleteStorage \/ deleteSnapshot
  <2>1. /\ UNCHANGED <<migration, cache, cacheFresh, copy, copyFresh, target, skipped>>
        /\ pc \in {"delete", "deleteSnapshot"} /\ pc' \in {"deleteSnapshot", "deleteTarget"}
    BY <1>1, Zenon DEF deleteStorage, deleteSnapshot, apiVars, copyVars
  <2> QED
    BY <2>1, Zenon DEF JInv, Fields, HasFields, Current, Lasting, Dealt, Deletion, Unfinished
<1>2. CASE deletePartialTarget
  <2>1. /\ UNCHANGED <<migration, cache, cacheFresh, copy, copyFresh>>
        /\ pc = "deleteTarget" /\ pc' = "unfinalize"
    BY <1>2 DEF deletePartialTarget, apiVars, copyVars
  <2>2. \/ PartialTarget /\ target' = [target EXCEPT !.state = "deleted"] /\ skipped' = skipped
        \/ ~PartialTarget /\ target' = target /\ skipped' = skipped
        \/ target' = target /\ skipped'
    BY <1>2 DEF deletePartialTarget
  <2>3. DOMAIN target' = DOMAIN target
    BY <2>2
  <2>4. Fields' /\ Current' /\ Lasting'
    BY <2>1, <2>3, Zenon DEF JInv, Fields, HasFields, Current, Lasting, Deletion
  <2>5. /\ Unfinished' => Unfinished \/ skipped'
        /\ skipped => skipped'
        /\ copy.status.phase \in {"Failed", "Creating"} => (Unfinished' => skipped')
    BY <2>2 DEF PartialTarget, Unfinished, JInv, Fields
  <2>6. Dealt'
    BY <2>1, <2>5, Zenon DEF JInv, Dealt, Deletion
  <2> QED
    BY <2>4, <2>6 DEF JInv
<1>3. CASE RemoveFinalizer
  <2>1. /\ pc = "unfinalize" /\ pc' = "idle" /\ ~copyFresh'
        /\ UNCHANGED <<cache, target, skipped>>
    BY <1>3 DEF RemoveFinalizer, Write, Return, apiVars, worldVars
  <2>2. CASE ~copyFresh
    <3>1. UNCHANGED <<migration, cacheFresh>>
      BY <1>3, <2>2 DEF RemoveFinalizer, apiVars
    <3> QED
      BY <2>1, <3>1, Zenon DEF JInv, Fields, HasFields, Current, Lasting, Dealt, Deletion, Unfinished
  <2>3. CASE copyFresh
    <3>1. /\ migration' = [migration EXCEPT !.present = FALSE, !.finalizer = FALSE]
          /\ cacheFresh' = FALSE
      BY <1>3, <2>3 DEF RemoveFinalizer, Write
    <3>2. /\ HasFields(migration') /\ ~migration'.present
          /\ migration'.deleting = migration.deleting /\ migration'.status = migration.status
      BY <3>1 DEF JInv, Fields, HasFields
    <3>3. copy.status.phase = migration.status.phase /\ cache.deleting
      BY <2>1, <2>3, Zenon DEF JInv, Current, Lasting, Deletion
    <3>4. Fields' /\ Current' /\ Lasting'
      BY <2>1, <3>1, <3>2, Zenon DEF JInv, Fields, HasFields, Current, Lasting, Deletion
    <3>5. Dealt'
      BY <2>1, <3>2, <3>3, Zenon DEF JInv, Dealt, Deletion, Unfinished
    <3> QED
      BY <3>4, <3>5 DEF JInv
  <2> QED
    BY <2>2, <2>3
<1> QED
    BY <1>1, <1>2, <1>3

(* A restart, the cluster and the user: none of them makes a target.        *)
LEMMA ClusterDeals ==
    ASSUME JInv, Crash \/ Cluster \/ User \/ \E o \in Operations : TaskFails(o)
    PROVE  JInv'
<1>1. CASE Crash \/ InformerSync
  <2>1. /\ migration' = migration /\ cache' = migration /\ UNCHANGED <<target, skipped>>
        /\ \/ pc' = "idle" /\ ~copyFresh'
           \/ UNCHANGED <<pc, copy, copyFresh>>
    BY <1>1 DEF Crash, InformerSync, Return, copyVars, worldVars
  <2>2. Fields'
    BY <2>1 DEF JInv, Fields, HasFields
  <2>3. Current'
    <3>1. CASE pc' = "idle" /\ ~copyFresh'
      BY <2>1, <3>1 DEF Current, Deletion
    <3>2. CASE UNCHANGED <<pc, copy, copyFresh>>
      BY <2>1, <3>2 DEF JInv, Current
    <3> QED
      BY <2>1, <3>1, <3>2
  <2>4. Lasting'
    BY <2>1, Zenon DEF JInv, Lasting, Deletion
  <2>5. Dealt'
    BY <2>1, Zenon DEF JInv, Dealt, Deletion, Unfinished
  <2> QED
    BY <2>2, <2>3, <2>4, <2>5 DEF JInv
<1>2. CASE RequestDeletion
  <2>1. /\ migration' = [migration EXCEPT !.deleting = TRUE, !.present = migration.finalizer]
        /\ cacheFresh' = FALSE /\ ~copyFresh' /\ migration.present
        /\ UNCHANGED <<cache, pc, copy, target, skipped>>
    BY <1>2 DEF RequestDeletion, Write, worldVars
  <2>2. /\ HasFields(migration') /\ migration'.deleting
        /\ migration'.present = migration.finalizer /\ migration'.finalizer = migration.finalizer
        /\ migration'.status = migration.status
    BY <2>1 DEF JInv, Fields, HasFields
  <2>3. Fields' /\ Current'
    BY <2>1, <2>2 DEF JInv, Fields, HasFields, Current
  <2>4. Lasting'
    BY <2>1, <2>2, Zenon DEF JInv, Lasting
  <2>5. ~migration'.present => migration'.status.phase = ""
    BY <2>1, <2>2, Zenon DEF JInv, Lasting
  <2>6. Dealt'
    BY <2>1, <2>2, <2>5, Zenon DEF JInv, Dealt, Unfinished
  <2> QED
    BY <2>3, <2>4, <2>6 DEF JInv
<1>3. CASE \/ ClaimCollected \/ SourceProvisioned \/ SourceRemoved \/ TargetProvisioned \/ TargetRemoved
           \/ \E p \in Providers : PodsRestart(p)
           \/ \E o \in Operations : TaskSucceeds(o) \/ TaskFails(o)
  <2>1. UNCHANGED <<migration, cache, cacheFresh, pc, copy, copyFresh, skipped>>
    BY <1>3, Zenon DEF ClaimCollected, SourceProvisioned, SourceRemoved, TargetProvisioned, TargetRemoved,
       PodsRestart, TaskSucceeds, TaskFails, apiVars, copyVars
  <2>2. \/ target' = target \/ target' = [target EXCEPT !.ready = TRUE]
        \/ target' = [target EXCEPT !.state = "removed"]
    BY <1>3 DEF ClaimCollected, SourceProvisioned, SourceRemoved, TargetProvisioned, TargetRemoved,
       PodsRestart, TaskSucceeds, TaskFails
  <2>3. DOMAIN target' = DOMAIN target /\ (Unfinished' => Unfinished)
    BY <2>2 DEF JInv, Fields, Unfinished
  <2>4. Fields' /\ Current' /\ Lasting'
    BY <2>1, <2>3, Zenon DEF JInv, Fields, HasFields, Current, Lasting
  <2>5. Dealt'
    BY <2>1, <2>3, Zenon DEF JInv, Dealt
  <2> QED
    BY <2>4, <2>5 DEF JInv
<1> QED
    BY <1>1, <1>2, <1>3 DEF Cluster, User

(* The invariant holds at the start, ...                                    *)
LEMMA InitJInv == Init => JInv
<1> SUFFICES ASSUME Init PROVE JInv
    OBVIOUS
<1>1. HasFields(migration) /\ cache = migration /\ pc = "idle" /\ copyFresh = FALSE
    BY Zenon DEF Init, HasFields, Phases
<1>2. DOMAIN target = {"state", "own", "ready", "completed", "disk"}
    BY Zenon DEF Init, NoTarget
<1>3. Fields /\ Current
    BY <1>1, <1>2 DEF Fields, Current
<1>4. Lasting /\ Dealt
    BY <1>1, Zenon DEF Init, Lasting, Dealt, Deletion
<1> QED
    BY <1>3, <1>4 DEF JInv

(* ... and every step keeps it.                                             *)
LEMMA NextJInv == JInv /\ [Next]_vars => JInv'
<1> SUFFICES ASSUME JInv, [Next]_vars PROVE JInv'
    OBVIOUS
<1>1. CASE UNCHANGED vars
    BY ZenonT(60), <1>1 DEF vars, JInv, Fields, HasFields, Current, Lasting, Dealt, Unfinished
<1> QED
    BY <1>1, HandlersDeal, StartDeals, StatusDeals, DeletionDeals, ClusterDeals
       DEF Next, Reconcile, Faults, Handler

(* handleDeletion lets the object of a Failed or Creating migration go only *)
(* after its unfinished target VM, or after it failed to delete that: for   *)
(* any settings, any tasks, and any number of stale passes, lost calls and  *)
(* crashes.                                                                 *)
THEOREM NoTargetLeftBehind == Spec => []PartialTargetDeleted
<1>1. JInv => PartialTargetDeleted
    BY Zenon DEF JInv, Dealt, Unfinished, PartialTargetDeleted
<1> QED
    BY <1>1, InitJInv, NextJInv, PTL DEF Spec
=============================================================================
