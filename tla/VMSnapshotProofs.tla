------------------------- MODULE VMSnapshotProofs ---------------------------
(***************************************************************************)
(* VerdictIsFinal and RecordedIsDeleted for any provider, any snapshot ids  *)
(* and any number of lost calls, stale passes and crashes.                  *)
(***************************************************************************)
EXTENDS VMSnapshot, TLAPS

(* The objects and what the hypervisor holds have their types.              *)
Typed ==
    /\ snapshot \in VMSnapshots /\ cache \in VMSnapshots
    /\ pc # "idle" => copy \in VMSnapshots
    /\ held \in [SnapIds -> {"unused", "pending", "there", "deleting", "deleted"}]

Deletion == {"delete", "providerDelete", "unfinalize"}
Creation == {"create", "check", "retention", "status"}

(* A copy that is current is the object, until the pass has an outcome of   *)
(* its own to write, which it only has for an undecided snapshot.           *)
Current ==
    /\ cacheFresh => cache = snapshot
    /\ copyFresh => pc # "idle" /\ snapshot.present
    /\ copyFresh /\ pc # "status" => copy.id = snapshot.id /\ copy.phase = snapshot.phase
    /\ copyFresh /\ pc = "status" => snapshot.phase \in {"", "Creating"}
    /\ pc = "create" => copy.phase = ""
    /\ pc = "check" => copy.phase = "Creating"

(* Deletion timestamps and finalizers do not go away again, so old copies   *)
(* tell of them what was and still is so.                                   *)
Lasting ==
    /\ cache.deleting => snapshot.deleting
    /\ cache.finalizer => snapshot.finalizer
    /\ pc \in Deletion => copy.deleting /\ cache.deleting /\ snapshot.deleting
    /\ pc \in Creation => copy.finalizer /\ snapshot.finalizer
    /\ snapshot.id # None => snapshot.finalizer

(* Nothing is recorded before the machine is there.                         *)
Unrecorded ==
    vm = "provisioning" =>
        /\ snapshot.id = None /\ cache.id = None
        /\ pc \in Deletion \cup {"idle"}
        /\ pc # "idle" => copy.id = None

(* What SnapshotDelete has taken away stays away, unless its task fails: a  *)
(* pass about to drop the finalizer has asked for it, and later ones are    *)
(* deletions as well.                                                       *)
Deleted(s) == s \notin refused /\ vm = "provisioned" => held[s] \in {"deleting", "deleted"}
Asked ==
    /\ pc = "unfinalize" /\ copy.id # None => Deleted(copy.id)
    /\ ~snapshot.present /\ snapshot.id # None =>
          /\ cache.present => cache.deleting
          /\ pc \in Deletion \cup {"idle"}
          /\ Deleted(snapshot.id)

IInv == Typed /\ Current /\ Lasting /\ Unrecorded /\ Asked

(* The finalizer is added to what the cache shows, between passes.          *)
LEMMA AddFinalizerKeeps ==
    IInv /\ AddFinalizer /\ UNCHANGED givenVars => IInv'
<1> SUFFICES ASSUME IInv, AddFinalizer, UNCHANGED givenVars PROVE IInv'
    OBVIOUS
<1> USE DEF IInv, AddFinalizer, Write, givenVars, apiVars, copyVars, providerVars
<1>1. Typed'
    BY Zenon DEF Typed, VMSnapshots, Phases
<1>2. Current'
    BY Zenon DEF Typed, Current, VMSnapshots, Phases
<1>3. Lasting'
    BY DEF Typed, Current, Lasting, VMSnapshots, Deletion, Creation
<1>4. Unrecorded'
    BY DEF Typed, Current, Lasting, Unrecorded, VMSnapshots, Deletion, Creation
<1>5. Asked'
    BY DEF Typed, Current, Lasting, Unrecorded, Asked, Deleted, VMSnapshots, Deletion, Creation
<1> QED
    BY <1>1, <1>2, <1>3, <1>4, <1>5 DEF IInv

(* Waiting for the VM leaves the object as it is, with a new version.       *)
LEMMA WaitForVMKeeps ==
    IInv /\ WaitForVM /\ UNCHANGED givenVars => IInv'
<1> SUFFICES ASSUME IInv, WaitForVM, UNCHANGED givenVars PROVE IInv'
    OBVIOUS
<1> USE DEF IInv, WaitForVM, givenVars, apiVars, copyVars, providerVars
<1>1. Typed'
    BY DEF Typed
<1>2. Current'
    BY Zenon DEF Typed, Current, VMSnapshots, Phases
<1>3. Lasting'
    BY DEF Typed, Current, Lasting, VMSnapshots, Deletion, Creation
<1>4. Unrecorded'
    BY DEF Typed, Current, Lasting, Unrecorded, VMSnapshots, Deletion, Creation
<1>5. Asked'
    BY DEF Typed, Current, Lasting, Unrecorded, Asked, Deleted, VMSnapshots, Deletion, Creation
<1> QED
    BY <1>1, <1>2, <1>3, <1>4, <1>5 DEF IInv

(* A pass starts with the cache, current if the cache was.                  *)
LEMMA StartReconcileKeeps ==
    IInv /\ StartReconcile /\ UNCHANGED givenVars => IInv'
<1> SUFFICES ASSUME IInv, StartReconcile, UNCHANGED givenVars PROVE IInv'
    OBVIOUS
<1> USE DEF IInv, StartReconcile, ReadCache, Lose, givenVars, apiVars, copyVars, providerVars
<1>1. Typed'
    BY Zenon DEF Typed
<1>2. Current'
    BY Zenon DEF Typed, Current, VMSnapshots, Phases
<1>3. Lasting'
    BY Zenon DEF Typed, Current, Lasting, VMSnapshots, Deletion, Creation
<1>4. Unrecorded'
    BY DEF Typed, Current, Lasting, Unrecorded, VMSnapshots, Deletion, Creation
<1>5. Asked'
    BY Zenon DEF Typed, Current, Lasting, Unrecorded, Asked, Deleted, VMSnapshots, Deletion, Creation
<1> QED
    BY <1>1, <1>2, <1>3, <1>4, <1>5, Zenon DEF IInv

(* createSnapshot has an undecided copy and changes only that copy.         *)
LEMMA CreateSnapshotKeeps ==
    IInv /\ createSnapshot /\ UNCHANGED givenVars => IInv'
<1> SUFFICES ASSUME IInv, createSnapshot, UNCHANGED givenVars PROVE IInv'
    OBVIOUS
<1> USE DEF IInv, createSnapshot, SnapshotCreate, SnapshotCreateRefused, givenVars, apiVars, copyVars, providerVars
<1>1. Typed'
  <2>1. snapshot' \in VMSnapshots /\ cache' \in VMSnapshots
    BY Zenon DEF Typed
  <2>2. copy' \in VMSnapshots
    <3>1. copy \in VMSnapshots
      BY ZenonT(30) DEF Typed
    <3> DEFINE Made(s, p, r) == [copy EXCEPT !.id = s, !.created = TRUE, !.phase = p, !.taskRef = r]
               Refused == [copy EXCEPT !.phase = "Failed"]
    <3>2. \/ \E s \in SnapIds, p \in {"Creating", "Ready"}, r \in SnapIds \cup {None} :
             copy' = Made(s, p, r)
          \/ copy' = Refused
      BY Zenon
    <3> HIDE DEF IInv, createSnapshot, SnapshotCreate, SnapshotCreateRefused
    <3>3. Refused \in VMSnapshots
      BY <3>1, Zenon DEF VMSnapshots, Phases
    <3>4. ASSUME NEW s \in SnapIds, NEW p \in Phases, NEW r \in SnapIds \cup {None}
          PROVE  Made(s, p, r) \in VMSnapshots
      BY <3>1, Zenon DEF VMSnapshots
    <3>5. {"Creating", "Ready"} \subseteq Phases
      BY DEF Phases
    <3> HIDE DEF Made, Refused
    <3> QED
      BY <3>2, <3>3, <3>4, <3>5
  <2>3. held' \in [SnapIds -> {"unused", "pending", "there", "deleting", "deleted"}]
    BY ZenonT(60) DEF Typed
  <2> QED
    BY <2>1, <2>2, <2>3, ZenonT(30) DEF Typed
<1>2. Current'
    BY ZenonT(30) DEF Typed, Current, VMSnapshots, Phases
<1>3. Lasting'
  <2>1. copy'.finalizer = copy.finalizer /\ pc' = "status"
    BY ZenonT(30) DEF Typed, VMSnapshots
  <2> QED
    BY <2>1, ZenonT(30) DEF Lasting, Deletion, Creation
<1>4. Unrecorded'
    BY ZenonT(30) DEF Typed, Current, Lasting, Unrecorded, VMSnapshots, Deletion, Creation
<1>5. Asked'
    BY Zenon DEF Typed, Current, Lasting, Unrecorded, Asked, Deleted, VMSnapshots, Deletion, Creation
<1> QED
    BY <1>1, <1>2, <1>3, <1>4, <1>5, ZenonT(30) DEF IInv

(* So does a creation whose call is lost.                                   *)
LEMMA CreateSnapshotFailsKeeps ==
    IInv /\ createSnapshotFails /\ UNCHANGED givenVars => IInv'
<1> SUFFICES ASSUME IInv, createSnapshotFails, UNCHANGED givenVars PROVE IInv'
    OBVIOUS
<1> USE DEF IInv, createSnapshotFails, SnapshotCreate, Lose, givenVars, apiVars, copyVars, providerVars
<1>1. Typed'
  <2>1. snapshot' \in VMSnapshots /\ cache' \in VMSnapshots
    BY DEF Typed
  <2>2. pc' # "idle" => copy' \in VMSnapshots
    BY ZenonT(60) DEF Typed, VMSnapshots, Phases
  <2>3. held' \in [SnapIds -> {"unused", "pending", "there", "deleting", "deleted"}]
    BY DEF Typed
  <2> QED
    BY <2>1, <2>2, <2>3 DEF Typed
<1>2. Current'
    BY Zenon DEF Typed, Current, VMSnapshots, Phases
<1>3. Lasting'
    BY Zenon DEF Typed, Current, Lasting, VMSnapshots, Deletion, Creation
<1>4. Unrecorded'
    BY Zenon DEF Typed, Current, Lasting, Unrecorded, VMSnapshots, Deletion, Creation
<1>5. Asked'
    BY Zenon DEF Typed, Current, Lasting, Unrecorded, Asked, Deleted, VMSnapshots, Deletion, Creation
<1> QED
    BY <1>1, <1>2, <1>3, <1>4, <1>5 DEF IInv

(* checkSnapshotCreation has a copy that says Creating.                     *)
LEMMA CheckSnapshotCreationKeeps ==
    IInv /\ checkSnapshotCreation /\ UNCHANGED givenVars => IInv'
<1> SUFFICES ASSUME IInv, checkSnapshotCreation, UNCHANGED givenVars PROVE IInv'
    OBVIOUS
<1> USE DEF IInv, checkSnapshotCreation, Return, givenVars, apiVars, copyVars, providerVars
<1>1. Typed'
  <2>1. snapshot' \in VMSnapshots /\ cache' \in VMSnapshots
    BY DEF Typed
  <2>2. pc' # "idle" => copy' \in VMSnapshots
    BY ZenonT(60) DEF Typed, VMSnapshots, Phases
  <2>3. held' \in [SnapIds -> {"unused", "pending", "there", "deleting", "deleted"}]
    BY DEF Typed
  <2> QED
    BY <2>1, <2>2, <2>3 DEF Typed
<1>2. Current'
  <2>1. (pc' = "status" /\ (copyFresh' => copyFresh)) \/ (pc' = "idle" /\ copyFresh' = FALSE)
    OBVIOUS
  <2>2. copyFresh => snapshot.present /\ snapshot.phase = "Creating"
    BY DEF Current
  <2>3. pc # "status" /\ UNCHANGED apiVars
    OBVIOUS
  <2>4. CASE pc' = "status" /\ (copyFresh' => copyFresh)
    <3>1. cacheFresh => cache = snapshot
      BY DEF Current
    <3> HIDE DEF IInv, checkSnapshotCreation, Return
    <3> QED
      BY <2>2, <2>3, <2>4, <3>1, Zenon DEF Current
  <2>5. CASE pc' = "idle" /\ copyFresh' = FALSE
    BY <2>3, <2>5 DEF Current
  <2> QED
    BY <2>1, <2>4, <2>5, Zenon
<1>3. Lasting'
    BY ZenonT(60) DEF Typed, Current, Lasting, VMSnapshots, Deletion, Creation
<1>4. Unrecorded'
    BY DEF Typed, Current, Lasting, Unrecorded, VMSnapshots, Deletion, Creation
<1>5. Asked'
    BY DEF Typed, Current, Lasting, Unrecorded, Asked, Deleted, VMSnapshots, Deletion, Creation
<1> QED
    BY <1>1, <1>2, <1>3, <1>4, <1>5 DEF IInv

(* So does a check whose call is lost.                                      *)
LEMMA CheckSnapshotCreationFailsKeeps ==
    IInv /\ checkSnapshotCreationFails /\ UNCHANGED givenVars => IInv'
<1> SUFFICES ASSUME IInv, checkSnapshotCreationFails, UNCHANGED givenVars PROVE IInv'
    OBVIOUS
<1> USE DEF IInv, checkSnapshotCreationFails, Return, Lose, givenVars, apiVars, copyVars, providerVars
<1>1. Typed'
  <2>1. snapshot' \in VMSnapshots /\ cache' \in VMSnapshots
    BY DEF Typed
  <2>2. pc' # "idle" => copy' \in VMSnapshots
    BY Zenon DEF Typed, VMSnapshots, Phases
  <2>3. held' \in [SnapIds -> {"unused", "pending", "there", "deleting", "deleted"}]
    BY DEF Typed
  <2> QED
    BY <2>1, <2>2, <2>3 DEF Typed
<1>2. Current'
  <2>1. (pc' = "status" /\ (copyFresh' => copyFresh)) \/ (pc' = "idle" /\ copyFresh' = FALSE)
    OBVIOUS
  <2>2. copyFresh => snapshot.present /\ snapshot.phase = "Creating"
    BY DEF Current
  <2>3. pc # "status" /\ UNCHANGED apiVars
    OBVIOUS
  <2>4. CASE pc' = "status" /\ (copyFresh' => copyFresh)
    <3>1. cacheFresh => cache = snapshot
      BY DEF Current
    <3> HIDE DEF IInv, checkSnapshotCreationFails, Return
    <3> QED
      BY <2>2, <2>3, <2>4, <3>1, Zenon DEF Current
  <2>5. CASE pc' = "idle" /\ copyFresh' = FALSE
    BY <2>3, <2>5 DEF Current
  <2> QED
    BY <2>1, <2>4, <2>5, Zenon
<1>3. Lasting'
    BY Zenon DEF Typed, Current, Lasting, VMSnapshots, Deletion, Creation
<1>4. Unrecorded'
    BY DEF Typed, Current, Lasting, Unrecorded, VMSnapshots, Deletion, Creation
<1>5. Asked'
    BY DEF Typed, Current, Lasting, Unrecorded, Asked, Deleted, VMSnapshots, Deletion, Creation
<1> QED
    BY <1>1, <1>2, <1>3, <1>4, <1>5 DEF IInv

(* handleRetention only sets the deletion timestamp, and ends the pass.     *)
LEMMA HandleRetentionKeeps ==
    IInv /\ handleRetention /\ UNCHANGED givenVars => IInv'
<1> SUFFICES ASSUME IInv, handleRetention, UNCHANGED givenVars PROVE IInv'
    OBVIOUS
<1> USE DEF IInv, handleRetention, Return, Write, givenVars, apiVars, copyVars, providerVars
<1>1. Typed'
    BY ZenonT(60) DEF Typed, VMSnapshots, Phases
<1>2. Current'
    BY Zenon DEF Typed, Current, VMSnapshots, Phases
<1>3. Lasting'
    BY DEF Typed, Current, Lasting, VMSnapshots, Deletion, Creation
<1>4. Unrecorded'
    BY DEF Typed, Current, Lasting, Unrecorded, VMSnapshots, Deletion, Creation
<1>5. Asked'
    BY DEF Typed, Current, Lasting, Unrecorded, Asked, Deleted, VMSnapshots, Deletion, Creation
<1> QED
    BY <1>1, <1>2, <1>3, <1>4, <1>5 DEF IInv

(* A status write needs a current copy, and the finalizer is then there.    *)
LEMMA UpdateStatusKeeps ==
    IInv /\ updateStatus /\ UNCHANGED givenVars => IInv'
<1> SUFFICES ASSUME IInv, updateStatus, UNCHANGED givenVars PROVE IInv'
    OBVIOUS
<1> USE DEF IInv, updateStatus, Return, Write, WithStatus, givenVars, apiVars, copyVars, providerVars
<1>1. Typed'
    BY ZenonT(60) DEF Typed, VMSnapshots, Phases
<1>2. Current'
    BY Zenon DEF Typed, Current, VMSnapshots, Phases
<1>3. Lasting'
  <2>1. snapshot'.deleting = snapshot.deleting /\ snapshot'.finalizer = snapshot.finalizer
    BY Zenon DEF Typed, VMSnapshots
  <2>2. snapshot.finalizer
    BY DEF Lasting, Creation
  <2> QED
    BY <2>1, <2>2 DEF Lasting, Deletion, Creation
<1>4. Unrecorded'
    BY Zenon DEF Typed, Current, Lasting, Unrecorded, VMSnapshots, Deletion, Creation
<1>5. Asked'
    BY ZenonT(60) DEF Typed, Current, Lasting, Unrecorded, Asked, Deleted, VMSnapshots, Deletion, Creation
<1> QED
    BY <1>1, <1>2, <1>3, <1>4, <1>5 DEF IInv

(* A failed status write ends the pass.                                     *)
LEMMA UpdateStatusFailsKeeps ==
    IInv /\ updateStatusFails /\ UNCHANGED givenVars => IInv'
<1> SUFFICES ASSUME IInv, updateStatusFails, UNCHANGED givenVars PROVE IInv'
    OBVIOUS
<1> USE DEF IInv, updateStatusFails, Return, Lose, givenVars, apiVars, copyVars, providerVars
<1>1. Typed'
    BY DEF Typed
<1>2. Current'
    BY Zenon DEF Typed, Current, VMSnapshots, Phases
<1>3. Lasting'
    BY Zenon DEF Typed, Current, Lasting, VMSnapshots, Deletion, Creation
<1>4. Unrecorded'
    BY Zenon DEF Typed, Current, Lasting, Unrecorded, VMSnapshots, Deletion, Creation
<1>5. Asked'
    BY Zenon DEF Typed, Current, Lasting, Unrecorded, Asked, Deleted, VMSnapshots, Deletion, Creation
<1> QED
    BY <1>1, <1>2, <1>3, <1>4, <1>5 DEF IInv

(* Deleting is written with the id the object has.                          *)
LEMMA MarkDeletingKeeps ==
    IInv /\ MarkDeleting /\ UNCHANGED givenVars => IInv'
<1> SUFFICES ASSUME IInv, MarkDeleting, UNCHANGED givenVars PROVE IInv'
    OBVIOUS
<1> USE DEF IInv, MarkDeleting, Write, WithStatus, givenVars, apiVars, copyVars, providerVars
<1>1. Typed'
    BY ZenonT(60) DEF Typed, VMSnapshots, Phases
<1>2. Current'
  <2>1. copy'.id = copy.id /\ copy'.phase = "Deleting"
    BY DEF Typed, VMSnapshots
  <2>2. CASE copyFresh
    <3>1. /\ snapshot'.present = snapshot.present
          /\ snapshot'.id = copy.id /\ snapshot'.phase = "Deleting"
      BY <2>1, <2>2, Zenon DEF Typed, VMSnapshots
    <3> QED
      BY <2>1, <2>2, <3>1 DEF Current
  <2>3. CASE ~copyFresh
    BY <2>3 DEF Current
  <2> QED
    BY <2>2, <2>3
<1>3. Lasting'
  <2>1. copy'.deleting = copy.deleting /\ copy'.id = copy.id
    BY DEF Typed, VMSnapshots
  <2>2. /\ snapshot'.deleting = snapshot.deleting
        /\ snapshot'.finalizer = snapshot.finalizer
        /\ snapshot'.id = snapshot.id
    <3>1. CASE copyFresh
      BY <2>1, <3>1, Zenon DEF Typed, Current, VMSnapshots
    <3>2. CASE ~copyFresh
      BY <3>2
    <3> QED
      BY <3>1, <3>2
  <2> QED
    BY <2>1, <2>2 DEF Lasting, Deletion, Creation
<1>4. Unrecorded'
    BY Zenon DEF Typed, Current, Lasting, Unrecorded, VMSnapshots, Deletion, Creation
<1>5. Asked'
  <2>1. snapshot'.present = snapshot.present /\ snapshot'.id = snapshot.id
    <3>1. CASE copyFresh
      BY ZenonT(60), <3>1 DEF Typed, Current, VMSnapshots
    <3>2. CASE ~copyFresh
      BY <3>2
    <3> QED
      BY <3>1, <3>2
  <2> QED
    BY <2>1 DEF Asked, Deleted, Deletion
<1> QED
    BY <1>1, <1>2, <1>3, <1>4, <1>5 DEF IInv

(* handleDeletion asks for the deletion of the recorded snapshot.           *)
LEMMA HandleDeletionKeeps ==
    IInv /\ handleDeletion /\ UNCHANGED givenVars => IInv'
<1> SUFFICES ASSUME IInv, handleDeletion, UNCHANGED givenVars PROVE IInv'
    OBVIOUS
<1> USE DEF IInv, handleDeletion, SnapshotDelete, givenVars, apiVars, copyVars, providerVars
<1>1. Typed'
    BY DEF Typed
<1>2. Current'
    BY Zenon DEF Typed, Current, VMSnapshots, Phases
<1>3. Lasting'
    BY DEF Typed, Current, Lasting, VMSnapshots, Deletion, Creation
<1>4. Unrecorded'
    BY DEF Typed, Current, Lasting, Unrecorded, VMSnapshots, Deletion, Creation
<1>5. Asked'
    BY DEF Typed, Current, Lasting, Unrecorded, Asked, Deleted, VMSnapshots, Deletion, Creation
<1> QED
    BY <1>1, <1>2, <1>3, <1>4, <1>5 DEF IInv

(* A call that is lost counts as an error, or ends the pass.                *)
LEMMA HandleDeletionFailsKeeps ==
    IInv /\ handleDeletionFails /\ UNCHANGED givenVars => IInv'
<1> SUFFICES ASSUME IInv, handleDeletionFails, UNCHANGED givenVars PROVE IInv'
    OBVIOUS
<1> USE DEF IInv, handleDeletionFails, Return, Lose, SnapshotDelete, givenVars, apiVars, copyVars, providerVars
<1>1. Typed'
    BY DEF Typed
<1>2. Current'
  <2>1. (pc' = "unfinalize" /\ UNCHANGED copyVars) \/ (pc' = "idle" /\ copyFresh' = FALSE)
    OBVIOUS
  <2>3. pc # "status" /\ UNCHANGED apiVars
    OBVIOUS
  <2>4. CASE pc' = "unfinalize" /\ UNCHANGED copyVars
    BY <2>3, <2>4 DEF Current
  <2>5. CASE pc' = "idle" /\ copyFresh' = FALSE
    BY <2>3, <2>5 DEF Current
  <2> QED
    BY <2>1, <2>4, <2>5, Zenon
<1>3. Lasting'
    BY DEF Typed, Current, Lasting, VMSnapshots, Deletion, Creation
<1>4. Unrecorded'
    BY DEF Typed, Current, Lasting, Unrecorded, VMSnapshots, Deletion, Creation
<1>5. Asked'
    BY DEF Typed, Current, Lasting, Unrecorded, Asked, Deleted, VMSnapshots, Deletion, Creation
<1> QED
    BY <1>1, <1>2, <1>3, <1>4, <1>5 DEF IInv

(* The object goes only by a current copy, whose snapshot was deleted.      *)
LEMMA RemoveFinalizerKeeps ==
    IInv /\ RemoveFinalizer /\ UNCHANGED givenVars => IInv'
<1> SUFFICES ASSUME IInv, RemoveFinalizer, UNCHANGED givenVars PROVE IInv'
    OBVIOUS
<1> USE DEF IInv, RemoveFinalizer, Return, Write, givenVars, apiVars, copyVars, providerVars
<1>1. Typed'
    BY Zenon DEF Typed, VMSnapshots, Phases
<1>2. Current'
    BY Zenon DEF Typed, Current, VMSnapshots, Phases
<1>3. Lasting'
    BY DEF Typed, Current, Lasting, VMSnapshots, Deletion, Creation
<1>4. Unrecorded'
    BY DEF Typed, Current, Lasting, Unrecorded, VMSnapshots, Deletion, Creation
<1>5. Asked'
    BY DEF Typed, Current, Lasting, Unrecorded, Asked, Deleted, VMSnapshots, Deletion, Creation
<1> QED
    BY <1>1, <1>2, <1>3, <1>4, <1>5 DEF IInv

(* Deleting an object without a finalizer: nothing was recorded in it.      *)
LEMMA RequestDeletionKeeps ==
    IInv /\ RequestDeletion /\ UNCHANGED givenVars => IInv'
<1> SUFFICES ASSUME IInv, RequestDeletion, UNCHANGED givenVars PROVE IInv'
    OBVIOUS
<1> USE DEF IInv, RequestDeletion, Write, givenVars, apiVars, copyVars, providerVars
<1>1. Typed'
  <2>1. snapshot' \in VMSnapshots
    BY Zenon DEF Typed, VMSnapshots
  <2> QED
    BY <2>1 DEF Typed
<1>2. Current'
    BY Zenon DEF Typed, Current, VMSnapshots, Phases
<1>3. Lasting'
    BY Zenon DEF Typed, Current, Lasting, VMSnapshots, Deletion, Creation
<1>4. Unrecorded'
    BY Zenon DEF Typed, Current, Lasting, Unrecorded, VMSnapshots, Deletion, Creation
<1>5. Asked'
    BY Zenon DEF Typed, Current, Lasting, Unrecorded, Asked, Deleted, VMSnapshots, Deletion, Creation
<1> QED
    BY <1>1, <1>2, <1>3, <1>4, <1>5 DEF IInv

(* The cache catches up.                                                    *)
LEMMA InformerSyncKeeps ==
    IInv /\ InformerSync /\ UNCHANGED givenVars => IInv'
<1> SUFFICES ASSUME IInv, InformerSync, UNCHANGED givenVars PROVE IInv'
    OBVIOUS
<1> USE DEF IInv, InformerSync, givenVars, apiVars, copyVars, providerVars
<1>1. Typed'
    BY DEF Typed
<1>2. Current'
    BY Zenon DEF Typed, Current, VMSnapshots, Phases
<1>3. Lasting'
    BY Zenon DEF Typed, Current, Lasting, VMSnapshots, Deletion, Creation
<1>4. Unrecorded'
    BY Zenon DEF Typed, Current, Lasting, Unrecorded, VMSnapshots, Deletion, Creation
<1>5. Asked'
    BY Zenon DEF Typed, Current, Lasting, Unrecorded, Asked, Deleted, VMSnapshots, Deletion, Creation
<1> QED
    BY <1>1, <1>2, <1>3, <1>4, <1>5 DEF IInv

(* A crash ends the pass, and the new process reads the object.             *)
LEMMA CrashKeeps ==
    IInv /\ Crash /\ UNCHANGED givenVars => IInv'
<1> SUFFICES ASSUME IInv, Crash, UNCHANGED givenVars PROVE IInv'
    OBVIOUS
<1> USE DEF IInv, Crash, Return, Lose, givenVars, apiVars, copyVars, providerVars
<1>1. Typed'
    BY ZenonT(60) DEF Typed, VMSnapshots, Phases
<1>2. Current'
    BY Zenon DEF Typed, Current, VMSnapshots, Phases
<1>3. Lasting'
    BY Zenon DEF Typed, Current, Lasting, VMSnapshots, Deletion, Creation
<1>4. Unrecorded'
    BY Zenon DEF Typed, Current, Lasting, Unrecorded, VMSnapshots, Deletion, Creation
<1>5. Asked'
    BY Zenon DEF Typed, Current, Lasting, Unrecorded, Asked, Deleted, VMSnapshots, Deletion, Creation
<1> QED
    BY <1>1, <1>2, <1>3, <1>4, <1>5 DEF IInv

(* Before the VM is provisioned nothing was recorded.                       *)
LEMMA VMProvisionedKeeps ==
    IInv /\ VMProvisioned /\ UNCHANGED givenVars => IInv'
<1> SUFFICES ASSUME IInv, VMProvisioned, UNCHANGED givenVars PROVE IInv'
    OBVIOUS
<1> USE DEF IInv, VMProvisioned, givenVars, apiVars, copyVars, providerVars
<1>1. Typed'
    BY DEF Typed
<1>2. Current'
    BY Zenon DEF Typed, Current, VMSnapshots, Phases
<1>3. Lasting'
    BY Zenon DEF Typed, Current, Lasting, VMSnapshots, Deletion, Creation
<1>4. Unrecorded'
    BY Zenon DEF Typed, Current, Lasting, Unrecorded, VMSnapshots, Deletion, Creation
<1>5. Asked'
    BY Zenon DEF Typed, Current, Lasting, Unrecorded, Asked, Deleted, VMSnapshots, Deletion, Creation
<1> QED
    BY <1>1, <1>2, <1>3, <1>4, <1>5 DEF IInv

(* The VM and its snapshots go.                                             *)
LEMMA VMDeletedKeeps ==
    IInv /\ VMDeleted /\ UNCHANGED givenVars => IInv'
<1> SUFFICES ASSUME IInv, VMDeleted, UNCHANGED givenVars PROVE IInv'
    OBVIOUS
<1> USE DEF IInv, VMDeleted, givenVars, apiVars, copyVars, providerVars
<1>1. Typed'
    BY DEF Typed
<1>2. Current'
    BY Zenon DEF Typed, Current, VMSnapshots, Phases
<1>3. Lasting'
    BY Zenon DEF Typed, Current, Lasting, VMSnapshots, Deletion, Creation
<1>4. Unrecorded'
    BY Zenon DEF Typed, Current, Lasting, Unrecorded, VMSnapshots, Deletion, Creation
<1>5. Asked'
    BY Zenon DEF Typed, Current, Lasting, Unrecorded, Asked, Deleted, VMSnapshots, Deletion, Creation
<1> QED
    BY <1>1, <1>2, <1>3, <1>4, <1>5 DEF IInv

(* Time passes.                                                             *)
LEMMA MaxAgePassesKeeps ==
    IInv /\ MaxAgePasses /\ UNCHANGED givenVars => IInv'
<1> SUFFICES ASSUME IInv, MaxAgePasses, UNCHANGED givenVars PROVE IInv'
    OBVIOUS
<1> USE DEF IInv, MaxAgePasses, givenVars, apiVars, copyVars, providerVars
<1>1. Typed'
    BY DEF Typed
<1>2. Current'
    BY Zenon DEF Typed, Current, VMSnapshots, Phases
<1>3. Lasting'
    BY Zenon DEF Typed, Current, Lasting, VMSnapshots, Deletion, Creation
<1>4. Unrecorded'
    BY Zenon DEF Typed, Current, Lasting, Unrecorded, VMSnapshots, Deletion, Creation
<1>5. Asked'
    BY Zenon DEF Typed, Current, Lasting, Unrecorded, Asked, Deleted, VMSnapshots, Deletion, Creation
<1> QED
    BY <1>1, <1>2, <1>3, <1>4, <1>5 DEF IInv

(* The end of a task brings a deleted snapshot back only when it counts as  *)
(* a failed deletion.                                                       *)
LEMMA TaskEndsKeeps ==
    ASSUME NEW s \in SnapIds
    PROVE  IInv /\ (TaskEnds(s) \/ DeletionEnds(s)) /\ UNCHANGED givenVars => IInv'
<1> SUFFICES ASSUME IInv, TaskEnds(s) \/ DeletionEnds(s), UNCHANGED givenVars PROVE IInv'
    OBVIOUS
<1> USE DEF IInv, givenVars, apiVars, copyVars, providerVars
<1>1. UNCHANGED <<apiVars, pc, copyVars, vm>> /\ refused \subseteq refused'
    BY DEF TaskEnds, DeletionEnds
<1>2. /\ held' \in [SnapIds -> {"unused", "pending", "there", "deleting", "deleted"}]
      /\ \A t \in SnapIds : held[t] \in {"deleting", "deleted"} =>
                               t \in refused' \/ held'[t] \in {"deleting", "deleted"}
    BY DEF TaskEnds, DeletionEnds, Typed
<1>3. Typed' /\ Current' /\ Lasting' /\ Unrecorded'
    BY ZenonT(60), <1>1, <1>2 DEF Typed, Current, Lasting, Unrecorded
<1>4. Asked'
    BY <1>1, <1>2 DEF Typed, Asked, Deleted, VMSnapshots
<1> QED
    BY <1>3, <1>4 DEF IInv

(* The invariant holds at the start, ...                                    *)
LEMMA InitIInv == Init => IInv
<1> SUFFICES ASSUME Init PROVE IInv
    OBVIOUS
<1> USE DEF Init
<1>1. snapshot \in VMSnapshots
    BY Zenon DEF VMSnapshots, Phases
<1>2. Typed
    BY <1>1, Zenon DEF Typed
<1>3. Current /\ Lasting /\ Unrecorded /\ Asked
    BY Zenon DEF Current, Lasting, Unrecorded, Asked, Deleted, Deletion, Creation
<1> QED
    BY <1>2, <1>3, Zenon DEF IInv

(* ... every step keeps it, ...                                             *)
LEMMA NextIInv == IInv /\ [Next]_vars => IInv'
<1> SUFFICES ASSUME IInv, [Next]_vars PROVE IInv'
    OBVIOUS
<1>1. CASE UNCHANGED vars
  <2>1. Typed' /\ Current'
    BY <1>1, Zenon DEF IInv, Typed, Current, vars
  <2>2. Lasting' /\ Unrecorded'
    BY <1>1 DEF IInv, Lasting, Unrecorded, vars
  <2>3. Asked'
    BY <1>1 DEF IInv, Asked, Deleted, vars
  <2> QED
    BY <2>1, <2>2, <2>3 DEF IInv
<1>2. CASE Reconcile /\ UNCHANGED givenVars
    BY <1>2, AddFinalizerKeeps, WaitForVMKeeps, StartReconcileKeeps DEF Reconcile
<1>3. CASE Worker /\ UNCHANGED givenVars
    BY <1>3, CreateSnapshotKeeps, CheckSnapshotCreationKeeps, HandleRetentionKeeps,
       UpdateStatusKeeps, MarkDeletingKeeps, HandleDeletionKeeps, RemoveFinalizerKeeps DEF Worker
<1>4. CASE LostCall /\ UNCHANGED givenVars
    BY <1>4, CreateSnapshotFailsKeeps, CheckSnapshotCreationFailsKeeps, UpdateStatusFailsKeeps,
       HandleDeletionFailsKeeps, CrashKeeps DEF LostCall
<1>5. CASE \E s \in SnapIds : (TaskEnds(s) \/ DeletionEnds(s)) /\ UNCHANGED givenVars
    BY <1>5, TaskEndsKeeps
<1> QED
    BY <1>1, <1>2, <1>3, <1>4, <1>5, RequestDeletionKeeps, InformerSyncKeeps,
       VMProvisionedKeeps, VMDeletedKeeps, MaxAgePassesKeeps DEF Next

(* ... so it always holds.                                                  *)
LEMMA Inductive == Spec => []IInv
BY InitIInv, NextIInv, PTL DEF Spec

(* The finalizer does not go while the recorded snapshot is on the          *)
(* hypervisor, unless the call that deletes it or that call's task failed   *)
(* (handleDeletion and its RemoveFinalizer), for any number of stale passes *)
(* and crashes.                                                             *)
THEOREM FinalizerOutlivesSnapshot == Spec => []RecordedIsDeleted
<1>1. IInv => RecordedIsDeleted
    BY DEF IInv, Asked, Deleted, RecordedIsDeleted
<1> QED
    BY <1>1, Inductive, PTL

(* One step does not take back a verdict: updateStatus writes an outcome    *)
(* only over an undecided phase, and MarkDeleting only Deleting.            *)
LEMMA StepKeepsVerdict ==
    ASSUME IInv, Next, snapshot.phase \in {"Ready", "Failed"}
    PROVE  snapshot'.phase \in {snapshot.phase, "Deleting"}
<1> USE DEF IInv, Typed, VMSnapshots, Phases, apiVars, Write
<1>1. CASE snapshot' = snapshot
    BY <1>1, Zenon
<1>2. CASE updateStatus
    BY <1>2, Zenon DEF updateStatus, Current
<1>3. CASE MarkDeleting
    <2>1. copy'.phase = "Deleting"
        BY <1>3, Zenon DEF MarkDeleting
    <2> QED
        BY <1>3, <2>1, Zenon DEF MarkDeleting, WithStatus
<1>4. CASE AddFinalizer \/ handleRetention \/ RemoveFinalizer \/ RequestDeletion
    BY <1>4, Zenon DEF AddFinalizer, handleRetention, RemoveFinalizer, RequestDeletion
<1> QED
    BY <1>1, <1>2, <1>3, <1>4
      , Zenon DEF Next, Reconcile, Worker, LostCall, WaitForVM, StartReconcile, createSnapshot,
           createSnapshotFails, checkSnapshotCreation, checkSnapshotCreationFails,
           updateStatusFails, handleDeletion, handleDeletionFails, InformerSync, Crash,
           VMProvisioned, VMDeleted, MaxAgePasses, TaskEnds, DeletionEnds

(* A snapshot reported Ready or Failed is never reported otherwise again,   *)
(* except that it is being deleted: the status writes of createSnapshot and *)
(* checkSnapshotCreation are refused when their copy is old.                *)
THEOREM VerdictsAreFinal == Spec => VerdictIsFinal
<1>1. IInv /\ [Next]_vars =>
        [snapshot.phase \in {"Ready", "Failed"} =>
            snapshot'.phase \in {snapshot.phase, "Deleting"}]_vars
    BY StepKeepsVerdict
<1> QED
    BY <1>1, Inductive, PTL DEF Spec, VerdictIsFinal

=============================================================================
