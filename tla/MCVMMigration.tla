--------------------------- MODULE MCVMMigration ----------------------------
(***************************************************************************)
(* The settings of VMMigration for TLC.  The one with export and import    *)
(* tasks has no faults, and not only because the model keeps one task for  *)
(* each operation: with a single fault DataPreserved is violated, since a  *)
(* retry takes the running export for finished.  The providers in the tree *)
(* answer ExportDisk and ImportDisk without a task, so their migrations    *)
(* are the other settings.                                                 *)
(***************************************************************************)
EXTENDS VMMigration

PassingSettings ==
    {[options |-> {"createSnapshot", "verifyChecksums", "deleteAfterMigration"}, maxRetries |-> 1,
      tasks |-> {}, environment |-> {"managerMounts"}, lostCalls |-> 5],
     [options |-> {"createSnapshot", "snapshotRef", "existingPVC", "verifyChecksums",
                   "deleteAfterMigration"},
      maxRetries |-> 2, tasks |-> {}, environment |-> {"managerMounts"}, lostCalls |-> 3],
     [options |-> {"createSnapshot", "verifyChecksums", "deleteAfterMigration"}, maxRetries |-> 1,
      tasks |-> Operations, environment |-> {"managerMounts"}, lostCalls |-> 0],
     [options |-> {"createSnapshot"}, maxRetries |-> 1,
      tasks |-> {"snapshot"}, environment |-> {"managerMounts"}, lostCalls |-> 2],
     [options |-> {"verifyChecksums"}, maxRetries |-> 1,
      tasks |-> {}, environment |-> {"managerMounts", "sha256sumFails"}, lostCalls |-> 2],
     [options |-> {"createSnapshot", "snapshotRef", "existingPVC", "verifyChecksums"},
      maxRetries |-> 2, tasks |-> {}, environment |-> {"targetTaken"}, lostCalls |-> 2]}
=============================================================================
