SPECIFICATION FairSpec
CONSTANTS
  None = None
  Settings <- PassingSettings
INVARIANTS DataPreserved PartialTargetDeleted
PROPERTIES Settles
CHECK_DEADLOCK FALSE
