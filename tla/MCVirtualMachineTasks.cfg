SPECIFICATION MCSpec
CONSTANTS
  None = None
  Kinds = {"mock", "proxmox"}
  Names = {vm1}
  Name = vm1
  Classes = {small, large}
  MachineIds = {m1, m2, m3}
  TaskIds = {t1, t2}
  SpecPowers = {"On"}
  Budget <- MCBudget
  Edits = 1
  LostCalls = 1
  Drifts = 0
  TaskFailures = 1
PROPERTIES DeletesOnlyOnRequest DeletionCompletes
CHECK_DEADLOCK FALSE
