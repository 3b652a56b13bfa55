SPECIFICATION MCSpec
CONSTANTS
  None = None
  Kinds = {"libvirt", "vsphere"}
  Names = {vm1}
  Name = vm1
  Classes = {small, large}
  MachineIds = {vm1, m2}
  TaskIds = {}
  SpecPowers = {"On", "Off", "OffGraceful"}
  Budget <- MCBudget
  Edits = 1
  LostCalls = 1
  Drifts = 1
  TaskFailures = 0
INVARIANTS FinalizerBeforeMachine OneMachine
PROPERTIES MachinesBecomeKnown Converges
CHECK_DEADLOCK FALSE
