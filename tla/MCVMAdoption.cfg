SPECIFICATION FairSpec
CONSTANTS
    Machines = {"m1", "m2"}
    NewMachines = {"n1", "n2", "n3", "n4", "n5", "n6"}
    Names = {"web-1", "web.1", "db", "old", "vm-m1"}
    Sanitized <- MCSanitized
    Fallback <- MCFallback
    Settings <- MCSettings
    None = "none"
    MaxFailures = 3
INVARIANTS RecordedOnce AdoptedKeepsMachine
PROPERTIES AllAdopted
