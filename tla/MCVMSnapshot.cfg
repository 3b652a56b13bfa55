SPECIFICATION FairSpec
CONSTANTS
  None = None
  Kinds = {"mock", "libvirt", "vsphere", "proxmox"}
  SnapIds = {s1, s2, s3}
  Name = s1
  LostCalls = 2
INVARIANTS RecordedIsDeleted
PROPERTIES VerdictIsFinal ExpiryDeletes
CHECK_DEADLOCK FALSE
