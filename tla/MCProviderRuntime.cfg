SPECIFICATION FairSpec
CONSTANTS
  u1 = u1
  u2 = u2
  p1 = p1
  p2 = p2
  m1 = m1
  m2 = m2
  Users = {u1, u2}
  Clients = {c1, c2, c3}
  Endpoints = {p1, p2}
  None = None
  DefaultPort = p1
  Claims = {m1, m2}
  Settings <- MCSettings
  MaxEdits = 3
  MaxFailures = 1
INVARIANTS CachedIsOpen ClosedInUseWasInvalid
PROPERTIES EndpointConverges ClaimsMounted CallsReachProvider
CHECK_DEADLOCK FALSE
