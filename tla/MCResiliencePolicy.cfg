SPECIFICATION PolicyFairSpec
CONSTANTS
  c1 = c1
  c2 = c2
  Callers = {c1, c2}
  FailureThreshold = 2
  HalfOpenMaxCalls = 1
  Unprotected <- MCUnprotected
  MaxAttempts = 2
  Faults <- MCFaults
  MaxFaults = 2
INVARIANTS NeverWedgedHalfOpen OneBreakerPerKey AnswerDecides
PROPERTIES PolicyKeepsTheBreaker RecoversAfterOutage
