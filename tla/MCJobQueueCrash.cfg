SPECIFICATION Spec

CONSTANTS
  NULL = NULL
  NoKey = NoKey
  j1 = j1
  j2 = j2
  w1 = w1
  w2 = w2
  s1 = s1
  s2 = s2
  k1 = k1
  Jobs = {j1, j2}
  Workers = {w1, w2}
  Slots = {s1, s2}
  Owner <- TwoSlotsOneEach
  Handles <- AllKinds
  Key <- NoKeys
  Priority <- AllZero
  Delay <- AllZero
  MaxAttempts <- Twice
  Lease = 2
  BackoffBase = 1
  BackoffCap = 2
  ReclaimLimit = 1
  MaxAge = 1
  Faults = {"crash"}
  MaxFaults = 2

INVARIANT AttemptCeiling
PROPERTY ImplementsLife
