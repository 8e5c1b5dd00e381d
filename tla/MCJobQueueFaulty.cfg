SPECIFICATION FairSpec

CONSTANTS
  NULL = NULL
  NoKey = NoKey
  j1 = j1
  j2 = j2
  w1 = w1
  w2 = w2
  s1 = s1
  s2 = s2
  k1 = k1
  Jobs = {j1, j2}
  Workers = {w1, w2}
  Slots = {s1, s2}
  Owner <- TwoSlotsOneEach
  Handles <- AllKinds
  Key <- OneKey
  Priority <- SecondFirst
  Delay <- AllZero
  MaxAttempts <- Twice
  Lease = 1
  BackoffBase = 1
  BackoffCap = 1
  ReclaimLimit = 100
  MaxAge = 1
  Faults = {"crash", "overrun", "lostAck", "window"}
  MaxFaults = 2

INVARIANT FencingToken
INVARIANT NothingLost
INVARIANT EnqueueAgreement
PROPERTY EveryJobSettles
