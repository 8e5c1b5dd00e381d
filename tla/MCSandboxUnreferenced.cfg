SPECIFICATION Spec
CONSTANTS
  j1 = j1
  j2 = j2
  Slots = {j1, j2}
  Tries = 2
  MaxIds = 2
  NULL = NULL
  Setups <- MCPatient
INVARIANT NothingUnreferenced
CHECK_DEADLOCK FALSE
