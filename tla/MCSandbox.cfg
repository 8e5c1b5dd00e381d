SPECIFICATION Spec
CONSTANTS
  j1 = j1
  j2 = j2
  Slots = {j1, j2}
  Tries = 2
  MaxIds = 2
  NULL = NULL
  Setups <- MCSetups
INVARIANT NoOrphan
PROPERTY DeletingIsFinal
PROPERTY DestroyCompletes
PROPERTY RunningIsCorrected
PROPERTY StaleJoinIsCleared
PROPERTY StartingEnds
CHECK_DEADLOCK FALSE
