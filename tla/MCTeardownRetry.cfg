SPECIFICATION Spec
CONSTANTS
  Deployments = {1, 2, 3}
  e1 = e1
  e2 = e2
  s1 = s1
  s2 = s2
  Execs = {e1, e2}
  Services = {s1, s2}
  NULL = NULL
  TD = TD
  Tries = 3
  Setups <- MCDeleted
  KindOf <- MCKindOf
PROPERTY TeardownCompletes
CHECK_DEADLOCK FALSE
