SPECIFICATION Spec

CONSTANTS
  t1 = t1
  t2 = t2
  w1 = w1
  w2 = w2
  NULL = NULL
  TopUps = {t2}
  AutoReloads = {}
  Credit = 1
  Copies = 1
  Retries = 0
  MaxFaults = 0
  Workers = {w1}
  AutoReload = FALSE
  MaxGen = 1
  MaxSpend = 0
  Reserve = 0

PROPERTY LifecycleOwned
CHECK_DEADLOCK FALSE
