SPECIFICATION Spec

CONSTANTS
  t1 = t1
  t2 = t2
  w1 = w1
  w2 = w2
  NULL = NULL
  TopUps = {t1, t2}
  AutoReloads = {t1}
  Credit = 1
  Copies = 1
  Retries = 0
  MaxFaults = 1
  Workers = {w1}
  AutoReload = TRUE
  MaxGen = 1
  MaxSpend = 1
  Reserve = 0

PROPERTY DeletionSparesPayers
PROPERTY OnlyStaleReadsRevive
CHECK_DEADLOCK FALSE
