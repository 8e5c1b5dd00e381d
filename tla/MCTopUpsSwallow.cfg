SPECIFICATION TopUpFairSpec

CONSTANTS
  t1 = t1
  t2 = t2
  TopUps = {t1}
  AutoReloads = {}
  Credit = 2
  Copies = 1
  Retries = 0
  MaxFaults = 1

PROPERTY EventsGetProcessed
CHECK_DEADLOCK FALSE
