SPECIFICATION TopUpFairSpec

CONSTANTS
  t1 = t1
  t2 = t2
  TopUps = {t1, t2}
  AutoReloads = {t1}
  Credit = 2
  Copies = 2
  Retries = 1
  MaxFaults = 1

INVARIANT CreditedOnce
PROPERTY SucceededIsFinal
PROPERTY CustomersAreCredited
CHECK_DEADLOCK FALSE
