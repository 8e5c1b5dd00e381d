SPECIFICATION FairSpec

CONSTANTS
  NULL = NULL
  c1 = c1
  c2 = c2
  h1 = h1
  h2 = h2
  t1 = t1
  k1 = k1
  Clients = {c1, c2}
  Holds = {h1, h2}
  Amounts = {2}
  Costs = {0, 3}
  TopUps = {t1}
  Credit <- OneTopUp
  Fee <- OneFee
  Debits = {k1}
  Reserve = 1

INVARIANT NeverOverdrawn
INVARIANT HeldIsSum
PROPERTY ImplementsAccount
PROPERTY ReserveKept
PROPERTY HoldsEnd
PROPERTY TransactionsEnd
