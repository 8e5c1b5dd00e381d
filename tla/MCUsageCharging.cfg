SPECIFICATION Spec

CONSTANTS
  i1 = i1
  i2 = i2
  c1 = c1
  c2 = c2
  o1 = o1
  o2 = o2
  Grains = {1, 2}
  Orgs = {o1, o2}
  Org <- OneOrg
  BatchSize = 2
  Importers = {i1, i2}
  Chargers = {c1, c2}
  Corrections = {}
  Late = TRUE
  MaxEvents = 3
  MaxFaults = 1

SYMMETRY Jobs
INVARIANT SettledIsBilled
INVARIANT NeverOverbilled
