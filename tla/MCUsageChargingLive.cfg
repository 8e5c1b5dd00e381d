SPECIFICATION FairSpec

CONSTANTS
  i1 = i1
  i2 = i2
  c1 = c1
  c2 = c2
  o1 = o1
  o2 = o2
  Grains = {1, 2}
  Orgs = {o1, o2}
  Org <- TwoOrgs
  BatchSize = 2
  Importers = {i1}
  Chargers = {c1, c2}
  Corrections = {"reduce", "removeByo", "fundByo"}
  Late = FALSE
  MaxEvents = 4
  MaxFaults = 1

PROPERTY ImportsConverge
PROPERTY UsageIsCharged
