SPECIFICATION FairSpec
CONSTANTS
  Files = {f1, f2, f3}
  Workers = {w1, w2}
  Twice = {}
  Cold = {f2}
  Existing = {f1}
  None = None
  MaxFaults = 1
INVARIANTS
  TypeOK
  DeliveredWhole
  ExistingReplaced
  Accounted
PROPERTIES
  JobEnds
