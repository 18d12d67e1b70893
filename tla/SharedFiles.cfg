SPECIFICATION Spec
CONSTANTS
  Files = {f1}
  Workers = {w1, w2}
  Twice = {f1}
  Cold = {}
  Existing = {}
  None = None
  MaxFaults = 0
INVARIANTS
  DeliveredWhole
