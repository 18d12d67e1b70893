SPECIFICATION Spec
CONSTANTS
  Files = {f1, f2}
  Workers = {w1}
  Twice = {}
  Cold = {}
  Existing = {}
  None = None
  MaxFaults = 1
INVARIANTS
  PartlyIsTold
