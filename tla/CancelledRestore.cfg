SPECIFICATION Spec
CONSTANTS
  Files = {f1}
  Workers = {w1}
  Twice = {}
  Cold = {}
  Existing = {}
  None = None
  MaxFaults = 0
INVARIANTS
  CancelStays
