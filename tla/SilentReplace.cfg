SPECIFICATION Spec
CONSTANTS
  Files = {f1}
  Workers = {w1}
  Twice = {}
  Cold = {}
  Existing = {f1}
  None = None
  MaxFaults = 0
INVARIANTS
  NeverSilently
