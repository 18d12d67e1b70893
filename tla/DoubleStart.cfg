SPECIFICATION Spec
CONSTANTS
  Sessions = {s1, s2}
  Restores = {}
  None = None
  MaxBackups = 2
  MaxJobs = 2
  MaxEvents = 0
SYMMETRY Symmetry
CHECK_DEADLOCK FALSE
INVARIANTS
  Exclusive
