SPECIFICATION Spec
CONSTANTS
  Sessions = {s1, s2}
  Restores = {}
  None = None
  MaxBackups = 2
  MaxJobs = 1
  MaxEvents = 2
SYMMETRY Symmetry
CHECK_DEADLOCK FALSE
INVARIANTS
  JobsTypeOK
  OneAtATime
  RowsTellOfWork
  CancelReaches
