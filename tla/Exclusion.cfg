SPECIFICATION Spec
CONSTANTS
  Sessions = {s1}
  Restores = {r1, r2}
  None = None
  MaxBackups = 1
  MaxJobs = 2
  MaxEvents = 1
SYMMETRY Symmetry
CHECK_DEADLOCK FALSE
INVARIANTS
  JobsTypeOK
  OneAtATime
  RowsTellOfWork
  CancelReaches
