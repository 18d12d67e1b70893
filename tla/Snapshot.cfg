SPECIFICATION Spec
CONSTANTS
  Readers = {r1, r2}
  Absent = Absent
  Broken = Broken
  KeepCount = 1
  MaxPush = 3
  MaxMinute = 3
  MaxFaults = 2
SYMMETRY Symmetry
INVARIANTS
  TypeOK
  NothingLost
PROPERTIES
  IsRegister
