SPECIFICATION Spec
CONSTANTS
  p1 = p1
  p2 = p2
  h1 = h1
  h2 = h2
  h3 = h3
  Paths = {p1, p2}
  Compressible = {p1, p2}
  Hashes = {h1, h2}
  NoHash = NoHash
  None = None
  Reuse = {h1, h2}
  Faults = {"crash", "cancel", "pushError", "pullError", "hashError"}
  MaxRuns = 3
  MaxEdits = 2
  MaxFaults = 2
INVARIANTS
  TypeOK
  RefsCoverFiles
  ContentAddressed
  RowsBacked
  CancelledLeavesNoRows
  NoStaleRunning
PROPERTIES
  NoClobber
  HistoryOnlyGrows
  IsLedger
SYMMETRY
  Exchanges
