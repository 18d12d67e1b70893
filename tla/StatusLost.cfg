SPECIFICATION Spec
CONSTANTS
  p1 = p1
  p2 = p2
  h1 = h1
  h2 = h2
  h3 = h3
  Paths = {p1, p2}
  Compressible = {p1}
  Hashes = {h1, h2}
  NoHash = NoHash
  None = None
  Reuse = {}
  Faults = {"statusError"}
  MaxRuns = 1
  MaxEdits = 0
  MaxFaults = 1
INVARIANTS
  NoStaleRunning
