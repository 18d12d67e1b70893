SPECIFICATION MSpec
CONSTANTS
  p1 = p1
  p2 = p2
  h1 = h1
  h2 = h2
  h3 = h3
  Paths = {p1}
  Compressible = {p1}
  Hashes = {h1, h2}
  NoHash = NoHash
  None = None
  Reuse = {h1, h2}
  Faults = {}
  MaxRuns = 1
  MaxEdits = 1
  MaxFaults = 0
  MaxPasses = 1
  MaxOverlaps = 1
INVARIANTS
  NoStaleRunning
