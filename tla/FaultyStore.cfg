SPECIFICATION Spec
CONSTANTS
  p1 = p1
  p2 = p2
  h1 = h1
  h2 = h2
  h3 = h3
  Paths = {p1, p2}
  Compressible = {p1}
  Hashes = {h1, h2, h3}
  NoHash = NoHash
  None = None
  Reuse = {}
  Faults = {"batchCheckError", "nonceUnreadable", "fileError", "cancel", "crash"}
  MaxRuns = 3
  MaxEdits = 2
  MaxFaults = 3
INVARIANTS
  LatestRestorable
  CompletedMeansAll
SYMMETRY
  Contents
