SPECIFICATION FairSpec
CONSTANTS
  p1 = p1
  p2 = p2
  h1 = h1
  h2 = h2
  h3 = h3
  Paths = {p1, p2}
  Compressible = {p1}
  Hashes = {h1, h2}
  NoHash = NoHash
  None = None
  Reuse = {h1, h2}
  Faults = {"liveDisk", "walkError", "batchCheckError", "preCheckError", "nonceUnreadable", "fileError", "rowError", "hardError", "statusError", "cancel", "crash", "pullError", "pushError", "loss"}
  MaxRuns = 2
  MaxEdits = 1
  MaxFaults = 1
PROPERTIES
  SessionEnds
  LossHealed
