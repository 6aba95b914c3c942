SPECIFICATION FairSpec
CONSTANTS
  h1 = h1
  h2 = h2
  h3 = h3
  k1 = k1
  k2 = k2
  k3 = k3
  k4 = k4
  Null = Null
  Handler = {h1, h2}
  Key = {k1, k2}
  Name = {"a"}
  Writes = {"finalize"}
  Capped = FALSE
  Ops = {"restore", "scan", "trash"}
  Throws = FALSE
  Crashes = FALSE
  Infected = {k2}
  Oversize = {k2}
  Thumbable = {}
  Scanning = TRUE
  MaxVersion = 3

CHECK_DEADLOCK FALSE
INVARIANTS ScanSound
PROPERTIES EventuallyJudged
