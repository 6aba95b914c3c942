SPECIFICATION Spec
CONSTANTS
  h1 = h1
  h2 = h2
  h3 = h3
  k1 = k1
  k2 = k2
  k3 = k3
  k4 = k4
  Null = Null
  Handler = {h1, h2, h3}
  Key = {k1, k2, k3, k4}
  Name = {"a"}
  Writes = {"post", "finalize", "webdav", "s3", "mcp", "resize", "copy", "photo"}
  Capped = FALSE
  Ops = {"trash"}
  Throws = FALSE
  Crashes = FALSE
  Infected = {}
  Oversize = {}
  Thumbable = {}
  Scanning = FALSE
  MaxVersion = 4
SYMMETRY HandlersAndKeys
CHECK_DEADLOCK FALSE
INVARIANTS HistoryComplete NoBlockedFile
PROPERTIES NothingOverwritten
