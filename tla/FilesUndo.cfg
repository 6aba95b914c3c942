SPECIFICATION Spec
CONSTANTS
  h1 = h1
  h2 = h2
  h3 = h3
  k1 = k1
  k2 = k2
  k3 = k3
  k4 = k4
  Null = Null
  Handler = {h1}
  Key = {k1, k2, k3}
  Name = {"a", "b"}
  Writes = {"finalize", "mcp", "resize", "copy", "photo"}
  Capped = TRUE
  Ops = {"restore", "delete version", "purge", "trash", "rename"}
  Throws = FALSE
  Crashes = FALSE
  Infected = {}
  Oversize = {}
  Thumbable = {k1, k2}
  Scanning = FALSE
  MaxVersion = 3
SYMMETRY HandlersAndLikeKeys
CHECK_DEADLOCK FALSE
INVARIANTS TypeOK NoLeakAtRest
