SPECIFICATION Spec
CONSTANTS
  h1 = h1
  h2 = h2
  h3 = h3
  k1 = k1
  k2 = k2
  k3 = k3
  k4 = k4
  Null = Null
  Handler = {h1, h2}
  Key = {k1, k2, k3}
  Name = {"a"}
  Writes = {"finalize"}
  Capped = TRUE
  Ops = {}
  Throws = FALSE
  Crashes = FALSE
  Infected = {}
  Oversize = {}
  Thumbable = {}
  Scanning = FALSE
  MaxVersion = 3

CHECK_DEADLOCK FALSE
PROPERTIES UndoesOwnWrite
