SPECIFICATION Spec
CONSTANTS
  h1 = h1
  h2 = h2
  h3 = h3
  k1 = k1
  k2 = k2
  k3 = k3
  k4 = k4
  Null = Null
  Handler = {h1, h2}
  Key = {k1, k2, k3}
  Name = {"a"}
  Writes = {"finalize", "resize", "photo"}
  Capped = FALSE
  Ops = {"trash", "purge", "hard delete", "move"}
  Throws = TRUE
  Crashes = TRUE
  Infected = {}
  Oversize = {}
  Thumbable = {k1, k2}
  Scanning = FALSE
  MaxVersion = 3
SYMMETRY HandlersAndLikeKeys
CHECK_DEADLOCK FALSE
INVARIANTS NothingDangles
