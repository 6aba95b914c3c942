SPECIFICATION FairSpec
CONSTANTS
  s1 = s1
  s2 = s2
  h1 = h1
  h2 = h2
  Null = Null
  Session = {s1}
  Handler = {h1, h2}
  Sweeper = sweeper
  ChunkSize = 2
  Pieces <- MCPieces
  LastPiece <- MCLastPiece
  Cap = 8
  MaxSessions = 2

CHECK_DEADLOCK FALSE
INVARIANTS Assembled CursorBacked FiledOnce
PROPERTIES EventuallyGone
