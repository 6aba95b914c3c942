SPECIFICATION MCSpec
CONSTANTS
  u1 = u1
  u2 = u2
  u3 = u3
  u4 = u4
  ann = ann
  bob = bob
  team = team
  None = None
  Upload = {u1, u2, u3, u4}
  User = {ann, bob}
  Team = {team}
  Byte = {1, 2, 3, 4, 5, 6}
  Owner <- MCOwner
  TeamOf <- MCTeamOf
  Bytes <- MCBytes
  UserCap <- MCUserCap
  TeamCap <- MCTeamCap
  RowFirst = {u2}
  Sharer = {c1, c2}
  Folder = {a1, a2, a3}
  File = {x1}
  Space = {d1}
  Request = {b1, b2}
  Guest = {c1, c2}
  Address = {e1, e2}
  Offer = {a1, a2, a3}
  Errand = {a1, a2, a3}
  Link = {x1}
  Viewing = {a1, a2, a3}
  Tries = 2
  Local = {c1, c2}
  Remote = {d1}
  Key = {a1, a2, a3}
  Job = {b1, b2, b3}
  Shapes <- SomeShapes
  Caller = {a1, a2, a3}
  Slug = {c1, c2}
  Joined = {c1, c2}
  Alone = {d1}
  Own = {j1, j2}
  Writer = {c1, c2}
  Scanning = TRUE
  Actions = 2
  Dispatch = {d1}
  Mail = {x1, d1}
  Commenter = {i1, i2}
  Host = i1
  Resource = {j1, j2}
  Remarks = 2
  Posting = {c1, c2}
  Null = Null
  Gone = Gone
SYMMETRY Symmetry
CHECK_DEADLOCK FALSE
INVARIANTS
  FitsUserCap FitsTeamCap StoredIsCounted
  OneSpacePerTree GrantsReachTheirs BurnShownOnce CopiesAreGood PeersAreToldWhatIs
  IndexedBytes RunsTellTheTruth ToldConcerned
PROPERTIES KeepsLedger
