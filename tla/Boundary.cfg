SPECIFICATION MCSpec
CONSTANTS
  Peer = {d1}
  Invite = {i1, i2}
  Call = {j1, j2}
  Message = {x1}
  Arrival = {j1, j2}
  Skew = 2
  Ahead = 1
  Stall = 1
  Horizon = 9
  Accounts = 2
  OidcSubject = {d1}
  SsoSubject = {x1}
  Email = {e1, e2}
  Login = {c1, c2}
  Ticket = {d1}
  Browser = {d1}
  LogoutToken = {d1}
  Kid = {c1, c2}
  Verifying = {d1, x1}
  KeyLife = 1
  Visitor = {e1, e2}
  Tab = {c1, c2}
  Awaited = 2
  Opened = {c1, c2}
  Loads = 5
  Works = 2
  Team = {x1}
  Lookup = {d1}
  TTL = 1
  Scope = {e1, e2}
  Window = {d1}
  Device = {c1, c2}
  Handset = {d1}
  Asking = {j1, j2}
  Process = {d1, x1}
  Sweep = {j1, j2}
  Request = {c1, c2}
  Allowed = 2
  Period = 2
  Retention = 3
  Lag = 1
  Span = 7
  Null = Null
  Gone = Gone
SYMMETRY Symmetry
CHECK_DEADLOCK FALSE
INVARIANTS
  NonceOnce InvitePairsOne SignInOnce PageIsWhole LimitHolds
  CachesAreRecent ConsentIsInformed ServedWhole
