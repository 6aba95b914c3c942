SPECIFICATION Spec
CONSTANTS
  u1 = u1
  u2 = u2
  u3 = u3
  u4 = u4
  ann = ann
  bob = bob
  team = team
  None = None
  Upload = {u1, u2, u3, u4}
  User = {ann, bob}
  Team = {team}
  Byte = {1, 2, 3, 4, 5, 6}
  Owner <- MCOwnerAlone
  TeamOf <- MCTeamOf
  Bytes <- MCBytes
  UserCap <- MCUserCap
  TeamCap <- MCNoTeamCap
  RowFirst = {}
CHECK_DEADLOCK FALSE
INVARIANTS UserCapKept
