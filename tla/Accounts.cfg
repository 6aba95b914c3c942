SPECIFICATION Spec
CONSTANTS
  Request = {a1, a2, a3}
  First = First
  MaxStep = 2
  Grant = {d1}
  Token = {a1, a2, a3}
  Caller = {b1, b2}
  Changes = 1
  Scope = {c1, c2}
  User = {c1, c2}
  Invite = {d1}
  Job = {b1, b2}
  Team = {c1, c2}
  Name = {d1}
  Lookup = {b1, b2}
  Tokens = 3
  Null = Null
SYMMETRY Symmetry
CHECK_DEADLOCK FALSE
INVARIANTS
  SessionsAreCurrent SecondFactorHolds FactorSpentOnce
  GrantIsOneFamily GrantsEndWithCredentials
  AdmittedOnce AdminRemains DomainsAreProven
