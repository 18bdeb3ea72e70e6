CONSTANTS
  u1 = u1
  u2 = u2
  api = api
  API = API
  Null = Null
  OperatorSQL = FALSE
  Emails = {e1}
  Users = {u1}
  Projects = {p1, p2, p3, p4}
  Names = {api}
  Lower <- MCLower
  Requests = {r1, r2, r3}
  MaxProjects <- MCMaxProjects
  MaxOpenConns = 2
SPECIFICATION FairSpec
INVARIANTS
  NoStandstill
  OwnedOvershootBounded
PROPERTIES
  Answered
