CONSTANTS
  u1 = u1
  u2 = u2
  api = api
  API = API
  Null = Null
  OperatorSQL = TRUE
  Emails = {e1, e2}
  Users = {u1, u2}
  Projects = {p1, p2}
  Names = {api, API}
  Lower <- MCLower
  Requests = {r1, r2}
  MaxProjects <- MCMaxProjects
  MaxOpenConns = 2
SPECIFICATION Spec
SYMMETRY MCSymmetry
INVARIANTS
  LookupPinsUser
