CONSTANTS
  u1 = u1
  u2 = u2
  api = api
  API = API
  Null = Null
  OperatorSQL = TRUE
  Users = {u1, u2}
  Projects = {p1}
  Sandboxes = {s1, s2}
  Names = {api, web}
  Lower <- MCLower
  Requests = {r1, r2}
  MaxRunningSandboxes <- MCMaxRunning
SPECIFICATION Spec
SYMMETRY MCSymmetry
PROPERTIES
  CreationByMembers
