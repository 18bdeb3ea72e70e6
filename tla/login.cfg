CONSTANTS
  Null = Null
  Denied = Denied
  Browsers = {b1, b2}
  Logins = {s1, s2}
  Subjects = {alice, bob}
  UserIds = {i1, i2}
  Faults = {"issuer"}
  ClientConfigured = TRUE
  Requests = {r1, r2}
SPECIFICATION Spec
SYMMETRY MCSymmetry
INVARIANTS
  TypeOK
  CompletesWhereBegun
  TokensActAsAnswered
PROPERTIES
  SpentStateStaysSpent
