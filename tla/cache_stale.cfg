CONSTANTS
  Null = Null
  Subjects = {s1, s2}
  Users = {u1, u2}
  Requests = {r1}
  TTL = 4
  MaxEntries = 2
  MaxDelay = 2
  MaxTime = 6
SPECIFICATION Spec
SYMMETRY MCSymmetry
INVARIANTS
  StaleWithinTTL
