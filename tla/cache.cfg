CONSTANTS
  Null = Null
  Subjects = {s1, s2, s3}
  Users = {u1, u2, u3}
  Requests = {r1, r2}
  TTL = 2
  MaxEntries = 2
  MaxDelay = 1
  MaxTime = 4
SPECIFICATION Spec
SYMMETRY MCSymmetry
INVARIANTS
  TypeOK
  StalenessBounded
  CapacityRespected
PROPERTIES
  ImplementsResolver
  StoreIsKept
  EvictionSparesLive
