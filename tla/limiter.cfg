CONSTANTS
  Null = Null
  Subjects = {s1}
  Requests = {r1, r2}
  Limit = 1
  FailOpen = FALSE
  TicksPerSecond = 3
  WindowSeconds = 2
  MaxRetries = 1
  MaxHits = 3
  MaxTime = 8
SPECIFICATION Spec
SYMMETRY MCSymmetry
INVARIANTS
  TypeOK
  LimitPerMinute
  LeakedOnlyByFault
PROPERTIES
  RetryAfterSuffices
