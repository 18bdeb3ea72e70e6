CONSTANTS
  Null = Null
  Ranks = {1, 2, 3, 4, 5}
  DefaultLimit = 2
  MaxLimit = 3
  MaxInt32 = 7
  RawNumbers <- MCRawNumbers
  MaxChanges = 2
SPECIFICATION Spec
INVARIANTS
  TypeOK
  MissedAtMostRemoved
  RepeatedAtMostInserted
