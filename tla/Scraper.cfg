SPECIFICATION FairSpec
CONSTANTS
  Scrapers = {s1}
  N = 4
  Ids <- MCIds
  At <- EveryOther
  MaxTime = 8
  Tolerance = 4
  Limit = 2
CHECK_DEADLOCK FALSE
INVARIANTS
  TypeOK
  EmittedOnce
  NoGapAboveUntil
  TailWindowComplete
  CompleteAtRest
PROPERTIES
  ReachesTail
