SPECIFICATION Spec
CONSTANTS
  Scrapers = {s1}
  N = 4
  Ids <- MCIds
  At <- EverySecond
  MaxTime = 4
  Tolerance = 1
  Limit = 2
CHECK_DEADLOCK FALSE
INVARIANTS
  TailMeansArchiveReceived
