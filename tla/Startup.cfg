SPECIFICATION FairSpec
CONSTANTS
  r1 = r1
  Owner = p1
  Authors = {p1, p2}
  Relays = {r1}
  ExtraRelays <- MCExtraRelays
  MaxTime = 1
  NoAuthor = NoAuthor
  MaxStarts = 2
CHECK_DEADLOCK FALSE
INVARIANTS
  FinishedStartsAwaitNothing
PROPERTIES
  OnlyMissedQueueBlocks
