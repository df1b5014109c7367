SPECIFICATION FairSpec
CONSTANTS
  r1 = r1
  r2 = r2
  Pubkeys = {p1, p2}
  Callers = {c1, c2}
  Relays = {r1, r2}
  ExtraRelays <- MCExtraRelays
  Hints <- MCHints
  MaxTime = 2
  NoKey = NoKey
INVARIANTS
  TypeOK
  NoOrphans
PROPERTIES
  NullMeansUnknown
  CacheMonotone
  ImplementsLoader
  LoadsAnswered
