SPECIFICATION Spec
CONSTANTS
  part1 = notifications
  part2 = pool
  part3 = graph
  Keys = {k1, k2}
  DMs = {m1, m2}
  MaxMade = 3
  Relays = {own, other}
  Self = {own}
  People = {a, b, c}
  MaxTime = 2
CHECK_DEADLOCK FALSE
INVARIANTS
  TypeOK
  EveryBrowserOnce
  SelfStaysOut
  NodesAreFollowed
