SPECIFICATION Spec
CONSTANTS
  Socks = {k1, k2}
  Parents = {}
  Pubkeys = {p1, p2}
  NoOwner = NoOwner
  Initial = 1
  MaxLines = 2
  MaxCount = 1
SYMMETRY Symmetric
INVARIANTS
  TypeOK
  NothingKeepsClosed
  ConfigIsKnown
  LogIsFollowed
PROPERTIES
  ControlIsEarned
  OwnerIsKept
