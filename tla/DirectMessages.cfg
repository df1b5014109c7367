SPECIFICATION Spec
CONSTANTS
  Authors = {1, 2}
  Pairs <- MCPairs
  Watchable = {1}
  Relays = {r1, r2}
  MaxOpens = 2
  MaxWatches = 2
  MaxForwards = 1
SYMMETRY Symmetric
CHECK_DEADLOCK FALSE
INVARIANTS
  TypeOK
  OneSubscription
  InboxKept
  InboxOnce
  CloseEndsConversation
