SPECIFICATION Spec
CONSTANTS
  Authors = {1, 2}
  Pairs <- MCPairs
  Watchable = {1}
  Relays = {r1}
  MaxOpens = 2
  MaxWatches = 2
  MaxForwards = 1
CHECK_DEADLOCK FALSE
PROPERTY ReconnectsOnlyWhileWatching
