SPECIFICATION FairSpec
CONSTANTS
  Communities = {c1, c2}
  Hyper = {k}
  Channels = {h}
  Events = {e}
  Topic <- MCTopic
CHECK_DEADLOCK FALSE
INVARIANTS
  TypeOK
  ChannelsInStep
  OneServerPerAddress
  ViewIsReceived
  DeletedStaysGone
PROPERTIES
  SyncStarts
