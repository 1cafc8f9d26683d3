SPECIFICATION TimelinesSpec
CONSTANTS
  c1 = c1
  c2 = c2
  c3 = c3
  b1 = b1
  b2 = b2
  ChannelIds <- MCChannelIds
  MsgIds = {1, 2, 3}
  Bodies <- MCBodies
  MaxChannels = 2
  MaxMessages = 2
  RetiredFloor = 1
  Pages <- MCPages
  Retirements <- MCRetirements
  Restorations <- MCRestorations
  MaxClock = 4
SYMMETRY MCSymmetry
INVARIANTS
  RetiredHaveNoTimeline
  CacheBounded
  IdsUnique
  MergeIsYoungestOfBoth
PROPERTY
  HistoryKeepsLiveState
