SPECIFICATION MirrorSpec
CONSTANTS
  g1 = g1
  c1 = c1
  c2 = c2
  t1 = t1
  b1 = b1
  Absent = Absent
  Malformed = Malformed
  ChannelIds = {c1, c2, t1}
  MsgIds = {1}
  Bodies = {b1}
  MaxChannels = 3
  MaxMessages = 1
  RetiredFloor = 3
  Pages = {}
  Retirements = {}
  Restorations = {}
  MaxClock = 29
  GuildIds = {g1}
  GuildChannelIds = {c1, c2}
  ThreadIds = {t1}
  MaxGuilds = 1
  MaxChannelsPerGuild = 2
  MaxThreadsPerGuild = 1
  Snapshots <- MCSnapshots
  ThreadLists <- MCThreadLists
  Scopes <- MCScopes
  MaxTopologyClock = 19
  DirectIds = {}
  MaxBulkDelete = 1
  Receivers = {"gateway"}
  Events = {}
  Capacity = 2
  TheGuild = g1
  TheMessage <- MCMessage
  ListOf <- MCListOf
  ChannelList <- MCChannelList
  MaxDispatches = 5
CHECK_DEADLOCK FALSE
INVARIANTS
  NavigationConverges
  NoForeignGuild
  NoGhostTimelines
