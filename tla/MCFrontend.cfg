SPECIFICATION Spec
CONSTANTS
  g1 = g1
  c1 = c1
  c2 = c2
  t1 = t1
  d1 = d1
  b1 = b1
  Absent = Absent
  ChannelIds = {c1, c2, t1, d1}
  MsgIds = {1}
  Bodies = {b1}
  MaxChannels = 2
  MaxMessages = 1
  RetiredFloor = 2
  Pages <- MCPages
  Retirements = {}
  Restorations = {}
  MaxClock = 2
  GuildIds = {g1}
  GuildChannelIds = {c1, c2}
  ThreadIds = {t1}
  MaxGuilds = 1
  MaxChannelsPerGuild = 1
  MaxThreadsPerGuild = 1
  Snapshots <- MCSnapshots
  ThreadLists <- MCThreadLists
  Scopes <- MCScopes
  MaxTopologyClock = 3
  DirectIds = {d1}
PROPERTIES
  ActivationRestoresButForUpdates
  RemovalPurgesTimelines
  TombstonesHold
