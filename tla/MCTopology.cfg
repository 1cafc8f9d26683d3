SPECIFICATION TopologySpec
CONSTANTS
  g1 = g1
  g2 = g2
  g3 = g3
  c1 = c1
  c2 = c2
  c3 = c3
  t1 = t1
  t2 = t2
  Absent = Absent
  GuildIds <- MCGuildIds
  GuildChannelIds = {c1, c2, c3}
  ThreadIds = {t1, t2}
  MaxGuilds = 2
  MaxChannelsPerGuild = 2
  MaxThreadsPerGuild = 1
  Snapshots <- MCSnapshots
  ThreadLists <- MCThreadLists
  Scopes <- MCScopes
  MaxTopologyClock = 4
INVARIANTS
  TopologyBounded
  SyncIsExact
PROPERTY
  OutageKeepsTopology
