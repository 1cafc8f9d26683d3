SPECIFICATION SessionSpec
CONSTANTS
  d1 = d1
  d2 = d2
  me = me
  alice = alice
  b1 = b1
  Absent = Absent
  Malformed = Malformed
  ChannelIds = {d1, d2}
  MsgIds = {1, 2, 3}
  Bodies = {b1}
  MaxChannels = 1
  MaxMessages = 1
  RetiredFloor = 1
  Pages <- MCPages
  Retirements = {}
  Restorations = {}
  MaxClock = 9
  GuildIds = {}
  GuildChannelIds = {}
  ThreadIds = {}
  MaxGuilds = 1
  MaxChannelsPerGuild = 1
  MaxThreadsPerGuild = 1
  Snapshots = {}
  ThreadLists = {}
  Scopes = {}
  MaxTopologyClock = 1
  DirectIds = {d1, d2}
  Conversations = {d1, d2}
  Users = {me, alice}
  NoRecipient = Absent
  MaxDirect = 1
  MaxBulkDelete = 1
  Receivers = {"gateway", "direct"}
  Events <- MCEvents
  Capacity = 2
  Budget = 2
  Dispatches <- MCDispatches
  MaxDispatches = 4
  MaxFetches = 1
CHECK_DEADLOCK FALSE
INVARIANTS
  DirectBounded
  DirectNotBehind
  ListedIsHeard
  ClosedIsGone
  InboundIsShown
  RecipientIsOther
