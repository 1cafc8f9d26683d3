------------------------------ MODULE Topology ------------------------------
(***************************************************************************)
(* TopologyState (src/src/topology.rs): the bounded cache of the guilds,   *)
(* their channels and their active threads.  Names, kinds and positions    *)
(* are left out; the order of channels and threads is kept, because a      *)
(* guild deletion retires their timelines in that order.                   *)
(***************************************************************************)
EXTENDS Vectors, FiniteSets

CONSTANTS
  GuildIds,
  GuildChannelIds,
  ThreadIds,
  Absent,                \* the value of an optional field that is absent
  MaxGuilds,             \* max_guilds
  MaxChannelsPerGuild,   \* max_channels_per_guild
  MaxThreadsPerGuild,    \* max_threads_per_guild
  Snapshots,             \* the channel lists of the GUILD_CREATEs
  ThreadLists,           \* the thread lists of the THREAD_LIST_SYNCs
  Scopes,                \* the parent_channel_ids of the THREAD_LIST_SYNCs
  MaxTopologyClock       \* bound of the model: the clock stops there

ParentIds == GuildChannelIds \cup {Absent}

\* A FrontendThread as an event carries it, and as a guild caches it: only
\* active threads of the guild itself are cached.
Thread == [id : ThreadIds, guild : GuildIds, parent : ParentIds, archived : BOOLEAN]
CachedThread == [id : ThreadIds, parent : ParentIds]

ASSUME TopologyAssumption ==
  /\ MaxGuilds \in Nat \ {0}
  /\ MaxChannelsPerGuild \in Nat \ {0}
  /\ MaxThreadsPerGuild \in Nat \ {0}
  /\ Absent \notin GuildChannelIds
  /\ Absent \notin BOOLEAN
  /\ Snapshots \subseteq {s \in Seq(GuildChannelIds) : Distinct(s)}
  /\ ThreadLists \subseteq Seq(Thread)
  /\ \A scope \in Scopes : scope = Absent \/ scope \subseteq GuildChannelIds

VARIABLES
  guilds,         \* the cached guilds, by id
  topologyClock   \* stamps the touched field of a guild

topologyVars == <<guilds, topologyClock>>

Guild == [unavailable : BOOLEAN, channels : Seq(GuildChannelIds),
          threads : Seq(CachedThread), touched : Nat]

Known(g) == g \in DOMAIN guilds

\* channels, threads and threads_for_parent: the ids, in the cached order.
ChannelsOf(g) == IF Known(g) THEN guilds[g].channels ELSE << >>
ThreadsOf(g) == IF Known(g) THEN guilds[g].threads ELSE << >>

ThreadIdsOf(s) == [i \in DOMAIN s |-> s[i].id]
ThreadsForParent(g, c) ==
  ThreadIdsOf(Retain(ThreadsOf(g), {t \in Items(ThreadsOf(g)) : t.parent = c}))

\* An entry of a thread list that says the thread is active in guild g.
Active(t, g) == ~t.archived /\ t.guild = g

\* What the guild keeps of an active thread.
AsCached(t) == [id |-> t.id, parent |-> t.parent]

TopologyTick == topologyClock < MaxTopologyClock /\ topologyClock' = topologyClock + 1

\* The update of a cached guild: every one stamps it.
Touch(g, update) ==
  /\ TopologyTick
  /\ guilds' = [guilds EXCEPT ![g] = [update EXCEPT !.touched = topologyClock']]
----------------------------------------------------------------------------
(* Guilds *)

\* evict_least_recently_used_guild
LeastRecentGuild ==
  CHOOSE g \in DOMAIN guilds : \A h \in DOMAIN guilds : guilds[g].touched <= guilds[h].touched

\* Mutant: the empty channel list of an unavailable guild is taken at its word.
ApplyGuildCreateBlank(g, unavailable, snapshot) ==
  \/ /\ Known(g)
     /\ Touch(g, [guilds[g] EXCEPT !.unavailable = unavailable,
                                   !.channels = Take(snapshot, MaxChannelsPerGuild)])
  \/ /\ ~Known(g) /\ Cardinality(DOMAIN guilds) < MaxGuilds
     /\ TopologyTick
     /\ LET new == [unavailable |-> unavailable,
                    channels |-> Take(snapshot, MaxChannelsPerGuild),
                    threads |-> << >>, touched |-> topologyClock']
        IN  guilds' = [h \in DOMAIN guilds \cup {g} |-> IF h = g THEN new ELSE guilds[h]]

\* apply_guild_snapshot: an unavailable guild without channels keeps the
\* cached ones, any other snapshot replaces them; threads are kept.
ApplyGuildCreate(g, unavailable, snapshot) ==
  \/ /\ Known(g)
     /\ Touch(g, [guilds[g] EXCEPT
          !.unavailable = unavailable,
          !.channels = IF unavailable /\ snapshot = << >> THEN @
                       ELSE Take(snapshot, MaxChannelsPerGuild)])
  \/ /\ ~Known(g)
     /\ TopologyTick
     /\ LET room == IF Cardinality(DOMAIN guilds) < MaxGuilds THEN DOMAIN guilds
                    ELSE DOMAIN guilds \ {LeastRecentGuild}
            new == [unavailable |-> unavailable,
                    channels |-> Take(snapshot, MaxChannelsPerGuild),
                    threads |-> << >>,
                    touched |-> topologyClock']
        IN  guilds' = [h \in room \cup {g} |-> IF h = g THEN new ELSE guilds[h]]

\* apply_guild_update: a GUILD_UPDATE that carries unavailable sets it; one
\* that does not only stamps the guild.
ApplyGuildUpdate(g, unavailable) ==
  \/ ~Known(g) /\ UNCHANGED topologyVars
  \/ /\ Known(g)
     /\ Touch(g, [guilds[g] EXCEPT !.unavailable =
                    IF unavailable = Absent THEN @ ELSE unavailable])

\* Mutant: a removal is taken for an outage.
ApplyGuildDeleteKeeping(g, unavailable) ==
  \/ ~Known(g) /\ UNCHANGED topologyVars
  \/ Known(g) /\ Touch(g, [guilds[g] EXCEPT !.unavailable = TRUE])

\* GUILD_DELETE: an outage marks the guild, a removal forgets it.
ApplyGuildDelete(g, unavailable) ==
  \/ ~Known(g) /\ UNCHANGED topologyVars
  \/ Known(g) /\ unavailable /\ Touch(g, [guilds[g] EXCEPT !.unavailable = TRUE])
  \/ /\ Known(g) /\ ~unavailable
     /\ guilds' = [h \in DOMAIN guilds \ {g} |-> guilds[h]]
     /\ UNCHANGED topologyClock
----------------------------------------------------------------------------
(* Channels and threads *)

\* apply_channel_change, of CHANNEL_CREATE and CHANNEL_UPDATE alike.
ApplyChannelChange(g, c) ==
  \/ ~Known(g) /\ UNCHANGED topologyVars
  \/ /\ Known(g)
     /\ Touch(g, [guilds[g] EXCEPT !.channels =
          IF c \in Items(@) \/ Len(@) >= MaxChannelsPerGuild THEN @ ELSE Append(@, c)])

ApplyChannelDelete(g, c) ==
  \/ ~Known(g) /\ UNCHANGED topologyVars
  \/ /\ Known(g)
     /\ Touch(g, [guilds[g] EXCEPT
          !.channels = Retain(@, Items(@) \ {c}),
          !.threads = Retain(@, {t \in Items(@) : t.parent # c})])

\* Mutant: a full list takes one more thread.
PutThreadBeyond(s, t) ==
  IF \E i \in DOMAIN s : s[i].id = t.id
  THEN [s EXCEPT ![CHOOSE i \in DOMAIN s : s[i].id = t.id] = t]
  ELSE IF Len(s) > MaxThreadsPerGuild THEN s ELSE Append(s, t)

\* A thread into the cached list: in place of the one with its id, or to the
\* back when there is room.
PutThread(s, t) ==
  IF \E i \in DOMAIN s : s[i].id = t.id
  THEN [s EXCEPT ![CHOOSE i \in DOMAIN s : s[i].id = t.id] = t]
  ELSE IF Len(s) >= MaxThreadsPerGuild THEN s ELSE Append(s, t)

DropThread(s, id) == Retain(s, {t \in Items(s) : t.id # id})

\* apply_thread_change, of THREAD_CREATE and THREAD_UPDATE alike.
ApplyThreadChange(t) ==
  \/ ~Known(t.guild) /\ UNCHANGED topologyVars
  \/ /\ Known(t.guild)
     /\ Touch(t.guild, [guilds[t.guild] EXCEPT !.threads =
          IF t.archived THEN DropThread(@, t.id) ELSE PutThread(@, AsCached(t))])

ApplyThreadDelete(g, id) ==
  \/ ~Known(g) /\ UNCHANGED topologyVars
  \/ Known(g) /\ Touch(g, [guilds[g] EXCEPT !.threads = DropThread(@, id)])

\* A thread is in the scope of a sync when the sync has no parent list or has
\* its parent in it; a thread without parent is in no list.
InScope(t, scope) == scope = Absent \/ t.parent \in scope

\* Mutant: the scope is emptied of what the sync lists only.
SyncedThreadsKept(g, scope, list) ==
  LET cached == guilds[g].threads
      put[i \in 0..Len(list)] ==
        IF i = 0 THEN cached
        ELSE IF Active(list[i], g) THEN PutThread(put[i-1], AsCached(list[i]))
        ELSE DropThread(put[i-1], list[i].id)
  IN  put[Len(list)]

\* apply_thread_list_sync: the scope is emptied, then the active threads are
\* put one after the other.
SyncedThreads(g, scope, list) ==
  LET cached == guilds[g].threads
      put[i \in 0..Len(list)] ==
        IF i = 0 THEN Retain(cached, {t \in Items(cached) : ~InScope(t, scope)})
        ELSE IF Active(list[i], g) THEN PutThread(put[i-1], AsCached(list[i]))
        ELSE put[i-1]
  IN  put[Len(list)]

ApplyThreadListSync(g, scope, list) ==
  \/ ~Known(g) /\ UNCHANGED topologyVars
  \/ /\ Known(g)
     /\ Touch(g, [guilds[g] EXCEPT !.threads = SyncedThreads(g, scope, list)])
----------------------------------------------------------------------------
TopologyInit == guilds = << >> /\ topologyClock = 0

\* The unavailable field of a GUILD_UPDATE.
Flags == {TRUE, FALSE, Absent}

TopologyNext ==
  \/ \E g \in GuildIds, u \in BOOLEAN, s \in Snapshots : ApplyGuildCreate(g, u, s)
  \/ \E g \in GuildIds, u \in Flags : ApplyGuildUpdate(g, u)
  \/ \E g \in GuildIds, u \in BOOLEAN : ApplyGuildDelete(g, u)
  \/ \E g \in GuildIds, c \in GuildChannelIds : ApplyChannelChange(g, c)
  \/ \E g \in GuildIds, c \in GuildChannelIds : ApplyChannelDelete(g, c)
  \/ \E t \in Thread : ApplyThreadChange(t)
  \/ \E g \in GuildIds, id \in ThreadIds : ApplyThreadDelete(g, id)
  \/ \E g \in GuildIds, scope \in Scopes, l \in ThreadLists : ApplyThreadListSync(g, scope, l)

TopologySpec == TopologyInit /\ [][TopologyNext]_topologyVars
----------------------------------------------------------------------------
(* Properties *)

\* The state has the types of the struct.
TopologyTypeOK ==
  /\ DOMAIN guilds \subseteq GuildIds
  /\ guilds \in [DOMAIN guilds -> Guild]
  /\ topologyClock \in Nat

\* Whatever events come in, no limit is exceeded, no channel and no thread is
\* listed twice, and the stamps name one least recently used guild.
TopologyBounded ==
  /\ TopologyTypeOK
  /\ IsFiniteSet(DOMAIN guilds)
  /\ Cardinality(DOMAIN guilds) <= MaxGuilds
  /\ \A g \in DOMAIN guilds :
       /\ Len(guilds[g].channels) <= MaxChannelsPerGuild
       /\ Len(guilds[g].threads) <= MaxThreadsPerGuild
       /\ Distinct(guilds[g].channels)
       /\ Distinct(ThreadIdsOf(guilds[g].threads))
       /\ guilds[g].touched <= topologyClock
  /\ \A g, h \in DOMAIN guilds : guilds[g].touched = guilds[h].touched => g = h

\* A sync leaves in its scope exactly the active threads it lists and does not
\* touch the threads outside, as long as they fit; when they do not, it only
\* ever leaves out threads of its own list
\* (docs/thread-topology.md, "Thread list sync").
SyncIsExact ==
  \A g \in DOMAIN guilds, scope \in Scopes, l \in ThreadLists :
    LET cached == Items(guilds[g].threads)
        outside == {t.id : t \in {u \in cached : ~InScope(u, scope)}}
        listed == {t.id : t \in {u \in Items(l) : Active(u, g)}}
        after == Items(ThreadIdsOf(SyncedThreads(g, scope, l)))
    IN  /\ outside \subseteq after
        /\ after \subseteq outside \cup listed
        /\ Cardinality(outside \cup listed) <= MaxThreadsPerGuild
             => after = outside \cup listed

\* An outage never costs a cached channel or thread: as long as a guild stays
\* cached and is flagged unavailable by a step, what it had is still there,
\* unless the step is a snapshot that says otherwise
\* (docs/guild-channel-topology.md).
OutageKeepsTopology ==
  [][\A g \in DOMAIN guilds \cap DOMAIN guilds' :
       ~guilds[g].unavailable /\ guilds'[g].unavailable
         => \/ /\ guilds'[g].channels = guilds[g].channels
               /\ guilds'[g].threads = guilds[g].threads
            \/ \E s \in Snapshots \ {<< >>} : ApplyGuildCreate(g, TRUE, s)
    ]_topologyVars

=============================================================================
