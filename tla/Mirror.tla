------------------------------- MODULE Mirror -------------------------------
(***************************************************************************)
(* Does the navigation cache mirror the guild?  One guild on the server,   *)
(* its dispatches through run_connection (src/src/gateway/connection.rs),  *)
(* the bus, and FrontendState, which drains it whenever it likes and may   *)
(* be overtaken.                                                           *)
(*                                                                         *)
(* The server is external.  It dispatches every change of a guild it       *)
(* serves; what changes during an outage or while the client has no        *)
(* session is silent, and a GUILD_CREATE tells the outcome.  The truth     *)
(* here is what the dispatches that were read so far say.                  *)
(***************************************************************************)
EXTENDS Ingestion, EventBus

CONSTANTS
  TheGuild,        \* the guild
  TheMessage,      \* a message, the same wherever it is posted
  ListOf(_),       \* the threads of a set as a payload lists them
  ChannelList(_),  \* the channels of a set as a payload lists them
  MaxDispatches    \* bound of the model: dispatches in a behaviour

\* Threads as the list of a snapshot or a sync holds them: all active, each once.
OneEach(S) == \A t, u \in S : t.id = u.id => t = u
Listings == {S \in SUBSET [id : ThreadIds, guild : {TheGuild}, parent : GuildChannelIds,
                           archived : {FALSE}] : OneEach(S)}

\* There is room for all the guild has.
ASSUME MirrorAssumption ==
  /\ GuildIds = {TheGuild} /\ Absent \notin GuildIds /\ Receivers = {"gateway"}
  /\ TheMessage \in Message
  /\ IsFiniteSet(GuildChannelIds) /\ Cardinality(GuildChannelIds) <= MaxChannelsPerGuild
  /\ IsFiniteSet(ThreadIds) /\ Cardinality(ThreadIds) <= MaxThreadsPerGuild
  /\ Absent \in Scopes
  /\ \A S \in SUBSET GuildChannelIds :
       ChannelList(S) \in Snapshots /\ Items(ChannelList(S)) = S
  /\ \A S \in Listings : ListOf(S) \in ThreadLists /\ Items(ListOf(S)) = S

VARIABLES
  serving,     \* "live", or why the guild is silent: "outage", "away", "ready"
  member,      \* whether the client is in the guild
  chans,       \* the channels of the guild
  active,      \* its active threads: functions from id to parent
  leftAway,    \* whether the client was removed while it had no session
  outbox,      \* the events of the last dispatch that are not yet sent
  lost,        \* "yes" when a loss is not made good; "half" between the two
               \* events of a snapshot that makes it good
  dispatches   \* counts

guildVars == <<serving, member, chans, active, leftAway>>
mirrorVars == <<guildVars, outbox, lost, dispatches, busVars, vars>>

ActiveThreads == {[id |-> t, parent |-> active[t]] : t \in DOMAIN active}
AsThread(t, archived) ==
  [id |-> t.id, guild |-> TheGuild, parent |-> t.parent, archived |-> archived]

\* The client reads dispatch d.
ReadDispatch(d) ==
  /\ outbox = << >> /\ outbox' = EventsOf(d, Absent)
  /\ dispatches < MaxDispatches /\ dispatches' = dispatches + 1
  /\ UNCHANGED <<lost, busVars, vars>>

\* A change of the guild is dispatched only while the server serves it; the
\* silent ones count against the bound as well.
Tell(d) ==
  \/ serving = "live" /\ ReadDispatch(d)
  \/ /\ serving \in {"outage", "away"}
     /\ dispatches < MaxDispatches /\ dispatches' = dispatches + 1
     /\ UNCHANGED <<outbox, lost, busVars, vars>>

Snapshot(unavailable) ==
  [t |-> "GUILD_CREATE", guild |-> TheGuild, unavailable |-> unavailable,
   channels |-> IF unavailable THEN << >> ELSE ChannelList(chans),
   threads |-> IF unavailable THEN << >>
               ELSE ListOf({AsThread(t, FALSE) : t \in ActiveThreads})]
----------------------------------------------------------------------------
(* The server: channels and threads *)

MakeChannel(c) ==
  /\ member /\ c \notin chans /\ chans' = chans \cup {c}
  /\ Tell([t |-> "CHANNEL_CREATE", guild |-> TheGuild, id |-> c, oneToOne |-> FALSE])
  /\ UNCHANGED <<serving, member, active, leftAway>>

EditChannel(c) ==
  /\ member /\ c \in chans
  /\ Tell([t |-> "CHANNEL_UPDATE", guild |-> TheGuild, id |-> c, oneToOne |-> FALSE])
  /\ UNCHANGED guildVars

\* The threads of a channel go with it; no dispatch names them.
RemoveChannel(c) ==
  /\ member /\ c \in chans /\ chans' = chans \ {c}
  /\ active' = [t \in {u \in DOMAIN active : active[u] # c} |-> active[t]]
  /\ Tell([t |-> "CHANNEL_DELETE", guild |-> TheGuild, id |-> c])
  /\ UNCHANGED <<serving, member, leftAway>>

\* A thread is created, or one that was archived becomes active again.
StartThread(t, c, how) ==
  /\ member /\ c \in chans /\ t \notin DOMAIN active
  /\ active' = [u \in DOMAIN active \cup {t} |-> IF u = t THEN c ELSE active[u]]
  /\ Tell([t |-> how, thread |-> AsThread([id |-> t, parent |-> c], FALSE)])
  /\ UNCHANGED <<serving, member, chans, leftAway>>

EndThread(t, archived) ==
  /\ member /\ t \in DOMAIN active
  /\ active' = [u \in DOMAIN active \ {t} |-> active[u]]
  /\ Tell(IF archived
          THEN [t |-> "THREAD_UPDATE",
                thread |-> AsThread([id |-> t, parent |-> active[t]], TRUE)]
          ELSE [t |-> "THREAD_DELETE", guild |-> TheGuild, id |-> t])
  /\ UNCHANGED <<serving, member, chans, leftAway>>

\* The client gains access to channels: their active threads are listed.
SyncThreads(scope) ==
  /\ member /\ serving = "live" /\ (scope # Absent => scope \subseteq chans)
  /\ Tell([t |-> "THREAD_LIST_SYNC", guild |-> TheGuild, scope |-> scope,
           threads |-> ListOf({AsThread(t, FALSE) :
                                 t \in {u \in ActiveThreads : InScope(u, scope)}})])
  /\ UNCHANGED guildVars

\* A message of somebody in the guild is posted, edited, or deleted, also in bulk.
Talk(c) ==
  /\ member /\ serving = "live" /\ c \in chans \cup DOMAIN active
  /\ \/ Tell([t |-> "MESSAGE_CREATE", guild |-> TheGuild, channel |-> c,
              id |-> TheMessage.id, body |-> TheMessage.body, author |-> Malformed])
     \/ Tell([t |-> "MESSAGE_UPDATE", channel |-> c, id |-> TheMessage.id, content |-> Absent])
     \/ Tell([t |-> "MESSAGE_DELETE", channel |-> c, id |-> TheMessage.id])
     \/ Tell([t |-> "MESSAGE_DELETE_BULK", channel |-> c, ids |-> <<TheMessage.id>>])
  /\ UNCHANGED guildVars
----------------------------------------------------------------------------
(* The server: the guild and the session *)

\* What does not change what there is: a new name of the guild or of the client,
\* a connection that is lost and resumed, all it missed replayed before RESUMED.
Rename ==
  /\ serving = "live"
  /\ \/ member /\ Tell([t |-> "GUILD_UPDATE", guild |-> TheGuild, unavailable |-> Absent])
     \/ Tell([t |-> "USER_UPDATE", user |-> Malformed])
     \/ Tell([t |-> "RESUMED"])
  /\ UNCHANGED guildVars

Join ==
  /\ ~member /\ serving = "live" /\ member' = TRUE /\ leftAway' = FALSE
  /\ Tell(Snapshot(FALSE))
  /\ UNCHANGED <<serving, chans, active>>

Leave ==
  /\ member /\ member' = FALSE /\ serving # "outage"
  /\ leftAway' = (serving = "away")
  /\ Tell([t |-> "GUILD_DELETE", guild |-> TheGuild, unavailable |-> FALSE])
  /\ UNCHANGED <<serving, chans, active>>

Outage ==
  /\ member /\ serving = "live" /\ serving' = "outage"
  /\ ReadDispatch([t |-> "GUILD_DELETE", guild |-> TheGuild, unavailable |-> TRUE])
  /\ UNCHANGED <<member, chans, active, leftAway>>

\* The connection is lost and the session with it.
LoseSession ==
  /\ serving = "live" /\ serving' = "away" /\ outbox = << >>
  /\ UNCHANGED <<member, chans, active, leftAway, outbox, lost, dispatches, busVars, vars>>

\* The client identifies anew: READY, then a snapshot of each guild it is in,
\* which may be one of an outage at first.
Identified ==
  /\ serving = "away" /\ serving' = IF member THEN "ready" ELSE "live"
  /\ ReadDispatch([t |-> "READY", user |-> Malformed])
  /\ UNCHANGED <<member, chans, active, leftAway>>

Served ==
  /\ \/ serving = "ready" /\ serving' = "outage" /\ ReadDispatch(Snapshot(TRUE))
     \/ serving \in {"ready", "outage"} /\ serving' = "live" /\ ReadDispatch(Snapshot(FALSE))
  /\ UNCHANGED <<member, chans, active, leftAway>>
----------------------------------------------------------------------------
(* The client *)

SendEvent ==
  /\ outbox # << >> /\ outbox' = Tail(outbox)
  /\ Send(Head(outbox))
  /\ UNCHANGED <<guildVars, lost, dispatches, vars>>

DrainEvent ==
  /\ ReadNext("gateway")
  /\ LET e == NextEvent("gateway")
     IN  /\ Apply(e)
         /\ lost' = IF lost = "yes" /\ e.kind = "GuildCreate" /\ ~e.unavailable THEN "half"
                    ELSE IF lost = "half" THEN "no" ELSE lost
  /\ UNCHANGED <<guildVars, outbox, dispatches>>

SkipLost ==
  /\ TellLag("gateway") /\ lost' = "yes"
  /\ UNCHANGED <<guildVars, outbox, dispatches, vars>>
----------------------------------------------------------------------------
MirrorInit ==
  /\ Init /\ BusInit
  /\ serving = "live" /\ member = FALSE /\ leftAway = FALSE
  /\ chans \in SUBSET GuildChannelIds /\ active = << >>
  /\ outbox = << >> /\ lost = "no" /\ dispatches = 0

Server ==
  \/ \E c \in GuildChannelIds : MakeChannel(c) \/ EditChannel(c) \/ RemoveChannel(c)
  \/ \E t \in ThreadIds, c \in GuildChannelIds, how \in {"THREAD_CREATE", "THREAD_UPDATE"} :
       StartThread(t, c, how)
  \/ \E t \in ThreadIds, a \in BOOLEAN : EndThread(t, a)
  \/ \E scope \in Scopes : SyncThreads(scope)
  \/ \E c \in GuildChannelIds \cup ThreadIds : Talk(c)
  \/ Rename \/ Join \/ Leave \/ Outage \/ LoseSession \/ Identified \/ Served

Client == SendEvent \/ DrainEvent \/ SkipLost

MirrorNext == Server \/ Client
MirrorSpec == MirrorInit /\ [][MirrorNext]_mirrorVars
----------------------------------------------------------------------------
(* Properties *)

\* Every event that was sent is applied, and the server has told what there is.
Settled ==
  /\ outbox = << >> /\ unread["gateway"] = << >> /\ ~missed["gateway"]
  /\ serving = "live"

\* Once the bus is read the navigation shows exactly the channels and active
\* threads of the guild, through deletions that take threads along, archivings,
\* scoped syncs, outages and new sessions.  An overtaken receiver is put right by
\* the next snapshot it reads whole, whatever it missed (docs/thread-topology.md,
\* "Memory and lag behavior").
NavigationConverges ==
  Settled /\ lost = "no" /\ member =>
    /\ Known(TheGuild) /\ ~guilds[TheGuild].unavailable
    /\ Items(ChannelsOf(TheGuild)) = chans
    /\ Items(ThreadsOf(TheGuild)) = ActiveThreads

\* A guild the client is not in is not shown, unless it was removed while the
\* client had no session: READY forgets nothing and no snapshot follows.
NoForeignGuild ==
  Settled /\ lost = "no" /\ ~member /\ ~leftAway => ~Known(TheGuild)

\* The message cache then holds no timeline of a channel or thread that is
\* gone, as long as the receiver was never overtaken: the snapshot that puts
\* navigation right cannot retire what navigation never knew.
NoGhostTimelines ==
  Settled /\ ~lagged["gateway"] /\ ~leftAway =>
    DOMAIN channels \subseteq IF member THEN chans \cup DOMAIN active ELSE {}
=============================================================================
