--------------------------- MODULE FrontendState ---------------------------
(***************************************************************************)
(* FrontendState::apply and apply_rest (src/src/state.rs): the presentation *)
(* state of the client, composed of the message cache of Timelines and the *)
(* navigation cache of Topology.  A topology event first retires the       *)
(* timelines of what it removes, reading the topology as it was, then      *)
(* changes the topology, then restores the ids it makes active; the three  *)
(* are one step here as they are one call there.                           *)
(***************************************************************************)
EXTENDS Timelines, Topology

CONSTANTS
  DirectIds   \* the channel ids of direct messages

ASSUME FrontendAssumption ==
  GuildChannelIds \cup ThreadIds \cup DirectIds \subseteq ChannelIds

VARIABLE gatewayReady   \* gateway_ready

vars == <<timelineVars, topologyVars, gatewayReady>>
----------------------------------------------------------------------------
(* invalidate_topology_timelines: the ids an event retires, in its order.  *)

\* A new snapshot of an available guild: each cached channel it leaves out,
\* followed by its threads.
RetiredBySnapshot(g, snapshot) ==
  LET cached == ChannelsOf(g)
      gone[i \in 0..Len(cached)] ==
        IF i = 0 THEN << >>
        ELSE IF cached[i] \in Items(snapshot) THEN gone[i-1]
        ELSE gone[i-1] \o <<cached[i]>> \o ThreadsForParent(g, cached[i])
  IN  gone[Len(cached)]

RetiredByGuildDelete(g) == ChannelsOf(g) \o ThreadIdsOf(ThreadsOf(g))

\* Mutant: the threads of the channel are forgotten.
RetiredByChannelAlone(g, c) == <<c>>

\* A deleted channel, known or not, followed by its cached threads.
RetiredByChannelDelete(g, c) == <<c>> \o ThreadsForParent(g, c)

\* Cached threads in the scope of a sync that it does not list as active.
RetiredBySync(g, scope, list) ==
  LET cached == ThreadsOf(g)
      listed == {t.id : t \in {u \in Items(list) : Active(u, g)}}
  IN  ThreadIdsOf(Retain(cached,
        {t \in Items(cached) : InScope(t, scope) /\ t.id \notin listed}))

\* restore_topology_timelines, of a sync.
RestoredBySync(g, list) == {t.id : t \in {u \in Items(list) : Active(u, g)}}
----------------------------------------------------------------------------
(* apply: the events of the Gateway *)

\* GatewayReady and GatewayResumed; nothing ever clears the flag.
GatewayUp ==
  /\ gatewayReady' = TRUE
  /\ UNCHANGED <<timelineVars, topologyVars>>

GuildCreate(g, unavailable, snapshot) ==
  /\ IF unavailable THEN UNCHANGED timelineVars
     ELSE Retopology(RetiredBySnapshot(g, snapshot), Items(snapshot))
  /\ ApplyGuildCreate(g, unavailable, snapshot)
  /\ UNCHANGED gatewayReady

GuildUpdate(g, unavailable) ==
  /\ ApplyGuildUpdate(g, unavailable)
  /\ UNCHANGED <<timelineVars, gatewayReady>>

GuildDelete(g, unavailable) ==
  /\ IF unavailable THEN UNCHANGED timelineVars
     ELSE Retopology(RetiredByGuildDelete(g), {})
  /\ ApplyGuildDelete(g, unavailable)
  /\ UNCHANGED gatewayReady

ChannelCreate(g, c) ==
  /\ Retopology(<< >>, {c})
  /\ ApplyChannelChange(g, c)
  /\ UNCHANGED gatewayReady

\* CHANNEL_UPDATE changes the topology like a create, but restores nothing.
ChannelUpdate(g, c) ==
  /\ ApplyChannelChange(g, c)
  /\ UNCHANGED <<timelineVars, gatewayReady>>

ChannelDelete(g, c) ==
  /\ Retopology(RetiredByChannelDelete(g, c), {})
  /\ ApplyChannelDelete(g, c)
  /\ UNCHANGED gatewayReady

\* THREAD_CREATE never retires, even when the thread is archived.
ThreadCreate(t) ==
  /\ Retopology(<< >>, IF t.archived THEN {} ELSE {t.id})
  /\ ApplyThreadChange(t)
  /\ UNCHANGED gatewayReady

\* Mutant: the update of an active thread does not lift its tombstone.
ThreadUpdateForgetting(t) ==
  /\ IF t.archived THEN Retopology(<<t.id>>, {}) ELSE UNCHANGED timelineVars
  /\ ApplyThreadChange(t)
  /\ UNCHANGED gatewayReady

\* THREAD_UPDATE retires an archived thread and restores an active one.
ThreadUpdate(t) ==
  /\ IF t.archived THEN Retopology(<<t.id>>, {}) ELSE Retopology(<< >>, {t.id})
  /\ ApplyThreadChange(t)
  /\ UNCHANGED gatewayReady

ThreadDelete(g, id) ==
  /\ Retopology(<<id>>, {})
  /\ ApplyThreadDelete(g, id)
  /\ UNCHANGED gatewayReady

ThreadListSync(g, scope, list) ==
  /\ Retopology(RetiredBySync(g, scope, list), RestoredBySync(g, list))
  /\ ApplyThreadListSync(g, scope, list)
  /\ UNCHANGED gatewayReady

\* Mutant: an opened conversation keeps its tombstone.
DirectOpenForgetting(c) == UNCHANGED vars

\* DirectChannelCreate and DirectChannelUpdate
DirectOpen(c) ==
  /\ Retopology(<< >>, {c})
  /\ UNCHANGED <<topologyVars, gatewayReady>>

\* Mutant: the timeline goes without a tombstone.
DirectDeleteUnguarded(c) ==
  /\ channels' = Without(channels, {c})
  /\ UNCHANGED <<retired, clock, topologyVars, gatewayReady>>

DirectDelete(c) ==
  /\ Retopology(<<c>>, {})
  /\ UNCHANGED <<topologyVars, gatewayReady>>

OnTimelines(handler) == handler /\ UNCHANGED <<topologyVars, gatewayReady>>

MessageCreated(c, m) == OnTimelines(ApplyMessage(c, m))
MessageUpdated(c, id, content) == OnTimelines(ApplyUpdate(c, id, content))
MessageDeleted(c, id) == OnTimelines(ApplyDelete(c, id))
----------------------------------------------------------------------------
(* apply_rest: the results of the REST worker *)

\* MessageSent; an answer without author is dropped.
RestSent(c, m, authored) == authored /\ OnTimelines(ApplyMessage(c, m))

\* MessageEdited: the whole message with its author, else a partial update.
RestEdited(c, m, authored) ==
  OnTimelines(IF authored THEN ApplyMessage(c, m) ELSE ApplyUpdate(c, m.id, m.body))

RestDeleted(c, id) == OnTimelines(ApplyDelete(c, id))

RestFetched(c, page) == OnTimelines(ApplyHistory(c, page))
----------------------------------------------------------------------------
(* apply, of an event as the bus carries it: a record with its kind. *)
Apply(e) ==
  \/ e.kind \in {"GatewayReady", "GatewayResumed"} /\ GatewayUp
  \/ e.kind = "GuildCreate" /\ GuildCreate(e.guild, e.unavailable, e.channels)
  \/ e.kind = "GuildUpdate" /\ GuildUpdate(e.guild, e.unavailable)
  \/ e.kind = "GuildDelete" /\ GuildDelete(e.guild, e.unavailable)
  \/ e.kind = "ChannelCreate" /\ ChannelCreate(e.guild, e.id)
  \/ e.kind = "ChannelUpdate" /\ ChannelUpdate(e.guild, e.id)
  \/ e.kind = "ChannelDelete" /\ ChannelDelete(e.guild, e.id)
  \/ e.kind = "ThreadCreate" /\ ThreadCreate(e.thread)
  \/ e.kind = "ThreadUpdate" /\ ThreadUpdate(e.thread)
  \/ e.kind = "ThreadDelete" /\ ThreadDelete(e.guild, e.id)
  \/ e.kind = "ThreadListSync" /\ ThreadListSync(e.guild, e.scope, e.threads)
  \/ e.kind \in {"DirectChannelCreate", "DirectChannelUpdate"} /\ DirectOpen(e.id)
  \/ e.kind = "DirectChannelDelete" /\ DirectDelete(e.id)
  \/ e.kind = "Message" /\ MessageCreated(e.channel, [id |-> e.id, body |-> e.body])
  \/ e.kind = "MessageUpdate" /\ MessageUpdated(e.channel, e.id, e.content)
  \/ e.kind = "MessageDelete" /\ MessageDeleted(e.channel, e.id)
----------------------------------------------------------------------------
Init == TimelinesInit /\ TopologyInit /\ gatewayReady = FALSE

GuildEvent ==
  \E g \in GuildIds :
    \/ \E u \in BOOLEAN, s \in Snapshots : GuildCreate(g, u, s)
    \/ \E u \in Flags : GuildUpdate(g, u)
    \/ \E u \in BOOLEAN : GuildDelete(g, u)

ChannelEvent ==
  \E g \in GuildIds, c \in GuildChannelIds :
    ChannelCreate(g, c) \/ ChannelUpdate(g, c) \/ ChannelDelete(g, c)

ThreadEvent ==
  \/ \E t \in Thread : ThreadCreate(t) \/ ThreadUpdate(t)
  \/ \E g \in GuildIds, id \in ThreadIds : ThreadDelete(g, id)
  \/ \E g \in GuildIds, scope \in Scopes, l \in ThreadLists : ThreadListSync(g, scope, l)

DirectEvent == \E c \in DirectIds : DirectOpen(c) \/ DirectDelete(c)

MessageEvent ==
  \E c \in ChannelIds :
    \/ \E m \in Message : MessageCreated(c, m)
    \/ \E id \in MsgIds, content \in Bodies \cup {Unchanged} : MessageUpdated(c, id, content)
    \/ \E id \in MsgIds : MessageDeleted(c, id)

RestEvent ==
  \E c \in ChannelIds :
    \/ \E m \in Message, a \in BOOLEAN : RestSent(c, m, a) \/ RestEdited(c, m, a)
    \/ \E id \in MsgIds : RestDeleted(c, id)
    \/ \E page \in Pages : RestFetched(c, page)

Next ==
  GatewayUp \/ GuildEvent \/ ChannelEvent \/ ThreadEvent \/ DirectEvent
    \/ MessageEvent \/ RestEvent

Spec == Init /\ [][Next]_vars
----------------------------------------------------------------------------
(* Properties *)

\* The ids of the channels and threads that the topology shows as active.
ActiveIds ==
  UNION {Items(guilds[g].channels) \cup Items(ThreadIdsOf(guilds[g].threads)) :
           g \in DOMAIN guilds}

\* docs/cache-invalidation.md: "A topology event that makes an ID active again
\* removes its tombstone."  So it is with every event but CHANNEL_UPDATE and a
\* snapshot of an unavailable guild: whatever order retirements and restorations
\* come in, navigation never gains a channel or thread whose messages would be ignored.
ActivationRestoresButForUpdates ==
  [][\A c \in ActiveIds' \ ActiveIds :
       c \in Items(retired') =>
         \E g \in GuildIds : \/ ChannelUpdate(g, c)
                             \/ \E s \in Snapshots : GuildCreate(g, TRUE, s)]_vars

\* A sync that leaves a guild more active threads than it may cache.
Overfull(g, scope, list) ==
  LET outside == {t.id : t \in {u \in Items(ThreadsOf(g)) : ~InScope(u, scope)}}
  IN  Cardinality(outside \cup RestoredBySync(g, list)) > MaxThreadsPerGuild

\* What leaves the navigation leaves the message cache in the same step, be it
\* by a guild, channel or thread deletion, an archived thread or a snapshot or
\* sync that no longer lists it.  Only what the limits of the topology cache
\* leave out keeps its timeline, and what a snapshot of an unavailable guild or
\* the THREAD_CREATE of an archived thread takes away.
RemovalPurgesTimelines ==
  [][\A c \in ActiveIds \ ActiveIds' :
       c \in DOMAIN channels' =>
         \/ \E g \in GuildIds, u \in BOOLEAN, s \in Snapshots :
              /\ u \/ ~Known(g) \/ Len(s) > MaxChannelsPerGuild
              /\ GuildCreate(g, u, s)
         \/ \E g \in GuildIds, scope \in Scopes, l \in ThreadLists :
              Overfull(g, scope, l) /\ ThreadListSync(g, scope, l)
         \/ \E t \in Thread : t.archived /\ ThreadCreate(t)]_vars

\* The events that say channel or thread c is active again.
Announced(c) ==
  \/ DirectOpen(c)
  \/ \E g \in GuildIds :
       \/ ChannelCreate(g, c)
       \/ \E s \in Snapshots : c \in Items(s) /\ GuildCreate(g, FALSE, s)
       \/ \E scope \in Scopes, l \in ThreadLists :
            c \in RestoredBySync(g, l) /\ ThreadListSync(g, scope, l)
  \/ \E t \in Thread : t.id = c /\ ~t.archived /\ (ThreadCreate(t) \/ ThreadUpdate(t))

\* The events that say channel or thread c is gone.
Retires(c) ==
  \/ DirectDelete(c)
  \/ \E g \in GuildIds :
       \/ c \in Items(RetiredByGuildDelete(g)) /\ GuildDelete(g, FALSE)
       \/ \E s \in Snapshots :
            c \in Items(RetiredBySnapshot(g, s)) /\ GuildCreate(g, FALSE, s)
       \/ \E d \in GuildChannelIds :
            c \in Items(RetiredByChannelDelete(g, d)) /\ ChannelDelete(g, d)
       \/ ThreadDelete(g, c)
       \/ \E scope \in Scopes, l \in ThreadLists :
            c \in Items(RetiredBySync(g, scope, l)) /\ ThreadListSync(g, scope, l)
  \/ \E t \in Thread : t.id = c /\ t.archived /\ ThreadUpdate(t)

\* c got its tombstone after d.
Older(d, c) == \E i, j \in DOMAIN retired : i < j /\ retired[i] = d /\ retired[j] = c

\* A tombstone goes only when an event announces its channel again, or when the
\* FIFO is too small for the new ones and every older one goes as well, but for
\* those the same event sets up anew: no message, no REST answer and no event of
\* another channel lifts it early or out of its turn.  With RetiredHaveNoTimeline,
\* a deleted channel stays without a timeline until one of the two happens.
TombstonesHold ==
  [][\A c \in Items(retired) \ Items(retired') :
       \/ Announced(c)
       \/ /\ Cardinality(Items(retired) \cup Items(retired')) > MaxRetired
          /\ \A d \in Items(retired') : Older(d, c) => Retires(d)]_vars
=============================================================================
