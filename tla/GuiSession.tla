----------------------------- MODULE GuiSession -----------------------------
(***************************************************************************)
(* A session of the graphical client (GuiSession, src/src/gui_app.rs) with *)
(* its two caches on two receivers of one bus: FrontendState, whose        *)
(* tombstones decide whether a message is shown, and DirectTopologyState,  *)
(* whose list decides whether its conversation is.  The Gateway task reads *)
(* dispatches, turns each into events and sends these one by one; the      *)
(* thread of the frontend polls, draws, and lets the user select.          *)
(*                                                                         *)
(* Discord is external: it may dispatch anything in Dispatches.            *)
(***************************************************************************)
EXTENDS Ingestion, DirectTopology, FrameLoop

CONSTANTS
  Dispatches,      \* what the Gateway may dispatch
  MaxDispatches,   \* bound of the model: dispatches in a behaviour
  MaxFetches       \* bound of the model: history requests in a behaviour

ASSUME SessionAssumption ==
  /\ Conversations = DirectIds
  /\ NoRecipient = Absent
  /\ Pages # {}

\* The fields of an event name channels, guilds, users and messages of the model.
FieldsTyped(e) ==
  /\ e.kind \in {"GuildCreate", "GuildUpdate", "GuildDelete", "ChannelCreate", "ChannelUpdate",
                 "ChannelDelete", "ThreadDelete", "ThreadListSync"} => e.guild \in GuildIds
  /\ e.kind = "GuildCreate" => e.unavailable \in BOOLEAN /\ e.channels \in Snapshots
  /\ e.kind = "GuildUpdate" => e.unavailable \in Flags
  /\ e.kind = "GuildDelete" => e.unavailable \in BOOLEAN
  /\ e.kind \in {"ChannelCreate", "ChannelUpdate", "ChannelDelete"} => e.id \in GuildChannelIds
  /\ e.kind \in {"ThreadCreate", "ThreadUpdate"} => e.thread \in Thread
  /\ e.kind = "ThreadDelete" => e.id \in ThreadIds
  /\ e.kind = "ThreadListSync" => e.scope \in Scopes /\ e.threads \in ThreadLists
  /\ e.kind \in {"DirectChannelCreate", "DirectChannelUpdate", "DirectChannelDelete"} =>
       e.id \in Conversations
  /\ e.kind \in {"DirectChannelCreate", "DirectChannelUpdate"} =>
       e.recipient \in Users \cup {NoRecipient}
  /\ e.kind \in {"Message", "MessageUpdate", "MessageDelete"} =>
       e.channel \in ChannelIds /\ e.id \in MsgIds
  /\ e.kind = "Message" => e.body \in Bodies
  /\ e.kind = "MessageUpdate" => e.content \in Bodies \cup {Unchanged}

ASSUME DispatchAssumption ==
  /\ \A d \in Dispatches : d.t \in DispatchNames
  /\ \A d \in Dispatches, u \in Users \cup {Absent} :
       SelfAfter(d, u) \in Users \cup {Absent} /\ EventsOf(d, u) \in Seq(Events)
  /\ \A e \in Events : FieldsTyped(e)

VARIABLES
  outbox,     \* the events of the last dispatch that are not yet sent
  selfUser,   \* the self_user watch
  selected,   \* selected_channel
  fetches,    \* the channels of the history requests not yet answered
  last,       \* of the model: the last dispatch
  closed,     \* of the model: the conversations Discord has closed
  forgotten,  \* of the model: the channels whose tombstone a full FIFO gave up
  dispatches, \* of the model: counts
  asked

gatewayVars == <<outbox, selfUser, last, closed, dispatches>>
userVars == <<selected, fetches, asked>>
cacheVars == <<vars, directVars, forgotten>>
sessionVars == <<gatewayVars, userVars, cacheVars, LoopVars>>
----------------------------------------------------------------------------
(* The Gateway task *)

Closes(d) == d.t = "CHANNEL_DELETE" /\ d.guild = Absent

\* What makes a conversation active again: it is announced, or somebody writes.
Opens(d, self) ==
  \/ d.t \in {"CHANNEL_CREATE", "CHANNEL_UPDATE"} /\ d.guild = Absent /\ d.oneToOne
  \/ d.t = "MESSAGE_CREATE" /\ IsInbound(d, self)

ChannelIn(d) == IF d.t = "MESSAGE_CREATE" THEN d.channel ELSE d.id

\* run_connection reads a dispatch.
ReadDispatch(d) ==
  /\ outbox = << >>
  /\ dispatches < MaxDispatches /\ dispatches' = dispatches + 1
  /\ selfUser' = SelfAfter(d, selfUser)
  /\ outbox' = EventsOf(d, selfUser')
  /\ last' = d
  /\ closed' = IF Closes(d) THEN closed \cup {d.id}
               ELSE IF Opens(d, selfUser) THEN closed \ {ChannelIn(d)} ELSE closed
  /\ UNCHANGED <<userVars, cacheVars, LoopVars>>

SendEvent ==
  /\ outbox # << >> /\ outbox' = Tail(outbox)
  /\ Send(Head(outbox))
  /\ UNCHANGED <<selfUser, last, closed, dispatches, userVars, cacheVars, frameVars>>
----------------------------------------------------------------------------
(* The thread of the frontend: poll *)

\* DirectTopologyState::apply
ApplyDirect(e) ==
  \/ /\ e.kind \in {"DirectChannelCreate", "DirectChannelUpdate"}
     /\ UpsertDirect(e.id, e.recipient)
  \/ e.kind = "DirectChannelDelete" /\ RemoveDirect(e.id)
  \/ e.kind \in {"Message", "MessageUpdate", "MessageDelete"} /\ TouchDirect(e.channel)
  \/ /\ e.kind \notin {"DirectChannelCreate", "DirectChannelUpdate", "DirectChannelDelete",
                       "Message", "MessageUpdate", "MessageDelete"}
     /\ UNCHANGED directVars

\* The tombstones that the FIFO had no room for beside the new ones.
GivenUp ==
  IF Cardinality(Items(retired) \cup Items(retired')) > MaxRetired
  THEN Items(retired) \ Items(retired') ELSE {}

DrainGateway ==
  /\ Drain("gateway")
  /\ Apply(NextEvent("gateway"))
  /\ forgotten' = (forgotten \cup GivenUp) \ Items(retired')
  /\ UNCHANGED <<directVars, gatewayVars, userVars>>

DrainDirect ==
  /\ Drain("direct")
  /\ ApplyDirect(NextEvent("direct"))
  /\ UNCHANGED <<vars, forgotten, gatewayVars, userVars>>

\* drain_rest: a page has arrived, or the request has failed.
DrainRest ==
  /\ phase = "rest" /\ fetches # << >>
  /\ fetches' = Tail(fetches)
  /\ \/ \E page \in Pages : RestFetched(Head(fetches), page)
     \/ UNCHANGED vars
  /\ UNCHANGED <<directVars, forgotten, gatewayVars, selected, asked, LoopVars>>

\* The steps of poll that apply nothing: answers may still be on their way.
PollElse ==
  /\ \/ StartFrame \/ EndRest
     \/ \E r \in Receivers : SkipLost(r) \/ EndDrain(r)
  /\ UNCHANGED <<gatewayVars, userVars, cacheVars>>
----------------------------------------------------------------------------
(* The thread of the frontend: the user *)

\* select_channel, of a listed conversation: an empty timeline is asked for,
\* unless the queue refuses the request.
SelectChannel(c) ==
  /\ phase = "draw" /\ Listed(c)
  /\ selected' = c
  /\ \/ /\ selected # c
        /\ c \in DOMAIN channels => channels[c].messages = << >>
        /\ asked < MaxFetches /\ asked' = asked + 1
        /\ fetches' = Append(fetches, c)
     \/ UNCHANGED <<fetches, asked>>
  /\ UNCHANGED <<gatewayVars, cacheVars, LoopVars>>

\* select_guild, select_direct_messages, back_to_channels, back_to_servers
Deselect ==
  /\ phase = "draw" /\ selected # Absent
  /\ selected' = Absent
  /\ UNCHANGED <<fetches, asked, gatewayVars, cacheVars, LoopVars>>
----------------------------------------------------------------------------
SessionInit ==
  /\ Init /\ DirectInit /\ LoopInit
  /\ outbox = << >> /\ selfUser = Absent /\ selected = Absent /\ fetches = << >>
  /\ last = [t |-> "none"] /\ closed = {} /\ forgotten = {}
  /\ dispatches = 0 /\ asked = 0

PollStep == DrainGateway \/ DrainDirect \/ DrainRest \/ PollElse
Gateway == SendEvent \/ \E d \in Dispatches : ReadDispatch(d)
User == Deselect \/ \E c \in DirectIds : SelectChannel(c)

SessionNext == PollStep \/ Gateway \/ User

SessionSpec == SessionInit /\ [][SessionNext]_sessionVars
----------------------------------------------------------------------------
(* Properties *)

Whole == outbox = << >> /\ \A r \in Receivers : NeverOvertaken(r)
AllRead(r) == unread[r] = << >>

\* A conversation that is listed when a frame is drawn is one whose messages
\* are shown, or its opening is on the bus and the next drain applies it:
\* although the two caches read the bus at their own pace, none that the
\* message cache has closed is still offered.  Only an overtaken receiver
\* breaks it, and then nothing repairs it until the conversation opens again.
ListedIsHeard ==
  phase = "draw" /\ (\A r \in Receivers : NeverOvertaken(r)) =>
    \A c \in DOMAIN direct :
      IsRetired(c) =>
        \E e \in Items(unread["gateway"]) :
          e.kind \in {"DirectChannelCreate", "DirectChannelUpdate"} /\ e.id = c

\* Once both caches have read the bus, a conversation Discord has closed is in
\* neither, whatever edits, echoes of own messages and history pages arrive
\* after the deletion (docs/direct-cache-convergence.md, "Deletion convergence").
\* Only one whose tombstone later deletions have pushed out of the full FIFO may
\* have a timeline again; it is listed no more than the others.
ClosedIsGone ==
  Whole /\ AllRead("gateway") =>
    \A c \in closed : /\ c \in DOMAIN channels => c \in forgotten
                      /\ AllRead("direct") => ~Listed(c)

\* A history page has been applied, and pages do push messages out: a younger
\* one takes the last place of the timeline, and a page for another channel the
\* last place of the cache.
PushedOut(c, id) ==
  /\ asked > Len(fetches)
  /\ \/ Cardinality(DOMAIN channels) = MaxChannels
     \/ /\ c \in DOMAIN channels
        /\ Len(channels[c].messages) = MaxMessages
        /\ \E m \in Items(channels[c].messages) : m.id > id

\* docs/dm-message-discovery.md, "Ordering": whatever was closed or evicted
\* before, once an inbound direct message is read it is in its timeline, unless
\* history has pushed it out, and its conversation is listed under the name of
\* its author.
InboundIsShown ==
  Whole /\ last.t = "MESSAGE_CREATE" /\ IsInbound(last, selfUser) =>
    /\ AllRead("gateway") =>
         \/ last.channel \in DOMAIN channels /\ HasId(channels[last.channel].messages, last.id)
         \/ PushedOut(last.channel, last.id)
    /\ AllRead("direct") =>
         Listed(last.channel) /\ direct[last.channel].recipient = last.author

\* "Self-echo protection" there: no conversation is ever listed under the name
\* of the client itself, whether it knows itself yet or not.
RecipientIsOther == \A c \in DOMAIN direct : direct[c].recipient # selfUser \/ selfUser = Absent
=============================================================================
