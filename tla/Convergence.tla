---------------------------- MODULE Convergence ----------------------------
(***************************************************************************)
(* Can the message cache disagree with Discord?  One channel on the server,*)
(* the Gateway events about it on their way to the client, and the answers *)
(* of the REST worker on theirs, composed with the cache of Timelines.     *)
(*                                                                         *)
(* The client drains its two buses separately (FrontendState::drain and    *)
(* drain_rest, src/src/state.rs), so an answer may overtake the events the *)
(* server sent before it and be overtaken by those it sent after it.  The  *)
(* worker has one request at a time, so the answers keep their order.  A   *)
(* request whose answer is lost is one that somebody else made.            *)
(*                                                                         *)
(* Nothing is lost on a bus here and the channel is never retired.         *)
(***************************************************************************)
EXTENDS Timelines

CONSTANTS
  Here,       \* the channel
  OldIds,     \* the messages that were there before the client connected
  PageSize,   \* the limit of a history request
  MaxEvents,  \* bound of the model: Gateway events
  MaxAsked    \* bound of the model: REST requests

ASSUME ConvergenceAssumption ==
  /\ Here \in ChannelIds
  /\ OldIds \subseteq MsgIds /\ IsFiniteSet(OldIds)
  /\ PageSize \in Nat \ {0}
  /\ MaxEvents \in Nat /\ MaxAsked \in Nat

VARIABLES
  live,      \* the server: the body of each message that exists
  born,      \* the server: the ids given so far
  emitted,   \* the server: the number of events sent
  asked,     \* the number of requests answered by the server
  gateway,   \* the events the client has not applied, oldest first
  answers    \* the answers the client has not applied, oldest first

serverVars == <<live, born, emitted, asked>>

VARIABLES
  heard,     \* ghost: the last event about each id that was applied
  gone,      \* ghost: the ids whose deletion was applied
  crossed    \* ghost: an answer was applied that later events had overtaken

convergenceVars == <<timelineVars, serverVars, gateway, answers, heard, gone, crossed>>

Cached == IF Here \in DOMAIN channels THEN channels[Here].messages ELSE << >>

\* The number of the oldest event the client has not applied.
HeadNumber == emitted - Len(gateway) + 1
----------------------------------------------------------------------------
(* The server *)

Emit(event) ==
  /\ emitted < MaxEvents /\ emitted' = emitted + 1
  /\ gateway' = Append(gateway, event)

\* A new message; snowflakes grow.
Create(body) ==
  \E id \in MsgIds \ born :
    /\ \A old \in born : old < id
    /\ born' = born \cup {id}
    /\ live' = [i \in DOMAIN live \cup {id} |-> IF i = id THEN body ELSE live[i]]
    /\ Emit([kind |-> "create", id |-> id, body |-> body])

\* An edit; without content when only an embed was added.
Amend(id, content) ==
  /\ id \in DOMAIN live
  /\ live' = IF content = Unchanged THEN live ELSE [live EXCEPT ![id] = content]
  /\ Emit([kind |-> "update", id |-> id, body |-> content])
  /\ UNCHANGED born

Remove(id) ==
  /\ id \in DOMAIN live
  /\ live' = [i \in DOMAIN live \ {id} |-> live[i]]
  /\ Emit([kind |-> "delete", id |-> id])
  /\ UNCHANGED born

ClientElse == UNCHANGED <<timelineVars, heard, gone, crossed>>

\* Somebody else uses the channel.
Others ==
  /\ \/ \E body \in Bodies : Create(body)
     \/ \E id \in MsgIds : Remove(id) \/ \E b \in Bodies \cup {Unchanged} : Amend(id, b)
  /\ UNCHANGED <<asked, answers>> /\ ClientElse
----------------------------------------------------------------------------
(* The requests of the client, at the moment the server carries them out   *)

\* at is the number of the last event the server had sent by then.
Answered(answer) ==
  /\ asked < MaxAsked /\ asked' = asked + 1
  /\ answers' = Append(answers, answer)
  /\ ClientElse

AskSend(body) ==
  /\ Create(body)
  /\ \E id \in born' \ born :
       Answered([kind |-> "sent", id |-> id, body |-> body, at |-> emitted'])

\* The answer is the whole message, with or without its author.
AskEdit(id, body, authored) ==
  /\ Amend(id, body)
  /\ Answered([kind |-> "edited", id |-> id, body |-> body,
               authored |-> authored, at |-> emitted'])

AskDelete(id) ==
  /\ Remove(id)
  /\ Answered([kind |-> "deleted", id |-> id, at |-> emitted'])

\* The youngest messages older than before, newest first.
PageBefore(before) ==
  LET older == {[id |-> i, body |-> live[i], authored |-> TRUE] :
                  i \in {j \in DOMAIN live : j < before}}
      oldest == Youngest(older, PageSize)
  IN  [i \in DOMAIN oldest |-> oldest[Len(oldest) + 1 - i]]

AskHistory(before) ==
  /\ UNCHANGED <<live, born, emitted, gateway>>
  /\ Answered([kind |-> "page", page |-> PageBefore(before), at |-> emitted])
----------------------------------------------------------------------------
(* The client *)

\* drain: the next event of the Gateway bus.
Deliver ==
  /\ gateway # << >> /\ gateway' = Tail(gateway)
  /\ LET e == Head(gateway)
     IN  /\ \/ e.kind = "create" /\ ApplyMessage(Here, [id |-> e.id, body |-> e.body])
            \/ e.kind = "update" /\ ApplyUpdate(Here, e.id, e.body)
            \/ e.kind = "delete" /\ ApplyDelete(Here, e.id)
         /\ heard' = [heard EXCEPT ![e.id] = HeadNumber]
         /\ gone' = IF e.kind = "delete" THEN gone \cup {e.id} ELSE gone
  /\ UNCHANGED <<serverVars, answers, crossed>>

\* An event newer than the answer, about a message it brings, was applied.  A
\* page brings the messages that are not cached; when the timeline is full and
\* out of order also those that its own messages push out before it gets to them.
Overtaken(a) ==
  \/ a.kind \in {"sent", "edited"} /\ heard[a.id] > a.at
  \/ /\ a.kind = "page"
     /\ \E m \in Items(a.page) :
          /\ heard[m.id] > a.at
          /\ HasId(Cached, m.id) => ~Sorted(Cached) /\ ~Fits(Cached, a.page)

\* drain_rest: the next answer of the REST bus.
Receive ==
  /\ answers # << >> /\ answers' = Tail(answers)
  /\ LET a == Head(answers)
     IN  /\ \/ a.kind = "sent" /\ ApplyMessage(Here, [id |-> a.id, body |-> a.body])
            \/ /\ a.kind = "edited"
               /\ IF a.authored THEN ApplyMessage(Here, [id |-> a.id, body |-> a.body])
                  ELSE ApplyUpdate(Here, a.id, a.body)
            \/ a.kind = "deleted" /\ ApplyDelete(Here, a.id)
            \/ a.kind = "page" /\ ApplyHistory(Here, a.page)
         /\ gone' = IF a.kind = "deleted" THEN gone \cup {a.id} ELSE gone
         /\ crossed' = (crossed \/ Overtaken(a))
  /\ UNCHANGED <<serverVars, gateway, heard>>
----------------------------------------------------------------------------
ConvergenceInit ==
  /\ TimelinesInit
  /\ live \in [OldIds -> Bodies] /\ born = OldIds
  /\ emitted = 0 /\ asked = 0
  /\ gateway = << >> /\ answers = << >>
  /\ heard = [id \in MsgIds |-> 0] /\ gone = {} /\ crossed = FALSE

Asks ==
  \/ \E body \in Bodies : AskSend(body)
  \/ \E id \in MsgIds :
       AskDelete(id) \/ \E body \in Bodies, a \in BOOLEAN : AskEdit(id, body, a)
  \/ \E before \in MsgIds \cup {1 + Cardinality(MsgIds)} : AskHistory(before)

ConvergenceNext == Others \/ Asks \/ Deliver \/ Receive

ConvergenceSpec == ConvergenceInit /\ [][ConvergenceNext]_convergenceVars
----------------------------------------------------------------------------
(* Properties *)

\* Once the Gateway events are applied, every cached message exists and says
\* what it says on the server, however answers and events were interleaved,
\* unless an answer was applied after a newer event about a message it brings.
\* A history page never turns back a message of a timeline that is in order or
\* has room for it, however late it is.
AgreesUnlessCrossed ==
  gateway = << >> /\ ~crossed =>
    \A i \in DOMAIN Cached : /\ Cached[i].id \in DOMAIN live
                             /\ Cached[i].body = live[Cached[i].id]

\* As long as the channel never had more messages than a timeline holds, no
\* message sent since the client connected is missing once the Gateway events
\* are applied, whatever answers came early, late or never.
CompleteWhileRoom ==
  gateway = << >> /\ Cardinality(born) <= MaxMessages =>
    \A id \in DOMAIN live \ OldIds : HasId(Cached, id)

\* docs/message-history.md: "Treating cached live state as newer prevents a
\* stale history page from rolling presentation state backward."  A page must
\* not bring back a message whose deletion was applied.
HistoryRevivesNothing ==
  [][answers # << >> /\ Head(answers).kind = "page" /\ Receive
       => \A id \in gone : HasId(Cached', id) => HasId(Cached, id)]_convergenceVars
=============================================================================
