----------------------------- MODULE FrameLoop -----------------------------
(***************************************************************************)
(* GuiSession::poll (src/src/gui_app.rs): once per frame the graphical     *)
(* client drains its two receivers of the frontend bus and its receiver of *)
(* the REST bus, one after the other and each within a budget, then draws. *)
(* The Gateway task sends meanwhile, between any two reads.                *)
(*                                                                         *)
(* Here events have no content and the REST bus is left out; GuiSession    *)
(* gives both their meaning.                                               *)
(***************************************************************************)
EXTENDS EventBus

CONSTANTS
  Budget   \* GATEWAY_EVENT_BUDGET, of both drains

ASSUME FrameAssumption ==
  /\ Budget \in Nat \ {0}
  /\ Receivers = {"gateway", "direct"}

VARIABLES
  phase,      \* the drain that poll is in, or "draw"
  processed   \* report.applied, report.processed: events applied in this drain

frameVars == <<phase, processed>>

FrameInit == phase = "draw" /\ processed = 0

\* Mutant: the direct-message cache is drained first.
DirectFirst == [draw |-> "direct", direct |-> "gateway", gateway |-> "rest", rest |-> "draw"]

\* The order of poll.
Then == [draw |-> "gateway", gateway |-> "direct", direct |-> "rest", rest |-> "draw"]

Proceed == phase' = Then[phase] /\ processed' = 0

StartFrame == phase = "draw" /\ Proceed /\ UNCHANGED busVars

\* drain: the loop ends when the budget is used up or nothing is left.
EndDrain(r) ==
  /\ phase = r
  /\ processed = Budget \/ IsEmpty(r)
  /\ Proceed
  /\ UNCHANGED busVars

\* Lagged: the loss is counted and the budget is not touched.
SkipLost(r) ==
  /\ phase = r /\ processed < Budget
  /\ TellLag(r)
  /\ UNCHANGED frameVars

\* Ok: the next event is applied.
Drain(r) ==
  /\ phase = r /\ processed < Budget
  /\ ReadNext(r)
  /\ processed' = processed + 1
  /\ UNCHANGED phase

EndRest == phase = "rest" /\ Proceed /\ UNCHANGED busVars

Poll ==
  \/ StartFrame
  \/ \E r \in Receivers : Drain(r) \/ SkipLost(r) \/ EndDrain(r)
  \/ EndRest

Emit == \E e \in Events : Send(e) /\ UNCHANGED frameVars

LoopInit == BusInit /\ FrameInit
LoopNext == Poll \/ Emit
LoopVars == <<busVars, frameVars>>

LoopSpec == LoopInit /\ [][LoopNext]_LoopVars
----------------------------------------------------------------------------
(* Properties *)

\* What the loop is built on: no receiver has more to read than the ring
\* holds, one that was overtaken has all of it, and a drain keeps its budget.
LoopTypeOK ==
  /\ unread \in [Receivers -> Seq(Events)]
  /\ missed \in [Receivers -> BOOLEAN] /\ lagged \in [Receivers -> BOOLEAN]
  /\ \A r \in Receivers : Len(unread[r]) <= Capacity
  /\ \A r \in Receivers : missed[r] => Len(unread[r]) = Capacity
  /\ phase \in {"draw", "gateway", "direct", "rest"}
  /\ processed \in 0..Budget

\* Whenever a frame is drawn the list of direct messages stands in the stream of
\* events where the message cache stands, or further: none that the cache has
\* read is still unread by the list, whatever was sent during the two drains and
\* whichever of them ran out of budget or was overtaken, as poll drains the list
\* last and with no smaller a budget.  An overtaken receiver stands behind the
\* events it has lost without having seen them; one that NeverOvertaken holds
\* of has seen all that lies before its place.
DirectNotBehind ==
  phase = "draw" => Len(unread["direct"]) <= Len(unread["gateway"])
=============================================================================
