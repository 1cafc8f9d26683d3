------------------------------ MODULE EventBus ------------------------------
(***************************************************************************)
(* The frontend bus (NetworkBackbone::new, src/src/gateway/mod.rs): a      *)
(* tokio broadcast ring that never waits for its receivers.  Each receiver *)
(* reads at its own pace; one that is overtaken loses the events that were *)
(* overwritten, learns of it at its next try_recv, and goes on with the    *)
(* oldest event that is left.                                              *)
(*                                                                         *)
(* Of the ring this keeps, for each receiver, what it has still to read;   *)
(* how many events it lost is abstracted to whether it lost any.           *)
(***************************************************************************)
EXTENDS Vectors

CONSTANTS
  Receivers,   \* the receivers that subscribe made
  Events,      \* what may be sent
  Capacity     \* the slots of the ring: frontend_capacity.max(8)

ASSUME BusAssumption == Capacity \in Nat \ {0}

VARIABLES
  unread,   \* the events in the ring that a receiver has still to read
  missed,   \* whether it has been overtaken and not been told yet
  lagged    \* whether it was ever told: dropped_gateway_events # 0

busVars == <<unread, missed, lagged>>

BusInit ==
  /\ unread = [r \in Receivers |-> << >>]
  /\ missed = [r \in Receivers |-> FALSE]
  /\ lagged = [r \in Receivers |-> FALSE]

\* emit: in a full ring the event takes the place of the oldest one.
Send(e) ==
  /\ unread' = [r \in Receivers |-> PushBounded(unread[r], e, Capacity)]
  /\ missed' = [r \in Receivers |-> missed[r] \/ Len(unread[r]) = Capacity]
  /\ UNCHANGED lagged

\* The answers of try_recv: Lagged, Ok and Empty.
IsLagged(r) == missed[r]
IsOk(r) == ~missed[r] /\ unread[r] # << >>
IsEmpty(r) == ~missed[r] /\ unread[r] = << >>

TellLag(r) ==
  /\ IsLagged(r)
  /\ missed' = [missed EXCEPT ![r] = FALSE]
  /\ lagged' = [lagged EXCEPT ![r] = TRUE]
  /\ UNCHANGED unread

NextEvent(r) == Head(unread[r])

ReadNext(r) ==
  /\ IsOk(r)
  /\ unread' = [unread EXCEPT ![r] = Tail(@)]
  /\ UNCHANGED <<missed, lagged>>

\* A receiver that has read, or has still to read, every event sent so far.
NeverOvertaken(r) == ~missed[r] /\ ~lagged[r]
=============================================================================
