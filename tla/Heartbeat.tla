----------------------------- MODULE Heartbeat -----------------------------
(***************************************************************************)
(* The heartbeats of one Gateway connection: the timer, the opcodes 1 and  *)
(* 11 and the latency sample of the loop of run_connection                 *)
(* (src/src/gateway/connection.rs).  Time is counted in ticks; the server  *)
(* answers the heartbeats in the order they were sent, as late as it likes.*)
(*                                                                         *)
(* The timer fires on time: a task that the executor runs late, and the    *)
(* duration of a write, are left out.                                      *)
(***************************************************************************)
EXTENDS Integers, Sequences

CONSTANTS
  Interval,   \* heartbeat_interval of the HELLO
  None,       \* the None of an Option
  MaxNow,     \* bound of the model: time stops there
  MaxFlight   \* bound of the model: heartbeats without an answer

ASSUME HeartbeatAssumption ==
  /\ Interval \in Nat \ {0}
  /\ MaxNow \in Nat
  /\ None \notin Nat

VARIABLES
  now,             \* Instant::now()
  open,            \* the connection is in its loop
  nextHeartbeat,   \* next_heartbeat
  awaiting,        \* awaiting_heartbeat_ack
  sentAt,          \* heartbeat_sent_at
  latency,         \* the latency watch
  flight,          \* the heartbeats the server has not answered, oldest first
  lastHeard        \* when the last ACK came, or the connection began

heartbeatVars == <<now, open, nextHeartbeat, awaiting, sentAt, latency, flight, lastHeard>>

Sent == [at : Nat, scheduled : BOOLEAN]
----------------------------------------------------------------------------
\* The first heartbeat is jittered over the interval (heartbeat_jitter).
HeartbeatInit ==
  /\ now = 0
  /\ open = TRUE
  /\ nextHeartbeat \in 0..(Interval - 1)
  /\ awaiting = FALSE
  /\ sentAt = None
  /\ latency = None
  /\ flight = << >>
  /\ lastHeard = 0

Tick ==
  /\ now < MaxNow
  /\ open => now < nextHeartbeat
  /\ now' = now + 1
  /\ UNCHANGED <<open, nextHeartbeat, awaiting, sentAt, latency, flight, lastHeard>>

\* The end of the connection; run clears the latency.
Exit ==
  /\ open' = FALSE
  /\ latency' = None
  /\ UNCHANGED <<now, nextHeartbeat, awaiting, sentAt, flight, lastHeard>>

\* A heartbeat is written and remembered, the latest one only.
Send(scheduled) ==
  /\ Len(flight) < MaxFlight
  /\ flight' = Append(flight, [at |-> now, scheduled |-> scheduled])
  /\ sentAt' = now
  /\ awaiting' = TRUE
  /\ UNCHANGED <<now, open, latency, lastHeard>>

\* Mutant: the timer does not ask whether the last heartbeat was answered.
HeartbeatDueAnyway ==
  /\ open /\ now = nextHeartbeat
  /\ Send(TRUE) /\ nextHeartbeat' = now + Interval

\* The timer fires: a heartbeat without an answer ends the connection.
HeartbeatDue ==
  /\ open /\ now = nextHeartbeat
  /\ \/ awaiting /\ Exit
     \/ ~awaiting /\ Send(TRUE) /\ nextHeartbeat' = now + Interval

\* Opcode 1: the server asks for a heartbeat now; the timer stays as it is.
HeartbeatRequested == open /\ Send(FALSE) /\ UNCHANGED nextHeartbeat

\* Mutants: the ACK leaves the start of the measure behind; or it does not
\* count as an answer.
AckKeepingStart ==
  /\ open
  /\ awaiting' = FALSE
  /\ latency' = IF sentAt = None THEN latency ELSE now - sentAt
  /\ flight' = IF flight = << >> THEN flight ELSE Tail(flight)
  /\ lastHeard' = now
  /\ UNCHANGED <<now, open, nextHeartbeat, sentAt>>
AckIgnored ==
  /\ open
  /\ latency' = IF sentAt = None THEN latency ELSE now - sentAt
  /\ sentAt' = None
  /\ flight' = IF flight = << >> THEN flight ELSE Tail(flight)
  /\ lastHeard' = now
  /\ UNCHANGED <<now, open, nextHeartbeat, awaiting>>

\* Opcode 11, in answer to the oldest heartbeat in flight, or to none.
Ack ==
  /\ open
  /\ awaiting' = FALSE
  /\ latency' = IF sentAt = None THEN latency ELSE now - sentAt
  /\ sentAt' = None
  /\ flight' = IF flight = << >> THEN flight ELSE Tail(flight)
  /\ lastHeard' = now
  /\ UNCHANGED <<now, open, nextHeartbeat>>

\* Whatever else ends the connection, a failed write included.
Disconnect == open /\ Exit

HeartbeatNext == Tick \/ HeartbeatDue \/ HeartbeatRequested \/ Ack \/ Disconnect

HeartbeatSpec == HeartbeatInit /\ [][HeartbeatNext]_heartbeatVars
----------------------------------------------------------------------------
(* Properties *)

\* The types of the loop's locals.
HeartbeatTypeOK ==
  /\ now \in Nat /\ nextHeartbeat \in Nat /\ lastHeard \in Nat
  /\ open \in BOOLEAN /\ awaiting \in BOOLEAN
  /\ sentAt \in Nat \cup {None}
  /\ latency \in Nat \cup {None}
  /\ flight \in Seq(Sent)

\* A peer that stopped answering is noticed: no connection outlives two
\* intervals without an ACK, whatever heartbeats the server asks for meanwhile.
SilenceIsNoticed == open => now <= lastHeard + 2 * Interval

\* The timer ends a connection only when a heartbeat really has no answer, so
\* a server that answered all of them is never dropped.
OnlyUnansweredIsDropped == [][HeartbeatDue /\ ~open' => flight # << >>]_heartbeatVars

\* A latency sample never exceeds the age of the heartbeat that the ACK
\* answers, and an ACK that answers none gives no sample: the latency shown is
\* never worse than the network's.
SampleNeverOverstates ==
  [][latency' # latency /\ latency' # None
       => flight # << >> /\ latency' <= now - Head(flight).at]_heartbeatVars

\* docs/architecture.md: "Each scheduled heartbeat requires an ACK before the
\* next scheduled heartbeat; missing the ACK forces reconnection."
ScheduledAreAnswered ==
  [][HeartbeatDue /\ open'
       => \A i \in DOMAIN flight : ~flight[i].scheduled]_heartbeatVars
=============================================================================
