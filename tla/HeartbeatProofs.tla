-------------------------- MODULE HeartbeatProofs --------------------------
(***************************************************************************)
(* A silent peer is noticed within two intervals, for every interval and   *)
(* every number of heartbeats in flight; the timer only drops a peer that  *)
(* owes an answer; and the latency that is shown never exceeds the age of  *)
(* the heartbeat that was answered.                                        *)
(***************************************************************************)
EXTENDS Heartbeat, TLAPS

USE HeartbeatAssumption

\* The deadline is never further than one interval after the last ACK, or two
\* when a heartbeat sent since then has no answer: this is what bounds a
\* silence, and neither part is kept without the other.
DeadlineIsNear ==
  /\ nextHeartbeat <= now + Interval
  /\ ~awaiting => nextHeartbeat <= lastHeard + Interval
  /\ nextHeartbeat <= lastHeard + 2 * Interval
  /\ lastHeard <= now
  /\ open => now <= nextHeartbeat

\* The heartbeats s were sent in this order, none of them after time t.
InOrder(s, t) ==
  /\ \A i, j \in DOMAIN s : i <= j => s[i].at <= s[j].at
  /\ \A i \in DOMAIN s : s[i].at <= t

\* The heartbeat being measured is the last one sent, and it has no answer yet.
MeasuresLastSent ==
  sentAt # None => flight # << >> /\ sentAt = flight[Len(flight)].at

\* Only a heartbeat in flight is awaited, and the one being measured is the
\* last of them.
Flight ==
  /\ InOrder(flight, now)
  /\ awaiting => flight # << >>
  /\ MeasuresLastSent

HeartbeatInv == HeartbeatTypeOK /\ DeadlineIsNear /\ Flight
----------------------------------------------------------------------------
(* What a heartbeat and an ACK do to the heartbeats in flight.             *)

LEMMA SendKeepsOrder ==
  ASSUME NEW s \in Seq(Sent), NEW t \in Nat, InOrder(s, t), NEW b \in BOOLEAN
  PROVE  LET r == Append(s, [at |-> t, scheduled |-> b])
         IN  r \in Seq(Sent) /\ InOrder(r, t) /\ r # << >> /\ r[Len(r)].at = t
<1> DEFINE e == [at |-> t, scheduled |-> b]
           r == Append(s, e)
<1>1. e \in Sent /\ e.at = t
  BY DEF Sent
<1> HIDE DEF e
<1>2. r \in Seq(Sent) /\ Len(r) = Len(s) + 1 /\ r # << >> /\ DOMAIN r = 1..Len(s)+1
  BY <1>1
<1>3. \A i \in DOMAIN r : r[i] = IF i = Len(s) + 1 THEN e ELSE s[i]
  BY <1>1, <1>2
<1>4. \A i \in DOMAIN r : i # Len(s) + 1 => i \in DOMAIN s
  BY <1>2
<1>5. \A i \in DOMAIN r : r[i].at <= t
  BY <1>1, <1>3, <1>4 DEF InOrder
<1>6. \A i, j \in DOMAIN r : i <= j => r[i].at <= r[j].at
  <2> SUFFICES ASSUME NEW i \in DOMAIN r, NEW j \in DOMAIN r, i <= j
               PROVE  r[i].at <= r[j].at
    OBVIOUS
  <2>1. CASE j = Len(s) + 1
    BY <1>1, <1>3, <1>5, <2>1
  <2>2. CASE j # Len(s) + 1
    BY <1>2, <1>3, <1>4, <2>2 DEF InOrder
  <2>3. QED
    BY <2>1, <2>2
<1>7. Len(r) \in DOMAIN r /\ r[Len(r)].at = t
  BY <1>1, <1>2, <1>3
<1>8. QED
  BY <1>2, <1>5, <1>6, <1>7 DEF InOrder, e

LEMMA AnswerKeepsOrder ==
  ASSUME NEW s \in Seq(Sent), s # << >>, NEW t, InOrder(s, t)
  PROVE  /\ Tail(s) \in Seq(Sent) /\ InOrder(Tail(s), t)
         /\ Head(s).at \in Nat /\ s[Len(s)].at \in Nat
         /\ Head(s).at <= s[Len(s)].at /\ s[Len(s)].at <= t
<1>1. /\ Tail(s) \in Seq(Sent) /\ Len(Tail(s)) = Len(s) - 1
      /\ DOMAIN Tail(s) = 1..Len(s)-1
      /\ \A i \in DOMAIN Tail(s) : Tail(s)[i] = s[i+1] /\ i+1 \in DOMAIN s
  OBVIOUS
<1>2. InOrder(Tail(s), t)
  BY <1>1 DEF InOrder
<1>3. 1 \in DOMAIN s /\ Len(s) \in DOMAIN s /\ Head(s) = s[1] /\ 1 <= Len(s)
  OBVIOUS
<1>4. s[1] \in Sent /\ s[Len(s)] \in Sent
  BY <1>3
<1>5. QED
  BY <1>1, <1>2, <1>3, <1>4 DEF InOrder, Sent
----------------------------------------------------------------------------
(* The steps *)

LEMMA InitHolds == HeartbeatInit => HeartbeatInv
<1> SUFFICES ASSUME HeartbeatInit PROVE HeartbeatInv
  OBVIOUS
<1> USE DEF HeartbeatInit
<1>1. HeartbeatTypeOK
  <2>1. now \in Nat /\ nextHeartbeat \in Nat /\ lastHeard \in Nat
    OBVIOUS
  <2>2. flight \in Seq(Sent)
    OBVIOUS
  <2>3. QED
    BY <2>1, <2>2 DEF HeartbeatTypeOK
<1>2. DeadlineIsNear
  BY DEF DeadlineIsNear
<1>3. Flight
  BY DEF Flight, InOrder, MeasuresLastSent
<1>4. QED
  BY <1>1, <1>2, <1>3 DEF HeartbeatInv

\* A heartbeat is sent, with the deadline moved one interval ahead or not.
LEMMA SendInv ==
  ASSUME HeartbeatInv, NEW b \in BOOLEAN, Send(b), open,
         \/ UNCHANGED nextHeartbeat
         \/ ~awaiting /\ now = nextHeartbeat /\ nextHeartbeat' = now + Interval
  PROVE  HeartbeatInv'
<1> USE DEF HeartbeatInv, Send
<1>1. HeartbeatTypeOK /\ DeadlineIsNear /\ InOrder(flight, now)
  BY DEF Flight
<1>2. /\ flight' \in Seq(Sent) /\ InOrder(flight', now)
      /\ flight' # << >> /\ flight'[Len(flight')].at = now
  BY <1>1, SendKeepsOrder DEF HeartbeatTypeOK
<1>3. nextHeartbeat' \in Nat
  BY <1>1 DEF HeartbeatTypeOK
<1>4. HeartbeatTypeOK'
  BY <1>1, <1>2, <1>3 DEF HeartbeatTypeOK
<1>5. DeadlineIsNear'
  BY <1>1 DEF HeartbeatTypeOK, DeadlineIsNear
<1>6. Flight'
  BY <1>2 DEF Flight, MeasuresLastSent
<1>7. QED
  BY <1>4, <1>5, <1>6

LEMMA ExitInv ==
  ASSUME HeartbeatInv, Exit
  PROVE  HeartbeatInv'
<1> USE DEF HeartbeatInv, Exit
<1>1. HeartbeatTypeOK'
  BY DEF HeartbeatTypeOK
<1>2. DeadlineIsNear'
  BY DEF HeartbeatTypeOK, DeadlineIsNear
<1>3. Flight'
  BY DEF Flight, MeasuresLastSent
<1>4. QED
  BY <1>1, <1>2, <1>3

LEMMA TickInv ==
  ASSUME HeartbeatInv, Tick
  PROVE  HeartbeatInv'
<1> USE DEF HeartbeatInv, Tick
<1>1. HeartbeatTypeOK'
  BY DEF HeartbeatTypeOK
<1>2. DeadlineIsNear'
  BY DEF HeartbeatTypeOK, DeadlineIsNear
<1>3. InOrder(flight', now')
  <2>1. \A i \in DOMAIN flight : flight[i] \in Sent
    BY DEF HeartbeatTypeOK
  <2>2. QED
    BY <2>1 DEF Flight, InOrder, HeartbeatTypeOK, Sent
<1>4. Flight'
  BY <1>3 DEF Flight, MeasuresLastSent
<1>5. QED
  BY <1>1, <1>2, <1>4

\* The sample of an ACK is a natural number, because what it measures is a
\* heartbeat in flight, and never more than the age of the oldest of them.
LEMMA SampleIsBounded ==
  ASSUME HeartbeatInv, sentAt # None
  PROVE  flight # << >> /\ now - sentAt \in Nat /\ now - sentAt <= now - Head(flight).at
<1> USE DEF HeartbeatInv
<1>1. flight # << >> /\ sentAt = flight[Len(flight)].at /\ InOrder(flight, now)
  BY DEF Flight, MeasuresLastSent
<1>2. /\ Head(flight).at \in Nat /\ sentAt \in Nat /\ now \in Nat
      /\ Head(flight).at <= sentAt /\ sentAt <= now
  BY <1>1, AnswerKeepsOrder DEF HeartbeatTypeOK
<1>3. QED
  BY <1>1, <1>2

LEMMA AckInv ==
  ASSUME HeartbeatInv, Ack
  PROVE  HeartbeatInv'
<1> USE DEF HeartbeatInv, Ack
<1>1. latency' \in Nat \cup {None}
  BY SampleIsBounded DEF HeartbeatTypeOK
<1>2. flight' \in Seq(Sent) /\ InOrder(flight', now)
  <2>1. flight \in Seq(Sent) /\ InOrder(flight, now)
    BY DEF HeartbeatTypeOK, Flight
  <2>2. QED
    BY <2>1, AnswerKeepsOrder
<1>3. HeartbeatTypeOK'
  BY <1>1, <1>2 DEF HeartbeatTypeOK
<1>4. DeadlineIsNear'
  BY DEF HeartbeatTypeOK, DeadlineIsNear
<1>5. Flight'
  BY <1>2 DEF Flight, MeasuresLastSent
<1>6. QED
  BY <1>3, <1>4, <1>5

LEMMA StillInv ==
  ASSUME HeartbeatInv, UNCHANGED heartbeatVars
  PROVE  HeartbeatInv'
BY DEF HeartbeatInv, heartbeatVars, HeartbeatTypeOK, DeadlineIsNear, Flight, InOrder,
       MeasuresLastSent

LEMMA StepInv ==
  ASSUME HeartbeatInv, [HeartbeatNext]_heartbeatVars
  PROVE  HeartbeatInv'
<1>1. CASE Tick
  BY <1>1, TickInv
<1>2. CASE HeartbeatDue
  BY <1>2, ExitInv, SendInv DEF HeartbeatDue
<1>3. CASE HeartbeatRequested
  BY <1>3, SendInv DEF HeartbeatRequested
<1>4. CASE Ack
  BY <1>4, AckInv
<1>5. CASE Disconnect
  BY <1>5, ExitInv DEF Disconnect
<1>6. CASE UNCHANGED heartbeatVars
  BY <1>6, StillInv
<1>7. QED
  BY <1>1, <1>2, <1>3, <1>4, <1>5, <1>6 DEF HeartbeatNext

LEMMA HeartbeatInvAlways == HeartbeatSpec => []HeartbeatInv
BY InitHolds, StepInv, PTL DEF HeartbeatSpec
----------------------------------------------------------------------------
\* The locals of run_connection's loop keep their types
\* (src/src/gateway/connection.rs).
THEOREM HeartbeatTypesAlways == HeartbeatSpec => []HeartbeatTypeOK
<1>1. HeartbeatInv => HeartbeatTypeOK
  BY DEF HeartbeatInv
<1>2. QED
  BY <1>1, HeartbeatInvAlways, PTL

\* A connection never outlives two intervals of silence (the timer branch of
\* the loop in connection.rs).
THEOREM SilenceNoticedAlways == HeartbeatSpec => []SilenceIsNoticed
<1>1. HeartbeatInv => SilenceIsNoticed
  BY DEF HeartbeatInv, HeartbeatTypeOK, DeadlineIsNear, SilenceIsNoticed
<1>2. QED
  BY <1>1, HeartbeatInvAlways, PTL

\* The timer drops only a peer that owes an answer.
THEOREM UnansweredDropped == HeartbeatSpec => OnlyUnansweredIsDropped
<1>1. HeartbeatInv /\ [HeartbeatNext]_heartbeatVars
        => [HeartbeatDue /\ ~open' => flight # << >>]_heartbeatVars
  BY DEF HeartbeatInv, Flight, HeartbeatDue, Send
<1>2. QED
  BY <1>1, HeartbeatInvAlways, PTL DEF HeartbeatSpec, OnlyUnansweredIsDropped

\* The latency shown is never worse than the age of the heartbeat answered
\* (heartbeat_sent_at in connection.rs).
THEOREM SamplesBounded == HeartbeatSpec => SampleNeverOverstates
<1>1. HeartbeatInv /\ [HeartbeatNext]_heartbeatVars
        => [latency' # latency /\ latency' # None
              => flight # << >> /\ latency' <= now - Head(flight).at]_heartbeatVars
  <2> SUFFICES ASSUME HeartbeatInv, HeartbeatNext, latency' # latency, latency' # None
               PROVE  flight # << >> /\ latency' <= now - Head(flight).at
    BY DEF heartbeatVars
  <2>1. Ack
    BY DEF HeartbeatNext, Tick, HeartbeatDue, HeartbeatRequested, Disconnect, Exit, Send
  <2>2. sentAt # None /\ latency' = now - sentAt
    BY <2>1 DEF Ack
  <2>3. QED
    BY <2>2, SampleIsBounded
<1>2. QED
  BY <1>1, HeartbeatInvAlways, PTL DEF HeartbeatSpec, SampleNeverOverstates
=============================================================================
