-------------------------- MODULE LifecycleProofs --------------------------
(***************************************************************************)
(* The life of the Gateway client (src/src/gateway/mod.rs, connection.rs,  *)
(* recovery.rs), for any number of sessions, dispatches and faults and for *)
(* every saturation of the attempt counter: what is resumed, what is       *)
(* applied, how far two IDENTIFYs are apart, and that the status watch     *)
(* moves as StatusMachine promises.                                        *)
(***************************************************************************)
EXTENDS GatewayLifecycle, TLAPS

USE LifecycleAssumption

Greeting == {"connecting", "hello", "sending"}
Up == {"live", "invalid"}

\* Sessions have the numbers from one on; the client knows of no other one.
ServerTypeOK ==
  /\ log \in Seq(Seq(Kinds)) /\ applied \in Seq(Nat) /\ Len(applied) = Len(log)
  /\ bound \in 0..Len(log) /\ session.id \in 0..Len(log)
  /\ told \subseteq 0..Len(log)
  /\ cursor \in Nat

\* A resumption that is planned or under way has a session, and an IDENTIFY
\* none: what the last session left behind was cleared.
ChoiceHasSession ==
  /\ pc \in {"idle", "subscribed", "backoff"} =>
       IF nextAuth = "Resume" THEN CanResume(session) ELSE session = NoSession
  /\ pc \in Greeting =>
       IF auth = "Resume" THEN CanResume(session) ELSE session = NoSession

\* The sequence number counts what was applied of the session that would be
\* resumed, and the connection's cursor what was applied of its session.
CountsAgree ==
  /\ CanResume(session) => session.seq = applied[session.id]
  /\ pc = "live" /\ bound # None => cursor = applied[bound]
  /\ pc = "live" /\ bound # None /\ session.id # None => session.id = bound

\* Only while the client sleeps on an opcode 9 does it know a session that it
\* was told is gone; a session it is connected to was never among them.
GoneIsDropped ==
  /\ CanResume(session) /\ session.id \in told =>
       Done \/ (pc = "invalid" /\ ~resumable)
  /\ pc = "live" /\ bound # None => bound \notin told

\* The delay before an IDENTIFY is not shorter than five seconds.
IdentifyWaited ==
  /\ pc \in {"idle", "subscribed"} => nextAuth = "Identify" /\ waited = 5
  /\ pc \in Greeting /\ auth = "Identify" => waited = 5

\* What the status watch shows at each await.
StatusMatches ==
  /\ pc \in {"idle", "subscribed"} => status = Status("Idle")
  /\ pc \in {"connecting", "hello"} => status = Connecting(auth = "Resume")
  /\ pc = "sending" => status = Authenticating(auth = "Resume")
  /\ pc \in Up => status \in {Status("Identifying"), Status("Resuming"), Status("Ready")}
  /\ pc = "backoff" => \E n \in Nat \ {0} : status = Reconnecting(n, nextAuth = "Resume")
  /\ pc = "stopped" => status = Status("Stopped")
  /\ pc = "failed" => status = Status("Fatal")

LifecycleInv ==
  /\ LifecycleTypeOK /\ ServerTypeOK /\ ChoiceHasSession /\ CountsAgree
  /\ GoneIsDropped /\ IdentifyWaited /\ StatusMatches
----------------------------------------------------------------------------
(* What a connection ends with, and begins with                            *)

\* Every delay before an IDENTIFY is five seconds or more.
LEMMA IdentifyDelay ==
  ASSUME NEW n \in Nat
  PROVE  /\ ReconnectDelay(n, "Identify") \in Nat /\ ReconnectDelay(n, "Resume") \in Nat
         /\ ReconnectDelay(n, "Identify") >= 5
<1> DEFINE k == Least(n, 7)
<1>1. k \in 0..7
  BY DEF Least
<1>2. Shifted(k) \in Nat /\ Shifted(k) >= 1
  <2> HIDE DEF k
  <2>1. k \in {0, 1, 2, 3, 4, 5, 6, 7}
    BY <1>1
  <2>2. QED
    BY <2>1 DEF Shifted
<1>3. 5 * Shifted(k) \in Nat /\ 5 * Shifted(k) >= 5 /\ 1 * Shifted(k) \in Nat
  <2> HIDE DEF k
  <2> DEFINE x == Shifted(k)
  <2>1. x \in Nat /\ x >= 1
    BY <1>2
  <2> HIDE DEF x
  <2>2. 5 * x \in Nat /\ 5 * x >= 5 /\ 1 * x \in Nat
    BY <2>1
  <2>3. QED
    BY <2>2 DEF x
<1>4. QED
  BY <1>3 DEF ReconnectDelay, Least

\* The end of a connection: what it may resume is what it has, and what it was
\* told is gone it drops.
LEMMA FinishKeepsInv ==
  ASSUME LifecycleInv, pc \in Greeting \cup Up,
         NEW next, NEW wasStable \in BOOLEAN, Finish(next, wasStable),
         UNCHANGED <<log, bound, cursor, applied, waited>>,
         \/ told' = told
         \/ told' = told \cup {session.id} /\ next = "Reidentify",
         next = "Resume" /\ pc = "invalid" => resumable
  PROVE  LifecycleInv' /\ StatusNext
<1> DEFINE resume == MayResume(next)
<1>1. /\ session \in [id : Nat, seq : Nat] /\ failed \in 0..MaxAttempts /\ waited \in 0..5
      /\ MaxAttempts \in Nat
  BY DEF LifecycleInv, LifecycleTypeOK, LifecycleAssumption
<1>2. failed' \in 0..MaxAttempts
  BY <1>1 DEF Finish, Count, Least, LifecycleAssumption
<1>3. session' \in {session, NoSession} /\ (CanResume(session') => session' = session)
  BY DEF Finish, SessionFor, CanResume, NoSession
<1>4. pc' \in {"failed", "backoff"} /\ latency' = FALSE
      /\ UNCHANGED <<auth, stable, resumable, shutdown>>
  BY DEF Finish
<1>5. LifecycleTypeOK'
  <2>1. session' \in [id : Nat, seq : Nat]
    BY <1>1, <1>3 DEF NoSession, None
  <2>2. nextAuth' \in Modes
    BY DEF Finish, Modes, LifecycleInv, LifecycleTypeOK
  <2>3. QED
    BY <1>1, <1>2, <1>4, <2>1, <2>2 DEF LifecycleInv, LifecycleTypeOK, Awaits
<1>6. ServerTypeOK'
  <2>1. session'.id \in 0..Len(log)
    BY <1>3 DEF LifecycleInv, ServerTypeOK, NoSession, None
  <2>2. told' \subseteq 0..Len(log)
    BY DEF LifecycleInv, ServerTypeOK
  <2>3. QED
    BY <2>1, <2>2 DEF LifecycleInv, ServerTypeOK
<1>7. ChoiceHasSession'
  BY <1>4 DEF Finish, MayResume, SessionFor, ChoiceHasSession, CanResume, NoSession, Greeting
<1>8. CountsAgree'
  BY <1>3, <1>4 DEF CountsAgree, LifecycleInv
<1>9. GoneIsDropped'
  <2>1. ASSUME CanResume(session'), session'.id \in told', pc' = "backoff"
        PROVE  FALSE
    <3>1. resume
      BY <2>1 DEF Finish, SessionFor, NoSession, CanResume, None
    <3>2. next = "Resume" /\ CanResume(session) /\ session' = session /\ told' = told
      BY <3>1, <1>3, <2>1 DEF MayResume
    <3>3. QED
      BY <2>1, <3>2 DEF LifecycleInv, GoneIsDropped, Done, Greeting, Up
  <2>2. QED
    BY <1>4, <2>1 DEF GoneIsDropped, Done
<1>10. IdentifyWaited'
  BY <1>4 DEF IdentifyWaited, Greeting
<1>11. StatusMatches'
  <2>1. CASE next = "Fatal"
    BY <2>1, <1>4 DEF Finish, StatusMatches, Up
  <2>2. CASE next # "Fatal"
    <3>1. RetryNumber(failed') \in Nat \ {0}
      BY <1>1, <1>2 DEF RetryNumber
    <3>2. pc' = "backoff"
          /\ status' = Reconnecting(RetryNumber(failed'), nextAuth' = "Resume" /\ CanResume(session'))
      BY <2>2 DEF Finish
    <3>3. (nextAuth' = "Resume" /\ CanResume(session')) = (nextAuth' = "Resume")
      BY <1>7, <3>2 DEF ChoiceHasSession
    <3>4. status' = Reconnecting(RetryNumber(failed'), nextAuth' = "Resume")
      BY <3>2, <3>3
    <3>5. QED
      BY <3>1, <3>2, <3>4 DEF StatusMatches, Up
  <2>3. QED
    BY <2>1, <2>2
<1>12. StatusNext
  <2>1. Active
    BY DEF LifecycleInv, StatusMatches, Active, Greeting, Up, Status, Connecting, Authenticating
  <2>2. CASE next = "Fatal"
    BY <2>1, <2>2 DEF Finish, StatusNext, GiveUp
  <2>3. CASE next # "Fatal"
    <3>1. pc' = "backoff"
      BY <2>3 DEF Finish
    <3>2. PICK n \in Nat \ {0} : status' = Reconnecting(n, nextAuth' = "Resume")
      BY <3>1, <1>11 DEF StatusMatches
    <3>3. /\ status'.kind = "Reconnecting" /\ status'.attempt = n
          /\ status'.resume = (nextAuth' = "Resume")
      BY <3>2 DEF Reconnecting
    <3>4. status'.resume \in BOOLEAN
      BY <3>3
    <3>5. Fail
      BY <2>1, <3>2, <3>3, <3>4 DEF Fail
    <3>6. QED
      BY <3>5 DEF StatusNext
  <2>4. QED
    BY <2>2, <2>3
<1>13. QED
  BY <1>5, <1>6, <1>7, <1>8, <1>9, <1>10, <1>11, <1>12 DEF LifecycleInv

\* The begin of a connection: it is announced the way it will authenticate.
LEMMA AttemptKeepsInv ==
  ASSUME LifecycleInv, pc \in {"subscribed", "backoff"}, Attempt(nextAuth, session),
         UNCHANGED <<nextAuth, session, failed, stable, resumable, shutdown,
                     serverVars, applied, told>>,
         waited' \in 0..5, nextAuth = "Identify" => waited' = 5
  PROVE  LifecycleInv' /\ StatusNext
<1>1. /\ pc' = "connecting" /\ latency' = FALSE
      /\ auth' = nextAuth /\ nextAuth \in Modes
      /\ (nextAuth = "Resume" /\ CanResume(session)) = (nextAuth = "Resume")
      /\ status' = Connecting(nextAuth = "Resume")
  <2>1. nextAuth \in Modes /\ (nextAuth = "Resume" => CanResume(session))
    BY DEF LifecycleInv, LifecycleTypeOK, ChoiceHasSession
  <2>2. CASE nextAuth = "Resume"
    BY <2>1, <2>2 DEF Attempt
  <2>3. CASE nextAuth = "Identify"
    BY <2>3 DEF Attempt, Modes
  <2>4. QED
    BY <2>1, <2>2, <2>3 DEF Modes
<1>2. LifecycleTypeOK'
  BY <1>1 DEF LifecycleInv, LifecycleTypeOK, Awaits
<1>3. ServerTypeOK'
  BY DEF LifecycleInv, ServerTypeOK, serverVars
<1>4. ChoiceHasSession'
  BY <1>1 DEF LifecycleInv, ChoiceHasSession, CanResume, NoSession
<1>5. CountsAgree'
  BY <1>1 DEF LifecycleInv, CountsAgree, CanResume, serverVars
<1>6. GoneIsDropped'
  BY <1>1 DEF LifecycleInv, GoneIsDropped, CanResume, Done
<1>7. IdentifyWaited'
  BY <1>1 DEF IdentifyWaited, Greeting
<1>8. StatusMatches'
  BY <1>1 DEF StatusMatches, Up
<1>9. StatusNext
  <2>1. CASE pc = "subscribed"
    <3>1. status.kind = "Idle" /\ nextAuth = "Identify"
      BY <2>1 DEF LifecycleInv, StatusMatches, IdentifyWaited, Status
    <3>2. (nextAuth = "Resume") = FALSE
      BY <3>1
    <3>3. Begin
      BY <1>1, <3>1, <3>2 DEF Begin
    <3>4. QED
      BY <3>3 DEF StatusNext
  <2>2. CASE pc = "backoff"
    <3>1. PICK n \in Nat \ {0} : status = Reconnecting(n, nextAuth = "Resume")
      BY <2>2 DEF LifecycleInv, StatusMatches
    <3>2. status.kind = "Reconnecting" /\ status.resume = (nextAuth = "Resume")
      BY <3>1 DEF Reconnecting
    <3>3. Retry
      BY <1>1, <3>2 DEF Retry
    <3>4. QED
      BY <3>3 DEF StatusNext
  <2>3. QED
    BY <2>1, <2>2
<1>10. QED
  BY <1>2, <1>3, <1>4, <1>5, <1>6, <1>7, <1>8, <1>9 DEF LifecycleInv
----------------------------------------------------------------------------
(* Between the two                                                         *)

\* A step of the authentication, or to an await of the same connection: the
\* session, the connection and what was said of it stay.
LEMMA WalkKeepsInv ==
  ASSUME LifecycleInv,
         UNCHANGED <<nextAuth, auth, session, failed, stable, resumable, shutdown,
                     serverVars, ghostVars>>,
         \/ pc = "idle" /\ pc' = "subscribed" /\ UNCHANGED <<status, latency>>
         \/ pc = "connecting" /\ pc' = "hello" /\ UNCHANGED <<status, latency>>
         \/ pc = "hello" /\ pc' = "sending" /\ latency' = latency
            /\ status' = Status(IF auth = "Resume" THEN "Resuming" ELSE "Identifying")
         \/ pc # "failed" /\ pc' = "stopped" /\ latency' = FALSE /\ status' = Status("Stopped")
         \/ pc = "live" /\ pc' = "live" /\ status' = status /\ latency' = TRUE
  PROVE  LifecycleInv'
<1>1. LifecycleTypeOK'
  <2>a. latency \in BOOLEAN /\ (latency => pc \in {"live", "invalid"})
    BY DEF LifecycleInv, LifecycleTypeOK
  <2>b. pc \in {"idle", "connecting", "hello"} => latency = FALSE
    BY <2>a
  <2>c. latency' = FALSE \/ (latency' = TRUE /\ pc' = "live")
    BY <2>b
  <2>1. latency' \in BOOLEAN /\ (latency' => pc' \in {"live", "invalid"})
    BY <2>c
  <2>2. pc' \in Awaits
    BY DEF Awaits
  <2>3. QED
    BY <2>1, <2>2 DEF LifecycleInv, LifecycleTypeOK, ghostVars
<1>2. ServerTypeOK'
  BY DEF LifecycleInv, ServerTypeOK, serverVars, ghostVars
<1>3. ChoiceHasSession'
  BY DEF LifecycleInv, ChoiceHasSession, CanResume, NoSession, Greeting
<1>4. CountsAgree'
  BY DEF LifecycleInv, CountsAgree, CanResume, serverVars, ghostVars
<1>5. GoneIsDropped'
  BY DEF LifecycleInv, GoneIsDropped, CanResume, Done, serverVars, ghostVars
<1>6. IdentifyWaited'
  BY DEF LifecycleInv, IdentifyWaited, Greeting, ghostVars
<1>7. StatusMatches'
  BY DEF LifecycleInv, StatusMatches, Up, Authenticating
<1>8. QED
  BY <1>1, <1>2, <1>3, <1>4, <1>5, <1>6, <1>7 DEF LifecycleInv

\* A request for shutdown, and what happens at the server while no dispatch is
\* sent: sessions grow and are forgotten.
LEMMA WorldKeepsInv ==
  ASSUME LifecycleInv, UNCHANGED <<clientVars, bound, cursor, ghostVars>>,
         shutdown' \in BOOLEAN, log' \in Seq(Seq(Kinds)), Len(log') = Len(log)
  PROVE  LifecycleInv'
<1>1. LifecycleTypeOK'
  BY DEF LifecycleInv, LifecycleTypeOK, clientVars, ghostVars
<1>2. ServerTypeOK'
  BY DEF LifecycleInv, ServerTypeOK, clientVars, ghostVars
<1>3. ChoiceHasSession' /\ CountsAgree'
  BY DEF LifecycleInv, ChoiceHasSession, CountsAgree, CanResume, clientVars, ghostVars
<1>4. GoneIsDropped' /\ IdentifyWaited'
  BY DEF LifecycleInv, GoneIsDropped, IdentifyWaited, CanResume, Done, clientVars, ghostVars
<1>5. StatusMatches'
  BY DEF LifecycleInv, StatusMatches, clientVars
<1>6. QED
  BY <1>1, <1>2, <1>3, <1>4, <1>5 DEF LifecycleInv

\* One more dispatch in a session's log.
LEMMA LogGrows ==
  ASSUME ServerTypeOK, NEW s \in DOMAIN log, NEW kind \in Kinds,
         log' = [log EXCEPT ![s] = Append(@, kind)]
  PROVE  log' \in Seq(Seq(Kinds)) /\ Len(log') = Len(log)
<1>1. log[s] \in Seq(Kinds) /\ s \in 1..Len(log)
  BY DEF ServerTypeOK
<1>2. Append(log[s], kind) \in Seq(Kinds)
  BY <1>1
<1>3. QED
  BY <1>1, <1>2 DEF ServerTypeOK

LEMMA IdentifyKeepsInv ==
  ASSUME LifecycleInv, Identify
  PROVE  LifecycleInv' /\ UNCHANGED status
<1>1. PICK first \in FirstEvents :
        /\ log' = Append(log, <<first>>)
        /\ applied' = Append(applied, 0)
        /\ bound' = Len(log) + 1
  BY DEF Identify
<1>2. /\ pc = "sending" /\ auth = "Identify" /\ pc' = "live" /\ stable' = FALSE
      /\ cursor' = 0 /\ waited' = 0
      /\ UNCHANGED <<nextAuth, auth, session, failed, resumable, latency, status,
                     shutdown, told>>
  BY DEF Identify
<1>3. session = NoSession
  BY <1>2 DEF LifecycleInv, ChoiceHasSession, Greeting
<1>4. /\ log' \in Seq(Seq(Kinds)) /\ applied' \in Seq(Nat)
      /\ Len(log') = Len(log) + 1 /\ Len(applied') = Len(applied) + 1
      /\ applied'[Len(applied) + 1] = 0
      /\ Len(log) \in Nat /\ Len(applied) = Len(log)
  <2>1. first \in Kinds
    BY LifecycleAssumption DEF LifecycleAssumption
  <2>2. <<first>> \in Seq(Kinds)
    BY <2>1
  <2>3. QED
    BY <1>1, <2>2 DEF LifecycleInv, ServerTypeOK
<1>5. LifecycleTypeOK'
  <2>1. latency' \in BOOLEAN /\ (latency' => pc' \in {"live", "invalid"})
    BY <1>2 DEF LifecycleInv, LifecycleTypeOK
  <2>2. pc' \in Awaits /\ waited' \in 0..5
    BY <1>2 DEF Awaits
  <2>3. QED
    BY <1>2, <2>1, <2>2 DEF LifecycleInv, LifecycleTypeOK
<1>6. ServerTypeOK'
  BY <1>1, <1>2, <1>4 DEF LifecycleInv, ServerTypeOK
<1>7. ChoiceHasSession' /\ IdentifyWaited'
  BY <1>2 DEF ChoiceHasSession, IdentifyWaited, Greeting
<1>8. CountsAgree'
  BY <1>1, <1>2, <1>3, <1>4 DEF CountsAgree, CanResume, NoSession
<1>9. GoneIsDropped'
  <2>1. bound' \notin told'
    BY <1>1, <1>2, <1>4 DEF LifecycleInv, ServerTypeOK
  <2>2. ~CanResume(session')
    BY <1>2, <1>3 DEF CanResume, NoSession
  <2>3. QED
    BY <2>1, <2>2 DEF GoneIsDropped
<1>10. StatusMatches'
  BY <1>2 DEF LifecycleInv, StatusMatches, Up, Authenticating
<1>11. QED
  BY <1>2, <1>5, <1>6, <1>7, <1>8, <1>9, <1>10 DEF LifecycleInv

LEMMA ResumeKeepsInv ==
  ASSUME LifecycleInv, Resume
  PROVE  LifecycleInv' /\ UNCHANGED status
<1>1. /\ pc = "sending" /\ auth = "Resume" /\ pc' = "live" /\ stable' = FALSE
      /\ UNCHANGED <<nextAuth, auth, session, failed, resumable, latency, status,
                     shutdown, ghostVars>>
  BY DEF Resume
<1>2. CanResume(session) /\ session.id \in 1..Len(log) /\ session.id \notin told
      /\ session.seq = applied[session.id] /\ session.seq \in Nat
  <2>1. CanResume(session)
    BY <1>1 DEF LifecycleInv, ChoiceHasSession, Greeting
  <2>2. session.id \notin told
    BY <1>1, <2>1 DEF LifecycleInv, GoneIsDropped, Done
  <2>3. session.id \in 1..Len(log) /\ session.seq \in Nat
    BY <2>1 DEF LifecycleInv, LifecycleTypeOK, ServerTypeOK, CanResume, None
  <2>4. QED
    BY <2>1, <2>2, <2>3 DEF LifecycleInv, CountsAgree
<1>3. /\ log' \in Seq(Seq(Kinds)) /\ Len(log') = Len(log) /\ Len(log) \in Nat
      /\ \/ bound' = None /\ cursor' = cursor
         \/ bound' = session.id /\ cursor' = session.seq
  <2>1. CASE session.id \in dead
    BY <2>1 DEF Resume, LifecycleInv, ServerTypeOK
  <2>2. CASE session.id \notin dead
    <3>1. /\ bound' = session.id /\ cursor' = session.seq
          /\ log' = [log EXCEPT ![session.id] = Append(@, "RESUMED")]
      BY <2>2 DEF Resume
    <3>2. ServerTypeOK /\ session.id \in DOMAIN log /\ "RESUMED" \in Kinds
      BY <1>2 DEF LifecycleInv, ServerTypeOK, Kinds
    <3>3. log' \in Seq(Seq(Kinds)) /\ Len(log') = Len(log)
      BY <3>1, <3>2, LogGrows
    <3>4. QED
      BY <3>1, <3>2, <3>3 DEF ServerTypeOK
  <2>3. QED
    BY <2>1, <2>2
<1>4. LifecycleTypeOK'
  BY <1>1 DEF LifecycleInv, LifecycleTypeOK, Awaits, ghostVars
<1>5. ServerTypeOK'
  <2>a. cursor \in Nat /\ session.id \in 0..Len(log) /\ None \in 0..Len(log)
    BY <1>2, <1>3 DEF LifecycleInv, ServerTypeOK, None
  <2>1. bound' \in 0..Len(log) /\ cursor' \in Nat
    BY <2>a, <1>2, <1>3
  <2>2. UNCHANGED <<applied, told, session>>
    BY <1>1 DEF ghostVars
  <2>3. QED
    BY <1>3, <2>1, <2>2 DEF LifecycleInv, ServerTypeOK
<1>6. ChoiceHasSession' /\ IdentifyWaited'
  BY <1>1 DEF ChoiceHasSession, IdentifyWaited, Greeting
<1>7. CountsAgree'
  BY <1>1, <1>2, <1>3 DEF CountsAgree, ghostVars
<1>8. GoneIsDropped'
  BY <1>1, <1>2, <1>3 DEF GoneIsDropped, ghostVars
<1>9. StatusMatches'
  BY <1>1 DEF LifecycleInv, StatusMatches, Up, Authenticating
<1>10. QED
  BY <1>1, <1>4, <1>5, <1>6, <1>7, <1>8, <1>9 DEF LifecycleInv

\* Whatever dispatch comes, session, cursor and what is applied move together.
LEMMA DispatchKeepsInv ==
  ASSUME LifecycleInv, Dispatch
  PROVE  /\ LifecycleInv' /\ (StatusNext \/ UNCHANGED status)
         /\ cursor' = applied'[bound]
<1> DEFINE kind == log[bound][cursor + 1]
<1>1. /\ pc = "live" /\ bound # None
      /\ cursor' = cursor + 1 /\ stable' = TRUE
      /\ applied' = [applied EXCEPT ![bound] = @ + 1]
      /\ session' = [id |-> IF kind = "READY" THEN bound ELSE session.id, seq |-> cursor + 1]
      /\ status' = IF kind = "EVENT" THEN status ELSE Status("Ready")
      /\ UNCHANGED <<pc, nextAuth, auth, failed, resumable, latency, shutdown,
                     log, bound, told, waited>>
  BY DEF Dispatch
<1> HIDE DEF kind
<1>2. /\ bound \in 1..Len(log) /\ cursor \in Nat /\ applied \in Seq(Nat)
      /\ Len(applied) = Len(log) /\ Len(log) \in Nat /\ session.id \in 0..Len(log)
  BY <1>1 DEF LifecycleInv, ServerTypeOK, None
<1>3. /\ applied' \in Seq(Nat) /\ Len(applied') = Len(applied)
      /\ applied'[bound] = applied[bound] + 1
  BY <1>1, <1>2
<1>4. cursor = applied[bound] /\ cursor' = applied'[bound]
  BY <1>1, <1>3 DEF LifecycleInv, CountsAgree
<1>5. /\ session'.id \in {bound, session.id} /\ session'.seq = cursor + 1
      /\ (session'.id = None \/ session'.id = bound)
  <2>1. session.id = None \/ session.id = bound
    BY <1>1 DEF LifecycleInv, CountsAgree
  <2>2. QED
    BY <1>1, <2>1
<1>6. LifecycleTypeOK'
  <2>1. session' \in [id : Nat, seq : Nat]
    BY <1>1, <1>2
  <2>2. QED
    BY <1>1, <2>1 DEF LifecycleInv, LifecycleTypeOK
<1>7. ServerTypeOK'
  BY <1>1, <1>2, <1>3, <1>5 DEF LifecycleInv, ServerTypeOK
<1>8. ChoiceHasSession' /\ IdentifyWaited'
  BY <1>1 DEF ChoiceHasSession, IdentifyWaited, Greeting
<1>9. CountsAgree'
  BY <1>1, <1>4, <1>5 DEF CountsAgree, CanResume
<1>10. GoneIsDropped'
  BY <1>1, <1>5 DEF LifecycleInv, GoneIsDropped, CanResume
<1>11. StatusMatches'
  BY <1>1 DEF LifecycleInv, StatusMatches, Up
<1>12. StatusNext \/ UNCHANGED status
  <2>1. CASE kind = "EVENT"
    BY <1>1, <2>1
  <2>2. CASE kind # "EVENT" /\ status = Status("Ready")
    BY <1>1, <2>2
  <2>3. CASE kind # "EVENT" /\ status # Status("Ready")
    <3>1. status.kind \in {"Identifying", "Resuming"}
      BY <1>1, <2>3 DEF LifecycleInv, StatusMatches, Up, Status
    <3>2. Accept
      BY <1>1, <2>3, <3>1 DEF Accept
    <3>3. QED
      BY <3>2 DEF StatusNext
  <2>4. QED
    BY <2>1, <2>2, <2>3
<1>13. QED
  BY <1>4, <1>6, <1>7, <1>8, <1>9, <1>10, <1>11, <1>12 DEF LifecycleInv

LEMMA InvalidSessionKeepsInv ==
  ASSUME LifecycleInv, NEW d \in BOOLEAN, InvalidSession(d)
  PROVE  LifecycleInv' /\ UNCHANGED status
<1>1. /\ pc = "live" /\ pc' = "invalid" /\ resumable' = d
      /\ told' = IF d THEN told ELSE told \cup {session.id}
      /\ UNCHANGED <<nextAuth, auth, session, failed, stable, latency, status,
                     shutdown, log, bound, cursor, applied, waited>>
  BY DEF InvalidSession
<1>2. LifecycleTypeOK'
  BY <1>1 DEF LifecycleInv, LifecycleTypeOK, Awaits
<1>3. ServerTypeOK'
  BY <1>1 DEF LifecycleInv, ServerTypeOK
<1>4. ChoiceHasSession' /\ IdentifyWaited'
  BY <1>1 DEF ChoiceHasSession, IdentifyWaited, Greeting
<1>5. CountsAgree'
  BY <1>1 DEF LifecycleInv, CountsAgree, CanResume
<1>6. GoneIsDropped'
  BY <1>1 DEF LifecycleInv, GoneIsDropped, CanResume, Done
<1>7. StatusMatches'
  BY <1>1 DEF LifecycleInv, StatusMatches, Up
<1>8. QED
  BY <1>1, <1>2, <1>3, <1>4, <1>5, <1>6, <1>7 DEF LifecycleInv
----------------------------------------------------------------------------
(* All steps                                                               *)

LEMMA LifecycleInvInit ==
  ASSUME LifecycleInit
  PROVE  LifecycleInv
<1>1. LifecycleTypeOK
  <2>1. failed \in 0..MaxAttempts /\ waited \in 0..5
    BY LifecycleAssumption DEF LifecycleInit, LifecycleAssumption
  <2>2. session \in [id : Nat, seq : Nat]
    BY DEF LifecycleInit, NoSession, None
  <2>3. /\ stable \in BOOLEAN /\ resumable \in BOOLEAN /\ latency \in BOOLEAN
        /\ shutdown \in BOOLEAN /\ (latency => pc \in {"live", "invalid"})
    BY DEF LifecycleInit
  <2>4. QED
    BY <2>1, <2>2, <2>3 DEF LifecycleInit, LifecycleTypeOK, Awaits, Modes
<1>2. ServerTypeOK
  BY DEF LifecycleInit, ServerTypeOK, NoSession, None
<1>3. ChoiceHasSession /\ CountsAgree /\ GoneIsDropped /\ IdentifyWaited
  BY DEF LifecycleInit, ChoiceHasSession, CountsAgree, GoneIsDropped, IdentifyWaited,
         CanResume, NoSession, Greeting
<1>4. StatusMatches
  BY DEF LifecycleInit, StatusInit, StatusMatches, Up
<1>5. QED
  BY <1>1, <1>2, <1>3, <1>4 DEF LifecycleInv

\* Every step keeps the invariant and is one of the status machine, or leaves
\* the status as it is.
LEMMA LifecycleStep ==
  ASSUME LifecycleInv, LifecycleNext
  PROVE  LifecycleInv' /\ (StatusNext \/ UNCHANGED status)
<1>a. /\ failed \in 0..MaxAttempts /\ stable \in BOOLEAN /\ waited \in 0..5
      /\ ServerTypeOK /\ MaxAttempts \in Nat
  BY LifecycleAssumption DEF LifecycleInv, LifecycleTypeOK, LifecycleAssumption
<1>1. CASE Subscribe
  BY <1>1, WalkKeepsInv DEF Subscribe
<1>2. CASE CheckShutdown
  <2>1. CASE shutdown
    <3>1. pc = "subscribed" /\ Halted /\ UNCHANGED auth
          /\ UNCHANGED <<nextAuth, session, failed, stable, resumable, shutdown,
                         serverVars, ghostVars>>
      BY <1>2, <2>1 DEF CheckShutdown
    <3>2. LifecycleInv'
      BY <3>1, WalkKeepsInv DEF Halted
    <3>3. Stop
      BY <3>1 DEF Halted, Stop, Final, LifecycleInv, StatusMatches, Status
    <3>4. QED
      BY <3>2, <3>3 DEF StatusNext
  <2>2. CASE ~shutdown
    <3>1. pc = "subscribed" /\ Attempt(nextAuth, session)
          /\ UNCHANGED <<nextAuth, session, failed, stable, resumable, shutdown,
                         serverVars, ghostVars>>
      BY <1>2, <2>2 DEF CheckShutdown
    <3>2. waited' = 5
      BY <3>1 DEF LifecycleInv, IdentifyWaited, ghostVars
    <3>3. QED
      BY <3>1, <3>2, AttemptKeepsInv DEF ghostVars
  <2>3. QED
    BY <2>1, <2>2
<1>3. CASE RetryNow
  <2>1. /\ pc = "backoff" /\ Attempt(nextAuth, session)
        /\ waited' = Least(waited + DelayNow, 5)
        /\ UNCHANGED <<nextAuth, session, failed, stable, resumable, shutdown,
                       serverVars, applied, told>>
    BY <1>3 DEF RetryNow
  <2>2. RetryNumber(failed) - 1 \in Nat
    BY <1>a DEF RetryNumber
  <2>3. nextAuth \in Modes
    BY DEF LifecycleInv, LifecycleTypeOK
  <2>4. DelayNow \in Nat /\ (nextAuth = "Identify" => DelayNow >= 5)
    BY <2>2, <2>3, IdentifyDelay DEF DelayNow, Modes
  <2> DEFINE delay == DelayNow
  <2> HIDE DEF delay
  <2>5. delay \in Nat /\ (nextAuth = "Identify" => delay >= 5) /\ waited' = Least(waited + delay, 5)
    BY <2>1, <2>4 DEF delay
  <2>6. waited' \in 0..5 /\ (nextAuth = "Identify" => waited' = 5)
    BY <1>a, <2>5 DEF Least
  <2>7. QED
    BY <2>1, <2>6, AttemptKeepsInv
<1>4. CASE StopNow
  <2>1. LifecycleInv'
    BY <1>4, WalkKeepsInv DEF StopNow, Halted
  <2>2. pc \in Greeting \cup Up \cup {"backoff"} /\ status' = Status("Stopped")
    BY <1>4 DEF StopNow, Halted, Greeting, Up
  <2>3. ~Final
    BY <2>2 DEF LifecycleInv, StatusMatches, Final, Greeting, Up, Status, Connecting,
                Authenticating, Reconnecting
  <2>4. QED
    BY <2>1, <2>2, <2>3 DEF StatusNext, Stop
<1>5. CASE Connected
  BY <1>5, WalkKeepsInv DEF Connected
<1>6. CASE NoConnection
  <2>1. /\ pc \in Greeting /\ Finish(ResumeOrReidentify, FALSE)
        /\ UNCHANGED <<log, bound, cursor, applied, waited, told>>
    BY <1>6 DEF NoConnection, FinishError, ServerElse, ghostVars, Greeting
  <2>2. QED
    BY <2>1, FinishKeepsInv DEF Greeting
<1>7. ASSUME NEW kind \in Closes, CloseBeforeHello(kind)
      PROVE  LifecycleInv' /\ StatusNext
  <2>1. /\ pc = "hello" /\ Finish(ResumeOrReidentify, FALSE)
        /\ UNCHANGED <<log, bound, cursor, applied, waited, told>>
    BY <1>7 DEF CloseBeforeHello, FinishError, ServerElse
  <2>2. QED
    BY <2>1, FinishKeepsInv DEF Greeting
<1>8. CASE Hello
  <2>1. LifecycleInv'
    BY <1>8, WalkKeepsInv DEF Hello
  <2>2. /\ status = Connecting(auth = "Resume")
        /\ status' = Status(IF auth = "Resume" THEN "Resuming" ELSE "Identifying")
    BY <1>8 DEF Hello, LifecycleInv, StatusMatches
  <2>3. Greet
    BY <2>2 DEF Greet, Connecting, Authenticating
  <2>4. QED
    BY <2>1, <2>3 DEF StatusNext
<1>9. CASE Identify
  BY <1>9, IdentifyKeepsInv
<1>10. CASE Resume
  BY <1>10, ResumeKeepsInv
<1>11. CASE Dispatch
  BY <1>11, DispatchKeepsInv
<1>12. CASE HeartbeatAck
  BY <1>12, WalkKeepsInv DEF HeartbeatAck
<1>13. ASSUME NEW d \in BOOLEAN, InvalidSession(d)
       PROVE  LifecycleInv' /\ UNCHANGED status
  BY <1>13, InvalidSessionKeepsInv
<1>14. CASE InvalidSlept
  <2> DEFINE next == IF resumable /\ CanResume(session) THEN "Resume" ELSE "Reidentify"
  <2>1. /\ pc = "invalid" /\ Finish(next, stable)
        /\ UNCHANGED <<log, bound, cursor, applied, waited, told>>
        /\ (next = "Resume" => resumable)
    BY <1>14 DEF InvalidSlept, serverVars, ghostVars
  <2> HIDE DEF next
  <2>2. QED
    BY <1>a, <2>1, FinishKeepsInv DEF Up
<1>15. CASE Disconnected
  <2>1. /\ pc = "live" /\ Finish(ResumeOrReidentify, stable)
        /\ UNCHANGED <<log, bound, cursor, applied, waited, told>>
    BY <1>15 DEF Disconnected, ServerElse, ghostVars
  <2>2. QED
    BY <1>a, <2>1, FinishKeepsInv DEF Up
<1>16. CASE Broken
  <2>1. /\ pc = "live" /\ Finish(ResumeOrReidentify, FALSE)
        /\ UNCHANGED <<log, bound, cursor, applied, waited, told>>
    BY <1>16 DEF Broken, FinishError, ServerElse, ghostVars
  <2>2. QED
    BY <2>1, FinishKeepsInv DEF Up
<1>17. ASSUME NEW kind \in Closes, Close(kind)
       PROVE  LifecycleInv' /\ StatusNext
  <2>1. /\ pc = "live" /\ Finish(ClassifyClose(kind), stable)
        /\ UNCHANGED <<log, bound, cursor, applied, waited>>
        /\ IF kind = "stale" THEN told' = told \cup {session.id} ELSE told' = told
    BY <1>17 DEF Close
  <2>2. kind = "stale" => ClassifyClose(kind) = "Reidentify"
    BY DEF ClassifyClose
  <2>3. QED
    BY <1>a, <2>1, <2>2, FinishKeepsInv DEF Up
<1>18. CASE RequestShutdown
  <2>1. shutdown' = TRUE /\ UNCHANGED <<clientVars, log, bound, cursor, ghostVars>>
    BY <1>18 DEF RequestShutdown, serverVars
  <2>2. log' \in Seq(Seq(Kinds)) /\ Len(log') = Len(log)
    BY <1>a, <2>1 DEF ServerTypeOK
  <2>3. QED
    BY <2>1, <2>2, WorldKeepsInv DEF clientVars
<1>19. CASE ServerEvent
  <2>1. PICK s \in DOMAIN log : log' = [log EXCEPT ![s] = Append(@, "EVENT")]
    BY <1>19 DEF ServerEvent
  <2>2. log' \in Seq(Seq(Kinds)) /\ Len(log') = Len(log)
    BY <1>a, <2>1, LogGrows DEF Kinds
  <2>3. UNCHANGED <<clientVars, shutdown, bound, cursor, ghostVars>> /\ shutdown \in BOOLEAN
    BY <1>19 DEF ServerEvent, LifecycleInv, LifecycleTypeOK
  <2>4. QED
    BY <2>2, <2>3, WorldKeepsInv DEF clientVars
<1>20. CASE SessionExpires
  <2>1. UNCHANGED <<clientVars, shutdown, log, bound, cursor, ghostVars>>
    BY <1>20 DEF SessionExpires
  <2>2. log' \in Seq(Seq(Kinds)) /\ Len(log') = Len(log) /\ shutdown' \in BOOLEAN
    BY <1>a, <2>1 DEF ServerTypeOK, LifecycleInv, LifecycleTypeOK
  <2>3. QED
    BY <2>1, <2>2, WorldKeepsInv DEF clientVars
<1>21. QED
  BY <1>1, <1>2, <1>3, <1>4, <1>5, <1>6, <1>7, <1>8, <1>9, <1>10, <1>11, <1>12, <1>13,
     <1>14, <1>15, <1>16, <1>17, <1>18, <1>19, <1>20 DEF LifecycleNext, Progress

LEMMA LifecycleStutter ==
  ASSUME LifecycleInv, UNCHANGED lifecycleVars
  PROVE  LifecycleInv' /\ UNCHANGED status
<1>1. UNCHANGED <<clientVars, shutdown, log, bound, cursor, ghostVars>>
  BY DEF lifecycleVars, serverVars
<1>2. log' \in Seq(Seq(Kinds)) /\ Len(log') = Len(log) /\ shutdown' \in BOOLEAN
  BY <1>1 DEF LifecycleInv, ServerTypeOK, LifecycleTypeOK
<1>3. QED
  BY <1>1, <1>2, WorldKeepsInv DEF clientVars

THEOREM LifecycleInvAlways == LifecycleSpec => []LifecycleInv
<1>1. LifecycleInv /\ [LifecycleNext]_lifecycleVars => LifecycleInv'
  BY LifecycleStep, LifecycleStutter
<1>2. QED
  BY <1>1, LifecycleInvInit, PTL DEF LifecycleSpec
----------------------------------------------------------------------------
(* Theorems                                                                *)

\* The client's state keeps its types, and a latency is shown only while a
\* connection is up (run_connection clears the watch, connection.rs).
THEOREM LifecycleTypesAlways == LifecycleSpec => []LifecycleTypeOK
<1>1. LifecycleInv => LifecycleTypeOK
  BY DEF LifecycleInv
<1>2. QED
  BY <1>1, LifecycleInvAlways, PTL

\* The sequence number that a RESUME would send is that of its session, after
\* any number of connections, resumptions and refusals (SessionState).
THEOREM SequenceAlways == LifecycleSpec => []SequenceIsOfSession
<1>1. LifecycleInv => SequenceIsOfSession
  <2>1. ASSUME LifecycleInv, CanResume(session)
        PROVE  session.id \in DOMAIN log
    BY <2>1 DEF LifecycleInv, ServerTypeOK, CanResume, None
  <2>2. QED
    BY <2>1 DEF LifecycleInv, CountsAgree, SequenceIsOfSession
<1>2. QED
  BY <1>1, LifecycleInvAlways, PTL

\* A dispatch is applied when its number is the next one of its session, so
\* none is lost with a connection and none replayed twice (handle_dispatch).
THEOREM DispatchesOnce == LifecycleSpec => EachDispatchOnce
<1>1. LifecycleInv /\ [LifecycleNext]_lifecycleVars
        => [applied' # applied /\ Len(applied') = Len(applied)
              => cursor' = applied'[bound]]_lifecycleVars
  <2> SUFFICES ASSUME LifecycleInv, LifecycleNext, applied' # applied,
                      Len(applied') = Len(applied)
               PROVE  cursor' = applied'[bound]
    OBVIOUS
  <2>1. CASE Dispatch
    BY <2>1, DispatchKeepsInv
  <2>2. CASE Identify
    <3>1. applied' = Append(applied, 0) /\ applied \in Seq(Nat)
      BY <2>2 DEF Identify, LifecycleInv, ServerTypeOK
    <3>2. Len(applied') = Len(applied) + 1 /\ Len(applied) \in Nat
      BY <3>1
    <3>3. QED
      BY <3>2
  <2>3. CASE ~Dispatch /\ ~Identify
    <3>1. applied' = applied
      BY <2>3 DEF LifecycleNext, Progress, Subscribe, CheckShutdown, RetryNow, Connected,
         Hello, Resume, InvalidSession, InvalidSlept, StopNow, NoConnection,
         CloseBeforeHello, Close, HeartbeatAck, Disconnected, Broken, RequestShutdown,
         ServerEvent, SessionExpires, ghostVars
    <3>2. QED
      BY <3>1
  <2>4. QED
    BY <2>1, <2>2, <2>3
<1>2. QED
  BY <1>1, LifecycleInvAlways, PTL DEF LifecycleSpec, EachDispatchOnce

\* A session that an opcode 9 or a close code ended is never resumed
\* (recovery.rs, the match on next in run).
THEOREM GoneForgottenAlways == LifecycleSpec => []GoneIsForgotten
<1>1. LifecycleInv => GoneIsForgotten
  BY DEF LifecycleInv, GoneIsDropped, ChoiceHasSession, GoneIsForgotten, Greeting, Done
<1>2. QED
  BY <1>1, LifecycleInvAlways, PTL

\* No IDENTIFY follows another one within five seconds, for every number of
\* failures between them (reconnect_delay, recovery.rs).
THEOREM IdentifySpacingAlways == LifecycleSpec => []IdentifySpacing
<1>1. LifecycleInv => IdentifySpacing
  BY DEF LifecycleInv, IdentifyWaited, IdentifySpacing, Greeting
<1>2. QED
  BY <1>1, LifecycleInvAlways, PTL

\* The client implements the status machine that docs/network-lifecycle.md
\* promises to an observer, for every behaviour of server and network.
THEOREM StatusMachineAlways == LifecycleSpec => StatusRefined
<1>1. LifecycleInit => StatusInit
  BY DEF LifecycleInit
<1>2. LifecycleInv /\ [LifecycleNext]_lifecycleVars => [StatusNext]_status
  BY LifecycleStep, LifecycleStutter
<1>3. QED
  BY <1>1, <1>2, LifecycleInvAlways, PTL DEF LifecycleSpec, StatusRefined, StatusSpec
=============================================================================
