-------------------------- MODULE GatewayLifecycle --------------------------
(***************************************************************************)
(* The life of the Gateway client: NetworkBackbone::run                    *)
(* (src/src/gateway/mod.rs), run_connection (connection.rs), the HELLO and *)
(* the authentication (protocol.rs), and the choice between RESUME,        *)
(* IDENTIFY and giving up (recovery.rs), against a server that keeps       *)
(* sessions, replays what a resumed client missed, forgets sessions, and   *)
(* closes connections as it likes.                                         *)
(*                                                                         *)
(* Every await of the client is a value of pc; between two awaits it does  *)
(* not yield, so what it does there is one step.  The frames of one        *)
(* connection come in order and without loss until the connection ends.    *)
(* The session id and the resume URL are set and cleared together and are  *)
(* one field here.  Heartbeat.tla has the heartbeats; here they only end a *)
(* connection or give a latency sample.                                    *)
(***************************************************************************)
EXTENDS Naturals, Sequences, FiniteSets, StatusMachine

CONSTANTS
  MaxAttempts,   \* the value at which failed_attempts saturates (u32::MAX)
  MaxLog,        \* bound of the model: dispatches of one session
  MaxFaults,     \* bound of the model: disconnections, closes, lost sessions
  FirstEvents    \* the kinds the first dispatch of a session may have

\* The kinds of dispatches that change the lifecycle; "EVENT" is any other one,
\* and a READY that cannot be parsed.
Kinds == {"READY", "RESUMED", "EVENT"}

\* What the close frame says: a non-recoverable code, a code that ends the
\* session (4007, 4009), another one, or no frame.
Closes == {"fatal", "stale", "other", "none"}

ASSUME LifecycleAssumption ==
  /\ MaxAttempts \in Nat \ {0}
  /\ MaxLog \in Nat /\ MaxFaults \in Nat
  /\ FirstEvents \subseteq Kinds

None == 0            \* no session id, no sequence number, no binding
Modes == {"Identify", "Resume"}

VARIABLES
  pc,          \* the await the client is at
  nextAuth,    \* next_auth of run
  auth,        \* auth of run_connection
  session,     \* SessionState: [id, seq]
  failed,      \* failed_attempts
  stable,      \* stable of run_connection
  resumable,   \* the d of the opcode 9 that is being slept on
  latency,     \* whether the latency watch holds a sample
  shutdown     \* the shutdown watch

clientVars == <<pc, nextAuth, auth, session, failed, stable, resumable, latency,
                status>>

VARIABLES
  log,       \* the server: the dispatches of each session, by number
  dead,      \* the sessions it has forgotten
  bound,     \* the session of the current connection, if it has one
  cursor,    \* the last dispatch it sent on the current connection
  faults     \* how many times it, or the network, has failed

serverVars == <<log, dead, bound, cursor, faults>>

VARIABLES
  applied,   \* how many dispatches of each session the client has applied
  told,      \* the sessions the client was told are gone
  waited,    \* the seconds slept since the last IDENTIFY, five being enough
  closed     \* what the close frame that ended the last connection said

ghostVars == <<applied, told, waited, closed>>

lifecycleVars == <<clientVars, shutdown, serverVars, ghostVars>>

Done == pc \in {"stopped", "failed"}

\* SessionState::can_resume
CanResume(s) == s.id # None /\ s.seq # None
NoSession == [id |-> None, seq |-> None]
Least(a, b) == IF a <= b THEN a ELSE b
----------------------------------------------------------------------------
(* recovery.rs *)

\* resume_or_reidentify
ResumeOrReidentify == IF CanResume(session) THEN "Resume" ELSE "Reidentify"

\* classify_close; a close without a frame is any other one.
ClassifyClose(kind) ==
  IF kind = "fatal" THEN "Fatal"
  ELSE IF kind = "stale" THEN "Reidentify" ELSE ResumeOrReidentify

\* 1 << exponent, for an exponent of at most 7.
Shifted(exponent) == <<1, 2, 4, 8, 16, 32, 64, 128>>[exponent + 1]

\* Mutant: an identify is retried as soon as a resume.
EagerDelay(attempt, mode) == Least(Shifted(Least(attempt, 7)), 30)

\* reconnect_delay, without its jitter of less than half a second.
ReconnectDelay(attempt, mode) ==
  LET base == IF mode = "Resume" THEN 1 ELSE 5
      cap == IF mode = "Resume" THEN 30 ELSE 120
  IN  Least(base * Shifted(Least(attempt, 7)), cap)
----------------------------------------------------------------------------
(* run *)

\* The head of the loop, to the first await of run_connection.
Attempt(mode, s) ==
  LET resume == mode = "Resume" /\ CanResume(s)
  IN  /\ pc' = "connecting"
      /\ latency' = FALSE
      /\ status' = Connecting(resume)
      /\ auth' = IF resume THEN "Resume" ELSE "Identify"

\* failed_attempts after a connection.
Count(wasStable) == IF wasStable THEN 0 ELSE Least(failed + 1, MaxAttempts)

\* The match on next: RESUME needs a session.
MayResume(next) == next = "Resume" /\ CanResume(session)

\* Mutant: the session is not cleared for an identify.
SessionKept(resume) == session

SessionFor(resume) == IF resume THEN session ELSE NoSession

\* Mutant: the number of the retry is the counter.
RetryUncounted(n) == n

\* The number of the retry, and the exponent of its delay.
RetryNumber(n) == IF n = 0 THEN 1 ELSE n
DelayNow == ReconnectDelay(RetryNumber(failed) - 1, nextAuth)

\* The rest of the loop's body, when run_connection has returned next.
Finish(next, wasStable) ==
  /\ failed' = Count(wasStable)
  /\ latency' = FALSE
  /\ \/ /\ next = "Fatal"
        /\ pc' = "failed" /\ status' = Status("Fatal")
        /\ UNCHANGED <<nextAuth, session>>
     \/ /\ next # "Fatal"
        /\ pc' = "backoff"
        /\ nextAuth' = IF MayResume(next) THEN "Resume" ELSE "Identify"
        /\ session' = SessionFor(MayResume(next))
        /\ status' = Reconnecting(RetryNumber(failed'),
                                  nextAuth' = "Resume" /\ CanResume(session'))
  /\ UNCHANGED <<auth, stable, resumable, shutdown>>

\* run_connection has returned an error.
FinishError == Finish(ResumeOrReidentify, FALSE)

Halted == pc' = "stopped" /\ latency' = FALSE /\ status' = Status("Stopped")

\* The first two lines of run are two steps, for the request may come between.
Subscribe ==
  /\ pc = "idle" /\ pc' = "subscribed"
  /\ UNCHANGED <<nextAuth, auth, session, failed, stable, resumable, latency,
                 status, shutdown, serverVars, ghostVars>>

CheckShutdown ==
  /\ pc = "subscribed"
  /\ IF shutdown THEN Halted /\ UNCHANGED auth ELSE Attempt(nextAuth, session)
  /\ UNCHANGED <<nextAuth, session, failed, stable, resumable, shutdown,
                 serverVars, ghostVars>>

\* The end of the reconnect delay.
RetryNow ==
  /\ pc = "backoff"
  /\ Attempt(nextAuth, session)
  /\ waited' = Least(waited + DelayNow, 5)
  /\ closed' = "none"
  /\ UNCHANGED <<nextAuth, session, failed, stable, resumable, shutdown,
                 serverVars, applied, told>>

\* Mutant: the sample of the connection that is dropped stays in the watch.
StopKeepingLatency ==
  /\ shutdown /\ pc \in {"connecting", "hello", "sending", "live", "invalid", "backoff"}
  /\ pc' = "stopped" /\ status' = Status("Stopped")
  /\ UNCHANGED <<nextAuth, auth, session, failed, stable, resumable, latency,
                 shutdown, serverVars, ghostVars>>

\* Mutant: the delay cannot be interrupted.
StopNowButInBackoff ==
  /\ shutdown /\ pc \in {"connecting", "hello", "sending", "live", "invalid"}
  /\ Halted
  /\ UNCHANGED <<nextAuth, auth, session, failed, stable, resumable,
                 shutdown, serverVars, ghostVars>>

\* Either select sees the request; what it was waiting for is dropped.
StopNow ==
  /\ shutdown /\ pc \in {"connecting", "hello", "sending", "live", "invalid", "backoff"}
  /\ Halted
  /\ UNCHANGED <<nextAuth, auth, session, failed, stable, resumable,
                 shutdown, serverVars, ghostVars>>
----------------------------------------------------------------------------
(* run_connection: up to the authentication *)

Connected ==
  /\ pc = "connecting" /\ pc' = "hello"
  /\ UNCHANGED <<nextAuth, auth, session, failed, stable, resumable, latency,
                 status, shutdown, serverVars, ghostVars>>

Fault == faults < MaxFaults /\ faults' = faults + 1
ServerElse == UNCHANGED <<log, dead, bound, cursor>>

\* The connection cannot be made, or nothing usable comes within the timeout, or
\* the HELLO is invalid, or the authentication cannot be written.
NoConnection ==
  /\ pc \in {"connecting", "hello", "sending"}
  /\ FinishError
  /\ Fault /\ ServerElse /\ UNCHANGED ghostVars

\* receive_hello does not look at the code of a close frame.
CloseBeforeHello(kind) ==
  /\ pc = "hello"
  /\ FinishError
  /\ Fault /\ ServerElse
  /\ closed' = kind /\ UNCHANGED <<applied, told, waited>>

Hello ==
  /\ pc = "hello" /\ pc' = "sending"
  /\ status' = Status(IF auth = "Resume" THEN "Resuming" ELSE "Identifying")
  /\ UNCHANGED <<nextAuth, auth, session, failed, stable, resumable, latency,
                 shutdown, serverVars, ghostVars>>

\* The server opens a session.
Identify ==
  /\ pc = "sending" /\ auth = "Identify"
  /\ pc' = "live" /\ stable' = FALSE
  /\ \E first \in FirstEvents :
       LET new == Len(log) + 1
       IN  /\ log' = Append(log, <<first>>)
           /\ applied' = Append(applied, 0)
           /\ bound' = new
  /\ cursor' = 0 /\ waited' = 0
  /\ UNCHANGED <<nextAuth, auth, session, failed, resumable, latency, status,
                 shutdown, dead, faults, told, closed>>

\* The server takes the session up after the client's sequence number, unless
\* it has forgotten it.
Resume ==
  /\ pc = "sending" /\ auth = "Resume"
  /\ pc' = "live" /\ stable' = FALSE
  /\ IF session.id \in dead
     THEN bound' = None /\ UNCHANGED <<log, cursor>>
     ELSE /\ bound' = session.id
          /\ cursor' = session.seq
          /\ log' = [log EXCEPT ![session.id] = Append(@, "RESUMED")]
  /\ UNCHANGED <<nextAuth, auth, session, failed, resumable, latency, status,
                 shutdown, dead, faults, ghostVars>>
----------------------------------------------------------------------------
(* run_connection: the loop *)

\* Mutant: the sequence number of a READY is not taken.
DispatchForgetful ==
  /\ pc = "live" /\ bound # None /\ cursor < Len(log[bound])
  /\ cursor' = cursor + 1
  /\ stable' = TRUE
  /\ applied' = [applied EXCEPT ![bound] = @ + 1]
  /\ LET kind == log[bound][cursor + 1]
     IN  /\ session' = [id |-> IF kind = "READY" THEN bound ELSE session.id,
                        seq |-> IF kind = "RESUMED" THEN session.seq ELSE cursor + 1]
         /\ status' = IF kind = "EVENT" THEN status ELSE Status("Ready")
  /\ UNCHANGED <<pc, nextAuth, auth, failed, resumable, latency, shutdown,
                 log, dead, bound, faults, told, waited, closed>>

\* Opcode 0: the next dispatch of the connection's session.
Dispatch ==
  /\ pc = "live" /\ bound # None /\ cursor < Len(log[bound])
  /\ cursor' = cursor + 1
  /\ stable' = TRUE
  /\ applied' = [applied EXCEPT ![bound] = @ + 1]
  /\ LET kind == log[bound][cursor + 1]
     IN  /\ session' = [id |-> IF kind = "READY" THEN bound ELSE session.id,
                        seq |-> cursor + 1]
         /\ status' = IF kind = "EVENT" THEN status ELSE Status("Ready")
  /\ UNCHANGED <<pc, nextAuth, auth, failed, resumable, latency, shutdown,
                 log, dead, bound, faults, told, waited, closed>>

\* Opcode 11, of a heartbeat that was measured.
HeartbeatAck ==
  /\ pc = "live" /\ latency' = TRUE
  /\ UNCHANGED <<pc, nextAuth, auth, session, failed, stable, resumable, status,
                 shutdown, serverVars, ghostVars>>

\* Opcode 9, after which the client sleeps; it is the answer to a resume that
\* the server cannot take up, or comes out of the blue.
InvalidSession(d) ==
  /\ pc = "live" /\ pc' = "invalid" /\ resumable' = d
  /\ IF bound = None THEN ~d /\ UNCHANGED <<dead, faults>>
     ELSE Fault /\ dead' = IF d THEN dead ELSE dead \cup {bound}
  /\ told' = IF d THEN told ELSE told \cup {session.id}
  /\ UNCHANGED <<nextAuth, auth, session, failed, stable, latency, status,
                 shutdown, log, bound, cursor, applied, waited, closed>>

\* Mutant: whatever the server said, the session is resumed if it can be.
InvalidSleptResuming ==
  /\ pc = "invalid"
  /\ Finish(ResumeOrReidentify, stable)
  /\ UNCHANGED <<serverVars, ghostVars>>

\* The end of the sleep after an opcode 9.
InvalidSlept ==
  /\ pc = "invalid"
  /\ Finish(IF resumable /\ CanResume(session) THEN "Resume" ELSE "Reidentify", stable)
  /\ UNCHANGED <<serverVars, ghostVars>>

\* Opcode 7, the end of the stream, a heartbeat without ACK.
Disconnected ==
  /\ pc = "live"
  /\ Finish(ResumeOrReidentify, stable)
  /\ Fault /\ ServerElse /\ UNCHANGED ghostVars

\* An error of the socket, a heartbeat that cannot be written.
Broken ==
  /\ pc = "live"
  /\ FinishError
  /\ Fault /\ ServerElse /\ UNCHANGED ghostVars

\* A close frame; with a stale code the server has forgotten the session.
Close(kind) ==
  /\ pc = "live"
  /\ Finish(ClassifyClose(kind), stable)
  /\ Fault /\ closed' = kind
  /\ IF kind = "stale" THEN dead' = dead \cup ({bound} \ {None}) /\ told' = told \cup {session.id}
     ELSE UNCHANGED <<dead, told>>
  /\ UNCHANGED <<log, bound, cursor, applied, waited>>
----------------------------------------------------------------------------
(* The world *)

RequestShutdown ==
  /\ ~shutdown /\ shutdown' = TRUE
  /\ UNCHANGED <<clientVars, serverVars, ghostVars>>

\* Something happens in a session, whether the client is connected or not.
ServerEvent ==
  /\ \E s \in DOMAIN log \ dead :
       /\ Len(log[s]) < MaxLog
       /\ log' = [log EXCEPT ![s] = Append(@, "EVENT")]
  /\ UNCHANGED <<clientVars, shutdown, dead, bound, cursor, faults, ghostVars>>

\* The server forgets a session that no connection holds.
SessionExpires ==
  /\ Fault
  /\ \E s \in DOMAIN log \ dead :
       /\ ~(pc \in {"live", "invalid"} /\ bound = s)
       /\ dead' = dead \cup {s}
  /\ UNCHANGED <<clientVars, shutdown, log, bound, cursor, ghostVars>>
----------------------------------------------------------------------------
LifecycleInit ==
  /\ pc = "idle" /\ nextAuth = "Identify" /\ auth = "Identify"
  /\ session = NoSession
  /\ failed = 0 /\ stable = FALSE /\ resumable = FALSE
  /\ latency = FALSE /\ shutdown = FALSE
  /\ StatusInit
  /\ log = << >> /\ dead = {} /\ bound = None /\ cursor = 0 /\ faults = 0
  /\ applied = << >> /\ told = {} /\ waited = 5 /\ closed = "none"

\* The steps that the executor, a sound network and a sound server take.
Progress ==
  \/ Subscribe \/ CheckShutdown \/ RetryNow
  \/ Connected \/ Hello \/ Identify \/ Resume \/ Dispatch \/ InvalidSlept
  \/ bound = None /\ InvalidSession(FALSE)

LifecycleNext ==
  \/ Progress \/ StopNow
  \/ NoConnection \/ (\E k \in Closes : CloseBeforeHello(k) \/ Close(k))
  \/ HeartbeatAck \/ (\E d \in BOOLEAN : InvalidSession(d)) \/ Disconnected \/ Broken
  \/ RequestShutdown \/ ServerEvent \/ SessionExpires

LifecycleSpec == LifecycleInit /\ [][LifecycleNext]_lifecycleVars

\* The executor polls run again after a request for shutdown.
StoppingSpec == LifecycleSpec /\ WF_lifecycleVars(StopNow)
                              /\ WF_lifecycleVars(Subscribe \/ CheckShutdown)

\* Timers expire, and a network and a server that do not fail go on.
GoesOn == WF_lifecycleVars(Progress)
----------------------------------------------------------------------------
(* Properties *)

Awaits == {"idle", "subscribed", "connecting", "hello", "sending", "live", "invalid",
           "backoff", "stopped", "failed"}

\* The client's state has its types, and a latency is shown only while a
\* connection is up (docs/gateway-latency.md, "Reconnect semantics").
LifecycleTypeOK ==
  /\ pc \in Awaits /\ nextAuth \in Modes /\ auth \in Modes
  /\ session \in [id : Nat, seq : Nat]
  /\ failed \in 0..MaxAttempts /\ waited \in 0..5
  /\ stable \in BOOLEAN /\ resumable \in BOOLEAN /\ latency \in BOOLEAN
  /\ shutdown \in BOOLEAN
  /\ latency => pc \in {"live", "invalid"}

\* The sequence number always belongs to the session the client would resume,
\* and counts exactly the dispatches of it that were applied.
SequenceIsOfSession ==
  CanResume(session) => /\ session.id \in DOMAIN log
                        /\ session.seq = applied[session.id]

\* Across any number of resumptions each dispatch of a session is applied once
\* and in order: none is lost with a connection and none is replayed twice.
EachDispatchOnce ==
  [][applied' # applied /\ Len(applied') = Len(applied)
       => cursor' = applied'[bound]]_lifecycleVars

\* A session the client was told is gone is never resumed again.
GoneIsForgotten == pc = "sending" /\ auth = "Resume" => session.id \notin told

\* docs/architecture.md: "IDENTIFY retries never occur faster than five
\* seconds", whatever failures and resumptions lie between two of them.
IdentifySpacing == pc = "sending" /\ auth = "Identify" => waited >= 5

\* The status watch moves as docs/network-lifecycle.md says.
StatusRefined == StatusSpec

\* A request for shutdown ends run, whatever the network does and however long
\* the delay that is running (docs/network-lifecycle.md).
ShutdownEnds == shutdown /\ pc # "idle" ~> Done

\* The session opened with a READY that cannot be parsed: run_connection goes
\* on without it, and nothing makes it ask for another one.
Unannounced == bound # None /\ log[bound][1] # "READY"

\* When faults stop and the network goes on, the client ends up Ready for good,
\* whatever session it had and however often it was refused, unless it was
\* stopped or rejected, or waits in a session whose READY it could not parse.
ReadyInTheEnd == GoesOn => <>[](status.kind = "Ready" \/ Done \/ Unannounced)

\* docs/network-lifecycle.md: "A non-recoverable Discord close code publishes
\* Fatal { code } before run() returns an error."
FatalCloseIsFatal == closed = "fatal" => status.kind \in {"Fatal", "Stopped"}
=============================================================================
