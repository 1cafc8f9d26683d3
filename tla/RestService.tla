----------------------------- MODULE RestService -----------------------------
(***************************************************************************)
(* What the users of the REST worker may rely on                           *)
(* (docs/rest-outbound.md): a bounded line of commands, each of which is   *)
(* answered once and in its turn.  Waits, rate limits, retries and the     *)
(* ring of results do not show; when the worker is gone the line is too.   *)
(***************************************************************************)
EXTENDS Naturals, Sequences

CONSTANT Room   \* the commands that may wait, the one in hand included

VARIABLES
  waiting,    \* the commands that were accepted and not answered
  answered,   \* the commands that were answered, in order
  open        \* whether there is a worker

serviceVars == <<waiting, answered, open>>

ServiceInit == waiting = << >> /\ answered = << >> /\ open = TRUE

\* A command is accepted: it goes to the end of the line.
Enter ==
  /\ open /\ Len(waiting) < Room
  /\ Len(waiting') = Len(waiting) + 1
  /\ SubSeq(waiting', 1, Len(waiting)) = waiting
  /\ UNCHANGED <<answered, open>>

\* The command whose turn it is is answered.
Serve ==
  /\ open /\ waiting # << >>
  /\ waiting' = Tail(waiting)
  /\ answered' = Append(answered, Head(waiting))
  /\ UNCHANGED open

Leave ==
  /\ open /\ open' = FALSE
  /\ waiting' = << >>
  /\ UNCHANGED answered

ServiceNext == Enter \/ Serve \/ Leave

ServiceSpec == ServiceInit /\ [][ServiceNext]_serviceVars
=============================================================================
