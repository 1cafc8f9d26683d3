--------------------------- MODULE StatusMachine ---------------------------
(***************************************************************************)
(* What an observer of the status watch may rely on, as                    *)
(* docs/network-lifecycle.md promises it: a connection goes from           *)
(* Connecting through Identifying or Resuming to Ready, a failed one       *)
(* through Reconnecting back to Connecting, a retry authenticates the way  *)
(* Reconnecting and Connecting announced, and Stopped and Fatal are final. *)
(* Every recoverable failure is announced before the retry.                *)
(***************************************************************************)
EXTENDS Naturals

VARIABLE status   \* the NetworkStatus in the watch

Status(kind) == [kind |-> kind]
Connecting(resume) == [kind |-> "Connecting", resume |-> resume]
Reconnecting(attempt, resume) ==
  [kind |-> "Reconnecting", attempt |-> attempt, resume |-> resume]

Authenticating(resume) == Status(IF resume THEN "Resuming" ELSE "Identifying")

\* A connection attempt is under way or has succeeded.
Active == status.kind \in {"Connecting", "Identifying", "Resuming", "Ready"}
Final == status.kind \in {"Stopped", "Fatal"}
----------------------------------------------------------------------------
StatusInit == status = Status("Idle")

Begin == status.kind = "Idle" /\ status' = Connecting(FALSE)

Greet == status.kind = "Connecting" /\ status' = Authenticating(status.resume)

Accept == status.kind \in {"Identifying", "Resuming"} /\ status' = Status("Ready")

\* The connection ends and will be retried; the first retry is number one.
Fail ==
  /\ Active
  /\ status'.kind = "Reconnecting"
  /\ status'.attempt \in Nat \ {0} /\ status'.resume \in BOOLEAN
  /\ status' = Reconnecting(status'.attempt, status'.resume)

Retry == status.kind = "Reconnecting" /\ status' = Connecting(status.resume)

Stop == ~Final /\ status' = Status("Stopped")

GiveUp == Active /\ status' = Status("Fatal")

StatusNext == Begin \/ Greet \/ Accept \/ Fail \/ Retry \/ Stop \/ GiveUp

StatusSpec == StatusInit /\ [][StatusNext]_status
=============================================================================
