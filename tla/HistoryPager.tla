---------------------------- MODULE HistoryPager ----------------------------
(***************************************************************************)
(* The pager of the selected channel (src/src/history.rs) on top of the    *)
(* REST worker: at most one pending request, matched with the result that  *)
(* carries its id, and the mark that the beginning of the channel is       *)
(* reached.  The page size is fixed and the anchor of an older page is     *)
(* whatever the message cache has; a result only tells whether the page    *)
(* was shorter than requested.                                             *)
(***************************************************************************)
EXTENDS RestDispatcher

CONSTANT MaxSelections  \* bound of the model: changes of the selection

ASSUME PagerAssumption == MaxSelections \in Nat

VARIABLES
  selected,   \* selected_channel, NoChannel for None
  pending,    \* the pending request, in a sequence
  exhausted   \* the beginning of the selected channel was returned

pagerVars == <<selected, pending, exhausted>>

VARIABLE selection  \* ghost: the number of the current selection

vars == <<restVars, pagerVars, selection>>

RestElse == UNCHANGED restVars
----------------------------------------------------------------------------
\* select_channel, and clear_selection for NoChannel.  The pending request is
\* forgotten, not withdrawn.
Select(channel) ==
  /\ selection < MaxSelections /\ selection' = selection + 1
  /\ channel # selected
  /\ selected' = channel /\ pending' = << >> /\ exhausted' = FALSE
  /\ RestElse

\* Mutant: the request is pending though the queue refused it.
SubmitRegardless(mark) ==
  /\ pending = << >> /\ selected # NoChannel
  /\ TakeId
  /\ LET c == NewCommand(selected, selection)
     IN  TrySend(c) /\ pending' = <<[id |-> c.id, number |-> c.number, channel |-> selected]>>
  /\ exhausted' = mark
  /\ UNCHANGED <<held, workerVars, ring, published, lost, quiet, unheard, ended, selected,
                 selection>>

\* A refused submission costs an id and leaves the pager as it was.  With a
\* request pending or nothing selected nothing happens at all.
Submit(mark) ==
  /\ pending = << >> /\ selected # NoChannel
  /\ TakeId
  /\ LET c == NewCommand(selected, selection)
     IN  /\ TrySend(c)
         /\ IF Accepts
            THEN /\ pending' = <<[id |-> c.id, number |-> c.number, channel |-> selected]>>
                 /\ exhausted' = mark
            ELSE UNCHANGED <<pending, exhausted>>
  /\ UNCHANGED <<held, workerVars, ring, published, lost, quiet, unheard, ended, selected,
                 selection>>

TryLoadLatest == Submit(FALSE)

\* The anchor is there when a message of the channel is cached.
TryLoadOlder == ~exhausted /\ Submit(exhausted)

\* Mutants of the match: any page will do; any failed fetch will do.
AnyPage(r, p) == r.channel # NoChannel
AnyFailure(r, p) == r.channel # NoChannel /\ (r.ok => r.id = p.id /\ r.channel = p.channel)

\* The result completes the pending request: a page of the same id and channel,
\* or a failed fetch of the same id.
Completes(r, p) ==
  r.channel # NoChannel /\ r.id = p.id /\ (r.ok => r.channel = p.channel)

\* observe_rest, for the next result of the ring.
ObserveRest ==
  /\ TakeResult
  /\ LET r == Head(ring)
     IN  IF pending # << >> /\ Completes(r, Head(pending))
         THEN /\ pending' = << >>
              /\ exhausted' = IF r.ok THEN r.short ELSE exhausted
         ELSE UNCHANGED <<pending, exhausted>>
  /\ UNCHANGED <<handleVars, queue, workerVars, ghostVars, selected, selection>>
----------------------------------------------------------------------------
Init ==
  /\ RestInit
  /\ selected = NoChannel /\ pending = << >> /\ exhausted = FALSE
  /\ selection = 0

PagerElse == UNCHANGED <<pagerVars, selection>>

Worker == WorkerNext /\ PagerElse
Passing == TickDown /\ PagerElse
Clones == Others /\ PagerElse
User == TryLoadLatest \/ TryLoadOlder \/ \E channel \in Channels \cup {NoChannel} : Select(channel)

Next == Worker \/ Passing \/ Clones \/ User \/ ObserveRest

\* The executor polls the worker, timers expire, and a request ends with a response
\* or its timeout.
PagerSpec ==
  /\ Init /\ [][Next]_vars
  /\ WF_vars((Receive \/ SendOnce \/ Answer) /\ PagerElse)
  /\ WF_vars(Passing)
----------------------------------------------------------------------------
(* Properties *)

\* A pager is never busy with a request that nobody will answer: its request
\* waits for the worker, or its result for the pager, unless the ring has
\* overwritten that result or the worker was aborted.
PendingIsTracked ==
  \A p \in Items(pending) :
    \/ at = "gone" \/ p.number \in lost
    \/ \E c \in Items(queue) \cup Items(current) \cup Items(ring) : c.number = p.number

\* docs/history-pager.md: "This separation prevents a slow response from
\* channel A from changing the pagination/exhaustion state of newly selected
\* channel B": the mark is only set when a short page of this very channel came.
ExhaustedIsOfSelection == exhausted => selected \in ended

\* One selection never has two history requests with the worker, whatever
\* results of earlier selections, of other threads or failures come between.
OneAtATime ==
  selection > 0 =>
    Cardinality({c \in Items(queue) \cup Items(current) : c.by = selection}) <= 1
=============================================================================
