--------------------------- MODULE RestDispatcher ---------------------------
(***************************************************************************)
(* The REST worker (RestDispatcher, src/src/rest.rs): handles that take a  *)
(* request id and offer a command to a bounded queue, one worker that      *)
(* sends one request at a time, waits out rate limits and retries a 429 a  *)
(* bounded number of times, and a bounded broadcast ring of results.       *)
(*                                                                         *)
(* Time is in ticks.  rate_limit_until is the number of ticks that are     *)
(* left of it: a deadline that has passed is as good as None.  What a      *)
(* command does is abstracted to the channel whose history it fetches, or  *)
(* NoChannel for a message that is sent, edited or deleted.  One receiver  *)
(* of the results lives as long as the handles.                            *)
(***************************************************************************)
EXTENDS Vectors, FiniteSets

CONSTANTS
  Channels,       \* the channels whose history is fetched
  NoChannel,      \* the command is an action on a message
  QueueCapacity,  \* command_capacity
  RingCapacity,   \* event_capacity
  IdSpace,        \* 2^32, the values of next_request_id
  FirstId,        \* next_request_id at the start: 1, or any after long use
  MaxRetries,     \* MAX_RATE_LIMIT_RETRIES
  Delays,         \* what Retry-After and Reset-After may say, in ticks
  MaxTaken        \* bound of the model: request ids taken

ASSUME RestAssumption ==
  /\ NoChannel \notin Channels
  /\ QueueCapacity \in Nat \ {0} /\ RingCapacity \in Nat \ {0}
  /\ IdSpace \in Nat \ {0, 1} /\ FirstId \in 0..IdSpace - 1
  /\ MaxRetries \in Nat /\ MaxTaken \in Nat
  /\ Delays \subseteq Nat \ {0}

VARIABLES
  counter,   \* next_request_id
  held,      \* the commands that other threads have given an id, not yet sent
  queue,     \* the accepted commands the worker has not received
  at,        \* what run awaits: "recv", "hold", "response"; "gone": aborted
  current,   \* the command the worker has received, in a sequence
  retries,   \* rate_limit_retries
  hold,      \* ticks until rate_limit_until
  ring       \* the results the receiver has not taken, oldest first

handleVars == <<counter, held>>
workerVars == <<at, current, retries, hold>>

VARIABLES
  taken,     \* ghost: the number of ids taken
  accepted,  \* ghost: the accepted commands, by number, in order
  published, \* ghost: the answered commands, by number, in order
  lost,      \* ghost: the answers that the ring overwrote
  quiet,     \* ghost: ticks until the exhausted bucket is reset
  unheard,   \* ghost: the response that named this reset was not read
  ended      \* ghost: the channels of which a short page was answered

ghostVars == <<taken, accepted, published, lost, quiet, unheard, ended>>
restVars == <<handleVars, queue, workerVars, ring, ghostVars>>
----------------------------------------------------------------------------
(* The handle *)

\* Mutant: zero is replaced by one, but the one is not taken.
IdReplacingZero == [id |-> IF counter = 0 THEN 1 ELSE counter,
                    next |-> (counter + 1) % IdSpace]

\* next_request_id: the counter wraps around and zero is skipped.
NextId == LET id == IF counter = 0 THEN 1 ELSE counter
          IN  [id |-> id, next |-> (id + 1) % IdSpace]

\* A new command: by is the selection of the pager that asks, 0 for others.
NewCommand(channel, by) ==
  [id |-> NextId.id, number |-> taken + 1, channel |-> channel, by |-> by]

TakeId ==
  /\ taken < MaxTaken /\ taken' = taken + 1
  /\ counter' = NextId.next

\* try_send: the queue has room and the worker its receiver.
Accepts == at # "gone" /\ Len(queue) < QueueCapacity

TrySend(command) ==
  IF Accepts
  THEN queue' = Append(queue, command) /\ accepted' = Append(accepted, command.number)
  ELSE UNCHANGED <<queue, accepted>>

\* submit, by another thread with a clone of the handle: the id is taken in one
\* step and the command offered in a later one.
OtherTakesId(channel) ==
  /\ TakeId /\ held' = held \cup {NewCommand(channel, 0)}
  /\ UNCHANGED <<queue, workerVars, ring, accepted, published, lost, quiet, unheard,
                 ended>>

OtherSends ==
  /\ \E command \in held : held' = held \ {command} /\ TrySend(command)
  /\ UNCHANGED <<counter, workerVars, ring, taken, published, lost, quiet, unheard, ended>>
----------------------------------------------------------------------------
(* The worker *)

\* The next command, and what is left of the rate limit.
Receive ==
  /\ at = "recv" /\ queue # << >>
  /\ current' = <<Head(queue)>> /\ queue' = Tail(queue)
  /\ at' = "hold" /\ retries' = 0
  /\ UNCHANGED <<handleVars, hold, ring, ghostVars>>

\* Mutant: the first request of a command does not wait.
SendOnceAtOnce ==
  /\ at = "hold" /\ (hold = 0 \/ retries = 0) /\ at' = "response"
  /\ UNCHANGED <<handleVars, queue, current, retries, hold, ring, ghostVars>>

\* wait_for_rate_limit is over.
SendOnce ==
  /\ at = "hold" /\ hold = 0 /\ at' = "response"
  /\ UNCHANGED <<handleVars, queue, current, retries, hold, ring, ghostVars>>

Result(ok, short) ==
  LET c == Head(current)
  IN  [id |-> c.id, number |-> c.number, channel |-> c.channel, ok |-> ok, short |-> short]

\* The result goes to the ring, which drops the oldest when it is full, and the
\* worker goes on to the next command.
Publish(result) ==
  /\ ring' = PushBounded(ring, result, RingCapacity)
  /\ lost' = IF Len(ring) < RingCapacity THEN lost ELSE lost \cup {Head(ring).number}
  /\ published' = Append(published, result.number)
  /\ ended' = IF result.short THEN ended \cup {result.channel} ELSE ended
  /\ at' = "recv" /\ current' = << >> /\ retries' = 0

\* execute returns.  The server names a reset when the bucket is exhausted, zero
\* when it is not.  A page has up to the requested number of messages.
Finish(ok, short, reset) ==
  /\ at = "response"
  /\ short => ok /\ Head(current).channel # NoChannel
  /\ Publish(Result(ok, short))
  /\ quiet' = IF reset = 0 THEN quiet ELSE reset
  /\ UNCHANGED <<handleVars, queue, taken, accepted>>

\* The response was read whole: a success, a refusal, an answer that does not
\* parse, or the 429 that is one too many.
Respond(ok, short, reset) ==
  /\ Finish(ok, short, reset)
  /\ hold' = IF reset = 0 THEN hold ELSE reset
  /\ unheard' = (unheard /\ reset = 0)

\* There is no response, or its body is too large or breaks off: send_once fails
\* before the headers reach execute.  The reset they name leaves no delay, and a
\* 429 is not retried.
Unreadable(reset) ==
  /\ Finish(FALSE, FALSE, reset)
  /\ UNCHANGED hold
  /\ unheard' = (unheard \/ reset # 0)

\* Mutants: the retries are not counted; a retried command goes to the back.
LimitedForEver(delay) ==
  /\ at = "response"
  /\ hold' = delay /\ at' = "hold"
  /\ UNCHANGED <<handleVars, queue, current, retries, ring, ghostVars>>
LimitedToTheBack(delay) ==
  /\ at = "response" /\ retries < MaxRetries
  /\ hold' = delay /\ at' = "recv"
  /\ queue' = Append(queue, Head(current)) /\ current' = << >>
  /\ UNCHANGED <<handleVars, retries, ring, ghostVars>>

\* A 429 within the budget: its delay takes the place of the reset it may name.
Limited(delay) ==
  /\ at = "response" /\ retries < MaxRetries
  /\ retries' = retries + 1
  /\ hold' = delay /\ at' = "hold"
  /\ UNCHANGED <<handleVars, queue, current, ring, ghostVars>>

\* The task is aborted at whatever it awaits; the commands it has accepted and the
\* deadline go with it.
Abort ==
  /\ at # "gone" /\ at' = "gone"
  /\ queue' = << >> /\ current' = << >>
  /\ retries' = 0 /\ hold' = 0 /\ quiet' = 0 /\ unheard' = FALSE
  /\ UNCHANGED <<handleVars, ring, taken, accepted, published, lost, ended>>

TickDown ==
  /\ hold > 0 \/ quiet > 0
  /\ hold' = IF hold > 0 THEN hold - 1 ELSE 0
  /\ quiet' = IF quiet > 0 THEN quiet - 1 ELSE 0
  /\ unheard' = (unheard /\ quiet > 1)
  /\ UNCHANGED <<handleVars, queue, at, current, retries, ring, taken, accepted,
                 published, lost, ended>>

\* The receiver takes the oldest result it has not lost.
TakeResult == ring # << >> /\ ring' = Tail(ring)
----------------------------------------------------------------------------
RestInit ==
  /\ counter = FirstId /\ held = {} /\ queue = << >>
  /\ at = "recv" /\ current = << >> /\ retries = 0 /\ hold = 0
  /\ ring = << >>
  /\ taken = 0 /\ accepted = << >> /\ published = << >>
  /\ lost = {} /\ quiet = 0 /\ unheard = FALSE /\ ended = {}

Answer ==
  \/ \E ok, short \in BOOLEAN, reset \in Delays \cup {0} : Respond(ok, short, reset)
  \/ \E reset \in Delays \cup {0} : Unreadable(reset)
  \/ \E delay \in Delays : Limited(delay)

Others == OtherSends \/ \E channel \in Channels \cup {NoChannel} : OtherTakesId(channel)

WorkerNext == Receive \/ SendOnce \/ Answer \/ Abort
----------------------------------------------------------------------------
(* Properties *)

Numbers(commands) == [i \in DOMAIN commands |-> commands[i].number]

\* The line that the users of the worker see: the command in hand, then the queue.
Service == INSTANCE RestService WITH
  Room <- QueueCapacity + 1,
  waiting <- Numbers(current \o queue),
  answered <- published,
  open <- at # "gone"

\* Every accepted command is answered once and in the order in which the queue
\* accepted it, through all waits, limits and retries and whatever other threads
\* submit; only an abort leaves the last of them without an answer.
ServiceRefined == Service!ServiceSpec

\* Commands with the same id are at least IdSpace - 1 ids apart, also around
\* the zero that is skipped and with ids taken by several threads: the answer
\* of one command is never taken for that of another that is still waited for.
IdsRepeatLate ==
  LET all == held \cup Items(queue) \cup Items(current)
  IN  \A c, d \in all : c # d /\ c.id = d.id =>
        c.number - d.number >= IdSpace - 1 \/ d.number - c.number >= IdSpace - 1

\* docs/message-history.md: "X-RateLimit-Remaining: 0 schedules a pre-emptive
\* delay", for the whole queue: after a final response that named a reset, no
\* request of any command is in flight before it, however the commands come.
\* The exception is what the code does and the doc does not say: a response
\* whose body could not be read delays nothing.
ExhaustionHolds == at = "response" /\ quiet > 0 => unheard

\* Every accepted command gets its event, whatever the server answers, unless
\* the worker is aborted.
AcceptedIsAnswered ==
  \A n \in 1..MaxTaken :
    n \in Items(accepted) ~> n \in Items(published) \/ at = "gone"
=============================================================================
