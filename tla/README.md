# Diddycord in TLA+

A verification project for Diddycord, the Rust core of a Discord client: what
its components keep and do, which properties make them correct, which of them
TLC checks on small instances and which TLAPS proves for every instance.
Sources are named relative to the repository root (`src/src/...`, `docs/...` of
the repository are `src/...` and `docs/...` in its own documentation).

## 1. Inventory

### The system

One process with two sides. The **network side** runs on Tokio: one Gateway task
(`NetworkBackbone::run`) and one REST task (`RestDispatcher::run`). The
**frontend side** is a synchronous loop that never blocks: each frame it drains
two bounded broadcast buses (Gateway events, REST events) into caches and
draws from the caches. Requests go the other way through a bounded queue
(`RestHandle`) and through watch channels (`NetworkControl`).

```
 Discord Gateway --frames--> NetworkBackbone --FrontendEvent bus--> FrontendState -> drawing
        ^                      |  |                  \----> DirectTopologyState
        |                      |  +--status, latency, self watches--> GUI
 Discord REST  <--commands-- RestDispatcher <--queue-- RestHandle <-- HistoryPager, GUI
        \------answers------>  |--RestEvent bus--> FrontendState, HistoryPager
```

| component | state | operations | interacts with |
|---|---|---|---|
| message cache (`state.rs`) | timelines by channel with LRU stamps, tombstone FIFO, clock, `gateway_ready` | `apply`, `apply_rest`, `apply_history`, retire and restore, eviction | reads the topology before an event changes it |
| topology (`topology.rs`) | guilds with channels, active threads, LRU stamp; clock | `apply` of nine event kinds, eviction | called by `FrontendState::apply` |
| Gateway lifecycle (`gateway/mod.rs`, `recovery.rs`) | next authentication, session, failure count, watches | connect, classify the end, delay, retry, stop | owns the connection |
| Gateway connection (`connection.rs`, `protocol.rs`) | sequence number, stability, heartbeat deadline, ACK flag, start of the measure | HELLO, IDENTIFY, RESUME, opcodes 0, 1, 7, 9, 11, close | session of the lifecycle, event bus |
| ingestion (`events.rs`, `bulk.rs`, `identity.rs`) | none; the current user watch | parse, validate, emit one or several events | event bus |
| direct messages (`direct.rs`) | direct channels with LRU stamps | `apply`, `drain` | its own receiver of the event bus |
| REST (`rest.rs`) | queue, rate-limit deadline, request counter | submit, execute, retry on 429, publish | REST bus |
| history pager (`history.rs`) | selection, pending request, exhaustion | select, load latest, load older, observe | REST handle and bus, message cache |
| GUI (`gui_app.rs`) | a session: tasks, receivers, caches, selection | connect, poll, select, send, disconnect | everything above |

### Behaviours that are hard to test

* the order in which REST answers, history pages and Gateway events reach the
  caches, and the deletion that comes between a request and its answer;
* bounded structures at their limit: timelines, tombstones, guilds, threads;
* topology events that change two caches in one call, in an order that matters;
* reconnection: which session and sequence number survive which failure, how
  often and how fast the client retries, and what the status watch says meanwhile;
* the heartbeat timer against late ACKs and heartbeats the server asks for;
* a shutdown at any moment of all this;
* lag: a slow receiver loses events for good;
* two caches that read the same bus at their own pace and must agree on what is open;
* one dispatch that becomes several events, with the frontend reading in between.

`PROJECT.json` lists each hazard at its line with the properties that cover it,
or with the reason why none does.

### What makes each component correct

* *Message cache*: limits and tombstone budget are kept; a retired channel has no
  timeline until it is announced again; an id is shown once; history never rolls
  a cached message back and merges in snowflake order; the right timeline is evicted.
* *Topology*: limits are kept; a thread sync is exact in its scope; an outage loses
  nothing; the right guild is evicted.
* *Both*: what leaves navigation leaves the message cache in the same step.
* *Navigation and server*: once the bus is read, navigation is the guild as it is, also
  after outages and new sessions, and a lost event is made good by the next snapshot.
* *Direct messages*: list and message cache agree on which conversations are open; an
  inbound message is shown under its author; a closed conversation stays closed.
* *REST*: a bounded line, each command answered once, in its turn and in the end; the
  pager is never stuck and never misled.
* *Heartbeat*: a silent peer is noticed, an answering one is never dropped, a
  sample is never worse than the network.
* *Lifecycle*: no dispatch lost or repeated over resumptions; a dead session is
  forgotten; IDENTIFY at most every five seconds; the status watch follows the
  documented machine; shutdown always ends `run`; the client recovers when failures stop.

## 2. The modules

| module | models | how |
|---|---|---|
| `Vectors` | `Vec`, `VecDeque` operations | recursive functions, which a proof can use |
| `Timelines` | message cache of `state.rs` | `channels`, `retired`, `clock` are the struct's fields; one action per event kind and per REST result; what a topology event retires and restores is a parameter |
| `Topology` | `topology.rs` | `guilds`, `topologyClock`; one action per event kind |
| `FrontendState` | `apply`, `apply_rest` | composes the two: each event retires from the old topology, changes it, restores; `Apply(e)` is `apply` of event `e` |
| `Ingestion` | dispatch table of `connection.rs`, `events.rs`, `direct.rs`, `bulk.rs`, `identity.rs` | `EventsOf(d, self)` is the sequence of events that dispatch `d` becomes; one operator per `emit_*` function |
| `EventBus` | `tokio::sync::broadcast` as `mod.rs` and the drains use it | `unread[r]` is what receiver `r` has still to read; a full ring overtakes, `TellLag` is the report |
| `DirectTopology` | `direct.rs` | `direct` and `directClock` are the struct's fields; upsert, delete, touch, eviction |
| `FrameLoop` | `GuiSession::poll` | `phase` is the drain poll is in, `processed` its budget; the Gateway sends between any two reads |
| `GuiSession` | a session of `gui_app.rs` | composes `Ingestion`, `FrontendState`, `DirectTopology` and `FrameLoop`: the Gateway task, the two drains, history pages, selection; Discord dispatches anything |
| `Mirror` | Gateway task, bus and `FrontendState` | composes `Ingestion` and `EventBus` with a server that has one guild, outages, silent changes and new sessions |
| `Convergence` | `drain`, `drain_rest`, the answers of `rest.rs` | composes `Timelines` with one channel's server, the Gateway queue and the REST answers in flight |
| `RestService` | `docs/rest-outbound.md` | the abstract specification: a bounded line whose first is answered |
| `RestDispatcher` | `rest.rs` | the fields of handle and worker; `at` is the await the worker is at; time in ticks; other threads take an id and submit in two steps |
| `HistoryPager` | `history.rs` | extends it: the pager's fields, one action per method, results from the ring; refines `RestService` |
| `Heartbeat` | heartbeats of `run_connection` | the loop's locals, time in ticks, the server's answers in flight |
| `StatusMachine` | `docs/network-lifecycle.md` | the abstract specification of the status watch |
| `GatewayLifecycle` | `run`, `run_connection`, `protocol.rs`, `recovery.rs` | `pc` is the await the client is at; the server's sessions with their dispatch logs; refines `StatusMachine` |
| `VectorProofs`, `TimelineProofs`, `ConvergenceProofs`, `FrontendProofs`, `HeartbeatProofs`, `SessionProofs`, `RestProofs`, `LifecycleProofs` | | theorems |
| `MC...` | | instances for TLC |

Abstractions. A message is an id and a body that stands for author and content;
ids are numbers, whose order is that of `snowflake_cmp` (decimal strings of
equal length compare as text, shorter ones are older). Maps are functions with a
finite domain. `u64` clocks are numbers: they saturate after 2^64 events. Counters
of dropped events and items are written but never read by the caches and are left
out. The session id and the resume URL are set, required and cleared together and are
one field. A READY that cannot be parsed is an ordinary dispatch, as in the code,
where it still counts for the sequence number. Opcode 0 carries a sequence number
and the frames of one connection arrive in order (TCP). A payload that does not parse
becomes no event and is left out; so are the fields that only drawing reads. The ring of
`EventBus` is what each receiver has still to read: a slot that all have read cannot be
told from an empty one, and how many events a receiver lost is abstracted to whether it
lost any.

The steps of `GatewayLifecycle` go from await to await: the task does nothing else
between two of them and no other task writes its state. Both `select!`s are
`biased` and drop what they wait for, so `StopNow` is enabled at each of those
awaits and not between `subscribe` and the check, which are steps of their own.

Some definitions stand beside a variant whose comment begins with "Mutant": a
plausible bug of that definition. `PROJECT.json` pairs each property with the mutant
that breaks it; no specification uses a mutant.

## 3. What is model-checked

| run | question | instance and why it is enough |
|---|---|---|
| `timelines` | bounds, tombstones, eviction, uniqueness, merge | three channels for two timelines and two tombstones, so that evictions and lost tombstones happen; three ids for two places; pages of two and three messages, with and without a message that has no author; every order of messages in a timeline, so that a page meets a full one out of order; four stamps |
| `topology` | limits, sync, outage, eviction | three guilds for two places, three channels for two, two threads for one, scoped and full syncs; four stamps |
| `frontend` | retirement and restoration across the caches | one guild, two channels for one place, a thread, a direct channel, two tombstones: every event kind meets every other |
| `mirror` | navigation and timelines against the guild | one guild with two channels and a thread, room for all, a ring of two events, five dispatches or silent changes: a snapshot and its sync are separate events, either may be lost, a channel takes its thread along, the guild is left in an outage or while the session is gone |
| `gui_session` | two caches on one bus | two conversations of which one fits the list, the message cache and the tombstones, the client and another user, a ring and budgets of two, four dispatches and one history page with a message older or younger than the one dispatched: both drains run out of budget, both are overtaken, a page is late for a closed conversation or pushes out the message just shown, the tombstone of a closed conversation is pushed out, the client learns who it is late |
| `convergence` | cache against server | one channel, a message from before and two to come, three events and two requests in flight in every order; with room for all three, so that nothing is missing because it was evicted; the theorems cover full timelines |
| `heartbeat` | timer, ACK, sample | interval of three ticks, four intervals of time, three heartbeats in flight: overlaps and two missed deadlines happen |
| `lifecycle` | session continuity, spacing, status, shutdown, recovery | three failures of any kind anywhere, sessions of two dispatches, an unparsable READY, expiry of sessions |
| `pager` | REST worker and pager | two channels and three requests, whose ids wrap around at zero; a queue of two places and a ring of one, which both overflow; one retry; two selections, so that answers of the first meet the second |

Bounds. `RetiredFloor` is the 8 of `max(max_channels, 8)`, scaled down so that the FIFO
overflows. `MaxClock`, `MaxTopologyClock`, `MaxNow`, `MaxFlight`, `MaxLog`, `MaxFaults`,
`MaxEvents`, `MaxAsked`, `MaxTaken`, `MaxSelections`,
`MaxDispatches` and `MaxFetches` bound the length of a behaviour; `MaxAttempts` stands for `u32::MAX`, where
`failed_attempts` saturates. `IdSpace` stands for 2^32 and `FirstId` for the place of
`next_request_id` after long use, so that it wraps around within three requests; it is
larger than the number of requests, since an id that comes back while its first bearer is
still waited for (four thousand million ids later) would be taken for it. `QueueCapacity` and
`RingCapacity` are the capacities after `max(4)` and `max(8)`, scaled down; so are `Capacity`
and `Budget`, which the GUI sets to the same 512 events (`GATEWAY_EVENT_BUDGET`), `MaxDirect`,
64 there, and `MaxBulkDelete`. Deadlock is not checked where the system stops: `run`
returns, a connection closes, the REST worker is aborted, time ends, the bounded server of `Convergence` is silent.

Fairness. `StoppingSpec` assumes that the executor polls `run` again after a request for
shutdown (`WF` of `StopNow`, and of its first two steps): a `watch` wakes its waiter.
`ReadyInTheEnd` has the premise that timers expire and that a network and a server that do
not fail go on (`GoesOn`, the `WF` of `Progress`). Failures are bounded by `MaxFaults` and not
fair: they need not happen. The server answers an IDENTIFY with READY, which may be one that
does not parse: such a client stays in `Identifying` with a session until its connection
breaks, and `ReadyInTheEnd` names that as its exception (`Unannounced`).
`PagerSpec` assumes that the executor polls the REST worker, that timers expire and that a
request ends (`REQUEST_TIMEOUT`). No fairness is assumed of the frontend, which need not
drain its results, of the user, of other threads or of the abort. `GuiSession` and `Mirror`
assume none: their properties are about every moment at which the bus is read.

### Where code and documentation part

Three runs end with a counterexample; each checks one sentence of the documentation.

* `late_history`: a page computed before a deletion and applied after it brings the
  deleted message back; a single message has no tombstone. `AgreesUnlessCrossed` shows
  that this and a late answer about a message that was edited or deleted since are the only
  ways in which a cached message can disagree with the server once the events are applied.
* `fatal_close_is_fatal`: a non-recoverable close before HELLO is retried for ever.
* `scheduled_are_answered`: a late ACK of a requested heartbeat lets a scheduled one pass
  its deadline unanswered. `SilenceIsNoticed` shows the damage is bounded: a peer that
  sends no ACK at all is dropped within two intervals.

More things a reader of the code should know; a property that meets one names it as its exception:

* A timeline can stay out of snowflake order: the answer to one's own message is applied
  before the Gateway event of an older one, which is then appended behind it; the answer to
  the edit of a message that is not cached is appended as well (`state.rs:169`).
* `docs/message-history.md:58` says "existing cached IDs are never overwritten by history". They
  are when a full timeline is out of order: of a timeline that holds 2 before 1, a page
  with 1, 2 and 3 first pushes out 2, the message in front, and then inserts its own copy of 2,
  with the body it had when the page was computed (`state.rs:512-547`).
  `HistoryKeepsLiveState` excepts a page that does not fit in a timeline out of order and
  shows that nothing else lets history roll a cached message back. `Overtaken` counts the
  page's copy of a cached message in that one case; otherwise a late page turns back
  nothing that is cached.
* A thread sync empties its scope and then has room for the threads it lists first: a cached
  thread that it lists late leaves navigation and keeps its timeline
  (`topology.rs:397`); `RemovalPurgesTimelines` excepts such a sync (`Overfull`).
* With two heartbeats in flight the ACK of the first is measured from the second, or not at
  all (`connection.rs:308`); `SampleNeverOverstates` bounds the error to one side.
* The delay of a 429 overwrites a longer reset of the same response, and the 429 that
  spends the budget leaves no delay behind unless it names a reset (`rest.rs:240-257`).
* A response whose body cannot be read, because it is too large or breaks off, leaves no delay
  whatever its headers say, and its 429 is not retried: `send_once` returns (`rest.rs:340`)
  before `execute` sees status and reset (`rest.rs:240`), so the next command is sent at once.
  `docs/message-history.md:84` says "`X-RateLimit-Remaining: 0` schedules a pre-emptive delay" and
  `docs/rest-outbound.md:47` "HTTP 429 responses are delayed and retried", both without exception.
  `ExhaustionHolds` excepts resets named by such a response (`unheard`).
* A CHANNEL_UPDATE of a channel that is not in navigation puts it there and leaves its
  tombstone, so the messages of a visible channel are ignored (`state.rs:428`);
  `ActivationRestoresButForUpdates` excepts it and shows it is the only such event besides
  the snapshot of a guild in outage.
* READY's guild list is not parsed: a guild the client was removed from while it had no
  session stays in navigation (`NoForeignGuild`).
* After a loss navigation is put right by the next snapshot, but a timeline of a channel
  that navigation never knew to be there stays (`NoGhostTimelines`).
* A history page can push an inbound message out that nobody has seen yet: a page for
  another channel that evicts the timeline, or younger messages when the timeline is full.
  `InboundIsShown` names both (`PushedOut`) and shows there is nothing else.
* Lag reports do not count against the budget of a drain (`state.rs:294`,
  `direct.rs:133`): while the Gateway fills the ring between any two reads, a drain goes on.
* An own message in a closed conversation is ignored until the other side writes or Discord
  announces the conversation: the echo opens nothing (`connection.rs:371`).

## 4. What is proved

All proofs hold for every value of the constants that satisfies the named assumptions
(`TimelinesAssumption`, `InputsAssumption`, `BodiesAssumption`, `TopologyAssumption`,
`FrontendAssumption`, `HeartbeatAssumption`, `LifecycleAssumption`, `BusAssumption`,
`FrameAssumption`, `DirectAssumption`, `SessionAssumption`, `DispatchAssumption`,
`RestAssumption`, `ConvergenceAssumption`, `MirrorAssumption`: limits are positive, pages, retirements,
dispatches and events have their types; for `Mirror`, the guild fits the limits and a payload lists
each channel and thread once). Where a theorem has a hypothesis of its own, it is named with it below; an instance
TLC runs satisfies each.

* `VectorProofs`: what a recursive function computes (`RecursionSolved`), induction up to a
  number by the least counterexample (`UpTo`, `LeastNatural`: a set of bad indices that is not
  empty has a least element, and the equation of the function contradicts it), and what
  `Append`, `Tail`, `Push` and `Retain` return. The same argument serves the loops `RetireAll`,
  `MergeHistory` and the thread sync. `CountItems` turns lengths into cardinalities, which the
  limits are about.
* `TimelineProofs`: `BoundedAlways` (types, capacity, stamps), `RetiredAlways` and
  `IdsAlways`, from the inductive invariant `Inv`. It conjoins these properties,
  because each needs the others: the eviction keeps the capacity only if the stamps name
  a victim, an insertion keeps ids distinct only in a typed timeline, and a topology
  event keeps tombstones and timelines apart only because it removes both at once. One
  lemma per action, one step per conjunct.

  `MergeAlways`: by `UpTo` over the page, after each of its messages the timeline is in order,
  covers what came so far and holds the youngest of it (`IsYoungest`, `Covers`); a sorted
  sequence with given items is unique (`YoungestIs`). Its hypothesis is that a page does not hold
  two different copies of one message (`OneCopy`); with two, which of them stays depends on what
  pushes the other out. `LiveAlways` needs a different argument for each of its cases: in a
  sorted timeline what is pushed out is the oldest, and its older copy on the page is turned away
  (`SortedKeepsLive`); in one with room nothing is pushed out, and the old timeline stays embedded in the
  new one (`FittingKeepsLive`).
* `ConvergenceProofs`: `AgreesAlways` and `CompleteAlways`, the cache against the server, for every
  number of events and answers in flight and every limit. Neither property says anything
  while events are on their way, so the invariant `ConvergenceInv` says what they will do:
  * the last event about a message in the queue says what the server has (`QueueTells`);
  * an answer's message is what the server has, unless an event about it that was sent after the
    answer is still queued or was heard (`AnswerTells`, with the places of events in the
    queue computed from `emitted`);
  * until an answer was crossed, a cached message is what the server has or an event about it is
    queued (`CacheTells`);
  * a message that is neither old nor deleted is cached or its creation is queued, as long as no
    message had to make room (`AllThere`).

  The steps of the server share one lemma about what a new event does to queue and answers
  (`SentKeeps`), those of `drain_rest` one per kind of answer about what it leaves in the cache
  (`Leaves`). The page is the deep case: it needs what a merge brings and keeps
  (`MergeBringsNew`, `MergeSources`, `SortedKeepsLive`, `FittingKeepsLive`) and that the page the
  server computes consists of messages it has (`PageIsLive`).
  The second half is navigation against the guild: `NavigationAlways`, `NoForeignAlways`,
  `NoGhostAlways`, for every guild that fits the limits, every capacity of the bus and every loss.
  `Shown` is what the topology shows of the guild, `Effect` what an event makes of that; an event
  that is applied has exactly its effect (`ApplyShows`, one lemma per event). The invariant
  `MirrorInv` is a chain (`Chain`): the events in ring and outbox lead (`Leads`) from a picture of
  the guild to what the server has told (`Truth`), each message in a channel that the picture of
  its moment has. The chain starts from what is shown, or, after a loss, from any picture
  (`Starts`): losing the oldest event only moves the start. A snapshot ends the freedom in two
  halves, since the channels come with the GUILD_CREATE and the threads with the sync right
  behind it (`Paired`, `ResetEffect`, `WholeSyncEffect`). A dispatch adds to the end of the chain
  (`DispatchInv`), `try_recv` and `Apply` take its first event (`DrainInv`). For the timelines,
  `Tidy`: all are of channels navigation has, kept by an event if its message is in such a channel
  and it retires what leaves (`ApplyTidy`).
* `FrontendProofs` begins with the topology: `TopologyBoundedAlways`, `SyncIsExactAlways`, `OutageAlways`. The limits of
  the guilds need the stamps, as above. A sync is a loop over what it lists; what it leaves is
  characterised by the last occurrence of each listed thread (`SyncedIsLast`), from which limit
  and exactness follow.

  Then the composition: the invariants of both caches hold in it
  (`FrontendInvAlways`, `FrontendBoundedAlways`): each event's retired and restored ids are among those
  the message cache takes as parameters. For the action properties one lemma per event says what
  leaves and enters navigation (`...Active`), from the definition of the topology, and one what
  the event retires and restores; their comparison gives `RemovalAlways` and `ActivationAlways`.
  `TombstonesAlways` assumes that no thread has the id of a channel (snowflakes are
  unique): a snapshot retires threads and restores the channels it lists, and would lift the
  tombstone of a thread with such an id. That a tombstone is pushed out only by a full FIFO is the
  lemma about `RetireAll`, `TombstonesPushedOut`, and that the older ones go first the invariant
  `KeepsOrder` of its loop: what the FIFO keeps it keeps in order, unless the event retires it anew.
* `HeartbeatProofs`: `HeartbeatTypesAlways`, `SilenceNoticedAlways`, `UnansweredDropped`,
  `SamplesBounded`. `SilenceIsNoticed` is not inductive: the invariant adds that the
  deadline is at most an interval away, and at most an interval after the last ACK unless
  a heartbeat is awaited, and that the measured heartbeat is the last one in flight.
* `SessionProofs`. `DirectNeverBehind` is about places in the stream of events: what an overtaken
  list has lost lies before its place, unseen. That the list is level when a frame is drawn is not inductive; `LevelWithin` says how far it may be behind in the middle of a frame:
  by what the message cache has applied in this frame, then by what is left of the list's own
  budget. A send adds one to both unless the ring is full for one, and then that one has
  as much to read as there can be. `DirectBoundedAlways`: the limit needs the stamps, since an
  eviction makes room only if it has a victim, and one victim only if no two stamps are the same.
  And a session implements the frame loop (`SessionIsLoop`), so both results hold of
  `SessionSpec`, the specification that is run (`SessionNeverBehind`, `SessionListBounded`). It
  needs that what the Gateway task holds back are events.

  A session is also a run of `FrontendState` (`FrontendOfSession`), so the invariants of the
  message cache hold in it (`CachesInv`). Four theorems say what the two caches come to. All go
  the same way: a property of a cache that has read the bus becomes an invariant about what is
  still on the way to it, the unread events and, before them, the outbox (`Coming`); a send
  leaves that as it is, a drain takes its first, a dispatch adds to its end. A receiver that was
  overtaken claims nothing.
  * `ListedHeardAlways`, by `CachesAgree`: the list has read a prefix of the events, the message
    cache another; a conversation that is listed has no tombstone once the message cache
    has read as far (`EndsIn`: of the openings and closings in a sequence the last one
    counts). With `DirectNeverBehind` the difference at a frame is on the message cache's side.
    Hypothesis `ConversationsApart`: a conversation has not the id of a guild's channel or thread.
  * `ClosedGoneAlways`, by `ClosedAhead`: what Discord has closed ends in a closing on the way to
    either cache. Hypotheses `ConversationsApart` and `IdsAreUnique`: no channel of a guild has the
    id of a thread. It holds for any number of tombstones: once its closing is
    read a closed conversation has its tombstone until the full FIFO gives it up (`ShutOut`), and
    then it is in `forgotten`, the exception of the property: a late page does reopen its channel.
  * `InboundShownAlways`, by `InboundAhead`: an inbound message is on its way as the discovery of
    its channel followed by the message, with nothing between them (`Stages`); the discovery
    lifts the tombstone and lists the channel, the message then finds both. What a page does to a
    message that is shown is the lemma `HistoryShowsOrOut`: it stays, or the timeline is full and
    has a younger one, or the cache is full.
  * `RecipientAlways`, by `OthersOnly`: no event in outbox, ring or list opens a conversation under
    the client's own name. Hypothesis `OneAccount`: READY and USER_UPDATE name one account, and it
    is not the recipient of its own conversations. It does not need the bus to be complete.
* `RestProofs`: `ServiceAlways`, worker and pager implement `RestService`. The service's
  line is the command in hand followed by the queue; the invariant `LineInv` says there is
  one in hand exactly while the worker waits for the limit or the response, and that a worker
  that is gone leaves no line. Receiving a command is a stutter, a final response the
  service of the first, a 429 a stutter, an abort the end of the line.

  `PagerInv` extends it to the contents: commands, results and the pager's request are
  recognised by the number of their id (`Known`). `IdsInTurn` fixes the place of the counter from the
  age of each known request, once around or not, and gives `IdsAlways`. `PendingAlways` and
  `ExhaustedAlways` need that a result belongs to no command of the worker any more, and that
  nothing bears the pager's number but its own request. `OneAtATime` is proved while no two
  known requests share an id (`OneAtATimeWhileApart`); `OneAtATimeAlways` has the hypothesis
  that fewer ids are taken than there are (`MaxTaken < IdSpace`). Without it the property is
  false: an answer to another command with the same id frees the pager.
  `ExhaustionAlways`: the worker's deadline covers every reset still ahead (`HoldCoversReset`),
  unless it was named by a response that could not be read.
* `LifecycleProofs`: `LifecycleInv` relates the client to the server's logs. A resumption that
  is planned has a session and an IDENTIFY none (`ChoiceHasSession`); sequence number and
  cursor are what was applied of the session (`CountsAgree`); a session it was told is gone it
  knows only while it sleeps on the opcode 9 (`GoneIsDropped`); a delay before IDENTIFY is
  five seconds or more for every count of failures (`IdentifyWaited`, with the shift and the
  saturation of `reconnect_delay`). From these `SequenceAlways`, `DispatchesOnce`, `GoneForgottenAlways`,
  `IdentifySpacingAlways`. `StatusMachineAlways`, the refinement of the documented status machine, adds
  what the watch shows at each await (`StatusMatches`); each step is then one of the machine's or
  leaves the status alone.

Only model-checked: everything about liveness (`ReadyInTheEnd`, `ShutdownEnds`,
`AcceptedIsAnswered`), which the prover does not reach. Every other property of the passing runs
is a theorem.

## 5. What is not modelled, and the plan

Not modelled: drawing and text input, login and disconnect of the application, the
executor's set-up, the binaries, JSON parsing, TLS and HTTP, and the end of a bus
(`TryRecvError::Closed`), which only ends a drain.

What could be added: `HistoryPager` composed with `Timelines`, for the anchor of an older
page and the page that a full timeline pops again, so that scrolling back makes no
progress; the user's own requests in `GuiSession`, whose answers `Convergence` has now.

Theorems worth proving next: what a receiver that was overtaken can still be sure of, for instance
that a timeline `NoGhostTimelines` does not exclude is of a channel whose removal was among the
lost events. Which entry a full cache gives up is a theorem for the tombstones only
(`TombstonesAlways`); for timelines, guilds and conversations the properties say that the stamps
are distinct, so that exactly one goes, and the choice of the least one is translated from the code.
