----------------------------- MODULE Timelines -----------------------------
(***************************************************************************)
(* The message cache of FrontendState (src/src/state.rs): one bounded      *)
(* timeline per channel, at most MaxChannels of them with LRU eviction,    *)
(* and the bounded FIFO of retired channel ids, the tombstones, that keeps *)
(* a late message or a late history page from recreating the timeline of a *)
(* channel that is gone.                                                   *)
(*                                                                         *)
(* A message is its snowflake id and a body; the body stands for author    *)
(* and content together.  What a topology event retires and restores is a  *)
(* parameter here: FrontendState computes it from the topology.            *)
(***************************************************************************)
EXTENDS Vectors, FiniteSets

CONSTANTS
  ChannelIds,    \* the ids of channels, threads and direct messages
  MsgIds,        \* snowflakes: their order as numbers is their age
  Bodies,        \* what a message says
  MaxChannels,   \* max_channels
  MaxMessages,   \* max_messages_per_channel
  RetiredFloor,  \* the 8 of max(max_channels, 8)
  Pages,         \* the history pages REST may return
  Retirements,   \* the sequences of ids a topology event may retire
  Restorations,  \* the sets of ids a topology event may restore
  MaxClock       \* bound of the model: the cache clock stops there

ASSUME TimelinesAssumption ==
  /\ MsgIds \subseteq Nat
  /\ MaxChannels \in Nat \ {0}
  /\ MaxMessages \in Nat \ {0}
  /\ RetiredFloor \in Nat

Message == [id : MsgIds, body : Bodies]

\* A message of a history page; authored is FALSE when the response has no
\* author, and such a message is never shown.
PageMessage == [id : MsgIds, body : Bodies, authored : BOOLEAN]

ASSUME InputsAssumption ==
  /\ Pages \subseteq Seq(PageMessage)
  /\ Retirements \subseteq Seq(ChannelIds)
  /\ Restorations \subseteq SUBSET ChannelIds

\* A MESSAGE_UPDATE that does not carry the content keeps the cached one.
Unchanged == "unchanged"
ASSUME BodiesAssumption == Unchanged \notin Bodies

VARIABLES
  channels,   \* the cached timelines, by channel id
  retired,    \* retired_channels, oldest tombstone first
  clock       \* stamps the touched field of a timeline

timelineVars == <<channels, retired, clock>>

Timeline == [messages : Seq(Message), touched : Nat]

MaxRetired == IF MaxChannels >= RetiredFloor THEN MaxChannels ELSE RetiredFloor

IsRetired(c) == c \in Items(retired)
----------------------------------------------------------------------------
(* Tombstones *)

\* Mutants: a known id gets a second tombstone; a full FIFO drops the youngest.
RetireOneTwice(r, c) == PushBounded(r, c, MaxRetired)
RetireOneForYoungest(r, c) ==
  IF c \in Items(r) THEN r
  ELSE Append(IF Len(r) >= MaxRetired THEN SubSeq(r, 1, Len(r) - 1) ELSE r, c)

\* retire_channel, on the FIFO: a known id keeps its place, a new one pushes
\* the oldest out of a full FIFO.
RetireOne(r, c) == IF c \in Items(r) THEN r ELSE PushBounded(r, c, MaxRetired)

\* The loop over the ids an event retires.
RetireAll(r, ids) ==
  LET after[i \in 0..Len(ids)] ==
        IF i = 0 THEN r ELSE RetireOne(after[i-1], ids[i])
  IN  after[Len(ids)]

\* The timelines that are left when those of ids are gone.
Without(chs, ids) == [c \in DOMAIN chs \ ids |-> chs[c]]

\* What a topology event does to the cache: it retires the ids of a sequence
\* before the topology changes, and restores those of a set after.
Retopology(gone, back) ==
  /\ channels' = Without(channels, Items(gone))
  /\ retired' = LET r == RetireAll(retired, gone) IN Retain(r, Items(r) \ back)
  /\ UNCHANGED clock
----------------------------------------------------------------------------
(* Timelines *)

\* evict_least_recently_used_channel
LeastRecentlyUsed(chs) ==
  CHOOSE c \in DOMAIN chs : \A d \in DOMAIN chs : chs[c].touched <= chs[d].touched

\* The cache with a timeline of channel c touched now: made when there is
\* none, at the price of the least recently used one when the cache is full.
Opened(chs, c, now) ==
  LET room == IF c \in DOMAIN chs \/ Cardinality(DOMAIN chs) < MaxChannels
              THEN chs ELSE Without(chs, {LeastRecentlyUsed(chs)})
      kept == IF c \in DOMAIN chs THEN chs[c].messages ELSE << >>
  IN  [d \in DOMAIN room \cup {c} |->
         IF d = c THEN [messages |-> kept, touched |-> now] ELSE room[d]]

HasId(s, id) == \E i \in DOMAIN s : s[i].id = id

\* rev().find: the last message with that id.
LastIndexOf(s, id) ==
  CHOOSE i \in DOMAIN s : s[i].id = id /\ \A j \in DOMAIN s : s[j].id = id => j <= i

\* Mutants of Upsert: a message that is cached already goes to the back once
\* more; one older than the youngest is taken for known and dropped.
UpsertAppends(s, m) == PushBounded(s, m, MaxMessages)
UpsertInOrder(s, m) ==
  IF HasId(s, m.id) \/ \E i \in DOMAIN s : m.id < s[i].id
  THEN [i \in DOMAIN s |-> IF s[i].id = m.id THEN m ELSE s[i]]
  ELSE PushBounded(s, m, MaxMessages)

\* A live message replaces the cached one with its id, wherever that is, or
\* goes to the back.
Upsert(s, m) ==
  IF HasId(s, m.id) THEN [s EXCEPT ![LastIndexOf(s, m.id)] = m]
  ELSE PushBounded(s, m, MaxMessages)

\* Mutants of InsertHistory: a full timeline takes nothing; the page wins over
\* the cached message.
InsertHistoryIfRoom(s, m) ==
  IF ~m.authored \/ HasId(s, m.id) \/ Len(s) >= MaxMessages THEN s
  ELSE LET younger == {i \in DOMAIN s : m.id < s[i].id}
           at == IF younger = {} THEN Len(s) + 1
                 ELSE CHOOSE i \in younger : \A j \in younger : i <= j
       IN  InsertAt(s, at, [id |-> m.id, body |-> m.body])
InsertHistoryOver(s, m) ==
  IF ~m.authored THEN s ELSE Upsert(s, [id |-> m.id, body |-> m.body])

\* One message of a history page: before the first cached message that is
\* younger, unless its id is cached or it has no author.
InsertHistory(s, m) ==
  IF ~m.authored \/ HasId(s, m.id) THEN s
  ELSE LET younger == {i \in DOMAIN s : m.id < s[i].id}
           at == IF younger = {} THEN Len(s) + 1
                 ELSE CHOOSE i \in younger : \A j \in younger : i <= j
           longer == InsertAt(s, at, [id |-> m.id, body |-> m.body])
       IN  IF Len(longer) > MaxMessages THEN Tail(longer) ELSE longer

MergeHistory(s, page) ==
  LET merged[i \in 0..Len(page)] ==
        IF i = 0 THEN s ELSE InsertHistory(merged[i-1], page[i])
  IN  merged[Len(page)]

\* Every touch of the cache takes a new stamp.
Tick == clock < MaxClock /\ clock' = clock + 1
----------------------------------------------------------------------------
(* The handlers.  A disjunct that changes nothing is the early return.     *)

\* Mutant: a history page that ignores the tombstones.
ApplyHistoryAnyway(c, page) ==
  /\ \E i \in DOMAIN page : page[i].authored
  /\ Tick
  /\ channels' = LET open == Opened(channels, c, clock')
                 IN  [open EXCEPT ![c].messages = MergeHistory(@, page)]
  /\ UNCHANGED retired

\* Message: MESSAGE_CREATE, or a REST answer that carries an author.
ApplyMessage(c, m) ==
  \/ IsRetired(c) /\ UNCHANGED timelineVars
  \/ /\ ~IsRetired(c)
     /\ Tick
     /\ channels' = LET open == Opened(channels, c, clock')
                    IN  [open EXCEPT ![c].messages = Upsert(@, m)]
     /\ UNCHANGED retired

\* MessageUpdate: a partial edit of a message that may be cached.
ApplyUpdate(c, id, content) ==
  \/ IsRetired(c) /\ UNCHANGED timelineVars
  \/ /\ ~IsRetired(c)
     /\ Tick
     /\ UNCHANGED retired
     /\ \/ c \notin DOMAIN channels /\ UNCHANGED channels
        \/ /\ c \in DOMAIN channels
           /\ ~HasId(channels[c].messages, id)
           /\ channels' = [channels EXCEPT ![c].touched = clock']
        \/ /\ c \in DOMAIN channels
           /\ HasId(channels[c].messages, id)
           /\ LET old == channels[c].messages
                  i == LastIndexOf(old, id)
                  body == IF content = Unchanged THEN old[i].body ELSE content
              IN  channels' = [channels EXCEPT
                    ![c] = [messages |-> [old EXCEPT ![i] = [@ EXCEPT !.body = body]],
                            touched |-> clock']]

\* MessageDelete: the tombstones do not guard it.
ApplyDelete(c, id) ==
  /\ Tick
  /\ UNCHANGED retired
  /\ \/ c \notin DOMAIN channels /\ UNCHANGED channels
     \/ /\ c \in DOMAIN channels
        /\ LET old == channels[c].messages
           IN  channels' = [channels EXCEPT
                 ![c] = [messages |-> Retain(old, {m \in Items(old) : m.id # id}),
                         touched |-> clock']]

\* apply_history: a page that REST fetched for channel c.
ApplyHistory(c, page) ==
  \/ /\ IsRetired(c) \/ ~\E i \in DOMAIN page : page[i].authored
     /\ UNCHANGED timelineVars
  \/ /\ ~IsRetired(c)
     /\ \E i \in DOMAIN page : page[i].authored
     /\ Tick
     /\ channels' = LET open == Opened(channels, c, clock')
                    IN  [open EXCEPT ![c].messages = MergeHistory(@, page)]
     /\ UNCHANGED retired
----------------------------------------------------------------------------
TimelinesInit ==
  /\ channels = << >>
  /\ retired = << >>
  /\ clock = 0

MessageStep == \E c \in ChannelIds, m \in Message : ApplyMessage(c, m)
UpdateStep == \E c \in ChannelIds, id \in MsgIds, content \in Bodies \cup {Unchanged} :
                ApplyUpdate(c, id, content)
DeleteStep == \E c \in ChannelIds, id \in MsgIds : ApplyDelete(c, id)
HistoryStep == \E c \in ChannelIds, page \in Pages : ApplyHistory(c, page)
RetopologyStep == \E gone \in Retirements, back \in Restorations : Retopology(gone, back)

TimelinesNext ==
  MessageStep \/ UpdateStep \/ DeleteStep \/ HistoryStep \/ RetopologyStep

TimelinesSpec == TimelinesInit /\ [][TimelinesNext]_timelineVars
----------------------------------------------------------------------------
(* Properties *)

\* The state has the types of the struct.
TimelinesTypeOK ==
  /\ DOMAIN channels \subseteq ChannelIds
  /\ channels \in [DOMAIN channels -> Timeline]
  /\ retired \in Seq(ChannelIds)
  /\ clock \in Nat

\* A timeline never coexists with the tombstone of its channel: whatever late
\* message, edit or history page comes in, a retired channel stays without a
\* timeline (docs/cache-invalidation.md, "Retired-channel tombstones").
RetiredHaveNoTimeline == \A c \in DOMAIN channels : ~IsRetired(c)

\* Every bound holds at once: timelines, messages of a timeline, tombstones;
\* and no tombstone is there twice, which would waste one.
CapacityKept ==
  /\ IsFiniteSet(DOMAIN channels)
  /\ Cardinality(DOMAIN channels) <= MaxChannels
  /\ \A c \in DOMAIN channels : Len(channels[c].messages) <= MaxMessages
  /\ Len(retired) <= MaxRetired
  /\ Distinct(retired)

\* No two timelines carry the same stamp and none is from the future, so the
\* eviction has exactly one victim and it is the least recently used.
StampsTellAge ==
  /\ \A c \in DOMAIN channels : channels[c].touched <= clock
  /\ \A c, d \in DOMAIN channels :
        channels[c].touched = channels[d].touched => c = d

\* The memory of the cache is bounded and its eviction has one victim, whatever
\* events, answers, pages and deletions come in whatever order.
CacheBounded == TimelinesTypeOK /\ CapacityKept /\ StampsTellAge

DistinctIds(s) == \A i, j \in DOMAIN s : s[i].id = s[j].id => i = j

\* A message id is in a timeline at most once, however creates, edits, REST
\* answers and history pages interleave: an edit finds the one copy there is.
IdsUnique == \A c \in DOMAIN channels : DistinctIds(channels[c].messages)

Sorted(s) == \A i, j \in DOMAIN s : i < j => s[i].id < s[j].id

\* The n youngest messages of a set, oldest first.
Youngest(S, n) ==
  LET keep == {m \in S : Cardinality({o \in S : o.id > m.id}) < n}
  IN  [i \in 1..Cardinality(keep) |->
         CHOOSE m \in keep : Cardinality({o \in keep : o.id < m.id}) = i - 1]

\* Merging a page into a timeline that is in snowflake order gives the
\* youngest MaxMessages messages of both, the cached body winning, whatever
\* order the page comes in (docs/message-history.md, "Cache merge semantics").
MergeIsYoungestOfBoth ==
  \A c \in DOMAIN channels, page \in Pages :
    LET cached == channels[c].messages
        fresh == {[id |-> m.id, body |-> m.body] :
                   m \in {p \in Items(page) : p.authored /\ ~HasId(cached, p.id)}}
    IN  Sorted(cached)
          => MergeHistory(cached, page) = Youngest(Items(cached) \cup fresh, MaxMessages)

\* A page fits when nothing has to make room for it.
Fits(s, page) ==
  Cardinality({m.id : m \in Items(s)} \cup {m.id : m \in {p \in Items(page) : p.authored}})
    <= MaxMessages

\* A history page never changes the body of a cached message nor the order of
\* two cached messages: what is cached is at least as new as the page
\* (docs/message-history.md, "Cache merge semantics").  In a full timeline out
\* of snowflake order it may: there a message of the page pushes out a cached
\* one that is not the oldest, and the same page then brings its own copy of it.
HistoryKeepsLiveState ==
  [][\A c \in ChannelIds, page \in Pages : ApplyHistory(c, page) =>
       \A d \in DOMAIN channels \cap DOMAIN channels' :
         LET old == channels[d].messages
             new == channels'[d].messages
         IN  d # c \/ Sorted(old) \/ Fits(old, page) =>
               /\ \A i \in DOMAIN old, j \in DOMAIN new :
                    old[i].id = new[j].id => old[i] = new[j]
               /\ \A i, j \in DOMAIN old, k, l \in DOMAIN new :
                    i < j /\ old[i].id = new[k].id /\ old[j].id = new[l].id => k < l
    ]_timelineVars

=============================================================================
