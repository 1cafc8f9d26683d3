--------------------------- MODULE FrontendProofs ---------------------------
(***************************************************************************)
(* The navigation cache (TopologyState, src/src/topology.rs) keeps its     *)
(* limits under any sequence of events, a THREAD_LIST_SYNC is exact within *)
(* its scope, and an outage costs a guild nothing, for every limit and     *)
(* every list that an event may carry.                                     *)
(*                                                                         *)
(* FrontendState (src/src/state.rs) composes it with the message cache.    *)
(* Both keep their invariants in the composition, and the two stay in      *)
(* step: what becomes active is heard again, what leaves the navigation    *)
(* loses its timeline, and a tombstone holds until its channel is          *)
(* announced or the FIFO is full.                                          *)
(***************************************************************************)
EXTENDS FrontendState, TimelineProofs

USE TopologyAssumption
----------------------------------------------------------------------------
(* Threads *)

Ids(s) == {t.id : t \in Items(s)}

\* The threads of a guild as the struct keeps them.
ThreadsWithin(s) ==
  /\ s \in Seq(CachedThread)
  /\ Len(s) <= MaxThreadsPerGuild
  /\ Distinct(ThreadIdsOf(s))

ThreadsOfSeq == {s \in Seq(CachedThread) : ThreadsWithin(s)}

\* No id occurs twice in a list without repetitions whose entries differ in
\* their ids.
LEMMA IdsApart ==
  ASSUME NEW s \in Seq(CachedThread)
  PROVE  Distinct(ThreadIdsOf(s)) <=>
           Distinct(s) /\ \A t, u \in Items(s) : t.id = u.id => t = u
<1>1. /\ DOMAIN ThreadIdsOf(s) = DOMAIN s
      /\ \A i \in DOMAIN s : ThreadIdsOf(s)[i] = s[i].id
  BY DEF ThreadIdsOf
<1>2. ASSUME Distinct(ThreadIdsOf(s)) PROVE Distinct(s)
  BY <1>1, <1>2 DEF Distinct
<1>3. ASSUME Distinct(ThreadIdsOf(s)), NEW t \in Items(s), NEW u \in Items(s), t.id = u.id
      PROVE  t = u
  <2>1. PICK i \in DOMAIN s : s[i] = t
    BY DEF Items
  <2>2. PICK j \in DOMAIN s : s[j] = u
    BY DEF Items
  <2>3. i = j
    BY <1>1, <1>3, <2>1, <2>2 DEF Distinct
  <2>4. QED
    BY <2>1, <2>2, <2>3
<1>4. ASSUME Distinct(s), \A t, u \in Items(s) : t.id = u.id => t = u
      PROVE  Distinct(ThreadIdsOf(s))
  <2> SUFFICES ASSUME NEW i \in DOMAIN s, NEW j \in DOMAIN s, s[i].id = s[j].id
               PROVE  i = j
    BY <1>1 DEF Distinct
  <2>1. s[i] \in Items(s) /\ s[j] \in Items(s)
    BY DEF Items
  <2>2. s[i] = s[j]
    BY <1>4, <2>1
  <2>3. QED
    BY <1>4, <2>2 DEF Distinct
<1>5. QED
  BY <1>2, <1>3, <1>4

\* A cached list has as many ids as entries.
LEMMA CountIds ==
  ASSUME NEW s, ThreadsWithin(s)
  PROVE  IsFiniteSet(Ids(s)) /\ Cardinality(Ids(s)) = Len(s)
<1> DEFINE n == Len(s)
           f == [i \in 1..n |-> s[i].id]
<1>1. n \in Nat /\ DOMAIN s = 1..n
  BY DEF ThreadsWithin
<1>2. Ids(s) = {s[i].id : i \in 1..n}
  BY <1>1 DEF Ids, Items
<1>3. ThreadIdsOf(s) = f
  BY <1>1 DEF ThreadIdsOf
<1>4. \A i, j \in 1..n : f[i] = f[j] => i = j
  BY <1>1, <1>3 DEF ThreadsWithin, Distinct
<1>5. f \in Surjection(1..n, Ids(s))
  BY <1>2 DEF Surjection
<1>6. f \in Injection(1..n, Ids(s))
  BY <1>2, <1>4 DEF Injection, IsInjective
<1>7. IsFiniteSet(1..n) /\ Cardinality(1..n) = n
  BY <1>1, FS_Interval
<1> HIDE DEF n, f
<1>8. IsFiniteSet(Ids(s)) /\ Cardinality(Ids(s)) = Cardinality(1..n)
  BY <1>5, <1>6, <1>7, FS_Surjection
<1>9. QED
  BY <1>7, <1>8 DEF n

\* retain leaves a cached list within its bounds.
LEMMA RetainWithin ==
  ASSUME NEW s, ThreadsWithin(s), NEW keep
  PROVE  /\ ThreadsWithin(Retain(s, keep))
         /\ Ids(Retain(s, keep)) = {t.id : t \in Items(s) \cap keep}
<1> DEFINE r == Retain(s, keep)
<1>1. s \in Seq(CachedThread) /\ Len(s) \in Nat /\ Len(s) <= MaxThreadsPerGuild
  BY DEF ThreadsWithin
<1>2. /\ r \in Seq(CachedThread)
      /\ Items(r) = Items(s) \cap keep
      /\ Len(r) <= Len(s)
      /\ Distinct(s) => Distinct(r)
  BY <1>1, RetainProperties
<1> HIDE DEF r
<1>3. Distinct(s) /\ \A t, u \in Items(s) : t.id = u.id => t = u
  BY <1>1, IdsApart DEF ThreadsWithin
<1>4. Distinct(r) /\ \A t, u \in Items(r) : t.id = u.id => t = u
  BY <1>2, <1>3
<1>5. Distinct(ThreadIdsOf(r))
  BY <1>2, <1>4, IdsApart
<1>6. Len(r) \in Nat
  BY <1>2
<1>7. Len(r) <= MaxThreadsPerGuild
  BY <1>1, <1>2, <1>6
<1>8. ThreadsWithin(r) /\ Ids(r) = {t.id : t \in Items(s) \cap keep}
  BY <1>2, <1>5, <1>7 DEF ThreadsWithin, Ids
<1>9. QED
  BY <1>8 DEF r

\* A thread that is put replaces the one with its id, or joins a list that has
\* room; a full list drops it.
LEMMA PutThreadWithin ==
  ASSUME NEW s, ThreadsWithin(s), NEW t \in CachedThread
  PROVE  /\ ThreadsWithin(PutThread(s, t))
         /\ Ids(s) \subseteq Ids(PutThread(s, t))
         /\ Ids(PutThread(s, t)) \subseteq Ids(s) \cup {t.id}
         /\ t.id \in Ids(PutThread(s, t)) \/ (t.id \notin Ids(s) /\ Len(s) >= MaxThreadsPerGuild)
<1>1. s \in Seq(CachedThread) /\ Len(s) \in Nat /\ DOMAIN s = 1..Len(s)
  BY DEF ThreadsWithin
<1>2. CASE \E i \in DOMAIN s : s[i].id = t.id
  <2> DEFINE k == CHOOSE i \in DOMAIN s : s[i].id = t.id
             r == [s EXCEPT ![k] = t]
  <2>1. k \in DOMAIN s /\ s[k].id = t.id
    BY <1>2
  <2>2. PutThread(s, t) = r
    BY <1>2 DEF PutThread
  <2> HIDE DEF k
  <2>3. r \in Seq(CachedThread) /\ Len(r) = Len(s) /\ DOMAIN r = DOMAIN s
    BY <1>1, <2>1
  <2>4. \A i \in DOMAIN s : r[i].id = s[i].id
    BY <2>1
  <2> HIDE DEF r
  <2>5. ThreadIdsOf(r) = ThreadIdsOf(s)
    BY <2>3, <2>4 DEF ThreadIdsOf
  <2>6. Ids(r) = Ids(s)
    BY <2>3, <2>4 DEF Ids, Items
  <2>7. ThreadsWithin(r)
    BY <2>3, <2>5 DEF ThreadsWithin
  <2>8. t.id \in Ids(s)
    BY <2>1 DEF Ids, Items
  <2>9. QED
    BY <2>2, <2>6, <2>7, <2>8
<1>3. CASE /\ ~ \E i \in DOMAIN s : s[i].id = t.id
           /\ Len(s) >= MaxThreadsPerGuild
  <2>1. PutThread(s, t) = s
    BY <1>3 DEF PutThread
  <2>2. t.id \notin Ids(s)
    BY <1>3 DEF Ids, Items
  <2>3. QED
    BY <1>3, <2>1, <2>2
<1>4. CASE /\ ~ \E i \in DOMAIN s : s[i].id = t.id
           /\ ~(Len(s) >= MaxThreadsPerGuild)
  <2> DEFINE r == Append(s, t)
  <2>1. PutThread(s, t) = r
    BY <1>4 DEF PutThread
  <2>2. t \notin Items(s) /\ \A u \in Items(s) : u.id # t.id
    BY <1>4 DEF Items
  <2>3. Distinct(s) /\ \A u, v \in Items(s) : u.id = v.id => u = v
    BY <1>1, IdsApart DEF ThreadsWithin
  <2>4. /\ r \in Seq(CachedThread)
        /\ Len(r) = Len(s) + 1
        /\ Items(r) = Items(s) \cup {t}
        /\ Distinct(r)
    BY <1>1, <2>2, <2>3, AppendItems
  <2> HIDE DEF r
  <2>5. \A u, v \in Items(r) : u.id = v.id => u = v
    BY <2>2, <2>3, <2>4
  <2>6. Distinct(ThreadIdsOf(r))
    BY <2>4, <2>5, IdsApart
  <2>7. Len(r) <= MaxThreadsPerGuild
    BY <1>1, <1>4, <2>4
  <2>8. ThreadsWithin(r)
    BY <2>4, <2>6, <2>7 DEF ThreadsWithin
  <2>9. Ids(r) = Ids(s) \cup {t.id}
    BY <2>4 DEF Ids
  <2>10. QED
    BY <2>1, <2>8, <2>9
<1>5. QED
  BY <1>2, <1>3, <1>4
----------------------------------------------------------------------------
(* The sync of a thread list *)

\* The recursion that defines SyncedThreads.
IsSyncing(f, base, g, list) ==
  f = [i \in 0..Len(list) |->
         IF i = 0 THEN base
         ELSE IF Active(list[i], g) THEN PutThread(f[i-1], AsCached(list[i]))
         ELSE f[i-1]]

InScopeOf(s, scope) == {t \in Items(s) : InScope(t, scope)}
OutsideOf(s, scope) == {t.id : t \in {u \in Items(s) : ~InScope(u, scope)}}
ListedIn(list, g) == {t.id : t \in {u \in Items(list) : Active(u, g)}}

LEMMA AsCachedType ==
  ASSUME NEW t \in Thread
  PROVE  AsCached(t) \in CachedThread /\ AsCached(t).id = t.id
BY DEF AsCached, Thread, CachedThread

\* SyncedThreads is the last value of the function it defines.
LEMMA SyncedIsLast ==
  ASSUME NEW g \in DOMAIN guilds, ThreadsWithin(guilds[g].threads),
         NEW scope, NEW list \in Seq(Thread)
  PROVE  LET cached == guilds[g].threads
             base == Retain(cached, {t \in Items(cached) : ~InScope(t, scope)})
         IN  \E f : IsSyncing(f, base, g, list) /\ SyncedThreads(g, scope, list) = f[Len(list)]
<1> DEFINE cached == guilds[g].threads
           base == Retain(cached, {t \in Items(cached) : ~InScope(t, scope)})
           n == Len(list)
           Step(prev, i) == IF Active(list[i], g) THEN PutThread(prev, AsCached(list[i])) ELSE prev
           step == [p \in ThreadsOfSeq \X (1..n) |-> Step(p[1], p[2])]
<1>1. n \in Nat /\ DOMAIN list = 1..n
  OBVIOUS
<1>2. base \in ThreadsOfSeq
  BY RetainWithin DEF ThreadsOfSeq, ThreadsWithin
<1>3. ASSUME NEW q \in ThreadsOfSeq, NEW i \in 1..n
      PROVE  Step(q, i) \in ThreadsOfSeq
  <2>1. AsCached(list[i]) \in CachedThread
    BY <1>1, AsCachedType
  <2>2. ThreadsWithin(PutThread(q, AsCached(list[i])))
    BY <2>1, PutThreadWithin DEF ThreadsOfSeq
  <2>3. QED
    BY <2>2 DEF ThreadsOfSeq, ThreadsWithin
<1> HIDE DEF Step
<1>4. step \in [ThreadsOfSeq \X (1..n) -> ThreadsOfSeq]
  BY <1>3
<1> HIDE DEF step, base
<1>5. PICK f \in [0..n -> ThreadsOfSeq] : Solves(f, base, step, n)
  BY <1>1, <1>2, <1>4, RecursionSolved
<1>6. ASSUME NEW i \in 0..n, i # 0
      PROVE  step[<<f[i-1], i>>] = Step(f[i-1], i)
  <2>1. <<f[i-1], i>> \in ThreadsOfSeq \X (1..n)
    BY <1>1, <1>6
  <2>2. QED
    BY <2>1 DEF step
<1>7. IsSyncing(f, base, g, list)
  BY <1>5, <1>6 DEF Solves, IsSyncing, Step
<1> DEFINE h == CHOOSE q : IsSyncing(q, base, g, list)
<1>8. IsSyncing(h, base, g, list)
  BY <1>7
<1>9. SyncedThreads(g, scope, list) = h[n]
  BY DEF SyncedThreads, IsSyncing, base
<1> HIDE DEF h, n
<1>10. \E q : IsSyncing(q, base, g, list) /\ SyncedThreads(g, scope, list) = q[Len(list)]
  BY <1>8, <1>9 DEF n
<1>11. QED
  BY <1>10 DEF base

\* The ids that an event lists are finitely many.
LEMMA ListedFinite ==
  ASSUME NEW list \in Seq(Thread), NEW g
  PROVE  IsFiniteSet(ListedIn(list, g))
<1> DEFINE n == Len(list)
           all == {list[i].id : i \in 1..n}
           f == [i \in 1..n |-> list[i].id]
<1>1. n \in Nat /\ DOMAIN list = 1..n
  OBVIOUS
<1>2. f \in Surjection(1..n, all)
  BY DEF Surjection
<1>3. IsFiniteSet(1..n)
  BY <1>1, FS_Interval
<1>4. ListedIn(list, g) \in SUBSET all
  BY <1>1 DEF ListedIn, Items
<1> HIDE DEF n, all, f
<1>5. IsFiniteSet(all)
  BY <1>2, <1>3, FS_Surjection
<1>6. QED
  BY <1>4, <1>5, FS_Subset

\* A sync keeps the cached list within its bounds; it leaves the threads outside
\* its scope, adds none but the ones it lists, and all of those if they fit.
LEMMA SyncedWithin ==
  ASSUME NEW g \in DOMAIN guilds, ThreadsWithin(guilds[g].threads),
         NEW scope, NEW list \in Seq(Thread)
  PROVE  LET outside == OutsideOf(guilds[g].threads, scope)
             listed == ListedIn(list, g)
             after == SyncedThreads(g, scope, list)
         IN  /\ ThreadsWithin(after)
             /\ outside \subseteq Ids(after)
             /\ Ids(after) \subseteq outside \cup listed
             /\ Cardinality(outside \cup listed) <= MaxThreadsPerGuild
                  => Ids(after) = outside \cup listed
<1> DEFINE cached == guilds[g].threads
           base == Retain(cached, {t \in Items(cached) : ~InScope(t, scope)})
           n == Len(list)
           outside == OutsideOf(cached, scope)
           listed == ListedIn(list, g)
           upTo(i) == {list[j].id : j \in {k \in 1..i : Active(list[k], g)}}
           fits == Cardinality(outside \cup listed) <= MaxThreadsPerGuild
<1>1. n \in Nat /\ DOMAIN list = 1..n
  OBVIOUS
<1>2. PICK f : IsSyncing(f, base, g, list) /\ SyncedThreads(g, scope, list) = f[n]
  BY SyncedIsLast
<1>3. ThreadsWithin(base) /\ Ids(base) = outside
  <2>1. /\ ThreadsWithin(base)
        /\ Ids(base) = {t.id : t \in Items(cached) \cap {u \in Items(cached) : ~InScope(u, scope)}}
    BY RetainWithin
  <2>2. Items(cached) \cap {u \in Items(cached) : ~InScope(u, scope)}
          = {u \in Items(cached) : ~InScope(u, scope)}
    OBVIOUS
  <2>3. QED
    BY <2>1, <2>2 DEF OutsideOf
<1>4. IsFiniteSet(outside \cup listed)
  <2>1. IsFiniteSet(outside)
    BY <1>3, CountIds
  <2>2. IsFiniteSet(listed)
    BY ListedFinite
  <2>3. QED
    BY <2>1, <2>2, FS_Union
<1>5. \A i \in 1..n : upTo(i) \subseteq listed
  BY <1>1 DEF ListedIn, Items
<1>6. upTo(n) = listed
  BY <1>1 DEF ListedIn, Items
<1>7. upTo(0) = {}
  OBVIOUS
<1>8. ASSUME NEW i \in 0..n, i < n
      PROVE  upTo(i+1) = upTo(i) \cup (IF Active(list[i+1], g) THEN {list[i+1].id} ELSE {})
  <2>1. 1..i+1 = (1..i) \cup {i+1}
    BY <1>1, <1>8
  <2>2. QED
    BY <2>1
<1>9. ASSUME NEW i \in 0..n, i < n
      PROVE  f[i+1] = IF Active(list[i+1], g) THEN PutThread(f[i], AsCached(list[i+1])) ELSE f[i]
  <2>1. i+1 \in 0..n /\ i+1 # 0 /\ (i+1)-1 = i
    BY <1>1, <1>9
  <2>2. f[i+1] = IF Active(list[i+1], g) THEN PutThread(f[(i+1)-1], AsCached(list[i+1]))
                 ELSE f[(i+1)-1]
    BY <1>2, <2>1 DEF IsSyncing
  <2>3. QED
    BY <2>1, <2>2
<1>10. f[0] = base
  <2>1. 0 \in 0..Len(list)
    BY <1>1
  <2>2. QED
    BY <1>2, <2>1 DEF IsSyncing
<1> HIDE DEF upTo, base, outside, listed, n, fits
<1> DEFINE S == {i \in 0..n :
                   /\ ThreadsWithin(f[i])
                   /\ outside \subseteq Ids(f[i])
                   /\ Ids(f[i]) \subseteq outside \cup upTo(i)
                   /\ fits => Ids(f[i]) = outside \cup upTo(i)}
<1>11. 0 \in S
  BY <1>1, <1>3, <1>7, <1>10
<1>12. ASSUME NEW i \in 0..n, i < n, i \in S
       PROVE  i+1 \in S
  <2> DEFINE t == AsCached(list[i+1])
  <2>1. i+1 \in 1..n /\ i+1 \in 0..n /\ list[i+1] \in Thread
    BY <1>1, <1>12 DEF n
  <2>2. t \in CachedThread /\ t.id = list[i+1].id
    BY <2>1, AsCachedType
  <2> HIDE DEF t
  <2>3. CASE Active(list[i+1], g)
    <3>1. f[i+1] = PutThread(f[i], t)
      BY <1>9, <1>12, <2>3 DEF t
    <3>2. upTo(i+1) = upTo(i) \cup {t.id} /\ upTo(i+1) \subseteq listed
      BY <1>5, <1>8, <1>12, <2>1, <2>2, <2>3
    <3>3. /\ ThreadsWithin(f[i+1])
          /\ Ids(f[i]) \subseteq Ids(f[i+1])
          /\ Ids(f[i+1]) \subseteq Ids(f[i]) \cup {t.id}
          /\ t.id \in Ids(f[i+1]) \/ (t.id \notin Ids(f[i]) /\ Len(f[i]) >= MaxThreadsPerGuild)
      BY <1>12, <2>2, <3>1, PutThreadWithin
    <3>4. ASSUME fits PROVE t.id \in Ids(f[i+1])
      <4> SUFFICES ASSUME t.id \notin Ids(f[i]), Len(f[i]) >= MaxThreadsPerGuild
                   PROVE  FALSE
        BY <3>3
      <4>1. IsFiniteSet(Ids(f[i])) /\ Cardinality(Ids(f[i])) = Len(f[i])
        BY <1>12, CountIds
      <4>2. Cardinality(Ids(f[i]) \cup {t.id}) = Len(f[i]) + 1
        BY <4>1, FS_AddElement
      <4>3. Ids(f[i]) \cup {t.id} \in SUBSET (outside \cup listed)
        BY <1>12, <3>2
      <4>4. Cardinality(Ids(f[i]) \cup {t.id}) <= Cardinality(outside \cup listed)
        BY <1>4, <4>3, FS_Subset
      <4>5. Len(f[i]) \in Nat /\ Cardinality(outside \cup listed) \in Nat
        BY <1>4, <1>12, FS_CardinalityType DEF ThreadsWithin
      <4>6. QED
        BY <3>4, <4>2, <4>4, <4>5 DEF fits
    <3>5. QED
      BY <1>12, <2>1, <3>2, <3>3, <3>4
  <2>4. CASE ~Active(list[i+1], g)
    <3>1. f[i+1] = f[i] /\ upTo(i+1) = upTo(i)
      BY <1>8, <1>9, <1>12, <2>4
    <3>2. QED
      BY <1>12, <2>1, <3>1
  <2>5. QED
    BY <2>3, <2>4
<1> HIDE DEF S
<1>13. n \in S
  <2>1. 0..n \subseteq S
    BY <1>1, <1>11, <1>12, UpTo
  <2>2. QED
    BY <1>1, <2>1
<1>14. QED
  BY <1>2, <1>6, <1>13 DEF S, fits, outside, listed
----------------------------------------------------------------------------
(* Guilds *)

ChannelsWithin(s) ==
  s \in Seq(GuildChannelIds) /\ Len(s) <= MaxChannelsPerGuild /\ Distinct(s)

GuildWithin(x) == x \in Guild /\ ChannelsWithin(x.channels) /\ ThreadsWithin(x.threads)

\* The cached guilds as the struct keeps them, when its clock shows now.
GuildsWithin(gs, now) ==
  /\ now \in Nat
  /\ DOMAIN gs \subseteq GuildIds
  /\ gs = [g \in DOMAIN gs |-> gs[g]]
  /\ IsFiniteSet(DOMAIN gs)
  /\ Cardinality(DOMAIN gs) <= MaxGuilds
  /\ \A g \in DOMAIN gs : GuildWithin(gs[g]) /\ gs[g].touched <= now
  /\ \A g, h \in DOMAIN gs : gs[g].touched = gs[h].touched => g = h

LEMMA BoundedIsWithin == TopologyBounded <=> GuildsWithin(guilds, topologyClock)
<1>1. guilds \in [DOMAIN guilds -> Guild] <=>
        guilds = [g \in DOMAIN guilds |-> guilds[g]] /\ \A g \in DOMAIN guilds : guilds[g] \in Guild
  OBVIOUS
<1>2. \A g \in DOMAIN guilds : guilds[g] \in Guild =>
        guilds[g].channels \in Seq(GuildChannelIds) /\ guilds[g].threads \in Seq(CachedThread)
  BY DEF Guild
<1>3. ASSUME TopologyBounded PROVE GuildsWithin(guilds, topologyClock)
  BY <1>1, <1>2, <1>3 DEF TopologyBounded, TopologyTypeOK, GuildsWithin, GuildWithin,
                          ChannelsWithin, ThreadsWithin
<1>4. ASSUME GuildsWithin(guilds, topologyClock) PROVE TopologyBounded
  BY <1>1, <1>4 DEF TopologyBounded, TopologyTypeOK, GuildsWithin, GuildWithin,
                    ChannelsWithin, ThreadsWithin
<1>5. QED
  BY <1>3, <1>4

LEMMA BoundedIsWithinNext == TopologyBounded' <=> GuildsWithin(guilds', topologyClock')
<1>1. guilds' \in [DOMAIN guilds' -> Guild] <=>
        guilds' = [g \in DOMAIN guilds' |-> guilds'[g]] /\ \A g \in DOMAIN guilds' : guilds'[g] \in Guild
  OBVIOUS
<1>2. \A g \in DOMAIN guilds' : guilds'[g] \in Guild =>
        guilds'[g].channels \in Seq(GuildChannelIds) /\ guilds'[g].threads \in Seq(CachedThread)
  BY DEF Guild
<1>3. ASSUME TopologyBounded' PROVE GuildsWithin(guilds', topologyClock')
  BY <1>1, <1>2, <1>3 DEF TopologyBounded, TopologyTypeOK, GuildsWithin, GuildWithin,
                          ChannelsWithin, ThreadsWithin
<1>4. ASSUME GuildsWithin(guilds', topologyClock') PROVE TopologyBounded'
  BY <1>1, <1>4 DEF TopologyBounded, TopologyTypeOK, GuildsWithin, GuildWithin,
                    ChannelsWithin, ThreadsWithin
<1>5. QED
  BY <1>3, <1>4

Placed(gs, room, g, new) == [h \in room \cup {g} |-> IF h = g THEN new ELSE gs[h]]

\* A guild with the newest stamp, put among guilds that leave it room, keeps the
\* cache within its bounds.
LEMMA PutWithin ==
  ASSUME NEW gs, NEW now, GuildsWithin(gs, now),
         NEW room \in SUBSET DOMAIN gs, NEW g \in GuildIds,
         NEW new, GuildWithin(new), new.touched = now + 1,
         g \in room \/ Cardinality(room) < MaxGuilds
  PROVE  GuildsWithin(Placed(gs, room, g, new), now + 1)
<1> DEFINE after == [h \in room \cup {g} |-> IF h = g THEN new ELSE gs[h]]
<1>1. DOMAIN after = room \cup {g} /\ after = [h \in DOMAIN after |-> after[h]]
  OBVIOUS
<1>2. /\ IsFiniteSet(room) /\ Cardinality(room) <= Cardinality(DOMAIN gs)
      /\ Cardinality(room) \in Nat /\ Cardinality(DOMAIN gs) \in Nat
  BY FS_Subset, FS_CardinalityType DEF GuildsWithin
<1>3. /\ IsFiniteSet(room \cup {g})
      /\ Cardinality(room \cup {g}) =
           IF g \in room THEN Cardinality(room) ELSE Cardinality(room) + 1
  BY <1>2, FS_AddElement
<1>4. Cardinality(room \cup {g}) <= MaxGuilds
  BY <1>2, <1>3 DEF GuildsWithin
<1>5. \A h \in room \cup {g} : after[h] = IF h = g THEN new ELSE gs[h]
  OBVIOUS
<1>6. \A h \in room : GuildWithin(gs[h]) /\ gs[h].touched \in Nat /\ gs[h].touched <= now
  BY DEF GuildsWithin, GuildWithin, Guild
<1>7. now \in Nat /\ room \cup {g} \subseteq GuildIds
  BY DEF GuildsWithin
<1> HIDE DEF after
<1>8. \A h \in room \cup {g} : GuildWithin(after[h]) /\ after[h].touched <= now + 1
  BY <1>5, <1>6, <1>7
<1>9. \A h, k \in room \cup {g} : after[h].touched = after[k].touched => h = k
  <2> SUFFICES ASSUME NEW h \in room \cup {g}, NEW k \in room \cup {g},
                      after[h].touched = after[k].touched
               PROVE  h = k
    OBVIOUS
  <2>1. CASE h = g /\ k # g
    BY <1>5, <1>6, <1>7, <2>1
  <2>2. CASE h # g /\ k = g
    BY <1>5, <1>6, <1>7, <2>2
  <2>3. CASE h # g /\ k # g
    BY <1>5, <2>3 DEF GuildsWithin
  <2>4. QED
    BY <2>1, <2>2, <2>3
<1>10. GuildsWithin(after, now + 1)
  BY <1>1, <1>3, <1>4, <1>7, <1>8, <1>9 DEF GuildsWithin
<1>11. QED
  BY <1>10 DEF after, Placed

\* Every update of a cached guild: it takes the newest stamp.
LEMMA TouchBounded ==
  ASSUME TopologyBounded, NEW g \in DOMAIN guilds, NEW update, GuildWithin(update),
         Touch(g, update)
  PROVE  TopologyBounded'
<1> DEFINE new == [update EXCEPT !.touched = topologyClock + 1]
<1>1. /\ topologyClock' = topologyClock + 1 /\ topologyClock \in Nat
      /\ guilds' = [guilds EXCEPT ![g] = new]
  BY DEF Touch, TopologyTick, TopologyBounded, TopologyTypeOK
<1>2. GuildsWithin(guilds, topologyClock)
  BY BoundedIsWithin
<1> DEFINE now == topologyClock + 1
<1>3. now \in Nat /\ update \in Guild
  BY <1>1 DEF GuildWithin
<1> HIDE DEF now
<1>4. [update EXCEPT !.touched = now] \in Guild
  BY <1>3 DEF Guild
<1>5. /\ [update EXCEPT !.touched = now].touched = now
      /\ [update EXCEPT !.touched = now].channels = update.channels
      /\ [update EXCEPT !.touched = now].threads = update.threads
  BY <1>3 DEF Guild
<1>6. /\ new \in Guild /\ new.touched = topologyClock + 1
      /\ new.channels = update.channels /\ new.threads = update.threads
  BY <1>4, <1>5 DEF now
<1> HIDE DEF new
<1>7. GuildWithin(new)
  BY <1>6 DEF GuildWithin
<1> DEFINE room == DOMAIN guilds
<1>8. g \in room /\ room \cup {g} = room
  OBVIOUS
<1>9. g \in GuildIds /\ room \in SUBSET DOMAIN guilds
  BY DEF TopologyBounded, TopologyTypeOK
<1>10. guilds' = Placed(guilds, room, g, new)
  BY <1>1, <1>8 DEF TopologyBounded, TopologyTypeOK, Placed
<1> HIDE DEF room
<1>11. GuildsWithin(Placed(guilds, room, g, new), topologyClock + 1)
  BY <1>2, <1>6, <1>7, <1>8, <1>9, PutWithin
<1>12. QED
  BY <1>1, <1>10, <1>11, BoundedIsWithinNext

LEMMA CachedGuild ==
  ASSUME TopologyBounded, NEW g \in DOMAIN guilds
  PROVE  /\ GuildWithin(guilds[g])
         /\ guilds[g] \in Guild
         /\ ChannelsWithin(guilds[g].channels)
         /\ ThreadsWithin(guilds[g].threads)
BY BoundedIsWithin DEF GuildsWithin, GuildWithin

\* A full cache names a guild to evict.
LEMMA LeastRecentKnown ==
  ASSUME TopologyBounded, DOMAIN guilds # {}
  PROVE  LeastRecentGuild \in DOMAIN guilds
<1> DEFINE stamps == {guilds[g].touched : g \in DOMAIN guilds}
<1>1. stamps \in SUBSET Nat /\ stamps # {}
  BY DEF TopologyBounded, TopologyTypeOK, Guild
<1>2. PICK t \in stamps : \A u \in stamps : t <= u
  BY <1>1, LeastNatural
<1>3. PICK g \in DOMAIN guilds : guilds[g].touched = t
  BY <1>2
<1>4. \A h \in DOMAIN guilds : guilds[g].touched <= guilds[h].touched
  BY <1>2, <1>3
<1>5. QED
  BY <1>4 DEF LeastRecentGuild

\* A prefix of a snapshot fits the channel list of a guild; it is the snapshot if
\* that fits.
LEMMA TakeWithin ==
  ASSUME NEW s \in Snapshots
  PROVE  /\ ChannelsWithin(Take(s, MaxChannelsPerGuild))
         /\ Items(Take(s, MaxChannelsPerGuild)) \subseteq Items(s)
         /\ Len(s) <= MaxChannelsPerGuild => Items(Take(s, MaxChannelsPerGuild)) = Items(s)
<1> DEFINE n == IF Len(s) <= MaxChannelsPerGuild THEN Len(s) ELSE MaxChannelsPerGuild
           r == SubSeq(s, 1, n)
<1>1. s \in Seq(GuildChannelIds) /\ Distinct(s) /\ Len(s) \in Nat /\ DOMAIN s = 1..Len(s)
  OBVIOUS
<1>2. n \in 0..Len(s) /\ n <= MaxChannelsPerGuild /\ n \in Nat
  BY <1>1
<1> HIDE DEF n
<1>3. \A i \in 1..n : s[i] \in GuildChannelIds
  BY <1>1, <1>2
<1>4. Len(r) = n /\ DOMAIN r = 1..n /\ \A i \in 1..n : r[i] = s[i]
  BY <1>1, <1>2
<1>5. r \in Seq(GuildChannelIds)
  BY <1>1, <1>2, <1>3
<1>6. Distinct(r)
  BY <1>1, <1>2, <1>4 DEF Distinct
<1>7. Take(s, MaxChannelsPerGuild) = r
  BY DEF Take, n
<1>8. Len(s) <= MaxChannelsPerGuild => n = Len(s)
  BY DEF n
<1> HIDE DEF r
<1>9. Items(r) \subseteq Items(s) /\ (n = Len(s) => Items(r) = Items(s))
  BY <1>1, <1>2, <1>4 DEF Items
<1>10. QED
  BY <1>2, <1>4, <1>5, <1>6, <1>7, <1>8, <1>9 DEF ChannelsWithin
----------------------------------------------------------------------------
(* The events *)

LEMMA InitBounded == TopologyInit => TopologyBounded
<1> SUFFICES ASSUME TopologyInit PROVE TopologyBounded
  OBVIOUS
<1>1. guilds = << >> /\ topologyClock = 0 /\ DOMAIN guilds = {}
  BY DEF TopologyInit
<1>2. guilds = [g \in DOMAIN guilds |-> guilds[g]]
  BY <1>1
<1>3. IsFiniteSet(DOMAIN guilds) /\ Cardinality(DOMAIN guilds) <= MaxGuilds
  BY <1>1, FS_EmptySet
<1>4. QED
  BY <1>1, <1>2, <1>3, BoundedIsWithin DEF GuildsWithin

\* GUILD_CREATE of a guild that is not cached: a full cache evicts one first.
LEMMA GuildJoinsBounded ==
  ASSUME TopologyBounded, NEW g \in GuildIds, NEW u \in BOOLEAN, NEW s \in Snapshots,
         ~Known(g), ApplyGuildCreate(g, u, s)
  PROVE  TopologyBounded'
<1> DEFINE room == IF Cardinality(DOMAIN guilds) < MaxGuilds THEN DOMAIN guilds
                   ELSE DOMAIN guilds \ {LeastRecentGuild}
           new == [unavailable |-> u, channels |-> Take(s, MaxChannelsPerGuild),
                   threads |-> << >>, touched |-> topologyClock + 1]
<1>1. /\ topologyClock' = topologyClock + 1 /\ topologyClock \in Nat
      /\ guilds' = Placed(guilds, room, g, new)
  BY DEF ApplyGuildCreate, TopologyTick, TopologyBounded, TopologyTypeOK, Placed
<1>2. GuildsWithin(guilds, topologyClock)
  BY BoundedIsWithin
<1>3. GuildWithin(new) /\ new.touched = topologyClock + 1
  <2>1. ChannelsWithin(Take(s, MaxChannelsPerGuild))
    BY TakeWithin
  <2>2. ThreadsWithin(<< >>)
    BY DEF ThreadsWithin, Distinct, ThreadIdsOf
  <2>3. new \in Guild
    BY <1>1, <2>1, <2>2 DEF Guild, ChannelsWithin, ThreadsWithin
  <2>4. QED
    BY <2>1, <2>2, <2>3 DEF GuildWithin
<1>4. room \in SUBSET DOMAIN guilds /\ Cardinality(room) < MaxGuilds
  <2>1. CASE Cardinality(DOMAIN guilds) < MaxGuilds
    BY <2>1
  <2>2. CASE ~(Cardinality(DOMAIN guilds) < MaxGuilds)
    <3>1. IsFiniteSet(DOMAIN guilds) /\ Cardinality(DOMAIN guilds) \in Nat
      BY FS_CardinalityType DEF TopologyBounded
    <3>2. Cardinality(DOMAIN guilds) = MaxGuilds
      BY <2>2, <3>1 DEF TopologyBounded
    <3>3. DOMAIN guilds # {}
      BY <3>2, FS_EmptySet
    <3>4. LeastRecentGuild \in DOMAIN guilds
      BY <3>3, LeastRecentKnown
    <3>5. Cardinality(DOMAIN guilds \ {LeastRecentGuild}) = Cardinality(DOMAIN guilds) - 1
      BY <3>1, <3>4, FS_RemoveElement
    <3>6. room = DOMAIN guilds \ {LeastRecentGuild}
      BY <2>2
    <3>7. QED
      BY <3>2, <3>5, <3>6
  <2>3. QED
    BY <2>1, <2>2
<1> HIDE DEF room, new
<1>5. GuildsWithin(Placed(guilds, room, g, new), topologyClock + 1)
  BY <1>2, <1>3, <1>4, PutWithin
<1>6. QED
  BY <1>1, <1>5, BoundedIsWithinNext

\* GUILD_CREATE
LEMMA GuildCreateBounded ==
  ASSUME TopologyBounded, NEW g \in GuildIds, NEW u \in BOOLEAN, NEW s \in Snapshots,
         ApplyGuildCreate(g, u, s)
  PROVE  TopologyBounded'
<1>1. CASE ~Known(g)
  BY <1>1, GuildJoinsBounded
<1>2. CASE Known(g)
  <2> DEFINE chs == IF u /\ s = << >> THEN guilds[g].channels
                    ELSE Take(s, MaxChannelsPerGuild)
             update == [guilds[g] EXCEPT !.unavailable = u, !.channels = chs]
  <2>1. g \in DOMAIN guilds
    BY <1>2 DEF Known
  <2>2. Touch(g, update)
    BY <1>2 DEF ApplyGuildCreate
  <2>3. ChannelsWithin(chs)
    BY <2>1, CachedGuild, TakeWithin
  <2> HIDE DEF chs
  <2>4. GuildWithin(update)
    BY <2>1, <2>3, CachedGuild DEF GuildWithin, Guild, ChannelsWithin
  <2>5. QED
    BY <2>1, <2>2, <2>4, TouchBounded
<1>3. QED
  BY <1>1, <1>2

\* GUILD_UPDATE
LEMMA GuildUpdateBounded ==
  ASSUME TopologyBounded, NEW g \in GuildIds, NEW u \in Flags, ApplyGuildUpdate(g, u)
  PROVE  TopologyBounded'
<1>1. CASE UNCHANGED topologyVars
  BY <1>1, BoundedIsWithin, BoundedIsWithinNext DEF topologyVars
<1>2. CASE Known(g) /\ ~UNCHANGED topologyVars
  <2> DEFINE flag == IF u = Absent THEN guilds[g].unavailable ELSE u
             update == [guilds[g] EXCEPT !.unavailable = flag]
  <2>1. g \in DOMAIN guilds
    BY <1>2 DEF Known
  <2>2. Touch(g, update)
    BY <1>2 DEF ApplyGuildUpdate
  <2>3. flag \in BOOLEAN
    BY <2>1, CachedGuild DEF Flags, Guild
  <2> HIDE DEF flag
  <2>4. GuildWithin(update)
    BY <2>1, <2>3, CachedGuild DEF GuildWithin, Guild
  <2>5. QED
    BY <2>1, <2>2, <2>4, TouchBounded
<1>3. QED
  BY <1>1, <1>2 DEF ApplyGuildUpdate

\* GUILD_DELETE
LEMMA GuildDeleteBounded ==
  ASSUME TopologyBounded, NEW g \in GuildIds, NEW u \in BOOLEAN, ApplyGuildDelete(g, u)
  PROVE  TopologyBounded'
<1>1. CASE UNCHANGED topologyVars
  BY <1>1, BoundedIsWithin, BoundedIsWithinNext DEF topologyVars
<1>2. CASE Known(g) /\ u /\ Touch(g, [guilds[g] EXCEPT !.unavailable = TRUE])
  <2> DEFINE update == [guilds[g] EXCEPT !.unavailable = TRUE]
  <2>1. g \in DOMAIN guilds
    BY <1>2 DEF Known
  <2>2. GuildWithin(update)
    BY <2>1, CachedGuild DEF GuildWithin, Guild
  <2>3. QED
    BY <1>2, <2>1, <2>2, TouchBounded
<1>3. CASE /\ guilds' = [h \in DOMAIN guilds \ {g} |-> guilds[h]]
           /\ topologyClock' = topologyClock
  <2>1. /\ DOMAIN guilds' = DOMAIN guilds \ {g}
        /\ \A h \in DOMAIN guilds' : guilds'[h] = guilds[h]
        /\ guilds' = [h \in DOMAIN guilds' |-> guilds'[h]]
    BY <1>3
  <2>2. GuildsWithin(guilds, topologyClock)
    BY BoundedIsWithin
  <2>3. /\ IsFiniteSet(DOMAIN guilds')
        /\ Cardinality(DOMAIN guilds') <= Cardinality(DOMAIN guilds)
        /\ Cardinality(DOMAIN guilds') \in Nat /\ Cardinality(DOMAIN guilds) \in Nat
    BY <2>1, FS_Subset, FS_CardinalityType DEF TopologyBounded
  <2>4. Cardinality(DOMAIN guilds') <= MaxGuilds
    BY <2>3 DEF TopologyBounded
  <2>5. GuildsWithin(guilds', topologyClock')
    BY <1>3, <2>1, <2>2, <2>3, <2>4 DEF GuildsWithin
  <2>6. QED
    BY <2>5, BoundedIsWithinNext
<1>4. QED
  BY <1>1, <1>2, <1>3 DEF ApplyGuildDelete

\* CHANNEL_CREATE and CHANNEL_UPDATE
LEMMA ChannelChangeBounded ==
  ASSUME TopologyBounded, NEW g \in GuildIds, NEW c \in GuildChannelIds,
         ApplyChannelChange(g, c)
  PROVE  TopologyBounded'
<1>1. CASE UNCHANGED topologyVars
  BY <1>1, BoundedIsWithin, BoundedIsWithinNext DEF topologyVars
<1>2. CASE Known(g) /\ ~UNCHANGED topologyVars
  <2> DEFINE old == guilds[g].channels
             chs == IF c \in Items(old) \/ Len(old) >= MaxChannelsPerGuild THEN old
                    ELSE Append(old, c)
             update == [guilds[g] EXCEPT !.channels = chs]
  <2>1. g \in DOMAIN guilds
    BY <1>2 DEF Known
  <2>2. Touch(g, update)
    BY <1>2 DEF ApplyChannelChange
  <2>3. ChannelsWithin(old)
    BY <2>1, CachedGuild
  <2> HIDE DEF old
  <2>4. ChannelsWithin(chs)
    <3>1. CASE c \in Items(old) \/ Len(old) >= MaxChannelsPerGuild
      BY <2>3, <3>1
    <3>2. CASE c \notin Items(old) /\ ~(Len(old) >= MaxChannelsPerGuild)
      <4>1. old \in Seq(GuildChannelIds) /\ Len(old) \in Nat /\ Distinct(old)
        BY <2>3 DEF ChannelsWithin
      <4>2. /\ Append(old, c) \in Seq(GuildChannelIds)
            /\ Len(Append(old, c)) = Len(old) + 1
            /\ Distinct(Append(old, c))
        BY <3>2, <4>1, AppendItems
      <4>3. Len(old) + 1 <= MaxChannelsPerGuild
        BY <3>2, <4>1
      <4>4. QED
        BY <3>2, <4>2, <4>3 DEF ChannelsWithin
    <3>3. QED
      BY <3>1, <3>2
  <2> HIDE DEF chs
  <2>5. GuildWithin(update)
    BY <2>1, <2>4, CachedGuild DEF GuildWithin, Guild, ChannelsWithin
  <2>6. QED
    BY <2>1, <2>2, <2>5, TouchBounded
<1>3. QED
  BY <1>1, <1>2 DEF ApplyChannelChange

\* CHANNEL_DELETE: the channel goes with its threads.
LEMMA ChannelDeleteBounded ==
  ASSUME TopologyBounded, NEW g \in GuildIds, NEW c \in GuildChannelIds,
         ApplyChannelDelete(g, c)
  PROVE  TopologyBounded'
<1>1. CASE UNCHANGED topologyVars
  BY <1>1, BoundedIsWithin, BoundedIsWithinNext DEF topologyVars
<1>2. CASE Known(g) /\ ~UNCHANGED topologyVars
  <2> DEFINE oldChs == guilds[g].channels
             oldThs == guilds[g].threads
             chs == Retain(oldChs, Items(oldChs) \ {c})
             ths == Retain(oldThs, {t \in Items(oldThs) : t.parent # c})
             update == [guilds[g] EXCEPT !.channels = chs, !.threads = ths]
  <2>1. g \in DOMAIN guilds
    BY <1>2 DEF Known
  <2>2. Touch(g, update)
    BY <1>2 DEF ApplyChannelDelete
  <2>3. ChannelsWithin(oldChs) /\ ThreadsWithin(oldThs)
    BY <2>1, CachedGuild
  <2> HIDE DEF oldChs, oldThs
  <2>4. ChannelsWithin(chs)
    <3>1. /\ chs \in Seq(GuildChannelIds) /\ Len(chs) <= Len(oldChs)
          /\ Distinct(oldChs) => Distinct(chs)
      BY <2>3, RetainProperties DEF ChannelsWithin
    <3> HIDE DEF chs
    <3>2. Len(chs) \in Nat /\ Len(oldChs) \in Nat
      BY <2>3, <3>1 DEF ChannelsWithin
    <3>3. QED
      BY <2>3, <3>1, <3>2 DEF ChannelsWithin
  <2>5. ThreadsWithin(ths)
    BY <2>3, RetainWithin
  <2> HIDE DEF chs, ths
  <2>6. GuildWithin(update)
    BY <2>1, <2>4, <2>5, CachedGuild DEF GuildWithin, Guild, ChannelsWithin, ThreadsWithin
  <2>7. QED
    BY <2>1, <2>2, <2>6, TouchBounded
<1>3. QED
  BY <1>1, <1>2 DEF ApplyChannelDelete

\* An update of a guild that only replaces its threads.
LEMMA ThreadsTouchBounded ==
  ASSUME TopologyBounded, NEW g \in DOMAIN guilds, NEW ths, ThreadsWithin(ths),
         Touch(g, [guilds[g] EXCEPT !.threads = ths])
  PROVE  TopologyBounded'
<1> DEFINE update == [guilds[g] EXCEPT !.threads = ths]
<1>1. GuildWithin(update)
  BY CachedGuild DEF GuildWithin, Guild, ThreadsWithin
<1>2. QED
  BY <1>1, TouchBounded

\* THREAD_CREATE and THREAD_UPDATE
LEMMA ThreadChangeBounded ==
  ASSUME TopologyBounded, NEW t \in Thread, ApplyThreadChange(t)
  PROVE  TopologyBounded'
<1>1. CASE UNCHANGED topologyVars
  BY <1>1, BoundedIsWithin, BoundedIsWithinNext DEF topologyVars
<1>2. CASE Known(t.guild) /\ ~UNCHANGED topologyVars
  <2> DEFINE g == t.guild
             old == guilds[g].threads
             ths == IF t.archived THEN DropThread(old, t.id) ELSE PutThread(old, AsCached(t))
  <2>1. g \in DOMAIN guilds
    BY <1>2 DEF Known
  <2>2. Touch(g, [guilds[g] EXCEPT !.threads = ths])
    BY <1>2 DEF ApplyThreadChange
  <2>3. ThreadsWithin(old)
    BY <2>1, CachedGuild
  <2> HIDE DEF old
  <2>4. ThreadsWithin(ths)
    <3>1. ThreadsWithin(DropThread(old, t.id))
      BY <2>3, RetainWithin DEF DropThread
    <3>2. ThreadsWithin(PutThread(old, AsCached(t)))
      BY <2>3, PutThreadWithin, AsCachedType
    <3>3. QED
      BY <3>1, <3>2
  <2> HIDE DEF ths, g
  <2>5. QED
    BY <2>1, <2>2, <2>4, ThreadsTouchBounded
<1>3. QED
  BY <1>1, <1>2 DEF ApplyThreadChange

\* THREAD_DELETE
LEMMA ThreadDeleteBounded ==
  ASSUME TopologyBounded, NEW g \in GuildIds, NEW id \in ThreadIds, ApplyThreadDelete(g, id)
  PROVE  TopologyBounded'
<1>1. CASE UNCHANGED topologyVars
  BY <1>1, BoundedIsWithin, BoundedIsWithinNext DEF topologyVars
<1>2. CASE Known(g) /\ ~UNCHANGED topologyVars
  <2> DEFINE ths == DropThread(guilds[g].threads, id)
  <2>1. g \in DOMAIN guilds
    BY <1>2 DEF Known
  <2>2. Touch(g, [guilds[g] EXCEPT !.threads = ths])
    BY <1>2 DEF ApplyThreadDelete
  <2>3. ThreadsWithin(ths)
    BY <2>1, CachedGuild, RetainWithin DEF DropThread
  <2> HIDE DEF ths
  <2>4. QED
    BY <2>1, <2>2, <2>3, ThreadsTouchBounded
<1>3. QED
  BY <1>1, <1>2 DEF ApplyThreadDelete

\* THREAD_LIST_SYNC
LEMMA ThreadListSyncBounded ==
  ASSUME TopologyBounded, NEW g \in GuildIds, NEW scope \in Scopes, NEW l \in ThreadLists,
         ApplyThreadListSync(g, scope, l)
  PROVE  TopologyBounded'
<1>1. CASE UNCHANGED topologyVars
  BY <1>1, BoundedIsWithin, BoundedIsWithinNext DEF topologyVars
<1>2. CASE Known(g) /\ ~UNCHANGED topologyVars
  <2> DEFINE ths == SyncedThreads(g, scope, l)
  <2>1. g \in DOMAIN guilds
    BY <1>2 DEF Known
  <2>2. Touch(g, [guilds[g] EXCEPT !.threads = ths])
    BY <1>2 DEF ApplyThreadListSync
  <2>3. ThreadsWithin(guilds[g].threads) /\ l \in Seq(Thread)
    BY <2>1, CachedGuild
  <2>4. ThreadsWithin(ths)
    BY <2>1, <2>3, SyncedWithin
  <2> HIDE DEF ths
  <2>5. QED
    BY <2>1, <2>2, <2>4, ThreadsTouchBounded
<1>3. QED
  BY <1>1, <1>2 DEF ApplyThreadListSync
----------------------------------------------------------------------------
LEMMA TopologyStep ==
  ASSUME TopologyBounded, [TopologyNext]_topologyVars
  PROVE  TopologyBounded'
<1>1. ASSUME NEW g \in GuildIds, NEW u \in BOOLEAN, NEW s \in Snapshots, ApplyGuildCreate(g, u, s)
      PROVE  TopologyBounded'
  BY <1>1, GuildCreateBounded
<1>2. ASSUME NEW g \in GuildIds, NEW u \in Flags, ApplyGuildUpdate(g, u)
      PROVE  TopologyBounded'
  BY <1>2, GuildUpdateBounded
<1>3. ASSUME NEW g \in GuildIds, NEW u \in BOOLEAN, ApplyGuildDelete(g, u)
      PROVE  TopologyBounded'
  BY <1>3, GuildDeleteBounded
<1>4. ASSUME NEW g \in GuildIds, NEW c \in GuildChannelIds, ApplyChannelChange(g, c)
      PROVE  TopologyBounded'
  BY <1>4, ChannelChangeBounded
<1>5. ASSUME NEW g \in GuildIds, NEW c \in GuildChannelIds, ApplyChannelDelete(g, c)
      PROVE  TopologyBounded'
  BY <1>5, ChannelDeleteBounded
<1>6. ASSUME NEW t \in Thread, ApplyThreadChange(t) PROVE TopologyBounded'
  BY <1>6, ThreadChangeBounded
<1>7. ASSUME NEW g \in GuildIds, NEW id \in ThreadIds, ApplyThreadDelete(g, id)
      PROVE  TopologyBounded'
  BY <1>7, ThreadDeleteBounded
<1>8. ASSUME NEW g \in GuildIds, NEW scope \in Scopes, NEW l \in ThreadLists,
             ApplyThreadListSync(g, scope, l)
      PROVE  TopologyBounded'
  BY <1>8, ThreadListSyncBounded
<1>9. CASE UNCHANGED topologyVars
  BY <1>9, BoundedIsWithin, BoundedIsWithinNext DEF topologyVars
<1>10. QED
  BY <1>1, <1>2, <1>3, <1>4, <1>5, <1>6, <1>7, <1>8, <1>9 DEF TopologyNext

\* No event, in any order, takes the cache beyond its limits, lists a channel or
\* a thread twice or leaves two guilds with one stamp, so that the guild to evict
\* is determined (TopologyState::apply).
THEOREM TopologyBoundedAlways == TopologySpec => []TopologyBounded
<1>1. TopologyBounded /\ [TopologyNext]_topologyVars => TopologyBounded'
  BY TopologyStep
<1>2. QED
  BY InitBounded, <1>1, PTL DEF TopologySpec

\* In every state that can be reached a sync, whatever its scope and its list,
\* leaves what is outside its scope, drops nothing but its scope and adds nothing
\* but active threads it lists, all of them if they fit (apply_thread_list_sync).
THEOREM SyncIsExactAlways == TopologySpec => []SyncIsExact
<1>1. TopologyBounded => SyncIsExact
  <2> SUFFICES ASSUME TopologyBounded,
                      NEW g \in DOMAIN guilds, NEW scope \in Scopes, NEW l \in ThreadLists
               PROVE  LET cached == Items(guilds[g].threads)
                          outside == {t.id : t \in {u \in cached : ~InScope(u, scope)}}
                          listed == {t.id : t \in {u \in Items(l) : Active(u, g)}}
                          after == Items(ThreadIdsOf(SyncedThreads(g, scope, l)))
                      IN  /\ outside \subseteq after
                          /\ after \subseteq outside \cup listed
                          /\ Cardinality(outside \cup listed) <= MaxThreadsPerGuild
                               => after = outside \cup listed
    BY DEF SyncIsExact
  <2> DEFINE r == SyncedThreads(g, scope, l)
  <2>1. ThreadsWithin(guilds[g].threads) /\ l \in Seq(Thread)
    BY CachedGuild
  <2>2. /\ OutsideOf(guilds[g].threads, scope) \subseteq Ids(r)
        /\ Ids(r) \subseteq OutsideOf(guilds[g].threads, scope) \cup ListedIn(l, g)
        /\ Cardinality(OutsideOf(guilds[g].threads, scope) \cup ListedIn(l, g))
             <= MaxThreadsPerGuild
             => Ids(r) = OutsideOf(guilds[g].threads, scope) \cup ListedIn(l, g)
    BY <2>1, SyncedWithin
  <2> HIDE DEF r
  <2>3. Items(ThreadIdsOf(r)) = Ids(r)
    BY DEF Items, ThreadIdsOf, Ids
  <2>4. QED
    BY <2>2, <2>3 DEF OutsideOf, ListedIn, r
<1>2. QED
  BY <1>1, TopologyBoundedAlways, PTL

Fields == {"unavailable", "channels", "threads", "touched"}

\* An update of guild h leaves the other guilds, and h has the fields of the update.
LEMMA TouchFields ==
  ASSUME TopologyBounded, NEW h \in DOMAIN guilds,
         NEW update, DOMAIN update = Fields, Touch(h, update)
  PROVE  /\ DOMAIN guilds' = DOMAIN guilds
         /\ \A k \in DOMAIN guilds : k # h => guilds'[k] = guilds[k]
         /\ guilds'[h].unavailable = update.unavailable
         /\ guilds'[h].channels = update.channels
         /\ guilds'[h].threads = update.threads
<1> DEFINE new == [update EXCEPT !.touched = topologyClock']
<1>1. guilds' = [guilds EXCEPT ![h] = new]
  BY DEF Touch
<1>2. /\ new.unavailable = update.unavailable
      /\ new.channels = update.channels
      /\ new.threads = update.threads
  BY DEF Fields
<1> HIDE DEF new
<1>3. guilds = [k \in DOMAIN guilds |-> guilds[k]]
  BY BoundedIsWithin DEF GuildsWithin
<1>4. /\ DOMAIN guilds' = DOMAIN guilds
      /\ guilds'[h] = new
      /\ \A k \in DOMAIN guilds : k # h => guilds'[k] = guilds[k]
  BY <1>1, <1>3
<1>5. QED
  BY <1>2, <1>4

\* An event that flags guild g as unavailable leaves its channels and threads,
\* unless it is a snapshot with channels.
LEMMA OutageStep ==
  ASSUME TopologyBounded, TopologyNext, NEW g \in DOMAIN guilds \cap DOMAIN guilds',
         ~guilds[g].unavailable, guilds'[g].unavailable
  PROVE  \/ /\ guilds'[g].channels = guilds[g].channels
            /\ guilds'[g].threads = guilds[g].threads
         \/ \E s \in Snapshots \ {<< >>} : ApplyGuildCreate(g, TRUE, s)
<1> DEFINE Kept == /\ guilds'[g].channels = guilds[g].channels
                   /\ guilds'[g].threads = guilds[g].threads
           Told == \E s \in Snapshots \ {<< >>} : ApplyGuildCreate(g, TRUE, s)
<1>1. \A h \in DOMAIN guilds : DOMAIN guilds[h] = Fields
  BY CachedGuild DEF Guild, Fields
<1>2. guilds'[g] # guilds[g] /\ ~UNCHANGED topologyVars
  BY DEF topologyVars
<1>3. ASSUME NEW h \in GuildIds, NEW u \in BOOLEAN, NEW s \in Snapshots, ApplyGuildCreate(h, u, s)
      PROVE  Kept \/ Told
  <2>1. CASE ~Known(h)
    <3>1. h # g
      BY <2>1 DEF Known
    <3>2. guilds'[g] = guilds[g]
      BY <1>3, <2>1, <3>1 DEF ApplyGuildCreate
    <3>3. QED
      BY <1>2, <3>2
  <2>2. CASE Known(h)
    <3> DEFINE chs == IF u /\ s = << >> THEN guilds[h].channels ELSE Take(s, MaxChannelsPerGuild)
               update == [guilds[h] EXCEPT !.unavailable = u, !.channels = chs]
    <3>1. h \in DOMAIN guilds /\ Touch(h, update)
      BY <1>3, <2>2 DEF ApplyGuildCreate, Known
    <3> HIDE DEF chs
    <3>2. /\ DOMAIN update = Fields
          /\ update.unavailable = u
          /\ update.channels = chs
          /\ update.threads = guilds[h].threads
      BY <1>1, <3>1 DEF Fields
    <3> HIDE DEF update
    <3>3. /\ \A k \in DOMAIN guilds : k # h => guilds'[k] = guilds[k]
          /\ guilds'[h].unavailable = u
          /\ guilds'[h].channels = chs
          /\ guilds'[h].threads = guilds[h].threads
      BY <3>1, <3>2, TouchFields
    <3>4. h = g /\ u = TRUE
      BY <1>2, <3>3
    <3>5. CASE s = << >>
      BY <3>3, <3>4, <3>5 DEF chs
    <3>6. CASE s # << >>
      BY <1>3, <3>4, <3>6
    <3>7. QED
      BY <3>5, <3>6
  <2>3. QED
    BY <2>1, <2>2
<1>4. ASSUME NEW h \in DOMAIN guilds, NEW u, Touch(h, [guilds[h] EXCEPT !.unavailable = u])
      PROVE  Kept
  <2> DEFINE update == [guilds[h] EXCEPT !.unavailable = u]
  <2>1. /\ DOMAIN update = Fields
        /\ update.channels = guilds[h].channels
        /\ update.threads = guilds[h].threads
    BY <1>1 DEF Fields
  <2>2. Touch(h, update)
    BY <1>4
  <2> HIDE DEF update
  <2>3. /\ \A k \in DOMAIN guilds : k # h => guilds'[k] = guilds[k]
        /\ guilds'[h].channels = guilds[h].channels
        /\ guilds'[h].threads = guilds[h].threads
    BY <2>1, <2>2, TouchFields
  <2>4. QED
    BY <1>2, <2>3
<1>5. ASSUME NEW h \in DOMAIN guilds, NEW update, DOMAIN update = Fields,
             update.unavailable = guilds[h].unavailable, Touch(h, update)
      PROVE  FALSE
  <2>1. /\ \A k \in DOMAIN guilds : k # h => guilds'[k] = guilds[k]
        /\ guilds'[h].unavailable = guilds[h].unavailable
    BY <1>5, TouchFields
  <2>2. QED
    BY <1>2, <2>1
<1>6. ASSUME NEW h \in GuildIds, NEW u \in Flags, ApplyGuildUpdate(h, u) PROVE Kept
  <2> DEFINE flag == IF u = Absent THEN guilds[h].unavailable ELSE u
  <2>1. h \in DOMAIN guilds /\ Touch(h, [guilds[h] EXCEPT !.unavailable = flag])
    BY <1>2, <1>6 DEF ApplyGuildUpdate, Known
  <2> HIDE DEF flag
  <2>2. QED
    BY <1>4, <2>1
<1>7. ASSUME NEW h \in GuildIds, NEW u \in BOOLEAN, ApplyGuildDelete(h, u) PROVE Kept
  <2>1. CASE h \in DOMAIN guilds /\ Touch(h, [guilds[h] EXCEPT !.unavailable = TRUE])
    BY <1>4, <2>1
  <2>2. CASE guilds' = [k \in DOMAIN guilds \ {h} |-> guilds[k]]
    <3>1. guilds'[g] = guilds[g]
      BY <2>2
    <3>2. QED
      BY <1>2, <3>1
  <2>3. QED
    BY <1>2, <1>7, <2>1, <2>2 DEF ApplyGuildDelete, Known
<1>8. ASSUME NEW h \in DOMAIN guilds, NEW chs, NEW ths,
             \/ Touch(h, [guilds[h] EXCEPT !.channels = chs])
             \/ Touch(h, [guilds[h] EXCEPT !.threads = ths])
             \/ Touch(h, [guilds[h] EXCEPT !.channels = chs, !.threads = ths])
      PROVE  FALSE
  <2> DEFINE one == [guilds[h] EXCEPT !.channels = chs]
             two == [guilds[h] EXCEPT !.threads = ths]
             both == [guilds[h] EXCEPT !.channels = chs, !.threads = ths]
  <2>1. /\ DOMAIN one = Fields /\ one.unavailable = guilds[h].unavailable
        /\ DOMAIN two = Fields /\ two.unavailable = guilds[h].unavailable
        /\ DOMAIN both = Fields /\ both.unavailable = guilds[h].unavailable
    BY <1>1 DEF Fields
  <2>2. Touch(h, one) \/ Touch(h, two) \/ Touch(h, both)
    BY <1>8
  <2> HIDE DEF one, two, both
  <2>3. QED
    BY <1>5, <2>1, <2>2
<1>9. ASSUME NEW h \in GuildIds, NEW c \in GuildChannelIds, ApplyChannelChange(h, c) PROVE FALSE
  <2> DEFINE chs == IF c \in Items(guilds[h].channels)
                       \/ Len(guilds[h].channels) >= MaxChannelsPerGuild
                    THEN guilds[h].channels ELSE Append(guilds[h].channels, c)
  <2>1. h \in DOMAIN guilds /\ Touch(h, [guilds[h] EXCEPT !.channels = chs])
    BY <1>2, <1>9 DEF ApplyChannelChange, Known
  <2> HIDE DEF chs
  <2>2. QED
    BY <1>8, <2>1
<1>10. ASSUME NEW h \in GuildIds, NEW c \in GuildChannelIds, ApplyChannelDelete(h, c) PROVE FALSE
  <2> DEFINE chs == Retain(guilds[h].channels, Items(guilds[h].channels) \ {c})
             ths == Retain(guilds[h].threads, {t \in Items(guilds[h].threads) : t.parent # c})
  <2>1. h \in DOMAIN guilds /\ Touch(h, [guilds[h] EXCEPT !.channels = chs, !.threads = ths])
    BY <1>2, <1>10 DEF ApplyChannelDelete, Known
  <2> HIDE DEF chs, ths
  <2>2. QED
    BY <1>8, <2>1
<1>11. ASSUME NEW h, NEW ths, Known(h), Touch(h, [guilds[h] EXCEPT !.threads = ths]) PROVE FALSE
  BY <1>8, <1>11 DEF Known
<1>12. ASSUME NEW t \in Thread, ApplyThreadChange(t) PROVE FALSE
  <2> DEFINE ths == IF t.archived THEN DropThread(guilds[t.guild].threads, t.id)
                    ELSE PutThread(guilds[t.guild].threads, AsCached(t))
  <2>1. Known(t.guild) /\ Touch(t.guild, [guilds[t.guild] EXCEPT !.threads = ths])
    BY <1>2, <1>12 DEF ApplyThreadChange
  <2> HIDE DEF ths
  <2>2. QED
    BY <1>11, <2>1
<1>13. ASSUME NEW h \in GuildIds, NEW id \in ThreadIds, ApplyThreadDelete(h, id) PROVE FALSE
  <2> DEFINE ths == DropThread(guilds[h].threads, id)
  <2>1. Known(h) /\ Touch(h, [guilds[h] EXCEPT !.threads = ths])
    BY <1>2, <1>13 DEF ApplyThreadDelete
  <2> HIDE DEF ths
  <2>2. QED
    BY <1>11, <2>1
<1>14. ASSUME NEW h \in GuildIds, NEW scope \in Scopes, NEW l \in ThreadLists,
              ApplyThreadListSync(h, scope, l)
       PROVE  FALSE
  <2> DEFINE ths == SyncedThreads(h, scope, l)
  <2>1. Known(h) /\ Touch(h, [guilds[h] EXCEPT !.threads = ths])
    BY <1>2, <1>14 DEF ApplyThreadListSync
  <2> HIDE DEF ths
  <2>2. QED
    BY <1>11, <2>1
<1> HIDE DEF Kept, Told
<1>15. Kept \/ Told
  BY <1>3, <1>6, <1>7, <1>9, <1>10, <1>12, <1>13, <1>14 DEF TopologyNext
<1>16. QED
  BY <1>15 DEF Kept, Told

\* Whatever is cached of a guild survives its outage: only a snapshot with
\* channels replaces what a guild had when a step flags it unavailable
\* (apply_guild_snapshot, GUILD_UPDATE, GUILD_DELETE).
THEOREM OutageAlways == TopologySpec => OutageKeepsTopology
<1> DEFINE Step == \A g \in DOMAIN guilds \cap DOMAIN guilds' :
                     ~guilds[g].unavailable /\ guilds'[g].unavailable
                       => \/ /\ guilds'[g].channels = guilds[g].channels
                             /\ guilds'[g].threads = guilds[g].threads
                          \/ \E s \in Snapshots \ {<< >>} : ApplyGuildCreate(g, TRUE, s)
<1>1. TopologyBounded /\ [TopologyNext]_topologyVars => [Step]_topologyVars
  BY OutageStep
<1>2. TopologySpec => [][Step]_topologyVars
  BY <1>1, TopologyBoundedAlways, PTL DEF TopologySpec
<1>3. QED
  BY <1>2 DEF OutageKeepsTopology
----------------------------------------------------------------------------
(* The composition                                                         *)

USE TimelinesAssumption, FrontendAssumption

FrontendInv == Inv /\ TopologyBounded
----------------------------------------------------------------------------
(* Ids of channels and threads *)

LEMMA ConcatItems ==
  ASSUME NEW T, NEW s \in Seq(T), NEW t \in Seq(T)
  PROVE  s \o t \in Seq(T) /\ Items(s \o t) = Items(s) \cup Items(t)
<1> DEFINE m == Len(s)
           n == Len(t)
           r == s \o t
<1>1. m \in Nat /\ n \in Nat /\ DOMAIN s = 1..m /\ DOMAIN t = 1..n
  OBVIOUS
<1>2. r \in Seq(T) /\ DOMAIN r = 1..m+n
  BY <1>1
<1>3. /\ \A i \in 1..m : r[i] = s[i]
      /\ \A i \in 1..n : r[m+i] = t[i]
  BY <1>1
<1> HIDE DEF m, n, r
<1>4. \A i \in 1..m+n : i \in 1..m \/ (i-m \in 1..n /\ i = m + (i-m))
  BY <1>1
<1>5. \A i \in 1..n : m+i \in 1..m+n
  BY <1>1
<1>6. 1..m \subseteq 1..m+n
  BY <1>1
<1>7. Items(r) \subseteq Items(s) \cup Items(t)
  <2> SUFFICES ASSUME NEW i \in 1..m+n PROVE r[i] \in Items(s) \cup Items(t)
    BY <1>2 DEF Items
  <2>1. CASE i \in 1..m
    <3>1. r[i] = s[i]
      BY <1>3, <2>1
    <3>2. QED
      BY <1>1, <2>1, <3>1 DEF Items
  <2>2. CASE i-m \in 1..n /\ i = m + (i-m)
    <3>1. r[i] = t[i-m]
      BY <1>3, <2>2
    <3>2. QED
      BY <1>1, <2>2, <3>1 DEF Items
  <2>3. QED
    BY <1>4, <2>1, <2>2
<1>8. Items(s) \cup Items(t) \subseteq Items(r)
  BY <1>1, <1>2, <1>3, <1>5, <1>6 DEF Items
<1>9. r \in Seq(T) /\ Items(r) = Items(s) \cup Items(t)
  BY <1>2, <1>7, <1>8
<1>10. QED
  BY <1>9 DEF r

LEMMA ItemsOfOne ==
  ASSUME NEW c \in ChannelIds
  PROVE  <<c>> \in Seq(ChannelIds) /\ Items(<<c>>) = {c}
BY DEF Items

LEMMA ItemsOfNone == << >> \in Seq(ChannelIds) /\ Items(<< >>) = {}
BY DEF Items

\* The ids of a list of threads, as a sequence and as a set.
LEMMA ThreadIdItems ==
  ASSUME NEW s \in Seq(CachedThread)
  PROVE  ThreadIdsOf(s) \in Seq(ThreadIds) /\ Items(ThreadIdsOf(s)) = Ids(s)
<1>1. /\ DOMAIN ThreadIdsOf(s) = DOMAIN s
      /\ \A i \in DOMAIN s : ThreadIdsOf(s)[i] = s[i].id
  BY DEF ThreadIdsOf
<1>2. Items(ThreadIdsOf(s)) = Ids(s)
  BY <1>1 DEF Items, Ids
<1>3. ThreadIdsOf(s) \in [1..Len(s) -> ThreadIds]
  <2>1. DOMAIN s = 1..Len(s) /\ \A i \in 1..Len(s) : s[i] \in CachedThread
    OBVIOUS
  <2>2. \A t \in CachedThread : t.id \in ThreadIds
    BY DEF CachedThread
  <2>3. QED
    BY <2>1, <2>2 DEF ThreadIdsOf
<1>4. Len(s) \in Nat
  OBVIOUS
<1>5. ThreadIdsOf(s) \in Seq(ThreadIds)
  BY <1>3, <1>4
<1>6. QED
  BY <1>2, <1>5

LEMMA WiderSeq ==
  ASSUME NEW S, NEW T, S \subseteq T, NEW s \in Seq(S)
  PROVE  s \in Seq(T)
<1>1. s \in [1..Len(s) -> T] /\ Len(s) \in Nat
  OBVIOUS
<1>2. QED
  BY <1>1

\* The cached channels and threads of a guild, known or not.
LEMMA ListsOfGuild ==
  ASSUME TopologyBounded, NEW g
  PROVE  /\ ChannelsOf(g) \in Seq(GuildChannelIds) /\ ChannelsOf(g) \in Seq(ChannelIds)
         /\ ThreadsOf(g) \in Seq(CachedThread) /\ ThreadsWithin(ThreadsOf(g))
<1>1. CASE Known(g)
  <2>1. ChannelsOf(g) = guilds[g].channels /\ ThreadsOf(g) = guilds[g].threads
    BY <1>1 DEF ChannelsOf, ThreadsOf
  <2>2. ChannelsOf(g) \in Seq(GuildChannelIds) /\ ThreadsWithin(ThreadsOf(g))
    BY <1>1, <2>1, CachedGuild DEF Known, ChannelsWithin
  <2>3. QED
    BY <2>2, WiderSeq DEF ThreadsWithin
<1>2. CASE ~Known(g)
  <2>1. ChannelsOf(g) = << >> /\ ThreadsOf(g) = << >>
    BY <1>2 DEF ChannelsOf, ThreadsOf
  <2>2. QED
    BY <2>1 DEF ThreadsWithin, Distinct, ThreadIdsOf
<1>3. QED
  BY <1>1, <1>2

\* The threads of a guild whose ids satisfy a condition, as an event retires them.
LEMMA RetiredThreads ==
  ASSUME TopologyBounded, NEW g, NEW keep
  PROVE  LET gone == ThreadIdsOf(Retain(ThreadsOf(g), keep))
         IN  /\ gone \in Seq(ChannelIds)
             /\ Items(gone) = {t.id : t \in Items(ThreadsOf(g)) \cap keep}
             /\ Items(gone) \subseteq ThreadIds
<1> DEFINE s == ThreadsOf(g)
           r == Retain(s, keep)
<1>1. ThreadsWithin(s)
  BY ListsOfGuild
<1>2. ThreadsWithin(r) /\ Ids(r) = {t.id : t \in Items(s) \cap keep}
  BY <1>1, RetainWithin
<1> HIDE DEF r, s
<1>3. ThreadIdsOf(r) \in Seq(ThreadIds) /\ Items(ThreadIdsOf(r)) = Ids(r)
  BY <1>2, ThreadIdItems DEF ThreadsWithin
<1>4. ThreadIdsOf(r) \in Seq(ChannelIds)
  BY <1>3, WiderSeq
<1>5. Items(ThreadIdsOf(r)) \subseteq ThreadIds
  BY <1>3 DEF Items
<1>6. QED
  BY <1>2, <1>3, <1>4, <1>5 DEF r, s

LEMMA ThreadsOfParent ==
  ASSUME TopologyBounded, NEW g, NEW c
  PROVE  /\ ThreadsForParent(g, c) \in Seq(ChannelIds)
         /\ Items(ThreadsForParent(g, c)) = {t.id : t \in {u \in Items(ThreadsOf(g)) : u.parent = c}}
         /\ Items(ThreadsForParent(g, c)) \subseteq ThreadIds
<1> DEFINE keep == {u \in Items(ThreadsOf(g)) : u.parent = c}
<1>1. ThreadsForParent(g, c) = ThreadIdsOf(Retain(ThreadsOf(g), keep))
  BY DEF ThreadsForParent
<1>2. Items(ThreadsOf(g)) \cap keep = keep
  OBVIOUS
<1> HIDE DEF keep
<1>3. /\ ThreadIdsOf(Retain(ThreadsOf(g), keep)) \in Seq(ChannelIds)
      /\ Items(ThreadIdsOf(Retain(ThreadsOf(g), keep))) = {t.id : t \in keep}
      /\ Items(ThreadIdsOf(Retain(ThreadsOf(g), keep))) \subseteq ThreadIds
  BY <1>2, RetiredThreads
<1>4. QED
  BY <1>1, <1>3 DEF keep
----------------------------------------------------------------------------
(* What an event retires *)

\* The recursion that defines RetiredBySnapshot.
IsLeaving(f, g, snapshot) ==
  f = [i \in 0..Len(ChannelsOf(g)) |->
         IF i = 0 THEN << >>
         ELSE IF ChannelsOf(g)[i] \in Items(snapshot) THEN f[i-1]
         ELSE f[i-1] \o <<ChannelsOf(g)[i]>> \o ThreadsForParent(g, ChannelsOf(g)[i])]

LEMMA SnapshotIsLast ==
  ASSUME TopologyBounded, NEW g, NEW s
  PROVE  \E f : IsLeaving(f, g, s) /\ RetiredBySnapshot(g, s) = f[Len(ChannelsOf(g))]
<1> DEFINE cached == ChannelsOf(g)
           n == Len(cached)
           V == Seq(ChannelIds)
           Step(prev, i) == IF cached[i] \in Items(s) THEN prev
                            ELSE prev \o <<cached[i]>> \o ThreadsForParent(g, cached[i])
           step == [p \in V \X (1..n) |-> Step(p[1], p[2])]
<1>1. cached \in Seq(ChannelIds) /\ n \in Nat /\ DOMAIN cached = 1..n /\ << >> \in V
  BY ListsOfGuild
<1>2. ASSUME NEW q \in V, NEW i \in 1..n
      PROVE  Step(q, i) \in V
  <2>1. <<cached[i]>> \in V /\ ThreadsForParent(g, cached[i]) \in V
    BY <1>1, ThreadsOfParent
  <2>2. (q \o <<cached[i]>>) \in V
    BY <2>1, ConcatItems
  <2>3. QED
    BY <2>1, <2>2, ConcatItems
<1> HIDE DEF Step, V
<1>3. step \in [V \X (1..n) -> V]
  BY <1>2
<1> HIDE DEF step
<1>4. PICK f \in [0..n -> V] : Solves(f, << >>, step, n)
  BY <1>1, <1>3, RecursionSolved
<1>5. ASSUME NEW i \in 0..n, i # 0
      PROVE  step[<<f[i-1], i>>] = Step(f[i-1], i)
  <2>1. <<f[i-1], i>> \in V \X (1..n)
    BY <1>1, <1>5
  <2>2. QED
    BY <2>1 DEF step
<1>6. IsLeaving(f, g, s)
  BY <1>4, <1>5 DEF Solves, IsLeaving, Step
<1> DEFINE h == CHOOSE q : IsLeaving(q, g, s)
<1>7. IsLeaving(h, g, s)
  BY <1>6
<1>8. RetiredBySnapshot(g, s) = h[n]
  BY DEF RetiredBySnapshot, IsLeaving
<1> HIDE DEF h
<1>9. QED
  BY <1>7, <1>8

\* A snapshot retires the cached channels it leaves out, and else only threads.
LEMMA RetiredBySnapshotItems ==
  ASSUME TopologyBounded, NEW g, NEW s
  PROVE  /\ RetiredBySnapshot(g, s) \in Seq(ChannelIds)
         /\ Items(ChannelsOf(g)) \ Items(s) \subseteq Items(RetiredBySnapshot(g, s))
         /\ Items(RetiredBySnapshot(g, s)) \cap Items(s) \subseteq ThreadIds
         /\ Items(RetiredBySnapshot(g, s)) \subseteq Items(ChannelsOf(g)) \cup ThreadIds
<1> DEFINE cached == ChannelsOf(g)
           n == Len(cached)
           left(i) == {cached[j] : j \in {k \in 1..i : cached[k] \notin Items(s)}}
<1>1. cached \in Seq(ChannelIds) /\ n \in Nat /\ DOMAIN cached = 1..n
  BY ListsOfGuild
<1>2. PICK f : IsLeaving(f, g, s) /\ RetiredBySnapshot(g, s) = f[n]
  BY SnapshotIsLast
<1>3. left(0) = {}
  OBVIOUS
<1>4. left(n) = Items(cached) \ Items(s)
  BY <1>1 DEF Items
<1>5. ASSUME NEW i \in 0..n, i < n
      PROVE  left(i+1) = left(i) \cup (IF cached[i+1] \in Items(s) THEN {} ELSE {cached[i+1]})
  <2>1. 1..i+1 = (1..i) \cup {i+1}
    BY <1>1, <1>5
  <2>2. QED
    BY <2>1
<1>6. f[0] = << >>
  <2>1. 0 \in 0..n
    BY <1>1
  <2>2. QED
    BY <1>2, <2>1 DEF IsLeaving
<1>7. ASSUME NEW i \in 0..n, i < n
      PROVE  f[i+1] = IF cached[i+1] \in Items(s) THEN f[i]
                      ELSE f[i] \o <<cached[i+1]>> \o ThreadsForParent(g, cached[i+1])
  <2>1. i+1 \in 0..n /\ i+1 # 0 /\ (i+1)-1 = i
    BY <1>1, <1>7
  <2>2. f[i+1] = IF cached[i+1] \in Items(s) THEN f[(i+1)-1]
                 ELSE f[(i+1)-1] \o <<cached[i+1]>> \o ThreadsForParent(g, cached[i+1])
    BY <1>2, <2>1 DEF IsLeaving
  <2>3. QED
    BY <2>1, <2>2
<1> HIDE DEF left
<1> DEFINE S == {i \in 0..n : /\ f[i] \in Seq(ChannelIds)
                              /\ left(i) \subseteq Items(f[i])
                              /\ Items(f[i]) \subseteq left(i) \cup ThreadIds}
<1>8. 0 \in S
  <2>1. f[0] \in Seq(ChannelIds) /\ Items(f[0]) = {} /\ 0 \in 0..n
    BY <1>1, <1>6, ItemsOfNone
  <2>2. QED
    BY <1>3, <2>1
<1>9. ASSUME NEW i \in 0..n, i < n, i \in S
      PROVE  i+1 \in S
  <2>1. i+1 \in 0..n /\ cached[i+1] \in ChannelIds
    BY <1>1, <1>9
  <2>2. CASE cached[i+1] \in Items(s)
    <3>1. f[i+1] = f[i] /\ left(i+1) = left(i)
      BY <1>5, <1>7, <1>9, <2>2
    <3>2. QED
      BY <1>9, <2>1, <3>1
  <2>3. CASE cached[i+1] \notin Items(s)
    <3> DEFINE c == cached[i+1]
               ths == ThreadsForParent(g, c)
               one == <<c>>
               both == f[i] \o one
    <3>1. f[i+1] = both \o ths /\ left(i+1) = left(i) \cup {c}
      BY <1>5, <1>7, <1>9, <2>3
    <3>2. ths \in Seq(ChannelIds) /\ Items(ths) \subseteq ThreadIds
      BY ThreadsOfParent
    <3>3. one \in Seq(ChannelIds) /\ Items(one) = {c}
      BY <2>1, ItemsOfOne
    <3> HIDE DEF c, one, ths
    <3>4. both \in Seq(ChannelIds) /\ Items(both) = Items(f[i]) \cup {c}
      <4>1. f[i] \in Seq(ChannelIds)
        BY <1>9
      <4>2. both \in Seq(ChannelIds) /\ Items(both) = Items(f[i]) \cup Items(one)
        BY ONLY <3>3, <4>1, ConcatItems
      <4>3. QED
        BY <3>3, <4>2
    <3> HIDE DEF both
    <3>5. /\ f[i+1] \in Seq(ChannelIds)
          /\ Items(f[i+1]) = (Items(f[i]) \cup {c}) \cup Items(ths)
      <4>1. (both \o ths) \in Seq(ChannelIds) /\ Items(both \o ths) = Items(both) \cup Items(ths)
        BY ONLY <3>2, <3>4, ConcatItems
      <4>2. QED
        BY <3>1, <3>4, <4>1
    <3>6. c \notin Items(s)
      BY <2>3 DEF c
    <3>7. QED
      BY <1>9, <2>1, <3>1, <3>2, <3>5, <3>6
  <2>4. QED
    BY <2>2, <2>3
<1> HIDE DEF S
<1>10. n \in S
  <2>1. 0..n \subseteq S
    BY <1>1, <1>8, <1>9, UpTo
  <2>2. QED
    BY <1>1, <2>1
<1>11. /\ f[n] \in Seq(ChannelIds) /\ left(n) \subseteq Items(f[n])
       /\ Items(f[n]) \subseteq left(n) \cup ThreadIds
  BY <1>10 DEF S
<1>12. Items(f[n]) \cap Items(s) \subseteq ThreadIds
  BY <1>4, <1>11
<1>13. Items(f[n]) \subseteq Items(cached) \cup ThreadIds
  BY <1>4, <1>11
<1>14. QED
  BY <1>2, <1>4, <1>11, <1>12, <1>13

LEMMA RetiredByGuildDeleteItems ==
  ASSUME TopologyBounded, NEW g
  PROVE  /\ RetiredByGuildDelete(g) \in Seq(ChannelIds)
         /\ Items(RetiredByGuildDelete(g)) = Items(ChannelsOf(g)) \cup Ids(ThreadsOf(g))
<1>1. ChannelsOf(g) \in Seq(ChannelIds) /\ ThreadsOf(g) \in Seq(CachedThread)
  BY ListsOfGuild
<1>2. ThreadIdsOf(ThreadsOf(g)) \in Seq(ChannelIds)
  BY <1>1, ThreadIdItems, WiderSeq
<1>3. Items(ThreadIdsOf(ThreadsOf(g))) = Ids(ThreadsOf(g))
  BY <1>1, ThreadIdItems
<1>4. QED
  BY <1>1, <1>2, <1>3, ConcatItems DEF RetiredByGuildDelete

LEMMA RetiredByChannelDeleteItems ==
  ASSUME TopologyBounded, NEW g, NEW c \in GuildChannelIds
  PROVE  /\ RetiredByChannelDelete(g, c) \in Seq(ChannelIds)
         /\ Items(RetiredByChannelDelete(g, c)) =
              {c} \cup {t.id : t \in {u \in Items(ThreadsOf(g)) : u.parent = c}}
<1>1. <<c>> \in Seq(ChannelIds) /\ Items(<<c>>) = {c}
  BY ItemsOfOne
<1> DEFINE one == <<c>>
           ths == ThreadsForParent(g, c)
<1>2. ths \in Seq(ChannelIds) /\ Items(ths) = {t.id : t \in {u \in Items(ThreadsOf(g)) : u.parent = c}}
  BY ThreadsOfParent
<1> HIDE DEF one, ths
<1>3. one \in Seq(ChannelIds) /\ Items(one) = {c}
  BY <1>1 DEF one
<1>4. (one \o ths) \in Seq(ChannelIds) /\ Items(one \o ths) = Items(one) \cup Items(ths)
  BY ONLY <1>2, <1>3, ConcatItems
<1>5. RetiredByChannelDelete(g, c) = one \o ths
  BY DEF RetiredByChannelDelete, one, ths
<1>6. QED
  BY <1>2, <1>3, <1>4, <1>5

\* A sync retires what is in its scope and not in its list.
LEMMA RetiredBySyncItems ==
  ASSUME TopologyBounded, NEW g, NEW scope, NEW l
  PROVE  /\ RetiredBySync(g, scope, l) \in Seq(ChannelIds)
         /\ Items(RetiredBySync(g, scope, l)) =
              {t.id : t \in {u \in Items(ThreadsOf(g)) :
                               InScope(u, scope) /\ u.id \notin RestoredBySync(g, l)}}
<1> DEFINE keep == {u \in Items(ThreadsOf(g)) :
                      InScope(u, scope) /\ u.id \notin RestoredBySync(g, l)}
<1>1. RetiredBySync(g, scope, l) = ThreadIdsOf(Retain(ThreadsOf(g), keep))
  BY DEF RetiredBySync, RestoredBySync
<1>2. Items(ThreadsOf(g)) \cap keep = keep
  OBVIOUS
<1> HIDE DEF keep
<1>3. /\ ThreadIdsOf(Retain(ThreadsOf(g), keep)) \in Seq(ChannelIds)
      /\ Items(ThreadIdsOf(Retain(ThreadsOf(g), keep))) = {t.id : t \in keep}
      /\ Items(ThreadIdsOf(Retain(ThreadsOf(g), keep))) \subseteq ThreadIds
  BY <1>2, RetiredThreads
<1>4. QED
  BY <1>1, <1>3 DEF keep
----------------------------------------------------------------------------
(* What an event adds to the navigation and takes from it                  *)

ActiveIn(x) == Items(x.channels) \cup Items(ThreadIdsOf(x.threads))

LEMMA ActiveMembers ==
  /\ \A c : c \in ActiveIds <=> \E k \in DOMAIN guilds : c \in ActiveIn(guilds[k])
  /\ \A c : c \in ActiveIds' <=> \E k \in DOMAIN guilds' : c \in ActiveIn(guilds'[k])
BY DEF ActiveIds, ActiveIn

Gained == ActiveIds' \ ActiveIds
Left == ActiveIds \ ActiveIds'

LEMMA UnchangedActive ==
  ASSUME UNCHANGED topologyVars
  PROVE  Gained = {} /\ Left = {}
<1>1. guilds' = guilds
  BY DEF topologyVars
<1>2. QED
  BY <1>1, ActiveMembers DEF Gained, Left

\* An update of guild g adds what it lists and g did not, and takes what g listed
\* and it does not.
LEMMA TouchActive ==
  ASSUME TopologyBounded, NEW g \in DOMAIN guilds,
         NEW update, DOMAIN update = Fields, update.threads \in Seq(CachedThread),
         Touch(g, update)
  PROVE  LET old == Items(guilds[g].channels) \cup Ids(guilds[g].threads)
             new == Items(update.channels) \cup Ids(update.threads)
         IN  Gained \subseteq new \ old /\ Left \subseteq old \ new
<1>1. /\ DOMAIN guilds' = DOMAIN guilds
      /\ \A k \in DOMAIN guilds : k # g => guilds'[k] = guilds[k]
      /\ guilds'[g].channels = update.channels
      /\ guilds'[g].threads = update.threads
  BY TouchFields
<1>2. /\ ActiveIn(guilds[g]) = Items(guilds[g].channels) \cup Ids(guilds[g].threads)
      /\ ActiveIn(guilds'[g]) = Items(update.channels) \cup Ids(update.threads)
  <2>1. guilds[g].threads \in Seq(CachedThread)
    BY CachedGuild DEF ThreadsWithin
  <2>2. /\ Items(ThreadIdsOf(guilds[g].threads)) = Ids(guilds[g].threads)
        /\ Items(ThreadIdsOf(update.threads)) = Ids(update.threads)
    BY <2>1, ThreadIdItems
  <2>3. QED
    BY <1>1, <2>2 DEF ActiveIn
<1>3. \A k \in DOMAIN guilds : k # g => ActiveIn(guilds'[k]) = ActiveIn(guilds[k])
  BY <1>1
<1>4. ASSUME NEW c \in Gained PROVE c \in ActiveIn(guilds'[g]) /\ c \notin ActiveIn(guilds[g])
  <2>1. c \notin ActiveIds /\ \E k \in DOMAIN guilds' : c \in ActiveIn(guilds'[k])
    BY ActiveMembers DEF Gained
  <2>2. \A k \in DOMAIN guilds : c \notin ActiveIn(guilds[k])
    BY <2>1, ActiveMembers
  <2>3. QED
    BY <1>1, <1>3, <2>1, <2>2
<1>5. ASSUME NEW c \in Left PROVE c \in ActiveIn(guilds[g]) /\ c \notin ActiveIn(guilds'[g])
  <2>1. c \notin ActiveIds' /\ \E k \in DOMAIN guilds : c \in ActiveIn(guilds[k])
    BY ActiveMembers DEF Left
  <2>2. \A k \in DOMAIN guilds' : c \notin ActiveIn(guilds'[k])
    BY <2>1, ActiveMembers
  <2>3. QED
    BY <1>1, <1>3, <2>1, <2>2
<1>6. QED
  BY <1>2, <1>4, <1>5

\* An update that only replaces the channels, or only the threads, of guild g.
LEMMA GuildFields ==
  ASSUME TopologyBounded, NEW g \in DOMAIN guilds
  PROVE  /\ DOMAIN guilds[g] = Fields
         /\ guilds[g].threads \in Seq(CachedThread)
         /\ ChannelsOf(g) = guilds[g].channels /\ ThreadsOf(g) = guilds[g].threads
BY CachedGuild DEF Guild, Fields, ThreadsWithin, ChannelsOf, ThreadsOf, Known

LEMMA ThreadsTouchActive ==
  ASSUME TopologyBounded, NEW g \in DOMAIN guilds, NEW ths \in Seq(CachedThread),
         Touch(g, [guilds[g] EXCEPT !.threads = ths])
  PROVE  Gained \subseteq Ids(ths) \ Ids(ThreadsOf(g)) /\ Left \subseteq Ids(ThreadsOf(g)) \ Ids(ths)
<1> DEFINE update == [guilds[g] EXCEPT !.threads = ths]
<1>1. /\ DOMAIN update = Fields
      /\ update.channels = guilds[g].channels /\ update.threads = ths
  BY GuildFields DEF Fields
<1>2. Touch(g, update)
  OBVIOUS
<1> HIDE DEF update
<1>3. QED
  BY <1>1, <1>2, TouchActive, GuildFields

LEMMA ChannelsTouchActive ==
  ASSUME TopologyBounded, NEW g \in DOMAIN guilds, NEW chs,
         Touch(g, [guilds[g] EXCEPT !.channels = chs])
  PROVE  Gained \subseteq Items(chs) \ Items(ChannelsOf(g)) /\ Left \subseteq Items(ChannelsOf(g)) \ Items(chs)
<1> DEFINE update == [guilds[g] EXCEPT !.channels = chs]
<1>1. /\ DOMAIN update = Fields
      /\ update.channels = chs /\ update.threads = guilds[g].threads
  BY GuildFields DEF Fields
<1>2. Touch(g, update)
  OBVIOUS
<1> HIDE DEF update
<1>3. QED
  BY <1>1, <1>2, TouchActive, GuildFields

LEMMA GuildCreateActive ==
  ASSUME TopologyBounded, NEW g \in GuildIds, NEW u \in BOOLEAN, NEW s \in Snapshots,
         ApplyGuildCreate(g, u, s)
  PROVE  /\ Gained \subseteq Items(s)
         /\ ~u /\ Known(g) /\ Len(s) <= MaxChannelsPerGuild
              => Left \subseteq Items(ChannelsOf(g)) \ Items(s)
<1>1. CASE Known(g)
  <2> DEFINE chs == IF u /\ s = << >> THEN guilds[g].channels
                    ELSE Take(s, MaxChannelsPerGuild)
             update == [guilds[g] EXCEPT !.unavailable = u, !.channels = chs]
  <2>1. g \in DOMAIN guilds /\ Touch(g, update)
    BY <1>1 DEF ApplyGuildCreate, Known
  <2>2. /\ Items(Take(s, MaxChannelsPerGuild)) \subseteq Items(s)
        /\ Len(s) <= MaxChannelsPerGuild => Items(Take(s, MaxChannelsPerGuild)) = Items(s)
    BY TakeWithin
  <2>3. /\ Items(chs) \subseteq Items(s) \cup Items(guilds[g].channels)
        /\ ~u /\ Len(s) <= MaxChannelsPerGuild => Items(chs) = Items(s)
    BY <2>2
  <2> HIDE DEF chs
  <2>4. /\ DOMAIN update = Fields
        /\ update.channels = chs /\ update.threads = guilds[g].threads
    BY <2>1, GuildFields DEF Fields
  <2> HIDE DEF update
  <2>5. /\ Gained \subseteq Items(chs) \ Items(guilds[g].channels)
        /\ Left \subseteq Items(guilds[g].channels) \ Items(chs)
    BY <2>1, <2>4, TouchActive, GuildFields
  <2>6. QED
    BY <2>1, <2>3, <2>5, GuildFields
<1>2. CASE ~Known(g)
  <2> DEFINE room == IF Cardinality(DOMAIN guilds) < MaxGuilds THEN DOMAIN guilds
                     ELSE DOMAIN guilds \ {LeastRecentGuild}
             chs == Take(s, MaxChannelsPerGuild)
             new == [unavailable |-> u, channels |-> chs, threads |-> << >>,
                     touched |-> topologyClock']
  <2>1. guilds' = [h \in room \cup {g} |-> IF h = g THEN new ELSE guilds[h]]
    BY <1>2 DEF ApplyGuildCreate
  <2>2. room \subseteq DOMAIN guilds
    OBVIOUS
  <2>3. Items(ThreadIdsOf(<< >>)) = {}
    BY DEF Items, ThreadIdsOf
  <2>4. ActiveIn(new) = Items(chs)
    BY <2>3 DEF ActiveIn
  <2>5. Items(chs) \subseteq Items(s)
    BY TakeWithin
  <2> HIDE DEF room, new, chs
  <2>6. ASSUME NEW c \in Gained PROVE c \in Items(s)
    <3>1. PICK k \in DOMAIN guilds' : c \in ActiveIn(guilds'[k])
      BY ActiveMembers DEF Gained
    <3>2. CASE k = g
      BY <2>1, <2>4, <2>5, <3>1, <3>2
    <3>3. CASE k # g
      <4>1. k \in DOMAIN guilds /\ guilds'[k] = guilds[k]
        BY <2>1, <2>2, <3>3
      <4>2. c \in ActiveIds
        BY <3>1, <4>1, ActiveMembers
      <4>3. QED
        BY <4>2 DEF Gained
    <3>4. QED
      BY <3>2, <3>3
  <2>7. QED
    BY <1>2, <2>6
<1>3. QED
  BY <1>1, <1>2

LEMMA GuildUpdateActive ==
  ASSUME TopologyBounded, NEW g \in GuildIds, NEW u, ApplyGuildUpdate(g, u)
  PROVE  Gained = {} /\ Left = {}
<1>1. CASE UNCHANGED topologyVars
  BY <1>1, UnchangedActive
<1>2. CASE Known(g) /\ ~UNCHANGED topologyVars
  <2> DEFINE flag == IF u = Absent THEN guilds[g].unavailable ELSE u
             update == [guilds[g] EXCEPT !.unavailable = flag]
  <2>1. g \in DOMAIN guilds /\ Touch(g, update)
    BY <1>2 DEF ApplyGuildUpdate, Known
  <2> HIDE DEF flag
  <2>2. /\ DOMAIN update = Fields
        /\ update.channels = guilds[g].channels /\ update.threads = guilds[g].threads
    BY <2>1, GuildFields DEF Fields
  <2> HIDE DEF update
  <2>3. QED
    BY <2>1, <2>2, TouchActive, GuildFields
<1>3. QED
  BY <1>1, <1>2 DEF ApplyGuildUpdate

LEMMA GuildDeleteActive ==
  ASSUME TopologyBounded, NEW g \in GuildIds, NEW u \in BOOLEAN, ApplyGuildDelete(g, u)
  PROVE  /\ Gained = {}
         /\ IF u THEN Left = {} ELSE Left \subseteq Items(ChannelsOf(g)) \cup Ids(ThreadsOf(g))
<1>1. CASE UNCHANGED topologyVars
  BY <1>1, UnchangedActive
<1>2. CASE Known(g) /\ u /\ Touch(g, [guilds[g] EXCEPT !.unavailable = TRUE])
  <2> DEFINE update == [guilds[g] EXCEPT !.unavailable = TRUE]
  <2>1. g \in DOMAIN guilds /\ Touch(g, update)
    BY <1>2 DEF Known
  <2>2. /\ DOMAIN update = Fields
        /\ update.channels = guilds[g].channels /\ update.threads = guilds[g].threads
    BY <2>1, GuildFields DEF Fields
  <2> HIDE DEF update
  <2>3. QED
    BY <1>2, <2>1, <2>2, TouchActive, GuildFields
<1>3. CASE Known(g) /\ ~u /\ guilds' = [h \in DOMAIN guilds \ {g} |-> guilds[h]]
  <2>1. /\ DOMAIN guilds' = DOMAIN guilds \ {g}
        /\ \A k \in DOMAIN guilds' : guilds'[k] = guilds[k]
    BY <1>3
  <2>2. Gained = {}
    BY <2>1, ActiveMembers DEF Gained
  <2>3. g \in DOMAIN guilds
    BY <1>3 DEF Known
  <2>4. ActiveIn(guilds[g]) = Items(ChannelsOf(g)) \cup Ids(ThreadsOf(g))
    BY <2>3, GuildFields, ThreadIdItems DEF ActiveIn
  <2>5. ASSUME NEW c \in Left PROVE c \in ActiveIn(guilds[g])
    <3>1. PICK k \in DOMAIN guilds : c \in ActiveIn(guilds[k])
      BY ActiveMembers DEF Left
    <3>2. CASE k # g
      <4>1. c \in ActiveIds'
        BY <2>1, <3>1, <3>2, ActiveMembers
      <4>2. QED
        BY <4>1 DEF Left
    <3>3. QED
      BY <3>1, <3>2
  <2>6. QED
    BY <1>3, <2>2, <2>4, <2>5
<1>4. QED
  BY <1>1, <1>2, <1>3 DEF ApplyGuildDelete

LEMMA ChannelChangeActive ==
  ASSUME TopologyBounded, NEW g \in GuildIds, NEW c \in GuildChannelIds,
         ApplyChannelChange(g, c)
  PROVE  Gained \subseteq {c} /\ Left = {}
<1>1. CASE UNCHANGED topologyVars
  BY <1>1, UnchangedActive
<1>2. CASE Known(g) /\ ~UNCHANGED topologyVars
  <2> DEFINE old == guilds[g].channels
             chs == IF c \in Items(old) \/ Len(old) >= MaxChannelsPerGuild THEN old
                    ELSE Append(old, c)
  <2>1. g \in DOMAIN guilds /\ Touch(g, [guilds[g] EXCEPT !.channels = chs])
    BY <1>2 DEF ApplyChannelChange, Known
  <2>2. old = ChannelsOf(g) /\ old \in Seq(GuildChannelIds)
    BY <2>1, GuildFields, ListsOfGuild
  <2> HIDE DEF old
  <2>3. Items(Append(old, c)) = Items(old) \cup {c}
    BY <2>2, AppendItems
  <2>4. Items(old) \subseteq Items(chs) /\ Items(chs) \subseteq Items(old) \cup {c}
    BY <2>3
  <2> HIDE DEF chs
  <2>5. QED
    BY <2>1, <2>2, <2>4, ChannelsTouchActive
<1>3. QED
  BY <1>1, <1>2 DEF ApplyChannelChange

LEMMA ChannelDeleteActive ==
  ASSUME TopologyBounded, NEW g \in GuildIds, NEW c \in GuildChannelIds,
         ApplyChannelDelete(g, c)
  PROVE  /\ Gained = {}
         /\ Left \subseteq {c} \cup {t.id : t \in {u \in Items(ThreadsOf(g)) : u.parent = c}}
<1>1. CASE UNCHANGED topologyVars
  BY <1>1, UnchangedActive
<1>2. CASE Known(g) /\ ~UNCHANGED topologyVars
  <2> DEFINE oldChs == guilds[g].channels
             oldThs == guilds[g].threads
             chs == Retain(oldChs, Items(oldChs) \ {c})
             ths == Retain(oldThs, {t \in Items(oldThs) : t.parent # c})
             update == [guilds[g] EXCEPT !.channels = chs, !.threads = ths]
  <2>1. g \in DOMAIN guilds /\ Touch(g, update)
    BY <1>2 DEF ApplyChannelDelete, Known
  <2>2. ChannelsWithin(oldChs) /\ ThreadsWithin(oldThs)
    BY <2>1, CachedGuild
  <2>3. oldThs = ThreadsOf(g)
    BY <2>1, GuildFields
  <2> HIDE DEF oldChs, oldThs
  <2>4. Items(chs) = Items(oldChs) \cap (Items(oldChs) \ {c})
    BY <2>2, RetainProperties DEF ChannelsWithin
  <2>5. /\ ThreadsWithin(ths)
        /\ Ids(ths) = {t.id : t \in Items(oldThs) \cap {u \in Items(oldThs) : u.parent # c}}
    BY <2>2, RetainWithin
  <2> HIDE DEF chs, ths
  <2>6. /\ DOMAIN update = Fields
        /\ update.channels = chs /\ update.threads = ths
    BY <2>1, GuildFields DEF Fields
  <2>7. update.threads \in Seq(CachedThread)
    BY <2>5, <2>6 DEF ThreadsWithin
  <2> HIDE DEF update
  <2>8. /\ Gained \subseteq (Items(chs) \cup Ids(ths)) \ (Items(oldChs) \cup Ids(oldThs))
        /\ Left \subseteq (Items(oldChs) \cup Ids(oldThs)) \ (Items(chs) \cup Ids(ths))
    BY <2>1, <2>6, <2>7, TouchActive DEF oldChs, oldThs
  <2>9. Items(chs) \subseteq Items(oldChs) /\ Items(oldChs) \subseteq Items(chs) \cup {c}
    BY <2>4
  <2>10. /\ Ids(ths) \subseteq Ids(oldThs)
         /\ Ids(oldThs) \subseteq Ids(ths) \cup {t.id : t \in {u \in Items(oldThs) : u.parent = c}}
    BY <2>5 DEF Ids
  <2>11. QED
    BY <2>3, <2>8, <2>9, <2>10
<1>3. QED
  BY <1>1, <1>2 DEF ApplyChannelDelete

LEMMA DropThreadIds ==
  ASSUME NEW s, ThreadsWithin(s), NEW id
  PROVE  ThreadsWithin(DropThread(s, id)) /\ Ids(DropThread(s, id)) = Ids(s) \ {id}
<1> DEFINE keep == {u \in Items(s) : u.id # id}
<1>1. DropThread(s, id) = Retain(s, keep)
  BY DEF DropThread
<1>2. Ids(s) \ {id} = {t.id : t \in Items(s) \cap keep}
  BY DEF Ids
<1> HIDE DEF keep
<1>3. ThreadsWithin(Retain(s, keep)) /\ Ids(Retain(s, keep)) = {t.id : t \in Items(s) \cap keep}
  BY RetainWithin
<1>4. QED
  BY <1>1, <1>2, <1>3

LEMMA ThreadChangeActive ==
  ASSUME TopologyBounded, NEW t \in Thread, ApplyThreadChange(t)
  PROVE  /\ Gained \subseteq IF t.archived THEN {} ELSE {t.id}
         /\ Left \subseteq IF t.archived THEN {t.id} ELSE {}
<1>1. CASE UNCHANGED topologyVars
  BY <1>1, UnchangedActive
<1>2. CASE Known(t.guild) /\ ~UNCHANGED topologyVars
  <2> DEFINE g == t.guild
             old == guilds[g].threads
             ths == IF t.archived THEN DropThread(old, t.id) ELSE PutThread(old, AsCached(t))
  <2>1. g \in DOMAIN guilds /\ Touch(g, [guilds[g] EXCEPT !.threads = ths])
    BY <1>2 DEF ApplyThreadChange, Known
  <2>2. ThreadsWithin(old) /\ old = ThreadsOf(g)
    BY <2>1, CachedGuild, GuildFields
  <2> HIDE DEF old, g
  <2>3. ThreadsWithin(DropThread(old, t.id)) /\ Ids(DropThread(old, t.id)) = Ids(old) \ {t.id}
    BY <2>2, DropThreadIds
  <2>4. AsCached(t) \in CachedThread /\ AsCached(t).id = t.id
    BY AsCachedType
  <2>5. /\ ThreadsWithin(PutThread(old, AsCached(t)))
        /\ Ids(old) \subseteq Ids(PutThread(old, AsCached(t)))
        /\ Ids(PutThread(old, AsCached(t))) \subseteq Ids(old) \cup {t.id}
    BY <2>2, <2>4, PutThreadWithin
  <2>6. ths \in Seq(CachedThread)
    BY <2>3, <2>5 DEF ThreadsWithin
  <2>7. /\ Ids(ths) \ Ids(old) \subseteq IF t.archived THEN {} ELSE {t.id}
        /\ Ids(old) \ Ids(ths) \subseteq IF t.archived THEN {t.id} ELSE {}
    BY <2>3, <2>5
  <2> HIDE DEF ths
  <2>8. Gained \subseteq Ids(ths) \ Ids(old) /\ Left \subseteq Ids(old) \ Ids(ths)
    BY <2>1, <2>2, <2>6, ThreadsTouchActive
  <2>9. QED
    BY <2>7, <2>8
<1>3. QED
  BY <1>1, <1>2 DEF ApplyThreadChange

LEMMA ThreadDeleteActive ==
  ASSUME TopologyBounded, NEW g \in GuildIds, NEW id \in ThreadIds, ApplyThreadDelete(g, id)
  PROVE  Gained = {} /\ Left \subseteq {id}
<1>1. CASE UNCHANGED topologyVars
  BY <1>1, UnchangedActive
<1>2. CASE Known(g) /\ ~UNCHANGED topologyVars
  <2> DEFINE ths == DropThread(guilds[g].threads, id)
  <2>1. g \in DOMAIN guilds /\ Touch(g, [guilds[g] EXCEPT !.threads = ths])
    BY <1>2 DEF ApplyThreadDelete, Known
  <2>2. ThreadsWithin(guilds[g].threads) /\ guilds[g].threads = ThreadsOf(g)
    BY <2>1, CachedGuild, GuildFields
  <2>3. ths \in Seq(CachedThread) /\ Ids(ths) = Ids(ThreadsOf(g)) \ {id}
    BY <2>2, DropThreadIds DEF ThreadsWithin
  <2> HIDE DEF ths
  <2>4. QED
    BY <2>1, <2>3, ThreadsTouchActive
<1>3. QED
  BY <1>1, <1>2 DEF ApplyThreadDelete

LEMMA SyncActive ==
  ASSUME TopologyBounded, NEW g \in GuildIds, NEW scope \in Scopes, NEW l \in ThreadLists,
         ApplyThreadListSync(g, scope, l)
  PROVE  /\ Gained \subseteq RestoredBySync(g, l)
         /\ ~Overfull(g, scope, l) => Left \subseteq Items(RetiredBySync(g, scope, l))
<1>1. CASE UNCHANGED topologyVars
  BY <1>1, UnchangedActive
<1>2. CASE Known(g) /\ ~UNCHANGED topologyVars
  <2> DEFINE old == ThreadsOf(g)
             ths == SyncedThreads(g, scope, l)
             outside == OutsideOf(old, scope)
             listed == ListedIn(l, g)
  <2>1. g \in DOMAIN guilds /\ Touch(g, [guilds[g] EXCEPT !.threads = ths])
    BY <1>2 DEF ApplyThreadListSync, Known
  <2>2. ThreadsWithin(old) /\ guilds[g].threads = old /\ l \in Seq(Thread)
    BY <2>1, CachedGuild, GuildFields
  <2>3. /\ ThreadsWithin(ths)
        /\ outside \subseteq Ids(ths)
        /\ Ids(ths) \subseteq outside \cup listed
        /\ Cardinality(outside \cup listed) <= MaxThreadsPerGuild => Ids(ths) = outside \cup listed
    BY <2>1, <2>2, SyncedWithin
  <2> HIDE DEF ths
  <2>4. Gained \subseteq Ids(ths) \ Ids(old) /\ Left \subseteq Ids(old) \ Ids(ths)
    BY <2>1, <2>3, ThreadsTouchActive DEF ThreadsWithin
  <2>5. outside \subseteq Ids(old)
    BY DEF OutsideOf, Ids
  <2>6. listed = RestoredBySync(g, l)
    BY DEF ListedIn, RestoredBySync
  <2>7. Overfull(g, scope, l) <=> Cardinality(outside \cup listed) > MaxThreadsPerGuild
    BY <2>6 DEF Overfull, OutsideOf
  <2>8. Cardinality(outside \cup listed) \in Nat
    <3>1. IsFiniteSet(Ids(old)) /\ IsFiniteSet(listed)
      BY <2>2, CountIds, ListedFinite
    <3>2. IsFiniteSet(outside)
      BY <2>5, <3>1, FS_Subset
    <3>3. IsFiniteSet(outside \cup listed)
      BY <3>1, <3>2, FS_Union
    <3>4. QED
      BY <3>3, FS_CardinalityType
  <2>9. ASSUME ~Overfull(g, scope, l), NEW c \in Ids(old) \ (outside \cup listed)
        PROVE  c \in Items(RetiredBySync(g, scope, l))
    <3>1. PICK t \in Items(old) : c = t.id
      BY <2>9 DEF Ids
    <3>2. InScope(t, scope)
      BY <2>9, <3>1 DEF OutsideOf
    <3>3. t.id \notin RestoredBySync(g, l)
      BY <2>6, <2>9, <3>1
    <3>4. QED
      BY <3>1, <3>2, <3>3, RetiredBySyncItems
  <2> HIDE DEF outside, listed, old
  <2>10. ~Overfull(g, scope, l) => Ids(ths) = outside \cup listed
    BY <2>3, <2>7, <2>8
  <2>11. QED
    BY <2>3, <2>4, <2>5, <2>6, <2>9, <2>10
<1>3. QED
  BY <1>1, <1>2 DEF ApplyThreadListSync
----------------------------------------------------------------------------
(* What an event does to the tombstones *)

\* A tombstone that goes and is not asked back was pushed out of a full FIFO,
\* unless the event restores what it retires; none that is older stays, unless the
\* event retires it.
LEMMA TombstonesPushedOut ==
  ASSUME Inv, NEW gone \in Seq(ChannelIds), NEW back, Retopology(gone, back)
  PROVE  /\ \A c \in back : c \notin Items(retired')
         /\ Items(gone) \cap back = {} =>
              \A c \in Items(retired) \ Items(retired') :
                c \in back \/ Cardinality(Items(retired) \cup Items(retired')) > MaxRetired
         /\ \A c \in Items(retired) \ Items(retired') :
              c \in back \/ \A d \in Items(retired') : Older(d, c) => d \in Items(gone)
<1> DEFINE r == RetireAll(retired, gone)
<1>1. Fifo(retired) /\ retired' = Retain(r, Items(r) \ back)
  BY InvParts DEF Retopology
<1>2. /\ Fifo(r)
      /\ Items(r) \subseteq Items(retired) \cup Items(gone)
      /\ Items(retired) \subseteq Items(r) \/ Len(r) = MaxRetired
      /\ KeepsOrder(r, retired, Items(gone))
  BY <1>1, RetireAllProperties
<1> HIDE DEF r
<1>3. Items(retired') = Items(r) \cap (Items(r) \ back)
  BY <1>1, <1>2, RetainProperties DEF Fifo
<1>4. ASSUME Items(gone) \cap back = {}, NEW c \in Items(retired) \ Items(retired'), c \notin back
      PROVE  Cardinality(Items(retired) \cup Items(retired')) > MaxRetired
  <2> DEFINE all == Items(retired) \cup Items(retired')
  <2>1. c \notin Items(r)
    BY <1>3, <1>4
  <2>2. Len(r) = MaxRetired
    BY <1>2, <1>4, <2>1
  <2>3. Items(r) \subseteq all
    BY <1>2, <1>3, <1>4
  <2>4. IsFiniteSet(Items(r)) /\ Cardinality(Items(r)) = MaxRetired
    BY <1>2, <2>2, CountItems DEF Fifo
  <2>5. IsFiniteSet(all)
    <3>1. IsFiniteSet(Items(retired))
      BY <1>1, CountItems DEF Fifo
    <3>2. IsFiniteSet(Items(retired'))
      BY <1>3, <2>4, FS_Subset
    <3>3. QED
      BY <3>1, <3>2, FS_Union
  <2>6. c \in all
    BY <1>4
  <2> HIDE DEF all
  <2>7. Cardinality(Items(r) \cup {c}) = MaxRetired + 1
    BY <2>1, <2>4, FS_AddElement
  <2>8. Items(r) \cup {c} \subseteq all
    BY <2>3, <2>6
  <2>9. Cardinality(Items(r) \cup {c}) <= Cardinality(all) /\ Cardinality(all) \in Nat
    BY <2>5, <2>8, FS_Subset, FS_CardinalityType
  <2>10. Cardinality(all) > MaxRetired
    BY <2>7, <2>9, MaxRetiredPositive
  <2>11. QED
    BY <2>10 DEF all
<1>5. ASSUME NEW c \in Items(retired) \ Items(retired'), c \notin back,
             NEW d \in Items(retired'), Older(d, c), d \notin Items(gone)
      PROVE  FALSE
  <2>1. Precedes(retired, d, c) /\ d \in Items(retired)
    BY <1>5 DEF Older, Precedes, Items
  <2>2. d \in Items(r)
    BY <1>3
  <2>3. Precedes(r, d, c)
    BY <1>2, <1>5, <2>1, <2>2 DEF KeepsOrder
  <2>4. c \in Items(r)
    BY <2>3 DEF Precedes, Items
  <2>5. QED
    BY <1>3, <1>5, <2>4
<1>6. QED
  BY <1>3, <1>4, <1>5
----------------------------------------------------------------------------
(* What a step must keep: the invariant, and the three action properties   *)

Exempt(c) ==
  \E g \in GuildIds : ChannelUpdate(g, c) \/ \E s \in Snapshots : GuildCreate(g, TRUE, s)

ActivationStep == \A c \in ActiveIds' \ ActiveIds : c \in Items(retired') => Exempt(c)

LeftOut ==
  \/ \E g \in GuildIds, u \in BOOLEAN, s \in Snapshots :
       (u \/ ~Known(g) \/ Len(s) > MaxChannelsPerGuild) /\ GuildCreate(g, u, s)
  \/ \E g \in GuildIds, scope \in Scopes, l \in ThreadLists :
       Overfull(g, scope, l) /\ ThreadListSync(g, scope, l)
  \/ \E t \in Thread : t.archived /\ ThreadCreate(t)

RemovalStep == \A c \in ActiveIds \ ActiveIds' : c \in DOMAIN channels' => LeftOut

\* Ids are snowflakes: no channel of a guild has the id of a thread.
IdsAreUnique == GuildChannelIds \cap ThreadIds = {}

TombstoneStep ==
  \A c \in Items(retired) \ Items(retired') :
    \/ Announced(c)
    \/ /\ Cardinality(Items(retired) \cup Items(retired')) > MaxRetired
       /\ \A d \in Items(retired') : Older(d, c) => Retires(d)

StepKept ==
  /\ FrontendInv'
  /\ ActivationStep
  /\ RemovalStep
  /\ IdsAreUnique => TombstoneStep

LEMMA StutterBounded ==
  ASSUME TopologyBounded, UNCHANGED topologyVars
  PROVE  TopologyBounded'
BY BoundedIsWithin, BoundedIsWithinNext DEF topologyVars

\* A step that leaves navigation and tombstones alone: messages and answers.
LEMMA TimelineStep ==
  ASSUME FrontendInv, Inv', UNCHANGED topologyVars, UNCHANGED retired
  PROVE  StepKept
<1>1. Gained = {} /\ Left = {}
  BY UnchangedActive
<1>2. TopologyBounded'
  BY StutterBounded DEF FrontendInv
<1>3. ActivationStep /\ RemovalStep
  BY <1>1 DEF Gained, Left, ActivationStep, RemovalStep
<1>4. TombstoneStep
  BY DEF TombstoneStep
<1>5. QED
  BY <1>2, <1>3, <1>4 DEF StepKept, FrontendInv

\* A topology event that retires and restores: what it makes active it must
\* restore, what it takes away it must retire, what it restores it announces, and
\* what it retires is gone.
LEMMA TopologyEventStep ==
  ASSUME FrontendInv, TopologyBounded',
         NEW gone \in Seq(ChannelIds), NEW back, Retopology(gone, back),
         \A c \in Gained : c \in back \/ Exempt(c),
         \A c \in Left : c \in Items(gone) \/ LeftOut,
         IdsAreUnique => Items(gone) \cap back = {},
         \A c \in back : Announced(c),
         \A c \in Items(gone) : Retires(c)
  PROVE  StepKept
<1>1. Inv'
  BY RetopologyInv DEF FrontendInv
<1>2. ActivationStep
  <2>1. \A c \in back : c \notin Items(retired')
    BY TombstonesPushedOut DEF FrontendInv
  <2>2. QED
    BY <2>1 DEF ActivationStep, Gained
<1>3. RemovalStep
  <2>1. \A c \in DOMAIN channels' : c \notin Items(gone)
    BY DEF Retopology, Without
  <2>2. QED
    BY <2>1 DEF RemovalStep, Left
<1>4. IdsAreUnique => TombstoneStep
  <2>1. SUFFICES ASSUME IdsAreUnique, NEW c \in Items(retired) \ Items(retired')
                 PROVE  \/ Announced(c)
                        \/ /\ Cardinality(Items(retired) \cup Items(retired')) > MaxRetired
                           /\ \A d \in Items(retired') : Older(d, c) => Retires(d)
    BY DEF TombstoneStep
  <2>2. Items(gone) \cap back = {}
    BY <2>1
  <2>3. c \in back \/ Cardinality(Items(retired) \cup Items(retired')) > MaxRetired
    BY <2>2, TombstonesPushedOut DEF FrontendInv
  <2>4. c \in back \/ \A d \in Items(retired') : Older(d, c) => d \in Items(gone)
    BY TombstonesPushedOut DEF FrontendInv
  <2>5. QED
    BY <2>3, <2>4
<1>5. QED
  BY <1>1, <1>2, <1>3, <1>4 DEF StepKept, FrontendInv

\* A topology event that retires nothing and restores nothing.
LEMMA QuietEventStep ==
  ASSUME FrontendInv, TopologyBounded', UNCHANGED timelineVars,
         \A c \in Gained : Exempt(c),
         Left = {} \/ LeftOut
  PROVE  StepKept
<1>1. Inv'
  BY StutterInv DEF FrontendInv
<1>2. UNCHANGED retired
  BY DEF timelineVars
<1>3. ActivationStep /\ RemovalStep
  BY DEF Gained, Left, ActivationStep, RemovalStep
<1>4. TombstoneStep
  BY <1>2 DEF TombstoneStep
<1>5. QED
  BY <1>1, <1>3, <1>4 DEF StepKept, FrontendInv
----------------------------------------------------------------------------
(* Guilds *)

LEMMA GuildCreateStep ==
  ASSUME FrontendInv, NEW g \in GuildIds, NEW u \in BOOLEAN, NEW s \in Snapshots,
         GuildCreate(g, u, s)
  PROVE  StepKept
<1>1. TopologyBounded /\ ApplyGuildCreate(g, u, s)
  BY DEF FrontendInv, GuildCreate
<1>2. TopologyBounded'
  BY <1>1, GuildCreateBounded
<1>3. /\ Gained \subseteq Items(s)
      /\ ~u /\ Known(g) /\ Len(s) <= MaxChannelsPerGuild
           => Left \subseteq Items(ChannelsOf(g)) \ Items(s)
  BY <1>1, GuildCreateActive
<1>4. u \/ ~Known(g) \/ Len(s) > MaxChannelsPerGuild => LeftOut
  BY DEF LeftOut
<1>5. CASE u
  <2>1. UNCHANGED timelineVars /\ u = TRUE
    BY <1>5 DEF GuildCreate
  <2>2. \A c \in Gained : Exempt(c)
    BY <2>1 DEF Exempt
  <2>3. QED
    BY <1>2, <1>4, <1>5, <2>1, <2>2, QuietEventStep
<1>6. CASE ~u
  <2> DEFINE gone == RetiredBySnapshot(g, s)
  <2>1. Retopology(gone, Items(s)) /\ u = FALSE
    BY <1>6 DEF GuildCreate
  <2>10. \A c \in Items(gone) : Retires(c)
    BY <2>1 DEF Retires
  <2>2. /\ gone \in Seq(ChannelIds)
        /\ Items(ChannelsOf(g)) \ Items(s) \subseteq Items(gone)
        /\ Items(gone) \cap Items(s) \subseteq ThreadIds
    BY <1>1, RetiredBySnapshotItems
  <2> HIDE DEF gone
  <2>3. s \in Seq(GuildChannelIds) /\ Len(s) \in Nat
    OBVIOUS
  <2>4. Items(s) \subseteq GuildChannelIds
    BY <2>3 DEF Items
  <2>5. IdsAreUnique => Items(gone) \cap Items(s) = {}
    BY <2>2, <2>4 DEF IdsAreUnique
  <2>6. \A c \in Left : c \in Items(gone) \/ LeftOut
    <3>1. CASE Known(g) /\ Len(s) <= MaxChannelsPerGuild
      BY <1>3, <1>6, <2>2, <3>1
    <3>2. CASE ~Known(g) \/ Len(s) > MaxChannelsPerGuild
      BY <1>4, <3>2
    <3>3. QED
      BY <2>3, <3>1, <3>2
  <2>7. \A c \in Items(s) : Announced(c)
    BY <2>1 DEF Announced
  <2>8. \A c \in Gained : c \in Items(s)
    BY <1>3
  <2>9. QED
    BY <1>2, <2>1, <2>2, <2>5, <2>6, <2>7, <2>8, <2>10, TopologyEventStep
<1>7. QED
  BY <1>5, <1>6

LEMMA GuildUpdateStep ==
  ASSUME FrontendInv, NEW g \in GuildIds, NEW u \in Flags, GuildUpdate(g, u)
  PROVE  StepKept
<1>1. TopologyBounded /\ ApplyGuildUpdate(g, u) /\ UNCHANGED timelineVars
  BY DEF FrontendInv, GuildUpdate
<1>2. TopologyBounded' /\ Gained = {} /\ Left = {}
  BY <1>1, GuildUpdateBounded, GuildUpdateActive
<1>3. QED
  BY <1>1, <1>2, QuietEventStep

LEMMA GuildDeleteStep ==
  ASSUME FrontendInv, NEW g \in GuildIds, NEW u \in BOOLEAN, GuildDelete(g, u)
  PROVE  StepKept
<1>1. TopologyBounded /\ ApplyGuildDelete(g, u)
  BY DEF FrontendInv, GuildDelete
<1>2. TopologyBounded'
  BY <1>1, GuildDeleteBounded
<1>3. /\ Gained = {}
      /\ IF u THEN Left = {} ELSE Left \subseteq Items(ChannelsOf(g)) \cup Ids(ThreadsOf(g))
  BY <1>1, GuildDeleteActive
<1>4. CASE u
  <2>1. UNCHANGED timelineVars
    BY <1>4 DEF GuildDelete
  <2>2. QED
    BY <1>2, <1>3, <1>4, <2>1, QuietEventStep
<1>5. CASE ~u
  <2> DEFINE gone == RetiredByGuildDelete(g)
  <2>1. Retopology(gone, {}) /\ u = FALSE
    BY <1>5 DEF GuildDelete
  <2>5. \A c \in Items(gone) : Retires(c)
    BY <2>1 DEF Retires
  <2>2. /\ gone \in Seq(ChannelIds)
        /\ Items(gone) = Items(ChannelsOf(g)) \cup Ids(ThreadsOf(g))
    BY <1>1, RetiredByGuildDeleteItems
  <2> HIDE DEF gone
  <2>3. \A c \in Left : c \in Items(gone)
    BY <1>3, <1>5, <2>2
  <2>4. QED
    BY <1>2, <1>3, <2>1, <2>2, <2>3, <2>5, TopologyEventStep
<1>6. QED
  BY <1>4, <1>5
----------------------------------------------------------------------------
(* Channels, threads and direct messages *)

LEMMA ChannelCreateStep ==
  ASSUME FrontendInv, NEW g \in GuildIds, NEW c \in GuildChannelIds, ChannelCreate(g, c)
  PROVE  StepKept
<1>1. TopologyBounded /\ ApplyChannelChange(g, c) /\ Retopology(<< >>, {c})
  BY DEF FrontendInv, ChannelCreate
<1>2. TopologyBounded' /\ Gained \subseteq {c} /\ Left = {}
  BY <1>1, ChannelChangeBounded, ChannelChangeActive
<1>3. << >> \in Seq(ChannelIds) /\ Items(<< >>) = {} /\ Items(<< >>) \cap {c} = {}
  BY ItemsOfNone
<1>4. \A d \in {c} : Announced(d)
  <2>1. Announced(c)
    BY DEF Announced
  <2>2. QED
    BY <2>1
<1>5. QED
  BY <1>1, <1>2, <1>3, <1>4, TopologyEventStep

LEMMA ChannelUpdateStep ==
  ASSUME FrontendInv, NEW g \in GuildIds, NEW c \in GuildChannelIds, ChannelUpdate(g, c)
  PROVE  StepKept
<1>1. TopologyBounded /\ ApplyChannelChange(g, c) /\ UNCHANGED timelineVars
  BY DEF FrontendInv, ChannelUpdate
<1>2. TopologyBounded' /\ Gained \subseteq {c} /\ Left = {}
  BY <1>1, ChannelChangeBounded, ChannelChangeActive
<1>3. Exempt(c)
  BY DEF Exempt
<1>4. \A d \in Gained : Exempt(d)
  BY <1>2, <1>3
<1>5. QED
  BY <1>1, <1>2, <1>4, QuietEventStep

LEMMA ChannelDeleteStep ==
  ASSUME FrontendInv, NEW g \in GuildIds, NEW c \in GuildChannelIds, ChannelDelete(g, c)
  PROVE  StepKept
<1> DEFINE gone == RetiredByChannelDelete(g, c)
<1>1. TopologyBounded /\ ApplyChannelDelete(g, c) /\ Retopology(gone, {})
  BY DEF FrontendInv, ChannelDelete
<1>2. /\ gone \in Seq(ChannelIds)
      /\ Items(gone) = {c} \cup {t.id : t \in {u \in Items(ThreadsOf(g)) : u.parent = c}}
  BY <1>1, RetiredByChannelDeleteItems
<1>5. \A d \in Items(gone) : Retires(d)
  BY DEF Retires
<1> HIDE DEF gone
<1>3. TopologyBounded'
  BY <1>1, ChannelDeleteBounded
<1>4. Gained = {} /\ Left \subseteq Items(gone)
  BY <1>1, <1>2, ChannelDeleteActive
<1>6. QED
  BY <1>1, <1>2, <1>3, <1>4, <1>5, TopologyEventStep

\* A thread that is active is restored; one that is archived is retired by an
\* update only.
LEMMA ThreadCreateStep ==
  ASSUME FrontendInv, NEW t \in Thread, ThreadCreate(t)
  PROVE  StepKept
<1> DEFINE back == IF t.archived THEN {} ELSE {t.id}
<1>1. TopologyBounded /\ ApplyThreadChange(t) /\ Retopology(<< >>, back)
  BY DEF FrontendInv, ThreadCreate
<1>2. /\ TopologyBounded'
      /\ Gained \subseteq back
      /\ Left \subseteq IF t.archived THEN {t.id} ELSE {}
  BY <1>1, ThreadChangeBounded, ThreadChangeActive
<1>3. << >> \in Seq(ChannelIds) /\ Items(<< >>) = {} /\ Items(<< >>) \cap back = {}
  BY ItemsOfNone
<1>4. \A c \in back : Announced(c)
  BY DEF Announced
<1>5. t.archived => LeftOut
  BY DEF LeftOut
<1>6. \A c \in Left : LeftOut
  BY <1>2, <1>5
<1> HIDE DEF back
<1>7. QED
  BY <1>1, <1>2, <1>3, <1>4, <1>6, TopologyEventStep

LEMMA ThreadUpdateStep ==
  ASSUME FrontendInv, NEW t \in Thread, ThreadUpdate(t)
  PROVE  StepKept
<1>1. TopologyBounded /\ ApplyThreadChange(t) /\ t.id \in ChannelIds
  BY DEF FrontendInv, ThreadUpdate, Thread
<1>2. /\ TopologyBounded'
      /\ Gained \subseteq IF t.archived THEN {} ELSE {t.id}
      /\ Left \subseteq IF t.archived THEN {t.id} ELSE {}
  BY <1>1, ThreadChangeBounded, ThreadChangeActive
<1>3. CASE t.archived
  <2> DEFINE one == <<t.id>>
  <2>1. Retopology(one, {})
    BY <1>3 DEF ThreadUpdate
  <2>2. one \in Seq(ChannelIds) /\ Items(one) = {t.id}
    BY <1>1, ItemsOfOne
  <2>5. \A c \in {t.id} : Retires(c)
    BY <1>3 DEF Retires
  <2> HIDE DEF one
  <2>3. Gained = {} /\ Left \subseteq Items(one)
    BY <1>2, <1>3, <2>2
  <2>4. QED
    BY <1>2, <2>1, <2>2, <2>3, <2>5, TopologyEventStep
<1>4. CASE ~t.archived
  <2>1. Retopology(<< >>, {t.id})
    BY <1>4 DEF ThreadUpdate
  <2>2. << >> \in Seq(ChannelIds) /\ Items(<< >>) = {} /\ Items(<< >>) \cap {t.id} = {}
    BY ItemsOfNone
  <2>3. \A c \in {t.id} : Announced(c)
    BY <1>4 DEF Announced
  <2>4. Gained \subseteq {t.id} /\ Left = {}
    BY <1>2, <1>4
  <2>5. QED
    BY <1>2, <2>1, <2>2, <2>3, <2>4, TopologyEventStep
<1>5. QED
  BY <1>3, <1>4

LEMMA ThreadDeleteStep ==
  ASSUME FrontendInv, NEW g \in GuildIds, NEW id \in ThreadIds, ThreadDelete(g, id)
  PROVE  StepKept
<1> DEFINE one == <<id>>
<1>1. TopologyBounded /\ ApplyThreadDelete(g, id) /\ Retopology(one, {})
  BY DEF FrontendInv, ThreadDelete
<1>2. one \in Seq(ChannelIds) /\ Items(one) = {id}
  BY ItemsOfOne
<1>5. \A c \in {id} : Retires(c)
  <2>1. Retires(id)
    BY DEF Retires
  <2>2. QED
    BY <2>1
<1> HIDE DEF one
<1>3. TopologyBounded' /\ Gained = {} /\ Left \subseteq Items(one)
  BY <1>1, <1>2, ThreadDeleteBounded, ThreadDeleteActive
<1>4. QED
  BY <1>1, <1>2, <1>3, <1>5, TopologyEventStep

LEMMA ThreadListSyncStep ==
  ASSUME FrontendInv, NEW g \in GuildIds, NEW scope \in Scopes, NEW l \in ThreadLists,
         ThreadListSync(g, scope, l)
  PROVE  StepKept
<1> DEFINE gone == RetiredBySync(g, scope, l)
           back == RestoredBySync(g, l)
<1>1. TopologyBounded /\ ApplyThreadListSync(g, scope, l) /\ Retopology(gone, back)
  BY DEF FrontendInv, ThreadListSync
<1>2. gone \in Seq(ChannelIds) /\ Items(gone) \cap back = {}
  BY <1>1, RetiredBySyncItems
<1>3. \A c \in back : Announced(c)
  BY DEF Announced
<1>4. Overfull(g, scope, l) => LeftOut
  BY DEF LeftOut
<1>5. TopologyBounded'
  BY <1>1, ThreadListSyncBounded
<1>6. Gained \subseteq back /\ (~Overfull(g, scope, l) => Left \subseteq Items(gone))
  BY <1>1, SyncActive
<1>9. \A c \in Items(gone) : Retires(c)
  BY DEF Retires
<1> HIDE DEF gone, back
<1>7. \A c \in Left : c \in Items(gone) \/ LeftOut
  BY <1>4, <1>6
<1>8. QED
  BY <1>1, <1>2, <1>3, <1>5, <1>6, <1>7, <1>9, TopologyEventStep

LEMMA DirectStep ==
  ASSUME FrontendInv, NEW c \in DirectIds, DirectOpen(c) \/ DirectDelete(c)
  PROVE  StepKept
<1>1. UNCHANGED topologyVars
  BY DEF DirectOpen, DirectDelete
<1>2. TopologyBounded' /\ Gained = {} /\ Left = {}
  BY <1>1, StutterBounded, UnchangedActive DEF FrontendInv
<1>3. CASE DirectOpen(c)
  <2>1. Retopology(<< >>, {c})
    BY <1>3 DEF DirectOpen
  <2>2. << >> \in Seq(ChannelIds) /\ Items(<< >>) = {} /\ Items(<< >>) \cap {c} = {}
    BY ItemsOfNone
  <2>3. \A d \in {c} : Announced(d)
    BY <1>3 DEF Announced
  <2>4. QED
    BY <1>2, <2>1, <2>2, <2>3, TopologyEventStep
<1>4. CASE DirectDelete(c)
  <2> DEFINE one == <<c>>
  <2>1. Retopology(one, {})
    BY <1>4 DEF DirectDelete
  <2>2. one \in Seq(ChannelIds) /\ Items(one) = {c}
    BY ItemsOfOne
  <2>4. \A d \in {c} : Retires(d)
    BY <1>4 DEF Retires
  <2> HIDE DEF one
  <2>3. QED
    BY <1>2, <2>1, <2>2, <2>4, TopologyEventStep
<1>5. QED
  BY <1>3, <1>4
----------------------------------------------------------------------------
(* Messages and the answers of REST *)

LEMMA TombstonesUntouched ==
  ASSUME NEW c, NEW m, NEW id, NEW content, NEW page,
         \/ ApplyMessage(c, m) \/ ApplyUpdate(c, id, content) \/ ApplyDelete(c, id)
         \/ ApplyHistory(c, page)
  PROVE  UNCHANGED retired
BY DEF ApplyMessage, ApplyUpdate, ApplyDelete, ApplyHistory, timelineVars

LEMMA MessageStepKept ==
  ASSUME FrontendInv, NEW c \in ChannelIds, NEW m \in Message, OnTimelines(ApplyMessage(c, m))
  PROVE  StepKept
<1>1. Inv /\ ApplyMessage(c, m) /\ UNCHANGED topologyVars
  BY DEF FrontendInv, OnTimelines
<1>2. Inv'
  BY <1>1, MessageInv
<1>3. UNCHANGED retired
  BY <1>1, TombstonesUntouched
<1>4. QED
  BY <1>1, <1>2, <1>3, TimelineStep

LEMMA UpdateStepKept ==
  ASSUME FrontendInv, NEW c \in ChannelIds, NEW id \in MsgIds,
         NEW content \in Bodies \cup {Unchanged}, OnTimelines(ApplyUpdate(c, id, content))
  PROVE  StepKept
<1>1. Inv /\ ApplyUpdate(c, id, content) /\ UNCHANGED topologyVars
  BY DEF FrontendInv, OnTimelines
<1>2. Inv'
  BY <1>1, UpdateInv
<1>3. UNCHANGED retired
  BY <1>1, TombstonesUntouched
<1>4. QED
  BY <1>1, <1>2, <1>3, TimelineStep

LEMMA DeleteStepKept ==
  ASSUME FrontendInv, NEW c \in ChannelIds, NEW id \in MsgIds, OnTimelines(ApplyDelete(c, id))
  PROVE  StepKept
<1>1. Inv /\ ApplyDelete(c, id) /\ UNCHANGED topologyVars
  BY DEF FrontendInv, OnTimelines
<1>2. Inv'
  BY <1>1, DeleteInv
<1>3. UNCHANGED retired
  BY <1>1, TombstonesUntouched
<1>4. QED
  BY <1>1, <1>2, <1>3, TimelineStep

LEMMA HistoryStepKept ==
  ASSUME FrontendInv, NEW c \in ChannelIds, NEW page \in Pages, OnTimelines(ApplyHistory(c, page))
  PROVE  StepKept
<1>1. Inv /\ ApplyHistory(c, page) /\ UNCHANGED topologyVars
  BY DEF FrontendInv, OnTimelines
<1>2. page \in Seq(PageMessage)
  BY InputsAssumption
<1>3. Inv'
  BY <1>1, <1>2, HistoryInv
<1>4. UNCHANGED retired
  BY <1>1, TombstonesUntouched
<1>5. QED
  BY <1>1, <1>3, <1>4, TimelineStep

LEMMA MessageEventStep ==
  ASSUME FrontendInv, MessageEvent
  PROVE  StepKept
<1>1. ASSUME NEW c \in ChannelIds, NEW m \in Message, MessageCreated(c, m)
      PROVE  StepKept
  BY <1>1, MessageStepKept DEF MessageCreated
<1>2. ASSUME NEW c \in ChannelIds, NEW id \in MsgIds, NEW content \in Bodies \cup {Unchanged},
             MessageUpdated(c, id, content)
      PROVE  StepKept
  BY <1>2, UpdateStepKept DEF MessageUpdated
<1>3. ASSUME NEW c \in ChannelIds, NEW id \in MsgIds, MessageDeleted(c, id)
      PROVE  StepKept
  BY <1>3, DeleteStepKept DEF MessageDeleted
<1>4. QED
  BY <1>1, <1>2, <1>3 DEF MessageEvent

LEMMA RestEventStep ==
  ASSUME FrontendInv, RestEvent
  PROVE  StepKept
<1>1. ASSUME NEW c \in ChannelIds, NEW m \in Message, NEW a \in BOOLEAN, RestSent(c, m, a)
      PROVE  StepKept
  BY <1>1, MessageStepKept DEF RestSent
<1>2. ASSUME NEW c \in ChannelIds, NEW m \in Message, NEW a \in BOOLEAN, RestEdited(c, m, a)
      PROVE  StepKept
  <2>1. m.id \in MsgIds /\ m.body \in Bodies \cup {Unchanged}
    BY DEF Message
  <2>2. CASE a
    <3>1. OnTimelines(ApplyMessage(c, m))
      BY <1>2, <2>2 DEF RestEdited
    <3>2. QED
      BY <3>1, MessageStepKept
  <2>3. CASE ~a
    <3>1. OnTimelines(ApplyUpdate(c, m.id, m.body))
      BY <1>2, <2>3 DEF RestEdited
    <3>2. QED
      BY <2>1, <3>1, UpdateStepKept
  <2>4. QED
    BY <2>2, <2>3
<1>3. ASSUME NEW c \in ChannelIds, NEW id \in MsgIds, RestDeleted(c, id)
      PROVE  StepKept
  BY <1>3, DeleteStepKept DEF RestDeleted
<1>4. ASSUME NEW c \in ChannelIds, NEW page \in Pages, RestFetched(c, page)
      PROVE  StepKept
  BY <1>4, HistoryStepKept DEF RestFetched
<1>5. QED
  BY <1>1, <1>2, <1>3, <1>4 DEF RestEvent
----------------------------------------------------------------------------
LEMMA FrontendStep ==
  ASSUME FrontendInv, [Next]_vars
  PROVE  FrontendInv' /\ (StepKept \/ UNCHANGED vars)
<1>1. CASE GatewayUp
  <2>1. UNCHANGED topologyVars /\ UNCHANGED timelineVars
    BY <1>1 DEF GatewayUp
  <2>2. Inv' /\ UNCHANGED retired
    BY <2>1, StutterInv DEF FrontendInv, timelineVars
  <2>3. StepKept
    BY <2>1, <2>2, TimelineStep
  <2>4. QED
    BY <2>3 DEF StepKept
<1>2. CASE GuildEvent
  BY <1>2, GuildCreateStep, GuildUpdateStep, GuildDeleteStep DEF GuildEvent, StepKept
<1>3. CASE ChannelEvent
  BY <1>3, ChannelCreateStep, ChannelUpdateStep, ChannelDeleteStep DEF ChannelEvent, StepKept
<1>4. CASE ThreadEvent
  BY <1>4, ThreadCreateStep, ThreadUpdateStep, ThreadDeleteStep, ThreadListSyncStep
     DEF ThreadEvent, StepKept
<1>5. CASE DirectEvent
  BY <1>5, DirectStep DEF DirectEvent, StepKept
<1>6. CASE MessageEvent
  BY <1>6, MessageEventStep DEF StepKept
<1>7. CASE RestEvent
  BY <1>7, RestEventStep DEF StepKept
<1>8. CASE UNCHANGED vars
  <2>1. UNCHANGED topologyVars /\ UNCHANGED timelineVars
    BY <1>8 DEF vars
  <2>2. QED
    BY <1>8, <2>1, StutterInv, StutterBounded DEF FrontendInv
<1>9. QED
  BY <1>1, <1>2, <1>3, <1>4, <1>5, <1>6, <1>7, <1>8 DEF Next

LEMMA FrontendStart == Init => FrontendInv
BY InitInv, InitBounded DEF Init, FrontendInv

\* Both caches keep all their invariants when one event changes both: the ids an
\* event retires are ids of channels, read from a topology within its bounds
\* (FrontendState::apply and apply_rest).
THEOREM FrontendInvAlways == Spec => []FrontendInv
<1>1. FrontendInv /\ [Next]_vars => FrontendInv'
  BY FrontendStep
<1>2. QED
  BY FrontendStart, <1>1, PTL DEF Spec

\* In the composition, too, a retired channel never has a timeline and no bound of
\* either cache is exceeded.
THEOREM FrontendBoundedAlways ==
  Spec => [](RetiredHaveNoTimeline /\ CacheBounded /\ IdsUnique /\ TopologyBounded)
<1>1. FrontendInv => RetiredHaveNoTimeline /\ CacheBounded /\ IdsUnique /\ TopologyBounded
  BY DEF FrontendInv, Inv, CacheBounded
<1>2. QED
  BY <1>1, FrontendInvAlways, PTL

\* Navigation never gains a channel or thread whose messages would be ignored, but
\* by CHANNEL_UPDATE or the snapshot of an unavailable guild
\* (restore_topology_timelines after topology.apply).
THEOREM ActivationAlways == Spec => ActivationRestoresButForUpdates
<1> DEFINE Step == \A c \in ActiveIds' \ ActiveIds :
                     c \in Items(retired') =>
                       \E g \in GuildIds : \/ ChannelUpdate(g, c)
                                           \/ \E s \in Snapshots : GuildCreate(g, TRUE, s)
<1>1. FrontendInv /\ [Next]_vars => [Step]_vars
  BY FrontendStep DEF StepKept, ActivationStep, Exempt
<1>2. Spec => [][Step]_vars
  BY <1>1, FrontendInvAlways, PTL DEF Spec
<1>3. QED
  BY <1>2 DEF ActivationRestoresButForUpdates

\* What leaves the navigation loses its timeline in the same step, but for what
\* the limits leave out, an unavailable guild's snapshot or an archived
\* THREAD_CREATE takes away (invalidate_topology_timelines before topology.apply).
THEOREM RemovalAlways == Spec => RemovalPurgesTimelines
<1> DEFINE Step == \A c \in ActiveIds \ ActiveIds' :
       c \in DOMAIN channels' =>
         \/ \E g \in GuildIds, u \in BOOLEAN, s \in Snapshots :
              /\ u \/ ~Known(g) \/ Len(s) > MaxChannelsPerGuild
              /\ GuildCreate(g, u, s)
         \/ \E g \in GuildIds, scope \in Scopes, l \in ThreadLists :
              Overfull(g, scope, l) /\ ThreadListSync(g, scope, l)
         \/ \E t \in Thread : t.archived /\ ThreadCreate(t)
<1>1. FrontendInv /\ [Next]_vars => [Step]_vars
  BY FrontendStep DEF StepKept, RemovalStep, LeftOut
<1>2. Spec => [][Step]_vars
  BY <1>1, FrontendInvAlways, PTL DEF Spec
<1>3. QED
  BY <1>2 DEF RemovalPurgesTimelines

\* A tombstone goes only when its channel is announced again or the FIFO is full
\* and the older ones go too, given that no channel and thread share an id: a snapshot retires the threads of
\* the channels it leaves out and restores the channels it lists, and were one id
\* both, it would lose a tombstone that was pushed out for nothing.
THEOREM TombstonesAlways ==
  ASSUME GuildChannelIds \cap ThreadIds = {}
  PROVE  Spec => TombstonesHold
<1> DEFINE Step == \A c \in Items(retired) \ Items(retired') :
       \/ Announced(c)
       \/ /\ Cardinality(Items(retired) \cup Items(retired')) > MaxRetired
          /\ \A d \in Items(retired') : Older(d, c) => Retires(d)
<1>1. FrontendInv /\ [Next]_vars => [Step]_vars
  BY FrontendStep DEF StepKept, TombstoneStep, IdsAreUnique
<1>2. Spec => [][Step]_vars
  BY <1>1, FrontendInvAlways, PTL DEF Spec
<1>3. QED
  BY <1>2 DEF TombstonesHold
=============================================================================
