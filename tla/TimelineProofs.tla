--------------------------- MODULE TimelineProofs ---------------------------
(***************************************************************************)
(* The message cache is correct for every number of channels, messages and *)
(* tombstones.  The inductive invariant Inv is the conjunction of the type *)
(* invariant and of the properties that the runs check; the handlers are   *)
(* shown to preserve it one by one, so that FrontendState, which composes  *)
(* them, can cite the same lemmas.                                         *)
(***************************************************************************)
EXTENDS Timelines, VectorProofs

USE TimelinesAssumption

\* The constants that the proofs use.
LEMMA MaxRetiredPositive == MaxRetired \in Nat \ {0}
  BY DEF MaxRetired
-----------------------------------------------------------------------------
(* Tombstones *)

\* A FIFO of tombstones as the struct keeps it.
Fifo(r) == r \in Seq(ChannelIds) /\ Len(r) <= MaxRetired /\ Distinct(r)

LEMMA PushBoundedProperties ==
  ASSUME NEW T, NEW s \in Seq(T), NEW e \in T, NEW cap \in Nat \ {0}, Len(s) <= cap
  PROVE  /\ PushBounded(s, e, cap) \in Seq(T)
         /\ Len(PushBounded(s, e, cap)) <= cap
         /\ Items(PushBounded(s, e, cap)) \subseteq Items(s) \cup {e}
         /\ Distinct(s) /\ e \notin Items(s) => Distinct(PushBounded(s, e, cap))
<1>1. CASE Len(s) >= cap
  <2>1. s # << >> /\ PushBounded(s, e, cap) = Append(Tail(s), e)
    BY <1>1 DEF PushBounded
  <2>2. /\ Tail(s) \in Seq(T)
        /\ Len(Tail(s)) = Len(s) - 1
        /\ Items(Tail(s)) \subseteq Items(s)
        /\ Distinct(s) => Distinct(Tail(s))
    BY <2>1, TailItems
  <2>3. /\ Append(Tail(s), e) \in Seq(T)
        /\ Len(Append(Tail(s), e)) = Len(Tail(s)) + 1
        /\ Items(Append(Tail(s), e)) = Items(Tail(s)) \cup {e}
        /\ Distinct(Tail(s)) /\ e \notin Items(Tail(s)) => Distinct(Append(Tail(s), e))
    BY <2>2, AppendItems
  <2>4. QED
    BY <2>1, <2>2, <2>3
<1>2. CASE ~(Len(s) >= cap)
  <2>1. PushBounded(s, e, cap) = Append(s, e)
    BY <1>2 DEF PushBounded
  <2>2. QED
    BY <1>2, <2>1, AppendItems
<1>3. QED
  BY <1>1, <1>2

LEMMA RetireOneProperties ==
  ASSUME NEW r, Fifo(r), NEW c \in ChannelIds
  PROVE  /\ Fifo(RetireOne(r, c))
         /\ Items(RetireOne(r, c)) \subseteq Items(r) \cup {c}
         /\ Len(RetireOne(r, c)) >= Len(r)
         /\ Items(r) \subseteq Items(RetireOne(r, c)) \/ Len(r) = MaxRetired
<1>1. CASE c \in Items(r)
  <2>1. RetireOne(r, c) = r /\ Len(r) \in Nat
    BY <1>1 DEF RetireOne, Fifo
  <2>2. QED
    BY <2>1
<1>2. CASE c \notin Items(r)
  <2>1. RetireOne(r, c) = PushBounded(r, c, MaxRetired)
    BY <1>2 DEF RetireOne
  <2>2. Fifo(RetireOne(r, c)) /\ Items(RetireOne(r, c)) \subseteq Items(r) \cup {c}
    BY <1>2, <2>1, MaxRetiredPositive, PushBoundedProperties DEF Fifo
  <2>3. r \in Seq(ChannelIds) /\ Len(r) \in Nat /\ Len(r) <= MaxRetired /\ MaxRetired \in Nat \ {0}
    BY MaxRetiredPositive DEF Fifo
  <2>4. CASE Len(r) = MaxRetired
    <3>1. RetireOne(r, c) = Append(Tail(r), c) /\ r # << >>
      BY <2>1, <2>3, <2>4 DEF PushBounded
    <3>2. Len(RetireOne(r, c)) = Len(r)
      BY <2>3, <3>1
    <3>3. QED
      BY <2>2, <2>3, <2>4, <3>2
  <2>5. CASE Len(r) < MaxRetired
    <3>1. RetireOne(r, c) = Append(r, c)
      BY <2>1, <2>3, <2>5 DEF PushBounded
    <3>2. Len(RetireOne(r, c)) = Len(r) + 1 /\ Items(RetireOne(r, c)) = Items(r) \cup {c}
      BY <2>3, <3>1, AppendItems
    <3>3. QED
      BY <2>2, <2>3, <3>2
  <2>6. QED
    BY <2>3, <2>4, <2>5
<1>3. QED
  BY <1>1, <1>2

\* In the FIFO q, d has its place before e.
Precedes(q, d, e) == \E i, j \in DOMAIN q : i < j /\ q[i] = d /\ q[j] = e

\* A FIFO that only loses its first and gains at its end keeps the order of what
\* stays: of two ids the older one does not outlast the younger.
LEMMA TailKeepsOrder ==
  ASSUME NEW T, NEW q \in Seq(T), q # << >>, Distinct(q), NEW c \in T, NEW d, NEW e,
         c # d, d \in Items(Append(Tail(q), c)), Precedes(q, d, e)
  PROVE  Precedes(Append(Tail(q), c), d, e)
<1> DEFINE p == Append(Tail(q), c)
           n == Len(q)
<1>1. /\ n \in Nat \ {0} /\ DOMAIN q = 1..n /\ DOMAIN p = 1..n
      /\ \A i \in 1..n-1 : p[i] = q[i+1]
      /\ p[n] = c
  OBVIOUS
<1> HIDE DEF p, n
<1>2. PICK i, j \in 1..n : i < j /\ q[i] = d /\ q[j] = e
  BY <1>1 DEF Precedes
<1>3. PICK k \in 1..n : p[k] = d
  BY <1>1 DEF Items, p
<1>4. k \in 1..n-1 /\ k+1 \in 1..n /\ q[k+1] = d
  BY <1>1, <1>3
<1>5. i = k+1
  BY <1>1, <1>2, <1>4 DEF Distinct
<1>6. k \in 1..n /\ j-1 \in 1..n-1 /\ k < j-1 /\ (j-1)+1 = j
  BY <1>1, <1>2, <1>4, <1>5
<1>7. p[j-1] = e
  BY <1>1, <1>2, <1>6
<1>8. j-1 \in 1..n
  BY <1>1, <1>6
<1>9. Precedes(p, d, e)
  BY <1>1, <1>3, <1>6, <1>7, <1>8 DEF Precedes
<1>10. QED
  BY <1>9 DEF p

LEMMA AppendKeepsOrder ==
  ASSUME NEW T, NEW q \in Seq(T), NEW c \in T, NEW d, NEW e, Precedes(q, d, e)
  PROVE  Precedes(Append(q, c), d, e)
<1> DEFINE p == Append(q, c)
           n == Len(q)
<1>1. n \in Nat /\ DOMAIN q = 1..n /\ DOMAIN p = 1..n+1 /\ \A i \in 1..n : p[i] = q[i]
  OBVIOUS
<1> HIDE DEF p, n
<1>2. PICK i, j \in 1..n : i < j /\ q[i] = d /\ q[j] = e
  BY <1>1 DEF Precedes
<1>3. i \in 1..n+1 /\ j \in 1..n+1 /\ p[i] = d /\ p[j] = e
  BY <1>1, <1>2
<1>4. Precedes(p, d, e)
  BY <1>1, <1>2, <1>3 DEF Precedes
<1>5. QED
  BY <1>4 DEF p

LEMMA RetireOneOrder ==
  ASSUME NEW q, Fifo(q), NEW c \in ChannelIds, NEW d, NEW e, c # d,
         d \in Items(q) => Precedes(q, d, e)
  PROVE  d \in Items(RetireOne(q, c)) => Precedes(RetireOne(q, c), d, e)
<1>1. CASE c \in Items(q)
  BY <1>1 DEF RetireOne
<1>2. CASE c \notin Items(q)
  <2>1. q \in Seq(ChannelIds) /\ Distinct(q) /\ RetireOne(q, c) = PushBounded(q, c, MaxRetired)
    BY <1>2 DEF RetireOne, Fifo
  <2>2. SUFFICES ASSUME d \in Items(RetireOne(q, c))
                 PROVE  Precedes(RetireOne(q, c), d, e)
    OBVIOUS
  <2>3. d \in Items(q)
    <3>1. Items(RetireOne(q, c)) \subseteq Items(q) \cup {c}
      BY RetireOneProperties
    <3>2. QED
      BY <2>2, <3>1
  <2>4. CASE Len(q) >= MaxRetired
    <3>1. q # << >>
      BY <2>1, <2>4, MaxRetiredPositive
    <3>2. RetireOne(q, c) = Append(Tail(q), c)
      BY <2>1, <2>4 DEF PushBounded
    <3>3. d \in Items(Append(Tail(q), c))
      BY <2>2, <3>2
    <3>4. Precedes(Append(Tail(q), c), d, e)
      BY <2>1, <2>3, <3>1, <3>3, TailKeepsOrder
    <3>5. QED
      BY <3>2, <3>4
  <2>5. CASE ~(Len(q) >= MaxRetired)
    <3>1. RetireOne(q, c) = Append(q, c)
      BY <2>1, <2>5 DEF PushBounded
    <3>2. Precedes(Append(q, c), d, e)
      BY <2>1, <2>3, AppendKeepsOrder
    <3>3. QED
      BY <3>1, <3>2
  <2>6. QED
    BY <2>4, <2>5
<1>3. QED
  BY <1>1, <1>2

\* Of two tombstones of r the older one is in q only before the younger, unless
\* one of ids is the older one.
KeepsOrder(q, r, ids) ==
  \A d, e \in Items(r) :
    d \notin ids /\ Precedes(r, d, e) /\ d \in Items(q) => Precedes(q, d, e)

LEMMA OrderIsKept ==
  ASSUME NEW r, NEW ids, NEW q, Fifo(q), KeepsOrder(q, r, ids), NEW c \in ChannelIds, c \in ids
  PROVE  KeepsOrder(RetireOne(q, c), r, ids)
<1>1. SUFFICES ASSUME NEW d \in Items(r), NEW e \in Items(r), d \notin ids, Precedes(r, d, e)
               PROVE  d \in Items(RetireOne(q, c)) => Precedes(RetireOne(q, c), d, e)
  BY DEF KeepsOrder
<1>2. d \in Items(q) => Precedes(q, d, e)
  BY <1>1 DEF KeepsOrder
<1>3. c # d
  BY <1>1
<1>4. QED
  BY <1>2, <1>3, RetireOneOrder

\* The recursion that defines RetireAll.
IsRetiring(f, r, ids) ==
  f = [i \in 0..Len(ids) |-> IF i = 0 THEN r ELSE RetireOne(f[i-1], ids[i])]

\* Retiring the ids of an event keeps the FIFO within its bound and without
\* repetitions, adds no id the event does not retire, loses one only when the
\* FIFO is full, and loses the oldest first.
LEMMA RetireAllProperties ==
  ASSUME NEW r, Fifo(r), NEW ids \in Seq(ChannelIds)
  PROVE  /\ Fifo(RetireAll(r, ids))
         /\ Items(RetireAll(r, ids)) \subseteq Items(r) \cup Items(ids)
         /\ Items(r) \subseteq Items(RetireAll(r, ids)) \/ Len(RetireAll(r, ids)) = MaxRetired
         /\ KeepsOrder(RetireAll(r, ids), r, Items(ids))
<1> DEFINE V == {q \in Seq(ChannelIds) :
                  /\ Fifo(q) /\ Items(q) \subseteq Items(r) \cup Items(ids)
                  /\ Items(r) \subseteq Items(q) \/ Len(q) = MaxRetired
                  /\ KeepsOrder(q, r, Items(ids))}
           n == Len(ids)
           step == [p \in V \X (1..n) |-> RetireOne(p[1], ids[p[2]])]
<1>1. n \in Nat /\ DOMAIN ids = 1..n
  OBVIOUS
<1>2. r \in V
  BY DEF Fifo, KeepsOrder
<1>3. ASSUME NEW q \in V, NEW i \in 1..n
      PROVE  RetireOne(q, ids[i]) \in V
  <2>1. ids[i] \in ChannelIds /\ ids[i] \in Items(ids)
    BY <1>1 DEF Items
  <2> DEFINE p == RetireOne(q, ids[i])
  <2>2. /\ Fifo(p) /\ Items(p) \subseteq Items(q) \cup {ids[i]}
        /\ Len(p) >= Len(q)
        /\ Items(q) \subseteq Items(p) \/ Len(q) = MaxRetired
    BY <2>1, RetireOneProperties
  <2> HIDE DEF p
  <2>3. Len(p) \in Nat /\ Len(p) <= MaxRetired /\ MaxRetired \in Nat
    BY <2>2, MaxRetiredPositive DEF Fifo
  <2>4. Len(q) = MaxRetired => Len(p) = MaxRetired
    BY <2>2, <2>3
  <2>5. Items(r) \subseteq Items(p) \/ Len(p) = MaxRetired
    BY <2>2, <2>4
  <2>6. KeepsOrder(p, r, Items(ids))
    BY <2>1, OrderIsKept DEF p
  <2>7. p \in V
    BY <2>1, <2>2, <2>5, <2>6 DEF Fifo
  <2>8. QED
    BY <2>7 DEF p
<1> HIDE DEF V
<1>4. step \in [V \X (1..n) -> V]
  BY <1>3
<1> HIDE DEF step
<1>5. PICK f \in [0..n -> V] : Solves(f, r, step, n)
  BY <1>1, <1>2, <1>4, RecursionSolved
<1>6. ASSUME NEW i \in 0..n, i # 0
      PROVE  step[<<f[i-1], i>>] = RetireOne(f[i-1], ids[i])
  <2>1. <<f[i-1], i>> \in V \X (1..n)
    BY <1>1, <1>6
  <2>2. QED
    BY <2>1 DEF step
<1>7. IsRetiring(f, r, ids)
  BY <1>5, <1>6 DEF Solves, IsRetiring
<1> DEFINE h == CHOOSE g : IsRetiring(g, r, ids)
<1>8. IsRetiring(h, r, ids) /\ RetireAll(r, ids) = h[n]
  BY <1>7 DEF RetireAll, IsRetiring
<1> HIDE DEF h, n
<1> DEFINE S == {i \in 0..n : h[i] \in V}
<1>9. 0 \in S
  BY <1>1, <1>2, <1>8 DEF IsRetiring, n
<1>10. ASSUME NEW i \in 0..n, i < n, i \in S
       PROVE  i+1 \in S
  <2>1. i+1 \in 0..n /\ i+1 # 0 /\ (i+1)-1 = i /\ i+1 \in 1..n
    BY <1>1, <1>10
  <2>2. h[i+1] = RetireOne(h[(i+1)-1], ids[i+1])
    BY <1>8, <2>1 DEF IsRetiring, n
  <2>3. QED
    BY <1>3, <1>10, <2>1, <2>2 DEF n
<1> HIDE DEF S
<1>11. n \in S
  <2>1. 0..n \subseteq S
    BY <1>1, <1>9, <1>10, UpTo
  <2>2. QED
    BY <1>1, <2>1
<1>12. QED
  BY <1>8, <1>11 DEF S, V
-----------------------------------------------------------------------------
(* Timelines *)

\* The messages of a timeline as the struct keeps them.
Log(s) == s \in Seq(Message) /\ Len(s) <= MaxMessages /\ DistinctIds(s)

LEMMA LastIndexExists ==
  ASSUME NEW s \in Seq(Message), DistinctIds(s), NEW id, HasId(s, id)
  PROVE  LastIndexOf(s, id) \in DOMAIN s /\ s[LastIndexOf(s, id)].id = id
<1>1. PICK i \in DOMAIN s : s[i].id = id
  BY DEF HasId
<1>2. \A j \in DOMAIN s : s[j].id = id => j = i
  BY <1>1 DEF DistinctIds
<1>3. i <= i
  OBVIOUS
<1>4. s[i].id = id /\ \A j \in DOMAIN s : s[j].id = id => j <= i
  BY <1>1, <1>2, <1>3
<1>5. QED
  BY <1>4 DEF LastIndexOf

\* Replacing a message by one with its id.
LEMMA ReplaceKeepsLog ==
  ASSUME NEW s, Log(s), NEW i \in DOMAIN s, NEW m \in Message, m.id = s[i].id
  PROVE  Log([s EXCEPT ![i] = m])
<1> DEFINE t == [s EXCEPT ![i] = m]
<1>1. t \in Seq(Message) /\ Len(t) = Len(s) /\ DOMAIN t = DOMAIN s
  BY DEF Log
<1>2. \A j \in DOMAIN s : t[j].id = s[j].id
  BY <1>1
<1>3. DistinctIds(t)
  BY <1>1, <1>2 DEF Log, DistinctIds
<1>4. QED
  BY <1>1, <1>3 DEF Log

LEMMA PushKeepsLog ==
  ASSUME NEW s, Log(s), NEW m \in Message, ~HasId(s, m.id)
  PROVE  Log(PushBounded(s, m, MaxMessages))
<1>1. s \in Seq(Message) /\ Len(s) <= MaxMessages /\ DOMAIN s = 1..Len(s) /\ Len(s) \in Nat
  BY DEF Log
<1>2. CASE Len(s) >= MaxMessages
  <2> DEFINE t == Append(Tail(s), m)
  <2>1. PushBounded(s, m, MaxMessages) = t /\ s # << >>
    BY <1>1, <1>2 DEF PushBounded
  <2>2. /\ t \in Seq(Message) /\ Len(t) = Len(s) /\ DOMAIN t = 1..Len(s)
        /\ \A i \in 1..Len(s)-1 : t[i] = s[i+1]
        /\ t[Len(s)] = m
    BY <1>1, <2>1
  <2>3. DistinctIds(t)
    BY <1>1, <2>2 DEF Log, DistinctIds, HasId
  <2>4. QED
    BY <1>1, <2>1, <2>2, <2>3 DEF Log
<1>3. CASE ~(Len(s) >= MaxMessages)
  <2> DEFINE t == Append(s, m)
  <2>1. PushBounded(s, m, MaxMessages) = t
    BY <1>1, <1>3 DEF PushBounded
  <2>2. /\ t \in Seq(Message) /\ Len(t) = Len(s) + 1 /\ DOMAIN t = 1..Len(s)+1
        /\ \A i \in 1..Len(s) : t[i] = s[i]
        /\ t[Len(s)+1] = m
    BY <1>1
  <2>3. DistinctIds(t)
    BY <1>1, <2>2 DEF Log, DistinctIds, HasId
  <2>4. QED
    BY <1>1, <1>3, <2>1, <2>2, <2>3 DEF Log
<1>4. QED
  BY <1>2, <1>3

LEMMA UpsertKeepsLog ==
  ASSUME NEW s, Log(s), NEW m \in Message
  PROVE  Log(Upsert(s, m))
<1>1. CASE HasId(s, m.id)
  BY <1>1, LastIndexExists, ReplaceKeepsLog DEF Upsert, Log
<1>2. CASE ~HasId(s, m.id)
  BY <1>2, PushKeepsLog DEF Upsert
<1>3. QED
  BY <1>1, <1>2

\* Messages with different ids are different, so Retain keeps the ids apart.
LEMMA RetainKeepsLog ==
  ASSUME NEW s, Log(s), NEW keep
  PROVE  Log(Retain(s, keep))
<1> DEFINE t == Retain(s, keep)
<1>1. s \in Seq(Message) /\ Distinct(s)
  BY DEF Log, DistinctIds, Distinct
<1>2. /\ t \in Seq(Message)
      /\ Items(t) = Items(s) \cap keep
      /\ Len(t) <= Len(s)
      /\ Distinct(t)
  BY <1>1, RetainProperties
<1> HIDE DEF t
<1>3. ASSUME NEW i \in DOMAIN t, NEW j \in DOMAIN t, t[i].id = t[j].id
      PROVE  i = j
  <2>1. t[i] \in Items(s) /\ t[j] \in Items(s)
    BY <1>2 DEF Items
  <2>2. t[i] = t[j]
    BY <1>3, <2>1 DEF Items, Log, DistinctIds
  <2>3. QED
    BY <1>2, <2>2 DEF Distinct
<1>4. Len(t) <= MaxMessages
  BY <1>1, <1>2 DEF Log
<1>5. QED
  BY <1>2, <1>3, <1>4 DEF Log, DistinctIds, t

\* One message more, at its place.
Inserted(longer, s, at, e) ==
  /\ longer \in Seq(Message)
  /\ Len(longer) = Len(s) + 1
  /\ DOMAIN longer = 1..Len(s)+1
  /\ \A j \in 1..Len(s)+1 :
       longer[j] = IF j < at THEN s[j] ELSE IF j = at THEN e ELSE s[j-1]

\* A message that is not cached goes before the first that is younger, and pushes
\* out the first of all when there is no room.
LEMMA HistoryInsertion ==
  ASSUME NEW s, Log(s), NEW m \in PageMessage, m.authored, ~HasId(s, m.id)
  PROVE  \E at \in 1..Len(s)+1, e \in Message, longer \in Seq(Message) :
           /\ e = [id |-> m.id, body |-> m.body] /\ e.id = m.id
           /\ \A i \in 1..Len(s) : i < at => ~(m.id < s[i].id)
           /\ at <= Len(s) => m.id < s[at].id
           /\ Inserted(longer, s, at, e)
           /\ InsertHistory(s, m) = IF Len(longer) > MaxMessages THEN Tail(longer) ELSE longer
<1> DEFINE n == Len(s)
           younger == {i \in DOMAIN s : m.id < s[i].id}
           at == IF younger = {} THEN n + 1
                 ELSE CHOOSE i \in younger : \A j \in younger : i <= j
           e == [id |-> m.id, body |-> m.body]
           longer == InsertAt(s, at, e)
<1>1. s \in Seq(Message) /\ n \in Nat /\ n <= MaxMessages /\ DOMAIN s = 1..n
  BY DEF Log
<1>2. /\ at \in 1..n+1
      /\ \A i \in 1..n : i < at => ~(m.id < s[i].id)
      /\ at <= n => m.id < s[at].id
  <2>1. CASE younger = {}
    <3>1. at = n + 1
      BY <2>1
    <3>2. \A i \in 1..n : ~(m.id < s[i].id)
      BY <1>1, <2>1
    <3> HIDE DEF at
    <3>3. at \in 1..n+1 /\ ~(at <= n)
      BY <1>1, <3>1
    <3>4. QED
      BY <3>2, <3>3
  <2>2. CASE younger # {}
    <3>1. younger \in SUBSET Nat
      BY <1>1
    <3>2. \E i \in younger : \A j \in younger : i <= j
      BY <2>2, <3>1, LeastNatural
    <3>3. at \in younger /\ \A j \in younger : at <= j
      BY <2>2, <3>2
    <3> HIDE DEF at
    <3>4. at \in 1..n /\ m.id < s[at].id
      BY <1>1, <3>3
    <3>5. \A i \in 1..n : i < at => i \notin younger
      BY <3>3, <3>4
    <3>6. \A i \in 1..n : i < at => ~(m.id < s[i].id)
      BY <1>1, <3>5
    <3>7. at \in 1..n+1
      BY <1>1, <3>4
    <3>8. QED
      BY <3>4, <3>6, <3>7
  <2>3. QED
    BY <2>1, <2>2
<1>3. e \in Message /\ e.id = m.id
  BY DEF PageMessage, Message
<1>4. InsertHistory(s, m) = IF Len(longer) > MaxMessages THEN Tail(longer) ELSE longer
  BY DEF InsertHistory
<1> HIDE DEF at
<1>5. Inserted(longer, s, at, e)
  <2> HIDE DEF e
  <2>1. longer = [j \in 1..n+1 |-> IF j < at THEN s[j] ELSE IF j = at THEN e ELSE s[j-1]]
    BY DEF InsertAt
  <2>2. \A j \in 1..n+1 : (IF j < at THEN s[j] ELSE IF j = at THEN e ELSE s[j-1]) \in Message
    <3>1. \A j \in 1..n : s[j] \in Message
      BY <1>1
    <3>2. \A j \in 1..n+1 : (j < at => j \in 1..n) /\ (j > at => j-1 \in 1..n)
      BY <1>1, <1>2
    <3>3. \A j \in 1..n+1 : ~(j < at) /\ j # at => j > at
      BY <1>1, <1>2
    <3>4. QED
      BY <1>3, <3>1, <3>2, <3>3
  <2>3. longer \in [1..n+1 -> Message]
    BY <2>1, <2>2
  <2>4. longer \in Seq(Message) /\ Len(longer) = n + 1 /\ DOMAIN longer = 1..n+1
    BY <1>1, <2>1, <2>3, IsASeq
  <2>5. QED
    BY <2>1, <2>4 DEF Inserted
<1>6. longer \in Seq(Message)
  BY <1>5 DEF Inserted
<1> HIDE DEF longer, e
<1>7. QED
  BY <1>2, <1>3, <1>4, <1>5, <1>6 DEF e

LEMMA InsertHistoryKeepsLog ==
  ASSUME NEW s, Log(s), NEW m \in PageMessage
  PROVE  Log(InsertHistory(s, m))
<1>1. CASE ~m.authored \/ HasId(s, m.id)
  BY <1>1 DEF InsertHistory
<1>2. CASE m.authored /\ ~HasId(s, m.id)
  <2> DEFINE n == Len(s)
  <2>1. s \in Seq(Message) /\ n \in Nat /\ n <= MaxMessages /\ DOMAIN s = 1..n
    BY DEF Log
  <2>2. PICK at \in 1..n+1, e \in Message, longer \in Seq(Message) :
          /\ e.id = m.id /\ Inserted(longer, s, at, e)
          /\ InsertHistory(s, m) = IF Len(longer) > MaxMessages THEN Tail(longer) ELSE longer
    BY <1>2, HistoryInsertion
  <2>3. at \in 1..n+1 /\ e \in Message /\ e.id = m.id
    BY <2>2
  <2>4. InsertHistory(s, m) = IF Len(longer) > MaxMessages THEN Tail(longer) ELSE longer
    BY <2>2
  <2>5. /\ longer \in Seq(Message)
        /\ Len(longer) = n + 1
        /\ DOMAIN longer = 1..n+1
        /\ \A j \in 1..n+1 :
             longer[j] = IF j < at THEN s[j] ELSE IF j = at THEN e ELSE s[j-1]
    BY <2>2 DEF Inserted
  <2>6. DistinctIds(longer)
    <3>1. \A i \in 1..n : s[i].id # m.id
      BY <1>2, <2>1 DEF HasId
    <3>2. DistinctIds(s)
      BY DEF Log
    <3>3. ASSUME NEW i \in 1..n+1, NEW j \in 1..n+1, longer[i].id = longer[j].id, i < j
          PROVE  FALSE
      <4>1. CASE j < at
        <5>1. longer[i] = s[i] /\ longer[j] = s[j] /\ i \in 1..n /\ j \in 1..n
          BY <2>1, <2>3, <2>5, <3>3, <4>1
        <5>2. QED
          BY <2>1, <3>2, <3>3, <5>1 DEF DistinctIds
      <4>2. CASE j = at
        <5>1. longer[j].id = m.id /\ longer[i] = s[i] /\ i \in 1..n
          BY <2>1, <2>3, <2>5, <3>3, <4>2
        <5>2. QED
          BY <3>1, <3>3, <5>1
      <4>3. CASE j > at /\ i = at
        <5>1. longer[i].id = m.id /\ longer[j] = s[j-1] /\ j-1 \in 1..n
          BY <2>1, <2>3, <2>5, <3>3, <4>3
        <5>2. QED
          BY <3>1, <3>3, <5>1
      <4>4. CASE j > at /\ i < at
        <5>1. longer[i] = s[i] /\ longer[j] = s[j-1] /\ i \in 1..n /\ j-1 \in 1..n /\ i # j-1
          BY <2>1, <2>3, <2>5, <3>3, <4>4
        <5>2. QED
          BY <2>1, <3>2, <3>3, <5>1 DEF DistinctIds
      <4>5. CASE j > at /\ i > at
        <5>1. longer[i] = s[i-1] /\ longer[j] = s[j-1] /\ i-1 \in 1..n /\ j-1 \in 1..n /\ i-1 # j-1
          BY <2>1, <2>3, <2>5, <3>3, <4>5
        <5>2. QED
          BY <2>1, <3>2, <3>3, <5>1 DEF DistinctIds
      <4>6. QED
        BY <2>1, <2>3, <4>1, <4>2, <4>3, <4>4, <4>5
    <3>4. QED
      BY <2>1, <2>5, <3>3 DEF DistinctIds
  <2>7. CASE Len(longer) > MaxMessages
    <3>1. /\ Tail(longer) \in Seq(Message)
          /\ Len(Tail(longer)) = n
          /\ DOMAIN Tail(longer) = 1..n
          /\ \A i \in 1..n : Tail(longer)[i] = longer[i+1]
      BY <2>1, <2>5
    <3>2. DistinctIds(Tail(longer))
      BY <2>1, <2>5, <2>6, <3>1 DEF DistinctIds
    <3>3. QED
      BY <2>1, <2>4, <2>7, <3>1, <3>2 DEF Log
  <2>8. CASE ~(Len(longer) > MaxMessages)
    BY <2>1, <2>4, <2>5, <2>6, <2>8 DEF Log
  <2>9. QED
    BY <2>7, <2>8
<1>3. QED
  BY <1>1, <1>2 DEF PageMessage

\* The recursion that defines MergeHistory.
IsMerging(f, s, page) ==
  f = [i \in 0..Len(page) |-> IF i = 0 THEN s ELSE InsertHistory(f[i-1], page[i])]

\* A merge goes through one timeline per message of its page.
IsMerge(f, s, page) ==
  /\ f[0] = s /\ MergeHistory(s, page) = f[Len(page)]
  /\ \A i \in 0..Len(page) : Log(f[i])
  /\ \A i \in 0..Len(page) : i < Len(page) => f[i+1] = InsertHistory(f[i], page[i+1])

LEMMA MergeStepwise ==
  ASSUME NEW s, Log(s), NEW page \in Seq(PageMessage)
  PROVE  \E f : IsMerge(f, s, page)
<1> DEFINE V == {q \in Seq(Message) : Log(q)}
           n == Len(page)
           step == [p \in V \X (1..n) |-> InsertHistory(p[1], page[p[2]])]
<1>1. n \in Nat /\ DOMAIN page = 1..n
  OBVIOUS
<1>2. s \in V
  BY DEF Log
<1>3. ASSUME NEW q \in V, NEW i \in 1..n
      PROVE  InsertHistory(q, page[i]) \in V
  <2>1. page[i] \in PageMessage
    BY <1>1
  <2>2. Log(InsertHistory(q, page[i]))
    BY <2>1, InsertHistoryKeepsLog
  <2>3. QED
    BY <2>2 DEF Log
<1> HIDE DEF V
<1>4. step \in [V \X (1..n) -> V]
  BY <1>3
<1> HIDE DEF step
<1>5. PICK f \in [0..n -> V] : Solves(f, s, step, n)
  BY <1>1, <1>2, <1>4, RecursionSolved
<1>6. ASSUME NEW i \in 0..n, i # 0
      PROVE  step[<<f[i-1], i>>] = InsertHistory(f[i-1], page[i])
  <2>1. <<f[i-1], i>> \in V \X (1..n)
    BY <1>1, <1>6
  <2>2. QED
    BY <2>1 DEF step
<1>7. IsMerging(f, s, page)
  BY <1>5, <1>6 DEF Solves, IsMerging
<1> DEFINE h == CHOOSE g : IsMerging(g, s, page)
<1>8. IsMerging(h, s, page) /\ MergeHistory(s, page) = h[n]
  BY <1>7 DEF MergeHistory, IsMerging
<1> HIDE DEF h, n
<1>9. ASSUME NEW i \in 0..n, i < n
      PROVE  h[i+1] = InsertHistory(h[i], page[i+1])
  <2>1. i+1 \in 0..n /\ i+1 # 0 /\ (i+1)-1 = i
    BY <1>1, <1>9
  <2>2. h[i+1] = InsertHistory(h[(i+1)-1], page[i+1])
    BY <1>8, <2>1 DEF IsMerging, n
  <2>3. QED
    BY <2>1, <2>2
<1> DEFINE S == {i \in 0..n : h[i] \in V}
<1>10. h[0] = s /\ 0 \in S
  BY <1>1, <1>2, <1>8 DEF IsMerging, n
<1>11. ASSUME NEW i \in 0..n, i < n, i \in S
       PROVE  i+1 \in S
  <2>1. i+1 \in 0..n /\ i+1 \in 1..n
    BY <1>1, <1>11
  <2>2. QED
    BY <1>3, <1>9, <1>11, <2>1 DEF n
<1> HIDE DEF S
<1>12. 0..n \subseteq S
  BY <1>1, <1>10, <1>11, UpTo
<1>13. \A i \in 0..n : Log(h[i])
  BY <1>12 DEF S, V
<1>14. QED
  BY <1>8, <1>9, <1>10, <1>13 DEF IsMerge, n

\* A history page of any length and order leaves the messages of a timeline
\* within their bound and their ids apart.
LEMMA MergeHistoryKeepsLog ==
  ASSUME NEW s, Log(s), NEW page \in Seq(PageMessage)
  PROVE  Log(MergeHistory(s, page))
<1>1. PICK f : IsMerge(f, s, page)
  BY MergeStepwise
<1>2. Len(page) \in 0..Len(page)
  OBVIOUS
<1>3. QED
  BY <1>1, <1>2 DEF IsMerge
-----------------------------------------------------------------------------
(* The cache *)

\* The timelines as the struct keeps them, when its clock shows now.
Cache(chs, now) ==
  /\ DOMAIN chs \subseteq ChannelIds
  /\ chs = [c \in DOMAIN chs |-> chs[c]]
  /\ IsFiniteSet(DOMAIN chs)
  /\ Cardinality(DOMAIN chs) <= MaxChannels
  /\ \A c \in DOMAIN chs : chs[c] \in Timeline /\ Log(chs[c].messages)
  /\ \A c \in DOMAIN chs : chs[c].touched <= now
  /\ \A c, d \in DOMAIN chs : chs[c].touched = chs[d].touched => c = d

LEMMA WithoutKeepsCache ==
  ASSUME NEW chs, NEW now \in Nat, Cache(chs, now), NEW ids
  PROVE  Cache(Without(chs, ids), now) /\ DOMAIN Without(chs, ids) = DOMAIN chs \ ids
<1> DEFINE left == Without(chs, ids)
<1>1. DOMAIN left = DOMAIN chs \ ids /\ \A c \in DOMAIN left : left[c] = chs[c]
  BY DEF Without
<1>2. left = [c \in DOMAIN left |-> left[c]]
  BY DEF Without
<1>3. IsFiniteSet(DOMAIN left) /\ Cardinality(DOMAIN left) <= Cardinality(DOMAIN chs)
  BY <1>1, FS_Subset DEF Cache
<1>4. Cardinality(DOMAIN left) \in Nat /\ Cardinality(DOMAIN chs) \in Nat
  BY <1>3, FS_CardinalityType DEF Cache
<1> HIDE DEF left
<1>5. QED
  BY <1>1, <1>2, <1>3, <1>4 DEF Cache, left

\* A cache with timelines has one that was touched longest ago.
LEMMA LeastRecentlyUsedExists ==
  ASSUME NEW chs, NEW now \in Nat, Cache(chs, now), DOMAIN chs # {}
  PROVE  LeastRecentlyUsed(chs) \in DOMAIN chs
<1> DEFINE stamps == {chs[c].touched : c \in DOMAIN chs}
<1>1. stamps \in SUBSET Nat /\ stamps # {}
  BY DEF Cache, Timeline
<1>2. PICK t \in stamps : \A u \in stamps : t <= u
  BY <1>1, LeastNatural
<1>3. PICK c \in DOMAIN chs : chs[c].touched = t
  BY <1>2
<1>4. \A d \in DOMAIN chs : chs[c].touched <= chs[d].touched
  BY <1>2, <1>3
<1>5. QED
  BY <1>4 DEF LeastRecentlyUsed

\* Opening a timeline keeps the cache within its bound and gives the timeline
\* of c the newest stamp; the messages of c are those it had.
LEMMA OpenedKeepsCache ==
  ASSUME NEW chs, NEW now \in Nat, Cache(chs, now), NEW c \in ChannelIds
  PROVE  /\ Cache(Opened(chs, c, now+1), now+1)
         /\ c \in DOMAIN Opened(chs, c, now+1)
         /\ DOMAIN Opened(chs, c, now+1) \subseteq DOMAIN chs \cup {c}
<1> DEFINE room == IF c \in DOMAIN chs \/ Cardinality(DOMAIN chs) < MaxChannels
                   THEN chs ELSE Without(chs, {LeastRecentlyUsed(chs)})
           kept == IF c \in DOMAIN chs THEN chs[c].messages ELSE << >>
           open == Opened(chs, c, now+1)
<1>1. Cardinality(DOMAIN chs) \in Nat /\ IsFiniteSet(DOMAIN chs)
  BY FS_CardinalityType DEF Cache
<1>2. Log(kept)
  <2>1. Log(<< >>)
    BY DEF Log, DistinctIds
  <2>2. QED
    BY <2>1 DEF Cache
<1>3. /\ Cache(room, now)
      /\ DOMAIN room \subseteq DOMAIN chs
      /\ c \in DOMAIN chs => room = chs
      /\ c \notin DOMAIN chs => Cardinality(DOMAIN room) < MaxChannels
  <2>1. CASE c \in DOMAIN chs \/ Cardinality(DOMAIN chs) < MaxChannels
    BY <2>1
  <2>2. CASE ~(c \in DOMAIN chs \/ Cardinality(DOMAIN chs) < MaxChannels)
    <3> DEFINE victim == LeastRecentlyUsed(chs)
    <3>1. DOMAIN chs # {}
      BY <1>1, <2>2, FS_EmptySet
    <3>2. victim \in DOMAIN chs
      BY <3>1, LeastRecentlyUsedExists
    <3>3. room = Without(chs, {victim})
      BY <2>2
    <3>4. Cache(room, now) /\ DOMAIN room = DOMAIN chs \ {victim}
      BY <3>3, WithoutKeepsCache
    <3>5. Cardinality(DOMAIN room) = Cardinality(DOMAIN chs) - 1
      BY <1>1, <3>2, <3>4, FS_RemoveElement
    <3>6. Cardinality(DOMAIN room) < MaxChannels
      BY <1>1, <3>5 DEF Cache
    <3>7. QED
      BY <2>2, <3>3, <3>4, <3>6
  <2>3. QED
    BY <2>1, <2>2
<1>4. /\ DOMAIN open = DOMAIN room \cup {c}
      /\ open = [d \in DOMAIN open |-> open[d]]
      /\ open[c] = [messages |-> kept, touched |-> now+1]
      /\ \A d \in DOMAIN room : d # c => open[d] = room[d]
  BY DEF Opened
<1> HIDE DEF open, room, kept
<1>5. IsFiniteSet(DOMAIN open) /\ Cardinality(DOMAIN open) <= MaxChannels
  <2>1. IsFiniteSet(DOMAIN room) /\ Cardinality(DOMAIN room) \in Nat
    BY <1>3, FS_CardinalityType DEF Cache
  <2>2. CASE c \in DOMAIN chs
    <3>1. DOMAIN open = DOMAIN chs
      BY <1>3, <1>4, <2>2
    <3>2. QED
      BY <3>1, <1>1 DEF Cache
  <2>3. CASE c \notin DOMAIN chs
    <3>1. c \notin DOMAIN room
      BY <1>3, <2>3
    <3>2. IsFiniteSet(DOMAIN open) /\ Cardinality(DOMAIN open) = Cardinality(DOMAIN room) + 1
      BY <1>4, <2>1, <3>1, FS_AddElement
    <3>3. QED
      BY <1>3, <2>1, <2>3, <3>2
  <2>4. QED
    BY <2>2, <2>3
<1>6. ASSUME NEW d \in DOMAIN open
      PROVE  /\ open[d] \in Timeline /\ Log(open[d].messages)
             /\ open[d].touched <= now + 1
             /\ d # c => d \in DOMAIN room /\ open[d] = room[d] /\ open[d].touched <= now
  BY <1>2, <1>3, <1>4 DEF Cache, Timeline, Log
<1>7. ASSUME NEW d \in DOMAIN open, NEW e \in DOMAIN open, open[d].touched = open[e].touched
      PROVE  d = e
  <2>1. open[c].touched = now + 1
    BY <1>4
  <2>2. open[d].touched \in Nat /\ open[e].touched \in Nat
    BY <1>6 DEF Timeline
  <2>3. QED
    BY <1>3, <1>6, <1>7, <2>1, <2>2 DEF Cache
<1>8. DOMAIN open \subseteq ChannelIds /\ DOMAIN open \subseteq DOMAIN chs \cup {c} /\ c \in DOMAIN open
  BY <1>3, <1>4 DEF Cache
<1>9. QED
  BY <1>4, <1>5, <1>6, <1>7, <1>8 DEF Cache, open

\* Rewriting the messages of a timeline, and stamping it now.
LEMMA RewriteKeepsCache ==
  ASSUME NEW chs, NEW now \in Nat, Cache(chs, now), NEW c \in DOMAIN chs, NEW s, Log(s)
  PROVE  /\ Cache([chs EXCEPT ![c].messages = s], now)
         /\ DOMAIN [chs EXCEPT ![c].messages = s] = DOMAIN chs
<1> DEFINE new == [chs EXCEPT ![c].messages = s]
<1>1. /\ DOMAIN new = DOMAIN chs
      /\ new = [d \in DOMAIN new |-> new[d]]
      /\ new[c] = [chs[c] EXCEPT !.messages = s]
      /\ \A d \in DOMAIN chs : d # c => new[d] = chs[d]
  BY DEF Cache
<1>2. new[c] \in Timeline /\ new[c].messages = s /\ new[c].touched = chs[c].touched
  BY <1>1 DEF Cache, Timeline, Log
<1> HIDE DEF new
<1>3. \A d \in DOMAIN chs : new[d].touched = chs[d].touched
  BY <1>1, <1>2
<1>4. QED
  BY <1>1, <1>2, <1>3 DEF Cache, new

LEMMA StampKeepsCache ==
  ASSUME NEW chs, NEW now \in Nat, Cache(chs, now), NEW c \in DOMAIN chs,
         NEW t \in Timeline, Log(t.messages), t.touched = now + 1
  PROVE  /\ Cache([chs EXCEPT ![c] = t], now+1)
         /\ DOMAIN [chs EXCEPT ![c] = t] = DOMAIN chs
<1> DEFINE new == [chs EXCEPT ![c] = t]
<1>1. /\ DOMAIN new = DOMAIN chs
      /\ new = [d \in DOMAIN new |-> new[d]]
      /\ new[c] = t
      /\ \A d \in DOMAIN chs : d # c => new[d] = chs[d]
  BY DEF Cache
<1> HIDE DEF new
<1>2. \A d \in DOMAIN chs : chs[d].touched \in Nat /\ chs[d].touched <= now
  BY DEF Cache, Timeline
<1>3. \A d \in DOMAIN new : new[d] \in Timeline /\ Log(new[d].messages) /\ new[d].touched <= now + 1
  BY <1>1, <1>2 DEF Cache
<1>4. \A d, e \in DOMAIN new : new[d].touched = new[e].touched => d = e
  BY <1>1, <1>2 DEF Cache
<1>5. QED
  BY <1>1, <1>3, <1>4 DEF Cache, new
-----------------------------------------------------------------------------
(* The invariant *)

\* The conjunction of what the runs check is inductive as it stands: each part
\* needs the others.  The bound on the timelines, for one, needs the stamps to
\* name a victim, and those need the clock to be ahead of every stamp.
Inv ==
  /\ TimelinesTypeOK
  /\ RetiredHaveNoTimeline
  /\ CapacityKept
  /\ StampsTellAge
  /\ IdsUnique

\* The same, in terms of the parts of the struct.
LEMMA InvParts ==
  Inv <=> /\ Cache(channels, clock)
          /\ Fifo(retired)
          /\ clock \in Nat
          /\ RetiredHaveNoTimeline
<1>1. ASSUME Inv
      PROVE  Cache(channels, clock) /\ Fifo(retired)
  BY <1>1 DEF Inv, TimelinesTypeOK, CapacityKept, StampsTellAge, IdsUnique, Cache, Log,
     Timeline, Fifo
<1>2. ASSUME Cache(channels, clock), Fifo(retired), clock \in Nat, RetiredHaveNoTimeline
      PROVE  Inv
  BY <1>2 DEF Inv, TimelinesTypeOK, CapacityKept, StampsTellAge, IdsUnique, Cache, Log,
     Timeline, Fifo
<1>3. QED
  BY <1>1, <1>2 DEF Inv, TimelinesTypeOK

LEMMA InvPartsNext ==
  ASSUME Cache(channels', clock'), Fifo(retired'), clock' \in Nat, RetiredHaveNoTimeline'
  PROVE  Inv'
  BY DEF Inv, TimelinesTypeOK, CapacityKept, StampsTellAge, IdsUnique, Cache, Log,
     Timeline, Fifo

LEMMA InitInv == TimelinesInit => Inv
<1> SUFFICES ASSUME TimelinesInit PROVE Inv
  OBVIOUS
<1>1. channels = << >> /\ retired = << >> /\ clock = 0
  BY DEF TimelinesInit
<1>2. DOMAIN channels = {} /\ channels = [c \in DOMAIN channels |-> channels[c]]
  BY <1>1
<1>3. IsFiniteSet({}) /\ Cardinality({}) = 0
  BY FS_EmptySet
<1>4. Cache(channels, clock)
  BY <1>2, <1>3 DEF Cache
<1>5. Fifo(retired)
  BY <1>1, MaxRetiredPositive DEF Fifo, Distinct
<1>6. RetiredHaveNoTimeline
  BY <1>2 DEF RetiredHaveNoTimeline
<1>7. QED
  BY <1>1, <1>4, <1>5, <1>6, InvParts

\* A topology event, whatever it retires and restores.
LEMMA RetopologyInv ==
  ASSUME Inv, NEW gone \in Seq(ChannelIds), NEW back, Retopology(gone, back)
  PROVE  Inv'
<1> DEFINE r == RetireAll(retired, gone)
<1>1. Cache(channels, clock) /\ Fifo(retired) /\ clock \in Nat /\ RetiredHaveNoTimeline
  BY InvParts
<1>2. /\ channels' = Without(channels, Items(gone))
      /\ retired' = Retain(r, Items(r) \ back)
      /\ clock' = clock
  BY DEF Retopology
<1>3. Cache(channels', clock') /\ DOMAIN channels' = DOMAIN channels \ Items(gone)
  BY <1>1, <1>2, WithoutKeepsCache
<1>4. Fifo(r) /\ Items(r) \subseteq Items(retired) \cup Items(gone)
  BY <1>1, RetireAllProperties
<1> HIDE DEF r
<1>5. /\ retired' \in Seq(ChannelIds)
      /\ Items(retired') = Items(r) \cap (Items(r) \ back)
      /\ Len(retired') <= Len(r)
      /\ Distinct(r) => Distinct(retired')
  BY <1>2, <1>4, RetainProperties DEF Fifo
<1>6. Fifo(retired')
  BY <1>4, <1>5, MaxRetiredPositive DEF Fifo
<1>7. RetiredHaveNoTimeline'
  BY <1>1, <1>3, <1>4, <1>5 DEF RetiredHaveNoTimeline, IsRetired
<1>8. QED
  BY <1>1, <1>2, <1>3, <1>6, <1>7, InvPartsNext

\* A handler that leaves the tombstones alone and gives no retired channel a
\* timeline.
LEMMA KeptTombstonesInv ==
  ASSUME Inv, UNCHANGED retired, clock' \in Nat, Cache(channels', clock'),
         \A c \in DOMAIN channels' \ DOMAIN channels : ~IsRetired(c)
  PROVE  Inv'
<1>1. Fifo(retired) /\ RetiredHaveNoTimeline
  BY InvParts
<1>2. RetiredHaveNoTimeline'
  BY <1>1 DEF RetiredHaveNoTimeline, IsRetired
<1>3. QED
  BY <1>1, <1>2, InvPartsNext

LEMMA StutterInv ==
  ASSUME Inv, UNCHANGED timelineVars
  PROVE  Inv'
  BY DEF timelineVars, Inv, TimelinesTypeOK, RetiredHaveNoTimeline, IsRetired, CapacityKept,
     StampsTellAge, IdsUnique

\* A live message, of the Gateway or of a REST answer.
LEMMA MessageInv ==
  ASSUME Inv, NEW c \in ChannelIds, NEW m \in Message, ApplyMessage(c, m)
  PROVE  Inv'
<1>1. CASE UNCHANGED timelineVars
  BY <1>1, StutterInv
<1>2. CASE ~IsRetired(c) /\ Tick /\ UNCHANGED retired
           /\ channels' = LET open == Opened(channels, c, clock')
                          IN  [open EXCEPT ![c].messages = Upsert(@, m)]
  <2> DEFINE open == Opened(channels, c, clock')
  <2>1. clock \in Nat /\ clock' = clock + 1 /\ Cache(channels, clock)
    BY <1>2, InvParts DEF Tick
  <2>2. Cache(open, clock') /\ c \in DOMAIN open /\ DOMAIN open \subseteq DOMAIN channels \cup {c}
    BY <2>1, OpenedKeepsCache
  <2> HIDE DEF open
  <2>3. channels' = [open EXCEPT ![c].messages = Upsert(open[c].messages, m)]
    BY <1>2 DEF open
  <2>4. Log(Upsert(open[c].messages, m))
    BY <2>2, UpsertKeepsLog DEF Cache
  <2>5. clock' \in Nat
    BY <2>1
  <2>6. Cache(channels', clock') /\ DOMAIN channels' = DOMAIN open
    BY <2>2, <2>3, <2>4, <2>5, RewriteKeepsCache
  <2>7. QED
    BY <1>2, <2>2, <2>5, <2>6, KeptTombstonesInv
<1>3. QED
  BY <1>1, <1>2 DEF ApplyMessage

\* A history page.
LEMMA HistoryInv ==
  ASSUME Inv, NEW c \in ChannelIds, NEW page \in Seq(PageMessage), ApplyHistory(c, page)
  PROVE  Inv'
<1>1. CASE UNCHANGED timelineVars
  BY <1>1, StutterInv
<1>2. CASE ~IsRetired(c) /\ Tick /\ UNCHANGED retired
           /\ channels' = LET open == Opened(channels, c, clock')
                          IN  [open EXCEPT ![c].messages = MergeHistory(@, page)]
  <2> DEFINE open == Opened(channels, c, clock')
  <2>1. clock \in Nat /\ clock' = clock + 1 /\ Cache(channels, clock)
    BY <1>2, InvParts DEF Tick
  <2>2. Cache(open, clock') /\ c \in DOMAIN open /\ DOMAIN open \subseteq DOMAIN channels \cup {c}
    BY <2>1, OpenedKeepsCache
  <2> HIDE DEF open
  <2>3. channels' = [open EXCEPT ![c].messages = MergeHistory(open[c].messages, page)]
    BY <1>2 DEF open
  <2>4. Log(MergeHistory(open[c].messages, page))
    BY <2>2, MergeHistoryKeepsLog DEF Cache
  <2>5. clock' \in Nat
    BY <2>1
  <2>6. Cache(channels', clock') /\ DOMAIN channels' = DOMAIN open
    BY <2>2, <2>3, <2>4, <2>5, RewriteKeepsCache
  <2>7. QED
    BY <1>2, <2>2, <2>5, <2>6, KeptTombstonesInv
<1>3. QED
  BY <1>1, <1>2 DEF ApplyHistory

LEMMA LaterCache ==
  ASSUME NEW chs, NEW now \in Nat, Cache(chs, now)
  PROVE  Cache(chs, now+1)
<1>1. \A c \in DOMAIN chs : chs[c].touched <= now + 1
  BY DEF Cache, Timeline
<1>2. QED
  BY <1>1 DEF Cache

\* A partial edit.
LEMMA UpdateInv ==
  ASSUME Inv, NEW c \in ChannelIds, NEW id \in MsgIds, NEW content \in Bodies \cup {Unchanged},
         ApplyUpdate(c, id, content)
  PROVE  Inv'
<1> USE DEF ApplyUpdate
<1>1. CASE UNCHANGED timelineVars
  BY <1>1, StutterInv
<1>2. CASE Tick /\ UNCHANGED <<channels, retired>>
  <2>1. clock \in Nat /\ clock' = clock + 1 /\ Cache(channels, clock)
    BY <1>2, InvParts DEF Tick
  <2>2. Cache(channels', clock') /\ clock' \in Nat
    BY <1>2, <2>1, LaterCache
  <2>3. QED
    BY <1>2, <2>2, KeptTombstonesInv
<1>3. CASE /\ Tick /\ UNCHANGED retired /\ c \in DOMAIN channels
           /\ channels' = [channels EXCEPT ![c].touched = clock']
  <2> DEFINE t == [messages |-> channels[c].messages, touched |-> clock + 1]
  <2>1. clock \in Nat /\ clock' = clock + 1 /\ Cache(channels, clock)
    BY <1>3, InvParts DEF Tick
  <2>2. t \in Timeline /\ Log(t.messages) /\ t.touched = clock + 1
    <3>1. channels[c] \in Timeline /\ Log(channels[c].messages)
      BY <1>3, <2>1 DEF Cache
    <3>2. clock + 1 \in Nat
      BY <2>1
    <3>3. QED
      BY <3>1, <3>2 DEF Timeline
  <2>3. channels' = [channels EXCEPT ![c] = t]
    <3>1. channels[c] \in Timeline
      BY <1>3, <2>1 DEF Cache
    <3>2. [channels[c] EXCEPT !.touched = clock + 1] = t
      BY <3>1 DEF Timeline
    <3>3. channels' = [channels EXCEPT ![c] = [channels[c] EXCEPT !.touched = clock + 1]]
      BY <1>3, <2>1
    <3>4. QED
      BY <3>2, <3>3
  <2> HIDE DEF t
  <2>4. Cache(channels', clock') /\ DOMAIN channels' = DOMAIN channels
    <3>1. /\ Cache([channels EXCEPT ![c] = t], clock+1)
          /\ DOMAIN [channels EXCEPT ![c] = t] = DOMAIN channels
      BY <1>3, <2>1, <2>2, StampKeepsCache
    <3>2. QED
      BY <3>1, <2>1, <2>3
  <2>5. QED
    BY <1>3, <2>1, <2>4, KeptTombstonesInv
<1>4. CASE /\ Tick /\ UNCHANGED retired /\ c \in DOMAIN channels
           /\ HasId(channels[c].messages, id)
           /\ LET old == channels[c].messages
                  i == LastIndexOf(old, id)
                  body == IF content = Unchanged THEN old[i].body ELSE content
              IN  channels' = [channels EXCEPT
                    ![c] = [messages |-> [old EXCEPT ![i] = [@ EXCEPT !.body = body]],
                            touched |-> clock']]
  <2> DEFINE old == channels[c].messages
             i == LastIndexOf(old, id)
             body == IF content = Unchanged THEN old[i].body ELSE content
             m == [old[i] EXCEPT !.body = body]
             new == [old EXCEPT ![i] = m]
             t == [messages |-> new, touched |-> clock']
  <2>1. clock \in Nat /\ clock' = clock + 1 /\ Cache(channels, clock)
    BY <1>4, InvParts DEF Tick
  <2>2. old \in Seq(Message) /\ Log(old) /\ channels[c] \in Timeline
    BY <1>4, <2>1 DEF Cache, Timeline
  <2>3. i \in DOMAIN old
    BY <1>4, <2>2, LastIndexExists DEF Log
  <2>4. old[i] \in Message
    BY <2>2, <2>3, ElementOfSeq
  <2>5. m \in Message /\ m.id = old[i].id
    BY <2>4 DEF Message
  <2>6. Log(new)
    BY <2>2, <2>3, <2>5, ReplaceKeepsLog
  <2>7. t \in Timeline /\ Log(t.messages) /\ t.touched = clock + 1
    BY <2>1, <2>6 DEF Timeline, Log
  <2>8. channels' = [channels EXCEPT ![c] = t]
    BY <1>4
  <2> HIDE DEF t
  <2>9. Cache(channels', clock') /\ DOMAIN channels' = DOMAIN channels
    <3>1. /\ Cache([channels EXCEPT ![c] = t], clock+1)
          /\ DOMAIN [channels EXCEPT ![c] = t] = DOMAIN channels
      BY <1>4, <2>1, <2>7, StampKeepsCache
    <3>2. QED
      BY <3>1, <2>1, <2>8
  <2>10. QED
    BY <1>4, <2>1, <2>9, KeptTombstonesInv
<1>5. QED
  BY <1>1, <1>2, <1>3, <1>4

\* A deletion, which the tombstones do not guard and which opens nothing.
LEMMA DeleteInv ==
  ASSUME Inv, NEW c \in ChannelIds, NEW id, ApplyDelete(c, id)
  PROVE  Inv'
<1>1. clock \in Nat /\ clock' = clock + 1 /\ Cache(channels, clock) /\ UNCHANGED retired
  BY InvParts DEF ApplyDelete, Tick
<1>2. CASE UNCHANGED channels
  BY <1>1, <1>2, LaterCache, KeptTombstonesInv
<1>3. CASE c \in DOMAIN channels /\ channels' = [channels EXCEPT
             ![c] = [messages |-> Retain(channels[c].messages,
                                    {m \in Items(channels[c].messages) : m.id # id}),
                     touched |-> clock']]
  <2> DEFINE keep == {m \in Items(channels[c].messages) : m.id # id}
             t == [messages |-> Retain(channels[c].messages, keep), touched |-> clock']
  <2>1. Log(Retain(channels[c].messages, keep))
    BY <1>1, <1>3, RetainKeepsLog DEF Cache
  <2>2. t \in Timeline /\ Log(t.messages) /\ t.touched = clock + 1
    BY <1>1, <2>1 DEF Timeline, Log
  <2>3. channels' = [channels EXCEPT ![c] = t]
    BY <1>3
  <2> HIDE DEF t
  <2>4. Cache(channels', clock') /\ DOMAIN channels' = DOMAIN channels
    <3>1. /\ Cache([channels EXCEPT ![c] = t], clock+1)
          /\ DOMAIN [channels EXCEPT ![c] = t] = DOMAIN channels
      BY <1>1, <1>3, <2>2, StampKeepsCache
    <3>2. QED
      BY <3>1, <1>1, <2>3
  <2>5. QED
    BY <1>1, <2>4, KeptTombstonesInv
<1>4. QED
  BY <1>2, <1>3 DEF ApplyDelete

LEMMA NextInv == Inv /\ [TimelinesNext]_timelineVars => Inv'
<1> SUFFICES ASSUME Inv, [TimelinesNext]_timelineVars PROVE Inv'
  OBVIOUS
<1>1. CASE MessageStep
  BY <1>1, MessageInv DEF MessageStep
<1>2. CASE UpdateStep
  BY <1>2, UpdateInv DEF UpdateStep
<1>3. CASE DeleteStep
  BY <1>3, DeleteInv DEF DeleteStep
<1>4. CASE HistoryStep
  BY <1>4, HistoryInv, InputsAssumption DEF HistoryStep
<1>5. CASE RetopologyStep
  BY <1>5, RetopologyInv, InputsAssumption DEF RetopologyStep
<1>6. CASE UNCHANGED timelineVars
  BY <1>6, StutterInv
<1>7. QED
  BY <1>1, <1>2, <1>3, <1>4, <1>5, <1>6 DEF TimelinesNext

\* The message cache keeps its invariant forever, whatever messages, edits,
\* deletions, history pages and topology events reach it.
THEOREM InvAlways == TimelinesSpec => []Inv
<1>1. TimelinesInit => Inv
  BY InitInv
<1>2. Inv /\ [TimelinesNext]_timelineVars => Inv'
  BY NextInv
<1>3. QED
  BY <1>1, <1>2, PTL DEF TimelinesSpec

\* A retired channel never has a timeline: late messages and history pages
\* cannot bring one back (state.rs, the is_retired_channel guards).
THEOREM RetiredAlways == TimelinesSpec => []RetiredHaveNoTimeline
<1>1. Inv => RetiredHaveNoTimeline
  BY DEF Inv
<1>2. QED
  BY <1>1, InvAlways, PTL

\* Memory stays bounded: timelines, their messages, and the tombstones; and the
\* stamps name exactly one least recently used timeline.
THEOREM BoundedAlways == TimelinesSpec => []CacheBounded
<1>1. Inv => CacheBounded
  BY DEF Inv, CacheBounded
<1>2. QED
  BY <1>1, InvAlways, PTL

\* A timeline holds at most one copy of a message.
THEOREM IdsAlways == TimelinesSpec => []IdsUnique
<1>1. Inv => IdsUnique
  BY DEF Inv
<1>2. QED
  BY <1>1, InvAlways, PTL
-----------------------------------------------------------------------------
(* What a history page leaves of a timeline in snowflake order             *)

LEMMA InsertedItems ==
  ASSUME NEW s, s \in Seq(Message), NEW e \in Message, NEW at \in 1..Len(s)+1, NEW longer,
         Inserted(longer, s, at, e)
  PROVE  Items(longer) = Items(s) \cup {e}
<1> DEFINE n == Len(s)
<1>1. n \in Nat /\ DOMAIN s = 1..n /\ at \in 1..n+1
  OBVIOUS
<1>2. /\ DOMAIN longer = 1..n+1
      /\ \A j \in 1..n+1 : longer[j] = IF j < at THEN s[j] ELSE IF j = at THEN e ELSE s[j-1]
  BY DEF Inserted
<1> HIDE DEF n
<1>3. ASSUME NEW j \in 1..n+1 PROVE longer[j] \in Items(s) \cup {e}
  <2>1. CASE j < at
    <3>1. j \in 1..n /\ longer[j] = s[j]
      BY <1>1, <1>2, <2>1
    <3>2. QED
      BY <1>1, <3>1 DEF Items
  <2>2. CASE j = at
    BY <1>1, <1>2, <2>2
  <2>3. CASE j > at
    <3>1. j-1 \in 1..n /\ longer[j] = s[j-1]
      BY <1>1, <1>2, <2>3
    <3>2. QED
      BY <1>1, <3>1 DEF Items
  <2>4. QED
    BY <1>1, <2>1, <2>2, <2>3
<1>4. e \in Items(longer)
  <2>1. longer[at] = e
    BY <1>1, <1>2
  <2>2. QED
    BY <1>1, <1>2, <2>1 DEF Items
<1>5. ASSUME NEW i \in 1..n PROVE s[i] \in Items(longer)
  <2>1. CASE i < at
    <3>1. i \in 1..n+1 /\ longer[i] = s[i]
      BY <1>1, <1>2, <2>1
    <3>2. QED
      BY <1>2, <3>1 DEF Items
  <2>2. CASE i >= at
    <3>1. i+1 \in 1..n+1 /\ longer[i+1] = s[i]
      BY <1>1, <1>2, <2>2
    <3>2. QED
      BY <1>2, <3>1 DEF Items
  <2>3. QED
    BY <1>1, <2>1, <2>2
<1>6. QED
  BY <1>1, <1>2, <1>3, <1>4, <1>5 DEF Items

LEMMA IdsAreNumbers == \A m \in Message : m.id \in Nat
BY DEF Message

LEMMA InsertedInOrder ==
  ASSUME NEW s, s \in Seq(Message), Sorted(s), NEW e \in Message, ~HasId(s, e.id),
         NEW at \in 1..Len(s)+1,
         \A i \in 1..Len(s) : i < at => ~(e.id < s[i].id),
         at <= Len(s) => e.id < s[at].id,
         NEW longer, Inserted(longer, s, at, e)
  PROVE  Sorted(longer)
<1> DEFINE n == Len(s)
<1>1. n \in Nat /\ DOMAIN s = 1..n /\ at \in 1..n+1
  OBVIOUS
<1>2. /\ DOMAIN longer = 1..n+1
      /\ \A j \in 1..n+1 : longer[j] = IF j < at THEN s[j] ELSE IF j = at THEN e ELSE s[j-1]
  BY DEF Inserted
<1>3. e.id \in Nat /\ \A i \in 1..n : s[i].id \in Nat
  <2>1. \A i \in 1..n : s[i] \in Message
    BY <1>1
  <2>2. QED
    BY <2>1, IdsAreNumbers
<1>4. \A i \in 1..n : s[i].id # e.id
  BY <1>1 DEF HasId
<1>5. \A i \in 1..n : i < at => s[i].id < e.id
  BY <1>3, <1>4
<1>6. \A i, j \in 1..n : i < j => s[i].id < s[j].id
  BY <1>1 DEF Sorted
<1>7. at <= n => e.id < s[at].id
  OBVIOUS
<1> HIDE DEF n
<1>8. \A i \in 1..n : at <= i => e.id < s[i].id
  <2> SUFFICES ASSUME NEW i \in 1..n, at <= i PROVE e.id < s[i].id
    OBVIOUS
  <2>1. at \in 1..n
    BY <1>1
  <2>2. s[at].id \in Nat /\ s[i].id \in Nat
    BY <1>3, <2>1
  <2>3. e.id < s[at].id /\ (at = i \/ s[at].id < s[i].id)
    BY <1>1, <1>6, <1>7, <2>1
  <2>4. QED
    BY <1>3, <2>2, <2>3
<1>9. ASSUME NEW i \in 1..n+1, NEW j \in 1..n+1, i < j
      PROVE  longer[i].id < longer[j].id
  <2>1. CASE j < at
    <3>1. i \in 1..n /\ j \in 1..n /\ longer[i] = s[i] /\ longer[j] = s[j]
      BY <1>1, <1>2, <1>9, <2>1
    <3>2. QED
      BY <1>6, <1>9, <3>1
  <2>2. CASE j = at
    <3>1. i \in 1..n /\ longer[i] = s[i] /\ longer[j] = e
      BY <1>1, <1>2, <1>9, <2>2
    <3>2. QED
      BY <1>5, <1>9, <2>2, <3>1
  <2>3. CASE j > at /\ i < at
    <3>1. i \in 1..n /\ j-1 \in 1..n /\ i < j-1 /\ longer[i] = s[i] /\ longer[j] = s[j-1]
      BY <1>1, <1>2, <2>3
    <3>2. QED
      BY <1>6, <3>1
  <2>4. CASE j > at /\ i = at
    <3>1. j-1 \in 1..n /\ at <= j-1 /\ longer[i] = e /\ longer[j] = s[j-1]
      BY <1>1, <1>2, <2>4
    <3>2. QED
      BY <1>8, <3>1
  <2>5. CASE j > at /\ i > at
    <3>1. /\ i-1 \in 1..n /\ j-1 \in 1..n /\ i-1 < j-1
          /\ longer[i] = s[i-1] /\ longer[j] = s[j-1]
      BY <1>1, <1>2, <1>9, <2>5
    <3>2. QED
      BY <1>6, <3>1
  <2>6. QED
    BY <1>1, <2>1, <2>2, <2>3, <2>4, <2>5
<1>10. QED
  BY <1>2, <1>9 DEF Sorted

\* The first message of a timeline in order is the oldest.
LEMMA OldestDropped ==
  ASSUME NEW t \in Seq(Message), Sorted(t), t # << >>
  PROVE  /\ Tail(t) \in Seq(Message) /\ Sorted(Tail(t)) /\ Len(Tail(t)) = Len(t) - 1
         /\ Head(t) \in Message /\ Items(t) = {Head(t)} \cup Items(Tail(t))
         /\ \A o \in Items(Tail(t)) : Head(t).id < o.id
<1> DEFINE n == Len(t)
<1>1. n \in Nat \ {0} /\ DOMAIN t = 1..n
  OBVIOUS
<1>2. /\ Tail(t) \in Seq(Message) /\ Len(Tail(t)) = n - 1
      /\ DOMAIN Tail(t) = 1..n-1
      /\ \A i \in 1..n-1 : Tail(t)[i] = t[i+1]
      /\ Head(t) = t[1] /\ Head(t) \in Message
  BY <1>1
<1>3. \A i, j \in 1..n : i < j => t[i].id < t[j].id
  BY <1>1 DEF Sorted
<1>4. Items(t) = {Head(t)} \cup Items(Tail(t))
  BY HeadAndTail
<1> HIDE DEF n
<1>5. \A i \in 1..n-1 : i+1 \in 1..n /\ 1 < i+1
  BY <1>1
<1>6. Sorted(Tail(t))
  <2> SUFFICES ASSUME NEW i \in 1..n-1, NEW j \in 1..n-1, i < j
               PROVE  Tail(t)[i].id < Tail(t)[j].id
    BY <1>2 DEF Sorted
  <2>1. i+1 \in 1..n /\ j+1 \in 1..n /\ i+1 < j+1
    BY <1>5
  <2>2. QED
    BY <1>2, <1>3, <2>1
<1>7. 1 \in 1..n
  BY <1>1
<1>8. \A i \in 1..n-1 : Head(t).id < Tail(t)[i].id
  BY <1>2, <1>3, <1>5, <1>7
<1>9. \A o \in Items(Tail(t)) : Head(t).id < o.id
  BY <1>2, <1>8 DEF Items
<1>10. QED
  BY <1>2, <1>4, <1>6, <1>9 DEF n

\* s lists the youngest messages of S, as many as a timeline holds, oldest first.
IsYoungest(s, S) ==
  /\ s \in Seq(Message) /\ Sorted(s) /\ Len(s) <= MaxMessages
  /\ Items(s) \subseteq S
  /\ \A m \in S \ Items(s) : Len(s) = MaxMessages /\ \A o \in Items(s) : m.id < o.id

\* The ids of S tell its messages apart.
Apart(S) == \A m, o \in S : m.id = o.id => m = o

LEMMA SortedIsLog ==
  ASSUME NEW s \in Seq(Message), Sorted(s)
  PROVE  DistinctIds(s)
<1>1. \A i, j \in DOMAIN s : i < j \/ j < i \/ i = j
  OBVIOUS
<1>2. \A i \in DOMAIN s : s[i].id \in Nat
  <2>1. \A i \in DOMAIN s : s[i] \in Message
    OBVIOUS
  <2>2. QED
    BY <2>1, IdsAreNumbers
<1>3. \A i, j \in DOMAIN s : i < j => s[i].id < s[j].id
  BY DEF Sorted
<1>4. \A i, j \in DOMAIN s : i < j => s[i].id # s[j].id
  BY <1>2, <1>3
<1>5. QED
  BY <1>1, <1>4 DEF DistinctIds

\* One message of a page: what is left are the youngest of the set with it, unless
\* the set has its id already.
LEMMA InsertYoungest ==
  ASSUME NEW S \in SUBSET Message, NEW s, IsYoungest(s, S), NEW m \in PageMessage, m.authored,
         NEW T, T = IF \E o \in S : o.id = m.id THEN S
                    ELSE S \cup {[id |-> m.id, body |-> m.body]}
  PROVE  IsYoungest(InsertHistory(s, m), T)
<1>1. s \in Seq(Message) /\ Sorted(s) /\ Len(s) <= MaxMessages /\ Len(s) \in Nat /\ DOMAIN s = 1..Len(s)
  BY DEF IsYoungest
<1>2. Log(s)
  BY <1>1, SortedIsLog DEF Log
<1>3. CASE HasId(s, m.id)
  <2>1. \E o \in S : o.id = m.id
    BY <1>3 DEF HasId, IsYoungest, Items
  <2>2. T = S /\ InsertHistory(s, m) = s
    BY <1>3, <2>1 DEF InsertHistory
  <2>3. QED
    BY <2>2
<1>4. CASE ~HasId(s, m.id)
  <2>1. PICK at \in 1..Len(s)+1, e \in Message, longer \in Seq(Message) :
           /\ e = [id |-> m.id, body |-> m.body] /\ e.id = m.id
           /\ \A i \in 1..Len(s) : i < at => ~(m.id < s[i].id)
           /\ at <= Len(s) => m.id < s[at].id
           /\ Inserted(longer, s, at, e)
           /\ InsertHistory(s, m) = IF Len(longer) > MaxMessages THEN Tail(longer) ELSE longer
    BY <1>2, <1>4, HistoryInsertion
  <2>2. /\ longer \in Seq(Message) /\ Len(longer) = Len(s) + 1
        /\ Sorted(longer) /\ Items(longer) = Items(s) \cup {e}
    <3>1. longer \in Seq(Message) /\ Len(longer) = Len(s) + 1
      BY <2>1 DEF Inserted
    <3>2. Sorted(longer)
      BY <1>1, <1>4, <2>1, InsertedInOrder
    <3>3. Items(longer) = Items(s) \cup {e}
      BY <1>1, <2>1, InsertedItems
    <3>4. QED
      BY <3>1, <3>2, <3>3
  <2>3. /\ Items(s) \subseteq S
        /\ \A o \in S \ Items(s) : Len(s) = MaxMessages /\ \A k \in Items(s) : o.id < k.id
    BY DEF IsYoungest
  <2>4. \A k \in Items(s) : k \in Message /\ k.id # e.id
    BY <1>1, <1>4, <2>1 DEF Items, HasId
  <2>5. /\ S \subseteq T /\ T \subseteq S \cup {e}
        /\ e \notin T => \E o \in S : o.id = e.id
    BY <2>1
  <2>6. \A o \in S : o.id = e.id => o \notin Items(s)
    BY <2>4
  <2>7. CASE Len(longer) > MaxMessages
    <3> DEFINE r == Tail(longer)
               h == Head(longer)
    <3>1. Len(s) = MaxMessages /\ longer # << >>
      <4>1. MaxMessages \in Nat /\ Len(s) \in Nat /\ Len(s) <= MaxMessages
        BY <1>1
      <4>2. Len(s) + 1 > MaxMessages
        BY <2>2, <2>7
      <4>3. Len(s) = MaxMessages
        BY ONLY <4>1, <4>2
      <4>4. Len(longer) # 0
        BY <1>1, <2>2
      <4>5. QED
        BY <2>2, <4>3, <4>4
    <3>2. /\ r \in Seq(Message) /\ Sorted(r) /\ Len(r) = MaxMessages
          /\ h \in Message /\ Items(s) \cup {e} = {h} \cup Items(r)
          /\ \A o \in Items(r) : h.id < o.id
      BY <1>1, <2>2, <3>1, OldestDropped
    <3>3. InsertHistory(s, m) = r
      BY <2>1, <2>7
    <3>4. \A k \in {e} \cup S \cup Items(r) : k.id \in Nat
      <4>1. \A k \in Message : k.id \in Nat
        BY DEF Message
      <4>2. Items(r) \subseteq Message
        BY <3>2 DEF Items
      <4>3. QED
        BY <4>1, <4>2
    <3> HIDE DEF r, h
    <3>5. h \notin Items(r)
      BY <3>2, <3>4
    <3>6. CASE h = e
      <4>1. Items(r) = Items(s)
        <5>1. e \notin Items(s)
          BY <2>4
        <5>2. Items(s) \cup {e} = {e} \cup Items(r) /\ e \notin Items(r)
          BY <3>2, <3>5, <3>6
        <5>3. \A x \in Items(s) : x \in Items(r)
          BY <5>1, <5>2
        <5>4. \A x \in Items(r) : x \in Items(s)
          BY <5>2
        <5>5. QED
          BY <5>3, <5>4
      <4>2. \A o \in T \ Items(r) : \A k \in Items(r) : o.id < k.id
        BY <2>3, <2>5, <3>2, <3>6, <4>1
      <4>3. QED
        BY <2>3, <2>5, <3>2, <3>3, <4>1, <4>2 DEF IsYoungest
    <3>7. CASE h # e
      <4>1. h \in Items(s) /\ e \in Items(r) /\ h.id < e.id
        BY <3>2, <3>7
      <4>2. ASSUME NEW o \in S \ Items(s) PROVE o.id < h.id /\ o.id # e.id
        <5>1. o.id < h.id
          BY <2>3, <4>1, <4>2
        <5>2. o.id \in Nat /\ h.id \in Nat /\ e.id \in Nat
          BY <2>3, <3>4, <4>1
        <5>3. QED
          BY <4>1, <5>1, <5>2
      <4>3. e \in T
        BY <2>5, <2>6, <4>2
      <4>4. Items(r) \subseteq T
        BY <2>3, <2>5, <3>2, <4>3
      <4>5. \A o \in T \ Items(r) : o = h \/ (o \in S \ Items(s))
        BY <2>5, <3>2, <4>1
      <4>6. ASSUME NEW o \in T \ Items(r), NEW k \in Items(r) PROVE o.id < k.id
        <5>1. h.id < k.id /\ h.id \in Nat /\ k.id \in Nat /\ (o \in S => o.id \in Nat)
          BY <2>3, <3>2, <3>4, <4>1
        <5>2. CASE o = h
          BY <5>1, <5>2
        <5>3. CASE o \in S \ Items(s)
          <6>1. o.id < h.id
            BY <4>2, <5>3
          <6>2. QED
            BY <5>1, <5>3, <6>1
        <5>4. QED
          BY <4>5, <5>2, <5>3
      <4>7. QED
        BY <3>2, <3>3, <4>4, <4>6 DEF IsYoungest
    <3>8. QED
      BY <3>6, <3>7
  <2>8. CASE ~(Len(longer) > MaxMessages)
    <3>1. Len(s) # MaxMessages /\ Len(longer) <= MaxMessages /\ InsertHistory(s, m) = longer
      <4>1. MaxMessages \in Nat /\ Len(s) \in Nat /\ Len(longer) = Len(s) + 1
        BY <1>1, <2>2
      <4>2. Len(longer) <= MaxMessages
        BY <2>8, <4>1
      <4>3. Len(s) # MaxMessages
        BY ONLY <4>1, <4>2
      <4>4. QED
        BY <2>1, <2>8, <4>2, <4>3
    <3>2. S = Items(s)
      BY <2>3, <3>1
    <3>3. T = Items(longer)
      BY <2>2, <2>5, <2>6, <3>2
    <3>4. QED
      BY <2>2, <3>1, <3>3 DEF IsYoungest
  <2>9. QED
    BY <2>7, <2>8
<1>5. QED
  BY <1>3, <1>4

\* What a page has to add to a timeline.
FreshOf(s, page) ==
  {[id |-> m.id, body |-> m.body] : m \in {p \in Items(page) : p.authored /\ ~HasId(s, p.id)}}

\* S is the timeline and the first n messages of the page, each id once.
Covers(S, s, page, n) ==
  /\ S \in SUBSET Message /\ IsFiniteSet(S) /\ Apart(S)
  /\ Items(s) \subseteq S /\ S \subseteq Items(s) \cup FreshOf(s, page)
  /\ \A j \in 1..n : page[j].authored => \E o \in S : o.id = page[j].id

LEMMA MoreIsCovered ==
  ASSUME NEW s \in Seq(Message), NEW page \in Seq(PageMessage), NEW n \in 1..Len(page),
         NEW S, Covers(S, s, page, n-1), NEW r, IsYoungest(r, S)
  PROVE  \E T : Covers(T, s, page, n) /\ IsYoungest(InsertHistory(r, page[n]), T)
<1> DEFINE m == page[n]
           e == [id |-> m.id, body |-> m.body]
<1>1. m \in PageMessage /\ m \in Items(page) /\ e \in Message /\ e.id = m.id
  <2>1. n \in DOMAIN page /\ m \in PageMessage
    OBVIOUS
  <2>2. QED
    BY <2>1 DEF Items, PageMessage, Message
<1>2. /\ S \in SUBSET Message /\ IsFiniteSet(S) /\ Apart(S)
      /\ Items(s) \subseteq S /\ S \subseteq Items(s) \cup FreshOf(s, page)
      /\ \A j \in 1..n-1 : page[j].authored => \E o \in S : o.id = page[j].id
  BY DEF Covers
<1>3. \A j \in 1..n : j \in 1..n-1 \/ j = n
  OBVIOUS
<1>4. CASE ~m.authored \/ \E o \in S : o.id = m.id
  <2>1. Covers(S, s, page, n)
    BY <1>2, <1>3, <1>4 DEF Covers
  <2>2. IsYoungest(InsertHistory(r, m), S)
    <3>1. CASE ~m.authored
      BY <3>1 DEF InsertHistory
    <3>2. CASE m.authored
      <4>1. S = IF \E o \in S : o.id = m.id THEN S ELSE S \cup {e}
        BY <1>4, <3>2
      <4> HIDE DEF m
      <4>2. QED
        BY <1>1, <1>2, <3>2, <4>1, InsertYoungest
    <3>3. QED
      BY <3>1, <3>2
  <2>3. QED
    BY <2>1, <2>2
<1>5. CASE m.authored /\ ~\E o \in S : o.id = m.id
  <2> DEFINE T == S \cup {e}
  <2>1. T = IF \E o \in S : o.id = m.id THEN S ELSE S \cup {e}
    BY <1>5
  <2>2. e \in FreshOf(s, page)
    <3>1. ~HasId(s, m.id)
      BY <1>2, <1>5 DEF HasId, Items
    <3>2. QED
      BY <1>1, <1>5, <3>1 DEF FreshOf
  <2>3. Apart(T)
    BY <1>1, <1>2, <1>5 DEF Apart
  <2>4. IsFiniteSet(T) /\ T \in SUBSET Message
    BY <1>1, <1>2, FS_AddElement
  <2>5. \A j \in 1..n : page[j].authored => \E o \in T : o.id = page[j].id
    BY <1>1, <1>2, <1>3
  <2>6. Covers(T, s, page, n)
    BY <1>2, <2>2, <2>3, <2>4, <2>5 DEF Covers
  <2> HIDE DEF T
  <2>7. IsYoungest(InsertHistory(r, m), T)
    <3> HIDE DEF m
    <3>1. QED
      BY <1>1, <1>2, <1>5, <2>1, InsertYoungest
  <2>8. QED
    BY <2>6, <2>7
<1>6. QED
  BY <1>4, <1>5

LEMMA MergeYoungest ==
  ASSUME NEW s \in Seq(Message), Sorted(s), Len(s) <= MaxMessages, NEW page \in Seq(PageMessage)
  PROVE  \E S : Covers(S, s, page, Len(page)) /\ IsYoungest(MergeHistory(s, page), S)
<1>1. Log(s)
  BY SortedIsLog DEF Log
<1>2. PICK f : IsMerge(f, s, page)
  BY <1>1, MergeStepwise
<1> DEFINE n == Len(page)
           K == {i \in 0..n : \E S : Covers(S, s, page, i) /\ IsYoungest(f[i], S)}
<1>3. n \in Nat
  OBVIOUS
<1>4. 0 \in K
  <2>1. IsYoungest(s, Items(s))
    BY DEF IsYoungest
  <2>2. Items(s) \in SUBSET Message
    BY DEF Items
  <2>3. Apart(Items(s))
    BY SortedIsLog DEF Apart, Items, DistinctIds
  <2>4. IsFiniteSet(Items(s))
    <3>1. Distinct(s)
      BY SortedIsLog DEF DistinctIds, Distinct
    <3>2. QED
      BY <3>1, CountItems
  <2>5. Covers(Items(s), s, page, 0)
    BY <2>2, <2>3, <2>4 DEF Covers
  <2>6. f[0] = s
    BY <1>2 DEF IsMerge
  <2>7. QED
    BY <1>3, <2>1, <2>5, <2>6
<1>5. ASSUME NEW i \in 0..n, i < n, i \in K
      PROVE  i+1 \in K
  <2>1. i+1 \in 1..n /\ (i+1)-1 = i /\ i+1 \in 0..n
    BY <1>3, <1>5
  <2>2. f[i+1] = InsertHistory(f[i], page[i+1])
    BY <1>2, <1>5 DEF IsMerge
  <2>3. PICK S : Covers(S, s, page, (i+1)-1) /\ IsYoungest(f[i], S)
    BY <1>5, <2>1
  <2>4. \E T : Covers(T, s, page, i+1) /\ IsYoungest(InsertHistory(f[i], page[i+1]), T)
    BY <2>1, <2>3, MoreIsCovered
  <2>5. QED
    BY <2>1, <2>2, <2>4
<1> HIDE DEF K
<1>6. 0..n \subseteq K
  BY <1>3, <1>4, <1>5, UpTo
<1>7. n \in K
  BY <1>3, <1>6
<1>8. QED
  BY <1>2, <1>7 DEF K, IsMerge

LEMMA SliceCount ==
  ASSUME NEW s \in Seq(Message), DistinctIds(s), NEW a \in Nat \ {0}, NEW b \in Nat,
         b <= Len(s), a <= b+1
  PROVE  Cardinality({s[j] : j \in a..b}) = (b+1) - a
<1> DEFINE f == [j \in a..b |-> s[j]]
           T == {s[j] : j \in a..b}
<1>1. \A j \in a..b : j \in DOMAIN s
  OBVIOUS
<1>2. \A i, j \in a..b : s[i] = s[j] => i = j
  BY <1>1 DEF DistinctIds
<1>3. f \in Surjection(a..b, T)
  BY DEF Surjection
<1>4. f \in Injection(a..b, T)
  BY <1>2 DEF Injection, IsInjective
<1> HIDE DEF f, T
<1>5. IsFiniteSet(a..b) /\ Cardinality(a..b) = (b+1) - a
  <2>1. a \in Int /\ b \in Int
    OBVIOUS
  <2>2. IsFiniteSet(a..b) /\ Cardinality(a..b) = IF a > b THEN 0 ELSE b-a+1
    BY ONLY <2>1, FS_Interval
  <2>3. (IF a > b THEN 0 ELSE b-a+1) = (b+1) - a
    OBVIOUS
  <2>4. QED
    BY <2>2, <2>3
<1>6. Cardinality(T) = Cardinality(a..b)
  BY <1>3, <1>4, <1>5, FS_Surjection
<1>7. QED
  BY <1>5, <1>6 DEF T

\* The list of the youngest is the one that the reference definition gives.
LEMMA YoungestIs ==
  ASSUME NEW S \in SUBSET Message, IsFiniteSet(S), NEW s, IsYoungest(s, S)
  PROVE  s = Youngest(S, MaxMessages)
<1> DEFINE n == Len(s)
           above(m) == {o \in S : o.id > m.id}
           keep == {m \in S : Cardinality(above(m)) < MaxMessages}
<1>1. s \in Seq(Message) /\ n \in Nat /\ n <= MaxMessages /\ DOMAIN s = 1..n /\ Items(s) \subseteq S
  BY DEF IsYoungest
<1>2. \A i, j \in 1..n : i < j => s[i].id < s[j].id
  BY <1>1 DEF IsYoungest, Sorted
<1>3. \A m \in S : m.id \in Nat
  BY IdsAreNumbers
<1>4. \A i \in 1..n : s[i] \in S /\ s[i] \in Items(s)
  BY <1>1 DEF Items
<1>5. \A m \in S \ Items(s) : n = MaxMessages /\ \A o \in Items(s) : m.id < o.id
  BY DEF IsYoungest
<1>6. DistinctIds(s)
  BY <1>1, SortedIsLog DEF IsYoungest
<1>7. \A x \in Items(s) : \E j \in 1..n : x = s[j]
  BY <1>1 DEF Items
<1> HIDE DEF n
<1>8. \A i, j \in 1..n : s[i].id < s[j].id <=> i < j
  <2> SUFFICES ASSUME NEW i \in 1..n, NEW j \in 1..n, s[i].id < s[j].id PROVE i < j
    BY <1>2
  <2>1. s[i].id \in Nat /\ s[j].id \in Nat
    BY <1>3, <1>4
  <2>2. i < j \/ i = j \/ j < i
    OBVIOUS
  <2>3. ~(j < i)
    BY <1>2, <2>1
  <2>4. i # j
    BY <2>1
  <2>5. QED
    BY <2>2, <2>3, <2>4
<1>9. ASSUME NEW i \in 1..n
      PROVE  Cardinality(above(s[i])) < MaxMessages
  <2>1. above(s[i]) \subseteq {s[j] : j \in i+1..n}
    <3> SUFFICES ASSUME NEW o \in S, o.id > s[i].id PROVE \E j \in i+1..n : o = s[j]
      OBVIOUS
    <3>1. o.id \in Nat /\ s[i].id \in Nat
      BY <1>3, <1>4
    <3>2. o \in Items(s)
      BY <1>4, <1>5, <3>1
    <3>3. PICK j \in 1..n : o = s[j]
      BY <1>7, <3>2
    <3>4. i < j
      BY <1>8, <3>1, <3>3
    <3>5. j \in i+1..n
      BY <3>4
    <3>6. QED
      BY <3>3, <3>5
  <2>2. {s[j] : j \in i+1..n} \subseteq above(s[i])
    <3> SUFFICES ASSUME NEW j \in i+1..n PROVE s[j] \in S /\ s[j].id > s[i].id
      OBVIOUS
    <3>1. j \in 1..n /\ i < j
      OBVIOUS
    <3>2. QED
      BY <1>3, <1>4, <1>8, <3>1
  <2>3. Cardinality({s[j] : j \in i+1..n}) = (n+1) - (i+1)
    <3>1. i+1 \in Nat \ {0} /\ n <= Len(s) /\ i+1 <= n+1
      BY <1>1 DEF n
    <3>2. QED
      BY <1>1, <1>6, <3>1, SliceCount
  <2>4. (n+1) - (i+1) < MaxMessages
    BY <1>1
  <2>5. above(s[i]) = {s[j] : j \in i+1..n}
    BY <2>1, <2>2
  <2>6. QED
    BY <2>3, <2>4, <2>5
<1>10. IsFiniteSet(Items(s)) /\ Cardinality(Items(s)) = n
  BY <1>1, <1>6, CountItems DEF DistinctIds, Distinct, n
<1>11. ASSUME NEW m \in S \ Items(s)
       PROVE  ~(Cardinality(above(m)) < MaxMessages)
  <2>1. Items(s) \subseteq above(m)
    <3> SUFFICES ASSUME NEW o \in Items(s) PROVE o \in S /\ o.id > m.id
      OBVIOUS
    <3>1. m.id < o.id /\ o \in S
      BY <1>1, <1>5
    <3>2. QED
      BY <1>3, <3>1
  <2>2. IsFiniteSet(above(m))
    BY FS_Subset
  <2> HIDE DEF above
  <2>3. Cardinality(Items(s)) <= Cardinality(above(m)) /\ Cardinality(above(m)) \in Nat
    BY <2>1, <2>2, FS_Subset, FS_CardinalityType
  <2>4. QED
    BY <1>1, <1>5, <1>10, <2>3
<1>12. keep = Items(s)
  <2>1. \A m \in Items(s) : m \in keep
    BY <1>1, <1>7, <1>9
  <2>2. \A m \in S : m \notin Items(s) => m \notin keep
    BY <1>11
  <2>3. QED
    BY <2>1, <2>2
<1>13. Youngest(S, MaxMessages) =
         [i \in 1..Cardinality(keep) |->
            CHOOSE m \in keep : Cardinality({o \in keep : o.id < m.id}) = i - 1]
  BY DEF Youngest
<1> HIDE DEF above, keep
<1>14. ASSUME NEW i \in 1..n
       PROVE  Cardinality({o \in keep : o.id < s[i].id}) = i - 1
  <2>1. {o \in keep : o.id < s[i].id} = {s[j] : j \in 1..i-1}
    <3>1. \A o \in keep : o.id < s[i].id => \E j \in 1..i-1 : o = s[j]
      <4> SUFFICES ASSUME NEW o \in keep, o.id < s[i].id PROVE \E j \in 1..i-1 : o = s[j]
        OBVIOUS
      <4>1. PICK j \in 1..n : o = s[j]
        BY <1>7, <1>12
      <4>2. j < i
        BY <1>8, <4>1
      <4>3. j \in 1..i-1
        BY <4>2
      <4>4. QED
        BY <4>1, <4>3
    <3>2. \A j \in 1..i-1 : s[j] \in keep /\ s[j].id < s[i].id
      <4>1. \A j \in 1..i-1 : j \in 1..n /\ j < i
        BY <1>1
      <4>2. QED
        BY <1>4, <1>8, <1>12, <4>1
    <3>3. QED
      BY <3>1, <3>2
  <2>2. 1 \in Nat \ {0} /\ i-1 \in Nat /\ i-1 <= Len(s) /\ 1 <= (i-1)+1
    BY <1>1 DEF n
  <2>3. Cardinality({s[j] : j \in 1..i-1}) = ((i-1)+1) - 1
    BY <1>1, <1>6, <2>2, SliceCount
  <2>4. ((i-1)+1) - 1 = i - 1
    OBVIOUS
  <2>5. QED
    BY <2>1, <2>3, <2>4
<1>15. ASSUME NEW i \in 1..n
       PROVE  (CHOOSE m \in keep : Cardinality({o \in keep : o.id < m.id}) = i - 1) = s[i]
  <2>1. s[i] \in keep /\ Cardinality({o \in keep : o.id < s[i].id}) = i - 1
    BY <1>4, <1>12, <1>14
  <2>2. ASSUME NEW m \in keep, Cardinality({o \in keep : o.id < m.id}) = i - 1
        PROVE  m = s[i]
    <3>1. PICK k \in 1..n : m = s[k]
      BY <1>7, <1>12
    <3>2. k - 1 = i - 1
      BY <1>14, <2>2, <3>1
    <3>3. k = i
      BY <3>2
    <3>4. QED
      BY <3>1, <3>3
  <2>3. QED
    BY <2>1, <2>2
<1>16. Youngest(S, MaxMessages) = [i \in 1..n |-> s[i]]
  BY <1>10, <1>12, <1>13, <1>15
<1>17. s = [i \in 1..n |-> s[i]]
  BY <1>1 DEF n
<1>18. QED
  BY <1>16, <1>17

\* Two copies of a message on one page are the same.
OneCopy(page) ==
  \A p, q \in Items(page) : p.authored /\ q.authored /\ p.id = q.id => p = q

\* A page of any length, in any order, merged into any timeline in snowflake order
\* leaves the youngest messages of both, as many as the limit allows, with the
\* cached body where both have the message (apply_history).
THEOREM MergeAlways ==
  ASSUME \A page \in Pages : OneCopy(page)
  PROVE  TimelinesSpec => []MergeIsYoungestOfBoth
<1>1. ASSUME Inv, NEW c \in DOMAIN channels, NEW page \in Pages, Sorted(channels[c].messages)
      PROVE  MergeHistory(channels[c].messages, page)
               = Youngest(Items(channels[c].messages) \cup FreshOf(channels[c].messages, page),
                          MaxMessages)
  <2> DEFINE s == channels[c].messages
  <2>1. s \in Seq(Message) /\ Sorted(s) /\ Len(s) <= MaxMessages
    BY <1>1, InvParts DEF Cache, Log
  <2>2. page \in Seq(PageMessage) /\ DOMAIN page = 1..Len(page)
    BY InputsAssumption
  <2> HIDE DEF s
  <2>3. PICK S : Covers(S, s, page, Len(page)) /\ IsYoungest(MergeHistory(s, page), S)
    BY <2>1, <2>2, MergeYoungest
  <2>4. ASSUME NEW e \in FreshOf(s, page) PROVE e \in S
    <3>1. PICK m \in Items(page) : m.authored /\ ~HasId(s, m.id) /\ e = [id |-> m.id, body |-> m.body]
      BY <2>4 DEF FreshOf
    <3>2. PICK j \in 1..Len(page) : page[j] = m
      BY <2>2, <3>1 DEF Items
    <3>3. PICK o \in S : o.id = m.id
      BY <2>3, <3>1, <3>2 DEF Covers
    <3>4. o \notin Items(s)
      BY <3>1, <3>3 DEF HasId, Items
    <3>5. o \in FreshOf(s, page)
      BY <2>3, <3>3, <3>4 DEF Covers
    <3>6. PICK p \in Items(page) : p.authored /\ o = [id |-> p.id, body |-> p.body]
      BY <3>5 DEF FreshOf
    <3>7. p = m
      BY <3>1, <3>3, <3>6 DEF OneCopy
    <3>8. QED
      BY <3>1, <3>3, <3>6, <3>7
  <2>5. S = Items(s) \cup FreshOf(s, page)
    BY <2>3, <2>4 DEF Covers
  <2>6. MergeHistory(s, page) = Youngest(S, MaxMessages)
    BY <2>3, YoungestIs DEF Covers
  <2>7. QED
    BY <2>5, <2>6 DEF s
<1>2. Inv => MergeIsYoungestOfBoth
  BY <1>1 DEF MergeIsYoungestOfBoth, FreshOf
<1>3. QED
  BY <1>2, InvAlways, PTL
-----------------------------------------------------------------------------
(* What a history page leaves of what is cached                            *)

KeepsLive(old, new) ==
  /\ \A i \in DOMAIN old, j \in DOMAIN new : old[i].id = new[j].id => old[i] = new[j]
  /\ \A i, j \in DOMAIN old, k, l \in DOMAIN new :
       i < j /\ old[i].id = new[k].id /\ old[j].id = new[l].id => k < l

\* In snowflake order: what is merged in has other ids, and the result is in order.
LEMMA SortedKeepsLive ==
  ASSUME NEW s \in Seq(Message), Sorted(s), Len(s) <= MaxMessages, NEW page \in Seq(PageMessage)
  PROVE  KeepsLive(s, MergeHistory(s, page))
<1> DEFINE new == MergeHistory(s, page)
<1>1. PICK S : Covers(S, s, page, Len(page)) /\ IsYoungest(new, S)
  BY MergeYoungest
<1> HIDE DEF new
<1>2. new \in Seq(Message) /\ Sorted(new) /\ Items(new) \subseteq S
  BY <1>1 DEF IsYoungest
<1>3. ASSUME NEW i \in DOMAIN s, NEW j \in DOMAIN new, s[i].id = new[j].id
      PROVE  s[i] = new[j]
  <2>1. new[j] \in Items(s) \cup FreshOf(s, page)
    BY <1>1, <1>2 DEF Covers, Items
  <2>2. new[j] \notin FreshOf(s, page)
    BY <1>3 DEF FreshOf, HasId
  <2>3. PICK k \in DOMAIN s : s[k] = new[j]
    BY <2>1, <2>2 DEF Items
  <2>4. DistinctIds(s)
    BY SortedIsLog
  <2>5. QED
    BY <1>3, <2>3, <2>4 DEF DistinctIds
<1>4. ASSUME NEW i \in DOMAIN s, NEW j \in DOMAIN s, NEW k \in DOMAIN new, NEW l \in DOMAIN new,
             i < j, s[i].id = new[k].id, s[j].id = new[l].id
      PROVE  k < l
  <2>1. new[k].id < new[l].id
    BY <1>4 DEF Sorted
  <2>2. new[k].id \in Nat /\ new[l].id \in Nat
    <3>1. new[k] \in Message /\ new[l] \in Message
      BY <1>2
    <3>2. QED
      BY <3>1, IdsAreNumbers
  <2>3. k \in Nat /\ l \in Nat
    BY <1>2
  <2>4. l < k => new[l].id < new[k].id
    BY <1>2 DEF Sorted
  <2>5. k # l /\ ~(l < k)
    BY <2>1, <2>2, <2>4
  <2>6. QED
    BY <2>3, <2>5
<1>5. QED
  BY <1>3, <1>4 DEF KeepsLive, new

\* The ids of a timeline, and its messages in their order within another.
MessageIds(s) == {m.id : m \in Items(s)}

Embeds(s, t) ==
  \E f \in [DOMAIN s -> DOMAIN t] :
    /\ \A i \in DOMAIN s : t[f[i]] = s[i]
    /\ \A i, j \in DOMAIN s : i < j => f[i] < f[j]

LEMMA EmbedsSelf == ASSUME NEW s PROVE Embeds(s, s)
<1> DEFINE f == [i \in DOMAIN s |-> i]
<1>1. f \in [DOMAIN s -> DOMAIN s] /\ \A i \in DOMAIN s : f[i] = i
  OBVIOUS
<1> HIDE DEF f
<1>2. QED
  BY <1>1 DEF Embeds

LEMMA EmbedsFurther ==
  ASSUME NEW s, NEW t, NEW u, Embeds(s, t), Embeds(t, u)
  PROVE  Embeds(s, u)
<1>1. PICK f \in [DOMAIN s -> DOMAIN t] :
        /\ \A i \in DOMAIN s : t[f[i]] = s[i]
        /\ \A i, j \in DOMAIN s : i < j => f[i] < f[j]
  BY DEF Embeds
<1>2. PICK g \in [DOMAIN t -> DOMAIN u] :
        /\ \A i \in DOMAIN t : u[g[i]] = t[i]
        /\ \A i, j \in DOMAIN t : i < j => g[i] < g[j]
  BY DEF Embeds
<1> DEFINE h == [i \in DOMAIN s |-> g[f[i]]]
<1>3. \A i \in DOMAIN s : f[i] \in DOMAIN t
  BY <1>1
<1>4. h \in [DOMAIN s -> DOMAIN u] /\ \A i \in DOMAIN s : h[i] = g[f[i]]
  BY <1>2, <1>3
<1> HIDE DEF h
<1>5. \A i \in DOMAIN s : u[h[i]] = s[i]
  BY <1>1, <1>2, <1>3, <1>4
<1>6. \A i, j \in DOMAIN s : i < j => h[i] < h[j]
  BY <1>1, <1>2, <1>3, <1>4
<1>7. QED
  BY <1>4, <1>5, <1>6 DEF Embeds

LEMMA EmbeddedIsLive ==
  ASSUME NEW s, NEW t, Embeds(s, t), DistinctIds(t)
  PROVE  KeepsLive(s, t)
<1>1. PICK f \in [DOMAIN s -> DOMAIN t] :
        /\ \A i \in DOMAIN s : t[f[i]] = s[i]
        /\ \A i, j \in DOMAIN s : i < j => f[i] < f[j]
  BY DEF Embeds
<1>2. \A i \in DOMAIN s, j \in DOMAIN t : s[i].id = t[j].id => j = f[i]
  BY <1>1 DEF DistinctIds
<1>3. QED
  BY <1>1, <1>2 DEF KeepsLive

LEMMA CountMessageIds ==
  ASSUME NEW s \in Seq(Message), DistinctIds(s)
  PROVE  IsFiniteSet(MessageIds(s)) /\ Cardinality(MessageIds(s)) = Len(s)
<1> DEFINE n == Len(s)
           f == [i \in 1..n |-> s[i].id]
<1>1. n \in Nat /\ DOMAIN s = 1..n
  OBVIOUS
<1>2. MessageIds(s) = {s[i].id : i \in 1..n}
  BY <1>1 DEF MessageIds, Items
<1>3. f \in Surjection(1..n, MessageIds(s))
  BY <1>2 DEF Surjection
<1>4. f \in Injection(1..n, MessageIds(s))
  BY <1>1, <1>2 DEF Injection, IsInjective, DistinctIds
<1> HIDE DEF n, f
<1>5. IsFiniteSet(1..n) /\ Cardinality(1..n) = n
  BY ONLY <1>1, FS_Interval
<1>6. IsFiniteSet(MessageIds(s)) /\ Cardinality(MessageIds(s)) = Cardinality(1..n)
  BY <1>3, <1>4, <1>5, FS_Surjection
<1>7. QED
  BY <1>5, <1>6 DEF n

\* Where all ids fit, nothing is pushed out.
LEMMA InsertEmbeds ==
  ASSUME NEW s, Log(s), NEW m \in PageMessage, NEW A, IsFiniteSet(A),
         Cardinality(A) <= MaxMessages, MessageIds(s) \subseteq A, m.authored => m.id \in A
  PROVE  Embeds(s, InsertHistory(s, m)) /\ MessageIds(InsertHistory(s, m)) \subseteq A
<1>1. CASE ~m.authored \/ HasId(s, m.id)
  BY <1>1, EmbedsSelf DEF InsertHistory
<1>2. CASE m.authored /\ ~HasId(s, m.id)
  <2> DEFINE n == Len(s)
  <2>1. s \in Seq(Message) /\ n \in Nat /\ DOMAIN s = 1..n /\ DistinctIds(s)
    BY DEF Log
  <2>2. PICK at \in 1..n+1, e \in Message, longer \in Seq(Message) :
          /\ e.id = m.id /\ Inserted(longer, s, at, e)
          /\ InsertHistory(s, m) = IF Len(longer) > MaxMessages THEN Tail(longer) ELSE longer
    BY <1>2, HistoryInsertion
  <2>3. Len(longer) = n + 1 /\ at \in 1..n+1 /\ DOMAIN longer = 1..n+1
    BY <2>2 DEF Inserted
  <2>4. \A j \in 1..n+1 : longer[j] = IF j < at THEN s[j] ELSE IF j = at THEN e ELSE s[j-1]
    BY <2>2 DEF Inserted
  <2>5. MessageIds(longer) = MessageIds(s) \cup {m.id}
    <3>1. Items(longer) = Items(s) \cup {e}
      BY <2>1, <2>2, InsertedItems
    <3>2. QED
      BY <2>2, <3>1 DEF MessageIds
  <2>6. ~(Len(longer) > MaxMessages)
    <3>1. IsFiniteSet(MessageIds(s)) /\ Cardinality(MessageIds(s)) = n
      BY <2>1, CountMessageIds
    <3>2. m.id \notin MessageIds(s)
      BY <1>2 DEF HasId, MessageIds, Items
    <3>3. Cardinality(MessageIds(s) \cup {m.id}) = n + 1
      BY <3>1, <3>2, FS_AddElement
    <3>4. MessageIds(s) \cup {m.id} \subseteq A
      BY <1>2
    <3>5. Cardinality(MessageIds(s) \cup {m.id}) <= Cardinality(A) /\ Cardinality(A) \in Nat
      BY <3>4, FS_Subset, FS_CardinalityType
    <3>6. n + 1 <= Cardinality(A)
      BY <3>3, <3>5
    <3>7. MaxMessages \in Nat /\ Cardinality(A) <= MaxMessages
      OBVIOUS
    <3> HIDE DEF n
    <3>8. QED
      BY ONLY <2>1, <2>3, <3>5, <3>6, <3>7
  <2>7. InsertHistory(s, m) = longer
    BY <2>2, <2>6
  <2>8. Embeds(s, longer)
    <3> DEFINE f == [i \in 1..n |-> IF i < at THEN i ELSE i+1]
    <3> HIDE DEF n
    <3>1. \A i \in 1..n : /\ f[i] = IF i < at THEN i ELSE i+1
                          /\ f[i] \in 1..n+1
      BY <2>1, <2>3
    <3>2. f \in [1..n -> 1..n+1]
      BY <3>1
    <3> HIDE DEF f
    <3>3. \A i \in 1..n : longer[f[i]] = s[i]
      <4> SUFFICES ASSUME NEW i \in 1..n PROVE longer[f[i]] = s[i]
        OBVIOUS
      <4>1. CASE i < at
        <5>1. f[i] = i /\ i \in 1..n+1
          BY <2>1, <3>1, <4>1
        <5>2. QED
          BY <2>4, <4>1, <5>1
      <4>2. CASE ~(i < at)
        <5>1. f[i] = i+1 /\ i+1 \in 1..n+1 /\ ~(i+1 < at) /\ i+1 # at /\ (i+1)-1 = i
          BY <2>1, <2>3, <3>1, <4>2
        <5>2. QED
          BY <2>4, <5>1
      <4>3. QED
        BY <4>1, <4>2
    <3>4. \A i, j \in 1..n : i < j => f[i] < f[j]
      BY <2>1, <2>3, <3>1
    <3>5. QED
      BY <2>1, <2>3, <3>2, <3>3, <3>4 DEF Embeds
  <2>9. QED
    BY <1>2, <2>5, <2>7, <2>8
<1>3. QED
  BY <1>1, <1>2 DEF PageMessage

LEMMA PageIdsFinite ==
  ASSUME NEW page \in Seq(PageMessage)
  PROVE  IsFiniteSet({m.id : m \in {p \in Items(page) : p.authored}})
<1> DEFINE n == Len(page)
           f == [i \in 1..n |-> page[i].id]
           T == {page[i].id : i \in 1..n}
<1>1. n \in Nat /\ DOMAIN page = 1..n
  OBVIOUS
<1>2. f \in Surjection(1..n, T)
  BY DEF Surjection
<1>3. {m.id : m \in {p \in Items(page) : p.authored}} \subseteq T
  BY <1>1 DEF Items
<1> HIDE DEF n, f, T
<1>4. IsFiniteSet(1..n)
  BY ONLY <1>1, FS_Interval
<1>5. IsFiniteSet(T)
  BY <1>2, <1>4, FS_Surjection
<1>6. QED
  BY <1>3, <1>5, FS_Subset

\* When the page fits, in whatever order timeline and page are.
LEMMA FittingEmbeds ==
  ASSUME NEW s, Log(s), NEW page \in Seq(PageMessage), Fits(s, page)
  PROVE  Embeds(s, MergeHistory(s, page))
<1> DEFINE n == Len(page)
           A == MessageIds(s) \cup {m.id : m \in {p \in Items(page) : p.authored}}
<1>1. n \in Nat /\ DOMAIN page = 1..n
  OBVIOUS
<1>2. IsFiniteSet(A) /\ Cardinality(A) <= MaxMessages /\ MessageIds(s) \subseteq A
  <2>1. IsFiniteSet(MessageIds(s))
    BY CountMessageIds DEF Log
  <2>2. IsFiniteSet({m.id : m \in {p \in Items(page) : p.authored}})
    BY PageIdsFinite
  <2>3. IsFiniteSet(A)
    BY <2>1, <2>2, FS_Union
  <2>4. QED
    BY <2>3 DEF Fits, MessageIds
<1>3. \A i \in 1..n : page[i] \in PageMessage /\ (page[i].authored => page[i].id \in A)
  BY <1>1 DEF Items
<1>4. PICK f : IsMerge(f, s, page)
  BY MergeStepwise
<1> HIDE DEF A
<1> DEFINE K == {i \in 0..n : Embeds(s, f[i]) /\ MessageIds(f[i]) \subseteq A}
<1>5. 0 \in K
  BY <1>1, <1>2, <1>4, EmbedsSelf DEF IsMerge
<1>6. ASSUME NEW i \in 0..n, i < n, i \in K
      PROVE  i+1 \in K
  <2>1. i+1 \in 1..n /\ i+1 \in 0..n
    BY <1>1, <1>6
  <2>2. f[i+1] = InsertHistory(f[i], page[i+1]) /\ Log(f[i])
    BY <1>4, <1>6 DEF IsMerge
  <2>3. page[i+1] \in PageMessage /\ (page[i+1].authored => page[i+1].id \in A)
    BY <1>3, <2>1
  <2>4. Embeds(f[i], f[i+1]) /\ MessageIds(f[i+1]) \subseteq A
    BY <1>2, <1>6, <2>2, <2>3, InsertEmbeds
  <2>5. Embeds(s, f[i+1])
    BY <1>6, <2>4, EmbedsFurther
  <2>6. QED
    BY <2>1, <2>4, <2>5
<1> HIDE DEF K
<1>7. 0..n \subseteq K
  BY <1>1, <1>5, <1>6, UpTo
<1>8. n \in K /\ n \in 0..n
  BY <1>1, <1>7
<1>9. Embeds(s, f[n]) /\ MergeHistory(s, page) = f[n]
  BY <1>4, <1>8 DEF K, IsMerge
<1>10. QED
  BY <1>9

LEMMA FittingKeepsLive ==
  ASSUME NEW s, Log(s), NEW page \in Seq(PageMessage), Fits(s, page)
  PROVE  KeepsLive(s, MergeHistory(s, page))
  BY FittingEmbeds, MergeHistoryKeepsLog, EmbeddedIsLive DEF Log

\* Whatever the order, every message of the result was cached or is of the page.
LEMMA MergeSources ==
  ASSUME NEW s, Log(s), NEW page \in Seq(PageMessage)
  PROVE  \A o \in Items(MergeHistory(s, page)) :
           o \in Items(s) \/ \E p \in Items(page) :
                               p.authored /\ o = [id |-> p.id, body |-> p.body]
<1> DEFINE n == Len(page)
           C == {[id |-> p.id, body |-> p.body] : p \in {q \in Items(page) : q.authored}}
<1>1. n \in Nat /\ DOMAIN page = 1..n
  OBVIOUS
<1>2. \A i \in 1..n : page[i] \in PageMessage /\ page[i] \in Items(page)
  BY <1>1 DEF Items
<1>3. \A p \in Items(page) : p.authored => [id |-> p.id, body |-> p.body] \in C
  OBVIOUS
<1>4. \A o \in C : \E p \in Items(page) : p.authored /\ o = [id |-> p.id, body |-> p.body]
  OBVIOUS
<1> HIDE DEF C
<1>5. PICK f : IsMerge(f, s, page)
  BY MergeStepwise
<1>6. ASSUME NEW r, Log(r), NEW p \in Items(page), p \in PageMessage
      PROVE  Items(InsertHistory(r, p)) \subseteq Items(r) \cup C
  <2>1. CASE ~p.authored \/ HasId(r, p.id)
    BY <2>1 DEF InsertHistory
  <2>2. CASE p.authored /\ ~HasId(r, p.id)
    <3>1. PICK at \in 1..Len(r)+1, e \in Message, longer \in Seq(Message) :
            /\ e = [id |-> p.id, body |-> p.body]
            /\ Inserted(longer, r, at, e)
            /\ InsertHistory(r, p) = IF Len(longer) > MaxMessages THEN Tail(longer)
                                           ELSE longer
      BY <1>2, <1>6, <2>2, HistoryInsertion
    <3>2. Items(longer) = Items(r) \cup {e} /\ e \in C
      BY <1>2, <1>3, <1>6, <2>2, <3>1, InsertedItems DEF Log
    <3>3. longer # << >>
      BY <3>1, <3>2 DEF Inserted
    <3>4. Items(Tail(longer)) \subseteq Items(longer)
      BY <3>3, TailItems
    <3>5. QED
      BY <3>1, <3>2, <3>4
  <2>3. QED
    BY <2>1, <2>2
<1> DEFINE K == {i \in 0..n : Items(f[i]) \subseteq Items(s) \cup C}
<1>7. 0 \in K
  BY <1>1, <1>5 DEF IsMerge
<1>8. ASSUME NEW i \in 0..n, i < n, i \in K
      PROVE  i+1 \in K
  <2>1. i+1 \in 1..n /\ i+1 \in 0..n
    BY <1>1, <1>8
  <2>2. f[i+1] = InsertHistory(f[i], page[i+1]) /\ Log(f[i])
    BY <1>5, <1>8 DEF IsMerge
  <2>3. Items(f[i+1]) \subseteq Items(f[i]) \cup C
    BY <1>2, <1>6, <2>1, <2>2
  <2>4. QED
    BY <1>8, <2>1, <2>3
<1> HIDE DEF K
<1>9. 0..n \subseteq K
  BY <1>1, <1>7, <1>8, UpTo
<1>10. n \in K
  BY <1>1, <1>9
<1>11. QED
  BY <1>4, <1>5, <1>10 DEF K, IsMerge

\* In order or with room, what is new has an id that was not cached.
LEMMA MergeBringsNew ==
  ASSUME NEW s, Log(s), NEW page \in Seq(PageMessage), Sorted(s) \/ Fits(s, page)
  PROVE  \A o \in Items(MergeHistory(s, page)) :
           o \in Items(s) \/ \E p \in Items(page) :
             p.authored /\ ~HasId(s, p.id) /\ o = [id |-> p.id, body |-> p.body]
<1> DEFINE t == MergeHistory(s, page)
<1>1. KeepsLive(s, t)
  BY SortedKeepsLive, FittingKeepsLive DEF Log
<1> SUFFICES ASSUME NEW o \in Items(t), o \notin Items(s)
             PROVE  \E p \in Items(page) :
                      p.authored /\ ~HasId(s, p.id) /\ o = [id |-> p.id, body |-> p.body]
  OBVIOUS
<1>2. PICK p \in Items(page) : p.authored /\ o = [id |-> p.id, body |-> p.body]
  BY MergeSources
<1> HIDE DEF t
<1>3. ~HasId(s, o.id)
  BY <1>1 DEF HasId, KeepsLive, Items
<1>4. QED
  BY <1>2, <1>3

\* A live message is cached then, and the others are what they were.
LEMMA UpsertItems ==
  ASSUME NEW s, Log(s), NEW m \in Message
  PROVE  /\ m \in Items(Upsert(s, m))
         /\ \A o \in Items(Upsert(s, m)) : o = m \/ (o \in Items(s) /\ o.id # m.id)
<1> DEFINE k == LastIndexOf(s, m.id)
           t == [s EXCEPT ![k] = m]
           u == PushBounded(s, m, MaxMessages)
<1>1. s \in Seq(Message) /\ DistinctIds(s)
  BY DEF Log
<1>2. CASE HasId(s, m.id)
  <2>1. Upsert(s, m) = t
    BY <1>2 DEF Upsert
  <2>2. k \in DOMAIN s /\ s[k].id = m.id
    BY <1>1, <1>2, LastIndexExists
  <2> HIDE DEF k
  <2>3. DOMAIN t = DOMAIN s /\ \A i \in DOMAIN s : t[i] = IF i = k THEN m ELSE s[i]
    OBVIOUS
  <2> HIDE DEF t
  <2>4. m \in Items(t)
    BY <2>2, <2>3 DEF Items
  <2>5. ASSUME NEW i \in DOMAIN s, i # k PROVE s[i].id # m.id /\ s[i] \in Items(s)
    BY <1>1, <2>2, <2>5 DEF DistinctIds, Items
  <2>6. \A o \in Items(t) : o = m \/ (o \in Items(s) /\ o.id # m.id)
    BY <2>3, <2>5 DEF Items
  <2>7. QED
    BY <2>1, <2>4, <2>6
<1>3. CASE ~HasId(s, m.id)
  <2>1. Upsert(s, m) = u
    BY <1>3 DEF Upsert
  <2>2. m \in Items(u) /\ Items(u) \subseteq Items(s) \cup {m}
    BY <1>1, PushItems
  <2>3. \A o \in Items(s) : o.id # m.id
    BY <1>3 DEF HasId, Items
  <2>4. QED
    BY <2>1, <2>2, <2>3
<1>4. QED
  BY <1>2, <1>3

\* Where all ids fit, none is pushed out.
LEMMA UpsertKeepsIds ==
  ASSUME NEW s, Log(s), NEW m \in Message, NEW A, IsFiniteSet(A),
         Cardinality(A) <= MaxMessages, MessageIds(s) \subseteq A, m.id \in A
  PROVE  MessageIds(s) \subseteq MessageIds(Upsert(s, m))
<1> DEFINE k == LastIndexOf(s, m.id)
           t == [s EXCEPT ![k] = m]
           n == Len(s)
<1>1. s \in Seq(Message) /\ DistinctIds(s) /\ n \in Nat
  BY DEF Log
<1>2. CASE HasId(s, m.id)
  <2>1. Upsert(s, m) = t
    BY <1>2 DEF Upsert
  <2>2. k \in DOMAIN s /\ s[k].id = m.id
    BY <1>1, <1>2, LastIndexExists
  <2> HIDE DEF k
  <2>3. DOMAIN t = DOMAIN s /\ \A i \in DOMAIN s : t[i] = IF i = k THEN m ELSE s[i]
    OBVIOUS
  <2> HIDE DEF t
  <2>4. \A i \in DOMAIN s : t[i].id = s[i].id
    BY <2>2, <2>3
  <2>5. QED
    BY <2>1, <2>3, <2>4 DEF MessageIds, Items
<1>3. CASE ~HasId(s, m.id)
  <2>1. Upsert(s, m) = PushBounded(s, m, MaxMessages)
    BY <1>3 DEF Upsert
  <2>2. ~(n >= MaxMessages)
    <3>1. IsFiniteSet(MessageIds(s)) /\ Cardinality(MessageIds(s)) = n
      BY <1>1, CountMessageIds
    <3>2. m.id \notin MessageIds(s)
      BY <1>3 DEF HasId, MessageIds, Items
    <3>3. Cardinality(MessageIds(s) \cup {m.id}) = n + 1
      BY <3>1, <3>2, FS_AddElement
    <3>4. MessageIds(s) \cup {m.id} \subseteq A
      OBVIOUS
    <3>5. Cardinality(MessageIds(s) \cup {m.id}) <= Cardinality(A) /\ Cardinality(A) \in Nat
      BY <3>4, FS_Subset, FS_CardinalityType
    <3>6. n + 1 <= Cardinality(A)
      BY <3>3, <3>5
    <3>7. MaxMessages \in Nat /\ Cardinality(A) <= MaxMessages
      OBVIOUS
    <3> HIDE DEF n
    <3>8. QED
      BY ONLY <1>1, <3>5, <3>6, <3>7
  <2>3. \A o \in Items(s) : o \in Items(PushBounded(s, m, MaxMessages))
    BY <1>1, <2>2, PushItems
  <2>4. QED
    BY <2>1, <2>3 DEF MessageIds
<1>4. QED
  BY <1>2, <1>3

LEMMA HistoryStepIsLive ==
  ASSUME Inv, NEW c \in ChannelIds, NEW page \in Pages, ApplyHistory(c, page),
         NEW d \in DOMAIN channels \cap DOMAIN channels',
         d # c \/ Sorted(channels[d].messages) \/ Fits(channels[d].messages, page)
  PROVE  KeepsLive(channels[d].messages, channels'[d].messages)
<1>1. Cache(channels, clock) /\ Log(channels[d].messages) /\ page \in Seq(PageMessage)
  BY InvParts, InputsAssumption DEF Cache
<1>2. CASE channels'[d] = channels[d]
  BY <1>1, <1>2, EmbedsSelf, EmbeddedIsLive DEF Log
<1>3. CASE ~IsRetired(c) /\ channels' = LET open == Opened(channels, c, clock')
                                       IN  [open EXCEPT ![c].messages = MergeHistory(@, page)]
  <2> DEFINE open == Opened(channels, c, clock')
  <2>1. open[d].messages = channels[d].messages \/ d \notin DOMAIN open
    BY DEF Opened, Without
  <2>2. DOMAIN channels' = DOMAIN open
    BY <1>3
  <2>3. channels'[d].messages = IF d = c THEN MergeHistory(channels[d].messages, page)
                                ELSE channels[d].messages
    <3> HIDE DEF open
    <3>1. channels' = [open EXCEPT ![c].messages = MergeHistory(open[c].messages, page)]
      BY <1>3 DEF open
    <3>2. d \in DOMAIN open /\ open[d].messages = channels[d].messages
      BY <2>1, <2>2
    <3>3. QED
      BY <3>1, <3>2
  <2>4. CASE d # c
    BY <1>1, <2>3, <2>4, EmbedsSelf, EmbeddedIsLive DEF Log
  <2>5. CASE d = c /\ Sorted(channels[d].messages)
    BY <1>1, <2>3, <2>5, SortedKeepsLive DEF Log
  <2>6. CASE d = c /\ Fits(channels[d].messages, page)
    BY <1>1, <2>3, <2>6, FittingKeepsLive
  <2>7. QED
    BY <2>4, <2>5, <2>6
<1>4. QED
  BY <1>2, <1>3 DEF ApplyHistory, timelineVars

\* No page changes the body or the order of what is cached, whatever its length and
\* order, while the timeline is in snowflake order or has room for it (apply_history).
THEOREM LiveAlways == TimelinesSpec => HistoryKeepsLiveState
<1> DEFINE Step == \A c \in ChannelIds, page \in Pages : ApplyHistory(c, page) =>
       \A d \in DOMAIN channels \cap DOMAIN channels' :
         LET old == channels[d].messages
             new == channels'[d].messages
         IN  d # c \/ Sorted(old) \/ Fits(old, page) =>
               /\ \A i \in DOMAIN old, j \in DOMAIN new :
                    old[i].id = new[j].id => old[i] = new[j]
               /\ \A i, j \in DOMAIN old, k, l \in DOMAIN new :
                    i < j /\ old[i].id = new[k].id /\ old[j].id = new[l].id => k < l
<1>1. Inv => Step
  BY HistoryStepIsLive DEF KeepsLive
<1> HIDE DEF Step
<1>2. Inv /\ [TimelinesNext]_timelineVars => [Step]_timelineVars
  BY <1>1
<1>3. TimelinesSpec => [][Step]_timelineVars
  BY <1>2, InvAlways, PTL DEF TimelinesSpec
<1>4. QED
  BY <1>3 DEF Step, HistoryKeepsLiveState
=============================================================================
