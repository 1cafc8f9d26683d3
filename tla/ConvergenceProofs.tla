-------------------------- MODULE ConvergenceProofs --------------------------
(***************************************************************************)
(* Both caches of the frontend agree with the server once the Gateway      *)
(* events are applied.  The message cache (Convergence): an invariant over *)
(* what is still on its way, the events of the queue and the answers of    *)
(* the REST worker, from which AgreesUnlessCrossed and CompleteWhileRoom   *)
(* follow for any number of messages, events, requests and answers.  The   *)
(* navigation cache (Mirror): the events on their way lead from what is    *)
(* shown to what the server has told, for any guild that fits the bounds,  *)
(* any capacity of the bus and any way it is overtaken.                    *)
(***************************************************************************)
EXTENDS Convergence, Mirror, FrontendProofs

USE ConvergenceAssumption
----------------------------------------------------------------------------
(* What is on its way                                                      *)

QueueEvent ==
  [kind : {"create"}, id : MsgIds, body : Bodies]
    \cup [kind : {"update"}, id : MsgIds, body : Bodies \cup {Unchanged}]
    \cup [kind : {"delete"}, id : MsgIds]

Answer ==
  [kind : {"sent"}, id : MsgIds, body : Bodies, at : Nat]
    \cup [kind : {"edited"}, id : MsgIds, body : Bodies, authored : BOOLEAN, at : Nat]
    \cup [kind : {"deleted"}, id : MsgIds, at : Nat]
    \cup [kind : {"page"}, page : Seq(PageMessage), at : Nat]

\* The messages an answer brings.
Brought(a) ==
  IF a.kind \in {"sent", "edited"} THEN {[id |-> a.id, body |-> a.body]}
  ELSE IF a.kind = "page" THEN {[id |-> p.id, body |-> p.body] : p \in Items(a.page)}
  ELSE {}

LEMMA EventFields ==
  ASSUME NEW e \in QueueEvent
  PROVE  /\ e.kind \in {"create", "update", "delete"} /\ e.id \in MsgIds
         /\ e.kind = "create" => e.body \in Bodies
         /\ e.kind = "update" => e.body \in Bodies \cup {Unchanged}
BY DEF QueueEvent

LEMMA EventsTyped ==
  ASSUME NEW id \in MsgIds
  PROVE  /\ \A b \in Bodies : [kind |-> "create", id |-> id, body |-> b] \in QueueEvent
         /\ \A b \in Bodies \cup {Unchanged} :
              [kind |-> "update", id |-> id, body |-> b] \in QueueEvent
         /\ [kind |-> "delete", id |-> id] \in QueueEvent
BY DEF QueueEvent

LEMMA AnswerFields ==
  ASSUME NEW a \in Answer
  PROVE  /\ a.kind \in {"sent", "edited", "deleted", "page"} /\ a.at \in Nat
         /\ a.kind \in {"sent", "edited", "deleted"} => a.id \in MsgIds
         /\ a.kind \in {"sent", "edited"} => a.body \in Bodies
         /\ a.kind = "page" => a.page \in Seq(PageMessage)
BY DEF Answer

LEMMA AnswersTyped ==
  ASSUME NEW at \in Nat
  PROVE  /\ \A id \in MsgIds, b \in Bodies :
              [kind |-> "sent", id |-> id, body |-> b, at |-> at] \in Answer
         /\ \A id \in MsgIds, b \in Bodies, y \in BOOLEAN :
              [kind |-> "edited", id |-> id, body |-> b, authored |-> y, at |-> at] \in Answer
         /\ \A id \in MsgIds : [kind |-> "deleted", id |-> id, at |-> at] \in Answer
         /\ \A p \in Seq(PageMessage) : [kind |-> "page", page |-> p, at |-> at] \in Answer
BY DEF Answer

\* An event after which the body of its message is known.
Sets(e) == e.kind # "update" \/ e.body # Unchanged
About(e, id) == e.id = id /\ Sets(e)
Pending(q, id) == \E i \in DOMAIN q : About(q[i], id)

\* The server has the message with that body; it has what the event made of it.
IsLive(lv, id, body) == id \in DOMAIN lv /\ lv[id] = body
Comes(lv, e) == IF e.kind = "delete" THEN e.id \notin DOMAIN lv ELSE IsLive(lv, e.id, e.body)

\* What is cached with that body agrees with the server in the end.
Agrees(q, lv, id, body) == Pending(q, id) \/ IsLive(lv, id, body)

\* The last event of the queue about a message tells what the server has.
LastWord(q, i) == Sets(q[i]) /\ \A j \in DOMAIN q : j > i => ~About(q[j], q[i].id)
QueueTells(q, lv) == \A i \in DOMAIN q : LastWord(q, i) => Comes(lv, q[i])

\* Whether the i-th event of the queue, of which the last has number n, was sent
\* before an answer with number at.
Before(q, n, i, at) == i + n <= at + Len(q)

\* A message m of an answer with number at.  What was sent before it ends with m,
\* so that it does no harm to apply that after the answer; and once nothing more
\* is to come, m is what the server has, unless a newer event has been heard.
AnswerTells(m, at, q, n, lv, h) ==
  /\ at <= n
  /\ \A i \in DOMAIN q :
       /\ About(q[i], m.id) /\ Before(q, n, i, at)
       /\ \A j \in DOMAIN q : j > i /\ Before(q, n, j, at) => ~About(q[j], m.id)
       => q[i].kind # "delete" /\ q[i].body = m.body
  /\ h[m.id] > at \/ Agrees(q, lv, m.id, m.body)

\* The server changes as event e says.
Changes(lv, e, after) ==
  /\ \A id : id # e.id \/ ~Sets(e) =>
       /\ id \in DOMAIN after <=> id \in DOMAIN lv
       /\ id \in DOMAIN lv => after[id] = lv[id]
  /\ Sets(e) => Comes(after, e)
----------------------------------------------------------------------------
(* One more event is sent                                                  *)

LEMMA Longer ==
  ASSUME NEW q \in Seq(QueueEvent), NEW e \in QueueEvent
  PROVE  LET r == Append(q, e)
         IN  /\ r \in Seq(QueueEvent) /\ Len(r) = Len(q) + 1 /\ Len(q) \in Nat
             /\ DOMAIN q = 1..Len(q) /\ DOMAIN r = 1..(Len(q) + 1)
             /\ \A i \in 1..Len(q) : i \in 1..(Len(q) + 1) /\ r[i] = q[i]
             /\ r[Len(q) + 1] = e /\ Len(q) + 1 \in 1..(Len(q) + 1)
             /\ \A i \in 1..(Len(q) + 1) : i \in 1..Len(q) \/ i = Len(q) + 1
OBVIOUS

LEMMA AgreesLonger ==
  ASSUME NEW q \in Seq(QueueEvent), NEW e \in QueueEvent, NEW lv, NEW after, Changes(lv, e, after),
         NEW id, NEW body, Agrees(q, lv, id, body)
  PROVE  Agrees(Append(q, e), after, id, body)
<1> DEFINE r == Append(q, e)
           n == Len(q)
<1>1. /\ DOMAIN q = 1..n /\ DOMAIN r = 1..(n + 1)
      /\ \A i \in 1..n : i \in 1..(n + 1) /\ r[i] = q[i]
      /\ r[n + 1] = e /\ n + 1 \in 1..(n + 1)
  BY Longer
<1> HIDE DEF r, n
<1>2. CASE Pending(q, id)
  <2>1. Pending(r, id)
    BY <1>1, <1>2 DEF Pending
  <2>2. QED
    BY <2>1 DEF Agrees, r
<1>3. CASE IsLive(lv, id, body) /\ About(e, id)
  <2>1. Pending(r, id)
    BY <1>1, <1>3 DEF Pending
  <2>2. QED
    BY <2>1 DEF Agrees, r
<1>4. CASE IsLive(lv, id, body) /\ ~About(e, id)
  BY <1>4 DEF Changes, About, IsLive, Agrees
<1>5. QED
  BY <1>2, <1>3, <1>4 DEF Agrees

LEMMA QueueLonger ==
  ASSUME NEW q \in Seq(QueueEvent), NEW e \in QueueEvent, NEW lv, NEW after, Changes(lv, e, after),
         QueueTells(q, lv)
  PROVE  QueueTells(Append(q, e), after)
<1> DEFINE r == Append(q, e)
           n == Len(q)
<1>1. /\ n \in Nat /\ DOMAIN q = 1..n /\ DOMAIN r = 1..(n + 1)
      /\ \A i \in 1..n : i \in 1..(n + 1) /\ r[i] = q[i]
      /\ r[n + 1] = e /\ n + 1 \in 1..(n + 1)
      /\ \A i \in 1..(n + 1) : i \in 1..n \/ i = n + 1
  BY Longer
<1> HIDE DEF r, n
<1>2. ASSUME NEW i \in 1..n, LastWord(r, i) PROVE Comes(after, r[i])
  <2>1. LastWord(q, i)
    BY <1>1, <1>2 DEF LastWord
  <2>2. Comes(lv, q[i])
    BY <1>1, <2>1 DEF QueueTells
  <2>3. n + 1 > i
    BY <1>1
  <2>4. ~About(e, q[i].id)
    BY <1>1, <1>2, <2>3 DEF LastWord
  <2>5. QED
    BY <1>1, <2>2, <2>4 DEF Changes, Comes, IsLive, About
<1>3. LastWord(r, n + 1) => Comes(after, r[n + 1])
  BY <1>1 DEF LastWord, Changes
<1>4. QueueTells(r, after)
  BY <1>1, <1>2, <1>3 DEF QueueTells
<1>5. QED
  BY <1>4 DEF r

LEMMA AnswerLonger ==
  ASSUME NEW q \in Seq(QueueEvent), NEW e \in QueueEvent, NEW lv, NEW after, Changes(lv, e, after),
         NEW m, NEW at \in Nat, NEW n \in Nat, NEW h, AnswerTells(m, at, q, n, lv, h)
  PROVE  AnswerTells(m, at, Append(q, e), n + 1, after, h)
<1> DEFINE r == Append(q, e)
           k == Len(q)
<1>1. /\ k \in Nat /\ DOMAIN q = 1..k /\ DOMAIN r = 1..(k + 1) /\ Len(r) = k + 1 /\ Len(q) = k
      /\ \A i \in 1..k : i \in 1..(k + 1) /\ r[i] = q[i]
      /\ r[k + 1] = e /\ k + 1 \in 1..(k + 1)
      /\ \A i \in 1..(k + 1) : i \in 1..k \/ i = k + 1
  BY Longer
<1>2. h[m.id] > at \/ Agrees(r, after, m.id, m.body)
  BY AgreesLonger DEF AnswerTells
<1> HIDE DEF r, k
<1>3. \A i \in 1..k : Before(r, n + 1, i, at) <=> Before(q, n, i, at)
  BY <1>1 DEF Before
<1>4. ~Before(r, n + 1, k + 1, at) /\ at <= n + 1
  BY <1>1 DEF Before, AnswerTells
<1>5. ASSUME NEW i \in 1..(k + 1), About(r[i], m.id), Before(r, n + 1, i, at),
             \A j \in 1..(k + 1) : j > i /\ Before(r, n + 1, j, at) => ~About(r[j], m.id)
      PROVE  r[i].kind # "delete" /\ r[i].body = m.body
  <2>1. i \in 1..k
    BY <1>1, <1>4, <1>5
  <2>2. About(q[i], m.id) /\ Before(q, n, i, at)
    BY <1>1, <1>3, <1>5, <2>1
  <2>3. \A j \in 1..k : j > i /\ Before(q, n, j, at) => ~About(q[j], m.id)
    BY <1>1, <1>3, <1>5
  <2>4. QED
    BY <1>1, <2>1, <2>2, <2>3 DEF AnswerTells
<1>6. AnswerTells(m, at, r, n + 1, after, h)
  BY <1>1, <1>2, <1>4, <1>5 DEF AnswerTells
<1>7. QED
  BY <1>6 DEF r

\* An answer that tells what the server has at this moment.
LEMMA AnswerFresh ==
  ASSUME NEW q \in Seq(QueueEvent), NEW lv, QueueTells(q, lv), NEW m, IsLive(lv, m.id, m.body),
         NEW n \in Nat, NEW h
  PROVE  AnswerTells(m, n, q, n, lv, h)
<1>1. DOMAIN q = 1..Len(q) /\ Len(q) \in Nat
  OBVIOUS
<1>2. \A j \in DOMAIN q : Before(q, n, j, n)
  BY <1>1 DEF Before
<1>3. ASSUME NEW i \in DOMAIN q, About(q[i], m.id),
             \A j \in DOMAIN q : j > i => ~About(q[j], m.id)
      PROVE  q[i].kind # "delete" /\ q[i].body = m.body
  <2>1. LastWord(q, i) /\ q[i].id = m.id
    BY <1>3 DEF LastWord, About
  <2>2. Comes(lv, q[i])
    BY <2>1 DEF QueueTells
  <2>3. QED
    BY <2>1, <2>2 DEF Comes, IsLive
<1>4. QED
  BY <1>2, <1>3 DEF AnswerTells, Agrees
----------------------------------------------------------------------------
(* The first event is applied                                              *)

LEMMA Shorter ==
  ASSUME NEW q \in Seq(QueueEvent), q # << >>
  PROVE  /\ Tail(q) \in Seq(QueueEvent) /\ Len(Tail(q)) = Len(q) - 1 /\ Len(q) \in Nat \ {0}
         /\ DOMAIN q = 1..Len(q) /\ DOMAIN Tail(q) = 1..(Len(q) - 1)
         /\ \A i \in 1..(Len(q) - 1) : i + 1 \in 1..Len(q) /\ Tail(q)[i] = q[i + 1]
         /\ 1 \in 1..Len(q) /\ Head(q) = q[1] /\ Head(q) \in QueueEvent
         /\ \A i \in 1..Len(q) : i # 1 => i - 1 \in 1..(Len(q) - 1) /\ (i - 1) + 1 = i
OBVIOUS

LEMMA QueueShorter ==
  ASSUME NEW q \in Seq(QueueEvent), q # << >>, NEW lv, QueueTells(q, lv)
  PROVE  QueueTells(Tail(q), lv)
<1> DEFINE r == Tail(q)
           n == Len(q)
<1>1. /\ n \in Nat \ {0} /\ DOMAIN q = 1..n /\ DOMAIN r = 1..(n - 1)
      /\ \A i \in 1..(n - 1) : i + 1 \in 1..n /\ r[i] = q[i + 1]
      /\ \A i \in 1..n : i # 1 => i - 1 \in 1..(n - 1) /\ (i - 1) + 1 = i
  BY Shorter
<1> HIDE DEF r, n
<1>2. ASSUME NEW i \in 1..(n - 1), LastWord(r, i) PROVE Comes(lv, r[i])
  <2>1. ASSUME NEW j \in 1..n, j > i + 1 PROVE ~About(q[j], q[i + 1].id)
    <3>1. j - 1 \in 1..(n - 1) /\ j - 1 > i /\ r[j - 1] = q[j]
      BY <1>1, <2>1
    <3>2. QED
      BY <1>1, <1>2, <3>1 DEF LastWord
  <2>2. LastWord(q, i + 1)
    BY <1>1, <1>2, <2>1 DEF LastWord
  <2>3. QED
    BY <1>1, <2>2 DEF QueueTells
<1>3. QueueTells(r, lv)
  BY <1>1, <1>2 DEF QueueTells
<1>4. QED
  BY <1>3 DEF r

\* What the first event is about is then as it says, or more is to come.
LEMMA HeadTells ==
  ASSUME NEW q \in Seq(QueueEvent), q # << >>, NEW lv, QueueTells(q, lv), Sets(Head(q)),
         ~Pending(Tail(q), Head(q).id)
  PROVE  LastWord(q, 1) /\ Comes(lv, Head(q))
<1> DEFINE r == Tail(q)
           n == Len(q)
<1>1. /\ n \in Nat \ {0} /\ DOMAIN q = 1..n /\ DOMAIN r = 1..(n - 1)
      /\ \A i \in 1..(n - 1) : i + 1 \in 1..n /\ r[i] = q[i + 1]
      /\ 1 \in 1..n /\ Head(q) = q[1]
      /\ \A i \in 1..n : i # 1 => i - 1 \in 1..(n - 1) /\ (i - 1) + 1 = i
  BY Shorter
<1> HIDE DEF n
<1>2. ASSUME NEW j \in 1..n, j > 1 PROVE ~About(q[j], q[1].id)
  <2>1. j - 1 \in 1..(n - 1) /\ r[j - 1] = q[j]
    BY <1>1, <1>2
  <2>2. QED
    BY <1>1, <2>1 DEF Pending
<1>3. LastWord(q, 1)
  BY <1>1, <1>2 DEF LastWord
<1>4. QED
  BY <1>1, <1>3 DEF QueueTells

LEMMA PendingShorter ==
  ASSUME NEW q \in Seq(QueueEvent), q # << >>, NEW id, Pending(q, id), ~About(Head(q), id)
  PROVE  Pending(Tail(q), id)
<1> DEFINE r == Tail(q)
           n == Len(q)
<1>1. /\ n \in Nat \ {0} /\ DOMAIN q = 1..n /\ DOMAIN r = 1..(n - 1)
      /\ \A i \in 1..(n - 1) : i + 1 \in 1..n /\ r[i] = q[i + 1]
      /\ Head(q) = q[1]
      /\ \A i \in 1..n : i # 1 => i - 1 \in 1..(n - 1) /\ (i - 1) + 1 = i
  BY Shorter
<1>2. PICK i \in 1..n : About(q[i], id)
  BY <1>1 DEF Pending
<1>3. i - 1 \in 1..(n - 1) /\ r[i - 1] = q[i]
  BY <1>1, <1>2
<1> HIDE DEF r, n
<1>4. Pending(r, id)
  BY <1>1, <1>2, <1>3 DEF Pending
<1>5. QED
  BY <1>4 DEF r

LEMMA AnswerShorter ==
  ASSUME NEW q \in Seq(QueueEvent), q # << >>, NEW lv, QueueTells(q, lv),
         NEW m, m.id \in MsgIds, NEW at \in Nat, NEW n \in Nat, Len(q) <= n,
         NEW h \in [MsgIds -> Nat], \A id \in MsgIds : h[id] + Len(q) <= n,
         AnswerTells(m, at, q, n, lv, h)
  PROVE  AnswerTells(m, at, Tail(q), n, lv, [h EXCEPT ![Head(q).id] = n - Len(q) + 1])
<1> DEFINE r == Tail(q)
           k == Len(q)
           e == Head(q)
           g == [h EXCEPT ![e.id] = n - k + 1]
<1>1. /\ k \in Nat \ {0} /\ DOMAIN q = 1..k /\ DOMAIN r = 1..(k - 1)
      /\ Len(q) = k /\ Len(r) = k - 1
      /\ \A i \in 1..(k - 1) : i + 1 \in 1..k /\ r[i] = q[i + 1]
      /\ \A i \in 1..k : i # 1 => i - 1 \in 1..(k - 1) /\ (i - 1) + 1 = i
      /\ 1 \in 1..k /\ e = q[1] /\ e \in QueueEvent
  BY Shorter
<1>2. e.id \in MsgIds
  BY <1>1, EventFields
<1>3. g[m.id] = (IF m.id = e.id THEN n - k + 1 ELSE h[m.id]) /\ h[m.id] \in Nat /\ h[m.id] + k <= n
  BY <1>2
<1> HIDE DEF r, k, e, g
<1>4. \A i \in 1..(k - 1) : Before(r, n, i, at) <=> Before(q, n, i + 1, at)
  BY <1>1 DEF Before
<1>5. ASSUME NEW i \in 1..(k - 1), About(r[i], m.id), Before(r, n, i, at),
             \A j \in 1..(k - 1) : j > i /\ Before(r, n, j, at) => ~About(r[j], m.id)
      PROVE  r[i].kind # "delete" /\ r[i].body = m.body
  <2>1. About(q[i + 1], m.id) /\ Before(q, n, i + 1, at) /\ i + 1 \in 1..k
    BY <1>1, <1>4, <1>5
  <2>2. ASSUME NEW j \in 1..k, j > i + 1, Before(q, n, j, at) PROVE ~About(q[j], m.id)
    <3>1. j # 1 /\ j - 1 \in 1..(k - 1) /\ (j - 1) + 1 = j /\ j - 1 > i
      BY <1>1, <2>2
    <3>2. r[j - 1] = q[j] /\ Before(r, n, j - 1, at)
      BY <1>1, <1>4, <2>2, <3>1
    <3>3. QED
      BY <1>5, <3>1, <3>2
  <2>3. q[i + 1].kind # "delete" /\ q[i + 1].body = m.body
    BY <1>1, <2>1, <2>2 DEF AnswerTells
  <2>4. QED
    BY <1>1, <2>3
<1>6. g[m.id] > at \/ Agrees(r, lv, m.id, m.body)
  <2>1. CASE h[m.id] > at
    <3>1. g[m.id] >= h[m.id] /\ g[m.id] \in Nat
      BY <1>1, <1>3
    <3>2. QED
      BY <1>3, <2>1, <3>1
  <2>2. CASE IsLive(lv, m.id, m.body)
    BY <2>2 DEF Agrees
  <2>3. CASE Pending(q, m.id) /\ ~About(e, m.id)
    BY <2>3, PendingShorter DEF Agrees, r, e
  <2>4. CASE About(e, m.id) /\ Pending(r, m.id)
    BY <2>4 DEF Agrees
  <2>5. CASE About(e, m.id) /\ ~Pending(r, m.id)
    <3>0. e.id = m.id /\ Sets(e)
      BY <2>5 DEF About
    <3>1. LastWord(q, 1) /\ Comes(lv, e)
      BY <2>5, <3>0, HeadTells DEF r, e
    <3>2. CASE n - k + 1 > at
      BY <1>3, <3>0, <3>2
    <3>3. CASE ~(n - k + 1 > at)
      <4>1. Before(q, n, 1, at)
        BY <1>1, <3>3 DEF Before
      <4>2. \A j \in DOMAIN q : j > 1 => ~About(q[j], m.id)
        BY <1>1, <3>0, <3>1 DEF LastWord
      <4>3. e.kind # "delete" /\ e.body = m.body
        BY <1>1, <2>5, <4>1, <4>2 DEF AnswerTells
      <4>4. QED
        BY <3>0, <3>1, <4>3 DEF Comes, Agrees
    <3>4. QED
      BY <3>2, <3>3
  <2>6. QED
    BY <2>1, <2>2, <2>3, <2>4, <2>5 DEF AnswerTells, Agrees
<1>7. at <= n
  BY DEF AnswerTells
<1>8. AnswerTells(m, at, r, n, lv, g)
  BY <1>1, <1>5, <1>6, <1>7 DEF AnswerTells
<1>9. QED
  BY <1>8 DEF r, g, e, k
----------------------------------------------------------------------------
(* The client: one channel, which is never retired                         *)

OnlyHere == DOMAIN channels \subseteq {Here} /\ retired = << >>

LEMMA CacheParts ==
  ASSUME Inv, OnlyHere
  PROVE  /\ Here \in ChannelIds /\ ~IsRetired(Here) /\ Log(Cached)
         /\ clock \in Nat /\ Cache(channels, clock)
<1>1. Cache(channels, clock) /\ clock \in Nat
  BY InvParts
<1>2. ~IsRetired(Here)
  BY DEF OnlyHere, IsRetired, Items
<1>3. CASE Here \in DOMAIN channels
  BY <1>1, <1>2, <1>3 DEF Cache, Cached
<1>4. CASE Here \notin DOMAIN channels
  <2>1. Cached = << >>
    BY <1>4 DEF Cached
  <2>2. Cached \in Seq(Message) /\ Len(Cached) = 0 /\ DOMAIN Cached = {}
    BY <2>1
  <2>3. Log(Cached)
    BY <2>2, TimelinesAssumption DEF Log, DistinctIds
  <2>4. QED
    BY <1>1, <1>2, <2>3
<1>5. QED
  BY <1>3, <1>4

LEMMA OpenedHere ==
  ASSUME OnlyHere, NEW now
  PROVE  LET open == Opened(channels, Here, now)
         IN  DOMAIN open = {Here} /\ open[Here].messages = Cached
<1>1. DOMAIN channels \subseteq {Here}
  BY DEF OnlyHere
<1> DEFINE room == IF Here \in DOMAIN channels \/ Cardinality(DOMAIN channels) < MaxChannels
                   THEN channels ELSE Without(channels, {LeastRecentlyUsed(channels)})
           kept == IF Here \in DOMAIN channels THEN channels[Here].messages ELSE << >>
<1>2. DOMAIN room \cup {Here} = {Here}
  BY <1>1 DEF Without
<1>3. kept = Cached
  BY DEF Cached
<1>4. Opened(channels, Here, now)
        = [d \in DOMAIN room \cup {Here} |->
             IF d = Here THEN [messages |-> kept, touched |-> now] ELSE room[d]]
  BY DEF Opened
<1> HIDE DEF room, kept
<1>5. QED
  BY <1>2, <1>3, <1>4

\* A timeline made where there was none, or taken as it was, and rewritten.
LEMMA RewrittenHere ==
  ASSUME OnlyHere, retired' = retired, NEW s, NEW now,
         channels' = [Opened(channels, Here, now) EXCEPT ![Here].messages = s]
  PROVE  OnlyHere' /\ Cached' = s
<1> DEFINE open == Opened(channels, Here, now)
<1>1. DOMAIN open = {Here}
  BY OpenedHere
<1>2. open[Here] = [messages |-> open[Here].messages, touched |-> now]
  BY <1>1 DEF Opened
<1> HIDE DEF open
<1>3. DOMAIN channels' = {Here} /\ channels'[Here].messages = s
  BY <1>1, <1>2 DEF open
<1>4. QED
  BY <1>3 DEF OnlyHere, Cached

LEMMA MessageCached ==
  ASSUME Inv, OnlyHere, NEW m \in Message, ApplyMessage(Here, m)
  PROVE  OnlyHere' /\ Cached' = Upsert(Cached, m)
<1>1. /\ retired' = retired
      /\ channels' = [Opened(channels, Here, clock') EXCEPT ![Here].messages = Upsert(@, m)]
  BY CacheParts DEF ApplyMessage
<1>2. channels' = [Opened(channels, Here, clock') EXCEPT ![Here].messages = Upsert(Cached, m)]
  BY <1>1, OpenedHere
<1>3. QED
  BY <1>1, <1>2, RewrittenHere

LEMMA HistoryCached ==
  ASSUME Inv, OnlyHere, NEW page \in Seq(PageMessage), ApplyHistory(Here, page)
  PROVE  OnlyHere' /\ (Cached' = Cached \/ Cached' = MergeHistory(Cached, page))
<1>1. CASE UNCHANGED timelineVars
  BY <1>1 DEF timelineVars, OnlyHere, Cached
<1>2. CASE /\ retired' = retired
           /\ channels' = [Opened(channels, Here, clock')
                             EXCEPT ![Here].messages = MergeHistory(@, page)]
  <2>1. channels' = [Opened(channels, Here, clock')
                       EXCEPT ![Here].messages = MergeHistory(Cached, page)]
    BY <1>2, OpenedHere
  <2>2. QED
    BY <1>2, <2>1, RewrittenHere
<1>3. QED
  BY <1>1, <1>2 DEF ApplyHistory

\* An edit changes no id, and the body only of its message.
LEMMA UpdateCached ==
  ASSUME Inv, OnlyHere, NEW id \in MsgIds, NEW content \in Bodies \cup {Unchanged},
         ApplyUpdate(Here, id, content)
  PROVE  /\ OnlyHere' /\ MessageIds(Cached') = MessageIds(Cached)
         /\ \A o \in Items(Cached') :
              \/ o \in Items(Cached) /\ (o.id # id \/ content = Unchanged)
              \/ o.id = id /\ content # Unchanged /\ o.body = content
<1>1. ~IsRetired(Here) /\ Log(Cached) /\ Cache(channels, clock)
  BY CacheParts
<1>2. retired' = retired
  BY <1>1 DEF ApplyUpdate
<1>3. CASE Here \notin DOMAIN channels
  <2>1. channels' = channels /\ Cached' = Cached /\ Cached = << >>
    BY <1>1, <1>3 DEF ApplyUpdate, Cached
  <2>2. Items(Cached) = {}
    BY <2>1 DEF Items
  <2>3. QED
    BY <1>2, <2>1, <2>2 DEF OnlyHere
<1>4. CASE Here \in DOMAIN channels
  <2> DEFINE old == channels[Here].messages
  <2>1. Cached = old /\ old \in Seq(Message) /\ DistinctIds(old)
    BY <1>1, <1>4 DEF Cached, Log
  <2>2. CASE ~HasId(old, id)
    <3>1. channels' = [channels EXCEPT ![Here].touched = clock']
      BY <1>1, <1>4, <2>2 DEF ApplyUpdate
    <3>2. channels[Here] = [messages |-> old, touched |-> channels[Here].touched]
      BY <1>1, <1>4 DEF Cache, Timeline
    <3>3. DOMAIN channels' = DOMAIN channels /\ channels'[Here].messages = old
      BY <1>4, <3>1, <3>2
    <3>4. Cached' = Cached
      BY <1>4, <2>1, <3>3 DEF Cached
    <3>5. \A o \in Items(Cached) : o.id # id
      BY <2>1, <2>2 DEF HasId, Items
    <3>6. QED
      BY <1>2, <3>3, <3>4, <3>5 DEF OnlyHere
  <2>3. CASE HasId(old, id)
    <3> DEFINE i == LastIndexOf(old, id)
               body == IF content = Unchanged THEN old[i].body ELSE content
               m == [old[i] EXCEPT !.body = body]
               new == [old EXCEPT ![i] = m]
    <3>1. channels' = [channels EXCEPT ![Here] = [messages |-> new, touched |-> clock']]
      BY <1>1, <1>4, <2>3 DEF ApplyUpdate
    <3>2. i \in DOMAIN old /\ old[i].id = id
      BY <2>1, <2>3, LastIndexExists
    <3>3. old[i] \in Message
      BY <2>1, <3>2
    <3>4. m.id = id /\ m.body = body
      BY <3>2, <3>3 DEF Message
    <3>5. content = Unchanged => m = old[i]
      BY <3>3 DEF Message
    <3> HIDE DEF i, m
    <3>6. DOMAIN new = DOMAIN old /\ \A j \in DOMAIN old : new[j] = IF j = i THEN m ELSE old[j]
      OBVIOUS
    <3> HIDE DEF new
    <3>7. DOMAIN channels' = DOMAIN channels /\ channels'[Here].messages = new
      BY <1>4, <3>1
    <3>8. Cached' = new
      BY <1>4, <3>7 DEF Cached
    <3>9. \A j \in DOMAIN old : new[j].id = old[j].id
      BY <3>2, <3>4, <3>6
    <3>10. MessageIds(new) = MessageIds(old)
      BY <3>6, <3>9 DEF MessageIds, Items
    <3>11. ASSUME NEW j \in DOMAIN old
           PROVE  \/ new[j] \in Items(old) /\ (new[j].id # id \/ content = Unchanged)
                  \/ new[j].id = id /\ content # Unchanged /\ new[j].body = content
      <4>1. CASE j = i /\ content = Unchanged
        <5>1. new[j] = old[j]
          BY <3>5, <3>6, <4>1
        <5>2. QED
          BY <4>1, <5>1 DEF Items
      <4>2. CASE j = i /\ content # Unchanged
        BY <3>4, <3>6, <4>2
      <4>3. CASE j # i
        <5>1. new[j] = old[j] /\ old[j].id # id
          BY <2>1, <3>2, <3>6, <4>3 DEF DistinctIds
        <5>2. QED
          BY <5>1 DEF Items
      <4>4. QED
        BY <4>1, <4>2, <4>3
    <3>12. \A o \in Items(new) :
             \/ o \in Items(old) /\ (o.id # id \/ content = Unchanged)
             \/ o.id = id /\ content # Unchanged /\ o.body = content
      BY <3>6, <3>11 DEF Items
    <3>13. OnlyHere'
      BY <1>2, <3>7 DEF OnlyHere
    <3> HIDE DEF old
    <3>14. QED
      BY <2>1, <3>8, <3>10, <3>12, <3>13
  <2>4. QED
    BY <2>2, <2>3
<1>5. QED
  BY <1>3, <1>4

LEMMA DeleteCached ==
  ASSUME Inv, OnlyHere, NEW id, ApplyDelete(Here, id)
  PROVE  OnlyHere' /\ Items(Cached') = {m \in Items(Cached) : m.id # id}
<1>1. Log(Cached) /\ Cache(channels, clock) /\ retired' = retired
  BY CacheParts DEF ApplyDelete
<1>2. CASE Here \notin DOMAIN channels
  <2>1. channels' = channels /\ Cached' = Cached /\ Cached = << >>
    BY <1>2 DEF ApplyDelete, Cached
  <2>2. Items(Cached) = {}
    BY <2>1 DEF Items
  <2>3. QED
    BY <1>1, <2>1, <2>2 DEF OnlyHere
<1>3. CASE Here \in DOMAIN channels
  <2> DEFINE keep == {m \in Items(Cached) : m.id # id}
  <2>1. Cached = channels[Here].messages
    BY <1>3 DEF Cached
  <2>2. channels' = [channels EXCEPT ![Here] =
                       [messages |-> Retain(Cached, keep), touched |-> clock']]
    BY <1>3, <2>1 DEF ApplyDelete
  <2>3. Items(Retain(Cached, keep)) = Items(Cached) \cap keep
    BY <1>1, RetainProperties DEF Log
  <2>4. Items(Cached) \cap keep = keep
    OBVIOUS
  <2> HIDE DEF keep
  <2>5. DOMAIN channels' = DOMAIN channels /\ channels'[Here].messages = Retain(Cached, keep)
    BY <1>3, <2>2
  <2>6. Cached' = Retain(Cached, keep)
    BY <1>3, <2>5 DEF Cached
  <2>7. QED
    BY <1>1, <2>3, <2>4, <2>5, <2>6 DEF OnlyHere, keep
<1>4. QED
  BY <1>2, <1>3
----------------------------------------------------------------------------
(* The server                                                              *)

\* In a set with distinct ids, every rank is taken.
LEMMA RanksTaken ==
  ASSUME NEW K, IsFiniteSet(K), \A m \in K : m.id \in Nat, \A m, o \in K : m.id = o.id => m = o
  PROVE  \A i \in 1..Cardinality(K) :
           \E m \in K : Cardinality({o \in K : o.id < m.id}) = i - 1
<1> DEFINE n == Cardinality(K)
           B(m) == {o \in K : o.id < m.id}
           f == [m \in K |-> Cardinality(B(m))]
<1>1. n \in Nat
  BY FS_CardinalityType
<1>2. \A m \in K : B(m) \in SUBSET K /\ B(m) \in SUBSET (K \ {m}) /\ m \notin B(m)
  OBVIOUS
<1>3. \A m, o \in K : m.id < o.id => B(m) \cup {m} \in SUBSET B(o)
  OBVIOUS
<1> HIDE DEF n, B
<1>4. \A m \in K : IsFiniteSet(B(m)) /\ Cardinality(B(m)) \in Nat
  BY <1>2, FS_Subset, FS_CardinalityType
<1>5. ASSUME NEW m \in K PROVE Cardinality(B(m)) \in 0..n-1
  <2>1. IsFiniteSet(K \ {m}) /\ Cardinality(K \ {m}) = n - 1
    BY FS_RemoveElement DEF n
  <2>2. Cardinality(B(m)) <= Cardinality(K \ {m})
    BY <1>2, <2>1, FS_Subset
  <2>3. QED
    BY <1>1, <1>4, <2>1, <2>2
<1>6. ASSUME NEW m \in K, NEW o \in K, m.id < o.id PROVE Cardinality(B(m)) < Cardinality(B(o))
  <2>1. Cardinality(B(m) \cup {m}) = Cardinality(B(m)) + 1
    BY <1>2, <1>4, FS_AddElement
  <2>2. Cardinality(B(m) \cup {m}) <= Cardinality(B(o))
    BY <1>3, <1>4, <1>6, FS_Subset
  <2>3. QED
    BY <1>4, <2>1, <2>2
<1>7. f \in [K -> 0..n-1]
  BY <1>5
<1>8. ASSUME NEW m \in K, NEW o \in K, f[m] = f[o] PROVE m = o
  <2>1. ~(m.id < o.id) /\ ~(o.id < m.id)
    BY <1>4, <1>6, <1>8
  <2>2. QED
    BY <2>1
<1> HIDE DEF f
<1>9. f \in Injection(K, 0..n-1)
  BY <1>7, <1>8 DEF Injection, IsInjective
<1>10. IsFiniteSet(0..n-1) /\ Cardinality(0..n-1) = n
  <2>1. CASE n = 0
    <3>1. 0..n-1 = {}
      BY <2>1
    <3>2. QED
      BY <2>1, <3>1, FS_EmptySet
  <2>2. CASE n # 0
    <3>1. 0 \in Int /\ n-1 \in Int /\ ~(0 > n-1) /\ (n-1) - 0 + 1 = n
      BY <1>1, <2>2
    <3>2. IsFiniteSet(0..n-1) /\ Cardinality(0..n-1) = IF 0 > n-1 THEN 0 ELSE (n-1) - 0 + 1
      BY ONLY <3>1, FS_Interval
    <3>3. QED
      BY <3>1, <3>2
  <2>3. QED
    BY <2>1, <2>2
<1>11. f \in Surjection(K, 0..n-1)
  BY <1>9, <1>10, FS_Injection DEF n
<1>12. ASSUME NEW i \in 1..n PROVE \E m \in K : f[m] = i - 1
  <2>1. i - 1 \in 0..n-1
    BY <1>1
  <2>2. QED
    BY <1>11, <2>1 DEF Surjection
<1>13. QED
  BY <1>12 DEF f, B, n

\* A history page brings messages of the server as they are.
LEMMA PageIsLive ==
  ASSUME live \in [DOMAIN live -> Bodies], DOMAIN live \subseteq MsgIds,
         IsFiniteSet(DOMAIN live), NEW before
  PROVE  /\ PageBefore(before) \in Seq(PageMessage)
         /\ \A p \in Items(PageBefore(before)) : IsLive(live, p.id, p.body)
<1> DEFINE D == {j \in DOMAIN live : j < before}
           msg(i) == [id |-> i, body |-> live[i], authored |-> TRUE]
           older == {msg(i) : i \in D}
           keep == {m \in older : Cardinality({o \in older : o.id > m.id}) < PageSize}
           n == Cardinality(keep)
           oldest == [i \in 1..n |->
                        CHOOSE m \in keep : Cardinality({o \in keep : o.id < m.id}) = i - 1]
           page == [i \in DOMAIN oldest |-> oldest[Len(oldest) + 1 - i]]
<1>1. PageBefore(before) = page
  BY DEF PageBefore, Youngest
<1>2. IsFiniteSet(older)
  <2> DEFINE f == [i \in D |-> msg(i)]
  <2>1. IsFiniteSet(D)
    BY FS_Subset
  <2>2. f \in Surjection(D, older)
    BY DEF Surjection
  <2> HIDE DEF f, D
  <2>3. QED
    BY <2>1, <2>2, FS_Surjection
<1>3. \A m \in older : /\ m.id \in DOMAIN live /\ m = msg(m.id)
                      /\ m.body = live[m.id] /\ m.authored = TRUE
  OBVIOUS
<1> HIDE DEF older
<1>4. /\ \A m \in older : m \in PageMessage /\ IsLive(live, m.id, m.body) /\ m.id \in Nat
      /\ \A m, o \in older : m.id = o.id => m = o
  <2>1. ASSUME NEW m \in older
        PROVE  m \in PageMessage /\ IsLive(live, m.id, m.body) /\ m.id \in Nat
    <3>1. m.id \in MsgIds /\ live[m.id] \in Bodies
      BY <1>3
    <3>2. m = msg(m.id) /\ msg(m.id) \in PageMessage
      BY <1>3, <3>1 DEF PageMessage
    <3>3. QED
      BY <1>3, <3>1, <3>2, TimelinesAssumption DEF IsLive
  <2>2. QED
    BY <1>3, <2>1
<1>5. keep \in SUBSET older
  OBVIOUS
<1> HIDE DEF keep
<1>6. IsFiniteSet(keep) /\ n \in Nat
  BY <1>2, <1>5, FS_Subset, FS_CardinalityType
<1>7. \A i \in 1..n : \E m \in keep : Cardinality({o \in keep : o.id < m.id}) = i - 1
  <2>1. /\ \A m \in keep : m.id \in Nat
        /\ \A m, o \in keep : m.id = o.id => m = o
    BY <1>4, <1>5
  <2>2. QED
    BY <1>6, <2>1, RanksTaken
<1> HIDE DEF n
<1>8. oldest \in [1..n -> keep]
  BY <1>7
<1> HIDE DEF oldest
<1>9. DOMAIN oldest = 1..n /\ Len(oldest) = n
  BY <1>6, <1>8
<1>10. \A i \in 1..n : n + 1 - i \in 1..n
  BY <1>6
<1>11. page \in [1..n -> keep]
  BY <1>8, <1>9, <1>10
<1>12. DOMAIN page = 1..n
  BY <1>11
<1> HIDE DEF page
<1>13. page \in Seq(PageMessage)
  BY <1>4, <1>5, <1>6, <1>11
<1>14. \A p \in Items(page) : p \in keep
  BY <1>11, <1>12 DEF Items
<1>15. QED
  BY <1>1, <1>4, <1>5, <1>13, <1>14
----------------------------------------------------------------------------
(* The invariant                                                           *)

ServerTypeOK ==
  /\ live \in [DOMAIN live -> Bodies] /\ DOMAIN live \subseteq born
  /\ born \subseteq MsgIds /\ IsFiniteSet(born) /\ emitted \in Nat
  /\ gateway \in Seq(QueueEvent) /\ heard \in [MsgIds -> Nat]

\* What was heard was sent before what is still to come.
HeardBefore ==
  Len(gateway) <= emitted /\ \A id \in MsgIds : heard[id] + Len(gateway) <= emitted

AnswersTell(pending) ==
  \A a \in Items(pending) : \A m \in Brought(a) :
    AnswerTells(m, a.at, gateway, emitted, live, heard)

CacheTells == ~crossed => \A m \in Items(Cached) : Agrees(gateway, live, m.id, m.body)

\* Nothing is heard of a message before it is made, and what is said to be
\* deleted is no longer there.
EventsBorn ==
  /\ \A m \in Items(Cached) : m.id \in born
  /\ \A e \in Items(gateway) : e.id \in born /\ (e.kind = "delete" => e.id \notin DOMAIN live)

AnswersBorn(pending) ==
  \A a \in Items(pending) :
    /\ \A m \in Brought(a) : m.id \in born
    /\ a.kind = "deleted" => a.id \in born \ DOMAIN live

Room == Cardinality(born) <= MaxMessages

\* A new message is cached or on its way, as long as nothing has to make room.
Coming(q, id) == \E e \in Items(q) : e.kind = "create" /\ e.id = id
AllThere == Room => \A id \in DOMAIN live \ OldIds : HasId(Cached, id) \/ Coming(gateway, id)

ConvergenceInv ==
  /\ Inv /\ OnlyHere
  /\ ServerTypeOK /\ HeardBefore /\ answers \in Seq(Answer)
  /\ QueueTells(gateway, live) /\ AnswersTell(answers) /\ CacheTells
  /\ EventsBorn /\ AnswersBorn(answers) /\ AllThere

LEMMA InitConvergence == ConvergenceInit => ConvergenceInv
<1> SUFFICES ASSUME ConvergenceInit PROVE ConvergenceInv
  OBVIOUS
<1>1. Inv
  BY InitInv DEF ConvergenceInit
<1>2. channels = << >> /\ retired = << >> /\ gateway = << >> /\ answers = << >> /\ emitted = 0
  BY DEF ConvergenceInit, TimelinesInit
<1>3. DOMAIN channels = {} /\ OnlyHere
  BY <1>2 DEF OnlyHere
<1>4. Cached = << >>
  BY <1>3 DEF Cached
<1>5. Items(Cached) = {} /\ Items(gateway) = {} /\ Items(answers) = {} /\ DOMAIN gateway = {}
  BY <1>2, <1>4 DEF Items
<1>6. live \in [OldIds -> Bodies] /\ born = OldIds /\ heard = [id \in MsgIds |-> 0]
  BY DEF ConvergenceInit
<1>7. Len(gateway) = 0 /\ gateway \in Seq(QueueEvent) /\ answers \in Seq(Answer)
  BY <1>2
<1>8. ServerTypeOK
  BY <1>2, <1>6, <1>7 DEF ServerTypeOK
<1>9. HeardBefore
  BY <1>2, <1>6, <1>7 DEF HeardBefore
<1>10. QueueTells(gateway, live)
  BY <1>5 DEF QueueTells
<1>11. AnswersTell(answers) /\ AnswersBorn(answers)
  BY <1>5 DEF AnswersTell, AnswersBorn
<1>12. CacheTells /\ EventsBorn
  BY <1>5 DEF CacheTells, EventsBorn
<1>13. DOMAIN live \ OldIds = {}
  BY <1>6
<1>14. AllThere
  BY <1>13 DEF AllThere
<1>15. QED
  BY <1>1, <1>3, <1>7, <1>8, <1>9, <1>10, <1>11, <1>12, <1>14 DEF ConvergenceInv
----------------------------------------------------------------------------
(* The server sends an event                                               *)

\* The event says what happened; what is new was never there.
Sends(e) ==
  /\ e \in QueueEvent /\ gateway' = Append(gateway, e) /\ emitted' = emitted + 1
  /\ Changes(live, e, live')
  /\ live' \in [DOMAIN live' -> Bodies] /\ DOMAIN live' \subseteq born'
  /\ born \subseteq born' /\ born' \subseteq MsgIds /\ IsFiniteSet(born')
  /\ e.id \in born' /\ (e.kind = "delete" => e.id \notin DOMAIN live')
  /\ \A id \in DOMAIN live' \ DOMAIN live : id \notin born /\ e.kind = "create" /\ e.id = id

LEMMA CreateSends ==
  ASSUME ServerTypeOK, NEW body \in Bodies, Create(body)
  PROVE  \E id \in MsgIds :
           /\ Sends([kind |-> "create", id |-> id, body |-> body])
           /\ born' \ born = {id} /\ IsLive(live', id, body)
<1>1. /\ live \in [DOMAIN live -> Bodies] /\ DOMAIN live \subseteq born
      /\ born \subseteq MsgIds /\ IsFiniteSet(born)
  BY DEF ServerTypeOK
<1>2. PICK id \in MsgIds \ born :
        /\ born' = born \cup {id}
        /\ live' = [i \in DOMAIN live \cup {id} |-> IF i = id THEN body ELSE live[i]]
        /\ Emit([kind |-> "create", id |-> id, body |-> body])
  BY DEF Create
<1> DEFINE e == [kind |-> "create", id |-> id, body |-> body]
<1>3. e \in QueueEvent /\ e.kind = "create" /\ e.id = id /\ e.body = body
  BY EventsTyped
<1>4. gateway' = Append(gateway, e) /\ emitted' = emitted + 1
  BY <1>2 DEF Emit
<1> HIDE DEF e
<1>5. /\ DOMAIN live' = DOMAIN live \cup {id} /\ live'[id] = body
      /\ \A i \in DOMAIN live : live'[i] = live[i]
  BY <1>1, <1>2
<1>6. live' \in [DOMAIN live' -> Bodies]
  BY <1>1, <1>2
<1>7. IsLive(live', id, body)
  BY <1>5 DEF IsLive
<1>8. Changes(live, e, live')
  BY <1>3, <1>5, <1>7 DEF Changes, Comes, Sets
<1>9. IsFiniteSet(born') /\ born' \subseteq MsgIds /\ born' \ born = {id}
  BY <1>1, <1>2, FS_AddElement
<1>10. \A i \in DOMAIN live' \ DOMAIN live : i \notin born /\ i = id
  BY <1>2, <1>5
<1>11. Sends(e)
  BY <1>1, <1>2, <1>3, <1>4, <1>5, <1>6, <1>8, <1>9, <1>10 DEF Sends
<1>12. QED
  BY <1>7, <1>9, <1>11 DEF e

LEMMA AmendSends ==
  ASSUME ServerTypeOK, NEW id \in MsgIds, NEW content \in Bodies \cup {Unchanged},
         Amend(id, content)
  PROVE  /\ Sends([kind |-> "update", id |-> id, body |-> content])
         /\ content # Unchanged => IsLive(live', id, content)
<1> DEFINE e == [kind |-> "update", id |-> id, body |-> content]
<1>1. /\ live \in [DOMAIN live -> Bodies] /\ DOMAIN live \subseteq born
      /\ born \subseteq MsgIds /\ IsFiniteSet(born)
  BY DEF ServerTypeOK
<1>2. e \in QueueEvent /\ e.kind = "update" /\ e.id = id /\ e.body = content
  BY EventsTyped
<1>3. /\ gateway' = Append(gateway, e) /\ emitted' = emitted + 1
      /\ born' = born /\ id \in DOMAIN live
      /\ live' = IF content = Unchanged THEN live ELSE [live EXCEPT ![id] = content]
  BY DEF Amend, Emit
<1> HIDE DEF e
<1>4. DOMAIN live' = DOMAIN live /\ live' \in [DOMAIN live' -> Bodies]
  BY <1>1, <1>3
<1>5. content # Unchanged => IsLive(live', id, content)
  BY <1>1, <1>3 DEF IsLive
<1>6. \A i \in DOMAIN live : i # id \/ content = Unchanged => live'[i] = live[i]
  BY <1>1, <1>3
<1>7. Changes(live, e, live')
  BY <1>2, <1>4, <1>5, <1>6 DEF Changes, Comes, Sets
<1>8. Sends(e)
  BY <1>1, <1>2, <1>3, <1>4, <1>7 DEF Sends
<1>9. QED
  BY <1>5, <1>8 DEF e

LEMMA RemoveSends ==
  ASSUME ServerTypeOK, NEW id \in MsgIds, Remove(id)
  PROVE  /\ Sends([kind |-> "delete", id |-> id])
         /\ id \in born' \ DOMAIN live'
<1> DEFINE e == [kind |-> "delete", id |-> id]
<1>1. /\ live \in [DOMAIN live -> Bodies] /\ DOMAIN live \subseteq born
      /\ born \subseteq MsgIds /\ IsFiniteSet(born)
  BY DEF ServerTypeOK
<1>2. e \in QueueEvent /\ e.kind = "delete" /\ e.id = id
  BY EventsTyped
<1>3. /\ gateway' = Append(gateway, e) /\ emitted' = emitted + 1
      /\ born' = born /\ id \in DOMAIN live
      /\ live' = [i \in DOMAIN live \ {id} |-> live[i]]
  BY DEF Remove, Emit
<1> HIDE DEF e
<1>4. DOMAIN live' = DOMAIN live \ {id} /\ \A i \in DOMAIN live' : live'[i] = live[i]
  BY <1>3
<1>5. live' \in [DOMAIN live' -> Bodies]
  BY <1>1, <1>3
<1>6. Changes(live, e, live')
  BY <1>2, <1>4 DEF Changes, Comes, Sets
<1>7. Sends(e)
  BY <1>1, <1>2, <1>3, <1>4, <1>5, <1>6 DEF Sends
<1>8. QED
  BY <1>1, <1>3, <1>4, <1>7 DEF e

LEMMA CachedStays ==
  ASSUME UNCHANGED timelineVars
  PROVE  Cached' = Cached /\ (OnlyHere => OnlyHere')
BY DEF timelineVars, Cached, OnlyHere

\* All but the answers.
ConvergenceRest ==
  /\ Inv /\ OnlyHere /\ ServerTypeOK /\ HeardBefore
  /\ QueueTells(gateway, live) /\ CacheTells /\ EventsBorn /\ AllThere

LEMMA SentKeeps ==
  ASSUME ConvergenceInv, NEW e, Sends(e), UNCHANGED <<timelineVars, heard, crossed>>,
         NEW pending, pending = answers
  PROVE  ConvergenceRest' /\ AnswersTell(pending)' /\ AnswersBorn(pending)'
<1>1. /\ Inv /\ OnlyHere
      /\ ServerTypeOK /\ HeardBefore /\ answers \in Seq(Answer)
      /\ QueueTells(gateway, live) /\ AnswersTell(pending) /\ CacheTells
      /\ EventsBorn /\ AnswersBorn(pending) /\ AllThere
  BY DEF ConvergenceInv
<1>2. /\ e \in QueueEvent /\ gateway' = Append(gateway, e) /\ emitted' = emitted + 1
      /\ Changes(live, e, live')
      /\ live' \in [DOMAIN live' -> Bodies] /\ DOMAIN live' \subseteq born'
      /\ born \subseteq born' /\ born' \subseteq MsgIds /\ IsFiniteSet(born')
      /\ e.id \in born' /\ (e.kind = "delete" => e.id \notin DOMAIN live')
      /\ \A id \in DOMAIN live' \ DOMAIN live : id \notin born /\ e.kind = "create" /\ e.id = id
  BY DEF Sends
<1>3. gateway \in Seq(QueueEvent) /\ emitted \in Nat /\ heard \in [MsgIds -> Nat]
  BY <1>1 DEF ServerTypeOK
<1>4. /\ gateway' \in Seq(QueueEvent) /\ Len(gateway') = Len(gateway) + 1 /\ Len(gateway) \in Nat
      /\ Items(gateway') = Items(gateway) \cup {e}
  BY <1>2, <1>3, AppendItems
<1>5. Inv' /\ OnlyHere' /\ Cached' = Cached /\ heard' = heard /\ crossed' = crossed
  BY <1>1, StutterInv, CachedStays
<1>6. ServerTypeOK'
  BY <1>2, <1>3, <1>4, <1>5 DEF ServerTypeOK
<1>7. HeardBefore'
  <2>1. Len(gateway) <= emitted /\ \A id \in MsgIds : heard[id] + Len(gateway) <= emitted
    BY <1>1 DEF HeardBefore
  <2>2. Len(gateway') <= emitted'
    BY <1>2, <1>3, <1>4, <2>1
  <2>3. ASSUME NEW id \in MsgIds PROVE heard'[id] + Len(gateway') <= emitted'
    <3>1. heard[id] \in Nat
      BY <1>3
    <3>2. QED
      BY <1>2, <1>3, <1>4, <1>5, <2>1, <3>1
  <2>4. QED
    BY <2>2, <2>3 DEF HeardBefore
<1>8. QueueTells(gateway', live')
  BY <1>1, <1>2, <1>3, QueueLonger
<1>9. CacheTells'
  <2>1. ASSUME NEW m \in Items(Cached), ~crossed PROVE Agrees(gateway', live', m.id, m.body)
    <3>1. Agrees(gateway, live, m.id, m.body)
      BY <1>1, <2>1 DEF CacheTells
    <3>2. QED
      BY <1>2, <1>3, <3>1, AgreesLonger
  <2>2. QED
    BY <1>5, <2>1 DEF CacheTells
<1>10. EventsBorn'
  <2>1. \A m \in Items(Cached) : m.id \in born'
    BY <1>1, <1>2 DEF EventsBorn
  <2>2. \A d \in Items(gateway) : d.id \in born' /\ (d.kind = "delete" => d.id \notin DOMAIN live')
    BY <1>1, <1>2 DEF EventsBorn
  <2>3. \A d \in Items(gateway') : d.id \in born' /\ (d.kind = "delete" => d.id \notin DOMAIN live')
    BY <1>2, <1>4, <2>2
  <2>4. QED
    BY <1>5, <2>1, <2>3 DEF EventsBorn
<1>11. AllThere'
  <2>1. ASSUME Cardinality(born') <= MaxMessages, NEW id \in DOMAIN live' \ OldIds
        PROVE  HasId(Cached, id) \/ Coming(gateway', id)
    <3>1. Room
      <4>1. Cardinality(born) <= Cardinality(born')
        BY <1>2, FS_Subset
      <4>2. Cardinality(born) \in Nat /\ Cardinality(born') \in Nat
        BY <1>1, <1>2, FS_CardinalityType DEF ServerTypeOK
      <4>3. QED
        BY <2>1, <4>1, <4>2, TimelinesAssumption DEF Room
    <3>2. CASE id \in DOMAIN live
      <4>1. HasId(Cached, id) \/ Coming(gateway, id)
        BY <1>1, <2>1, <3>1, <3>2 DEF AllThere
      <4>2. QED
        BY <1>4, <4>1 DEF Coming
    <3>3. CASE id \notin DOMAIN live
      BY <1>2, <1>4, <2>1, <3>3 DEF Coming
    <3>4. QED
      BY <3>2, <3>3
  <2>2. QED
    BY <1>5, <2>1 DEF AllThere, Room
<1>12. AnswersTell(pending)'
  <2>1. ASSUME NEW a \in Items(pending), NEW m \in Brought(a)
        PROVE  AnswerTells(m, a.at, gateway', emitted', live', heard')
    <3>1. AnswerTells(m, a.at, gateway, emitted, live, heard)
      BY <1>1, <2>1 DEF AnswersTell
    <3>2. a.at \in Nat
      BY <1>1, <2>1, AnswerFields DEF Items
    <3>3. AnswerTells(m, a.at, Append(gateway, e), emitted + 1, live', heard)
      BY <1>2, <1>3, <3>1, <3>2, AnswerLonger
    <3>4. QED
      BY <1>2, <1>5, <3>3
  <2>2. QED
    BY <2>1 DEF AnswersTell
<1>13. AnswersBorn(pending)'
  <2>1. \A a \in Items(pending) :
          /\ \A m \in Brought(a) : m.id \in born
          /\ a.kind = "deleted" => a.id \in born \ DOMAIN live
    BY <1>1 DEF AnswersBorn
  <2>2. \A id \in born \ DOMAIN live : id \in born' \ DOMAIN live'
    BY <1>2
  <2>3. \A a \in Items(pending) :
          /\ \A m \in Brought(a) : m.id \in born'
          /\ a.kind = "deleted" => a.id \in born' \ DOMAIN live'
    BY <1>2, <2>1, <2>2
  <2>4. QED
    BY <2>3 DEF AnswersBorn
<1>14. QED
  BY <1>1, <1>5, <1>6, <1>7, <1>8, <1>9, <1>10, <1>11, <1>12, <1>13 DEF ConvergenceRest

LEMMA AnswerAdded ==
  ASSUME ConvergenceRest', NEW pending \in Seq(Answer),
         AnswersTell(pending)', AnswersBorn(pending)',
         NEW a \in Answer, a.at = emitted', answers' = Append(pending, a),
         \A m \in Brought(a) : IsLive(live', m.id, m.body) /\ m.id \in born',
         a.kind = "deleted" => a.id \in born' \ DOMAIN live'
  PROVE  ConvergenceInv'
<1>1. /\ ServerTypeOK' /\ QueueTells(gateway', live')
  BY DEF ConvergenceRest
<1>2. gateway' \in Seq(QueueEvent) /\ emitted' \in Nat
  BY <1>1 DEF ServerTypeOK
<1>3. answers' \in Seq(Answer) /\ Items(answers') = Items(pending) \cup {a}
  BY AppendItems
<1>4. \A m \in Brought(a) : AnswerTells(m, a.at, gateway', emitted', live', heard')
  BY <1>1, <1>2, AnswerFresh
<1>5. \A b \in Items(pending) : \A m \in Brought(b) :
        AnswerTells(m, b.at, gateway', emitted', live', heard')
  BY DEF AnswersTell
<1>6. \A b \in Items(answers') : \A m \in Brought(b) :
        AnswerTells(m, b.at, gateway', emitted', live', heard')
  BY <1>3, <1>4, <1>5
<1>7. \A b \in Items(pending) :
        /\ \A m \in Brought(b) : m.id \in born'
        /\ b.kind = "deleted" => b.id \in born' \ DOMAIN live'
  BY DEF AnswersBorn
<1>8. \A b \in Items(answers') :
        /\ \A m \in Brought(b) : m.id \in born'
        /\ b.kind = "deleted" => b.id \in born' \ DOMAIN live'
  BY <1>3, <1>7
<1>9. AnswersTell(answers)' /\ AnswersBorn(answers)'
  BY <1>6, <1>8 DEF AnswersTell, AnswersBorn
<1>10. QED
  BY <1>3, <1>9 DEF ConvergenceInv, ConvergenceRest

\* Somebody else uses the channel.
LEMMA OthersKeep ==
  ASSUME ConvergenceInv, NEW e, Sends(e), ClientElse, UNCHANGED answers
  PROVE  ConvergenceInv'
<1>1. PICK pending : pending = answers
  OBVIOUS
<1>2. UNCHANGED <<timelineVars, heard, crossed>>
  BY DEF ClientElse
<1>3. ConvergenceRest' /\ AnswersTell(pending)' /\ AnswersBorn(pending)'
  BY <1>1, <1>2, SentKeeps
<1>4. answers' = pending /\ pending \in Seq(Answer)
  BY <1>1 DEF ConvergenceInv
<1>5. AnswersTell(answers)' /\ AnswersBorn(answers)'
  BY <1>3, <1>4 DEF AnswersTell, AnswersBorn
<1>6. QED
  BY <1>3, <1>4, <1>5 DEF ConvergenceInv, ConvergenceRest

\* A request that changed the channel is answered.
LEMMA AskKeeps ==
  ASSUME ConvergenceInv, NEW e, Sends(e), NEW a \in Answer, Answered(a), a.at = emitted',
         \A m \in Brought(a) : IsLive(live', m.id, m.body) /\ m.id \in born',
         a.kind = "deleted" => a.id \in born' \ DOMAIN live'
  PROVE  ConvergenceInv'
<1>1. PICK pending : pending = answers
  OBVIOUS
<1>2. UNCHANGED <<timelineVars, heard, crossed>>
  BY DEF Answered, ClientElse
<1>3. ConvergenceRest' /\ AnswersTell(pending)' /\ AnswersBorn(pending)'
  BY <1>1, <1>2, SentKeeps
<1>4. answers' = Append(pending, a) /\ pending \in Seq(Answer)
  BY <1>1 DEF Answered, ConvergenceInv
<1>5. QED
  BY <1>3, <1>4, AnswerAdded

\* A request that changes nothing.
LEMMA NothingSent ==
  ASSUME ConvergenceInv, UNCHANGED <<timelineVars, live, born, emitted, gateway, heard, crossed>>,
         NEW pending, pending = answers
  PROVE  ConvergenceRest' /\ AnswersTell(pending)' /\ AnswersBorn(pending)'
<1>1. /\ Inv /\ OnlyHere
      /\ ServerTypeOK /\ HeardBefore
      /\ QueueTells(gateway, live) /\ AnswersTell(pending) /\ CacheTells
      /\ EventsBorn /\ AnswersBorn(pending) /\ AllThere
  BY DEF ConvergenceInv
<1>2. Inv' /\ OnlyHere' /\ Cached' = Cached
  BY <1>1, StutterInv, CachedStays
<1>3. ServerTypeOK' /\ HeardBefore' /\ QueueTells(gateway', live')
  BY <1>1 DEF ServerTypeOK, HeardBefore
<1>4. AnswersTell(pending)' /\ AnswersBorn(pending)'
  BY <1>1 DEF AnswersTell, AnswersBorn
<1>5. CacheTells' /\ EventsBorn'
  BY <1>1, <1>2 DEF CacheTells, EventsBorn
<1>6. AllThere'
  BY <1>1, <1>2 DEF AllThere, Room
<1>7. QED
  BY <1>2, <1>3, <1>4, <1>5, <1>6 DEF ConvergenceRest

LEMMA OthersInv ==
  ASSUME ConvergenceInv, Others
  PROVE  ConvergenceInv'
<1>1. ServerTypeOK /\ ClientElse /\ UNCHANGED answers
  BY DEF ConvergenceInv, Others
<1>2. CASE \E body \in Bodies : Create(body)
  BY <1>1, <1>2, CreateSends, OthersKeep
<1>3. CASE \E id \in MsgIds : Remove(id)
  BY <1>1, <1>3, RemoveSends, OthersKeep
<1>4. CASE \E id \in MsgIds, b \in Bodies \cup {Unchanged} : Amend(id, b)
  BY <1>1, <1>4, AmendSends, OthersKeep
<1>5. QED
  BY <1>2, <1>3, <1>4 DEF Others

LEMMA AskSendInv ==
  ASSUME ConvergenceInv, NEW body \in Bodies, AskSend(body)
  PROVE  ConvergenceInv'
<1>1. ServerTypeOK /\ Create(body)
  BY DEF ConvergenceInv, AskSend
<1>2. PICK id \in MsgIds : /\ Sends([kind |-> "create", id |-> id, body |-> body])
                           /\ born' \ born = {id} /\ IsLive(live', id, body)
  BY <1>1, CreateSends
<1>3. PICK at : at = emitted'
  OBVIOUS
<1> DEFINE a == [kind |-> "sent", id |-> id, body |-> body, at |-> at]
<1>4. Answered(a)
  BY <1>2, <1>3 DEF AskSend
<1>5. at \in Nat
  BY <1>1, <1>2, <1>3 DEF ServerTypeOK, Sends
<1>6. a \in Answer /\ a.kind = "sent" /\ a.at = emitted'
  BY <1>3, <1>5, AnswersTyped
<1>7. Brought(a) = {[id |-> id, body |-> body]} /\ id \in born'
  BY <1>2 DEF Brought
<1> HIDE DEF a
<1>8. \A m \in Brought(a) : IsLive(live', m.id, m.body) /\ m.id \in born'
  BY <1>2, <1>7
<1>9. QED
  BY <1>2, <1>4, <1>6, <1>8, AskKeeps

LEMMA AskEditInv ==
  ASSUME ConvergenceInv, NEW id \in MsgIds, NEW body \in Bodies, NEW y \in BOOLEAN,
         AskEdit(id, body, y)
  PROVE  ConvergenceInv'
<1>1. ServerTypeOK /\ Amend(id, body) /\ body # Unchanged
  BY BodiesAssumption DEF ConvergenceInv, AskEdit
<1> DEFINE e == [kind |-> "update", id |-> id, body |-> body]
<1>2. Sends(e) /\ IsLive(live', id, body) /\ e.id = id
  BY <1>1, AmendSends
<1> HIDE DEF e
<1>3. PICK at : at = emitted'
  OBVIOUS
<1> DEFINE a == [kind |-> "edited", id |-> id, body |-> body, authored |-> y, at |-> at]
<1>4. Answered(a)
  BY <1>3 DEF AskEdit
<1>5. at \in Nat
  BY <1>1, <1>2, <1>3 DEF ServerTypeOK, Sends
<1>6. a \in Answer /\ a.kind = "edited" /\ a.at = emitted'
  BY <1>3, <1>5, AnswersTyped
<1>7. Brought(a) = {[id |-> id, body |-> body]} /\ id \in born'
  BY <1>2 DEF Brought, Sends
<1> HIDE DEF a
<1>8. \A m \in Brought(a) : IsLive(live', m.id, m.body) /\ m.id \in born'
  BY <1>2, <1>7
<1>9. QED
  BY <1>2, <1>4, <1>6, <1>8, AskKeeps

LEMMA AskDeleteInv ==
  ASSUME ConvergenceInv, NEW id \in MsgIds, AskDelete(id)
  PROVE  ConvergenceInv'
<1>1. ServerTypeOK /\ Remove(id)
  BY DEF ConvergenceInv, AskDelete
<1>2. Sends([kind |-> "delete", id |-> id]) /\ id \in born' \ DOMAIN live'
  BY <1>1, RemoveSends
<1>3. PICK at : at = emitted'
  OBVIOUS
<1> DEFINE a == [kind |-> "deleted", id |-> id, at |-> at]
<1>4. Answered(a)
  BY <1>3 DEF AskDelete
<1>5. at \in Nat
  BY <1>1, <1>2, <1>3 DEF ServerTypeOK, Sends
<1>6. a \in Answer /\ a.kind = "deleted" /\ a.at = emitted' /\ a.id = id
  BY <1>3, <1>5, AnswersTyped
<1>7. Brought(a) = {}
  BY DEF Brought
<1> HIDE DEF a
<1>8. QED
  BY <1>2, <1>4, <1>6, <1>7, AskKeeps

LEMMA AskHistoryInv ==
  ASSUME ConvergenceInv, NEW before, AskHistory(before)
  PROVE  ConvergenceInv'
<1>1. ServerTypeOK /\ UNCHANGED <<timelineVars, live, born, emitted, gateway, heard, crossed>>
  BY DEF ConvergenceInv, AskHistory, Answered, ClientElse
<1>2. /\ live \in [DOMAIN live -> Bodies] /\ DOMAIN live \subseteq born
      /\ DOMAIN live \subseteq MsgIds /\ IsFiniteSet(DOMAIN live) /\ emitted \in Nat
  BY <1>1, FS_Subset DEF ServerTypeOK
<1>3. PICK page, at : page = PageBefore(before) /\ at = emitted
  OBVIOUS
<1>4. page \in Seq(PageMessage) /\ \A p \in Items(page) : IsLive(live, p.id, p.body)
  BY <1>2, <1>3, PageIsLive
<1> DEFINE a == [kind |-> "page", page |-> page, at |-> at]
<1>5. Answered(a)
  BY <1>3 DEF AskHistory
<1>6. a \in Answer /\ a.kind = "page" /\ a.at = emitted' /\ a.page = page
  BY <1>1, <1>2, <1>3, <1>4, AnswersTyped
<1> HIDE DEF a
<1>7. \A m \in Brought(a) : IsLive(live', m.id, m.body) /\ m.id \in born'
  <2>1. Brought(a) = {[id |-> p.id, body |-> p.body] : p \in Items(page)}
    BY <1>6 DEF Brought
  <2>2. \A p \in Items(page) : IsLive(live', p.id, p.body) /\ p.id \in born'
    BY <1>1, <1>2, <1>4 DEF IsLive
  <2>3. QED
    BY <2>1, <2>2
<1>8. PICK pending : pending = answers
  OBVIOUS
<1>9. ConvergenceRest' /\ AnswersTell(pending)' /\ AnswersBorn(pending)'
  BY <1>1, <1>8, NothingSent
<1>10. answers' = Append(pending, a) /\ pending \in Seq(Answer)
  BY <1>5, <1>8 DEF Answered, ConvergenceInv
<1>11. QED
  BY <1>6, <1>7, <1>9, <1>10, AnswerAdded

LEMMA AsksInv ==
  ASSUME ConvergenceInv, Asks
  PROVE  ConvergenceInv'
<1>1. CASE \E body \in Bodies : AskSend(body)
  BY <1>1, AskSendInv
<1>2. CASE \E id \in MsgIds : AskDelete(id)
  BY <1>2, AskDeleteInv
<1>3. CASE \E id \in MsgIds, body \in Bodies, y \in BOOLEAN : AskEdit(id, body, y)
  BY <1>3, AskEditInv
<1>4. CASE \E before \in MsgIds \cup {1 + Cardinality(MsgIds)} : AskHistory(before)
  BY <1>4, AskHistoryInv
<1>5. QED
  BY <1>1, <1>2, <1>3, <1>4 DEF Asks

LEMMA StutterConvergence ==
  ASSUME ConvergenceInv, UNCHANGED convergenceVars
  PROVE  ConvergenceInv'
<1>1. UNCHANGED <<timelineVars, live, born, emitted, gateway, heard, crossed>> /\ answers' = answers
  BY DEF convergenceVars, serverVars
<1>2. PICK pending : pending = answers
  OBVIOUS
<1>3. ConvergenceRest' /\ AnswersTell(pending)' /\ AnswersBorn(pending)'
  BY <1>1, <1>2, NothingSent
<1>4. answers' = pending /\ pending \in Seq(Answer)
  BY <1>1, <1>2 DEF ConvergenceInv
<1>5. QED
  BY <1>3, <1>4 DEF ConvergenceInv, ConvergenceRest, AnswersTell, AnswersBorn
----------------------------------------------------------------------------
(* The client applies an event                                             *)

LEMMA CachedIds == \A id : HasId(Cached, id) <=> id \in MessageIds(Cached)
BY DEF HasId, MessageIds, Items

LEMMA CachedIdsNext == \A id : HasId(Cached, id)' <=> id \in MessageIds(Cached')
BY DEF HasId, MessageIds, Items

\* What the event leaves of the cache.
LEMMA DeliverCached ==
  ASSUME Inv, OnlyHere, \A m \in Items(Cached) : m.id \in born, IsFiniteSet(born),
         NEW e \in QueueEvent, e.id \in born,
         \/ e.kind = "create" /\ ApplyMessage(Here, [id |-> e.id, body |-> e.body])
         \/ e.kind = "update" /\ ApplyUpdate(Here, e.id, e.body)
         \/ e.kind = "delete" /\ ApplyDelete(Here, e.id)
  PROVE  /\ Inv' /\ OnlyHere'
         /\ \A o \in Items(Cached') :
              \/ o \in Items(Cached) /\ ~About(e, o.id)
              \/ About(e, o.id) /\ e.kind # "delete" /\ o.body = e.body
         /\ Room => \A id \in MessageIds(Cached) :
                      id \in MessageIds(Cached') \/ (e.kind = "delete" /\ id = e.id)
         /\ e.kind = "create" => e.id \in MessageIds(Cached')
<1>1. Here \in ChannelIds /\ Log(Cached) /\ e.id \in MsgIds
  BY CacheParts, EventFields
<1>2. CASE e.kind = "create"
  <2> DEFINE m == [id |-> e.id, body |-> e.body]
  <2>1. m \in Message /\ m.id = e.id /\ m.body = e.body /\ ApplyMessage(Here, m)
    BY <1>2, EventFields DEF Message
  <2> HIDE DEF m
  <2>2. Inv' /\ OnlyHere' /\ Cached' = Upsert(Cached, m)
    BY <1>1, <2>1, MessageInv, MessageCached
  <2>3. /\ m \in Items(Cached')
        /\ \A o \in Items(Cached') : o = m \/ (o \in Items(Cached) /\ o.id # m.id)
    BY <1>1, <2>1, <2>2, UpsertItems
  <2>4. ASSUME Room PROVE MessageIds(Cached) \subseteq MessageIds(Cached')
    <3>1. MessageIds(Cached) \subseteq born
      BY DEF MessageIds
    <3>2. QED
      BY <1>1, <2>1, <2>2, <2>4, <3>1, UpsertKeepsIds DEF Room
  <2>5. e.id \in MessageIds(Cached')
    BY <2>1, <2>3 DEF MessageIds
  <2>6. \A o \in Items(Cached') :
          \/ o \in Items(Cached) /\ ~About(e, o.id)
          \/ About(e, o.id) /\ e.kind # "delete" /\ o.body = e.body
    BY <1>2, <2>1, <2>3 DEF About, Sets
  <2>7. QED
    BY <2>2, <2>4, <2>5, <2>6
<1>3. CASE e.kind = "update"
  <2>1. e.body \in Bodies \cup {Unchanged} /\ ApplyUpdate(Here, e.id, e.body)
    BY <1>3, EventFields
  <2>2. Inv'
    BY <1>1, <2>1, UpdateInv
  <2>3. /\ OnlyHere' /\ MessageIds(Cached') = MessageIds(Cached)
        /\ \A o \in Items(Cached') :
             \/ o \in Items(Cached) /\ (o.id # e.id \/ e.body = Unchanged)
             \/ o.id = e.id /\ e.body # Unchanged /\ o.body = e.body
    BY <1>1, <2>1, UpdateCached
  <2>4. \A o \in Items(Cached') :
          \/ o \in Items(Cached) /\ ~About(e, o.id)
          \/ About(e, o.id) /\ e.kind # "delete" /\ o.body = e.body
    BY <1>3, <2>3 DEF About, Sets
  <2>5. QED
    BY <1>3, <2>2, <2>3, <2>4
<1>4. CASE e.kind = "delete"
  <2>1. ApplyDelete(Here, e.id)
    BY <1>4
  <2>2. Inv' /\ OnlyHere' /\ Items(Cached') = {m \in Items(Cached) : m.id # e.id}
    BY <1>1, <2>1, DeleteInv, DeleteCached
  <2>3. \A o \in Items(Cached') : o \in Items(Cached) /\ ~About(e, o.id)
    BY <2>2 DEF About
  <2>4. \A id \in MessageIds(Cached) : id \in MessageIds(Cached') \/ id = e.id
    BY <2>2 DEF MessageIds
  <2>5. QED
    BY <1>4, <2>2, <2>3, <2>4
<1>5. QED
  BY <1>2, <1>3, <1>4

LEMMA BroughtIds ==
  ASSUME NEW a \in Answer, NEW m \in Brought(a)
  PROVE  m.id \in MsgIds
<1>1. CASE a.kind \in {"sent", "edited"}
  BY <1>1, AnswerFields DEF Brought
<1>2. CASE a.kind = "page"
  <2>1. a.page \in Seq(PageMessage)
    BY <1>2, AnswerFields
  <2>2. \A p \in Items(a.page) : p \in PageMessage
    BY <2>1 DEF Items
  <2>3. QED
    BY <1>2, <2>2 DEF Brought, PageMessage
<1>3. QED
  BY <1>1, <1>2 DEF Brought

LEMMA DeliverInv ==
  ASSUME ConvergenceInv, Deliver
  PROVE  ConvergenceInv'
<1>1. /\ Inv /\ OnlyHere
      /\ ServerTypeOK /\ HeardBefore /\ answers \in Seq(Answer)
      /\ QueueTells(gateway, live) /\ AnswersTell(answers) /\ CacheTells
      /\ EventsBorn /\ AnswersBorn(answers) /\ AllThere
  BY DEF ConvergenceInv
<1>2. PICK e, q, n : e = Head(gateway) /\ q = gateway /\ n = Len(gateway)
  OBVIOUS
<1>3. /\ q # << >> /\ gateway' = Tail(q)
      /\ \/ e.kind = "create" /\ ApplyMessage(Here, [id |-> e.id, body |-> e.body])
         \/ e.kind = "update" /\ ApplyUpdate(Here, e.id, e.body)
         \/ e.kind = "delete" /\ ApplyDelete(Here, e.id)
      /\ heard' = [heard EXCEPT ![e.id] = emitted - n + 1]
      /\ live' = live /\ born' = born /\ emitted' = emitted
      /\ answers' = answers /\ crossed' = crossed
  BY <1>2 DEF Deliver, HeadNumber, serverVars
<1>4. /\ q \in Seq(QueueEvent) /\ emitted \in Nat /\ heard \in [MsgIds -> Nat]
      /\ IsFiniteSet(born) /\ n = Len(q) /\ e = Head(q)
  BY <1>1, <1>2 DEF ServerTypeOK
<1>5. /\ gateway' \in Seq(QueueEvent) /\ Len(gateway') = n - 1 /\ n \in Nat \ {0}
      /\ e \in QueueEvent /\ e \in Items(q) /\ Items(q) = {e} \cup Items(gateway')
  BY <1>3, <1>4, Shorter, HeadAndTail
<1>6. n <= emitted /\ \A id \in MsgIds : heard[id] + n <= emitted
  BY <1>1, <1>2 DEF HeardBefore
<1>7. /\ \A m \in Items(Cached) : m.id \in born
      /\ \A d \in Items(q) : d.id \in born /\ (d.kind = "delete" => d.id \notin DOMAIN live)
  BY <1>1, <1>2 DEF EventsBorn
<1>8. /\ Inv' /\ OnlyHere'
      /\ \A o \in Items(Cached') :
           \/ o \in Items(Cached) /\ ~About(e, o.id)
           \/ About(e, o.id) /\ e.kind # "delete" /\ o.body = e.body
      /\ Room => \A id \in MessageIds(Cached) :
                   id \in MessageIds(Cached') \/ (e.kind = "delete" /\ id = e.id)
      /\ e.kind = "create" => e.id \in MessageIds(Cached')
  BY <1>1, <1>3, <1>4, <1>5, <1>7, DeliverCached
<1>9. e.id \in MsgIds /\ emitted - n + 1 \in Nat
  BY <1>4, <1>5, <1>6, EventFields
<1>10. heard' \in [MsgIds -> Nat]
  BY <1>3, <1>4, <1>9
<1>11. ServerTypeOK'
  BY <1>1, <1>3, <1>5, <1>10 DEF ServerTypeOK
<1>12. HeardBefore'
  <2>1. ASSUME NEW id \in MsgIds PROVE heard'[id] + (n - 1) <= emitted
    <3>1. heard[id] \in Nat /\ heard'[id] = IF id = e.id THEN emitted - n + 1 ELSE heard[id]
      BY <1>3, <1>4
    <3>2. heard[id] + n <= emitted
      BY <1>6
    <3>3. QED
      BY <1>4, <1>5, <3>1, <3>2
  <2>2. n - 1 <= emitted
    BY <1>4, <1>5, <1>6
  <2>3. QED
    BY <1>3, <1>5, <2>1, <2>2 DEF HeardBefore
<1>13. QueueTells(q, live)
  BY <1>1, <1>2
<1>14. QueueTells(gateway', live')
  BY <1>3, <1>4, <1>13, QueueShorter
<1>15. CacheTells'
  <2>1. ASSUME NEW o \in Items(Cached'), ~crossed PROVE Agrees(gateway', live, o.id, o.body)
    <3>1. CASE o \in Items(Cached) /\ ~About(e, o.id)
      <4>1. Agrees(q, live, o.id, o.body)
        BY <1>1, <1>2, <2>1, <3>1 DEF CacheTells
      <4>2. QED
        BY <1>3, <1>4, <3>1, <4>1, PendingShorter DEF Agrees
    <3>2. CASE About(e, o.id) /\ e.kind # "delete" /\ o.body = e.body
      <4>1. Sets(e) /\ e.id = o.id
        BY <3>2 DEF About
      <4>2. Pending(gateway', e.id) \/ Comes(live, e)
        BY <1>3, <1>4, <1>13, <4>1, HeadTells
      <4>3. QED
        BY <3>2, <4>1, <4>2 DEF Comes, Agrees
    <3>3. QED
      BY <1>8, <3>1, <3>2
  <2>2. QED
    BY <1>3, <2>1 DEF CacheTells
<1>16. EventsBorn'
  <2>1. \A o \in Items(Cached') : o.id \in born
    BY <1>5, <1>7, <1>8 DEF About
  <2>2. QED
    BY <1>3, <1>5, <1>7, <2>1 DEF EventsBorn
<1>17. AllThere'
  <2>1. ASSUME Room, NEW id \in DOMAIN live \ OldIds
        PROVE  id \in MessageIds(Cached') \/ Coming(gateway', id)
    <3>1. HasId(Cached, id) \/ Coming(q, id)
      BY <1>1, <1>2, <2>1 DEF AllThere
    <3>2. CASE HasId(Cached, id)
      <4>1. ~(e.kind = "delete" /\ id = e.id)
        BY <1>5, <1>7, <2>1
      <4>2. QED
        BY <1>8, <2>1, <3>2, <4>1, CachedIds
    <3>3. CASE Coming(q, id)
      BY <1>5, <1>8, <3>3 DEF Coming
    <3>4. QED
      BY <3>1, <3>2, <3>3
  <2>2. QED
    BY <1>3, <2>1, CachedIdsNext DEF AllThere, Room
<1>18. AnswersTell(answers)'
  <2>1. ASSUME NEW a \in Items(answers), NEW m \in Brought(a)
        PROVE  AnswerTells(m, a.at, gateway', emitted, live, heard')
    <3>1. AnswerTells(m, a.at, q, emitted, live, heard)
      BY <1>1, <1>2, <2>1 DEF AnswersTell
    <3>2. a \in Answer
      BY <1>1, <2>1 DEF Items
    <3>3. a.at \in Nat /\ m.id \in MsgIds
      BY <2>1, <3>2, AnswerFields, BroughtIds
    <3>4. AnswerTells(m, a.at, Tail(q), emitted, live,
                      [heard EXCEPT ![Head(q).id] = emitted - Len(q) + 1])
      BY <1>3, <1>4, <1>6, <1>13, <3>1, <3>3, AnswerShorter
    <3>5. QED
      BY <1>3, <1>4, <3>4
  <2>2. QED
    BY <1>3, <2>1 DEF AnswersTell
<1>19. AnswersBorn(answers)'
  BY <1>1, <1>3 DEF AnswersBorn
<1>20. QED
  BY <1>1, <1>3, <1>8, <1>11, <1>12, <1>14, <1>15, <1>16, <1>17, <1>18, <1>19
     DEF ConvergenceInv
----------------------------------------------------------------------------
(* The client applies an answer                                            *)

\* What an answer leaves of the cache: what is new is a message it brings, and
\* one that no newer event has been heard of unless the answer was overtaken.
Leaves(a) ==
  /\ Inv' /\ OnlyHere'
  /\ \A o \in Items(Cached') :
       o \in Items(Cached) \/ \E m \in Brought(a) : /\ o.id = m.id /\ o.body = m.body
                                                    /\ heard[m.id] > a.at => Overtaken(a)
  /\ Room => \A id \in MessageIds(Cached) :
               id \in MessageIds(Cached') \/ (a.kind = "deleted" /\ id = a.id)

LEMMA WholeMessageLeaves ==
  ASSUME Inv, OnlyHere, \A m \in Items(Cached) : m.id \in born, IsFiniteSet(born),
         NEW a \in Answer, a.kind \in {"sent", "edited"}, a.id \in born,
         ApplyMessage(Here, [id |-> a.id, body |-> a.body])
  PROVE  Leaves(a)
<1> DEFINE m == [id |-> a.id, body |-> a.body]
<1>1. Here \in ChannelIds /\ Log(Cached)
  BY CacheParts
<1>2. m \in Message /\ m.id = a.id /\ m.body = a.body /\ m \in Brought(a)
  BY AnswerFields DEF Message, Brought
<1>3. ApplyMessage(Here, m)
  OBVIOUS
<1> HIDE DEF m
<1>4. Inv' /\ OnlyHere' /\ Cached' = Upsert(Cached, m)
  BY <1>1, <1>2, <1>3, MessageInv, MessageCached
<1>5. \A o \in Items(Cached') : o = m \/ o \in Items(Cached)
  BY <1>1, <1>2, <1>4, UpsertItems
<1>6. ASSUME Room PROVE MessageIds(Cached) \subseteq MessageIds(Cached')
  <2>1. MessageIds(Cached) \subseteq born
    BY DEF MessageIds
  <2>2. QED
    BY <1>1, <1>2, <1>4, <1>6, <2>1, UpsertKeepsIds DEF Room
<1>7. heard[m.id] > a.at => Overtaken(a)
  BY <1>2 DEF Overtaken
<1>8. \A o \in Items(Cached') :
        o \in Items(Cached) \/ \E b \in Brought(a) : /\ o.id = b.id /\ o.body = b.body
                                                     /\ heard[b.id] > a.at => Overtaken(a)
  BY <1>2, <1>5, <1>7
<1>9. QED
  BY <1>4, <1>6, <1>8 DEF Leaves

LEMMA PartialEditLeaves ==
  ASSUME Inv, OnlyHere, NEW a \in Answer, a.kind = "edited", ApplyUpdate(Here, a.id, a.body)
  PROVE  Leaves(a)
<1> DEFINE m == [id |-> a.id, body |-> a.body]
<1>1. Here \in ChannelIds /\ a.id \in MsgIds /\ a.body \in Bodies /\ a.body # Unchanged
  BY CacheParts, AnswerFields, BodiesAssumption
<1>2. m.id = a.id /\ m.body = a.body /\ m \in Brought(a)
  BY DEF Brought
<1> HIDE DEF m
<1>3. Inv'
  BY <1>1, UpdateInv
<1>4. /\ OnlyHere' /\ MessageIds(Cached') = MessageIds(Cached)
      /\ \A o \in Items(Cached') : o \in Items(Cached) \/ (o.id = a.id /\ o.body = a.body)
  BY <1>1, UpdateCached
<1>5. heard[m.id] > a.at => Overtaken(a)
  BY <1>2 DEF Overtaken
<1>6. \A o \in Items(Cached') :
        o \in Items(Cached) \/ \E b \in Brought(a) : /\ o.id = b.id /\ o.body = b.body
                                                     /\ heard[b.id] > a.at => Overtaken(a)
  BY <1>2, <1>4, <1>5
<1>7. QED
  BY <1>3, <1>4, <1>6 DEF Leaves

LEMMA DeletionLeaves ==
  ASSUME Inv, OnlyHere, NEW a \in Answer, a.kind = "deleted", ApplyDelete(Here, a.id)
  PROVE  Leaves(a)
<1>1. Here \in ChannelIds
  BY CacheParts
<1>2. Inv' /\ OnlyHere' /\ Items(Cached') = {m \in Items(Cached) : m.id # a.id}
  BY <1>1, DeleteInv, DeleteCached
<1>3. \A id \in MessageIds(Cached) : id \in MessageIds(Cached') \/ id = a.id
  BY <1>2 DEF MessageIds
<1>4. QED
  BY <1>2, <1>3 DEF Leaves

LEMMA PageLeaves ==
  ASSUME Inv, OnlyHere, \A m \in Items(Cached) : m.id \in born, IsFiniteSet(born),
         NEW a \in Answer, a.kind = "page", \A m \in Brought(a) : m.id \in born,
         ApplyHistory(Here, a.page)
  PROVE  Leaves(a)
<1>1. Here \in ChannelIds /\ Log(Cached) /\ a.page \in Seq(PageMessage)
  BY CacheParts, AnswerFields
<1>2. Inv'
  BY <1>1, HistoryInv
<1>3. OnlyHere' /\ (Cached' = Cached \/ Cached' = MergeHistory(Cached, a.page))
  BY <1>1, HistoryCached
<1>4. \A p \in Items(a.page) : [id |-> p.id, body |-> p.body] \in Brought(a)
  BY DEF Brought
<1>5. CASE Cached' = Cached
  BY <1>2, <1>3, <1>5 DEF Leaves
<1>6. CASE Cached' = MergeHistory(Cached, a.page)
  <2>1. ASSUME NEW o \in Items(Cached'), o \notin Items(Cached)
        PROVE  \E m \in Brought(a) : /\ o.id = m.id /\ o.body = m.body
                                     /\ heard[m.id] > a.at => Overtaken(a)
    <3>1. PICK p \in Items(a.page) :
            /\ o = [id |-> p.id, body |-> p.body]
            /\ HasId(Cached, p.id) => ~Sorted(Cached) /\ ~Fits(Cached, a.page)
      BY <1>1, <1>6, <2>1, MergeSources, MergeBringsNew
    <3>2. heard[p.id] > a.at => Overtaken(a)
      BY <3>1 DEF Overtaken
    <3>3. o \in Brought(a) /\ o.id = p.id
      BY <1>4, <3>1
    <3>4. QED
      BY <3>2, <3>3
  <2>2. ASSUME Room PROVE MessageIds(Cached) \subseteq MessageIds(Cached')
    <3> DEFINE A == {m.id : m \in Items(Cached)}
                      \cup {m.id : m \in {p \in Items(a.page) : p.authored}}
    <3>1. \A p \in Items(a.page) : p.id \in born
      BY <1>4
    <3>2. A \subseteq born
      BY <3>1
    <3> HIDE DEF A
    <3>3. Cardinality(A) <= Cardinality(born) /\ IsFiniteSet(A)
      BY <3>2, FS_Subset
    <3>4. Cardinality(A) \in Nat /\ Cardinality(born) \in Nat
      BY <3>3, FS_CardinalityType
    <3>5. Cardinality(A) <= MaxMessages
      BY <2>2, <3>3, <3>4, TimelinesAssumption DEF Room
    <3>6. Fits(Cached, a.page)
      BY <3>5 DEF Fits, A
    <3>7. Embeds(Cached, Cached')
      BY <1>1, <1>6, <3>6, FittingEmbeds
    <3>8. QED
      BY <3>7 DEF Embeds, MessageIds, Items
  <2>3. QED
    BY <1>2, <1>3, <2>1, <2>2 DEF Leaves
<1>7. QED
  BY <1>3, <1>5, <1>6

LEMMA ReceiveInv ==
  ASSUME ConvergenceInv, Receive
  PROVE  ConvergenceInv'
<1>1. /\ Inv /\ OnlyHere
      /\ ServerTypeOK /\ HeardBefore /\ answers \in Seq(Answer)
      /\ QueueTells(gateway, live) /\ AnswersTell(answers) /\ CacheTells
      /\ EventsBorn /\ AnswersBorn(answers) /\ AllThere
  BY DEF ConvergenceInv
<1>2. PICK a : a = Head(answers)
  OBVIOUS
<1>3. /\ answers # << >> /\ answers' = Tail(answers)
      /\ \/ a.kind = "sent" /\ ApplyMessage(Here, [id |-> a.id, body |-> a.body])
         \/ a.kind = "edited" /\ ApplyMessage(Here, [id |-> a.id, body |-> a.body])
         \/ a.kind = "edited" /\ ApplyUpdate(Here, a.id, a.body)
         \/ a.kind = "deleted" /\ ApplyDelete(Here, a.id)
         \/ a.kind = "page" /\ ApplyHistory(Here, a.page)
      /\ crossed' = (crossed \/ Overtaken(a))
      /\ live' = live /\ born' = born /\ emitted' = emitted
      /\ gateway' = gateway /\ heard' = heard
  BY <1>2 DEF Receive, serverVars
<1>4. /\ answers' \in Seq(Answer) /\ a \in Answer /\ a \in Items(answers)
      /\ Items(answers') \subseteq Items(answers)
  BY <1>1, <1>2, <1>3, TailItems, HeadAndTail
<1>5. /\ \A m \in Items(Cached) : m.id \in born
      /\ IsFiniteSet(born)
      /\ \A m \in Brought(a) : m.id \in born
      /\ a.kind = "deleted" => a.id \notin DOMAIN live
      /\ \A m \in Brought(a) : AnswerTells(m, a.at, gateway, emitted, live, heard)
  BY <1>1, <1>4 DEF EventsBorn, ServerTypeOK, AnswersBorn, AnswersTell
<1>6. a.kind \in {"sent", "edited"} => a.id \in born
  BY <1>5 DEF Brought
<1>7. Leaves(a)
  BY <1>1, <1>3, <1>4, <1>5, <1>6, WholeMessageLeaves, PartialEditLeaves, DeletionLeaves, PageLeaves
<1>8. Inv' /\ OnlyHere'
  BY <1>7 DEF Leaves
<1>9. ServerTypeOK' /\ HeardBefore' /\ QueueTells(gateway', live')
  BY <1>1, <1>3 DEF ServerTypeOK, HeardBefore
<1>10. AnswersTell(answers)' /\ AnswersBorn(answers)'
  BY <1>1, <1>3, <1>4 DEF AnswersTell, AnswersBorn
<1>11. CacheTells'
  <2>1. ASSUME ~crossed, ~Overtaken(a), NEW o \in Items(Cached')
        PROVE  Agrees(gateway, live, o.id, o.body)
    <3>1. CASE o \in Items(Cached)
      BY <1>1, <2>1, <3>1 DEF CacheTells
    <3>2. CASE o \notin Items(Cached)
      <4>1. PICK m \in Brought(a) : /\ o.id = m.id /\ o.body = m.body
                                    /\ heard[m.id] > a.at => Overtaken(a)
        BY <1>7, <2>1, <3>2 DEF Leaves
      <4>2. QED
        BY <1>5, <2>1, <4>1 DEF AnswerTells
    <3>3. QED
      BY <3>1, <3>2
  <2>2. QED
    BY <1>3, <2>1 DEF CacheTells
<1>12. EventsBorn'
  <2>1. \A o \in Items(Cached') : o.id \in born
    BY <1>5, <1>7 DEF Leaves
  <2>2. QED
    BY <1>1, <1>3, <2>1 DEF EventsBorn
<1>13. AllThere'
  <2>1. ASSUME Room, NEW id \in DOMAIN live \ OldIds
        PROVE  id \in MessageIds(Cached') \/ Coming(gateway, id)
    <3>1. HasId(Cached, id) \/ Coming(gateway, id)
      BY <1>1, <2>1 DEF AllThere
    <3>2. ASSUME HasId(Cached, id) PROVE id \in MessageIds(Cached')
      BY <1>5, <1>7, <2>1, <3>2, CachedIds DEF Leaves
    <3>3. QED
      BY <3>1, <3>2
  <2>2. QED
    BY <1>3, <2>1, CachedIdsNext DEF AllThere, Room
<1>14. QED
  BY <1>4, <1>8, <1>9, <1>10, <1>11, <1>12, <1>13 DEF ConvergenceInv
----------------------------------------------------------------------------
(* Theorems                                                                *)

LEMMA NextConvergence ==
  ConvergenceInv /\ [ConvergenceNext]_convergenceVars => ConvergenceInv'
<1> SUFFICES ASSUME ConvergenceInv, [ConvergenceNext]_convergenceVars PROVE ConvergenceInv'
  OBVIOUS
<1>1. CASE Others
  BY <1>1, OthersInv
<1>2. CASE Asks
  BY <1>2, AsksInv
<1>3. CASE Deliver
  BY <1>3, DeliverInv
<1>4. CASE Receive
  BY <1>4, ReceiveInv
<1>5. CASE UNCHANGED convergenceVars
  BY <1>5, StutterConvergence
<1>6. QED
  BY <1>1, <1>2, <1>3, <1>4, <1>5 DEF ConvergenceNext

THEOREM ConvergenceAlways == ConvergenceSpec => []ConvergenceInv
<1>1. ConvergenceInit => ConvergenceInv
  BY InitConvergence
<1>2. ConvergenceInv /\ [ConvergenceNext]_convergenceVars => ConvergenceInv'
  BY NextConvergence
<1>3. QED
  BY <1>1, <1>2, PTL DEF ConvergenceSpec

\* Once the events are applied (drain), every cached message is on the server as it is
\* cached, however drain and drain_rest interleave, for any number of messages, events
\* and answers, unless an answer was applied after a newer event about what it brings.
THEOREM AgreesAlways == ConvergenceSpec => []AgreesUnlessCrossed
<1>1. ASSUME ConvergenceInv PROVE AgreesUnlessCrossed
  <2>1. ASSUME gateway = << >>, ~crossed, NEW i \in DOMAIN Cached
        PROVE  Cached[i].id \in DOMAIN live /\ Cached[i].body = live[Cached[i].id]
    <3>1. Agrees(gateway, live, Cached[i].id, Cached[i].body)
      BY <1>1, <2>1 DEF ConvergenceInv, CacheTells, Items
    <3>2. DOMAIN gateway = {}
      BY <2>1
    <3>3. QED
      BY <3>1, <3>2 DEF Agrees, Pending, IsLive
  <2>2. QED
    BY <2>1 DEF AgreesUnlessCrossed
<1>2. QED
  BY <1>1, ConvergenceAlways, PTL

\* No message sent since the client connected is missing once the events are applied, as
\* long as the channel never had more messages than a timeline holds: no answer, late,
\* early or overtaken, and no page of history makes one disappear.
THEOREM CompleteAlways == ConvergenceSpec => []CompleteWhileRoom
<1>1. ASSUME ConvergenceInv PROVE CompleteWhileRoom
  <2>1. ASSUME gateway = << >>, Room, NEW id \in DOMAIN live \ OldIds PROVE HasId(Cached, id)
    <3>1. HasId(Cached, id) \/ Coming(gateway, id)
      BY <1>1, <2>1 DEF ConvergenceInv, AllThere
    <3>2. Items(gateway) = {}
      BY <2>1 DEF Items
    <3>3. QED
      BY <3>1, <3>2 DEF Coming
  <2>2. QED
    BY <2>1 DEF CompleteWhileRoom, Room
<1>2. QED
  BY <1>1, ConvergenceAlways, PTL
----------------------------------------------------------------------------
(* The navigation cache (Mirror)                                           *)

USE BusAssumption

LEMMA OneGuild ==
  /\ GuildIds = {TheGuild} /\ TheGuild \in GuildIds /\ TheGuild # Absent /\ Absent \in Scopes
  /\ IsFiniteSet(GuildChannelIds) /\ Cardinality(GuildChannelIds) <= MaxChannelsPerGuild
  /\ IsFiniteSet(ThreadIds) /\ Cardinality(ThreadIds) <= MaxThreadsPerGuild
BY MirrorAssumption
----------------------------------------------------------------------------
(* What navigation shows of the guild, and what an event makes of it       *)

NavIds(n) == n.chans \cup {t.id : t \in n.threads}

Nowhere == [known |-> FALSE, down |-> FALSE, chans |-> {}, threads |-> {}]
Nav == [known : BOOLEAN, down : BOOLEAN, chans : SUBSET GuildChannelIds,
        threads : SUBSET CachedThread]

Mirrored(down, chs, ths) == [known |-> TRUE, down |-> down, chans |-> chs, threads |-> ths]

Shown ==
  IF Known(TheGuild)
  THEN Mirrored(guilds[TheGuild].unavailable, Items(ChannelsOf(TheGuild)), Items(ThreadsOf(TheGuild)))
  ELSE Nowhere

\* The events of the guild, as the dispatches of Mirror become them.
GuildEventOK(e) ==
  \/ /\ e.kind = "GuildCreate" /\ e.unavailable \in BOOLEAN /\ e.channels \in Snapshots
     /\ e.unavailable => e.channels = << >>
  \/ e.kind = "GuildUpdate" /\ e.unavailable = Absent
  \/ e.kind = "GuildDelete" /\ e.unavailable \in BOOLEAN
  \/ e.kind \in {"ChannelCreate", "ChannelUpdate", "ChannelDelete"} /\ e.id \in GuildChannelIds
  \/ e.kind = "ThreadDelete" /\ e.id \in ThreadIds
  \/ /\ e.kind = "ThreadListSync" /\ e.scope \in Scopes /\ e.threads \in ThreadLists
     /\ Items(e.threads) \in Listings

ThreadEventOK(e) ==
  /\ e.kind \in {"ThreadCreate", "ThreadUpdate"}
  /\ e.thread \in Thread /\ e.thread.guild = TheGuild
  /\ e.kind = "ThreadCreate" => ~e.thread.archived

MessageEventOK(e) ==
  \/ /\ e.kind = "Message" /\ e.channel \in ChannelIds
     /\ [id |-> e.id, body |-> e.body] \in Message
  \/ /\ e.kind = "MessageUpdate" /\ e.channel \in ChannelIds /\ e.id \in MsgIds
     /\ e.content \in Bodies \cup {Unchanged}
  \/ e.kind = "MessageDelete" /\ e.channel \in ChannelIds /\ e.id \in MsgIds

EventOK(e) ==
  \/ e.kind \in {"GatewayReady", "GatewayResumed"}
  \/ e.guild = TheGuild /\ GuildEventOK(e)
  \/ ThreadEventOK(e)
  \/ MessageEventOK(e)

\* The threads a list names for the guild.
ListedThreads(l) == {AsCached(t) : t \in Items(l)}

\* A change of a guild that is cached.
Changed(e, n) ==
  CASE e.kind = "GuildDelete" ->
         IF e.unavailable THEN Mirrored(TRUE, n.chans, n.threads) ELSE Nowhere
    [] e.kind \in {"ChannelCreate", "ChannelUpdate"} ->
         Mirrored(n.down, n.chans \cup {e.id}, n.threads)
    [] e.kind = "ChannelDelete" ->
         Mirrored(n.down, n.chans \ {e.id}, {t \in n.threads : t.parent # e.id})
    [] e.kind \in {"ThreadCreate", "ThreadUpdate"} ->
         Mirrored(n.down, n.chans, {t \in n.threads : t.id # e.thread.id}
                                   \cup IF e.thread.archived THEN {} ELSE {AsCached(e.thread)})
    [] e.kind = "ThreadDelete" ->
         Mirrored(n.down, n.chans, {t \in n.threads : t.id # e.id})
    [] e.kind = "ThreadListSync" ->
         Mirrored(n.down, n.chans, {t \in n.threads : /\ ~InScope(t, e.scope)
                                                    /\ \A u \in Items(e.threads) : u.id # t.id}
                                   \cup ListedThreads(e.threads))
    [] OTHER -> n

Effect(e, n) ==
  IF e.kind = "GuildCreate"
  THEN Mirrored(e.unavailable, IF e.unavailable THEN n.chans ELSE Items(e.channels), n.threads)
  ELSE IF n.known THEN Changed(e, n) ELSE n
----------------------------------------------------------------------------
(* An event that is applied has that effect on what is shown               *)

\* There is room for every channel and thread.
LEMMA RoomForChannels ==
  ASSUME NEW s \in Seq(GuildChannelIds), Distinct(s)
  PROVE  /\ Len(s) <= MaxChannelsPerGuild
         /\ \A c \in GuildChannelIds \ Items(s) : Len(s) < MaxChannelsPerGuild
<1>1. Items(s) \in SUBSET GuildChannelIds
  BY DEF Items
<1>2. IsFiniteSet(Items(s)) /\ Cardinality(Items(s)) = Len(s)
  BY CountItems
<1>3. Cardinality(Items(s)) <= Cardinality(GuildChannelIds)
  BY <1>1, FS_Subset, OneGuild
<1>4. Cardinality(GuildChannelIds) \in Nat /\ Len(s) \in Nat
  BY FS_CardinalityType, OneGuild
<1>5. ASSUME NEW c \in GuildChannelIds \ Items(s) PROVE Len(s) < MaxChannelsPerGuild
  <2>1. Cardinality(Items(s) \cup {c}) = Len(s) + 1
    BY <1>2, <1>5, FS_AddElement
  <2>2. Items(s) \cup {c} \in SUBSET GuildChannelIds
    BY <1>1, <1>5
  <2>3. Cardinality(Items(s) \cup {c}) <= Cardinality(GuildChannelIds)
    BY <2>2, FS_Subset, OneGuild
  <2>4. QED
    BY <1>4, <2>1, <2>3, TopologyAssumption, OneGuild
<1>6. QED
  BY <1>2, <1>3, <1>4, <1>5, TopologyAssumption, OneGuild

LEMMA RoomForThreads ==
  ASSUME NEW s, ThreadsWithin(s), NEW id \in ThreadIds \ Ids(s)
  PROVE  Len(s) < MaxThreadsPerGuild
<1>1. Ids(s) \in SUBSET ThreadIds
  <2>1. \A i \in DOMAIN s : s[i] \in CachedThread
    BY DEF ThreadsWithin
  <2>2. \A t \in CachedThread : t.id \in ThreadIds
    BY DEF CachedThread
  <2>3. QED
    BY <2>1, <2>2 DEF Ids, Items
<1>2. IsFiniteSet(Ids(s)) /\ Cardinality(Ids(s)) = Len(s)
  BY CountIds
<1>3. Cardinality(Ids(s) \cup {id}) = Len(s) + 1
  BY <1>2, FS_AddElement
<1>4. Ids(s) \cup {id} \in SUBSET ThreadIds
  BY <1>1
<1>5. Cardinality(Ids(s) \cup {id}) <= Cardinality(ThreadIds)
  BY <1>4, FS_Subset, OneGuild
<1>6. Cardinality(ThreadIds) \in Nat /\ Len(s) \in Nat
  BY FS_CardinalityType, OneGuild DEF ThreadsWithin
<1>7. QED
  BY <1>3, <1>5, <1>6, TopologyAssumption, OneGuild

\* What a put makes of the threads, as a set.
LEMMA PutThreadItems ==
  ASSUME NEW s, ThreadsWithin(s), NEW t \in CachedThread
  PROVE  Items(PutThread(s, t)) = {u \in Items(s) : u.id # t.id} \cup {t}
<1>1. s \in Seq(CachedThread) /\ DOMAIN s = 1..Len(s) /\ Len(s) \in Nat
  BY DEF ThreadsWithin
<1>2. \A i, j \in DOMAIN s : s[i].id = s[j].id => i = j
  BY DEF ThreadsWithin, Distinct, ThreadIdsOf
<1>3. CASE \E i \in DOMAIN s : s[i].id = t.id
  <2> DEFINE k == CHOOSE i \in DOMAIN s : s[i].id = t.id
             r == [s EXCEPT ![k] = t]
  <2>1. k \in DOMAIN s /\ s[k].id = t.id
    BY <1>3
  <2>2. PutThread(s, t) = r
    BY <1>3 DEF PutThread
  <2> HIDE DEF k
  <2>3. DOMAIN r = DOMAIN s /\ r[k] = t /\ \A i \in DOMAIN s : i # k => r[i] = s[i]
    BY <1>1, <2>1
  <2>4. \A i \in DOMAIN s : i # k <=> s[i].id # t.id
    BY <1>2, <2>1
  <2> HIDE DEF r
  <2>5. Items(r) = {u \in Items(s) : u.id # t.id} \cup {t}
    BY <2>1, <2>3, <2>4 DEF Items
  <2>6. QED
    BY <2>2, <2>5
<1>4. CASE ~\E i \in DOMAIN s : s[i].id = t.id
  <2>1. t.id \in ThreadIds \ Ids(s)
    BY <1>4 DEF CachedThread, Ids, Items
  <2>2. Len(s) < MaxThreadsPerGuild
    BY <2>1, RoomForThreads
  <2>3. PutThread(s, t) = Append(s, t)
    <3>1. ~(Len(s) >= MaxThreadsPerGuild)
      BY <1>1, <2>2, TopologyAssumption
    <3>2. QED
      BY <1>4, <3>1 DEF PutThread
  <2>4. Items(Append(s, t)) = Items(s) \cup {t}
    BY <1>1, AppendItems
  <2>5. {u \in Items(s) : u.id # t.id} = Items(s)
    BY <1>4 DEF Items
  <2>6. QED
    BY <2>3, <2>4, <2>5
<1>5. QED
  BY <1>3, <1>4

Picture(down, chs, ths) == Mirrored(down, Items(chs), Items(ths))

LEMMA ShownOfGuild ==
  ASSUME Known(TheGuild)
  PROVE  Shown = Picture(guilds[TheGuild].unavailable, guilds[TheGuild].channels, guilds[TheGuild].threads)
BY DEF Shown, Picture, ChannelsOf, ThreadsOf

LEMMA ShownFields ==
  ASSUME Known(TheGuild)
  PROVE  /\ Shown.known = TRUE /\ Shown.down = guilds[TheGuild].unavailable
         /\ Shown.chans = Items(guilds[TheGuild].channels)
         /\ Shown.threads = Items(guilds[TheGuild].threads)
BY ShownOfGuild DEF Picture, Mirrored

LEMMA ShownType ==
  ASSUME TopologyBounded
  PROVE  /\ Shown \in Nav /\ (Shown.known <=> Known(TheGuild))
         /\ ~Shown.known => Shown = Nowhere
         /\ NavIds(Shown) = ActiveIds
<1>1. CASE Known(TheGuild)
  <2>1. TheGuild \in DOMAIN guilds /\ DOMAIN guilds \subseteq {TheGuild}
    BY <1>1, OneGuild, BoundedIsWithin DEF Known, GuildsWithin
  <2>2. guilds[TheGuild] \in Guild
    BY <2>1, CachedGuild
  <2>3. /\ guilds[TheGuild].unavailable \in BOOLEAN
        /\ guilds[TheGuild].channels \in Seq(GuildChannelIds)
        /\ guilds[TheGuild].threads \in Seq(CachedThread)
    BY <2>2 DEF Guild
  <2>4. /\ Items(guilds[TheGuild].channels) \in SUBSET GuildChannelIds
        /\ Items(guilds[TheGuild].threads) \in SUBSET CachedThread
    BY <2>3 DEF Items
  <2> DEFINE down == guilds[TheGuild].unavailable
             C == Items(guilds[TheGuild].channels)
             T == Items(guilds[TheGuild].threads)
  <2>5. Shown \in Nav /\ Shown.known
    <3>1. Shown = [known |-> TRUE, down |-> down, chans |-> C, threads |-> T]
      BY <1>1, ShownOfGuild DEF Picture, Mirrored
    <3>2. down \in BOOLEAN /\ C \in SUBSET GuildChannelIds /\ T \in SUBSET CachedThread
      BY <2>3, <2>4
    <3> HIDE DEF down, C, T
    <3>3. QED
      BY <3>1, <3>2 DEF Nav
  <2>6. ActiveIds = Items(guilds[TheGuild].channels) \cup Items(ThreadIdsOf(guilds[TheGuild].threads))
    BY <2>1 DEF ActiveIds
  <2>7. Items(ThreadIdsOf(guilds[TheGuild].threads)) = Ids(guilds[TheGuild].threads)
    BY <2>3, ThreadIdItems
  <2>8. NavIds(Shown) = Items(guilds[TheGuild].channels) \cup Ids(guilds[TheGuild].threads)
    BY <1>1, ShownFields DEF NavIds, Ids
  <2>9. QED
    BY <1>1, <2>5, <2>6, <2>7, <2>8
<1>2. CASE ~Known(TheGuild)
  <2>1. DOMAIN guilds = {}
    BY <1>2, OneGuild, BoundedIsWithin DEF Known, GuildsWithin
  <2>2. ActiveIds = {}
    BY <2>1 DEF ActiveIds
  <2>3. Shown = Nowhere
    BY <1>2 DEF Shown
  <2>4. QED
    BY <1>2, <2>2, <2>3 DEF Nowhere, Nav, NavIds
<1>3. QED
  BY <1>1, <1>2

LEMMA TouchShows ==
  ASSUME TopologyBounded, Known(TheGuild), NEW update, DOMAIN update = Fields,
         Touch(TheGuild, update)
  PROVE  Shown' = Picture(update.unavailable, update.channels, update.threads)
<1>1. /\ DOMAIN guilds' = DOMAIN guilds
      /\ guilds'[TheGuild].unavailable = update.unavailable
      /\ guilds'[TheGuild].channels = update.channels
      /\ guilds'[TheGuild].threads = update.threads
  BY TouchFields DEF Known
<1>2. TheGuild \in DOMAIN guilds'
  BY <1>1 DEF Known
<1>3. QED
  BY <1>1, <1>2 DEF Shown, Picture, ChannelsOf, ThreadsOf, Known

LEMMA UntouchedShows ==
  ASSUME UNCHANGED topologyVars
  PROVE  Shown' = Shown
BY DEF topologyVars, Shown, ChannelsOf, ThreadsOf, Known

LEMMA SnapshotItems ==
  ASSUME NEW s \in Snapshots
  PROVE  Items(Take(s, MaxChannelsPerGuild)) = Items(s)
<1>1. s \in Seq(GuildChannelIds) /\ Distinct(s)
  BY TopologyAssumption
<1>2. QED
  BY <1>1, RoomForChannels, TakeWithin

LEMMA GuildCreateShows ==
  ASSUME TopologyBounded, NEW u \in BOOLEAN, NEW s \in Snapshots, u => s = << >>,
         ApplyGuildCreate(TheGuild, u, s)
  PROVE  Shown' = Mirrored(u, IF u THEN Shown.chans ELSE Items(s), Shown.threads)
<1>1. CASE Known(TheGuild)
  <2> DEFINE chs == IF u /\ s = << >> THEN guilds[TheGuild].channels
                    ELSE Take(s, MaxChannelsPerGuild)
             update == [guilds[TheGuild] EXCEPT !.unavailable = u, !.channels = chs]
  <2>1. Touch(TheGuild, update)
    BY <1>1 DEF ApplyGuildCreate
  <2>2. Items(chs) = IF u THEN Items(guilds[TheGuild].channels) ELSE Items(s)
    BY SnapshotItems
  <2> HIDE DEF chs
  <2>3. /\ DOMAIN update = Fields /\ update.unavailable = u
        /\ update.channels = chs /\ update.threads = guilds[TheGuild].threads
    BY <1>1, GuildFields DEF Fields, Known
  <2> HIDE DEF update
  <2>4. Shown' = Picture(u, chs, guilds[TheGuild].threads)
    BY <1>1, <2>1, <2>3, TouchShows
  <2>5. /\ Shown.chans = Items(guilds[TheGuild].channels)
        /\ Shown.threads = Items(guilds[TheGuild].threads)
    BY <1>1, ShownFields
  <2>6. QED
    BY <2>2, <2>4, <2>5 DEF Picture
<1>2. CASE ~Known(TheGuild)
  <2> DEFINE room == IF Cardinality(DOMAIN guilds) < MaxGuilds THEN DOMAIN guilds
                     ELSE DOMAIN guilds \ {LeastRecentGuild}
             new == [unavailable |-> u, channels |-> Take(s, MaxChannelsPerGuild),
                     threads |-> << >>, touched |-> topologyClock']
  <2>1. guilds' = [h \in room \cup {TheGuild} |-> IF h = TheGuild THEN new ELSE guilds[h]]
    BY <1>2 DEF ApplyGuildCreate
  <2> HIDE DEF room
  <2>2. TheGuild \in DOMAIN guilds' /\ guilds'[TheGuild] = new
    BY <2>1
  <2>3. Shown' = Picture(u, Take(s, MaxChannelsPerGuild), << >>)
    BY <2>2 DEF Shown, Picture, ChannelsOf, ThreadsOf, Known
  <2>4. Items(<< >>) = {}
    BY DEF Items
  <2>5. Shown = Nowhere
    BY <1>2 DEF Shown
  <2>6. QED
    BY <2>3, <2>4, <2>5, SnapshotItems DEF Picture, Nowhere
<1>3. QED
  BY <1>1, <1>2

LEMMA GuildUpdateShows ==
  ASSUME TopologyBounded, ApplyGuildUpdate(TheGuild, Absent)
  PROVE  Shown' = Shown
<1>1. CASE UNCHANGED topologyVars
  BY <1>1, UntouchedShows
<1>2. CASE Known(TheGuild) /\ ~UNCHANGED topologyVars
  <2> DEFINE update == [guilds[TheGuild] EXCEPT !.unavailable = guilds[TheGuild].unavailable]
  <2>1. Touch(TheGuild, update)
    BY <1>2 DEF ApplyGuildUpdate
  <2>2. /\ DOMAIN update = Fields /\ update.unavailable = guilds[TheGuild].unavailable
        /\ update.channels = guilds[TheGuild].channels
        /\ update.threads = guilds[TheGuild].threads
    BY <1>2, GuildFields DEF Fields, Known
  <2> HIDE DEF update
  <2>3. QED
    BY <1>2, <2>1, <2>2, TouchShows, ShownOfGuild
<1>3. QED
  BY <1>1, <1>2 DEF ApplyGuildUpdate

LEMMA GuildDeleteShows ==
  ASSUME TopologyBounded, NEW u \in BOOLEAN, ApplyGuildDelete(TheGuild, u)
  PROVE  Shown' = IF ~Shown.known THEN Shown
                  ELSE IF u THEN Mirrored(TRUE, Shown.chans, Shown.threads) ELSE Nowhere
<1>1. CASE ~Known(TheGuild)
  BY <1>1, UntouchedShows, ShownType DEF ApplyGuildDelete
<1>2. CASE Known(TheGuild) /\ u
  <2> DEFINE update == [guilds[TheGuild] EXCEPT !.unavailable = TRUE]
  <2>1. Touch(TheGuild, update)
    BY <1>2 DEF ApplyGuildDelete
  <2>2. /\ DOMAIN update = Fields /\ update.unavailable = TRUE
        /\ update.channels = guilds[TheGuild].channels
        /\ update.threads = guilds[TheGuild].threads
    BY <1>2, GuildFields DEF Fields, Known
  <2> HIDE DEF update
  <2>3. Shown' = Picture(TRUE, guilds[TheGuild].channels, guilds[TheGuild].threads)
    BY <1>2, <2>1, <2>2, TouchShows
  <2>4. QED
    BY <1>2, <2>3, ShownFields DEF Picture
<1>3. CASE Known(TheGuild) /\ ~u
  <2>1. guilds' = [h \in DOMAIN guilds \ {TheGuild} |-> guilds[h]]
    BY <1>3 DEF ApplyGuildDelete
  <2>2. TheGuild \notin DOMAIN guilds'
    BY <2>1
  <2>3. Shown' = Nowhere
    BY <2>2 DEF Shown, Known
  <2>4. QED
    BY <1>3, <2>3, ShownType
<1>4. QED
  BY <1>1, <1>2, <1>3

LEMMA ChannelChangeShows ==
  ASSUME TopologyBounded, NEW c \in GuildChannelIds, ApplyChannelChange(TheGuild, c)
  PROVE  Shown' = IF Shown.known THEN Mirrored(Shown.down, Shown.chans \cup {c}, Shown.threads) ELSE Shown
<1>1. CASE ~Known(TheGuild)
  BY <1>1, UntouchedShows, ShownType DEF ApplyChannelChange
<1>2. CASE Known(TheGuild)
  <2> DEFINE old == guilds[TheGuild].channels
             chs == IF c \in Items(old) \/ Len(old) >= MaxChannelsPerGuild THEN old
                    ELSE Append(old, c)
             update == [guilds[TheGuild] EXCEPT !.channels = chs]
  <2>1. Touch(TheGuild, update)
    BY <1>2 DEF ApplyChannelChange
  <2>2. ChannelsWithin(old)
    BY <1>2, CachedGuild DEF Known
  <2>3. Items(chs) = Items(old) \cup {c}
    <3>1. CASE c \in Items(old)
      BY <3>1
    <3>2. CASE c \notin Items(old)
      <4>1. Len(old) < MaxChannelsPerGuild /\ Len(old) \in Nat
        BY <2>2, <3>2, RoomForChannels DEF ChannelsWithin
      <4>2. ~(Len(old) >= MaxChannelsPerGuild)
        BY <4>1, TopologyAssumption
      <4>3. chs = Append(old, c)
        BY <3>2, <4>2
      <4>4. QED
        BY <2>2, <4>3, AppendItems DEF ChannelsWithin
    <3>3. QED
      BY <3>1, <3>2
  <2> HIDE DEF chs
  <2>4. /\ DOMAIN update = Fields /\ update.unavailable = guilds[TheGuild].unavailable
        /\ update.channels = chs /\ update.threads = guilds[TheGuild].threads
    BY <1>2, GuildFields DEF Fields, Known
  <2> HIDE DEF update
  <2>5. Shown' = Picture(guilds[TheGuild].unavailable, chs, guilds[TheGuild].threads)
    BY <1>2, <2>1, <2>4, TouchShows
  <2>6. QED
    BY <1>2, <2>3, <2>5, ShownFields DEF Picture
<1>3. QED
  BY <1>1, <1>2

LEMMA ChannelDeleteShows ==
  ASSUME TopologyBounded, NEW c \in GuildChannelIds, ApplyChannelDelete(TheGuild, c)
  PROVE  Shown' = IF Shown.known
                  THEN Mirrored(Shown.down, Shown.chans \ {c}, {t \in Shown.threads : t.parent # c})
                  ELSE Shown
<1>1. CASE ~Known(TheGuild)
  BY <1>1, UntouchedShows, ShownType DEF ApplyChannelDelete
<1>2. CASE Known(TheGuild)
  <2> DEFINE oldChs == guilds[TheGuild].channels
             oldThs == guilds[TheGuild].threads
             chs == Retain(oldChs, Items(oldChs) \ {c})
             ths == Retain(oldThs, {t \in Items(oldThs) : t.parent # c})
             update == [guilds[TheGuild] EXCEPT !.channels = chs, !.threads = ths]
  <2>1. Touch(TheGuild, update)
    BY <1>2 DEF ApplyChannelDelete
  <2>2. ChannelsWithin(oldChs) /\ ThreadsWithin(oldThs)
    BY <1>2, CachedGuild DEF Known
  <2>3. Items(chs) = Items(oldChs) \ {c}
    <3>1. Items(chs) = Items(oldChs) \cap (Items(oldChs) \ {c})
      BY <2>2, RetainProperties DEF ChannelsWithin
    <3>2. QED
      BY <3>1
  <2>4. Items(ths) = {t \in Items(oldThs) : t.parent # c}
    <3>1. Items(ths) = Items(oldThs) \cap {t \in Items(oldThs) : t.parent # c}
      BY <2>2, RetainProperties DEF ThreadsWithin
    <3>2. QED
      BY <3>1
  <2> HIDE DEF chs, ths
  <2>5. /\ DOMAIN update = Fields /\ update.unavailable = guilds[TheGuild].unavailable
        /\ update.channels = chs /\ update.threads = ths
    BY <1>2, GuildFields DEF Fields, Known
  <2> HIDE DEF update
  <2>6. Shown' = Picture(guilds[TheGuild].unavailable, chs, ths)
    BY <1>2, <2>1, <2>5, TouchShows
  <2>7. QED
    BY <1>2, <2>3, <2>4, <2>6, ShownFields DEF Picture
<1>3. QED
  BY <1>1, <1>2

\* An update of the threads alone.
LEMMA ThreadsTouchShows ==
  ASSUME TopologyBounded, Known(TheGuild), NEW ths,
         Touch(TheGuild, [guilds[TheGuild] EXCEPT !.threads = ths])
  PROVE  Shown' = Mirrored(Shown.down, Shown.chans, Items(ths))
<1> DEFINE update == [guilds[TheGuild] EXCEPT !.threads = ths]
<1>1. /\ DOMAIN update = Fields /\ update.unavailable = guilds[TheGuild].unavailable
      /\ update.channels = guilds[TheGuild].channels /\ update.threads = ths
  BY GuildFields DEF Fields, Known
<1>2. Touch(TheGuild, update)
  OBVIOUS
<1> HIDE DEF update
<1>3. Shown' = Picture(guilds[TheGuild].unavailable, guilds[TheGuild].channels, ths)
  BY <1>1, <1>2, TouchShows
<1>4. QED
  BY <1>3, ShownFields DEF Picture

LEMMA DropThreadItems ==
  ASSUME NEW s, ThreadsWithin(s), NEW id
  PROVE  Items(DropThread(s, id)) = {t \in Items(s) : t.id # id}
<1>1. Items(DropThread(s, id)) = Items(s) \cap {t \in Items(s) : t.id # id}
  BY RetainProperties DEF DropThread, ThreadsWithin
<1>2. QED
  BY <1>1

LEMMA ThreadChangeShows ==
  ASSUME TopologyBounded, NEW t \in Thread, t.guild = TheGuild, ApplyThreadChange(t)
  PROVE  Shown' = IF Shown.known
                  THEN Mirrored(Shown.down, Shown.chans,
                              {u \in Shown.threads : u.id # t.id}
                                \cup IF t.archived THEN {} ELSE {AsCached(t)})
                  ELSE Shown
<1>1. CASE ~Known(TheGuild)
  BY <1>1, UntouchedShows, ShownType DEF ApplyThreadChange
<1>2. CASE Known(TheGuild)
  <2> DEFINE old == guilds[TheGuild].threads
             ths == IF t.archived THEN DropThread(old, t.id) ELSE PutThread(old, AsCached(t))
  <2>1. Touch(TheGuild, [guilds[TheGuild] EXCEPT !.threads = ths])
    BY <1>2 DEF ApplyThreadChange
  <2>2. ThreadsWithin(old)
    BY <1>2, CachedGuild DEF Known
  <2>3. AsCached(t) \in CachedThread /\ AsCached(t).id = t.id
    BY AsCachedType
  <2>4. Items(ths) = {u \in Items(old) : u.id # t.id} \cup IF t.archived THEN {} ELSE {AsCached(t)}
    BY <2>2, <2>3, DropThreadItems, PutThreadItems
  <2> HIDE DEF ths
  <2>5. Shown' = Mirrored(Shown.down, Shown.chans, Items(ths))
    BY <1>2, <2>1, ThreadsTouchShows
  <2>6. QED
    BY <1>2, <2>4, <2>5, ShownFields
<1>3. QED
  BY <1>1, <1>2

LEMMA ThreadDeleteShows ==
  ASSUME TopologyBounded, NEW id \in ThreadIds, ApplyThreadDelete(TheGuild, id)
  PROVE  Shown' = IF Shown.known
                  THEN Mirrored(Shown.down, Shown.chans, {t \in Shown.threads : t.id # id})
                  ELSE Shown
<1>1. CASE ~Known(TheGuild)
  BY <1>1, UntouchedShows, ShownType DEF ApplyThreadDelete
<1>2. CASE Known(TheGuild)
  <2> DEFINE ths == DropThread(guilds[TheGuild].threads, id)
  <2>1. Touch(TheGuild, [guilds[TheGuild] EXCEPT !.threads = ths])
    BY <1>2 DEF ApplyThreadDelete
  <2>2. ThreadsWithin(guilds[TheGuild].threads)
    BY <1>2, CachedGuild DEF Known
  <2>3. Items(ths) = {t \in Items(guilds[TheGuild].threads) : t.id # id}
    BY <2>2, DropThreadItems
  <2> HIDE DEF ths
  <2>4. Shown' = Mirrored(Shown.down, Shown.chans, Items(ths))
    BY <1>2, <2>1, ThreadsTouchShows
  <2>5. QED
    BY <1>2, <2>3, <2>4, ShownFields
<1>3. QED
  BY <1>1, <1>2

\* The threads of a listing are active and each is listed once.
LEMMA ListingParts ==
  ASSUME NEW l \in Seq(Thread), Items(l) \in Listings, NEW i \in DOMAIN l
  PROVE  /\ Active(l[i], TheGuild) /\ l[i] \in Items(l)
         /\ \A j \in DOMAIN l : l[j].id = l[i].id => l[j] = l[i]
<1>1. l[i] \in Items(l) /\ \A j \in DOMAIN l : l[j] \in Items(l)
  BY DEF Items
<1>2. OneEach(Items(l)) /\ l[i].guild = TheGuild /\ l[i].archived = FALSE
  BY <1>1 DEF Listings
<1>3. QED
  BY <1>1, <1>2 DEF OneEach, Active

\* What a sync makes of the threads, as a set.
LEMMA SyncedItems ==
  ASSUME TopologyBounded, Known(TheGuild), NEW scope, NEW l \in Seq(Thread), Items(l) \in Listings
  PROVE  Items(SyncedThreads(TheGuild, scope, l)) =
           {t \in Items(guilds[TheGuild].threads) :
              ~InScope(t, scope) /\ \A u \in Items(l) : u.id # t.id} \cup ListedThreads(l)
<1> DEFINE cached == guilds[TheGuild].threads
           keep == {t \in Items(cached) : ~InScope(t, scope)}
           base == Retain(cached, keep)
           n == Len(l)
           outside(i) == {t \in keep : \A j \in 1..i : l[j].id # t.id}
           listed(i) == {AsCached(l[j]) : j \in 1..i}
<1>1. n \in Nat /\ DOMAIN l = 1..n
  OBVIOUS
<1>2. TheGuild \in DOMAIN guilds /\ ThreadsWithin(cached)
  BY CachedGuild DEF Known
<1>3. PICK f : IsSyncing(f, base, TheGuild, l) /\ SyncedThreads(TheGuild, scope, l) = f[n]
  BY <1>2, SyncedIsLast
<1>4. ThreadsWithin(base) /\ Items(base) = keep
  <2>1. ThreadsWithin(base)
    BY <1>2, RetainWithin
  <2>2. Items(base) = Items(cached) \cap keep
    BY <1>2, RetainProperties DEF ThreadsWithin
  <2>3. QED
    BY <2>1, <2>2
<1>5. ASSUME NEW i \in 0..n, i < n
      PROVE  /\ i+1 \in 1..n /\ i+1 \in 0..n
             /\ f[i+1] = PutThread(f[i], AsCached(l[i+1]))
             /\ 1..i+1 = (1..i) \cup {i+1} /\ 1..i \subseteq 1..n
  <2>1. i+1 \in 1..n /\ i+1 \in 0..n /\ i+1 # 0 /\ (i+1)-1 = i
    BY <1>1, <1>5
  <2>2. Active(l[i+1], TheGuild)
    BY <1>1, <2>1, ListingParts
  <2>3. f[i+1] = PutThread(f[(i+1)-1], AsCached(l[i+1]))
    BY <1>3, <2>1, <2>2 DEF IsSyncing
  <2>4. 1..i+1 = (1..i) \cup {i+1} /\ 1..i \subseteq 1..n
    BY <1>1, <1>5
  <2>5. QED
    BY <2>1, <2>3, <2>4
<1>6. f[0] = base
  <2>1. 0 \in 0..Len(l)
    BY <1>1
  <2>2. QED
    BY <1>3, <2>1 DEF IsSyncing
<1> DEFINE S == {i \in 0..n : ThreadsWithin(f[i]) /\ Items(f[i]) = outside(i) \cup listed(i)}
<1>7. 0 \in S
  <2>1. outside(0) = keep /\ listed(0) = {}
    OBVIOUS
  <2> HIDE DEF outside, listed, keep, base
  <2>2. Items(f[0]) = outside(0) \cup listed(0) /\ ThreadsWithin(f[0])
    BY <1>4, <1>6, <2>1
  <2>3. QED
    BY <1>1, <2>2
<1> HIDE DEF keep, base, n
<1>8. ASSUME NEW i \in 0..n, i < n, i \in S
      PROVE  i+1 \in S
  <2> DEFINE t == AsCached(l[i+1])
  <2>1. l[i+1] \in Thread
    BY <1>1, <1>5, <1>8
  <2>2. t \in CachedThread /\ t.id = l[i+1].id
    BY <2>1, AsCachedType
  <2>3. ThreadsWithin(f[i+1]) /\ Items(f[i+1]) = {u \in Items(f[i]) : u.id # t.id} \cup {t}
    BY <1>5, <1>8, <2>2, PutThreadWithin, PutThreadItems
  <2>4. {u \in outside(i) : u.id # t.id} = outside(i+1)
    BY <1>5, <1>8, <2>2
  <2>5. {u \in listed(i) : u.id # t.id} \cup {t} = listed(i+1)
    <3>1. ASSUME NEW j \in 1..i, AsCached(l[j]).id = t.id PROVE AsCached(l[j]) = t
      <4>1. l[j] \in Thread /\ AsCached(l[j]).id = l[j].id
        BY <1>1, <1>5, <1>8, AsCachedType
      <4>2. j \in DOMAIN l /\ i+1 \in DOMAIN l /\ l[j].id = l[i+1].id
        BY <1>1, <1>5, <1>8, <2>2, <3>1, <4>1
      <4>3. l[j] = l[i+1]
        BY <4>2, ListingParts
      <4>4. QED
        BY <4>3
    <3> HIDE DEF t
    <3>2. listed(i+1) = listed(i) \cup {t}
      BY <1>5, <1>8 DEF t
    <3>3. QED
      BY <3>1, <3>2
  <2> HIDE DEF outside, listed, t
  <2>6. Items(f[i+1]) = outside(i+1) \cup listed(i+1)
    BY <1>8, <2>3, <2>4, <2>5
  <2>7. QED
    BY <1>5, <1>8, <2>3, <2>6
<1>9. n \in S
  <2> HIDE DEF S
  <2>1. 0 \in S /\ \A i \in 0..n : i < n /\ i \in S => i+1 \in S
    BY <1>7, <1>8
  <2>2. 0..n \subseteq S
    BY <1>1, <2>1, UpTo
  <2>3. QED
    BY <1>1, <2>2
<1>10. listed(n) = ListedThreads(l)
  BY <1>1 DEF ListedThreads, Items
<1>11. outside(n) = {t \in Items(cached) : ~InScope(t, scope) /\ \A u \in Items(l) : u.id # t.id}
  BY <1>1 DEF keep, Items
<1> HIDE DEF outside, listed
<1>12. QED
  BY <1>3, <1>9, <1>10, <1>11

LEMMA ThreadListSyncShows ==
  ASSUME TopologyBounded, NEW scope \in Scopes, NEW l \in ThreadLists, Items(l) \in Listings,
         ApplyThreadListSync(TheGuild, scope, l)
  PROVE  Shown' = IF Shown.known
                  THEN Mirrored(Shown.down, Shown.chans,
                              {t \in Shown.threads : /\ ~InScope(t, scope)
                                                     /\ \A u \in Items(l) : u.id # t.id}
                                \cup ListedThreads(l))
                  ELSE Shown
<1>1. CASE ~Known(TheGuild)
  BY <1>1, UntouchedShows, ShownType DEF ApplyThreadListSync
<1>2. CASE Known(TheGuild)
  <2> DEFINE ths == SyncedThreads(TheGuild, scope, l)
  <2>1. Touch(TheGuild, [guilds[TheGuild] EXCEPT !.threads = ths])
    BY <1>2 DEF ApplyThreadListSync
  <2>2. l \in Seq(Thread)
    BY TopologyAssumption
  <2>3. Items(ths) = {t \in Items(guilds[TheGuild].threads) :
                        ~InScope(t, scope) /\ \A u \in Items(l) : u.id # t.id} \cup ListedThreads(l)
    BY <1>2, <2>2, SyncedItems
  <2> HIDE DEF ths
  <2>4. Shown' = Mirrored(Shown.down, Shown.chans, Items(ths))
    BY <1>2, <2>1, ThreadsTouchShows
  <2>5. QED
    BY <1>2, <2>3, <2>4, ShownFields
<1>3. QED
  BY <1>1, <1>2
----------------------------------------------------------------------------
(* Any event                                                               *)

LEMMA EffectType ==
  ASSUME NEW e, EventOK(e), NEW n \in Nav
  PROVE  Effect(e, n) \in Nav
<1>1. /\ n.known \in BOOLEAN /\ n.down \in BOOLEAN
      /\ n.chans \in SUBSET GuildChannelIds /\ n.threads \in SUBSET CachedThread
  BY DEF Nav
<1>2. \A down \in BOOLEAN, C \in SUBSET GuildChannelIds, T \in SUBSET CachedThread :
        Mirrored(down, C, T) \in Nav
  BY DEF Mirrored, Nav
<1>3. Nowhere \in Nav
  BY DEF Nowhere, Nav
<1>4. CASE e.kind = "GuildCreate"
  <2>1. e.unavailable \in BOOLEAN /\ e.channels \in Snapshots
    BY <1>4 DEF EventOK, GuildEventOK, ThreadEventOK, MessageEventOK
  <2>2. e.channels \in Seq(GuildChannelIds)
    BY <2>1, TopologyAssumption
  <2>3. Items(e.channels) \in SUBSET GuildChannelIds
    BY <2>2 DEF Items
  <2>4. QED
    BY <1>1, <1>2, <1>4, <2>1, <2>3 DEF Effect
<1>5. CASE e.kind # "GuildCreate"
  <2> SUFFICES Changed(e, n) \in Nav
    BY <1>5 DEF Effect
  <2>1. CASE e.kind = "GuildDelete"
    BY <1>1, <1>2, <1>3, <2>1 DEF Changed
  <2>2. CASE e.kind \in {"ChannelCreate", "ChannelUpdate"}
    <3>1. e.id \in GuildChannelIds
      BY <2>2 DEF EventOK, GuildEventOK, ThreadEventOK, MessageEventOK
    <3>2. QED
      BY <1>1, <1>2, <2>2, <3>1 DEF Changed
  <2>3. CASE e.kind \in {"ChannelDelete", "ThreadDelete"}
    <3>1. /\ n.chans \ {e.id} \in SUBSET GuildChannelIds
          /\ {t \in n.threads : t.parent # e.id} \in SUBSET CachedThread
          /\ {t \in n.threads : t.id # e.id} \in SUBSET CachedThread
      BY <1>1
    <3>2. QED
      BY <1>1, <1>2, <2>3, <3>1 DEF Changed
  <2>4. CASE e.kind \in {"ThreadCreate", "ThreadUpdate"}
    <3>1. e.thread \in Thread
      BY <2>4 DEF EventOK, GuildEventOK, ThreadEventOK, MessageEventOK
    <3>2. AsCached(e.thread) \in CachedThread
      BY <3>1, AsCachedType
    <3> DEFINE T == {t \in n.threads : t.id # e.thread.id}
                      \cup IF e.thread.archived THEN {} ELSE {AsCached(e.thread)}
    <3>3. T \in SUBSET CachedThread
      BY <1>1, <3>2
    <3>4. Changed(e, n) = Mirrored(n.down, n.chans, T)
      BY <2>4 DEF Changed
    <3> HIDE DEF T
    <3>5. QED
      BY <1>1, <1>2, <3>3, <3>4
  <2>5. CASE e.kind = "ThreadListSync"
    <3>1. e.threads \in Seq(Thread)
      BY <2>5, TopologyAssumption DEF EventOK, GuildEventOK, ThreadEventOK, MessageEventOK
    <3>2. \A t \in Items(e.threads) : t \in Thread
      BY <3>1 DEF Items
    <3>3. ListedThreads(e.threads) \in SUBSET CachedThread
      BY <3>2, AsCachedType DEF ListedThreads
    <3> DEFINE T == {t \in n.threads : /\ ~InScope(t, e.scope)
                                       /\ \A u \in Items(e.threads) : u.id # t.id}
                      \cup ListedThreads(e.threads)
    <3>4. T \in SUBSET CachedThread
      BY <1>1, <3>3
    <3>5. Changed(e, n) = Mirrored(n.down, n.chans, T)
      BY <2>5 DEF Changed
    <3> HIDE DEF T
    <3>6. QED
      BY <1>1, <1>2, <3>4, <3>5
  <2>6. CASE e.kind \notin {"GuildDelete", "ChannelCreate", "ChannelUpdate", "ChannelDelete",
                            "ThreadCreate", "ThreadUpdate", "ThreadDelete", "ThreadListSync"}
    BY <2>6 DEF Changed
  <2>7. QED
    BY <2>1, <2>2, <2>3, <2>4, <2>5, <2>6
<1>6. QED
  BY <1>4, <1>5

\* drain: what is shown after an event is what the event makes of what was shown.
LEMMA ApplyShows ==
  ASSUME TopologyBounded, NEW e, EventOK(e), Apply(e)
  PROVE  Shown' = Effect(e, Shown)
<1>1. CASE e.kind \in {"GatewayReady", "GatewayResumed"}
  <2>1. UNCHANGED topologyVars
    BY <1>1 DEF Apply, GatewayUp
  <2>2. QED
    BY <1>1, <2>1, UntouchedShows DEF Effect, Changed
<1>2. CASE e.kind = "GuildCreate"
  <2>1. /\ e.guild = TheGuild /\ e.unavailable \in BOOLEAN /\ e.channels \in Snapshots
        /\ e.unavailable => e.channels = << >>
    BY <1>2 DEF EventOK, GuildEventOK, ThreadEventOK, MessageEventOK
  <2>2. ApplyGuildCreate(TheGuild, e.unavailable, e.channels)
    BY <1>2, <2>1 DEF Apply, GuildCreate
  <2>3. QED
    BY <1>2, <2>1, <2>2, GuildCreateShows DEF Effect
<1>3. CASE e.kind = "GuildUpdate"
  <2>1. e.guild = TheGuild /\ e.unavailable = Absent
    BY <1>3 DEF EventOK, GuildEventOK, ThreadEventOK, MessageEventOK
  <2>2. ApplyGuildUpdate(TheGuild, Absent)
    BY <1>3, <2>1 DEF Apply, GuildUpdate
  <2>3. QED
    BY <1>3, <2>2, GuildUpdateShows DEF Effect, Changed
<1>4. CASE e.kind = "GuildDelete"
  <2>1. e.guild = TheGuild /\ e.unavailable \in BOOLEAN
    BY <1>4 DEF EventOK, GuildEventOK, ThreadEventOK, MessageEventOK
  <2>2. ApplyGuildDelete(TheGuild, e.unavailable)
    BY <1>4, <2>1 DEF Apply, GuildDelete
  <2>3. QED
    BY <1>4, <2>1, <2>2, GuildDeleteShows DEF Effect, Changed
<1>5. CASE e.kind \in {"ChannelCreate", "ChannelUpdate"}
  <2>1. e.guild = TheGuild /\ e.id \in GuildChannelIds
    BY <1>5 DEF EventOK, GuildEventOK, ThreadEventOK, MessageEventOK
  <2>2. ApplyChannelChange(TheGuild, e.id)
    BY <1>5, <2>1 DEF Apply, ChannelCreate, ChannelUpdate
  <2>3. QED
    BY <1>5, <2>1, <2>2, ChannelChangeShows DEF Effect, Changed
<1>6. CASE e.kind = "ChannelDelete"
  <2>1. e.guild = TheGuild /\ e.id \in GuildChannelIds
    BY <1>6 DEF EventOK, GuildEventOK, ThreadEventOK, MessageEventOK
  <2>2. ApplyChannelDelete(TheGuild, e.id)
    BY <1>6, <2>1 DEF Apply, ChannelDelete
  <2>3. QED
    BY <1>6, <2>1, <2>2, ChannelDeleteShows DEF Effect, Changed
<1>7. CASE e.kind \in {"ThreadCreate", "ThreadUpdate"}
  <2>1. e.thread \in Thread /\ e.thread.guild = TheGuild
    BY <1>7 DEF EventOK, GuildEventOK, ThreadEventOK, MessageEventOK
  <2>2. ApplyThreadChange(e.thread)
    BY <1>7, <2>1 DEF Apply, ThreadCreate, ThreadUpdate
  <2>3. QED
    BY <1>7, <2>1, <2>2, ThreadChangeShows DEF Effect, Changed
<1>8. CASE e.kind = "ThreadDelete"
  <2>1. e.guild = TheGuild /\ e.id \in ThreadIds
    BY <1>8 DEF EventOK, GuildEventOK, ThreadEventOK, MessageEventOK
  <2>2. ApplyThreadDelete(TheGuild, e.id)
    BY <1>8, <2>1 DEF Apply, ThreadDelete
  <2>3. QED
    BY <1>8, <2>1, <2>2, ThreadDeleteShows DEF Effect, Changed
<1>9. CASE e.kind = "ThreadListSync"
  <2>1. /\ e.guild = TheGuild /\ e.scope \in Scopes /\ e.threads \in ThreadLists
        /\ Items(e.threads) \in Listings
    BY <1>9 DEF EventOK, GuildEventOK, ThreadEventOK, MessageEventOK
  <2>2. ApplyThreadListSync(TheGuild, e.scope, e.threads)
    BY <1>9, <2>1 DEF Apply, ThreadListSync
  <2>3. QED
    BY <1>9, <2>1, <2>2, ThreadListSyncShows DEF Effect, Changed
<1>10. CASE e.kind \in {"Message", "MessageUpdate", "MessageDelete"}
  <2>1. UNCHANGED topologyVars
    BY <1>10 DEF Apply, MessageCreated, MessageUpdated, MessageDeleted, OnTimelines
  <2>2. QED
    BY <1>10, <2>1, UntouchedShows DEF Effect, Changed
<1>11. QED
  BY <1>1, <1>2, <1>3, <1>4, <1>5, <1>6, <1>7, <1>8, <1>9, <1>10
     DEF EventOK, GuildEventOK, ThreadEventOK, MessageEventOK

\* An event of the guild is one that FrontendState takes.
LEMMA ApplyOfMirror ==
  ASSUME NEW e, EventOK(e), Apply(e)
  PROVE  Next
<1>1. CASE e.kind \in {"GatewayReady", "GatewayResumed"}
  BY <1>1 DEF Apply, Next
<1>2. CASE e.kind \in {"GuildCreate", "GuildUpdate", "GuildDelete"}
  <2>1. /\ e.guild = TheGuild
        /\ e.kind = "GuildCreate" => e.unavailable \in BOOLEAN /\ e.channels \in Snapshots
        /\ e.kind = "GuildUpdate" => e.unavailable \in Flags
        /\ e.kind = "GuildDelete" => e.unavailable \in BOOLEAN
    BY <1>2 DEF EventOK, GuildEventOK, ThreadEventOK, MessageEventOK, Flags
  <2>2. GuildEvent
    BY <1>2, <2>1, OneGuild DEF Apply, GuildEvent
  <2>3. QED
    BY <2>2 DEF Next
<1>3. CASE e.kind \in {"ChannelCreate", "ChannelUpdate", "ChannelDelete"}
  <2>1. e.guild = TheGuild /\ e.id \in GuildChannelIds
    BY <1>3 DEF EventOK, GuildEventOK, ThreadEventOK, MessageEventOK
  <2>2. ChannelEvent
    BY <1>3, <2>1, OneGuild DEF Apply, ChannelEvent
  <2>3. QED
    BY <2>2 DEF Next
<1>4. CASE e.kind \in {"ThreadCreate", "ThreadUpdate"}
  <2>1. e.thread \in Thread
    BY <1>4 DEF EventOK, GuildEventOK, ThreadEventOK, MessageEventOK
  <2>2. ThreadEvent
    BY <1>4, <2>1 DEF Apply, ThreadEvent
  <2>3. QED
    BY <2>2 DEF Next
<1>5. CASE e.kind \in {"ThreadDelete", "ThreadListSync"}
  <2>1. /\ e.guild = TheGuild
        /\ e.kind = "ThreadDelete" => e.id \in ThreadIds
        /\ e.kind = "ThreadListSync" => e.scope \in Scopes /\ e.threads \in ThreadLists
    BY <1>5 DEF EventOK, GuildEventOK, ThreadEventOK, MessageEventOK
  <2>2. ThreadEvent
    BY <1>5, <2>1, OneGuild DEF Apply, ThreadEvent
  <2>3. QED
    BY <2>2 DEF Next
<1>6. CASE e.kind \in {"Message", "MessageUpdate", "MessageDelete"}
  <2>1. MessageEventOK(e)
    BY <1>6 DEF EventOK, GuildEventOK, ThreadEventOK
  <2>2. MessageEvent
    BY <1>6, <2>1 DEF Apply, MessageEventOK, MessageEvent
  <2>3. QED
    BY <2>2 DEF Next
<1>7. QED
  BY <1>1, <1>2, <1>3, <1>4, <1>5, <1>6
     DEF EventOK, GuildEventOK, ThreadEventOK, MessageEventOK
----------------------------------------------------------------------------
(* No timeline outlives its channel or thread                              *)

Tidy == DOMAIN channels \subseteq ActiveIds

\* What an event retires covers what leaves the navigation.
LEMMA RetopologyTidy ==
  ASSUME Tidy, NEW dropped, NEW back, Retopology(dropped, back), Left \subseteq Items(dropped)
  PROVE  Tidy'
<1>1. DOMAIN channels' = DOMAIN channels \ Items(dropped)
  BY DEF Retopology, Without
<1>2. QED
  BY <1>1 DEF Left, Tidy

LEMMA NothingLeaves ==
  ASSUME Tidy, UNCHANGED channels, Left = {}
  PROVE  Tidy'
BY DEF Left, Tidy

\* A message opens at most its own timeline.
LEMMA MessageTidy ==
  ASSUME Inv, Tidy, UNCHANGED topologyVars, NEW c \in ChannelIds, c \in ActiveIds,
         NEW m \in Message, ApplyMessage(c, m)
  PROVE  Tidy'
<1>1. Left = {}
  BY UnchangedActive
<1>2. CASE UNCHANGED timelineVars
  BY <1>1, <1>2, NothingLeaves DEF timelineVars
<1>3. CASE ~UNCHANGED timelineVars
  <2> DEFINE open == Opened(channels, c, clock')
  <2>1. Tick /\ channels' = [open EXCEPT ![c].messages = Upsert(open[c].messages, m)]
    BY <1>3 DEF ApplyMessage
  <2>2. clock \in Nat /\ clock' = clock + 1 /\ Cache(channels, clock)
    BY <2>1, InvParts DEF Tick
  <2>3. DOMAIN open \subseteq DOMAIN channels \cup {c}
    BY <2>2, OpenedKeepsCache
  <2> HIDE DEF open
  <2>4. DOMAIN channels' = DOMAIN open
    BY <2>1
  <2>5. QED
    BY <1>1, <2>3, <2>4 DEF Left, Tidy
<1>4. QED
  BY <1>2, <1>3

\* An edit or a deletion opens none.
LEMMA EditTidy ==
  ASSUME Tidy, UNCHANGED topologyVars, NEW c, NEW id, NEW content,
         ApplyUpdate(c, id, content) \/ ApplyDelete(c, id)
  PROVE  Tidy'
<1>1. Left = {}
  BY UnchangedActive
<1>2. DOMAIN channels' = DOMAIN channels
  <2>1. CASE ApplyDelete(c, id)
    BY <2>1 DEF ApplyDelete
  <2>2. CASE ApplyUpdate(c, id, content)
    BY <2>2 DEF ApplyUpdate, timelineVars
  <2>3. QED
    BY <2>1, <2>2
<1>3. QED
  BY <1>1, <1>2 DEF Left, Tidy

\* A guild that fits in the cache never overfills it.
LEMMA NeverOverfull ==
  ASSUME TopologyBounded, NEW scope, NEW l \in ThreadLists
  PROVE  ~Overfull(TheGuild, scope, l)
<1> DEFINE both == {t.id : t \in {u \in Items(ThreadsOf(TheGuild)) : ~InScope(u, scope)}}
                     \cup RestoredBySync(TheGuild, l)
<1>1. ThreadsOf(TheGuild) \in Seq(CachedThread) /\ l \in Seq(Thread)
  BY ListsOfGuild, TopologyAssumption
<1>2. /\ \A t \in Items(ThreadsOf(TheGuild)) : t \in CachedThread
      /\ \A t \in Items(l) : t \in Thread
  BY <1>1 DEF Items
<1>3. /\ \A t \in CachedThread : t.id \in ThreadIds
      /\ \A t \in Thread : t.id \in ThreadIds
  BY DEF CachedThread, Thread
<1>4. both \in SUBSET ThreadIds
  BY <1>2, <1>3 DEF RestoredBySync
<1> HIDE DEF both
<1>5. IsFiniteSet(both) /\ Cardinality(both) <= Cardinality(ThreadIds)
  BY <1>4, FS_Subset, OneGuild
<1>6. Cardinality(both) \in Nat /\ Cardinality(ThreadIds) \in Nat
  BY <1>5, FS_CardinalityType, OneGuild
<1>7. ~(Cardinality(both) > MaxThreadsPerGuild)
  BY <1>5, <1>6, TopologyAssumption, OneGuild
<1>8. QED
  BY <1>7 DEF Overfull, both

\* A snapshot retires what it leaves out; one of an outage leaves nothing out.
LEMMA SnapshotTidy ==
  ASSUME TopologyBounded, Tidy, NEW u \in BOOLEAN, NEW s \in Snapshots, u => s = << >>,
         GuildCreate(TheGuild, u, s)
  PROVE  Tidy'
<1>1. ApplyGuildCreate(TheGuild, u, s)
  BY DEF GuildCreate
<1>2. CASE ~Known(TheGuild)
  <2>1. DOMAIN guilds = {}
    BY <1>2, OneGuild, BoundedIsWithin DEF Known, GuildsWithin
  <2>2. Left = {}
    BY <2>1 DEF Left, ActiveIds
  <2>3. CASE u
    BY <2>2, <2>3, NothingLeaves DEF GuildCreate, timelineVars
  <2>4. CASE ~u
    BY <2>2, <2>4, RetopologyTidy DEF GuildCreate
  <2>5. QED
    BY <2>3, <2>4
<1>3. CASE Known(TheGuild) /\ ~u
  <2>1. s \in Seq(GuildChannelIds) /\ Distinct(s)
    BY TopologyAssumption
  <2>2. Len(s) <= MaxChannelsPerGuild
    BY <2>1, RoomForChannels
  <2>3. Left \subseteq Items(ChannelsOf(TheGuild)) \ Items(s)
    BY <1>1, <1>3, <2>2, OneGuild, GuildCreateActive
  <2>4. Left \subseteq Items(RetiredBySnapshot(TheGuild, s))
    BY <2>3, RetiredBySnapshotItems
  <2>5. Retopology(RetiredBySnapshot(TheGuild, s), Items(s))
    BY <1>3 DEF GuildCreate
  <2>6. QED
    BY <2>4, <2>5, RetopologyTidy
<1>4. CASE Known(TheGuild) /\ u
  <2> DEFINE update == [guilds[TheGuild] EXCEPT !.unavailable = u,
                                                !.channels = guilds[TheGuild].channels]
  <2>1. TheGuild \in DOMAIN guilds /\ Touch(TheGuild, update)
    BY <1>1, <1>4 DEF ApplyGuildCreate, Known
  <2>2. /\ DOMAIN update = Fields /\ update.channels = guilds[TheGuild].channels
        /\ update.threads = guilds[TheGuild].threads
        /\ guilds[TheGuild].threads \in Seq(CachedThread)
    BY <2>1, GuildFields DEF Fields
  <2> HIDE DEF update
  <2>3. Left = {}
    BY <2>1, <2>2, TouchActive
  <2>4. QED
    BY <1>4, <2>3, NothingLeaves DEF GuildCreate, timelineVars
<1>5. QED
  BY <1>2, <1>3, <1>4

LEMMA GuildTidy ==
  ASSUME TopologyBounded, Tidy,
         \/ GuildUpdate(TheGuild, Absent)
         \/ \E u \in BOOLEAN : GuildDelete(TheGuild, u)
  PROVE  Tidy'
<1>1. CASE GuildUpdate(TheGuild, Absent)
  BY <1>1, OneGuild, GuildUpdateActive, NothingLeaves DEF GuildUpdate, timelineVars
<1>2. ASSUME NEW u \in BOOLEAN, GuildDelete(TheGuild, u)
      PROVE Tidy'
  <2>1. IF u THEN Left = {} ELSE Left \subseteq Items(ChannelsOf(TheGuild)) \cup Ids(ThreadsOf(TheGuild))
    BY <1>2, OneGuild, GuildDeleteActive DEF GuildDelete
  <2>2. CASE u
    BY <1>2, <2>1, <2>2, NothingLeaves DEF GuildDelete, timelineVars
  <2>3. CASE ~u
    <3>1. Left \subseteq Items(RetiredByGuildDelete(TheGuild))
      BY <2>1, <2>3, RetiredByGuildDeleteItems
    <3>2. QED
      BY <1>2, <2>3, <3>1, RetopologyTidy DEF GuildDelete
  <2>4. QED
    BY <2>2, <2>3
<1>3. QED
  BY <1>1, <1>2

LEMMA ChannelTidy ==
  ASSUME TopologyBounded, Tidy, NEW c \in GuildChannelIds,
         \/ ChannelCreate(TheGuild, c) \/ ChannelUpdate(TheGuild, c)
         \/ ChannelDelete(TheGuild, c)
  PROVE  Tidy'
<1>1. CASE ChannelCreate(TheGuild, c)
  <2>1. Left \subseteq Items(<< >>)
    BY <1>1, OneGuild, ChannelChangeActive DEF ChannelCreate
  <2>2. QED
    BY <1>1, <2>1, RetopologyTidy DEF ChannelCreate
<1>2. CASE ChannelUpdate(TheGuild, c)
  BY <1>2, OneGuild, ChannelChangeActive, NothingLeaves DEF ChannelUpdate, timelineVars
<1>3. CASE ChannelDelete(TheGuild, c)
  <2>1. Left \subseteq Items(RetiredByChannelDelete(TheGuild, c))
    BY <1>3, OneGuild, ChannelDeleteActive, RetiredByChannelDeleteItems DEF ChannelDelete
  <2>2. QED
    BY <1>3, <2>1, RetopologyTidy DEF ChannelDelete
<1>4. QED
  BY <1>1, <1>2, <1>3

LEMMA ThreadTidy ==
  ASSUME TopologyBounded, Tidy,
         \/ \E t \in Thread : (ThreadCreate(t) /\ ~t.archived) \/ ThreadUpdate(t)
         \/ \E id \in ThreadIds : ThreadDelete(TheGuild, id)
         \/ \E scope \in Scopes, l \in ThreadLists : ThreadListSync(TheGuild, scope, l)
  PROVE  Tidy'
<1>1. ASSUME NEW id \in ThreadIds PROVE Items(<<id>>) = {id}
  BY DEF Items
<1>2. ASSUME NEW t \in Thread, (ThreadCreate(t) /\ ~t.archived) \/ (ThreadUpdate(t) /\ ~t.archived)
      PROVE Tidy'
  <2>1. Left \subseteq Items(<< >>) /\ Retopology(<< >>, {t.id})
    BY <1>2, ThreadChangeActive DEF ThreadCreate, ThreadUpdate
  <2>2. QED
    BY <2>1, RetopologyTidy
<1>3. ASSUME NEW t \in Thread, ThreadUpdate(t) /\ t.archived
      PROVE Tidy'
  <2>1. Left \subseteq {t.id} /\ Retopology(<<t.id>>, {}) /\ t.id \in ThreadIds
    BY <1>3, ThreadChangeActive DEF ThreadUpdate, Thread
  <2>2. QED
    BY <1>1, <2>1, RetopologyTidy
<1>4. ASSUME NEW id \in ThreadIds, ThreadDelete(TheGuild, id)
      PROVE Tidy'
  <2>1. Left \subseteq {id} /\ Retopology(<<id>>, {})
    BY <1>4, OneGuild, ThreadDeleteActive DEF ThreadDelete
  <2>2. QED
    BY <1>1, <2>1, RetopologyTidy
<1>5. ASSUME NEW scope \in Scopes, NEW l \in ThreadLists, ThreadListSync(TheGuild, scope, l)
      PROVE Tidy'
  <2>1. Left \subseteq Items(RetiredBySync(TheGuild, scope, l))
    BY <1>5, OneGuild, NeverOverfull, SyncActive DEF ThreadListSync
  <2>2. QED
    BY <1>5, <2>1, RetopologyTidy DEF ThreadListSync
<1>6. QED
  BY <1>2, <1>3, <1>4, <1>5

\* Any event: a message must be one of a channel or thread that is shown.
LEMMA ApplyTidy ==
  ASSUME FrontendInv, Tidy, NEW e, EventOK(e), Apply(e),
         e.kind = "Message" => e.channel \in ActiveIds
  PROVE  Tidy'
<1>1. Inv /\ TopologyBounded
  BY DEF FrontendInv
<1>2. CASE e.kind \in {"GatewayReady", "GatewayResumed"}
  <2>1. UNCHANGED topologyVars /\ UNCHANGED channels
    BY <1>2 DEF Apply, GatewayUp, timelineVars
  <2>2. QED
    BY <2>1, UnchangedActive, NothingLeaves
<1>3. CASE e.kind = "GuildCreate"
  <2>1. /\ e.guild = TheGuild /\ e.unavailable \in BOOLEAN /\ e.channels \in Snapshots
        /\ e.unavailable => e.channels = << >>
    BY <1>3 DEF EventOK, GuildEventOK, ThreadEventOK, MessageEventOK
  <2>2. GuildCreate(TheGuild, e.unavailable, e.channels)
    BY <1>3, <2>1 DEF Apply
  <2>3. QED
    BY <1>1, <2>1, <2>2, SnapshotTidy
<1>4. CASE e.kind \in {"GuildUpdate", "GuildDelete"}
  <2>1. /\ e.guild = TheGuild
        /\ e.kind = "GuildUpdate" => e.unavailable = Absent
        /\ e.kind = "GuildDelete" => e.unavailable \in BOOLEAN
    BY <1>4 DEF EventOK, GuildEventOK, ThreadEventOK, MessageEventOK
  <2>2. GuildUpdate(TheGuild, Absent) \/ \E u \in BOOLEAN : GuildDelete(TheGuild, u)
    BY <1>4, <2>1 DEF Apply
  <2>3. QED
    BY <1>1, <2>2, GuildTidy
<1>5. CASE e.kind \in {"ChannelCreate", "ChannelUpdate", "ChannelDelete"}
  <2>1. e.guild = TheGuild /\ e.id \in GuildChannelIds
    BY <1>5 DEF EventOK, GuildEventOK, ThreadEventOK, MessageEventOK
  <2>2. \/ ChannelCreate(TheGuild, e.id) \/ ChannelUpdate(TheGuild, e.id)
        \/ ChannelDelete(TheGuild, e.id)
    BY <1>5, <2>1 DEF Apply
  <2>3. QED
    BY <1>1, <2>1, <2>2, ChannelTidy
<1>6. CASE e.kind \in {"ThreadCreate", "ThreadUpdate"}
  <2>1. e.thread \in Thread /\ (e.kind = "ThreadCreate" => ~e.thread.archived)
    BY <1>6 DEF EventOK, GuildEventOK, ThreadEventOK, MessageEventOK
  <2>2. \E t \in Thread : (ThreadCreate(t) /\ ~t.archived) \/ ThreadUpdate(t)
    BY <1>6, <2>1 DEF Apply
  <2>3. QED
    BY <1>1, <2>2, ThreadTidy
<1>7. CASE e.kind \in {"ThreadDelete", "ThreadListSync"}
  <2>1. /\ e.guild = TheGuild
        /\ e.kind = "ThreadDelete" => e.id \in ThreadIds
        /\ e.kind = "ThreadListSync" => e.scope \in Scopes /\ e.threads \in ThreadLists
    BY <1>7 DEF EventOK, GuildEventOK, ThreadEventOK, MessageEventOK
  <2>2. \/ \E id \in ThreadIds : ThreadDelete(TheGuild, id)
        \/ \E scope \in Scopes, l \in ThreadLists : ThreadListSync(TheGuild, scope, l)
    BY <1>7, <2>1 DEF Apply
  <2>3. QED
    BY <1>1, <2>2, ThreadTidy
<1>8. CASE e.kind \in {"Message", "MessageUpdate", "MessageDelete"}
  <2>1. /\ UNCHANGED topologyVars /\ MessageEventOK(e)
        /\ \/ e.kind = "Message" /\ ApplyMessage(e.channel, [id |-> e.id, body |-> e.body])
           \/ e.kind = "MessageUpdate" /\ ApplyUpdate(e.channel, e.id, e.content)
           \/ e.kind = "MessageDelete" /\ ApplyDelete(e.channel, e.id)
    BY <1>8 DEF Apply, MessageCreated, MessageUpdated, MessageDeleted, OnTimelines,
                EventOK, GuildEventOK, ThreadEventOK
  <2>2. CASE e.kind = "Message"
    <3>1. e.channel \in ChannelIds /\ [id |-> e.id, body |-> e.body] \in Message
      BY <2>1, <2>2 DEF MessageEventOK
    <3>2. QED
      BY <1>1, <2>1, <2>2, <3>1, MessageTidy
  <2>3. CASE e.kind # "Message"
    BY <2>1, <2>3, EditTidy
  <2>4. QED
    BY <2>2, <2>3
<1>9. QED
  BY <1>2, <1>3, <1>4, <1>5, <1>6, <1>7, <1>8
     DEF EventOK, GuildEventOK, ThreadEventOK, MessageEventOK
----------------------------------------------------------------------------
(* What the events that are underway will show                             *)

AllOK(q) == \E S : q \in Seq(S) /\ \A e \in S : EventOK(e)

\* Queue q makes m of n, and each message in it finds its channel or thread.
Leads(q, n, m) ==
  \E N \in [0..Len(q) -> Nav] :
    /\ N[0] = n /\ N[Len(q)] = m
    /\ \A i \in 1..Len(q) :
         /\ N[i] = Effect(q[i], N[i-1])
         /\ q[i].kind = "Message" => q[i].channel \in NavIds(N[i-1])

\* The snapshot of an available guild is followed by a sync of all its threads.
IsReset(e) == e.kind = "GuildCreate" /\ ~e.unavailable
IsWholeSync(e) == e.kind = "ThreadListSync" /\ e.scope = Absent
Paired(q) ==
  \A i \in 1..Len(q) : IsReset(q[i]) => i+1 \in 1..Len(q) /\ IsWholeSync(q[i+1])

LEMMA OKSeq ==
  ASSUME NEW S, \A e \in S : EventOK(e), NEW q \in Seq(S)
  PROVE  AllOK(q)
BY DEF AllOK

LEMMA NoneOK == AllOK(<< >>) /\ Paired(<< >>)
<1>1. AllOK(<< >>)
  <2>1. << >> \in Seq({}) /\ \A e \in {} : EventOK(e)
    OBVIOUS
  <2>2. QED
    BY <2>1, OKSeq
<1>2. Len(<< >>) = 0 /\ 1..0 = {}
  OBVIOUS
<1>3. Paired(<< >>)
  BY <1>2 DEF Paired
<1>4. QED
  BY <1>1, <1>3

LEMMA OneOK ==
  ASSUME NEW e, EventOK(e)
  PROVE  AllOK(<<e>>) /\ (~IsReset(e) => Paired(<<e>>))
<1> DEFINE q == <<e>>
<1>1. q \in Seq({e}) /\ Len(q) = 1 /\ q[1] = e /\ \A i \in 1..1 : i = 1
  OBVIOUS
<1> HIDE DEF q
<1>2. AllOK(q)
  BY <1>1, OKSeq
<1>3. ~IsReset(e) => Paired(q)
  BY <1>1 DEF Paired
<1>4. QED
  BY <1>2, <1>3 DEF q

LEMMA TwoOK ==
  ASSUME NEW e, EventOK(e), NEW d, EventOK(d), IsWholeSync(d)
  PROVE  AllOK(<<e, d>>) /\ Paired(<<e, d>>)
<1> DEFINE q == <<e, d>>
<1>1. /\ q \in Seq({e, d}) /\ Len(q) = 2 /\ q[1] = e /\ q[2] = d
      /\ \A i \in 1..2 : i = 1 \/ i = 2
  OBVIOUS
<1> HIDE DEF q
<1>2. ~IsReset(d)
  BY DEF IsReset, IsWholeSync
<1>3. AllOK(q)
  BY <1>1, OKSeq
<1>4. 1 + 1 = 2 /\ 2 \in 1..2
  OBVIOUS
<1>5. Paired(q)
  BY <1>1, <1>2, <1>4 DEF Paired
<1>6. QED
  BY <1>3, <1>5 DEF q

LEMMA TailOK ==
  ASSUME NEW q, AllOK(q), q # << >>
  PROVE  /\ AllOK(Tail(q)) /\ Len(Tail(q)) = Len(q) - 1 /\ Len(q) \in Nat \ {0}
         /\ EventOK(Head(q)) /\ Head(q) = q[1]
         /\ \A i \in 1..(Len(q) - 1) : Tail(q)[i] = q[i+1]
<1>1. PICK S : q \in Seq(S) /\ \A e \in S : EventOK(e)
  BY DEF AllOK
<1>2. /\ Tail(q) \in Seq(S) /\ Len(Tail(q)) = Len(q) - 1 /\ Len(q) \in Nat \ {0}
      /\ Head(q) \in S /\ Head(q) = q[1]
      /\ \A i \in 1..(Len(q) - 1) : Tail(q)[i] = q[i+1]
  BY <1>1
<1>3. QED
  BY <1>1, <1>2 DEF AllOK

LEMMA ConcatOK ==
  ASSUME NEW p, NEW q, AllOK(p), AllOK(q)
  PROVE  /\ AllOK(p \o q) /\ Len(p \o q) = Len(p) + Len(q) /\ Len(p) \in Nat /\ Len(q) \in Nat
         /\ \A i \in 1..Len(p) : (p \o q)[i] = p[i]
         /\ \A i \in 1..Len(q) : (p \o q)[Len(p) + i] = q[i]
<1>1. PICK S : p \in Seq(S) /\ \A e \in S : EventOK(e)
  BY DEF AllOK
<1>2. PICK T : q \in Seq(T) /\ \A e \in T : EventOK(e)
  BY DEF AllOK
<1> DEFINE U == S \cup T
<1>3. p \in Seq(U) /\ q \in Seq(U) /\ \A e \in U : EventOK(e)
  BY <1>1, <1>2, WiderSeq
<1> HIDE DEF U
<1>4. /\ p \o q \in Seq(U) /\ Len(p \o q) = Len(p) + Len(q) /\ Len(p) \in Nat /\ Len(q) \in Nat
      /\ \A i \in 1..Len(p) : (p \o q)[i] = p[i]
      /\ \A i \in 1..Len(q) : (p \o q)[Len(p) + i] = q[i]
  BY <1>3
<1>5. QED
  BY <1>3, <1>4 DEF AllOK

LEMMA PairedTail ==
  ASSUME NEW q, AllOK(q), q # << >>, Paired(q)
  PROVE  Paired(Tail(q)) /\ (IsReset(Head(q)) => Tail(q) # << >> /\ IsWholeSync(Head(Tail(q))))
<1> DEFINE r == Tail(q)
           n == Len(q)
<1>1. /\ AllOK(r) /\ Len(r) = n - 1 /\ n \in Nat \ {0} /\ Head(q) = q[1]
      /\ \A i \in 1..(n - 1) : r[i] = q[i+1]
  BY TailOK
<1> HIDE DEF r, n
<1>2. \A i \in 1..n : IsReset(q[i]) => i+1 \in 1..n /\ IsWholeSync(q[i+1])
  BY DEF Paired, n
<1>3. ASSUME NEW i \in 1..(n - 1), IsReset(r[i])
      PROVE  i+1 \in 1..(n - 1) /\ IsWholeSync(r[i+1])
  <2>1. i+1 \in 1..n /\ IsReset(q[i+1])
    BY <1>1, <1>3
  <2>2. (i+1)+1 \in 1..n /\ IsWholeSync(q[(i+1)+1])
    BY <1>2, <2>1
  <2>3. i+1 \in 1..(n - 1)
    BY <1>1, <2>2
  <2>4. QED
    BY <1>1, <2>2, <2>3
<1>4. Paired(r)
  BY <1>1, <1>3 DEF Paired
<1>5. ASSUME IsReset(Head(q)) PROVE r # << >> /\ IsWholeSync(Head(r))
  <2>1. 1 \in 1..n /\ IsReset(q[1])
    BY <1>1, <1>5
  <2>2. 1+1 \in 1..n /\ IsWholeSync(q[1+1])
    BY <1>2, <2>1
  <2>3. 1 \in 1..(n - 1)
    BY <1>1, <2>2
  <2>4. Len(r) # 0 /\ r[1] = q[1+1]
    BY <1>1, <2>3
  <2>5. r # << >>
    BY <2>4
  <2>6. Head(r) = r[1]
    BY <1>1, <2>5, TailOK
  <2>7. QED
    BY <2>2, <2>4, <2>5, <2>6
<1>6. QED
  BY <1>4, <1>5 DEF r

LEMMA PairedConcat ==
  ASSUME NEW p, NEW q, AllOK(p), AllOK(q), Paired(p), Paired(q)
  PROVE  Paired(p \o q)
<1> DEFINE r == p \o q
           n == Len(p)
           k == Len(q)
<1>1. /\ Len(r) = n + k /\ n \in Nat /\ k \in Nat
      /\ \A i \in 1..n : r[i] = p[i]
      /\ \A i \in 1..k : r[n + i] = q[i]
  <2>1. Len(p \o q) = Len(p) + Len(q) /\ Len(p) \in Nat /\ Len(q) \in Nat
    BY ConcatOK
  <2>2. \A i \in 1..Len(p) : (p \o q)[i] = p[i]
    BY ConcatOK
  <2>3. \A i \in 1..Len(q) : (p \o q)[Len(p) + i] = q[i]
    BY ConcatOK
  <2>4. QED
    BY <2>1, <2>2, <2>3
<1>2. /\ \A i \in 1..n : IsReset(p[i]) => i+1 \in 1..n /\ IsWholeSync(p[i+1])
      /\ \A i \in 1..k : IsReset(q[i]) => i+1 \in 1..k /\ IsWholeSync(q[i+1])
  BY DEF Paired
<1> HIDE DEF r, n, k
<1>3. ASSUME NEW i \in 1..(n + k), IsReset(r[i])
      PROVE  i+1 \in 1..(n + k) /\ IsWholeSync(r[i+1])
  <2>1. CASE i \in 1..n
    <3>1. i+1 \in 1..n /\ IsWholeSync(p[i+1])
      BY <1>1, <1>2, <1>3, <2>1
    <3>2. QED
      BY <1>1, <3>1
  <2>2. CASE i \notin 1..n
    <3>1. i - n \in 1..k /\ n + (i - n) = i /\ n + ((i - n) + 1) = i + 1
      BY <1>1, <2>2
    <3>2. (i - n) + 1 \in 1..k /\ IsWholeSync(q[(i - n) + 1])
      BY <1>1, <1>2, <1>3, <3>1
    <3>3. r[n + ((i - n) + 1)] = q[(i - n) + 1] /\ n + ((i - n) + 1) \in 1..(n + k)
      BY <1>1, <3>2
    <3>4. QED
      BY <3>1, <3>2, <3>3
  <2>3. QED
    BY <2>1, <2>2
<1>4. QED
  BY <1>1, <1>3 DEF Paired, r

LEMMA LeadsNone ==
  /\ \A n \in Nav : Leads(<< >>, n, n)
  /\ \A n, m : Leads(<< >>, n, m) => n = m
<1>1. ASSUME NEW n \in Nav PROVE Leads(<< >>, n, n)
  <2> DEFINE N == [i \in 0..0 |-> n]
  <2>1. N \in [0..0 -> Nav] /\ N[0] = n
    OBVIOUS
  <2> HIDE DEF N
  <2>2. Len(<< >>) = 0 /\ 1..0 = {}
    OBVIOUS
  <2>3. QED
    BY <2>1, <2>2 DEF Leads
<1>2. QED
  BY <1>1 DEF Leads

LEMMA LeadsOne ==
  ASSUME NEW e, EventOK(e), NEW n \in Nav, e.kind = "Message" => e.channel \in NavIds(n)
  PROVE  Leads(<<e>>, n, Effect(e, n)) /\ Effect(e, n) \in Nav
<1>1. Effect(e, n) \in Nav
  BY EffectType
<1> DEFINE m == Effect(e, n)
           N == [i \in 0..1 |-> IF i = 0 THEN n ELSE m]
           q == <<e>>
<1>2. N \in [0..1 -> Nav] /\ N[0] = n /\ N[1] = m
  BY <1>1
<1>3. Len(q) = 1 /\ q[1] = e
  OBVIOUS
<1> HIDE DEF N, q
<1>4. \A i \in 1..1 : N[i] = Effect(q[i], N[i-1])
                      /\ (q[i].kind = "Message" => q[i].channel \in NavIds(N[i-1]))
  <2>1. \A i \in 1..1 : i = 1 /\ i - 1 = 0
    OBVIOUS
  <2>2. QED
    BY <1>2, <1>3, <2>1
<1>5. Leads(q, n, m)
  BY <1>2, <1>3, <1>4 DEF Leads
<1>6. QED
  BY <1>1, <1>5 DEF q

LEMMA LeadsTail ==
  ASSUME NEW q, AllOK(q), q # << >>, NEW n \in Nav, NEW m \in Nav, Leads(q, n, m)
  PROVE  /\ Leads(Tail(q), Effect(Head(q), n), m) /\ Effect(Head(q), n) \in Nav
         /\ Head(q).kind = "Message" => Head(q).channel \in NavIds(n)
<1> DEFINE r == Tail(q)
           l == Len(q)
           e == Head(q)
<1>1. /\ AllOK(r) /\ Len(r) = l - 1 /\ l \in Nat \ {0} /\ e = q[1] /\ EventOK(e)
      /\ \A i \in 1..(l - 1) : r[i] = q[i+1]
  BY TailOK
<1> HIDE DEF r, l, e
<1>2. PICK N \in [0..l -> Nav] :
        /\ N[0] = n /\ N[l] = m
        /\ \A i \in 1..l : /\ N[i] = Effect(q[i], N[i-1])
                           /\ q[i].kind = "Message" => q[i].channel \in NavIds(N[i-1])
  BY DEF Leads, l
<1>3. N[1] = Effect(e, n) /\ (e.kind = "Message" => e.channel \in NavIds(n))
  <2>1. 1 \in 1..l /\ 1 - 1 = 0
    BY <1>1
  <2>2. QED
    BY <1>1, <1>2, <2>1
<1> DEFINE M == [i \in 0..(l - 1) |-> N[i+1]]
<1>4. /\ M \in [0..(l - 1) -> Nav] /\ M[0] = N[1] /\ M[l - 1] = m
      /\ \A i \in 0..(l - 1) : M[i] = N[i+1]
  BY <1>1, <1>2
<1> HIDE DEF M
<1>5. ASSUME NEW i \in 1..(l - 1)
      PROVE  /\ M[i] = Effect(r[i], M[i-1])
             /\ r[i].kind = "Message" => r[i].channel \in NavIds(M[i-1])
  <2>1. i+1 \in 1..l /\ (i+1)-1 = i /\ i \in 0..(l - 1) /\ i-1 \in 0..(l - 1) /\ (i-1)+1 = i
    BY <1>1
  <2>2. M[i] = N[i+1] /\ M[i-1] = N[i] /\ r[i] = q[i+1]
    BY <1>1, <1>4, <2>1
  <2>3. /\ N[i+1] = Effect(q[i+1], N[(i+1)-1])
        /\ q[i+1].kind = "Message" => q[i+1].channel \in NavIds(N[(i+1)-1])
    BY <1>2, <2>1
  <2>4. QED
    BY <2>1, <2>2, <2>3
<1>6. Leads(r, Effect(e, n), m)
  BY <1>1, <1>3, <1>4, <1>5 DEF Leads
<1>7. Effect(e, n) \in Nav
  BY <1>1, EffectType
<1>8. QED
  BY <1>3, <1>6, <1>7 DEF r, e

LEMMA LeadsConcat ==
  ASSUME NEW p, AllOK(p), NEW q, AllOK(q), NEW n, NEW k, NEW m, Leads(p, n, k), Leads(q, k, m)
  PROVE  Leads(p \o q, n, m)
<1> DEFINE r == p \o q
           a == Len(p)
           b == Len(q)
<1>1. /\ Len(r) = a + b /\ a \in Nat /\ b \in Nat
      /\ \A i \in 1..a : r[i] = p[i]
      /\ \A i \in 1..b : r[a + i] = q[i]
  BY ConcatOK
<1>2. PICK P \in [0..a -> Nav] :
        /\ P[0] = n /\ P[a] = k
        /\ \A i \in 1..a : /\ P[i] = Effect(p[i], P[i-1])
                           /\ p[i].kind = "Message" => p[i].channel \in NavIds(P[i-1])
  BY DEF Leads
<1>3. PICK Q \in [0..b -> Nav] :
        /\ Q[0] = k /\ Q[b] = m
        /\ \A i \in 1..b : /\ Q[i] = Effect(q[i], Q[i-1])
                           /\ q[i].kind = "Message" => q[i].channel \in NavIds(Q[i-1])
  BY DEF Leads
<1> HIDE DEF r, a, b
<1> DEFINE N == [i \in 0..(a + b) |-> IF i <= a THEN P[i] ELSE Q[i - a]]
<1>4. /\ \A i \in 0..a : N[i] = P[i]
      /\ \A i \in 0..b : N[a + i] = Q[i]
  <2>1. \A i \in 0..a : i \in 0..(a + b) /\ i <= a
    BY <1>1
  <2>2. \A i \in 1..b : a + i \in 0..(a + b) /\ ~(a + i <= a) /\ (a + i) - a = i
    BY <1>1
  <2>3. a + 0 = a /\ a \in 0..a /\ \A i \in 0..b : i = 0 \/ i \in 1..b
    BY <1>1
  <2>4. \A i \in 0..a : N[i] = P[i]
    BY <2>1
  <2>5. \A i \in 1..b : N[a + i] = Q[i]
    BY <2>2
  <2> HIDE DEF N
  <2>6. QED
    BY <1>2, <1>3, <2>3, <2>4, <2>5
<1>5. N \in [0..(a + b) -> Nav]
  <2>1. ASSUME NEW i \in 0..(a + b) PROVE (IF i <= a THEN P[i] ELSE Q[i - a]) \in Nav
    <3>1. CASE i <= a
      <4>1. i \in 0..a
        BY <1>1, <3>1
      <4>2. QED
        BY <1>2, <3>1, <4>1
    <3>2. CASE ~(i <= a)
      <4>1. i - a \in 0..b
        BY <1>1, <3>2
      <4>2. QED
        BY <1>3, <3>2, <4>1
    <3>3. QED
      BY <3>1, <3>2
  <2>2. QED
    BY <2>1
<1> HIDE DEF N
<1>6. N[0] = n /\ N[a + b] = m
  <2>1. 0 \in 0..a /\ b \in 0..b
    BY <1>1
  <2>2. QED
    BY <1>2, <1>3, <1>4, <2>1
<1>7. ASSUME NEW i \in 1..(a + b)
      PROVE  /\ N[i] = Effect(r[i], N[i-1])
             /\ r[i].kind = "Message" => r[i].channel \in NavIds(N[i-1])
  <2>1. CASE i \in 1..a
    <3>1. i \in 0..a /\ i-1 \in 0..a
      BY <1>1, <2>1
    <3>2. N[i] = P[i] /\ N[i-1] = P[i-1] /\ r[i] = p[i]
      BY <1>1, <1>4, <2>1, <3>1
    <3>3. QED
      BY <1>2, <2>1, <3>2
  <2>2. CASE i \notin 1..a
    <3>1. PICK j \in 1..b : i = a + j
      <4>1. i - a \in 1..b /\ i = a + (i - a)
        BY <1>1, <2>2
      <4>2. QED
        BY <4>1
    <3>2. j \in 0..b /\ j-1 \in 0..b /\ i - 1 = a + (j-1)
      BY <1>1, <3>1
    <3>3. N[i] = Q[j] /\ N[i-1] = Q[j-1] /\ r[i] = q[j]
      BY <1>1, <1>4, <3>1, <3>2
    <3>4. QED
      BY <1>3, <3>1, <3>3
  <2>3. QED
    BY <2>1, <2>2
<1>8. Leads(r, n, m)
  BY <1>1, <1>5, <1>6, <1>7 DEF Leads
<1>9. QED
  BY <1>8 DEF r
----------------------------------------------------------------------------
(* An event moves from the outbox to the ring, and out of it               *)

LEMMA SameSeq ==
  ASSUME NEW S, NEW s \in Seq(S), NEW t \in Seq(S), Len(s) = Len(t),
         \A i \in 1..Len(s) : s[i] = t[i]
  PROVE  s = t
OBVIOUS

LEMMA ConcatParts ==
  ASSUME NEW S, NEW p \in Seq(S), NEW q \in Seq(S)
  PROVE  /\ p \o q \in Seq(S) /\ Len(p \o q) = Len(p) + Len(q)
         /\ \A i \in 1..Len(p) : (p \o q)[i] = p[i]
         /\ \A i \in 1..Len(q) : (p \o q)[Len(p) + i] = q[i]
OBVIOUS

LEMMA PairOf ==
  ASSUME NEW e, NEW d
  PROVE  <<e>> \o <<d>> = <<e, d>>
<1> DEFINE p == <<e>>
           q == <<d>>
           r == <<e, d>>
<1>1. p \in Seq({e, d}) /\ Len(p) = 1 /\ p[1] = e
  OBVIOUS
<1>2. q \in Seq({e, d}) /\ Len(q) = 1 /\ q[1] = d
  OBVIOUS
<1>3. r \in Seq({e, d}) /\ Len(r) = 2 /\ r[1] = e /\ r[2] = d
  OBVIOUS
<1> HIDE DEF p, q, r
<1>4. /\ p \o q \in Seq({e, d}) /\ Len(p \o q) = Len(p) + Len(q)
      /\ \A i \in 1..Len(p) : (p \o q)[i] = p[i]
      /\ \A i \in 1..Len(q) : (p \o q)[Len(p) + i] = q[i]
  BY <1>1, <1>2, ConcatParts
<1>5. 1 \in 1..1 /\ 1 + 1 = 2 /\ \A i \in 1..2 : i = 1 \/ i = 2
  OBVIOUS
<1>6. (p \o q)[1] = r[1] /\ (p \o q)[2] = r[2] /\ Len(p \o q) = 2
  BY <1>1, <1>2, <1>3, <1>4, <1>5
<1>7. p \o q = r
  BY <1>3, <1>4, <1>5, <1>6, SameSeq
<1>8. QED
  BY <1>7 DEF p, q, r

LEMMA FrontOf ==
  ASSUME NEW S, NEW p \in Seq(S), NEW q \in Seq(S), p # << >>
  PROVE  Head(p \o q) = Head(p) /\ Tail(p \o q) = Tail(p) \o q /\ p \o q # << >>
<1>1. /\ p \o q \in Seq(S) /\ Len(p \o q) = Len(p) + Len(q)
      /\ Len(p) \in Nat \ {0} /\ Len(q) \in Nat
      /\ \A i \in 1..Len(p) : (p \o q)[i] = p[i]
      /\ \A i \in 1..Len(q) : (p \o q)[Len(p) + i] = q[i]
  OBVIOUS
<1>2. p \o q # << >>
  BY <1>1
<1>3. Head(p \o q) = Head(p)
  BY <1>1, <1>2
<1> DEFINE s == Tail(p \o q)
           t == Tail(p) \o q
<1>4. /\ s \in Seq(S) /\ Len(s) = (Len(p) + Len(q)) - 1
      /\ \A i \in 1..Len(s) : s[i] = (p \o q)[i+1]
  BY <1>1, <1>2
<1>5. /\ Tail(p) \in Seq(S) /\ Len(Tail(p)) = Len(p) - 1
      /\ \A i \in 1..(Len(p) - 1) : Tail(p)[i] = p[i+1]
  BY <1>1
<1>6. /\ t \in Seq(S) /\ Len(t) = (Len(p) - 1) + Len(q)
      /\ \A i \in 1..(Len(p) - 1) : t[i] = Tail(p)[i]
      /\ \A i \in 1..Len(q) : t[(Len(p) - 1) + i] = q[i]
  BY <1>5
<1> HIDE DEF s, t
<1>7. ASSUME NEW i \in 1..Len(s) PROVE s[i] = t[i]
  <2>1. CASE i \in 1..(Len(p) - 1)
    <3>1. i+1 \in 1..Len(p)
      BY <1>1, <2>1
    <3>2. QED
      BY <1>1, <1>4, <1>5, <1>6, <2>1, <3>1
  <2>2. CASE i \notin 1..(Len(p) - 1)
    <3> DEFINE j == i - (Len(p) - 1)
    <3>1. j \in 1..Len(q) /\ i = (Len(p) - 1) + j /\ i + 1 = Len(p) + j
      BY <1>1, <1>4, <2>2
    <3> HIDE DEF j
    <3>2. QED
      BY <1>1, <1>4, <1>6, <3>1
  <2>3. QED
    BY <2>1, <2>2
<1>8. Len(s) = Len(t)
  BY <1>1, <1>4, <1>6
<1>9. s = t
  BY <1>4, <1>6, <1>7, <1>8, SameSeq
<1>10. QED
  BY <1>2, <1>3, <1>9 DEF s, t

LEMMA Forwarded ==
  ASSUME NEW S, NEW p \in Seq(S), NEW q \in Seq(S), q # << >>
  PROVE  /\ Append(p, Head(q)) \in Seq(S) /\ Len(Append(p, Head(q))) = Len(p) + 1
         /\ Append(p, Head(q)) \o Tail(q) = p \o q
<1> DEFINE r == Append(p, Head(q))
           s == r \o Tail(q)
           t == p \o q
<1>1. /\ Head(q) \in S /\ Head(q) = q[1] /\ Len(q) \in Nat \ {0} /\ Len(p) \in Nat
      /\ Tail(q) \in Seq(S) /\ Len(Tail(q)) = Len(q) - 1
      /\ \A i \in 1..(Len(q) - 1) : Tail(q)[i] = q[i+1]
  OBVIOUS
<1>2. /\ r \in Seq(S) /\ Len(r) = Len(p) + 1 /\ r[Len(p) + 1] = q[1]
      /\ \A i \in 1..Len(p) : r[i] = p[i]
  BY <1>1
<1>3. /\ t \in Seq(S) /\ Len(t) = Len(p) + Len(q)
      /\ \A i \in 1..Len(p) : t[i] = p[i]
      /\ \A i \in 1..Len(q) : t[Len(p) + i] = q[i]
  OBVIOUS
<1> HIDE DEF r, t
<1>4. /\ s \in Seq(S) /\ Len(s) = (Len(p) + 1) + (Len(q) - 1)
      /\ \A i \in 1..(Len(p) + 1) : s[i] = r[i]
      /\ \A i \in 1..(Len(q) - 1) : s[(Len(p) + 1) + i] = Tail(q)[i]
  <2>1. /\ s \in Seq(S) /\ Len(s) = Len(r) + Len(Tail(q))
        /\ \A i \in 1..Len(r) : s[i] = r[i]
        /\ \A i \in 1..Len(Tail(q)) : s[Len(r) + i] = Tail(q)[i]
    <3> DEFINE u == Tail(q)
    <3>1. r \in Seq(S) /\ u \in Seq(S)
      BY <1>1, <1>2
    <3> HIDE DEF u
    <3>2. /\ r \o u \in Seq(S) /\ Len(r \o u) = Len(r) + Len(u)
          /\ \A i \in 1..Len(r) : (r \o u)[i] = r[i]
          /\ \A i \in 1..Len(u) : (r \o u)[Len(r) + i] = u[i]
      BY <3>1, ConcatParts
    <3>3. QED
      BY <3>2 DEF u
  <2> HIDE DEF s
  <2>2. QED
    BY <1>1, <1>2, <2>1
<1> HIDE DEF s
<1>5. ASSUME NEW i \in 1..Len(s) PROVE s[i] = t[i]
  <2>1. CASE i \in 1..Len(p)
    <3>1. i \in 1..(Len(p) + 1)
      BY <1>1, <2>1
    <3>2. QED
      BY <1>2, <1>3, <1>4, <2>1, <3>1
  <2>2. CASE i = Len(p) + 1
    <3>1. 1 \in 1..Len(q) /\ i \in 1..(Len(p) + 1)
      BY <1>1, <2>2
    <3>2. QED
      BY <1>2, <1>3, <1>4, <2>2, <3>1
  <2>3. CASE i \notin 1..(Len(p) + 1)
    <3> DEFINE j == i - (Len(p) + 1)
    <3>1. j \in 1..(Len(q) - 1) /\ i = (Len(p) + 1) + j /\ i = Len(p) + (j + 1) /\ j + 1 \in 1..Len(q)
      BY <1>1, <1>4, <2>3
    <3> HIDE DEF j
    <3>2. s[i] = Tail(q)[j] /\ Tail(q)[j] = q[j + 1]
      BY <1>1, <1>4, <3>1
    <3>3. t[i] = q[j + 1]
      BY <1>3, <3>1
    <3>4. QED
      BY <3>2, <3>3
  <2>4. i \in 1..Len(p) \/ i = Len(p) + 1 \/ i \notin 1..(Len(p) + 1)
    BY <1>1, <1>4
  <2>5. QED
    BY <2>1, <2>2, <2>3, <2>4
<1>6. Len(s) = Len(t)
  BY <1>1, <1>3, <1>4
<1>7. s = t
  BY <1>3, <1>4, <1>5, <1>6, SameSeq
<1>8. QED
  BY <1>2, <1>7 DEF r, s, t

\* What the next read of a receiver is, whatever is still in the outbox.
LEMMA NextUnderway ==
  ASSUME NEW p, AllOK(p), NEW q, AllOK(q), p # << >>
  PROVE  Head(p \o q) = Head(p) /\ Tail(p \o q) = Tail(p) \o q /\ p \o q # << >>
<1>1. PICK S : p \in Seq(S) /\ \A e \in S : EventOK(e)
  BY DEF AllOK
<1>2. PICK T : q \in Seq(T) /\ \A e \in T : EventOK(e)
  BY DEF AllOK
<1> DEFINE U == S \cup T
<1>3. p \in Seq(U) /\ q \in Seq(U)
  BY <1>1, <1>2, WiderSeq
<1> HIDE DEF U
<1>4. QED
  BY <1>3, FrontOf

\* A ring that is full loses its oldest event for the new one.
LEMMA SentUnderway ==
  ASSUME NEW p, NEW q, AllOK(p), Len(p) <= Capacity, AllOK(q), q # << >>
  PROVE  LET r == PushBounded(p, Head(q), Capacity)
         IN  /\ AllOK(r) /\ Len(r) <= Capacity /\ AllOK(Tail(q))
             /\ IF Len(p) = Capacity
                THEN p # << >> /\ r \o Tail(q) = Tail(p) \o q
                ELSE r \o Tail(q) = p \o q
<1> DEFINE r == PushBounded(p, Head(q), Capacity)
<1>1. PICK S : p \in Seq(S) /\ \A e \in S : EventOK(e)
  BY DEF AllOK
<1>2. PICK T : q \in Seq(T) /\ \A e \in T : EventOK(e)
  BY DEF AllOK
<1> DEFINE U == S \cup T
<1>3. p \in Seq(U) /\ q \in Seq(U) /\ \A e \in U : EventOK(e)
  BY <1>1, <1>2, WiderSeq
<1> HIDE DEF U
<1>4. AllOK(Tail(q))
  BY TailOK
<1>5. Capacity \in Nat \ {0} /\ Len(p) \in Nat
  BY <1>3, BusAssumption
<1>6. CASE Len(p) = Capacity
  <2> DEFINE f == Tail(p)
             a == Append(f, Head(q))
  <2>1. r = a
    BY <1>5, <1>6 DEF PushBounded
  <2>2. p # << >>
    BY <1>5, <1>6
  <2>3. f \in Seq(U) /\ Len(f) = Len(p) - 1
    BY <1>3, <2>2
  <2> HIDE DEF f
  <2>4. a \in Seq(U) /\ Len(a) = Len(f) + 1 /\ a \o Tail(q) = f \o q
    BY <1>3, <2>3, Forwarded
  <2> HIDE DEF a, r
  <2>5. AllOK(r)
    BY <1>3, <2>1, <2>4, OKSeq
  <2>6. Len(r) <= Capacity
    <3>1. Len(r) = Len(f) + 1 /\ Len(f) = Len(p) - 1
      BY <2>1, <2>3, <2>4
    <3>2. QED
      BY <1>5, <1>6, <3>1
  <2>7. r \o Tail(q) = Tail(p) \o q
    BY <2>1, <2>4 DEF f
  <2>8. QED
    BY <1>4, <1>6, <2>2, <2>5, <2>6, <2>7 DEF r
<1>7. CASE Len(p) # Capacity
  <2> DEFINE a == Append(p, Head(q))
  <2>1. r = a
    BY <1>5, <1>7 DEF PushBounded
  <2>2. a \in Seq(U) /\ Len(a) = Len(p) + 1 /\ a \o Tail(q) = p \o q
    BY <1>3, Forwarded
  <2> HIDE DEF a, r
  <2>3. AllOK(r)
    BY <1>3, <2>1, <2>2, OKSeq
  <2>4. Len(r) <= Capacity
    <3>1. Len(r) = Len(p) + 1
      BY <2>1, <2>2
    <3>2. QED
      BY <1>5, <1>7, <3>1
  <2>5. r \o Tail(q) = p \o q
    BY <2>1, <2>2
  <2>6. QED
    BY <1>4, <1>7, <2>3, <2>4, <2>5 DEF r
<1>8. QED
  BY <1>6, <1>7
----------------------------------------------------------------------------
(* The invariant: the events underway lead from what is shown to what the  *)
(* server has told, or will, once a loss is made good.                     *)

Underway == unread["gateway"] \o outbox

ServerOK ==
  /\ serving \in {"live", "outage", "away", "ready"}
  /\ member \in BOOLEAN /\ leftAway \in BOOLEAN
  /\ ~member => serving \in {"live", "away"}
  /\ chans \in SUBSET GuildChannelIds
  /\ active \in [DOMAIN active -> GuildChannelIds] /\ DOMAIN active \in SUBSET ThreadIds

BusOK ==
  /\ "gateway" \in DOMAIN unread /\ "gateway" \in DOMAIN missed /\ "gateway" \in DOMAIN lagged
  /\ AllOK(unread["gateway"]) /\ Len(unread["gateway"]) <= Capacity /\ AllOK(outbox)
  /\ lost \in {"no", "yes", "half"}

\* What the server has told, of a guild that it serves or that the client is not in.
Truth(n) ==
  /\ serving = "live" /\ member => n = Mirrored(FALSE, chans, ActiveThreads)
  /\ ~member /\ ~leftAway => n = Nowhere

\* What the events underway start from.  Half of a snapshot makes good all but
\* the threads, and the other half comes next.
Starts(n) ==
  ~missed["gateway"] =>
    /\ lost = "no" => n = Shown
    /\ lost = "half" =>
         /\ n.known /\ Shown.known /\ n.down = Shown.down /\ n.chans = Shown.chans
         /\ Underway # << >> /\ IsWholeSync(Head(Underway))

Chain == \E n, m \in Nav : Leads(Underway, n, m) /\ Truth(m) /\ Starts(n)

\* Only a receiver that was overtaken can be wrong.
Sound == ~lagged["gateway"] /\ ~missed["gateway"] => lost = "no" /\ Tidy

MirrorInv ==
  /\ ServerOK /\ BusOK /\ FrontendInv
  /\ Paired(Underway) /\ Chain /\ Sound

LEMMA UnmovedFrontend ==
  ASSUME FrontendInv, UNCHANGED vars
  PROVE  FrontendInv' /\ Shown' = Shown /\ (Tidy => Tidy')
<1>1. UNCHANGED topologyVars /\ UNCHANGED channels
  BY DEF vars, timelineVars
<1>2. FrontendInv'
  BY FrontendStep
<1>3. Shown' = Shown
  BY <1>1, UntouchedShows
<1>4. Left = {}
  BY <1>1, UnchangedActive
<1>5. QED
  BY <1>1, <1>2, <1>3, <1>4, NothingLeaves

\* A change that is not told.
LEMMA SilentInv ==
  ASSUME MirrorInv, UNCHANGED <<outbox, lost, busVars, vars>>, ServerOK',
         \A m \in Nav : Truth(m) => Truth(m)'
  PROVE  MirrorInv'
<1>1. /\ FrontendInv' /\ Shown' = Shown /\ (Tidy => Tidy')
  BY UnmovedFrontend DEF MirrorInv
<1>2. UNCHANGED <<outbox, lost, unread, missed, lagged>>
  BY DEF busVars
<1>3. BusOK'
  BY <1>2 DEF MirrorInv, BusOK
<1>4. Underway' = Underway
  BY <1>2 DEF Underway
<1>5. Paired(Underway)'
  BY <1>4 DEF MirrorInv
<1>6. Chain'
  <2>1. PICK n \in Nav, m \in Nav : Leads(Underway, n, m) /\ Truth(m) /\ Starts(n)
    BY DEF MirrorInv, Chain
  <2>2. Truth(m)'
    BY <2>1
  <2>3. Starts(n)'
    BY <1>1, <1>2, <1>4, <2>1 DEF Starts
  <2>4. Leads(Underway', n, m)
    BY <1>4, <2>1
  <2>5. QED
    BY <2>2, <2>3, <2>4 DEF Chain
<1>7. Sound'
  BY <1>1, <1>2 DEF MirrorInv, Sound
<1>8. QED
  BY <1>1, <1>3, <1>5, <1>6, <1>7 DEF MirrorInv

\* A dispatch that becomes the events es.
LEMMA DispatchInv ==
  ASSUME MirrorInv, NEW d, ReadDispatch(d), ServerOK',
         NEW es, EventsOf(d, Absent) = es, AllOK(es), Paired(es),
         \A m \in Nav : Truth(m) => \E k \in Nav : Leads(es, m, k) /\ Truth(k)'
  PROVE  MirrorInv'
<1>1. /\ FrontendInv' /\ Shown' = Shown /\ (Tidy => Tidy')
  BY UnmovedFrontend DEF MirrorInv, ReadDispatch
<1>2. outbox = << >> /\ outbox' = es /\ UNCHANGED <<lost, unread, missed, lagged>>
  BY DEF ReadDispatch, busVars
<1>3. BusOK'
  BY <1>2 DEF MirrorInv, BusOK
<1> DEFINE q == unread["gateway"]
<1>4. AllOK(q)
  BY DEF MirrorInv, BusOK
<1>5. Underway = q /\ Underway' = q \o es
  <2>1. PICK S : q \in Seq(S)
    BY <1>4 DEF AllOK
  <2>2. q \o << >> = q
    BY <2>1
  <2>3. QED
    BY <1>2, <2>2 DEF Underway
<1> HIDE DEF q
<1>6. Paired(Underway')
  BY <1>4, <1>5, PairedConcat DEF MirrorInv
<1>7. Chain'
  <2>1. PICK n \in Nav, m \in Nav : Leads(Underway, n, m) /\ Truth(m) /\ Starts(n)
    BY DEF MirrorInv, Chain
  <2>2. PICK k \in Nav : Leads(es, m, k) /\ Truth(k)'
    BY <2>1
  <2>3. Leads(Underway', n, k)
    BY <1>4, <1>5, <2>1, <2>2, LeadsConcat
  <2>4. Starts(n)'
    <3>1. ASSUME Underway # << >>
          PROVE  Underway' # << >> /\ Head(Underway') = Head(Underway)
      BY <1>4, <1>5, <3>1, NextUnderway
    <3>2. QED
      BY <1>1, <1>2, <2>1, <3>1 DEF Starts
  <2>5. QED
    BY <2>2, <2>3, <2>4 DEF Chain
<1>8. Sound'
  BY <1>1, <1>2 DEF MirrorInv, Sound
<1>9. QED
  BY <1>1, <1>3, <1>6, <1>7, <1>8 DEF MirrorInv
----------------------------------------------------------------------------
(* The client                                                              *)

LEMMA UnmovedServer ==
  ASSUME ServerOK, UNCHANGED guildVars
  PROVE  ServerOK' /\ \A m \in Nav : Truth(m) => Truth(m)'
BY DEF guildVars, ServerOK, Truth, ActiveThreads

LEMMA SendInv ==
  ASSUME MirrorInv, SendEvent
  PROVE  MirrorInv'
<1> DEFINE p == unread["gateway"]
           e == Head(outbox)
           r == PushBounded(p, e, Capacity)
<1>1. /\ outbox # << >> /\ outbox' = Tail(outbox)
      /\ UNCHANGED guildVars /\ UNCHANGED <<lost, lagged>> /\ UNCHANGED vars
  BY DEF SendEvent, Send
<1>2. /\ unread'["gateway"] = r /\ "gateway" \in DOMAIN unread'
      /\ "gateway" \in DOMAIN missed' /\ (missed'["gateway"] <=> missed["gateway"] \/ Len(p) = Capacity)
  BY MirrorAssumption DEF SendEvent, Send
<1>3. /\ FrontendInv' /\ Shown' = Shown /\ (Tidy => Tidy')
  BY <1>1, UnmovedFrontend DEF MirrorInv
<1>4. ServerOK' /\ \A m \in Nav : Truth(m) => Truth(m)'
  BY <1>1, UnmovedServer DEF MirrorInv
<1>5. AllOK(p) /\ Len(p) <= Capacity /\ AllOK(outbox)
  BY DEF MirrorInv, BusOK
<1>6. /\ AllOK(r) /\ Len(r) <= Capacity /\ AllOK(Tail(outbox))
      /\ IF Len(p) = Capacity
         THEN p # << >> /\ r \o Tail(outbox) = Tail(p) \o outbox
         ELSE r \o Tail(outbox) = p \o outbox
  BY <1>1, <1>5, SentUnderway
<1> HIDE DEF r
<1>7. BusOK'
  BY <1>1, <1>2, <1>6 DEF MirrorInv, BusOK
<1>8. AllOK(Underway)
  BY <1>5, ConcatOK DEF Underway
<1>9. PICK n \in Nav, m \in Nav : Leads(Underway, n, m) /\ Truth(m) /\ Starts(n)
  BY DEF MirrorInv, Chain
<1>10. CASE Len(p) = Capacity
  <2>1. /\ Underway # << >> /\ Underway' = Tail(Underway)
    <3>1. Tail(p \o outbox) = Tail(p) \o outbox /\ p \o outbox # << >>
      BY <1>5, <1>6, <1>10, NextUnderway
    <3>2. QED
      BY <1>1, <1>2, <1>6, <1>10, <3>1 DEF Underway
  <2>2. Paired(Underway')
    BY <1>8, <2>1, PairedTail DEF MirrorInv
  <2>3. PICK k \in Nav : Leads(Underway', k, m)
    BY <1>8, <1>9, <2>1, LeadsTail
  <2>4. Starts(k)'
    BY <1>2, <1>10 DEF Starts
  <2>5. Chain'
    BY <1>4, <1>9, <2>3, <2>4 DEF Chain
  <2>6. Sound'
    BY <1>2, <1>10 DEF Sound
  <2>7. QED
    BY <1>3, <1>4, <1>7, <2>2, <2>5, <2>6 DEF MirrorInv
<1>11. CASE Len(p) # Capacity
  <2>1. Underway' = Underway
    BY <1>1, <1>2, <1>6, <1>11 DEF Underway
  <2>2. Starts(n)'
    BY <1>1, <1>2, <1>3, <1>9, <1>11, <2>1 DEF Starts
  <2>3. Chain'
    BY <1>4, <1>9, <2>1, <2>2 DEF Chain
  <2>4. Sound'
    BY <1>1, <1>2, <1>3, <1>11 DEF MirrorInv, Sound
  <2>5. Paired(Underway')
    BY <2>1 DEF MirrorInv
  <2>6. QED
    BY <1>3, <1>4, <1>7, <2>3, <2>4, <2>5 DEF MirrorInv
<1>12. QED
  BY <1>10, <1>11

LEMMA SkipInv ==
  ASSUME MirrorInv, SkipLost
  PROVE  MirrorInv'
<1>1. /\ UNCHANGED guildVars /\ UNCHANGED <<outbox, unread>> /\ UNCHANGED vars /\ lost' = "yes"
      /\ missed' = [missed EXCEPT !["gateway"] = FALSE]
      /\ lagged' = [lagged EXCEPT !["gateway"] = TRUE]
  BY DEF SkipLost, TellLag
<1>2. /\ "gateway" \in DOMAIN missed' /\ "gateway" \in DOMAIN lagged' /\ lagged'["gateway"]
  BY <1>1 DEF MirrorInv, BusOK
<1>3. /\ FrontendInv' /\ Shown' = Shown /\ (Tidy => Tidy')
  BY <1>1, UnmovedFrontend DEF MirrorInv
<1>4. ServerOK' /\ \A m \in Nav : Truth(m) => Truth(m)'
  BY <1>1, UnmovedServer DEF MirrorInv
<1>5. BusOK'
  BY <1>1, <1>2 DEF MirrorInv, BusOK
<1>6. Underway' = Underway
  BY <1>1 DEF Underway
<1>7. Paired(Underway')
  BY <1>6 DEF MirrorInv
<1>8. Chain'
  <2>1. PICK n \in Nav, m \in Nav : Leads(Underway, n, m) /\ Truth(m) /\ Starts(n)
    BY DEF MirrorInv, Chain
  <2>2. Starts(n)'
    BY <1>1 DEF Starts
  <2>3. QED
    BY <1>4, <1>6, <2>1, <2>2 DEF Chain
<1>9. Sound'
  BY <1>2 DEF Sound
<1>10. QED
  BY <1>3, <1>4, <1>5, <1>7, <1>8, <1>9 DEF MirrorInv

\* A snapshot shows the same channels whatever was shown before.
LEMMA ResetEffect ==
  ASSUME NEW e, IsReset(e), NEW n, NEW k
  PROVE  /\ Effect(e, n).known /\ Effect(e, k).known
         /\ Effect(e, n).down = Effect(e, k).down /\ Effect(e, n).chans = Effect(e, k).chans
BY DEF IsReset, Effect, Mirrored

\* A sync of all threads shows the same threads whatever was shown before.
LEMMA WholeSyncEffect ==
  ASSUME NEW e, IsWholeSync(e), NEW n, NEW k, n.known, k.known, n.down = k.down, n.chans = k.chans
  PROVE  Effect(e, n) = Effect(e, k)
<1>1. \A t : InScope(t, e.scope)
  BY DEF IsWholeSync, InScope
<1>2. \A j : j.known => Effect(e, j) = Mirrored(j.down, j.chans, ListedThreads(e.threads))
  <2>1. ASSUME NEW j, j.known
        PROVE  Effect(e, j) = Mirrored(j.down, j.chans, ListedThreads(e.threads))
    <3> DEFINE T == {t \in j.threads : /\ ~InScope(t, e.scope)
                                       /\ \A u \in Items(e.threads) : u.id # t.id}
                      \cup ListedThreads(e.threads)
    <3>1. T = ListedThreads(e.threads)
      BY <1>1
    <3>2. Effect(e, j) = Mirrored(j.down, j.chans, T)
      BY <2>1 DEF IsWholeSync, Effect, Changed
    <3> HIDE DEF T
    <3>3. QED
      BY <3>1, <3>2
  <2>2. QED
    BY <2>1
<1>3. QED
  BY <1>2

LEMMA DrainInv ==
  ASSUME MirrorInv, DrainEvent
  PROVE  MirrorInv'
<1> DEFINE p == unread["gateway"]
           e == Head(p)
<1>1. /\ UNCHANGED guildVars /\ UNCHANGED <<outbox, missed, lagged>>
      /\ ~missed["gateway"] /\ p # << >> /\ Apply(e)
      /\ unread' = [unread EXCEPT !["gateway"] = Tail(p)]
      /\ lost' = IF lost = "yes" /\ IsReset(e) THEN "half" ELSE IF lost = "half" THEN "no" ELSE lost
  BY DEF DrainEvent, ReadNext, IsOk, NextEvent, IsReset
<1>2. unread'["gateway"] = Tail(p) /\ "gateway" \in DOMAIN unread'
  BY <1>1 DEF MirrorInv, BusOK
<1>3. AllOK(p) /\ Len(p) <= Capacity /\ AllOK(outbox)
  BY DEF MirrorInv, BusOK
<1>4. AllOK(Tail(p)) /\ Len(Tail(p)) = Len(p) - 1 /\ Len(p) \in Nat /\ EventOK(e)
  BY <1>1, <1>3, TailOK
<1>5. BusOK'
  BY <1>1, <1>2, <1>3, <1>4, BusAssumption DEF MirrorInv, BusOK
<1>6. Underway # << >> /\ Head(Underway) = e /\ Underway' = Tail(Underway) /\ AllOK(Underway)
  BY <1>1, <1>2, <1>3, NextUnderway, ConcatOK DEF Underway
<1>7. Inv /\ TopologyBounded /\ FrontendInv
  BY DEF MirrorInv, FrontendInv
<1> HIDE DEF p, e
<1>8. FrontendInv'
  BY <1>1, <1>4, <1>7, ApplyOfMirror, FrontendStep
<1>9. Shown' = Effect(e, Shown) /\ Shown \in Nav /\ NavIds(Shown) = ActiveIds
  BY <1>1, <1>4, <1>7, ApplyShows, ShownType
<1>10. ServerOK' /\ \A m \in Nav : Truth(m) => Truth(m)'
  BY <1>1, UnmovedServer DEF MirrorInv
<1>11. Paired(Underway') /\ (IsReset(e) => Underway' # << >> /\ IsWholeSync(Head(Underway')))
  BY <1>6, PairedTail DEF MirrorInv
<1>12. PICK n \in Nav, m \in Nav : Leads(Underway, n, m) /\ Truth(m) /\ Starts(n)
  BY DEF MirrorInv, Chain
<1>13. PICK k \in Nav :
         /\ k = Effect(e, n) /\ Leads(Underway', k, m)
         /\ e.kind = "Message" => e.channel \in NavIds(n)
  BY <1>6, <1>12, LeadsTail
<1>14. Starts(k)'
  <2>1. CASE lost = "no"
    <3>1. n = Shown /\ lost' = "no"
      BY <1>1, <1>12, <2>1 DEF Starts
    <3>2. QED
      BY <1>9, <1>13, <3>1 DEF Starts
  <2>2. CASE lost = "half"
    <3>1. /\ n.known /\ Shown.known /\ n.down = Shown.down /\ n.chans = Shown.chans
          /\ IsWholeSync(e) /\ lost' = "no"
      BY <1>1, <1>6, <1>12, <2>2 DEF Starts
    <3>2. QED
      BY <1>9, <1>13, <3>1, WholeSyncEffect DEF Starts
  <2>3. CASE lost = "yes" /\ IsReset(e)
    <3>1. lost' = "half"
      BY <1>1, <2>3
    <3>2. QED
      BY <1>9, <1>11, <1>13, <2>3, <3>1, ResetEffect DEF Starts
  <2>4. CASE lost = "yes" /\ ~IsReset(e)
    <3>1. lost' = "yes"
      BY <1>1, <2>4
    <3>2. QED
      BY <3>1 DEF Starts
  <2>5. QED
    BY <2>1, <2>2, <2>3, <2>4 DEF MirrorInv, BusOK
<1>15. Chain'
  BY <1>10, <1>12, <1>13, <1>14 DEF Chain
<1>16. Sound'
  <2>1. CASE lagged["gateway"]
    BY <1>1, <2>1 DEF Sound
  <2>2. CASE ~lagged["gateway"]
    <3>1. lost = "no" /\ Tidy
      BY <1>1, <2>2 DEF MirrorInv, Sound
    <3>2. n = Shown /\ lost' = "no"
      BY <1>1, <1>12, <3>1 DEF Starts
    <3>3. e.kind = "Message" => e.channel \in ActiveIds
      BY <1>9, <1>13, <3>2
    <3>4. Tidy'
      BY <1>1, <1>4, <1>7, <3>1, <3>3, ApplyTidy
    <3>5. QED
      BY <3>2, <3>4 DEF Sound
  <2>3. QED
    BY <2>1, <2>2
<1>17. QED
  BY <1>5, <1>8, <1>10, <1>11, <1>15, <1>16 DEF MirrorInv
----------------------------------------------------------------------------
(* The server: what its dispatches become                                  *)

LEMMA ChannelDispatches ==
  ASSUME NEW c \in GuildChannelIds
  PROVE  /\ EventsOf([t |-> "CHANNEL_CREATE", guild |-> TheGuild, id |-> c, oneToOne |-> FALSE], Absent)
              = <<[kind |-> "ChannelCreate", guild |-> TheGuild, id |-> c]>>
         /\ EventsOf([t |-> "CHANNEL_UPDATE", guild |-> TheGuild, id |-> c, oneToOne |-> FALSE], Absent)
              = <<[kind |-> "ChannelUpdate", guild |-> TheGuild, id |-> c]>>
         /\ EventsOf([t |-> "CHANNEL_DELETE", guild |-> TheGuild, id |-> c], Absent)
              = <<[kind |-> "ChannelDelete", guild |-> TheGuild, id |-> c]>>
<1>1. \A e : <<e>> \o << >> = <<e>>
  OBVIOUS
<1>2. TheGuild # Absent
  BY OneGuild
<1> DEFINE made == [t |-> "CHANNEL_CREATE", guild |-> TheGuild, id |-> c, oneToOne |-> FALSE]
           edited == [t |-> "CHANNEL_UPDATE", guild |-> TheGuild, id |-> c, oneToOne |-> FALSE]
           removed == [t |-> "CHANNEL_DELETE", guild |-> TheGuild, id |-> c]
<1>3. EventsOf(made, Absent) = <<[kind |-> "ChannelCreate", guild |-> TheGuild, id |-> c]>>
  <2>1. EventsOf(made, Absent) = ChannelEvents(made, "ChannelCreate")
                                   \o DirectChangeEvents(made, "DirectChannelCreate")
    BY DEF EventsOf
  <2>2. DirectChangeEvents(made, "DirectChannelCreate") = << >>
    BY <1>2 DEF DirectChangeEvents
  <2>3. ChannelEvents(made, "ChannelCreate") = <<[kind |-> "ChannelCreate", guild |-> TheGuild, id |-> c]>>
    BY <1>2 DEF ChannelEvents
  <2>4. QED
    BY <1>1, <2>1, <2>2, <2>3
<1>4. EventsOf(edited, Absent) = <<[kind |-> "ChannelUpdate", guild |-> TheGuild, id |-> c]>>
  <2>1. EventsOf(edited, Absent) = ChannelEvents(edited, "ChannelUpdate")
                                     \o DirectChangeEvents(edited, "DirectChannelUpdate")
    BY DEF EventsOf
  <2>2. DirectChangeEvents(edited, "DirectChannelUpdate") = << >>
    BY <1>2 DEF DirectChangeEvents
  <2>3. ChannelEvents(edited, "ChannelUpdate") = <<[kind |-> "ChannelUpdate", guild |-> TheGuild, id |-> c]>>
    BY <1>2 DEF ChannelEvents
  <2>4. QED
    BY <1>1, <2>1, <2>2, <2>3
<1>5. EventsOf(removed, Absent) = <<[kind |-> "ChannelDelete", guild |-> TheGuild, id |-> c]>>
  <2>1. EventsOf(removed, Absent) = ChannelEvents(removed, "ChannelDelete") \o DirectDeleteEvents(removed)
    BY DEF EventsOf
  <2>2. DirectDeleteEvents(removed) = << >>
    BY <1>2 DEF DirectDeleteEvents
  <2>3. ChannelEvents(removed, "ChannelDelete") = <<[kind |-> "ChannelDelete", guild |-> TheGuild, id |-> c]>>
    BY <1>2 DEF ChannelEvents
  <2>4. QED
    BY <1>1, <2>1, <2>2, <2>3
<1>6. QED
  BY <1>3, <1>4, <1>5

LEMMA ThreadDispatches ==
  /\ \A th : EventsOf([t |-> "THREAD_CREATE", thread |-> th], Absent)
               = <<[kind |-> "ThreadCreate", thread |-> th]>>
  /\ \A th : EventsOf([t |-> "THREAD_UPDATE", thread |-> th], Absent)
               = <<[kind |-> "ThreadUpdate", thread |-> th]>>
  /\ \A id : EventsOf([t |-> "THREAD_DELETE", guild |-> TheGuild, id |-> id], Absent)
               = <<[kind |-> "ThreadDelete", guild |-> TheGuild, id |-> id]>>
  /\ \A scope, l :
       EventsOf([t |-> "THREAD_LIST_SYNC", guild |-> TheGuild, scope |-> scope, threads |-> l], Absent)
         = <<[kind |-> "ThreadListSync", guild |-> TheGuild, scope |-> scope, threads |-> l]>>
<1>1. \A th : EventsOf([t |-> "THREAD_CREATE", thread |-> th], Absent)
               = <<[kind |-> "ThreadCreate", thread |-> th]>>
  BY DEF EventsOf, ThreadEvents
<1>2. \A th : EventsOf([t |-> "THREAD_UPDATE", thread |-> th], Absent)
               = <<[kind |-> "ThreadUpdate", thread |-> th]>>
  BY DEF EventsOf, ThreadEvents
<1>3. \A id : EventsOf([t |-> "THREAD_DELETE", guild |-> TheGuild, id |-> id], Absent)
               = <<[kind |-> "ThreadDelete", guild |-> TheGuild, id |-> id]>>
  BY DEF EventsOf, ThreadDeleteEvents
<1>4. \A scope, l :
       EventsOf([t |-> "THREAD_LIST_SYNC", guild |-> TheGuild, scope |-> scope, threads |-> l], Absent)
         = <<[kind |-> "ThreadListSync", guild |-> TheGuild, scope |-> scope, threads |-> l]>>
  BY DEF EventsOf, ThreadListSyncEvents
<1>5. QED
  BY <1>1, <1>2, <1>3, <1>4

LEMMA GuildDispatches ==
  /\ \A u : EventsOf([t |-> "GUILD_UPDATE", guild |-> TheGuild, unavailable |-> u], Absent)
              = <<[kind |-> "GuildUpdate", guild |-> TheGuild, unavailable |-> u]>>
  /\ \A u : EventsOf([t |-> "GUILD_DELETE", guild |-> TheGuild, unavailable |-> u], Absent)
              = <<[kind |-> "GuildDelete", guild |-> TheGuild, unavailable |-> u]>>
  /\ EventsOf([t |-> "READY", user |-> Malformed], Absent) = <<[kind |-> "GatewayReady"]>>
  /\ EventsOf([t |-> "RESUMED"], Absent) = <<[kind |-> "GatewayResumed"]>>
  /\ EventsOf([t |-> "USER_UPDATE", user |-> Malformed], Absent) = << >>
<1>1. \A u : EventsOf([t |-> "GUILD_UPDATE", guild |-> TheGuild, unavailable |-> u], Absent)
               = <<[kind |-> "GuildUpdate", guild |-> TheGuild, unavailable |-> u]>>
  BY DEF EventsOf, GuildChangeEvents
<1>2. \A u : EventsOf([t |-> "GUILD_DELETE", guild |-> TheGuild, unavailable |-> u], Absent)
               = <<[kind |-> "GuildDelete", guild |-> TheGuild, unavailable |-> u]>>
  BY DEF EventsOf, GuildChangeEvents
<1>3. /\ EventsOf([t |-> "READY", user |-> Malformed], Absent) = <<[kind |-> "GatewayReady"]>>
      /\ EventsOf([t |-> "RESUMED"], Absent) = <<[kind |-> "GatewayResumed"]>>
      /\ EventsOf([t |-> "USER_UPDATE", user |-> Malformed], Absent) = << >>
  BY DEF EventsOf
<1>4. QED
  BY <1>1, <1>2, <1>3

\* The events of a message that is posted, edited or deleted.
MessagesOf(c) ==
  {[kind |-> "Message", channel |-> c, id |-> TheMessage.id, body |-> TheMessage.body],
   [kind |-> "MessageUpdate", channel |-> c, id |-> TheMessage.id, content |-> Unchanged],
   [kind |-> "MessageDelete", channel |-> c, id |-> TheMessage.id]}

Posted(c) ==
  [t |-> "MESSAGE_CREATE", guild |-> TheGuild, channel |-> c, id |-> TheMessage.id,
   body |-> TheMessage.body, author |-> Malformed]
Edited(c) == [t |-> "MESSAGE_UPDATE", channel |-> c, id |-> TheMessage.id, content |-> Absent]
Deleted(c) == [t |-> "MESSAGE_DELETE", channel |-> c, id |-> TheMessage.id]
BulkDeleted(c) == [t |-> "MESSAGE_DELETE_BULK", channel |-> c, ids |-> <<TheMessage.id>>]

LEMMA MessageDispatches ==
  ASSUME NEW c, NEW d \in {Posted(c), Edited(c), Deleted(c), BulkDeleted(c)}
  PROVE  EventsOf(d, Absent) = << >> \/ \E e \in MessagesOf(c) : EventsOf(d, Absent) = <<e>>
<1>1. CASE d = Posted(c)
  <2>1. EventsOf(d, Absent) = DiscoveryEvents(d, Absent) \o MessageEvents(d)
    BY <1>1 DEF EventsOf, MessageCreateEvents, Posted
  <2>2. DiscoveryEvents(d, Absent) = << >>
    BY DEF DiscoveryEvents, IsInbound
  <2>3. \A e : << >> \o <<e>> = <<e>> /\ << >> \o << >> = << >>
    OBVIOUS
  <2>4. CASE d.author = Absent
    BY <2>1, <2>2, <2>3, <2>4 DEF MessageEvents
  <2>5. CASE d.author # Absent
    <3>1. MessageEvents(d) = <<[kind |-> "Message", channel |-> c, id |-> TheMessage.id,
                                body |-> TheMessage.body]>>
      BY <1>1, <2>5 DEF MessageEvents, Posted
    <3>2. QED
      BY <2>1, <2>2, <2>3, <3>1 DEF MessagesOf
  <2>6. QED
    BY <2>4, <2>5
<1>2. CASE d = Edited(c)
  <2>1. EventsOf(d, Absent) = <<[kind |-> "MessageUpdate", channel |-> c, id |-> TheMessage.id,
                                 content |-> Unchanged]>>
    BY <1>2 DEF EventsOf, MessageUpdateEvents, Edited
  <2>2. QED
    BY <2>1 DEF MessagesOf
<1>3. CASE d = Deleted(c)
  <2>1. EventsOf(d, Absent) = <<[kind |-> "MessageDelete", channel |-> c, id |-> TheMessage.id]>>
    BY <1>3 DEF EventsOf, MessageDeleteEvents, Deleted
  <2>2. QED
    BY <2>1 DEF MessagesOf
<1>4. CASE d = BulkDeleted(c)
  <2>1. EventsOf(d, Absent) = BulkDeleteEvents(d) /\ d.ids = <<TheMessage.id>> /\ d.channel = c
    BY <1>4 DEF EventsOf, BulkDeleted
  <2>2. CASE Len(d.ids) > MaxBulkDelete
    BY <2>1, <2>2 DEF BulkDeleteEvents
  <2>3. CASE ~(Len(d.ids) > MaxBulkDelete)
    <3> DEFINE e == [kind |-> "MessageDelete", channel |-> c, id |-> TheMessage.id]
    <3>1. BulkDeleteEvents(d) = [i \in DOMAIN d.ids |->
                                   [kind |-> "MessageDelete", channel |-> d.channel, id |-> d.ids[i]]]
      BY <2>3 DEF BulkDeleteEvents
    <3>2. DOMAIN d.ids = 1..1 /\ \A i \in 1..1 : d.ids[i] = TheMessage.id
      BY <2>1
    <3>3. BulkDeleteEvents(d) = [i \in 1..1 |-> e]
      BY <2>1, <3>1, <3>2
    <3> HIDE DEF e
    <3>4. [i \in 1..1 |-> e] = <<e>>
      OBVIOUS
    <3>5. QED
      BY <2>1, <3>3, <3>4 DEF e, MessagesOf
  <2>4. QED
    BY <2>2, <2>3
<1>5. QED
  BY <1>1, <1>2, <1>3, <1>4

\* The threads of the guild as the server lists them are what the client caches of them.
ListingOf(P) == {AsThread(t, FALSE) : t \in P}

LEMMA ThreadsTyped ==
  ASSUME ServerOK
  PROVE  /\ \A t \in ActiveThreads : t.id \in DOMAIN active /\ t.parent = active[t.id]
         /\ \A t \in ActiveThreads : t \in [id : ThreadIds, parent : GuildChannelIds]
         /\ OneEach(ActiveThreads)
BY DEF ServerOK, ActiveThreads, OneEach

LEMMA ListedAsCached ==
  ASSUME ServerOK, NEW P \in SUBSET ActiveThreads
  PROVE  /\ ListOf(ListingOf(P)) \in ThreadLists /\ Items(ListOf(ListingOf(P))) = ListingOf(P)
         /\ ListingOf(P) \in Listings
         /\ ListedThreads(ListOf(ListingOf(P))) = P
         /\ \A t \in P : \E u \in ListingOf(P) : u.id = t.id
<1> DEFINE S == ListingOf(P)
<1>1. \A t \in P : t \in [id : ThreadIds, parent : GuildChannelIds]
  BY ThreadsTyped
<1>2. \A t \in P : /\ AsThread(t, FALSE).id = t.id
                   /\ AsThread(t, FALSE) \in [id : ThreadIds, guild : {TheGuild},
                                             parent : GuildChannelIds, archived : {FALSE}]
                   /\ AsCached(AsThread(t, FALSE)) = t
  BY <1>1 DEF AsThread, AsCached
<1>3. OneEach(S)
  <2>1. \A t, u \in P : t.id = u.id => t = u
    BY ThreadsTyped DEF OneEach
  <2>2. ASSUME NEW x \in S, NEW y \in S, x.id = y.id PROVE x = y
    <3>1. PICK t \in P, u \in P : x = AsThread(t, FALSE) /\ y = AsThread(u, FALSE)
      BY DEF ListingOf
    <3> HIDE DEF S
    <3>2. x.id = t.id /\ y.id = u.id
      BY <1>2, <3>1
    <3>3. t.id = u.id
      BY <2>2, <3>2
    <3>4. t = u
      BY <2>1, <3>3
    <3>5. QED
      BY <3>1, <3>4
  <2>3. QED
    BY <2>2 DEF OneEach
<1>4. S \in Listings
  BY <1>2, <1>3 DEF Listings, ListingOf
<1>5. ListOf(S) \in ThreadLists /\ Items(ListOf(S)) = S
  BY <1>4, MirrorAssumption
<1>6. ListedThreads(ListOf(S)) = P
  <2>1. ListedThreads(ListOf(S)) = {AsCached(u) : u \in S}
    BY <1>5 DEF ListedThreads
  <2>2. ASSUME NEW u \in S PROVE AsCached(u) \in P
    <3>1. PICK t \in P : u = AsThread(t, FALSE)
      BY DEF ListingOf
    <3>2. QED
      BY <1>2, <3>1
  <2>3. ASSUME NEW t \in P PROVE t \in {AsCached(u) : u \in S}
    <3>1. AsThread(t, FALSE) \in S /\ t = AsCached(AsThread(t, FALSE))
      BY <1>2 DEF ListingOf
    <3>2. QED
      BY <3>1
  <2>4. QED
    BY <2>1, <2>2, <2>3
<1>7. \A t \in P : \E u \in S : u.id = t.id
  BY <1>2 DEF ListingOf
<1>8. QED
  BY <1>4, <1>5, <1>6, <1>7

\* A list of threads of the guild is passed on as it is.
LEMMA ListPassedOn ==
  ASSUME NEW l \in ThreadLists, Items(l) \in Listings
  PROVE  [i \in DOMAIN l |-> [id |-> l[i].id, guild |-> TheGuild, parent |-> l[i].parent,
                              archived |-> l[i].archived]] = l
<1>1. l \in Seq(Thread)
  BY TopologyAssumption
<1>2. DOMAIN l = 1..Len(l) /\ l \in [1..Len(l) -> Thread]
  BY <1>1
<1>3. ASSUME NEW i \in DOMAIN l
      PROVE  [id |-> l[i].id, guild |-> TheGuild, parent |-> l[i].parent,
              archived |-> l[i].archived] = l[i]
  <2>1. l[i] \in Items(l)
    BY DEF Items
  <2>2. l[i] \in [id : ThreadIds, guild : {TheGuild}, parent : GuildChannelIds, archived : {FALSE}]
    BY <2>1 DEF Listings
  <2>3. QED
    BY <2>2
<1>4. QED
  BY <1>2, <1>3

FullSnapshot == [kind |-> "GuildCreate", guild |-> TheGuild, unavailable |-> FALSE,
                 channels |-> ChannelList(chans)]
FullSync == [kind |-> "ThreadListSync", guild |-> TheGuild, scope |-> Absent,
             threads |-> ListOf(ListingOf(ActiveThreads))]

LEMMA SnapshotDispatches ==
  ASSUME ServerOK
  PROVE  /\ EventsOf(Snapshot(FALSE), Absent) = <<FullSnapshot, FullSync>>
         /\ EventsOf(Snapshot(TRUE), Absent)
              = <<[kind |-> "GuildCreate", guild |-> TheGuild, unavailable |-> TRUE,
                   channels |-> << >>]>>
<1> DEFINE l == ListOf(ListingOf(ActiveThreads))
<1>1. l \in ThreadLists /\ Items(l) \in Listings
  BY ListedAsCached
<1> DEFINE passed == [i \in DOMAIN l |-> [id |-> l[i].id, guild |-> TheGuild, parent |-> l[i].parent,
                                          archived |-> l[i].archived]]
<1>2. passed = l
  BY <1>1, ListPassedOn
<1>3. EventsOf(Snapshot(FALSE), Absent) = <<FullSnapshot, FullSync>>
  <2> DEFINE d == [t |-> "GUILD_CREATE", guild |-> TheGuild, unavailable |-> FALSE,
                   channels |-> ChannelList(chans), threads |-> l]
  <2>1. Snapshot(FALSE) = d
    BY DEF Snapshot, ListingOf
  <2> HIDE DEF l
  <2>2. EventsOf(d, Absent) = GuildCreateEvents(d)
    BY DEF EventsOf
  <2>3. GuildCreateEvents(d) =
          <<[kind |-> "GuildCreate", guild |-> TheGuild, unavailable |-> FALSE,
             channels |-> ChannelList(chans)],
            [kind |-> "ThreadListSync", guild |-> TheGuild, scope |-> Absent, threads |-> passed]>>
    BY DEF GuildCreateEvents
  <2> HIDE DEF passed, d
  <2>4. QED
    BY <1>2, <2>1, <2>2, <2>3 DEF FullSnapshot, FullSync, l
<1>4. EventsOf(Snapshot(TRUE), Absent)
        = <<[kind |-> "GuildCreate", guild |-> TheGuild, unavailable |-> TRUE, channels |-> << >>]>>
  <2> DEFINE d == [t |-> "GUILD_CREATE", guild |-> TheGuild, unavailable |-> TRUE,
                   channels |-> << >>, threads |-> << >>]
  <2>1. Snapshot(TRUE) = d
    BY DEF Snapshot
  <2>2. EventsOf(d, Absent) = GuildCreateEvents(d)
    BY DEF EventsOf
  <2>3. GuildCreateEvents(d) =
          <<[kind |-> "GuildCreate", guild |-> TheGuild, unavailable |-> TRUE, channels |-> << >>]>>
    BY DEF GuildCreateEvents
  <2>4. QED
    BY <2>1, <2>2, <2>3
<1>5. QED
  BY <1>3, <1>4

\* A snapshot shows the guild as it is, whatever was shown before.
LEMMA SnapshotLeads ==
  ASSUME ServerOK, NEW n \in Nav
  PROVE  LET es == <<FullSnapshot, FullSync>>
             m == Mirrored(FALSE, chans, ActiveThreads)
         IN  AllOK(es) /\ Paired(es) /\ Leads(es, n, m) /\ m \in Nav
<1> DEFINE m == Mirrored(FALSE, chans, ActiveThreads)
<1>1. /\ ListOf(ListingOf(ActiveThreads)) \in ThreadLists
      /\ Items(ListOf(ListingOf(ActiveThreads))) \in Listings
      /\ ListedThreads(ListOf(ListingOf(ActiveThreads))) = ActiveThreads
  BY ListedAsCached
<1>2. ChannelList(chans) \in Snapshots /\ Items(ChannelList(chans)) = chans
  BY MirrorAssumption DEF ServerOK
<1>3. EventOK(FullSnapshot)
  BY <1>2 DEF EventOK, GuildEventOK, FullSnapshot
<1>4. EventOK(FullSync) /\ IsWholeSync(FullSync)
  BY <1>1, OneGuild DEF EventOK, GuildEventOK, FullSync, IsWholeSync
<1>5. Effect(FullSnapshot, n) = Mirrored(FALSE, chans, n.threads)
  BY <1>2 DEF Effect, FullSnapshot
<1>6. Effect(FullSync, Mirrored(FALSE, chans, n.threads)) = m
  <2> DEFINE T == {t \in n.threads : /\ ~InScope(t, FullSync.scope)
                                     /\ \A u \in Items(FullSync.threads) : u.id # t.id}
                    \cup ListedThreads(FullSync.threads)
  <2>1. \A t : InScope(t, FullSync.scope)
    BY DEF FullSync, InScope
  <2>2. FullSync.threads = ListOf(ListingOf(ActiveThreads))
    BY DEF FullSync
  <2>3. T = ActiveThreads
    BY <1>1, <2>1, <2>2
  <2>4. Effect(FullSync, Mirrored(FALSE, chans, n.threads)) = Mirrored(FALSE, chans, T)
    <3>1. FullSync.kind = "ThreadListSync"
      BY DEF FullSync
    <3>2. QED
      BY <3>1 DEF Effect, Changed, Mirrored
  <2> HIDE DEF T
  <2>5. QED
    BY <2>3, <2>4
<1>7. FullSnapshot.kind # "Message" /\ FullSync.kind # "Message"
  BY DEF FullSnapshot, FullSync
<1> HIDE DEF m
<1>8. Leads(<<FullSnapshot>>, n, Effect(FullSnapshot, n)) /\ Effect(FullSnapshot, n) \in Nav
  BY <1>3, <1>7, LeadsOne
<1>9. Leads(<<FullSync>>, Effect(FullSnapshot, n), m) /\ m \in Nav
  <2>1. /\ Leads(<<FullSync>>, Effect(FullSnapshot, n), Effect(FullSync, Effect(FullSnapshot, n)))
        /\ Effect(FullSync, Effect(FullSnapshot, n)) \in Nav
    BY <1>4, <1>7, <1>8, LeadsOne
  <2>2. QED
    BY <1>5, <1>6, <2>1
<1>10. AllOK(<<FullSnapshot>>) /\ AllOK(<<FullSync>>)
  BY <1>3, <1>4, OneOK
<1>11. \A e, d : <<e>> \o <<d>> = <<e, d>>
  BY PairOf
<1>12. Leads(<<FullSnapshot, FullSync>>, n, m)
  <2>1. Leads(<<FullSnapshot>> \o <<FullSync>>, n, m)
    BY <1>8, <1>9, <1>10, LeadsConcat
  <2>2. QED
    BY <1>11, <2>1
<1>13. AllOK(<<FullSnapshot, FullSync>>) /\ Paired(<<FullSnapshot, FullSync>>)
  BY <1>3, <1>4, TwoOK
<1>14. QED
  BY <1>9, <1>12, <1>13 DEF m

\* A dispatch that becomes one event, unless the guild is silent.
LEMMA TellInv ==
  ASSUME MirrorInv, NEW d, Tell(d), ServerOK',
         NEW e, EventOK(e), ~IsReset(e), EventsOf(d, Absent) = <<e>>,
         \A m \in Nav : Truth(m) /\ serving = "live" /\ e.kind = "Message" => e.channel \in NavIds(m),
         \A m, k \in Nav : Truth(m) /\ serving = "live" /\ k = Effect(e, m) => Truth(k)',
         \A m \in Nav : Truth(m) /\ serving \in {"outage", "away"} => Truth(m)'
  PROVE  MirrorInv'
<1>1. CASE serving = "live" /\ ReadDispatch(d)
  <2>1. AllOK(<<e>>) /\ Paired(<<e>>)
    BY OneOK
  <2>2. \A m \in Nav : Truth(m) => \E k \in Nav : Leads(<<e>>, m, k) /\ Truth(k)'
    <3>1. ASSUME NEW m \in Nav, Truth(m) PROVE \E k \in Nav : Leads(<<e>>, m, k) /\ Truth(k)'
      <4>1. Leads(<<e>>, m, Effect(e, m)) /\ Effect(e, m) \in Nav
        BY <1>1, <3>1, LeadsOne
      <4>2. QED
        BY <1>1, <3>1, <4>1
    <3>2. QED
      BY <3>1
  <2>3. QED
    BY <1>1, <2>1, <2>2, DispatchInv
<1>2. CASE serving \in {"outage", "away"} /\ UNCHANGED <<outbox, lost, busVars, vars>>
  <2>1. \A m \in Nav : Truth(m) => Truth(m)'
    BY <1>2
  <2>2. QED
    BY <1>2, <2>1, SilentInv
<1>3. QED
  BY <1>1, <1>2 DEF Tell

\* A dispatch of no event.
LEMMA UntoldInv ==
  ASSUME MirrorInv, NEW d, Tell(d), ServerOK', EventsOf(d, Absent) = << >>,
         \A m \in Nav : Truth(m) => Truth(m)'
  PROVE  MirrorInv'
<1>1. CASE ReadDispatch(d)
  <2>1. \A m \in Nav : Truth(m) => \E k \in Nav : Leads(<< >>, m, k) /\ Truth(k)'
    BY LeadsNone
  <2>2. QED
    BY <1>1, <2>1, NoneOK, DispatchInv
<1>2. CASE UNCHANGED <<outbox, lost, busVars, vars>>
  BY <1>2, SilentInv
<1>3. QED
  BY <1>1, <1>2 DEF Tell
----------------------------------------------------------------------------
(* The server: channels and threads                                        *)

\* Threads that are left when the others go.
LEMMA ThreadsLeft ==
  ASSUME ServerOK, NEW D \in SUBSET DOMAIN active, active' = [t \in D |-> active[t]]
  PROVE  /\ ActiveThreads' = {t \in ActiveThreads : t.id \in D}
         /\ DOMAIN active' = D /\ D \in SUBSET ThreadIds /\ active' \in [D -> GuildChannelIds]
<1>1. DOMAIN active' = D /\ \A t \in D : active'[t] = active[t]
  OBVIOUS
<1>2. ActiveThreads' = {[id |-> t, parent |-> active[t]] : t \in D}
  BY <1>1 DEF ActiveThreads
<1>3. \A t \in DOMAIN active : [id |-> t, parent |-> active[t]].id = t
  OBVIOUS
<1>4. ActiveThreads' = {t \in ActiveThreads : t.id \in D}
  BY <1>2, <1>3 DEF ActiveThreads
<1>5. QED
  BY <1>1, <1>4 DEF ServerOK

\* One more thread.
LEMMA ThreadStarted ==
  ASSUME ServerOK, NEW t \in ThreadIds \ DOMAIN active, NEW c \in GuildChannelIds,
         active' = [u \in DOMAIN active \cup {t} |-> IF u = t THEN c ELSE active[u]]
  PROVE  /\ ActiveThreads' = {u \in ActiveThreads : u.id # t} \cup {[id |-> t, parent |-> c]}
         /\ DOMAIN active' \in SUBSET ThreadIds /\ active' \in [DOMAIN active' -> GuildChannelIds]
<1>1. /\ DOMAIN active' = DOMAIN active \cup {t} /\ active'[t] = c
      /\ \A u \in DOMAIN active : active'[u] = active[u]
  OBVIOUS
<1>2. ActiveThreads' = ActiveThreads \cup {[id |-> t, parent |-> c]}
  BY <1>1 DEF ActiveThreads
<1>3. \A u \in ActiveThreads : u.id # t
  BY ThreadsTyped
<1>4. DOMAIN active' \in SUBSET ThreadIds /\ active' \in [DOMAIN active' -> GuildChannelIds]
  BY <1>1 DEF ServerOK
<1>5. QED
  BY <1>2, <1>3, <1>4

LEMMA GuildEvents ==
  /\ \A c \in GuildChannelIds, k \in {"ChannelCreate", "ChannelUpdate", "ChannelDelete"} :
       /\ EventOK([kind |-> k, guild |-> TheGuild, id |-> c])
       /\ ~IsReset([kind |-> k, guild |-> TheGuild, id |-> c])
  /\ \A t \in ThreadIds :
       /\ EventOK([kind |-> "ThreadDelete", guild |-> TheGuild, id |-> t])
       /\ ~IsReset([kind |-> "ThreadDelete", guild |-> TheGuild, id |-> t])
  /\ \A th \in Thread, k \in {"ThreadCreate", "ThreadUpdate"} :
       th.guild = TheGuild /\ (k = "ThreadCreate" => ~th.archived) =>
         EventOK([kind |-> k, thread |-> th]) /\ ~IsReset([kind |-> k, thread |-> th])
<1>1. \A c \in GuildChannelIds, k \in {"ChannelCreate", "ChannelUpdate", "ChannelDelete"} :
        /\ EventOK([kind |-> k, guild |-> TheGuild, id |-> c])
        /\ ~IsReset([kind |-> k, guild |-> TheGuild, id |-> c])
  BY DEF EventOK, GuildEventOK, IsReset
<1>2. \A t \in ThreadIds :
        /\ EventOK([kind |-> "ThreadDelete", guild |-> TheGuild, id |-> t])
        /\ ~IsReset([kind |-> "ThreadDelete", guild |-> TheGuild, id |-> t])
  BY DEF EventOK, GuildEventOK, IsReset
<1>3. \A th \in Thread, k \in {"ThreadCreate", "ThreadUpdate"} :
       th.guild = TheGuild /\ (k = "ThreadCreate" => ~th.archived) =>
         EventOK([kind |-> k, thread |-> th]) /\ ~IsReset([kind |-> k, thread |-> th])
  BY DEF EventOK, ThreadEventOK, IsReset
<1>4. QED
  BY <1>1, <1>2, <1>3

ButThread(ths, id) == {u \in ths : u.id # id}

\* What a thread that is created or updated makes of navigation.
LEMMA ActiveEffect ==
  ASSUME NEW e, e.kind \in {"ThreadCreate", "ThreadUpdate"}, ~e.thread.archived, NEW n, n.known
  PROVE  Effect(e, n) = Mirrored(n.down, n.chans,
                                ButThread(n.threads, e.thread.id) \cup {AsCached(e.thread)})
<1> DEFINE S == IF e.thread.archived THEN {} ELSE {AsCached(e.thread)}
<1>1. Effect(e, n) = Mirrored(n.down, n.chans, {t \in n.threads : t.id # e.thread.id} \cup S)
  BY DEF Effect, Changed
<1>2. S = {AsCached(e.thread)}
  OBVIOUS
<1> HIDE DEF S
<1>3. {t \in n.threads : t.id # e.thread.id} \cup S
        = ButThread(n.threads, e.thread.id) \cup {AsCached(e.thread)}
  BY <1>2 DEF ButThread
<1>4. QED
  BY <1>1, <1>3

LEMMA ArchivedEffect ==
  ASSUME NEW e, e.kind = "ThreadUpdate", e.thread.archived, NEW n, n.known
  PROVE  Effect(e, n) = Mirrored(n.down, n.chans, ButThread(n.threads, e.thread.id))
<1> DEFINE S == IF e.thread.archived THEN {} ELSE {AsCached(e.thread)}
<1>1. Effect(e, n) = Mirrored(n.down, n.chans, {t \in n.threads : t.id # e.thread.id} \cup S)
  BY DEF Effect, Changed
<1>2. S = {}
  OBVIOUS
<1> HIDE DEF S
<1>3. {t \in n.threads : t.id # e.thread.id} \cup S = ButThread(n.threads, e.thread.id)
  BY <1>2 DEF ButThread
<1>4. QED
  BY <1>1, <1>3

LEMMA MakeChannelInv ==
  ASSUME MirrorInv, NEW c \in GuildChannelIds, MakeChannel(c)
  PROVE  MirrorInv'
<1> DEFINE d == [t |-> "CHANNEL_CREATE", guild |-> TheGuild, id |-> c, oneToOne |-> FALSE]
           e == [kind |-> "ChannelCreate", guild |-> TheGuild, id |-> c]
<1>1. /\ member /\ chans' = chans \cup {c} /\ Tell(d) /\ ServerOK
      /\ UNCHANGED <<serving, member, active, leftAway>>
  BY DEF MakeChannel, MirrorInv
<1>2. ServerOK'
  BY <1>1 DEF ServerOK
<1>3. EventOK(e) /\ ~IsReset(e) /\ EventsOf(d, Absent) = <<e>>
  BY GuildEvents, ChannelDispatches
<1>4. ActiveThreads' = ActiveThreads
  BY <1>1 DEF ActiveThreads
<1>5. \A n : n = Mirrored(FALSE, chans, ActiveThreads)
               => Effect(e, n) = Mirrored(FALSE, chans \cup {c}, ActiveThreads)
  BY DEF Effect, Changed, Mirrored
<1>6. e.kind # "Message"
  OBVIOUS
<1> HIDE DEF d, e
<1>7. \A m, k \in Nav : Truth(m) /\ serving = "live" /\ k = Effect(e, m) => Truth(k)'
  BY <1>1, <1>4, <1>5 DEF Truth
<1>8. \A m \in Nav : Truth(m) /\ serving \in {"outage", "away"} => Truth(m)'
  BY <1>1 DEF Truth
<1>9. QED
  BY <1>1, <1>2, <1>3, <1>6, <1>7, <1>8, TellInv

LEMMA EditChannelInv ==
  ASSUME MirrorInv, NEW c \in GuildChannelIds, EditChannel(c)
  PROVE  MirrorInv'
<1> DEFINE d == [t |-> "CHANNEL_UPDATE", guild |-> TheGuild, id |-> c, oneToOne |-> FALSE]
           e == [kind |-> "ChannelUpdate", guild |-> TheGuild, id |-> c]
<1>1. member /\ c \in chans /\ Tell(d) /\ ServerOK /\ UNCHANGED guildVars
  BY DEF EditChannel, MirrorInv
<1>2. ServerOK' /\ \A m \in Nav : Truth(m) => Truth(m)'
  BY <1>1, UnmovedServer
<1>3. EventOK(e) /\ ~IsReset(e) /\ EventsOf(d, Absent) = <<e>>
  BY GuildEvents, ChannelDispatches
<1>4. \A n : n = Mirrored(FALSE, chans, ActiveThreads) => Effect(e, n) = n
  <2>1. chans \cup {c} = chans
    BY <1>1
  <2>2. \A n : n = Mirrored(FALSE, chans, ActiveThreads)
                 => Effect(e, n) = Mirrored(FALSE, chans \cup {c}, ActiveThreads)
    BY DEF Effect, Changed, Mirrored
  <2> HIDE DEF e
  <2>3. QED
    BY <2>1, <2>2
<1>5. e.kind # "Message"
  OBVIOUS
<1> HIDE DEF d, e
<1>6. \A m, k \in Nav : Truth(m) /\ serving = "live" /\ k = Effect(e, m) => Truth(k)'
  <2>1. ASSUME NEW m \in Nav, NEW k \in Nav, Truth(m), serving = "live", k = Effect(e, m)
        PROVE  Truth(k)'
    <3>1. m = k
      BY <1>1, <1>4, <2>1 DEF Truth
    <3>2. QED
      BY <1>2, <2>1, <3>1
  <2>2. QED
    BY <2>1
<1>7. QED
  BY <1>1, <1>2, <1>3, <1>5, <1>6, TellInv

LEMMA RemoveChannelInv ==
  ASSUME MirrorInv, NEW c \in GuildChannelIds, RemoveChannel(c)
  PROVE  MirrorInv'
<1> DEFINE d == [t |-> "CHANNEL_DELETE", guild |-> TheGuild, id |-> c]
           e == [kind |-> "ChannelDelete", guild |-> TheGuild, id |-> c]
           D == {u \in DOMAIN active : active[u] # c}
<1>1. /\ member /\ chans' = chans \ {c} /\ Tell(d) /\ ServerOK
      /\ active' = [t \in D |-> active[t]]
      /\ UNCHANGED <<serving, member, leftAway>>
  BY DEF RemoveChannel, MirrorInv
<1>2. /\ ActiveThreads' = {t \in ActiveThreads : t.id \in D}
      /\ DOMAIN active' = D /\ D \in SUBSET ThreadIds /\ active' \in [D -> GuildChannelIds]
  BY <1>1, ThreadsLeft
<1>3. ServerOK'
  BY <1>1, <1>2 DEF ServerOK
<1>4. ActiveThreads' = {t \in ActiveThreads : t.parent # c}
  BY <1>1, <1>2, ThreadsTyped
<1>5. EventOK(e) /\ ~IsReset(e) /\ EventsOf(d, Absent) = <<e>>
  BY GuildEvents, ChannelDispatches
<1>6. \A n : n = Mirrored(FALSE, chans, ActiveThreads)
               => Effect(e, n) = Mirrored(FALSE, chans \ {c}, {t \in ActiveThreads : t.parent # c})
  BY DEF Effect, Changed, Mirrored
<1>7. e.kind # "Message"
  OBVIOUS
<1> HIDE DEF d, e, D
<1>8. \A m, k \in Nav : Truth(m) /\ serving = "live" /\ k = Effect(e, m) => Truth(k)'
  BY <1>1, <1>4, <1>6 DEF Truth
<1>9. \A m \in Nav : Truth(m) /\ serving \in {"outage", "away"} => Truth(m)'
  BY <1>1 DEF Truth
<1>10. QED
  BY <1>1, <1>3, <1>5, <1>7, <1>8, <1>9, TellInv

LEMMA StartThreadInv ==
  ASSUME MirrorInv, NEW t \in ThreadIds, NEW c \in GuildChannelIds,
         NEW how \in {"THREAD_CREATE", "THREAD_UPDATE"}, StartThread(t, c, how)
  PROVE  MirrorInv'
<1> DEFINE th == [id |-> t, guild |-> TheGuild, parent |-> c, archived |-> FALSE]
           d == [t |-> how, thread |-> th]
           e == [kind |-> IF how = "THREAD_CREATE" THEN "ThreadCreate" ELSE "ThreadUpdate",
                 thread |-> th]
<1>1. /\ member /\ t \notin DOMAIN active /\ ServerOK
      /\ active' = [u \in DOMAIN active \cup {t} |-> IF u = t THEN c ELSE active[u]]
      /\ UNCHANGED <<serving, member, chans, leftAway>>
  BY DEF StartThread, MirrorInv
<1>2. Tell(d)
  <2>1. AsThread([id |-> t, parent |-> c], FALSE) = th
    BY DEF AsThread
  <2>2. QED
    BY <2>1 DEF StartThread
<1>3. /\ ActiveThreads' = {u \in ActiveThreads : u.id # t} \cup {[id |-> t, parent |-> c]}
      /\ DOMAIN active' \in SUBSET ThreadIds /\ active' \in [DOMAIN active' -> GuildChannelIds]
  BY <1>1, ThreadStarted
<1>4. ServerOK'
  BY <1>1, <1>3 DEF ServerOK
<1>5. th \in Thread /\ th.guild = TheGuild /\ ~th.archived /\ th.id = t
      /\ AsCached(th) = [id |-> t, parent |-> c]
  BY OneGuild DEF Thread, ParentIds, AsCached
<1> HIDE DEF th
<1>6. EventsOf(d, Absent) = <<e>>
  <2>1. CASE how = "THREAD_CREATE"
    BY <2>1, ThreadDispatches
  <2>2. CASE how = "THREAD_UPDATE"
    BY <2>2, ThreadDispatches
  <2>3. QED
    BY <2>1, <2>2
<1>7. EventOK(e) /\ ~IsReset(e)
  BY <1>5, GuildEvents
<1>8. e.kind \in {"ThreadCreate", "ThreadUpdate"} /\ e.thread = th
  OBVIOUS
<1> HIDE DEF d, e
<1>9. \A n : n = Mirrored(FALSE, chans, ActiveThreads)
               => Effect(e, n) = Mirrored(FALSE, chans, {u \in ActiveThreads : u.id # t}
                                                          \cup {[id |-> t, parent |-> c]})
  <2>1. \A n : n.known => Effect(e, n) = Mirrored(n.down, n.chans,
                                                  ButThread(n.threads, th.id) \cup {AsCached(th)})
    <3>1. ~e.thread.archived
      BY <1>5, <1>8
    <3>2. \A n : n.known => Effect(e, n) = Mirrored(n.down, n.chans,
                               ButThread(n.threads, e.thread.id) \cup {AsCached(e.thread)})
      BY <1>8, <3>1, ActiveEffect
    <3>3. QED
      BY <1>8, <3>2
  <2>2. ButThread(ActiveThreads, th.id) = {u \in ActiveThreads : u.id # t}
    BY <1>5 DEF ButThread
  <2>3. \A n : n = Mirrored(FALSE, chans, ActiveThreads)
                 => n.known /\ n.down = FALSE /\ n.chans = chans /\ n.threads = ActiveThreads
    BY DEF Mirrored
  <2>4. QED
    BY <1>5, <2>1, <2>2, <2>3
<1>10. \A m, k \in Nav : Truth(m) /\ serving = "live" /\ k = Effect(e, m) => Truth(k)'
  BY <1>1, <1>3, <1>9 DEF Truth
<1>11. \A m \in Nav : Truth(m) /\ serving \in {"outage", "away"} => Truth(m)'
  BY <1>1 DEF Truth
<1>12. QED
  BY <1>2, <1>4, <1>6, <1>7, <1>8, <1>10, <1>11, TellInv

LEMMA EndThreadInv ==
  ASSUME MirrorInv, NEW t \in ThreadIds, NEW a \in BOOLEAN, EndThread(t, a)
  PROVE  MirrorInv'
<1> DEFINE D == DOMAIN active \ {t}
<1>1. /\ member /\ t \in DOMAIN active /\ ServerOK /\ active' = [u \in D |-> active[u]]
      /\ UNCHANGED <<serving, member, chans, leftAway>>
  BY DEF EndThread, MirrorInv
<1>2. /\ ActiveThreads' = {u \in ActiveThreads : u.id \in D}
      /\ DOMAIN active' = D /\ D \in SUBSET ThreadIds /\ active' \in [D -> GuildChannelIds]
  BY <1>1, ThreadsLeft
<1>3. ServerOK'
  BY <1>1, <1>2 DEF ServerOK
<1>4. ActiveThreads' = {u \in ActiveThreads : u.id # t}
  BY <1>2, <1>1, ThreadsTyped
<1> HIDE DEF D
<1>5. \A m \in Nav : Truth(m) /\ serving \in {"outage", "away"} => Truth(m)'
  BY <1>1 DEF Truth
<1>6. PICK c \in GuildChannelIds : c = active[t]
  BY <1>1 DEF ServerOK
<1>7. CASE a
  <2> DEFINE th == [id |-> t, guild |-> TheGuild, parent |-> c, archived |-> TRUE]
             d == [t |-> "THREAD_UPDATE", thread |-> th]
             e == [kind |-> "ThreadUpdate", thread |-> th]
  <2>1. Tell(d)
    <3>1. AsThread([id |-> t, parent |-> active[t]], TRUE) = th
      BY <1>6 DEF AsThread
    <3>2. QED
      BY <1>7, <3>1 DEF EndThread
  <2>2. th \in Thread /\ th.guild = TheGuild /\ th.archived /\ th.id = t
    BY OneGuild DEF Thread, ParentIds
  <2> HIDE DEF th
  <2>3. EventOK(e) /\ ~IsReset(e) /\ EventsOf(d, Absent) = <<e>>
    BY <2>2, GuildEvents, ThreadDispatches
  <2>4. e.kind = "ThreadUpdate" /\ e.kind \in {"ThreadCreate", "ThreadUpdate"} /\ e.thread = th
    OBVIOUS
  <2> HIDE DEF d, e
  <2>5. \A n : n = Mirrored(FALSE, chans, ActiveThreads)
                 => Effect(e, n) = Mirrored(FALSE, chans, {u \in ActiveThreads : u.id # t})
    <3>1. \A n : n.known => Effect(e, n) = Mirrored(n.down, n.chans, ButThread(n.threads, th.id))
      <4>1. e.thread.archived
        BY <2>2, <2>4
      <4>2. QED
        BY <2>4, <4>1, ArchivedEffect
    <3>2. ButThread(ActiveThreads, th.id) = {u \in ActiveThreads : u.id # t}
      BY <2>2 DEF ButThread
    <3>3. \A n : n = Mirrored(FALSE, chans, ActiveThreads)
                   => n.known /\ n.down = FALSE /\ n.chans = chans /\ n.threads = ActiveThreads
      BY DEF Mirrored
    <3>4. QED
      BY <3>1, <3>2, <3>3
  <2>6. \A m, k \in Nav : Truth(m) /\ serving = "live" /\ k = Effect(e, m) => Truth(k)'
    BY <1>1, <1>4, <2>5 DEF Truth
  <2>7. QED
    BY <1>3, <1>5, <2>1, <2>3, <2>4, <2>6, TellInv
<1>8. CASE ~a
  <2> DEFINE d == [t |-> "THREAD_DELETE", guild |-> TheGuild, id |-> t]
             e == [kind |-> "ThreadDelete", guild |-> TheGuild, id |-> t]
  <2>1. Tell(d)
    BY <1>8 DEF EndThread
  <2>2. EventOK(e) /\ ~IsReset(e) /\ EventsOf(d, Absent) = <<e>>
    BY GuildEvents, ThreadDispatches
  <2>3. e.kind = "ThreadDelete" /\ e.id = t
    OBVIOUS
  <2> HIDE DEF d, e
  <2>4. \A n : n = Mirrored(FALSE, chans, ActiveThreads)
                 => Effect(e, n) = Mirrored(FALSE, chans, {u \in ActiveThreads : u.id # t})
    BY <2>3 DEF Effect, Changed, Mirrored
  <2>5. \A m, k \in Nav : Truth(m) /\ serving = "live" /\ k = Effect(e, m) => Truth(k)'
    BY <1>1, <1>4, <2>4 DEF Truth
  <2>6. QED
    BY <1>3, <1>5, <2>1, <2>2, <2>3, <2>5, TellInv
<1>9. QED
  BY <1>7, <1>8

LEMMA SyncThreadsInv ==
  ASSUME MirrorInv, NEW scope \in Scopes, SyncThreads(scope)
  PROVE  MirrorInv'
<1> DEFINE P == {u \in ActiveThreads : InScope(u, scope)}
<1>1. member /\ serving = "live" /\ ServerOK /\ UNCHANGED guildVars
  BY DEF SyncThreads, MirrorInv
<1>2. ServerOK' /\ \A m \in Nav : Truth(m) => Truth(m)'
  BY <1>1, UnmovedServer
<1>3. /\ ListOf(ListingOf(P)) \in ThreadLists /\ Items(ListOf(ListingOf(P))) = ListingOf(P)
      /\ ListingOf(P) \in Listings
      /\ ListedThreads(ListOf(ListingOf(P))) = P
      /\ \A t \in P : \E u \in ListingOf(P) : u.id = t.id
  <2>1. P \in SUBSET ActiveThreads
    OBVIOUS
  <2> HIDE DEF P
  <2>2. QED
    BY <1>1, <2>1, ListedAsCached
<1>4. PICK l \in ThreadLists : l = ListOf(ListingOf(P))
  BY <1>3
<1> DEFINE d == [t |-> "THREAD_LIST_SYNC", guild |-> TheGuild, scope |-> scope, threads |-> l]
           e == [kind |-> "ThreadListSync", guild |-> TheGuild, scope |-> scope, threads |-> l]
<1>5. Tell(d)
  BY <1>4 DEF SyncThreads, ListingOf
<1>6. EventOK(e) /\ ~IsReset(e)
  BY <1>3, <1>4 DEF EventOK, GuildEventOK, IsReset
<1>7. EventsOf(d, Absent) = <<e>>
  BY ThreadDispatches
<1>8. e.kind = "ThreadListSync" /\ e.scope = scope /\ e.threads = l
  OBVIOUS
<1> HIDE DEF d, e
<1>9. \A n : n = Mirrored(FALSE, chans, ActiveThreads) => Effect(e, n) = n
  <2> DEFINE T == {t \in ActiveThreads : ~InScope(t, scope) /\ \A u \in Items(l) : u.id # t.id}
                    \cup ListedThreads(l)
  <2>1. \A u \in Items(l) : \E t \in P : u.id = t.id
    BY <1>3, <1>4 DEF ListingOf, AsThread
  <2>2. \A u \in Items(l), t \in ActiveThreads : ~InScope(t, scope) => u.id # t.id
    <3>1. \A t, u \in ActiveThreads : t.id = u.id => t = u
      BY <1>1, ThreadsTyped DEF OneEach
    <3>2. QED
      BY <2>1, <3>1
  <2>3. T = ActiveThreads
    BY <1>3, <1>4, <2>2
  <2>4. \A n : n = Mirrored(FALSE, chans, ActiveThreads) => Effect(e, n) = Mirrored(FALSE, chans, T)
    BY <1>8 DEF Effect, Changed, Mirrored
  <2> HIDE DEF T
  <2>5. QED
    BY <2>3, <2>4
<1>10. \A m, k \in Nav : Truth(m) /\ serving = "live" /\ k = Effect(e, m) => Truth(k)'
  <2>1. ASSUME NEW m \in Nav, NEW k \in Nav, Truth(m), k = Effect(e, m)
        PROVE  Truth(k)'
    <3>1. m = k
      BY <1>1, <1>9, <2>1 DEF Truth
    <3>2. QED
      BY <1>2, <2>1, <3>1
  <2>2. QED
    BY <2>1
<1>11. QED
  BY <1>2, <1>5, <1>6, <1>7, <1>8, <1>10, TellInv

LEMMA TalkInv ==
  ASSUME MirrorInv, NEW c \in GuildChannelIds \cup ThreadIds, Talk(c)
  PROVE  MirrorInv'
<1>1. /\ member /\ serving = "live" /\ c \in chans \cup DOMAIN active /\ ServerOK
      /\ UNCHANGED guildVars
  BY DEF Talk, MirrorInv
<1>2. ServerOK' /\ \A m \in Nav : Truth(m) => Truth(m)'
  BY <1>1, UnmovedServer
<1>3. PICK d \in {Posted(c), Edited(c), Deleted(c), BulkDeleted(c)} : Tell(d)
  BY DEF Talk, Posted, Edited, Deleted, BulkDeleted
<1>4. CASE EventsOf(d, Absent) = << >>
  BY <1>2, <1>3, <1>4, UntoldInv
<1>5. CASE EventsOf(d, Absent) # << >>
  <2>1. PICK e \in MessagesOf(c) : EventsOf(d, Absent) = <<e>>
    BY <1>5, MessageDispatches
  <2>2. e.kind \in {"Message", "MessageUpdate", "MessageDelete"} /\ e.channel = c
    BY DEF MessagesOf
  <2>3. EventOK(e)
    <3>1. c \in ChannelIds
      BY FrontendAssumption
    <3>2. TheMessage \in Message
      BY MirrorAssumption
    <3>3. /\ TheMessage.id \in MsgIds
          /\ [id |-> TheMessage.id, body |-> TheMessage.body] \in Message
      BY <3>2 DEF Message
    <3>4. QED
      BY <3>1, <3>3 DEF EventOK, MessageEventOK, MessagesOf
  <2>4. ~IsReset(e)
    BY <2>2 DEF IsReset
  <2>5. \A m : Effect(e, m) = m
    BY <2>2 DEF Effect, Changed
  <2>6. \A m \in Nav : Truth(m) => c \in NavIds(m)
    <3>1. c \in chans \cup {t.id : t \in ActiveThreads}
      <4>1. ASSUME c \in DOMAIN active PROVE c \in {t.id : t \in ActiveThreads}
        <5>1. [id |-> c, parent |-> active[c]] \in ActiveThreads
          BY <4>1 DEF ActiveThreads
        <5>2. [id |-> c, parent |-> active[c]].id = c
          OBVIOUS
        <5>3. QED
          BY <5>1, <5>2
      <4>2. QED
        BY <1>1, <4>1
    <3>2. NavIds(Mirrored(FALSE, chans, ActiveThreads)) = chans \cup {t.id : t \in ActiveThreads}
      BY DEF NavIds, Mirrored
    <3>3. QED
      BY <1>1, <3>1, <3>2 DEF Truth
  <2>7. \A m, k \in Nav : Truth(m) /\ serving = "live" /\ k = Effect(e, m) => Truth(k)'
    BY <1>2, <2>5
  <2>8. QED
    BY <1>2, <1>3, <2>1, <2>2, <2>3, <2>4, <2>6, <2>7, TellInv
<1>6. QED
  BY <1>4, <1>5
----------------------------------------------------------------------------
(* The server: the guild and the session                                   *)

LEMMA RenameInv ==
  ASSUME MirrorInv, Rename
  PROVE  MirrorInv'
<1>1. serving = "live" /\ ServerOK /\ UNCHANGED guildVars
  BY DEF Rename, MirrorInv
<1>2. ServerOK' /\ \A m \in Nav : Truth(m) => Truth(m)'
  BY <1>1, UnmovedServer
<1>3. CASE Tell([t |-> "GUILD_UPDATE", guild |-> TheGuild, unavailable |-> Absent])
  <2> DEFINE e == [kind |-> "GuildUpdate", guild |-> TheGuild, unavailable |-> Absent]
  <2>1. EventOK(e) /\ ~IsReset(e) /\ e.kind # "Message"
    BY DEF EventOK, GuildEventOK, IsReset
  <2>2. \A m : Effect(e, m) = m
    BY DEF Effect, Changed
  <2> HIDE DEF e
  <2>3. \A m, k \in Nav : Truth(m) /\ serving = "live" /\ k = Effect(e, m) => Truth(k)'
    BY <1>2, <2>2
  <2>4. EventsOf([t |-> "GUILD_UPDATE", guild |-> TheGuild, unavailable |-> Absent], Absent) = <<e>>
    BY GuildDispatches DEF e
  <2>5. QED
    BY <1>2, <1>3, <2>1, <2>3, <2>4, TellInv
<1>4. CASE Tell([t |-> "USER_UPDATE", user |-> Malformed])
  BY <1>2, <1>4, GuildDispatches, UntoldInv
<1>5. CASE Tell([t |-> "RESUMED"])
  <2> DEFINE e == [kind |-> "GatewayResumed"]
  <2>1. EventOK(e) /\ ~IsReset(e) /\ e.kind # "Message"
    BY DEF EventOK, IsReset
  <2>2. \A m : Effect(e, m) = m
    BY DEF Effect, Changed
  <2> HIDE DEF e
  <2>3. \A m, k \in Nav : Truth(m) /\ serving = "live" /\ k = Effect(e, m) => Truth(k)'
    BY <1>2, <2>2
  <2>4. EventsOf([t |-> "RESUMED"], Absent) = <<e>>
    BY GuildDispatches DEF e
  <2>5. QED
    BY <1>2, <1>5, <2>1, <2>3, <2>4, TellInv
<1>6. QED
  BY <1>3, <1>4, <1>5 DEF Rename

\* A snapshot is dispatched of a guild that is served from now on.
LEMMA SnapshotInv ==
  ASSUME MirrorInv, ReadDispatch(Snapshot(FALSE)), ServerOK', member', UNCHANGED <<chans, active>>
  PROVE  MirrorInv'
<1> DEFINE n == Mirrored(FALSE, chans, ActiveThreads)
           es == <<FullSnapshot, FullSync>>
<1>1. ServerOK
  BY DEF MirrorInv
<1>2. PICK d : d = Snapshot(FALSE)
  OBVIOUS
<1>3. PICK q : q = es
  OBVIOUS
<1>4. EventsOf(d, Absent) = q
  BY <1>1, <1>2, <1>3, SnapshotDispatches
<1>5. PICK k \in Nav : k = n
  <2>1. Nowhere \in Nav
    BY DEF Nowhere, Nav
  <2>2. QED
    BY <1>1, <2>1, SnapshotLeads
<1>6. Truth(k)'
  BY <1>5 DEF Truth, ActiveThreads
<1>7. AllOK(q) /\ Paired(q) /\ \A m \in Nav : Leads(q, m, k)
  BY <1>1, <1>3, <1>5, SnapshotLeads
<1> HIDE DEF es, n
<1>8. \A m \in Nav : Truth(m) => \E j \in Nav : Leads(q, m, j) /\ Truth(j)'
  BY <1>6, <1>7
<1>9. ReadDispatch(d)
  BY <1>2
<1>10. QED
  BY <1>4, <1>7, <1>8, <1>9, DispatchInv

LEMMA JoinInv ==
  ASSUME MirrorInv, Join
  PROVE  MirrorInv'
<1>1. /\ member' /\ ~leftAway' /\ serving = "live" /\ UNCHANGED <<serving, chans, active>>
      /\ ReadDispatch(Snapshot(FALSE)) /\ ServerOK
  BY DEF Join, Tell, MirrorInv
<1>2. ServerOK' /\ member'
  BY <1>1 DEF Join, ServerOK
<1>3. QED
  BY <1>1, <1>2, SnapshotInv

LEMMA LeaveInv ==
  ASSUME MirrorInv, Leave
  PROVE  MirrorInv'
<1> DEFINE d == [t |-> "GUILD_DELETE", guild |-> TheGuild, unavailable |-> FALSE]
           e == [kind |-> "GuildDelete", guild |-> TheGuild, unavailable |-> FALSE]
<1>1. /\ member /\ member' = FALSE /\ serving # "outage" /\ leftAway' = (serving = "away")
      /\ Tell(d) /\ ServerOK /\ UNCHANGED <<serving, chans, active>>
  BY DEF Leave, MirrorInv
<1>2. serving \in {"live", "away"}
  BY <1>1 DEF Tell
<1>3. leftAway' \in BOOLEAN /\ member' \in BOOLEAN
  BY <1>1
<1>4. ServerOK'
  BY <1>1, <1>2, <1>3 DEF ServerOK
<1>5. EventOK(e) /\ ~IsReset(e) /\ e.kind # "Message"
  BY DEF EventOK, GuildEventOK, IsReset
<1>6. EventsOf(d, Absent) = <<e>>
  BY GuildDispatches
<1>7. \A m : m = Mirrored(FALSE, chans, ActiveThreads) => Effect(e, m) = Nowhere
  BY DEF Effect, Changed, Mirrored
<1> HIDE DEF d, e
<1>8. \A m, k \in Nav : Truth(m) /\ serving = "live" /\ k = Effect(e, m) => Truth(k)'
  BY <1>1, <1>7 DEF Truth
<1>9. \A m \in Nav : Truth(m) /\ serving \in {"outage", "away"} => Truth(m)'
  BY <1>1 DEF Truth
<1>10. QED
  BY <1>1, <1>4, <1>5, <1>6, <1>8, <1>9, TellInv

\* A dispatch of one event, of a guild of which nothing is told then.
LEMMA QuietInv ==
  ASSUME MirrorInv, NEW d, ReadDispatch(d), ServerOK', ~(serving = "live" /\ member)', member',
         NEW e, EventOK(e), ~IsReset(e), e.kind # "Message", EventsOf(d, Absent) = <<e>>
  PROVE  MirrorInv'
<1>1. AllOK(<<e>>) /\ Paired(<<e>>)
  BY OneOK
<1>2. \A m \in Nav : Truth(m) => \E k \in Nav : Leads(<<e>>, m, k) /\ Truth(k)'
  <2>1. \A k : Truth(k)'
    BY DEF Truth
  <2>2. QED
    BY <2>1, LeadsOne
<1>3. QED
  BY <1>1, <1>2, DispatchInv

LEMMA OutageInv ==
  ASSUME MirrorInv, Outage
  PROVE  MirrorInv'
<1> DEFINE d == [t |-> "GUILD_DELETE", guild |-> TheGuild, unavailable |-> TRUE]
           e == [kind |-> "GuildDelete", guild |-> TheGuild, unavailable |-> TRUE]
<1>1. /\ member /\ serving' = "outage" /\ ReadDispatch(d) /\ ServerOK
      /\ UNCHANGED <<member, chans, active, leftAway>>
  BY DEF Outage, MirrorInv
<1>2. ServerOK' /\ member' /\ ~(serving = "live" /\ member)'
  BY <1>1 DEF ServerOK
<1>3. EventOK(e) /\ ~IsReset(e) /\ e.kind # "Message"
  BY DEF EventOK, GuildEventOK, IsReset
<1>4. EventsOf(d, Absent) = <<e>>
  BY GuildDispatches
<1> HIDE DEF d, e
<1>5. QED
  BY <1>1, <1>2, <1>3, <1>4, QuietInv

LEMMA LoseSessionInv ==
  ASSUME MirrorInv, LoseSession
  PROVE  MirrorInv'
<1>1. /\ serving' = "away" /\ UNCHANGED <<member, chans, active, leftAway>> /\ ServerOK
      /\ UNCHANGED <<outbox, lost, busVars, vars>>
  BY DEF LoseSession, MirrorInv
<1>2. ServerOK'
  BY <1>1 DEF ServerOK
<1>3. \A m \in Nav : Truth(m) => Truth(m)'
  BY <1>1 DEF Truth
<1>4. QED
  BY <1>1, <1>2, <1>3, SilentInv

LEMMA IdentifiedInv ==
  ASSUME MirrorInv, Identified
  PROVE  MirrorInv'
<1> DEFINE d == [t |-> "READY", user |-> Malformed]
           e == [kind |-> "GatewayReady"]
<1>1. /\ serving = "away" /\ serving' = (IF member THEN "ready" ELSE "live")
      /\ ReadDispatch(d) /\ ServerOK /\ UNCHANGED <<member, chans, active, leftAway>>
  BY DEF Identified, MirrorInv
<1>2. ServerOK'
  BY <1>1 DEF ServerOK
<1>3. EventOK(e) /\ ~IsReset(e) /\ e.kind # "Message"
  BY DEF EventOK, IsReset
<1>4. EventsOf(d, Absent) = <<e>>
  BY GuildDispatches
<1>5. \A m : Effect(e, m) = m
  BY DEF Effect, Changed
<1> HIDE DEF d, e
<1>6. AllOK(<<e>>) /\ Paired(<<e>>)
  BY <1>3, OneOK
<1>7. \A m \in Nav : Truth(m) => \E k \in Nav : Leads(<<e>>, m, k) /\ Truth(k)'
  <2>1. \A m \in Nav : Truth(m) => Truth(m)'
    BY <1>1 DEF Truth
  <2>2. \A m \in Nav : Leads(<<e>>, m, m)
    BY <1>3, <1>5, LeadsOne
  <2>3. QED
    BY <2>1, <2>2
<1>8. QED
  BY <1>1, <1>2, <1>4, <1>6, <1>7, DispatchInv

LEMMA ServedInv ==
  ASSUME MirrorInv, Served
  PROVE  MirrorInv'
<1>1. ServerOK /\ UNCHANGED <<member, chans, active, leftAway>>
  BY DEF Served, MirrorInv
<1>2. serving \in {"ready", "outage"} /\ member
  BY <1>1 DEF Served, ServerOK
<1>3. serving' \in {"live", "outage"}
  BY DEF Served
<1>4. ServerOK' /\ member'
  BY <1>1, <1>2, <1>3 DEF ServerOK
<1>5. CASE serving' = "live" /\ ReadDispatch(Snapshot(FALSE))
  BY <1>1, <1>4, <1>5, SnapshotInv
<1>6. CASE serving' = "outage" /\ ReadDispatch(Snapshot(TRUE))
  <2> DEFINE e == [kind |-> "GuildCreate", guild |-> TheGuild, unavailable |-> TRUE,
                   channels |-> << >>]
  <2>1. << >> \in Snapshots
    <3>1. ChannelList({}) \in Snapshots /\ Items(ChannelList({})) = {}
      BY MirrorAssumption
    <3>2. ChannelList({}) \in Seq(GuildChannelIds)
      BY <3>1, TopologyAssumption
    <3>3. \A s \in Seq(GuildChannelIds) : Items(s) = {} => s = << >>
      <4>1. ASSUME NEW s \in Seq(GuildChannelIds), s # << >> PROVE s[1] \in Items(s)
        BY <4>1 DEF Items
      <4>2. QED
        BY <4>1
    <3>4. QED
      BY <3>1, <3>2, <3>3
  <2>2. EventOK(e) /\ ~IsReset(e) /\ e.kind # "Message"
    BY <2>1 DEF EventOK, GuildEventOK, IsReset
  <2>3. EventsOf(Snapshot(TRUE), Absent) = <<e>>
    BY <1>1, SnapshotDispatches
  <2> HIDE DEF e
  <2>4. ~(serving = "live" /\ member)'
    BY <1>6
  <2>5. QED
    BY <1>4, <1>6, <2>2, <2>3, <2>4, QuietInv
<1>7. QED
  BY <1>5, <1>6 DEF Served
----------------------------------------------------------------------------
(* The specification                                                       *)

LEMMA InitMirrorInv == MirrorInit => MirrorInv
<1> SUFFICES ASSUME MirrorInit PROVE MirrorInv
  OBVIOUS
<1>1. FrontendInv
  BY FrontendStart DEF MirrorInit
<1>2. /\ guilds = << >> /\ channels = << >> /\ outbox = << >> /\ lost = "no"
      /\ serving = "live" /\ member = FALSE /\ leftAway = FALSE
      /\ chans \in SUBSET GuildChannelIds /\ active = << >>
      /\ unread = [r \in Receivers |-> << >>] /\ missed = [r \in Receivers |-> FALSE]
      /\ lagged = [r \in Receivers |-> FALSE]
  BY DEF MirrorInit, Init, TopologyInit, TimelinesInit, BusInit
<1>3. "gateway" \in Receivers
  BY MirrorAssumption
<1>4. unread["gateway"] = << >> /\ Underway = << >> /\ Len(<< >>) = 0
  BY <1>2, <1>3 DEF Underway
<1>5. ServerOK
  <2>1. DOMAIN << >> = {} /\ << >> \in [{} -> GuildChannelIds]
    OBVIOUS
  <2>2. QED
    BY <1>2, <2>1 DEF ServerOK
<1>6. BusOK
  BY <1>2, <1>3, <1>4, NoneOK, BusAssumption DEF BusOK
<1>7. Paired(Underway)
  BY <1>4, NoneOK
<1>8. Shown = Nowhere /\ Nowhere \in Nav
  <2>1. ~Known(TheGuild)
    BY <1>2 DEF Known
  <2>2. QED
    BY <2>1 DEF Shown, Nowhere, Nav
<1>9. Chain
  <2>1. Leads(Underway, Nowhere, Nowhere)
    BY <1>4, <1>8, LeadsNone
  <2>2. Truth(Nowhere)
    BY <1>2 DEF Truth
  <2>3. Starts(Nowhere)
    BY <1>2, <1>8 DEF Starts
  <2>4. QED
    BY <1>8, <2>1, <2>2, <2>3 DEF Chain
<1>10. Sound
  BY <1>2 DEF Sound, Tidy
<1>11. QED
  BY <1>1, <1>5, <1>6, <1>7, <1>9, <1>10 DEF MirrorInv

LEMMA NextMirrorInv == MirrorInv /\ [MirrorNext]_mirrorVars => MirrorInv'
<1> SUFFICES ASSUME MirrorInv, [MirrorNext]_mirrorVars PROVE MirrorInv'
  OBVIOUS
<1>1. CASE Client
  BY <1>1, SendInv, DrainInv, SkipInv DEF Client
<1>2. CASE \E c \in GuildChannelIds : MakeChannel(c) \/ EditChannel(c) \/ RemoveChannel(c)
  BY <1>2, MakeChannelInv, EditChannelInv, RemoveChannelInv
<1>3. CASE \E t \in ThreadIds, c \in GuildChannelIds, how \in {"THREAD_CREATE", "THREAD_UPDATE"} :
             StartThread(t, c, how)
  BY <1>3, StartThreadInv
<1>4. CASE \E t \in ThreadIds, a \in BOOLEAN : EndThread(t, a)
  BY <1>4, EndThreadInv
<1>5. CASE \E scope \in Scopes : SyncThreads(scope)
  BY <1>5, SyncThreadsInv
<1>6. CASE \E c \in GuildChannelIds \cup ThreadIds : Talk(c)
  BY <1>6, TalkInv
<1>7. CASE Rename \/ Join \/ Leave \/ Outage \/ LoseSession \/ Identified \/ Served
  BY <1>7, RenameInv, JoinInv, LeaveInv, OutageInv, LoseSessionInv, IdentifiedInv, ServedInv
<1>8. CASE UNCHANGED mirrorVars
  <2>1. UNCHANGED guildVars /\ UNCHANGED <<outbox, lost, busVars, vars>> /\ ServerOK
    BY <1>8 DEF mirrorVars, MirrorInv
  <2>2. ServerOK' /\ \A m \in Nav : Truth(m) => Truth(m)'
    BY <2>1, UnmovedServer
  <2>3. QED
    BY <2>1, <2>2, SilentInv
<1>9. QED
  BY <1>1, <1>2, <1>3, <1>4, <1>5, <1>6, <1>7, <1>8 DEF MirrorNext, Server

\* The events on their way always lead, one after the other, from what navigation shows
\* to what the server has told (run_connection, emit and drain_gateway), or will once a
\* whole snapshot is read; only a receiver that was overtaken can have it otherwise.
THEOREM MirrorInvAlways == MirrorSpec => []MirrorInv
BY InitMirrorInv, NextMirrorInv, PTL DEF MirrorSpec

\* What the invariant says once every event that was sent is applied.
LEMMA SettledShows ==
  ASSUME MirrorInv, Settled
  PROVE  /\ lost = "no" => Truth(Shown)
         /\ ~lagged["gateway"] => lost = "no" /\ Tidy
         /\ (Shown.known <=> Known(TheGuild)) /\ NavIds(Shown) = ActiveIds
<1>1. Underway = << >> /\ ~missed["gateway"]
  BY DEF Settled, Underway
<1>2. PICK n \in Nav, m \in Nav : Leads(Underway, n, m) /\ Truth(m) /\ Starts(n)
  BY DEF MirrorInv, Chain
<1>3. n = m
  BY <1>1, <1>2, LeadsNone
<1>4. lost = "no" => Truth(Shown)
  BY <1>1, <1>2, <1>3 DEF Starts
<1>5. TopologyBounded
  BY DEF MirrorInv, FrontendInv
<1>6. QED
  BY <1>1, <1>4, <1>5, ShownType DEF MirrorInv, Sound

\* Once the bus is read navigation shows exactly the guild's channels and active threads,
\* for any guild that fits the bounds, any capacity of the bus and any way it is
\* overtaken, as long as a loss is followed by a whole snapshot (apply).
THEOREM NavigationAlways == MirrorSpec => []NavigationConverges
<1>1. ASSUME MirrorInv PROVE NavigationConverges
  <2>1. ASSUME Settled, lost = "no", member
        PROVE  /\ Known(TheGuild) /\ ~guilds[TheGuild].unavailable
               /\ Items(ChannelsOf(TheGuild)) = chans
               /\ Items(ThreadsOf(TheGuild)) = ActiveThreads
    <3>1. Shown = Mirrored(FALSE, chans, ActiveThreads) /\ (Shown.known <=> Known(TheGuild))
      BY <1>1, <2>1, SettledShows DEF Truth, Settled
    <3>2. Known(TheGuild)
      BY <3>1 DEF Mirrored
    <3>3. /\ Shown.down = guilds[TheGuild].unavailable
          /\ Shown.chans = Items(ChannelsOf(TheGuild))
          /\ Shown.threads = Items(ThreadsOf(TheGuild))
      BY <3>2 DEF Shown, Mirrored
    <3>4. Shown.down = FALSE /\ Shown.chans = chans /\ Shown.threads = ActiveThreads
      BY <3>1 DEF Mirrored
    <3>5. QED
      BY <3>2, <3>3, <3>4
  <2>2. QED
    BY <2>1 DEF NavigationConverges
<1>2. QED
  BY <1>1, MirrorInvAlways, PTL

\* A guild the client was removed from is gone from navigation once the bus is read
\* (GUILD_DELETE), unless the removal fell between two sessions.
THEOREM NoForeignAlways == MirrorSpec => []NoForeignGuild
<1>1. ASSUME MirrorInv PROVE NoForeignGuild
  <2>1. ASSUME Settled, lost = "no", ~member, ~leftAway
        PROVE  ~Known(TheGuild)
    <3>1. Shown = Nowhere /\ (Shown.known <=> Known(TheGuild))
      BY <1>1, <2>1, SettledShows DEF Truth
    <3>2. QED
      BY <3>1 DEF Nowhere
  <2>2. QED
    BY <2>1 DEF NoForeignGuild
<1>2. QED
  BY <1>1, MirrorInvAlways, PTL

\* The message cache keeps no timeline of a channel or thread that is gone, as long as
\* the receiver was never overtaken (apply_topology_update and the retirement of the
\* ids it returns).
THEOREM NoGhostAlways == MirrorSpec => []NoGhostTimelines
<1>1. ASSUME MirrorInv PROVE NoGhostTimelines
  <2>1. ASSUME Settled, ~lagged["gateway"], ~leftAway
        PROVE  DOMAIN channels \subseteq IF member THEN chans \cup DOMAIN active ELSE {}
    <3>1. Tidy /\ Truth(Shown) /\ NavIds(Shown) = ActiveIds
      BY <1>1, <2>1, SettledShows
    <3>2. DOMAIN channels \subseteq NavIds(Shown)
      BY <3>1 DEF Tidy
    <3>3. CASE member
      <4>1. Shown = Mirrored(FALSE, chans, ActiveThreads)
        BY <2>1, <3>1, <3>3 DEF Truth, Settled
      <4>2. NavIds(Shown) = chans \cup {t.id : t \in ActiveThreads}
        BY <4>1 DEF NavIds, Mirrored
      <4>3. \A t \in ActiveThreads : t.id \in DOMAIN active
        BY <1>1, ThreadsTyped DEF MirrorInv
      <4>4. QED
        BY <3>2, <3>3, <4>2, <4>3
    <3>4. CASE ~member
      <4>1. Shown = Nowhere
        BY <2>1, <3>1, <3>4 DEF Truth
      <4>2. NavIds(Shown) = {}
        BY <4>1 DEF NavIds, Nowhere
      <4>3. QED
        BY <3>2, <3>4, <4>2
    <3>5. QED
      BY <3>3, <3>4, <1>1 DEF MirrorInv, ServerOK
  <2>2. QED
    BY <2>1 DEF NoGhostTimelines
<1>2. QED
  BY <1>1, MirrorInvAlways, PTL
=============================================================================
