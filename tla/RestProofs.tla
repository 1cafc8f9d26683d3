----------------------------- MODULE RestProofs -----------------------------
(***************************************************************************)
(* The REST worker with the pager and any number of other threads on it    *)
(* implements the service of RestService, for every capacity, every budget *)
(* of retries and every width of the request ids (src/src/rest.rs).        *)
(***************************************************************************)
EXTENDS HistoryPager, VectorProofs

USE RestAssumption

\* No request id is zero.
Command == [id : 1..IdSpace - 1, number : Nat, channel : Channels \cup {NoChannel}, by : Nat]

\* The line: the command in hand, then the queue.
Line == current \o queue

\* The worker has a command in hand exactly while it waits for the rate limit or
\* the response; when it is gone it leaves no line behind.
LineInv ==
  /\ counter \in 0..IdSpace - 1 /\ taken \in Nat /\ selection \in Nat
  /\ selected \in Channels \cup {NoChannel}
  /\ held \subseteq Command
  /\ queue \in Seq(Command) /\ Len(queue) <= QueueCapacity
  /\ at \in {"recv", "hold", "response", "gone"}
  /\ current \in Seq(Command)
  /\ Len(current) = (IF at \in {"hold", "response"} THEN 1 ELSE 0)
  /\ at = "gone" => queue = << >>
----------------------------------------------------------------------------
(* Lines of commands                                                       *)

LEMMA NumbersType ==
  ASSUME NEW s \in Seq(Command)
  PROVE  /\ Numbers(s) \in Seq(Nat) /\ Len(Numbers(s)) = Len(s) /\ Len(s) \in Nat
         /\ \A i \in 1..Len(s) : Numbers(s)[i] = s[i].number
<1>1. DOMAIN s = 1..Len(s) /\ Len(s) \in Nat
  BY LenProperties
<1>2. \A i \in 1..Len(s) : s[i].number \in Nat
  <2> SUFFICES ASSUME NEW i \in 1..Len(s) PROVE s[i].number \in Nat
    OBVIOUS
  <2>1. s[i] \in Command
    BY ElementOfSeq
  <2>2. QED
    BY <2>1 DEF Command
<1>3. Numbers(s) = [i \in 1..Len(s) |-> s[i].number]
  BY <1>1 DEF Numbers
<1>4. QED
  BY <1>1, <1>2, <1>3

LEMMA NumbersOfAppend ==
  ASSUME NEW s \in Seq(Command), NEW c \in Command
  PROVE  Numbers(Append(s, c)) = Append(Numbers(s), c.number)
<1>1. c.number \in Nat
  BY DEF Command
<1>2. /\ Append(s, c) \in Seq(Command) /\ Len(Append(s, c)) = Len(s) + 1
      /\ \A i \in 1..Len(s) : Append(s, c)[i] = s[i]
      /\ Append(s, c)[Len(s) + 1] = c
  BY AppendProperties
<1>3. /\ Numbers(s) \in Seq(Nat) /\ Len(Numbers(s)) = Len(s) /\ Len(s) \in Nat
      /\ \A i \in 1..Len(s) : Numbers(s)[i] = s[i].number
  BY NumbersType
<1>4. /\ Append(Numbers(s), c.number) \in Seq(Nat)
      /\ Len(Append(Numbers(s), c.number)) = Len(s) + 1
      /\ \A i \in 1..Len(s) : Append(Numbers(s), c.number)[i] = Numbers(s)[i]
      /\ Append(Numbers(s), c.number)[Len(s) + 1] = c.number
  BY <1>1, <1>3, AppendProperties
<1>5. /\ Numbers(Append(s, c)) \in Seq(Nat) /\ Len(Numbers(Append(s, c))) = Len(s) + 1
      /\ \A i \in 1..Len(s) + 1 : Numbers(Append(s, c))[i] = Append(s, c)[i].number
  BY <1>2, NumbersType
<1>6. \A i \in 1..Len(s) + 1 : Numbers(Append(s, c))[i] = Append(Numbers(s), c.number)[i]
  <2> SUFFICES ASSUME NEW i \in 1..Len(s) + 1
               PROVE  Numbers(Append(s, c))[i] = Append(Numbers(s), c.number)[i]
    OBVIOUS
  <2>1. CASE i = Len(s) + 1
    BY <1>2, <1>4, <1>5, <2>1
  <2>2. CASE i \in 1..Len(s)
    BY <1>2, <1>3, <1>4, <1>5, <2>2
  <2>3. QED
    BY <1>3, <2>1, <2>2
<1>7. QED
  BY <1>4, <1>5, <1>6, SeqEqual

LEMMA NumbersOfTail ==
  ASSUME NEW s \in Seq(Command), s # << >>
  PROVE  /\ Numbers(s) # << >>
         /\ Head(Numbers(s)) = s[1].number
         /\ Numbers(Tail(s)) = Tail(Numbers(s))
<1>1. Len(s) \in Nat \ {0}
  BY EmptySeq
<1>2. /\ Numbers(s) \in Seq(Nat) /\ Len(Numbers(s)) = Len(s)
      /\ \A i \in 1..Len(s) : Numbers(s)[i] = s[i].number
  BY NumbersType
<1>3. Numbers(s) # << >>
  BY <1>1, <1>2
<1>4. Head(Numbers(s)) = s[1].number
  BY <1>1, <1>2
<1>5. /\ Tail(s) \in Seq(Command) /\ Len(Tail(s)) = Len(s) - 1
      /\ \A i \in 1..Len(s) - 1 : Tail(s)[i] = s[i+1]
  BY HeadTailProperties
<1>6. /\ Tail(Numbers(s)) \in Seq(Nat) /\ Len(Tail(Numbers(s))) = Len(s) - 1
      /\ \A i \in 1..Len(s) - 1 : Tail(Numbers(s))[i] = Numbers(s)[i+1]
  BY <1>2, <1>3, HeadTailProperties
<1>7. /\ Numbers(Tail(s)) \in Seq(Nat) /\ Len(Numbers(Tail(s))) = Len(s) - 1
      /\ \A i \in 1..Len(s) - 1 : Numbers(Tail(s))[i] = Tail(s)[i].number
  BY <1>5, NumbersType
<1>8. \A i \in 1..Len(s) - 1 : Numbers(Tail(s))[i] = Tail(Numbers(s))[i]
  <2> SUFFICES ASSUME NEW i \in 1..Len(s) - 1
               PROVE  Numbers(Tail(s))[i] = Tail(Numbers(s))[i]
    OBVIOUS
  <2>1. i + 1 \in 1..Len(s)
    BY <1>1
  <2>2. QED
    BY <1>2, <1>5, <1>6, <1>7, <2>1
<1>9. Numbers(Tail(s)) = Tail(Numbers(s))
  BY <1>6, <1>7, <1>8, SeqEqual
<1>10. QED
  BY <1>3, <1>4, <1>9

\* A command that goes from the queue into the worker's hand keeps its turn.
LEMMA TakenInTurn ==
  ASSUME NEW q \in Seq(Command), q # << >>
  PROVE  <<Head(q)>> \o Tail(q) = << >> \o q
<1>1. Len(q) \in Nat \ {0}
  BY EmptySeq
<1>2. 1 \in 1..Len(q) /\ Len(q) \in 1..Len(q)
  BY <1>1
<1>3. SubSeq(q, 1, Len(q)) = <<q[1]>> \o SubSeq(q, 1+1, Len(q))
  BY <1>2, SubSeqRecursiveFirst
<1>4. SubSeq(q, 1, Len(q)) = q /\ Tail(q) = SubSeq(q, 2, Len(q)) /\ << >> \o q = q
  BY SubSeqFull, TailIsSubSeq, ConcatEmptySeq
<1>5. Head(q) = q[1]
  OBVIOUS
<1>6. QED
  BY <1>3, <1>4, <1>5

\* A command that is accepted comes last.
LEMMA EntersLast ==
  ASSUME NEW p \in Seq(Command), NEW q \in Seq(Command), NEW c \in Command
  PROVE  p \o Append(q, c) = Append(p \o q, c)
<1>1. <<c>> \in Seq(Command) /\ p \o q \in Seq(Command)
  BY ConcatProperties
<1>2. Append(q, c) = q \o <<c>> /\ Append(p \o q, c) = (p \o q) \o <<c>>
  BY <1>1, AppendIsConcat
<1>3. QED
  BY <1>1, <1>2, ConcatAssociative

\* The command in hand is the first of the line, and the queue is the rest.
LEMMA HandIsFirst ==
  ASSUME NEW p \in Seq(Command), Len(p) = 1, NEW q \in Seq(Command)
  PROVE  /\ p \o q \in Seq(Command) /\ p \o q # << >>
         /\ (p \o q)[1] = Head(p)
         /\ Tail(p \o q) = << >> \o q
<1>a. /\ p \o q \in Seq(Command) /\ Len(p \o q) = Len(p) + Len(q)
      /\ \A i \in 1..Len(p) + Len(q) :
           (p \o q)[i] = IF i <= Len(p) THEN p[i] ELSE q[i - Len(p)]
  BY ConcatProperties
<1>1. /\ p \o q \in Seq(Command) /\ Len(p \o q) = 1 + Len(q)
      /\ \A i \in 1..1 + Len(q) : (p \o q)[i] = IF i <= 1 THEN p[i] ELSE q[i - 1]
      /\ Len(q) \in Nat
  BY <1>a, LenProperties
<1>2. p \o q # << >>
  BY <1>1, EmptySeq
<1>3. (p \o q)[1] = Head(p)
  BY <1>1
<1>4. /\ Tail(p \o q) \in Seq(Command) /\ Len(Tail(p \o q)) = Len(q)
      /\ \A i \in 1..Len(q) : Tail(p \o q)[i] = (p \o q)[i+1]
  BY <1>1, <1>2, HeadTailProperties
<1>5. \A i \in 1..Len(q) : Tail(p \o q)[i] = q[i]
  <2> SUFFICES ASSUME NEW i \in 1..Len(q) PROVE Tail(p \o q)[i] = q[i]
    OBVIOUS
  <2>1. i + 1 \in 1..1 + Len(q) /\ ~(i + 1 <= 1) /\ (i + 1) - 1 = i
    BY <1>1
  <2>2. QED
    BY <1>1, <1>4, <2>1
<1>6. Tail(p \o q) = q
  BY <1>4, <1>5, SeqEqual
<1>7. QED
  BY <1>1, <1>2, <1>3, <1>6, ConcatEmptySeq
----------------------------------------------------------------------------
(* Steps                                                                   *)

vService == <<current, queue, published, at>>

\* What the service sees of a step that leaves line, answers and worker alone.
LEMMA Unseen ==
  ASSUME UNCHANGED vService
  PROVE  UNCHANGED Service!serviceVars
BY DEF vService, Service!serviceVars, Numbers

\* The ids of the handles stay in their range and are never zero.
LEMMA IdsInRange ==
  ASSUME LineInv
  PROVE  NextId.id \in 1..IdSpace - 1 /\ NextId.next \in 0..IdSpace - 1
<1> DEFINE id == IF counter = 0 THEN 1 ELSE counter
<1>1. id \in 1..IdSpace - 1
  BY DEF LineInv, RestAssumption
<1>2. (id + 1) % IdSpace \in 0..IdSpace - 1
  BY <1>1, SMT DEF RestAssumption
<1>3. QED
  BY <1>1, <1>2 DEF NextId

LEMMA NewCommandType ==
  ASSUME LineInv, NEW channel \in Channels \cup {NoChannel}, NEW by \in Nat
  PROVE  NewCommand(channel, by) \in Command
BY IdsInRange DEF LineInv, NewCommand, Command

\* An offered command is refused, or it enters the line behind all others.
LEMMA Offering ==
  ASSUME LineInv, NEW c \in Command, TrySend(c), UNCHANGED <<current, at, published>>
  PROVE  /\ queue' \in Seq(Command) /\ Len(queue') <= QueueCapacity
         /\ at = "gone" => queue' = << >>
         /\ Service!ServiceNext \/ UNCHANGED Service!serviceVars
<1>1. CASE ~Accepts
  BY <1>1, Unseen DEF TrySend, vService, LineInv
<1>2. CASE Accepts
  <2>1. queue' = Append(queue, c) /\ at # "gone" /\ Len(queue) < QueueCapacity
    BY <1>2 DEF TrySend, Accepts
  <2>2. queue' \in Seq(Command) /\ Len(queue') = Len(queue) + 1
    BY <2>1 DEF LineInv
  <2>3. Line \in Seq(Command) /\ Len(Line) < QueueCapacity + 1
    <3>1. /\ current \in Seq(Command) /\ queue \in Seq(Command)
          /\ Len(current) <= 1 /\ Len(current) \in Nat /\ Len(queue) \in Nat
      BY LenProperties DEF LineInv
    <3>2. Line \in Seq(Command) /\ Len(Line) = Len(current) + Len(queue)
      BY <3>1, ConcatProperties DEF Line
    <3>3. QED
      BY <2>1, <3>1, <3>2 DEF RestAssumption
  <2>4. Line' = Append(Line, c)
    BY <2>1, EntersLast DEF LineInv, Line
  <2>5. Numbers(Line)' = Append(Numbers(Line), c.number)
    BY <2>3, <2>4, NumbersOfAppend DEF Numbers
  <2>6. Numbers(Line) \in Seq(Nat) /\ Len(Numbers(Line)) = Len(Line) /\ c.number \in Nat
    BY <2>3, NumbersType DEF Command
  <2>7. /\ Len(Numbers(Line)') = Len(Numbers(Line)) + 1
        /\ SubSeq(Numbers(Line)', 1, Len(Numbers(Line))) = Numbers(Line)
    BY <2>5, <2>6
  <2>8. Service!Enter
    BY <2>1, <2>3, <2>6, <2>7 DEF Service!Enter, Line
  <2>9. QED
    BY <2>1, <2>2, <2>8 DEF Service!ServiceNext, LineInv
<1>3. QED
  BY <1>1, <1>2

\* What the worker does with a response: it is done with the command, or it
\* waits to send it again.
LEMMA AnswerIs ==
  ASSUME Answer
  PROVE  \/ \E ok \in BOOLEAN, short \in BOOLEAN, reset \in Delays \cup {0} :
              Finish(ok, short, reset)
         \/ \E delay \in Delays : Limited(delay)
BY DEF Answer, Respond, Unreadable

\* One step of the worker, of another thread or of the pager keeps LineInv and
\* is a step of the service or none.
LEMMA LineStep ==
  ASSUME LineInv, Next
  PROVE  LineInv' /\ (Service!ServiceNext \/ UNCHANGED Service!serviceVars)
<1>0. RestAssumption
  BY RestAssumption
<1>1. CASE Receive /\ PagerElse
  <2>1. /\ queue # << >> /\ current' = <<Head(queue)>> /\ queue' = Tail(queue)
        /\ at = "recv" /\ at' = "hold"
        /\ UNCHANGED <<counter, held, taken, published, selected, selection>>
    BY <1>1 DEF Receive, PagerElse, pagerVars, handleVars, ghostVars
  <2>2. current = << >>
    BY <2>1, EmptySeq DEF LineInv
  <2>3. Line' = Line
    BY <2>1, <2>2, TakenInTurn DEF LineInv, Line
  <2>4. Head(queue) \in Command /\ Tail(queue) \in Seq(Command)
        /\ Len(Tail(queue)) = Len(queue) - 1
    BY <2>1, HeadTailProperties DEF LineInv
  <2>5. LineInv'
    BY <2>1, <2>4 DEF LineInv
  <2>6. UNCHANGED Service!serviceVars
    BY <2>1, <2>3 DEF Service!serviceVars, Line, Numbers
  <2>7. QED
    BY <2>5, <2>6
<1>2. CASE SendOnce /\ PagerElse
  <2>1. /\ at = "hold" /\ at' = "response"
        /\ UNCHANGED <<counter, held, taken, selected, selection, queue, current, published>>
    BY <1>2 DEF SendOnce, PagerElse, pagerVars, handleVars, ghostVars
  <2>2. LineInv'
    BY <2>1 DEF LineInv
  <2>3. UNCHANGED Service!serviceVars
    BY <2>1 DEF Service!serviceVars, Numbers
  <2>4. QED
    BY <2>2, <2>3
<1>3. CASE Answer /\ PagerElse
  <2>1. ASSUME NEW ok \in BOOLEAN, NEW short \in BOOLEAN, NEW reset \in Delays \cup {0},
               Finish(ok, short, reset)
        PROVE  LineInv' /\ Service!Serve
    <3>1. /\ at = "response" /\ at' = "recv" /\ current' = << >>
          /\ published' = Append(published, Head(current).number)
          /\ UNCHANGED <<counter, held, taken, selected, selection, queue>>
      BY <1>3, <2>1 DEF Finish, Publish, Result, PagerElse, pagerVars, handleVars
    <3>2. current \in Seq(Command) /\ Len(current) = 1 /\ queue \in Seq(Command)
      BY <3>1 DEF LineInv
    <3>3. LineInv'
      BY <3>1 DEF LineInv
    <3>4. /\ Line \in Seq(Command) /\ Line # << >>
          /\ Line[1] = Head(current) /\ Tail(Line) = Line'
      BY <3>1, <3>2, HandIsFirst DEF Line
    <3>5. /\ Numbers(Line) # << >> /\ Head(Numbers(Line)) = Head(current).number
          /\ Numbers(Line)' = Tail(Numbers(Line))
      BY <3>4, NumbersOfTail DEF Numbers
    <3>6. Service!Serve
      BY <3>1, <3>5 DEF Service!Serve, Line
    <3>7. QED
      BY <3>3, <3>6
  <2>2. ASSUME NEW delay \in Delays, Limited(delay)
        PROVE  LineInv' /\ UNCHANGED Service!serviceVars
    <3>1. /\ at = "response" /\ at' = "hold"
          /\ UNCHANGED <<counter, held, taken, selected, selection, queue, current, published>>
      BY <1>3, <2>2 DEF Limited, PagerElse, pagerVars, handleVars, ghostVars
    <3>2. LineInv'
      BY <3>1 DEF LineInv
    <3>3. UNCHANGED Service!serviceVars
      BY <3>1 DEF Service!serviceVars, Numbers
    <3>4. QED
      BY <3>2, <3>3
  <2>3. QED
    BY <1>3, <2>1, <2>2, AnswerIs DEF Service!ServiceNext
<1>4. CASE Abort /\ PagerElse
  <2>1. /\ at # "gone" /\ at' = "gone" /\ queue' = << >> /\ current' = << >>
        /\ UNCHANGED <<counter, held, taken, selected, selection, published>>
    BY <1>4 DEF Abort, PagerElse, pagerVars, handleVars, ghostVars
  <2>2. LineInv'
    BY <2>1, <1>0 DEF LineInv, RestAssumption
  <2>3. Numbers(Line)' = << >>
    <3>1. Line' = << >>
      BY <2>1, ConcatEmptySeq DEF Line
    <3>2. << >> \in Seq(Command) /\ Len(<< >>) = 0
      OBVIOUS
    <3>3. Len(Numbers(<< >>)) = 0 /\ Numbers(<< >>) \in Seq(Nat)
      BY <3>2, NumbersType
    <3>4. Numbers(<< >>) = << >>
      BY <3>3, EmptySeq
    <3>5. QED
      BY <3>1, <3>4 DEF Numbers
  <2>4. Service!Leave
    BY <2>1, <2>3 DEF Service!Leave, Line
  <2>5. QED
    BY <2>2, <2>4 DEF Service!ServiceNext
<1>5. CASE Passing
  <2>1. UNCHANGED <<counter, held, taken, selected, selection, vService>>
    BY <1>5 DEF Passing, TickDown, PagerElse, pagerVars, handleVars, vService
  <2>2. LineInv'
    BY <2>1 DEF LineInv, vService
  <2>3. QED
    BY <2>1, <2>2, Unseen
<1>6. ASSUME OtherSends, PagerElse
      PROVE  LineInv' /\ (Service!ServiceNext \/ UNCHANGED Service!serviceVars)
  <2>1. PICK c \in held : held' = held \ {c} /\ TrySend(c)
    BY <1>6 DEF OtherSends
  <2>2. c \in Command /\ held' \subseteq Command
    BY <2>1 DEF LineInv
  <2>3. UNCHANGED <<counter, taken, current, at, published, selected, selection>>
    BY <1>6 DEF OtherSends, workerVars, PagerElse, pagerVars
  <2>4. /\ queue' \in Seq(Command) /\ Len(queue') <= QueueCapacity
        /\ at = "gone" => queue' = << >>
        /\ Service!ServiceNext \/ UNCHANGED Service!serviceVars
    BY <2>1, <2>2, <2>3, Offering
  <2>5. LineInv'
    BY <2>2, <2>3, <2>4 DEF LineInv
  <2>6. QED
    BY <2>4, <2>5
<1>7. ASSUME NEW channel \in Channels \cup {NoChannel}, OtherTakesId(channel), PagerElse
      PROVE  LineInv' /\ UNCHANGED Service!serviceVars
  <2>1. /\ counter' = NextId.next /\ taken' = taken + 1
        /\ held' = held \cup {NewCommand(channel, 0)}
        /\ UNCHANGED <<vService, selected, selection>>
    BY <1>7 DEF OtherTakesId, TakeId, workerVars, vService, PagerElse, pagerVars
  <2>2. NewCommand(channel, 0) \in Command
    BY NewCommandType
  <2>3. LineInv'
    BY <2>1, <2>2, IdsInRange DEF LineInv, vService
  <2>4. QED
    BY <2>1, <2>3, Unseen
<1>8. ASSUME NEW mark, Submit(mark)
      PROVE  LineInv' /\ (Service!ServiceNext \/ UNCHANGED Service!serviceVars)
  <2> DEFINE c == NewCommand(selected, selection)
  <2>1. /\ counter' = NextId.next /\ taken' = taken + 1 /\ TrySend(c)
        /\ UNCHANGED <<held, current, at, published, selected, selection>>
    BY <1>8 DEF Submit, TakeId, workerVars
  <2>2. c \in Command
    BY NewCommandType DEF LineInv
  <2>3. /\ queue' \in Seq(Command) /\ Len(queue') <= QueueCapacity
        /\ at = "gone" => queue' = << >>
        /\ Service!ServiceNext \/ UNCHANGED Service!serviceVars
    BY <2>1, <2>2, Offering
  <2>4. LineInv'
    BY <2>1, <2>3, IdsInRange DEF LineInv
  <2>5. QED
    BY <2>3, <2>4
<1>9. ASSUME NEW channel \in Channels \cup {NoChannel}, Select(channel)
      PROVE  LineInv' /\ UNCHANGED Service!serviceVars
  <2>1. /\ selection' = selection + 1 /\ selected' = channel
        /\ UNCHANGED <<counter, held, taken, vService>>
    BY <1>9 DEF Select, RestElse, restVars, handleVars, workerVars, ghostVars, vService
  <2>2. LineInv'
    BY <2>1 DEF LineInv, vService
  <2>3. QED
    BY <2>1, <2>2, Unseen
<1>10. CASE ObserveRest
  <2>1. UNCHANGED <<counter, held, taken, selected, selection, vService>>
    BY <1>10 DEF ObserveRest, handleVars, workerVars, ghostVars, vService
  <2>2. LineInv'
    BY <2>1 DEF LineInv, vService
  <2>3. QED
    BY <2>1, <2>2, Unseen
<1>11. QED
  BY <1>1, <1>2, <1>3, <1>4, <1>5, <1>6, <1>7, <1>8, <1>9, <1>10
     DEF Next, Worker, WorkerNext, Clones, Others, User, TryLoadLatest, TryLoadOlder

LEMMA LineStutter ==
  ASSUME LineInv, UNCHANGED vars
  PROVE  LineInv' /\ UNCHANGED Service!serviceVars
<1>1. UNCHANGED <<counter, held, taken, selected, selection, vService>>
  BY DEF vars, restVars, handleVars, workerVars, ghostVars, pagerVars, vService
<1>2. LineInv'
  BY <1>1 DEF LineInv, vService
<1>3. QED
  BY <1>1, <1>2, Unseen

LEMMA LineInit ==
  ASSUME Init
  PROVE  LineInv /\ Service!ServiceInit
<1>1. LineInv
  BY DEF Init, RestInit, LineInv, RestAssumption
<1>2. Numbers(current \o queue) = << >>
  <2>1. current \o queue = << >>
    BY ConcatEmptySeq DEF Init, RestInit
  <2>2. << >> \in Seq(Command) /\ Len(<< >>) = 0
    OBVIOUS
  <2>3. Len(Numbers(<< >>)) = 0 /\ Numbers(<< >>) \in Seq(Nat)
    BY <2>2, NumbersType
  <2>4. QED
    BY <2>1, <2>3, EmptySeq
<1>3. QED
  BY <1>1, <1>2 DEF Init, RestInit, Service!ServiceInit

\* Every behaviour of worker, threads and pager is one of the service: an
\* accepted command is answered at most once, in its turn, and none is answered
\* or accepted once the worker is gone (RestDispatcher::run and submit), for
\* every capacity, retry budget, id width and number of threads.
THEOREM ServiceAlways == PagerSpec => ServiceRefined
<1>1. Init => LineInv /\ Service!ServiceInit
  BY LineInit
<1>2. LineInv /\ [Next]_vars => LineInv' /\ [Service!ServiceNext]_(Service!serviceVars)
  BY LineStep, LineStutter
<1>3. PagerSpec => Init /\ [][Next]_vars
  BY PTL DEF PagerSpec
<1>4. QED
  BY <1>1, <1>2, <1>3, PTL DEF ServiceRefined, Service!ServiceSpec
----------------------------------------------------------------------------
(* Who waits for what                                                      *)

Answered == [id : 1..IdSpace - 1, number : Nat, channel : Channels \cup {NoChannel},
             ok : BOOLEAN, short : BOOLEAN]
Asked == [id : 1..IdSpace - 1, number : Nat, channel : Channels \cup {NoChannel}]

\* The commands with the worker, the commands there are, and with them the
\* results that nobody has taken.
Waiting == Items(queue) \cup Items(current)
Commands == held \cup Waiting
Known == Commands \cup Items(ring)

\* The reset of the exhausted bucket lies within the wait of the worker, if the
\* worker was told of it.
HoldCoversReset ==
  /\ hold \in Nat /\ quiet \in Nat
  /\ unheard \/ quiet <= hold
  /\ unheard \/ at # "response" \/ quiet = 0

\* A command is in one place, and is the only one of its number.
CommandsApart ==
  /\ \A c \in Commands : c.number \in 1..taken /\ c.by \in 0..selection
  /\ \A c, d \in Commands : c.number = d.number => c = d
  /\ \A c \in held : c.by = 0
  /\ Distinct(queue)
  /\ Items(current) \cap Items(queue) = {} /\ held \cap Waiting = {}

\* How many ids ago the id of c was taken, the next one being one ahead.
Age(c) == taken + 1 - c.number

\* The next id follows that of c by the age of c, around the zero at most once,
\* unless all ids have been taken since.
IdsInTurn ==
  \A c \in Known :
    /\ c.number \in 1..taken /\ c.id \in 1..IdSpace - 1
    /\ \/ Age(c) >= IdSpace - 1
       \/ NextId.id = c.id + Age(c)
       \/ NextId.id = c.id + Age(c) - (IdSpace - 1)

\* IdsRepeatLate, for the results too.
IdsFarApart ==
  \A c, d \in Known : c.id = d.id /\ c.number # d.number =>
    c.number - d.number >= IdSpace - 1 \/ d.number - c.number >= IdSpace - 1

\* A result is of a command that the worker has no more, and a short page was
\* noted.
ResultsKnown ==
  /\ ring \in Seq(Answered)
  /\ \A r \in Items(ring) :
       /\ \A c \in Commands : c.number # r.number
       /\ r.short => r.channel \in ended

\* The pending request is for the selected channel, and what has its number
\* anywhere is that request.
PendingKnown ==
  /\ pending \in Seq(Asked) /\ Len(pending) <= 1
  /\ \A p \in Items(pending) :
       /\ p.channel = selected /\ selected # NoChannel /\ p.number \in 1..taken
       /\ \A c \in Known : c.number = p.number => c.id = p.id /\ c.channel = p.channel

\* The requests of the current selection that the worker has are pending.
WaitingIsPending ==
  selection > 0 =>
    \A c \in Waiting : c.by = selection => \E p \in Items(pending) : p.number = c.number

PagerInv ==
  /\ LineInv /\ HoldCoversReset /\ CommandsApart /\ IdsInTurn /\ IdsFarApart
  /\ ResultsKnown /\ PendingKnown /\ PendingIsTracked /\ ExhaustedIsOfSelection
----------------------------------------------------------------------------
(* Sets of commands                                                        *)

\* The same request, as a command or as its result.
Same(c, d) == c.id = d.id /\ c.number = d.number /\ c.channel = d.channel

\* A step that issues no id knows no new request; one that does knows one more.
NoneIsNew == /\ UNCHANGED <<counter, taken>>
             /\ \A c \in Known' : \E d \in Known : Same(c, d)
OneIsNew == /\ counter' = NextId.next /\ taken' = taken + 1
            /\ \A c \in Known' :
                 (\E d \in Known : Same(c, d)) \/ (c.id = NextId.id /\ c.number = taken + 1)

LEMMA ItemsOfLine ==
  ASSUME LineInv
  PROVE  Items(queue) \subseteq Command /\ Items(current) \subseteq Command
         /\ Commands \subseteq Command
<1>1. ASSUME NEW s \in Seq(Command) PROVE Items(s) \subseteq Command
  BY <1>1 DEF Items
<1>2. QED
  BY <1>1 DEF LineInv, Commands, Waiting

LEMMA IdsWhenNoneIsNew ==
  ASSUME IdsInTurn, IdsFarApart, NoneIsNew
  PROVE  IdsInTurn' /\ IdsFarApart'
<1>1. NextId' = NextId
  BY DEF NoneIsNew, NextId
<1>2. ASSUME NEW c \in Known'
      PROVE  \E d \in Known : c.id = d.id /\ c.number = d.number /\ Age(c)' = Age(d)
  BY DEF NoneIsNew, Same, Age
<1>3. IdsInTurn'
  BY <1>1, <1>2 DEF IdsInTurn, NoneIsNew, Age
<1>4. IdsFarApart'
  BY <1>2 DEF IdsFarApart
<1>5. QED
  BY <1>3, <1>4

\* The id after the next one: one more, or the first.
LEMMA NextButOne ==
  ASSUME LineInv, counter' = NextId.next
  PROVE  /\ NextId.id \in 1..IdSpace - 1
         /\ NextId'.id = IF NextId.id = IdSpace - 1 THEN 1 ELSE NextId.id + 1
<1> DEFINE id == IF counter = 0 THEN 1 ELSE counter
<1>1. id \in 1..IdSpace - 1 /\ IdSpace \in Nat /\ NextId.id = id /\ NextId.next = (id + 1) % IdSpace
  BY DEF LineInv, RestAssumption, NextId
<1> HIDE DEF id
<1>2. CASE id = IdSpace - 1
  <2>1. (id + 1) % IdSpace = 0
    BY <1>1, <1>2, SMT
  <2>2. QED
    BY <1>1, <1>2, <2>1 DEF NextId
<1>3. CASE id # IdSpace - 1
  <2>1. (id + 1) % IdSpace = id + 1
    BY <1>1, <1>3, SMT
  <2>2. counter' = id + 1 /\ counter' # 0
    BY <1>1, <2>1
  <2>3. NextId'.id = counter'
    BY <2>2 DEF NextId
  <2>4. QED
    BY <1>1, <1>3, <2>2, <2>3
<1>4. QED
  BY <1>2, <1>3

LEMMA IdsWhenOneIsNew ==
  ASSUME LineInv, IdsInTurn, IdsFarApart, OneIsNew
  PROVE  IdsInTurn' /\ IdsFarApart'
<1> DEFINE n == NextId.id
           m == NextId'.id
<1>1. /\ n \in 1..IdSpace - 1 /\ m = (IF n = IdSpace - 1 THEN 1 ELSE n + 1)
      /\ IdSpace \in Nat \ {0, 1} /\ taken \in Nat /\ taken' = taken + 1
  BY NextButOne DEF OneIsNew, LineInv, RestAssumption
<1>2. ASSUME NEW c \in Known'
      PROVE  \/ \E d \in Known : c.id = d.id /\ c.number = d.number
             \/ c.id = n /\ c.number = taken + 1
  BY DEF OneIsNew, Same
<1>3. ASSUME NEW d \in Known
      PROVE  /\ d.number \in 1..taken /\ d.id \in 1..IdSpace - 1
             /\ \/ taken + 1 - d.number >= IdSpace - 1
                \/ n = d.id + (taken + 1 - d.number)
                \/ n = d.id + (taken + 1 - d.number) - (IdSpace - 1)
  BY DEF IdsInTurn, Age
<1> HIDE DEF n, m
<1>4. ASSUME NEW c \in Known'
      PROVE  /\ c.number \in 1..taken' /\ c.id \in 1..IdSpace - 1
             /\ \/ taken' + 1 - c.number >= IdSpace - 1
                \/ m = c.id + (taken' + 1 - c.number)
                \/ m = c.id + (taken' + 1 - c.number) - (IdSpace - 1)
  <2>1. CASE c.id = n /\ c.number = taken + 1
    BY <1>1, <2>1
  <2>2. ASSUME NEW d \in Known, c.id = d.id, c.number = d.number
        PROVE  <1>4!2
    <3> DEFINE i == d.id
               k == d.number
    <3>1. /\ k \in 1..taken /\ i \in 1..IdSpace - 1
          /\ \/ taken + 1 - k >= IdSpace - 1
             \/ n = i + (taken + 1 - k)
             \/ n = i + (taken + 1 - k) - (IdSpace - 1)
      BY <1>3
    <3> HIDE DEF i, k
    <3>2. /\ k \in 1..taken'
          /\ \/ taken' + 1 - k >= IdSpace - 1
             \/ m = i + (taken' + 1 - k)
             \/ m = i + (taken' + 1 - k) - (IdSpace - 1)
      BY <1>1, <3>1
    <3>3. QED
      BY <2>2, <3>1, <3>2 DEF i, k
  <2>3. QED
    BY <1>2, <2>1, <2>2
<1>5. IdsInTurn'
  BY <1>4 DEF IdsInTurn, Age, m
<1>6. ASSUME NEW d \in Known, d.id = n
      PROVE  taken + 1 - d.number >= IdSpace - 1
  <2> DEFINE k == d.number
  <2>1. /\ k \in 1..taken
        /\ \/ taken + 1 - k >= IdSpace - 1
           \/ n = n + (taken + 1 - k)
           \/ n = n + (taken + 1 - k) - (IdSpace - 1)
    BY <1>3, <1>6
  <2> HIDE DEF k
  <2>2. taken + 1 - k >= IdSpace - 1
    BY <1>1, <2>1
  <2>3. QED
    BY <2>2 DEF k
<1>b. ASSUME NEW e \in Known', e.id = n, e.number # taken + 1
      PROVE  taken + 1 - e.number >= IdSpace - 1
  BY <1>2, <1>6, <1>b
<1>7. IdsFarApart'
  <2> SUFFICES ASSUME NEW c \in Known', NEW e \in Known', c.id = e.id, c.number # e.number
               PROVE  c.number - e.number >= IdSpace - 1 \/ e.number - c.number >= IdSpace - 1
    BY DEF IdsFarApart
  <2>1. CASE c.id = n /\ c.number = taken + 1
    <3>1. taken + 1 - e.number >= IdSpace - 1
      BY <1>b, <2>1
    <3>2. QED
      BY <1>1, <1>4, <2>1, <3>1
  <2>2. CASE e.id = n /\ e.number = taken + 1
    <3>1. taken + 1 - c.number >= IdSpace - 1
      BY <1>b, <2>2
    <3>2. QED
      BY <1>1, <1>4, <2>2, <3>1
  <2>3. CASE ~(c.id = n /\ c.number = taken + 1) /\ ~(e.id = n /\ e.number = taken + 1)
    BY <1>2, <2>3 DEF IdsFarApart
  <2>4. QED
    BY <2>1, <2>2, <2>3
<1>8. QED
  BY <1>5, <1>7
----------------------------------------------------------------------------
(* Where requests are, step by step                                        *)

\* Where the requests are, and what the pager knows of them.
Places ==
  /\ CommandsApart /\ ResultsKnown /\ PendingKnown
  /\ PendingIsTracked /\ ExhaustedIsOfSelection

PlaceVars == <<counter, taken, held, queue, current, ring, lost, ended, selected,
               pending, exhausted, selection>>

\* The pager does nothing, and the worker gets no request of its.
PagerRests == /\ UNCHANGED <<pending, selection>>
              /\ \A c \in Waiting' : c \in Waiting \/ c.by = 0

LEMMA FewerApart ==
  ASSUME LineInv, CommandsApart, UNCHANGED taken, selection' \in {selection, selection + 1},
         held' \subseteq held, Commands' \subseteq Commands,
         Distinct(queue'), Items(current') \cap Items(queue') = {}, held' \cap Waiting' = {}
  PROVE  CommandsApart'
<1>1. ASSUME NEW c \in Commands' PROVE c.number \in 1..taken' /\ c.by \in 0..selection'
  BY DEF CommandsApart, LineInv
<1>2. QED
  BY <1>1 DEF CommandsApart

LEMMA OneMoreApart ==
  ASSUME LineInv, CommandsApart, taken' = taken + 1, selection' = selection,
         NEW c, c.number = taken + 1, c.by \in 0..selection, c \in held' => c.by = 0,
         held' \subseteq held \cup {c}, Commands' \subseteq Commands \cup {c},
         Distinct(queue'), Items(current') \cap Items(queue') = {}, held' \cap Waiting' = {}
  PROVE  CommandsApart'
<1>1. taken \in Nat /\ selection \in Nat
  BY DEF LineInv
<1>2. ASSUME NEW d \in Commands PROVE d.number \in 1..taken /\ d.number # taken + 1
  BY <1>1 DEF CommandsApart
<1>3. ASSUME NEW d \in Commands' PROVE d.number \in 1..taken' /\ d.by \in 0..selection'
  <2>1. CASE d = c
    BY <1>1, <2>1
  <2>2. CASE d \in Commands
    BY <1>1, <2>2 DEF CommandsApart
  <2>3. QED
    BY <2>1, <2>2
<1>4. ASSUME NEW d \in Commands', NEW e \in Commands', d.number = e.number
      PROVE  d = e
  BY <1>2, <1>4 DEF CommandsApart
<1>5. \A d \in held' : d.by = 0
  BY DEF CommandsApart
<1>6. QED
  BY <1>3, <1>4, <1>5 DEF CommandsApart

\* The pager does nothing: its request stays known and awaited when everything
\* that was known is somewhere, or lost, and what is new has a new number.
LEMMA RequestCarried ==
  ASSUME LineInv, PendingKnown, PendingIsTracked, UNCHANGED <<pending, selected>>,
         taken' \in {taken, taken + 1}, lost \subseteq lost',
         \A c \in Known' : (\E d \in Known : Same(c, d)) \/ c.number = taken + 1,
         \/ at' = "gone"
         \/ /\ at # "gone"
            /\ \A c \in Waiting \cup Items(ring) :
                 \/ c.number \in lost'
                 \/ \E d \in Waiting' \cup Items(ring') : d.number = c.number
  PROVE  PendingKnown' /\ PendingIsTracked'
<1>1. PendingKnown'
  <2> SUFFICES ASSUME NEW p \in Items(pending)
               PROVE  /\ p.number \in 1..taken'
                      /\ \A c \in Known' : c.number = p.number => c.id = p.id /\ c.channel = p.channel
    BY DEF PendingKnown
  <2>1. p.number \in 1..taken /\ taken \in Nat
    BY DEF PendingKnown, LineInv
  <2>2. p.number \in 1..taken' /\ p.number # taken + 1
    BY <2>1
  <2>3. ASSUME NEW c \in Known', c.number = p.number
        PROVE  c.id = p.id /\ c.channel = p.channel
    <3>1. PICK d \in Known : Same(c, d)
      BY <2>2, <2>3
    <3>2. d.id = p.id /\ d.channel = p.channel
      BY <2>3, <3>1 DEF PendingKnown, Same
    <3>3. QED
      BY <3>1, <3>2 DEF Same
  <2>4. QED
    BY <2>2, <2>3
<1>2. PendingIsTracked'
  <2>1. CASE at' = "gone"
    BY <2>1 DEF PendingIsTracked
  <2>2. CASE at' # "gone"
    <3> SUFFICES ASSUME NEW p \in Items(pending)
                 PROVE  \/ p.number \in lost'
                        \/ \E d \in Waiting' \cup Items(ring') : d.number = p.number
      BY DEF PendingIsTracked, Waiting
    <3>1. \/ p.number \in lost
          \/ \E c \in Waiting \cup Items(ring) : c.number = p.number
      BY <2>2 DEF PendingIsTracked, Waiting
    <3>2. QED
      BY <2>2, <3>1
  <2>3. QED
    BY <2>1, <2>2
<1>3. QED
  BY <1>1, <1>2

LEMMA QuietKeepsPlaces ==
  ASSUME Places, UNCHANGED PlaceVars, at = "gone" => at' = "gone"
  PROVE  Places' /\ NoneIsNew /\ PagerRests
<1>1. UNCHANGED <<Commands, Waiting, Known>>
  BY DEF PlaceVars, Commands, Waiting, Known
<1>2. CommandsApart' /\ ResultsKnown'
  BY <1>1 DEF Places, CommandsApart, ResultsKnown, PlaceVars
<1>3. PendingKnown' /\ PendingIsTracked' /\ ExhaustedIsOfSelection'
  BY <1>1 DEF Places, PendingKnown, PendingIsTracked, ExhaustedIsOfSelection, PlaceVars
<1>4. NoneIsNew /\ PagerRests
  BY <1>1 DEF NoneIsNew, PagerRests, Same, PlaceVars
<1>5. QED
  BY <1>2, <1>3, <1>4 DEF Places

\* The command in the worker's hand, when there is one.
LEMMA InHand ==
  ASSUME LineInv
  PROVE  /\ at \in {"hold", "response"} =>
              Head(current) \in Command /\ Items(current) = {Head(current)}
         /\ at \notin {"hold", "response"} => current = << >>
<1>1. CASE at \in {"hold", "response"}
  <2>1. current \in Seq(Command) /\ Len(current) = 1
    BY <1>1 DEF LineInv
  <2>2. QED
    BY <1>1, <2>1, SingleItem
<1>2. CASE at \notin {"hold", "response"}
  <2>1. current \in Seq(Command) /\ Len(current) = 0
    BY <1>2 DEF LineInv
  <2>2. QED
    BY <1>2, <2>1, EmptySeq
<1>3. QED
  BY <1>1, <1>2

LEMMA ItemsOfNone == Items(<< >>) = {}
BY DEF Items

LEMMA ItemsOfOne ==
  ASSUME NEW x
  PROVE  Items(<<x>>) = {x}
BY DEF Items

LEMMA ReceiveKeepsPlaces ==
  ASSUME LineInv, Places, Receive, PagerElse
  PROVE  Places' /\ NoneIsNew /\ PagerRests
<1>1. /\ at = "recv" /\ at' = "hold" /\ queue # << >>
      /\ current' = <<Head(queue)>> /\ queue' = Tail(queue)
      /\ UNCHANGED <<counter, taken, held, ring, lost, ended, selected, pending, exhausted, selection>>
  BY DEF Receive, PagerElse, handleVars, ghostVars, pagerVars
<1>2. queue \in Seq(Command) /\ current = << >> /\ Distinct(queue)
  BY <1>1, InHand DEF LineInv, Places, CommandsApart
<1>3. /\ Items(queue) = {Head(queue)} \cup Items(queue')
      /\ Head(queue) \notin Items(queue') /\ Distinct(queue')
  BY <1>1, <1>2, HeadAndTail, TailItems
<1>4. Items(current) = {} /\ Items(current') = {Head(queue)}
  BY <1>1, <1>2, ItemsOfNone, ItemsOfOne
<1>5. Waiting' = Waiting /\ Commands' = Commands /\ Known' = Known
  BY <1>1, <1>3, <1>4 DEF Waiting, Commands, Known
<1>6. CommandsApart'
  <2>1. held' \cap Waiting' = {}
    BY <1>1, <1>5 DEF Places, CommandsApart
  <2>2. QED
    BY <1>1, <1>3, <1>4, <1>5, <2>1, FewerApart DEF Places
<1>7. ResultsKnown'
  BY <1>1, <1>5 DEF Places, ResultsKnown
<1>8. PendingKnown' /\ PendingIsTracked'
  <2>1. \A c \in Waiting \cup Items(ring) : \E d \in Waiting' \cup Items(ring') : d.number = c.number
    BY <1>1, <1>5
  <2>2. \A c \in Known' : \E d \in Known : Same(c, d)
    BY <1>5 DEF Same
  <2>3. QED
    BY <1>1, <2>1, <2>2, RequestCarried DEF Places
<1>9. ExhaustedIsOfSelection' /\ NoneIsNew /\ PagerRests
  BY <1>1, <1>5 DEF Places, ExhaustedIsOfSelection, NoneIsNew, PagerRests, Same
<1>10. QED
  BY <1>6, <1>7, <1>8, <1>9 DEF Places

\* A result takes the place of the command in hand; the ring may lose another.
LEMMA Responded ==
  ASSUME LineInv, ResultsKnown, NEW ok \in BOOLEAN, NEW short \in BOOLEAN, NEW reset,
         Finish(ok, short, reset)
  PROVE  LET c == Head(current)
             r == Result(ok, short)
         IN  /\ Items(current) = {c} /\ c \in Command /\ current' = << >>
             /\ r \in Answered /\ Same(r, c) /\ r.short = short
             /\ ring' \in Seq(Answered) /\ r \in Items(ring')
             /\ Items(ring') \subseteq Items(ring) \cup {r}
             /\ \A x \in Items(ring) : x \in Items(ring') \/ x.number \in lost'
             /\ lost \subseteq lost' /\ ended \subseteq ended'
             /\ short => c.channel \in ended'
<1> DEFINE c == Head(current)
           r == Result(ok, short)
<1>1. Items(current) = {c} /\ c \in Command
  BY InHand DEF Finish
<1>2. r \in Answered /\ Same(r, c) /\ r.short = short /\ r.channel = c.channel
  BY <1>1 DEF Result, Answered, Same, Command
<1>3. /\ ring' = PushBounded(ring, r, RingCapacity) /\ current' = << >>
      /\ lost' = IF Len(ring) < RingCapacity THEN lost ELSE lost \cup {Head(ring).number}
      /\ ended' = IF r.short THEN ended \cup {r.channel} ELSE ended
  BY DEF Finish, Publish
<1> HIDE DEF c, r
<1>4. ring \in Seq(Answered) /\ Len(ring) \in Nat /\ RingCapacity \in Nat \ {0}
  BY LenProperties DEF ResultsKnown, RestAssumption
<1>5. /\ ring' \in Seq(Answered) /\ r \in Items(ring')
      /\ Items(ring') \subseteq Items(ring) \cup {r}
      /\ \A x \in Items(ring) :
           x \in Items(ring') \/ (Len(ring) >= RingCapacity /\ x = Head(ring))
  BY <1>2, <1>3, <1>4, PushItems
<1>6. \A x \in Items(ring) : x \in Items(ring') \/ x.number \in lost'
  BY <1>3, <1>4, <1>5
<1>7. lost \subseteq lost' /\ ended \subseteq ended' /\ (short => c.channel \in ended')
  BY <1>2, <1>3
<1>8. QED
  BY <1>1, <1>2, <1>3, <1>5, <1>6, <1>7 DEF c, r

\* With its result published a command is with the worker no more.
LEMMA RespondKeepsPlaces ==
  ASSUME LineInv, Places, NEW ok \in BOOLEAN, NEW short \in BOOLEAN, NEW reset,
         Finish(ok, short, reset), PagerElse
  PROVE  Places' /\ NoneIsNew /\ PagerRests
<1> DEFINE c == Head(current)
           r == Result(ok, short)
<1>1. /\ Items(current) = {c} /\ c \in Command /\ current' = << >>
      /\ Same(r, c) /\ r.short = short /\ ring' \in Seq(Answered) /\ r \in Items(ring')
      /\ Items(ring') \subseteq Items(ring) \cup {r}
      /\ \A x \in Items(ring) : x \in Items(ring') \/ x.number \in lost'
      /\ lost \subseteq lost' /\ ended \subseteq ended'
      /\ short => c.channel \in ended'
  BY Responded DEF Places
<1> HIDE DEF c, r
<1>2. /\ at = "response" /\ at' = "recv"
      /\ UNCHANGED <<counter, taken, held, queue, selected, pending, exhausted, selection>>
  BY DEF Finish, Publish, PagerElse, handleVars, pagerVars
<1>3. Items(current') = {} /\ Waiting' = Items(queue) /\ Waiting = Items(queue) \cup {c}
  BY <1>1, <1>2, ItemsOfNone DEF Waiting
<1>4. /\ c \in Commands /\ c \notin held /\ c \notin Items(queue)
      /\ Commands' = held \cup Items(queue) /\ Commands = held \cup Items(queue) \cup {c}
  BY <1>1, <1>2, <1>3 DEF Commands, Waiting, Places, CommandsApart
<1>5. \A d \in Commands' : d.number # c.number
  BY <1>4 DEF Places, CommandsApart
<1>6. CommandsApart'
  <2>1. held' \cap Waiting' = {} /\ Distinct(queue') /\ Items(current') \cap Items(queue') = {}
    BY <1>2, <1>3 DEF Places, CommandsApart, Waiting
  <2>2. Commands' \subseteq Commands /\ held' \subseteq held
    BY <1>2, <1>4
  <2>3. QED
    BY <1>2, <2>1, <2>2, FewerApart DEF Places
<1>7. ResultsKnown'
  <2> SUFFICES ASSUME NEW x \in Items(ring')
               PROVE  /\ \A d \in Commands' : d.number # x.number
                      /\ x.short => x.channel \in ended'
    BY <1>1 DEF ResultsKnown
  <2>1. CASE x = r
    BY <1>1, <1>5, <2>1 DEF Same
  <2>2. CASE x \in Items(ring)
    BY <1>1, <1>4, <2>2 DEF Places, ResultsKnown
  <2>3. QED
    BY <1>1, <2>1, <2>2
<1>8. \A x \in Known' : \E d \in Known : Same(x, d)
  <2> SUFFICES ASSUME NEW x \in Known' PROVE \E d \in Known : Same(x, d)
    OBVIOUS
  <2>1. CASE x = r
    BY <1>1, <1>4, <2>1 DEF Known
  <2>2. CASE x # r
    BY <1>1, <1>4, <2>2 DEF Known, Same
  <2>3. QED
    BY <2>1, <2>2
<1>9. \A x \in Waiting \cup Items(ring) :
        x.number \in lost' \/ \E d \in Waiting' \cup Items(ring') : d.number = x.number
  <2> SUFFICES ASSUME NEW x \in Waiting \cup Items(ring), x.number \notin lost'
               PROVE  \E d \in Waiting' \cup Items(ring') : d.number = x.number
    OBVIOUS
  <2>1. CASE x = c
    BY <1>1, <2>1 DEF Same
  <2>2. CASE x # c
    BY <1>1, <1>3, <2>2
  <2>3. QED
    BY <2>1, <2>2
<1>10. PendingKnown' /\ PendingIsTracked'
  BY <1>1, <1>2, <1>8, <1>9, RequestCarried DEF Places
<1>11. ExhaustedIsOfSelection' /\ NoneIsNew /\ PagerRests
  BY <1>1, <1>2, <1>3, <1>8 DEF PagerRests, Places, ExhaustedIsOfSelection, NoneIsNew
<1>12. QED
  BY <1>6, <1>7, <1>10, <1>11 DEF Places

LEMMA AbortKeepsPlaces ==
  ASSUME LineInv, Places, Abort, PagerElse
  PROVE  Places' /\ NoneIsNew /\ PagerRests
<1>1. /\ at' = "gone" /\ queue' = << >> /\ current' = << >>
      /\ UNCHANGED <<counter, taken, held, ring, lost, ended, selected, pending, exhausted, selection>>
  BY DEF Abort, PagerElse, handleVars, ghostVars, pagerVars
<1>2. Items(queue') = {} /\ Items(current') = {}
  BY <1>1, ItemsOfNone
<1>3. Waiting' = {} /\ Commands' = held /\ Commands' \subseteq Commands
      /\ Known' \subseteq Known
  BY <1>1, <1>2 DEF Waiting, Commands, Known
<1>4. Distinct(queue')
  BY <1>1 DEF Distinct
<1>5. CommandsApart'
  BY <1>1, <1>2, <1>3, <1>4, FewerApart DEF Places
<1>6. ResultsKnown'
  BY <1>1, <1>3 DEF Places, ResultsKnown
<1>7. \A c \in Known' : \E d \in Known : Same(c, d)
  BY <1>3 DEF Same
<1>8. PendingKnown' /\ PendingIsTracked'
  BY <1>1, <1>7, RequestCarried DEF Places
<1>9. ExhaustedIsOfSelection' /\ NoneIsNew /\ PagerRests
  BY <1>1, <1>3, <1>7 DEF PagerRests, Places, ExhaustedIsOfSelection, NoneIsNew
<1>10. QED
  BY <1>5, <1>6, <1>8, <1>9 DEF Places

\* The number of a command that is made now is the next one.
LEMMA NewNumber ==
  ASSUME NEW channel, NEW by
  PROVE  LET c == NewCommand(channel, by)
         IN  c.id = NextId.id /\ c.number = taken + 1 /\ c.channel = channel /\ c.by = by
BY DEF NewCommand

LEMMA TakesIdKeepsPlaces ==
  ASSUME LineInv, IdsInTurn, Places, NEW channel, OtherTakesId(channel), PagerElse
  PROVE  Places' /\ OneIsNew /\ PagerRests
<1> DEFINE c == NewCommand(channel, 0)
<1>1. c.id = NextId.id /\ c.number = taken + 1 /\ c.by = 0
  BY NewNumber
<1>2. /\ counter' = NextId.next /\ taken' = taken + 1 /\ held' = held \cup {c}
      /\ UNCHANGED <<at, queue, current, ring, lost, ended, selected, pending, exhausted, selection>>
  BY DEF OtherTakesId, TakeId, PagerElse, workerVars, pagerVars
<1> HIDE DEF c
<1>3. taken \in Nat /\ selection \in Nat
  BY DEF LineInv
<1>4. Waiting' = Waiting /\ Commands' = Commands \cup {c} /\ Known' = Known \cup {c}
  BY <1>2 DEF Waiting, Commands, Known
<1>5. c \notin Commands /\ \A r \in Items(ring) : r.number # c.number
  <2>1. c \notin Commands
    BY <1>1, <1>3 DEF Places, CommandsApart
  <2>2. \A r \in Items(ring) : r.number \in 1..taken
    BY DEF IdsInTurn, Known
  <2>3. QED
    BY <1>1, <1>3, <2>1, <2>2
<1>6. CommandsApart'
  <2>1. held' \cap Waiting' = {} /\ Distinct(queue') /\ Items(current') \cap Items(queue') = {}
    BY <1>2, <1>4, <1>5 DEF Places, CommandsApart, Commands
  <2>2. QED
    BY <1>1, <1>2, <1>3, <1>4, <2>1, OneMoreApart DEF Places
<1>7. ResultsKnown'
  BY <1>2, <1>4, <1>5 DEF Places, ResultsKnown
<1>8. \A d \in Known' : (\E e \in Known : Same(d, e)) \/ (d.id = NextId.id /\ d.number = taken + 1)
  BY <1>1, <1>4 DEF Same
<1>9. PendingKnown' /\ PendingIsTracked'
  <2>1. at = "gone" => at' = "gone"
    BY <1>2
  <2>2. \A x \in Waiting \cup Items(ring) : \E d \in Waiting' \cup Items(ring') : d.number = x.number
    BY <1>2, <1>4
  <2>3. QED
    BY <1>2, <1>8, <2>1, <2>2, RequestCarried DEF Places
<1>10. ExhaustedIsOfSelection' /\ OneIsNew /\ PagerRests
  BY <1>2, <1>4, <1>8 DEF PagerRests, Places, ExhaustedIsOfSelection, OneIsNew
<1>11. QED
  BY <1>6, <1>7, <1>9, <1>10 DEF Places

\* What an offered command does to the queue.
LEMMA Offered ==
  ASSUME LineInv, NEW c \in Command, TrySend(c)
  PROVE  IF Accepts
         THEN /\ Items(queue') = Items(queue) \cup {c} /\ at # "gone"
              /\ Distinct(queue) /\ c \notin Items(queue) => Distinct(queue')
         ELSE queue' = queue
<1>1. CASE Accepts
  <2>1. queue' = Append(queue, c) /\ at # "gone" /\ queue \in Seq(Command)
    BY <1>1 DEF TrySend, Accepts, LineInv
  <2>2. /\ Items(Append(queue, c)) = Items(queue) \cup {c}
        /\ Distinct(queue) /\ c \notin Items(queue) => Distinct(Append(queue, c))
    BY <2>1, AppendItems
  <2>3. QED
    BY <1>1, <2>1, <2>2
<1>2. CASE ~Accepts
  BY <1>2 DEF TrySend
<1>3. QED
  BY <1>1, <1>2

LEMMA SendsKeepsPlaces ==
  ASSUME LineInv, Places, OtherSends, PagerElse
  PROVE  Places' /\ NoneIsNew /\ PagerRests
<1>1. PICK c \in held : held' = held \ {c} /\ TrySend(c)
  BY DEF OtherSends
<1>2. UNCHANGED <<counter, taken, at, current, ring, lost, ended, selected, pending,
                  exhausted, selection>>
  BY DEF OtherSends, PagerElse, workerVars, pagerVars
<1>3. c \in Command /\ c \in Commands /\ c \notin Waiting
  BY DEF LineInv, Commands, Places, CommandsApart
<1>4. /\ Items(queue) \subseteq Items(queue') /\ Items(queue') \subseteq Items(queue) \cup {c}
      /\ Distinct(queue')
  BY <1>1, <1>3, Offered DEF Places, CommandsApart, Waiting
<1>5. /\ Waiting \subseteq Waiting' /\ Waiting' \subseteq Waiting \cup {c}
      /\ Commands' \subseteq Commands /\ Known' \subseteq Known
  BY <1>1, <1>2, <1>4 DEF Waiting, Commands, Known
<1>6. CommandsApart'
  <2>1. held' \cap Waiting' = {}
    BY <1>1, <1>5 DEF Places, CommandsApart
  <2>2. Items(current') \cap Items(queue') = {}
    BY <1>2, <1>3, <1>4 DEF Places, CommandsApart, Waiting
  <2>3. held' \subseteq held
    BY <1>1
  <2>4. QED
    BY <1>2, <1>4, <1>5, <2>1, <2>2, <2>3, FewerApart DEF Places
<1>7. ResultsKnown'
  BY <1>2, <1>5 DEF Places, ResultsKnown
<1>8. \A d \in Known' : \E e \in Known : Same(d, e)
  BY <1>5 DEF Same
<1>9. PendingKnown' /\ PendingIsTracked'
  <2>1. at = "gone" => at' = "gone"
    BY <1>2
  <2>2. \A x \in Waiting \cup Items(ring) : \E d \in Waiting' \cup Items(ring') : d.number = x.number
    BY <1>2, <1>5
  <2>3. QED
    BY <1>2, <1>8, <2>1, <2>2, RequestCarried DEF Places
<1>a. c.by = 0
  BY DEF Places, CommandsApart
<1>10. ExhaustedIsOfSelection' /\ NoneIsNew /\ PagerRests
  BY <1>2, <1>5, <1>8, <1>a DEF Places, ExhaustedIsOfSelection, NoneIsNew, PagerRests
<1>11. QED
  BY <1>6, <1>7, <1>9, <1>10 DEF Places

\* The pager's own request; mark is what it leaves in exhausted.
LEMMA SubmitKeepsPlaces ==
  ASSUME LineInv, IdsInTurn, Places, NEW mark, ~mark, Submit(mark)
  PROVE  /\ Places' /\ OneIsNew
         /\ \A c \in Waiting' : c \in Waiting \/ \E p \in Items(pending') : p.number = c.number
<1> DEFINE c == NewCommand(selected, selection)
           p == [id |-> c.id, number |-> c.number, channel |-> selected]
<1>1. /\ c.id = NextId.id /\ c.number = taken + 1 /\ c.channel = selected /\ c.by = selection
      /\ p.id = c.id /\ p.number = c.number /\ p.channel = selected
  BY NewNumber
<1>2. /\ counter' = NextId.next /\ taken' = taken + 1 /\ TrySend(c)
      /\ UNCHANGED <<held, at, current, ring, lost, ended, selected, selection>>
      /\ pending = << >> /\ selected # NoChannel
      /\ IF Accepts THEN pending' = <<p>> /\ exhausted' = mark
         ELSE UNCHANGED <<pending, exhausted>>
  BY DEF Submit, TakeId, workerVars
<1>3. c \in Command
  BY NewCommandType DEF LineInv
<1>4. p \in Asked
  BY <1>1, <1>3 DEF Asked, Command, LineInv
<1> HIDE DEF c, p
<1>5. taken \in Nat /\ selection \in Nat
  BY DEF LineInv
<1>6. c \notin Commands /\ \A r \in Known : r.number # c.number
  <2>1. \A r \in Known : r.number \in 1..taken
    BY DEF IdsInTurn
  <2>2. QED
    BY <1>1, <1>5, <2>1 DEF Known
<1>7. /\ Items(queue) \subseteq Items(queue') /\ Items(queue') \subseteq Items(queue) \cup {c}
      /\ Distinct(queue')
  BY <1>2, <1>3, <1>6, Offered DEF Places, CommandsApart, Waiting, Commands
<1>8. /\ Waiting \subseteq Waiting' /\ Waiting' \subseteq Waiting \cup {c}
      /\ Commands' \subseteq Commands \cup {c} /\ Known' \subseteq Known \cup {c}
  BY <1>2, <1>7 DEF Waiting, Commands, Known
<1>9. CommandsApart'
  <2>1. held' \cap Waiting' = {} /\ Items(current') \cap Items(queue') = {} /\ c \notin held'
    BY <1>2, <1>6, <1>7, <1>8 DEF Places, CommandsApart, Commands, Waiting
  <2>2. c.by \in 0..selection
    BY <1>1, <1>5
  <2>3. QED
    BY <1>1, <1>2, <1>7, <1>8, <2>1, <2>2, OneMoreApart DEF Places
<1>10. ResultsKnown'
  BY <1>2, <1>6, <1>8 DEF Places, ResultsKnown, Known
<1>11. OneIsNew
  BY <1>1, <1>2, <1>8 DEF OneIsNew, Same
<1>12. CASE Accepts
  <2>1. pending' = <<p>> /\ Items(pending') = {p} /\ ~exhausted'
    BY <1>2, <1>12, ItemsOfOne
  <2>2. c \in Waiting'
    BY <1>2, <1>3, <1>12, Offered DEF Waiting
  <2>3. PendingKnown'
    <3>1. pending' \in Seq(Asked) /\ Len(pending') <= 1
      BY <1>4, <2>1
    <3>2. p.number \in 1..taken' /\ p.channel = selected' /\ selected' # NoChannel
      BY <1>1, <1>2, <1>5
    <3>3. \A d \in Known' : d.number = p.number => d.id = p.id /\ d.channel = p.channel
      BY <1>1, <1>6, <1>8
    <3>4. QED
      BY <2>1, <3>1, <3>2, <3>3 DEF PendingKnown
  <2>4. PendingIsTracked'
    BY <1>1, <2>1, <2>2 DEF PendingIsTracked, Waiting
  <2>5. ExhaustedIsOfSelection'
    BY <2>1 DEF ExhaustedIsOfSelection
  <2>6. \A d \in Waiting' : d \in Waiting \/ \E q \in Items(pending') : q.number = d.number
    BY <1>1, <1>8, <2>1
  <2>7. QED
    BY <1>9, <1>10, <1>11, <2>3, <2>4, <2>5, <2>6 DEF Places
<1>13. CASE ~Accepts
  <2>1. UNCHANGED <<pending, exhausted>> /\ queue' = queue
    BY <1>2, <1>3, <1>13, Offered
  <2>2. Items(pending') = {}
    BY <1>2, <2>1, ItemsOfNone
  <2>3. PendingKnown' /\ PendingIsTracked'
    BY <1>2, <2>1, <2>2 DEF Places, PendingKnown, PendingIsTracked
  <2>4. ExhaustedIsOfSelection'
    BY <1>2, <2>1 DEF Places, ExhaustedIsOfSelection
  <2>5. Waiting' = Waiting
    BY <1>2, <2>1 DEF Waiting
  <2>6. QED
    BY <1>9, <1>10, <1>11, <2>3, <2>4, <2>5 DEF Places
<1>14. QED
  BY <1>12, <1>13

LEMMA SelectKeepsPlaces ==
  ASSUME LineInv, Places, NEW channel, Select(channel)
  PROVE  Places' /\ NoneIsNew
<1>1. /\ selection' = selection + 1 /\ pending' = << >> /\ exhausted' = FALSE
      /\ UNCHANGED <<counter, taken, held, at, queue, current, ring, lost, ended>>
  BY DEF Select, RestElse, restVars, handleVars, workerVars, ghostVars
<1>2. UNCHANGED <<Waiting, Commands, Known>>
  BY <1>1 DEF Waiting, Commands, Known
<1>3. CommandsApart'
  <2>1. /\ held' \cap Waiting' = {} /\ Distinct(queue') /\ Items(current') \cap Items(queue') = {}
        /\ held' \subseteq held /\ Commands' \subseteq Commands
    BY <1>1, <1>2 DEF Places, CommandsApart
  <2>2. QED
    BY <1>1, <2>1, FewerApart DEF Places
<1>4. ResultsKnown'
  BY <1>1, <1>2 DEF Places, ResultsKnown
<1>5. Items(pending') = {} /\ pending' \in Seq(Asked) /\ Len(pending') = 0
  BY <1>1, ItemsOfNone
<1>6. PendingKnown' /\ PendingIsTracked'
  BY <1>5 DEF PendingKnown, PendingIsTracked
<1>7. ExhaustedIsOfSelection' /\ NoneIsNew
  BY <1>1, <1>2 DEF ExhaustedIsOfSelection, NoneIsNew, Same
<1>8. QED
  BY <1>3, <1>4, <1>6, <1>7 DEF Places

\* A result that is taken completes the request, or is of another one.
LEMMA ObserveKeepsPlaces ==
  ASSUME LineInv, Places, ObserveRest
  PROVE  Places' /\ NoneIsNew
<1> DEFINE r == Head(ring)
           p == Head(pending)
           fits == pending # << >> /\ Completes(r, p)
<1>1. /\ ring # << >> /\ ring' = Tail(ring)
      /\ UNCHANGED <<counter, taken, held, at, queue, current, lost, ended, selected, selection>>
      /\ IF fits
         THEN pending' = << >> /\ exhausted' = IF r.ok THEN r.short ELSE exhausted
         ELSE UNCHANGED <<pending, exhausted>>
  BY DEF ObserveRest, TakeResult, handleVars, workerVars, ghostVars
<1>2. ring \in Seq(Answered)
  BY DEF Places, ResultsKnown
<1>3. /\ ring' \in Seq(Answered) /\ Items(ring) = {r} \cup Items(ring')
      /\ r \in Items(ring) /\ r \in Answered
  BY <1>1, <1>2, HeadAndTail, TailItems
<1>4. pending # << >> => Items(pending) = {p} /\ p \in Asked
  <2> SUFFICES ASSUME pending # << >> PROVE Items(pending) = {p} /\ p \in Asked
    OBVIOUS
  <2>1. pending \in Seq(Asked) /\ Len(pending) <= 1
    BY DEF Places, PendingKnown
  <2>2. QED
    BY <2>1, OnlyItem
<1> HIDE DEF r, p, fits
<1>5. Waiting' = Waiting /\ Commands' = Commands /\ Known' \subseteq Known /\ r \in Known
  BY <1>1, <1>3 DEF Waiting, Commands, Known
<1>6. CommandsApart'
  <2>1. /\ held' \cap Waiting' = {} /\ Distinct(queue') /\ Items(current') \cap Items(queue') = {}
        /\ held' \subseteq held /\ Commands' \subseteq Commands
    BY <1>1, <1>5 DEF Places, CommandsApart
  <2>2. QED
    BY <1>1, <2>1, FewerApart DEF Places
<1>7. ResultsKnown'
  BY <1>1, <1>3, <1>5 DEF Places, ResultsKnown
<1>8. NoneIsNew
  BY <1>1, <1>5 DEF NoneIsNew, Same
<1>9. CASE fits
  <2>1. pending' = << >> /\ Items(pending') = {} /\ pending' \in Seq(Asked) /\ Len(pending') = 0
    BY <1>1, <1>9, ItemsOfNone
  <2>2. PendingKnown' /\ PendingIsTracked'
    BY <2>1 DEF PendingKnown, PendingIsTracked
  <2>3. ExhaustedIsOfSelection'
    <3>1. CASE ~r.ok
      BY <1>1, <1>9, <3>1 DEF Places, ExhaustedIsOfSelection
    <3>2. CASE r.ok
      <4>1. r.channel = p.channel /\ p \in Items(pending)
        BY <1>4, <1>9, <3>2 DEF fits, Completes
      <4>2. r.channel = selected
        BY <4>1 DEF Places, PendingKnown
      <4>3. r.short => selected \in ended
        BY <1>3, <4>2 DEF Places, ResultsKnown
      <4>4. QED
        BY <1>1, <1>9, <3>2, <4>3 DEF ExhaustedIsOfSelection
    <3>3. QED
      BY <3>1, <3>2
  <2>4. QED
    BY <1>6, <1>7, <1>8, <2>2, <2>3 DEF Places
<1>10. CASE ~fits
  <2>1. UNCHANGED <<pending, exhausted>>
    BY <1>1, <1>10
  <2>2. PendingKnown'
    BY <1>1, <1>5, <2>1 DEF Places, PendingKnown
  <2>3. PendingIsTracked'
    <3> SUFFICES ASSUME NEW q \in Items(pending), at # "gone", q.number \notin lost
                 PROVE  \E c \in Waiting' \cup Items(ring') : c.number = q.number
      BY <1>1, <2>1 DEF PendingIsTracked, Waiting
    <3>1. PICK c \in Waiting \cup Items(ring) : c.number = q.number
      BY DEF Places, PendingIsTracked, Waiting
    <3>2. c # r
      <4> SUFFICES ASSUME c = r PROVE FALSE
        OBVIOUS
      <4>1. pending # << >>
        BY ItemsOfNone
      <4>2. q = p
        BY <1>4, <4>1
      <4>3. r.id = q.id /\ r.channel = q.channel /\ q.channel # NoChannel
        BY <1>5, <3>1 DEF Places, PendingKnown
      <4>4. fits
        BY <4>1, <4>2, <4>3 DEF fits, Completes
      <4>5. QED
        BY <1>10, <4>4
    <3>3. QED
      BY <1>3, <1>5, <3>1, <3>2
  <2>4. ExhaustedIsOfSelection'
    BY <1>1, <2>1 DEF Places, ExhaustedIsOfSelection
  <2>5. QED
    BY <1>6, <1>7, <1>8, <2>2, <2>3, <2>4 DEF Places
<1>11. QED
  BY <1>9, <1>10
----------------------------------------------------------------------------
(* All steps                                                               *)

\* The wait for the limit is never shorter than what is left of a reset.
LEMMA HoldStep ==
  ASSUME HoldCoversReset, [Next]_vars
  PROVE  HoldCoversReset'
<1>1. CASE UNCHANGED <<hold, quiet, unheard>> /\ (at' = "response" => at = "response" \/ hold = 0)
  BY <1>1 DEF HoldCoversReset
<1>2. ASSUME NEW reset \in Delays \cup {0}, NEW ok, NEW short, Respond(ok, short, reset)
      PROVE  HoldCoversReset'
  <2>1. /\ at' = "recv" /\ reset \in Nat
        /\ hold' = IF reset = 0 THEN hold ELSE reset
        /\ quiet' = IF reset = 0 THEN quiet ELSE reset
    BY <1>2 DEF Respond, Finish, Publish, RestAssumption
  <2>2. unheard' <=> unheard /\ reset = 0
    BY <1>2, Zenon DEF Respond
  <2>3. QED
    BY <2>1, <2>2 DEF HoldCoversReset
<1>3. ASSUME NEW reset \in Delays \cup {0}, Unreadable(reset)
      PROVE  HoldCoversReset'
  <2>1. /\ at' = "recv" /\ reset \in Nat /\ hold' = hold
        /\ quiet' = IF reset = 0 THEN quiet ELSE reset
    BY <1>3 DEF Unreadable, Finish, Publish, RestAssumption
  <2>2. unheard' <=> unheard \/ reset # 0
    BY <1>3, Zenon DEF Unreadable
  <2>3. QED
    BY <2>1, <2>2 DEF HoldCoversReset
<1>4. ASSUME NEW delay \in Delays, Limited(delay)
      PROVE  HoldCoversReset'
  <2>1. hold' = delay /\ at' = "hold" /\ at = "response" /\ quiet' = quiet /\ unheard' = unheard
        /\ delay \in Nat
    BY <1>4 DEF Limited, ghostVars, RestAssumption
  <2>2. QED
    BY <2>1 DEF HoldCoversReset
<1>5. CASE TickDown
  <2>1. /\ hold' = (IF hold > 0 THEN hold - 1 ELSE 0)
        /\ quiet' = (IF quiet > 0 THEN quiet - 1 ELSE 0) /\ at' = at
        /\ unheard' <=> unheard /\ quiet > 1
    BY <1>5 DEF TickDown
  <2>2. QED
    BY <2>1 DEF HoldCoversReset
<1>10. CASE Abort
  <2>1. quiet' = 0 /\ hold' = 0 /\ at' = "gone"
    BY <1>10 DEF Abort
  <2>2. QED
    BY <2>1 DEF HoldCoversReset
<1>6. CASE Receive \/ SendOnce \/ OtherSends \/ ObserveRest \/ UNCHANGED vars
  BY <1>1, <1>6 DEF Receive, SendOnce, OtherSends, ObserveRest, vars, restVars,
     workerVars, ghostVars
<1>7. ASSUME NEW channel, OtherTakesId(channel) \/ Select(channel)
      PROVE  HoldCoversReset'
  BY <1>1, <1>7 DEF OtherTakesId, Select, RestElse, restVars, workerVars, ghostVars
<1>8. ASSUME NEW mark, Submit(mark)
      PROVE  HoldCoversReset'
  BY <1>1, <1>8 DEF Submit, workerVars
<1>9. QED
  BY <1>2, <1>3, <1>4, <1>5, <1>6, <1>7, <1>8, <1>10
     DEF Next, Worker, WorkerNext, Answer, Passing, Clones, Others, User, TryLoadLatest, TryLoadOlder

LEMMA PlacesStep ==
  ASSUME LineInv, IdsInTurn, Places, Next
  PROVE  /\ Places' /\ (NoneIsNew \/ OneIsNew)
         /\ PagerRests \/ User \/ ObserveRest
<1>1. CASE Receive /\ PagerElse
  BY <1>1, ReceiveKeepsPlaces
<1>2. CASE SendOnce /\ PagerElse
  <2>1. UNCHANGED PlaceVars /\ at # "gone"
    BY <1>2 DEF SendOnce, PagerElse, pagerVars, handleVars, ghostVars, PlaceVars
  <2>2. QED
    BY <2>1, QuietKeepsPlaces
<1>3. ASSUME NEW ok \in BOOLEAN, NEW short \in BOOLEAN, NEW reset \in Delays \cup {0},
             Finish(ok, short, reset), PagerElse
      PROVE  Places' /\ NoneIsNew /\ PagerRests
  BY <1>3, RespondKeepsPlaces
<1>4. ASSUME NEW delay \in Delays, Limited(delay), PagerElse
      PROVE  Places' /\ NoneIsNew /\ PagerRests
  <2>1. UNCHANGED PlaceVars /\ at # "gone"
    BY <1>4 DEF Limited, PagerElse, pagerVars, handleVars, ghostVars, PlaceVars
  <2>2. QED
    BY <2>1, QuietKeepsPlaces
<1>5. CASE Abort /\ PagerElse
  BY <1>5, AbortKeepsPlaces
<1>6. CASE Passing
  <2>1. UNCHANGED PlaceVars /\ UNCHANGED at
    BY <1>6 DEF Passing, TickDown, PagerElse, pagerVars, handleVars, PlaceVars
  <2>2. QED
    BY <2>1, QuietKeepsPlaces
<1>7. CASE OtherSends /\ PagerElse
  BY <1>7, SendsKeepsPlaces
<1>8. ASSUME NEW channel, OtherTakesId(channel), PagerElse
      PROVE  Places' /\ OneIsNew /\ PagerRests
  BY <1>8, TakesIdKeepsPlaces
<1>9. CASE TryLoadLatest
  BY <1>9, SubmitKeepsPlaces DEF TryLoadLatest, User
<1>10. CASE TryLoadOlder
  BY <1>10, SubmitKeepsPlaces DEF TryLoadOlder, User
<1>11. ASSUME NEW channel, Select(channel)
       PROVE  Places' /\ NoneIsNew
  BY <1>11, SelectKeepsPlaces
<1>12. CASE ObserveRest
  BY <1>12, ObserveKeepsPlaces
<1>13. QED
  BY AnswerIs, <1>1, <1>2, <1>3, <1>4, <1>5, <1>6, <1>7, <1>8, <1>9, <1>10, <1>11, <1>12
     DEF Next, Worker, WorkerNext, Clones, Others, User

LEMMA PagerInvInit ==
  ASSUME Init
  PROVE  PagerInv
<1>1. LineInv
  BY LineInit
<1>2. HoldCoversReset
  BY DEF Init, RestInit, HoldCoversReset
<1>3. /\ queue = << >> /\ current = << >> /\ ring = << >> /\ pending = << >> /\ held = {}
      /\ exhausted = FALSE
  BY DEF Init, RestInit
<1>4. Items(queue) = {} /\ Items(current) = {} /\ Items(ring) = {} /\ Items(pending) = {}
  BY <1>3, ItemsOfNone
<1>5. Waiting = {} /\ Commands = {} /\ Known = {}
  BY <1>3, <1>4 DEF Waiting, Commands, Known
<1>6. CommandsApart
  BY <1>3, <1>4, <1>5 DEF CommandsApart, Distinct
<1>7. IdsInTurn /\ IdsFarApart
  BY <1>5 DEF IdsInTurn, IdsFarApart
<1>8. ResultsKnown
  BY <1>3, <1>4 DEF ResultsKnown
<1>9. PendingKnown /\ PendingIsTracked
  BY <1>3, <1>4, EmptySeq DEF PendingKnown, PendingIsTracked
<1>10. ExhaustedIsOfSelection
  BY <1>3 DEF ExhaustedIsOfSelection
<1>11. QED
  BY <1>1, <1>2, <1>6, <1>7, <1>8, <1>9, <1>10 DEF PagerInv

LEMMA PagerInvStep ==
  ASSUME PagerInv, [Next]_vars
  PROVE  PagerInv'
<1>1. LineInv' /\ HoldCoversReset'
  BY LineStep, LineStutter, HoldStep DEF PagerInv
<1>2. Places' /\ (NoneIsNew \/ OneIsNew)
  <2>1. CASE Next
    BY <2>1, PlacesStep DEF PagerInv, Places
  <2>2. CASE UNCHANGED vars
    <3>1. UNCHANGED PlaceVars /\ UNCHANGED at
      BY <2>2 DEF vars, restVars, handleVars, workerVars, ghostVars, pagerVars, PlaceVars
    <3>2. QED
      BY <3>1, QuietKeepsPlaces DEF PagerInv, Places
  <2>3. QED
    BY <2>1, <2>2
<1>3. IdsInTurn' /\ IdsFarApart'
  BY <1>2, IdsWhenNoneIsNew, IdsWhenOneIsNew DEF PagerInv
<1>4. QED
  BY <1>1, <1>2, <1>3 DEF PagerInv, Places

\* Where every request is, in every reachable state.
THEOREM PagerInvAlways == PagerSpec => []PagerInv
<1>1. PagerInv /\ [Next]_vars => PagerInv'
  BY PagerInvStep
<1>2. PagerSpec => Init /\ [][Next]_vars
  BY PTL DEF PagerSpec
<1>3. QED
  BY <1>1, <1>2, PagerInvInit, PTL
----------------------------------------------------------------------------
(* Theorems                                                                *)

\* docs/message-history.md: a response that exhausts the bucket, if its body can
\* be read, delays every later request until its reset, for all delays and
\* however often the server answers with 429 in between (execute and
\* wait_for_rate_limit, rest.rs).
THEOREM ExhaustionAlways == PagerSpec => []ExhaustionHolds
<1>1. PagerInv => ExhaustionHolds
  BY DEF PagerInv, HoldCoversReset, ExhaustionHolds
<1>2. QED
  BY <1>1, PagerInvAlways, PTL

\* Two commands with one id are as far apart as there are ids, for every width
\* of the counter and every number of threads that take ids (next_request_id).
THEOREM IdsAlways == PagerSpec => []IdsRepeatLate
<1>1. PagerInv => IdsRepeatLate
  <2> SUFFICES ASSUME PagerInv, NEW c \in Commands, NEW d \in Commands, c # d, c.id = d.id
               PROVE  c.number - d.number >= IdSpace - 1 \/ d.number - c.number >= IdSpace - 1
    BY DEF IdsRepeatLate, Commands, Waiting
  <2>1. c.number # d.number
    BY DEF PagerInv, CommandsApart
  <2>2. QED
    BY <2>1 DEF PagerInv, IdsFarApart, Known
<1>2. QED
  BY <1>1, PagerInvAlways, PTL

\* A pager never waits for an answer that is nowhere (observe_rest, history.rs).
THEOREM PendingAlways == PagerSpec => []PendingIsTracked
<1>1. PagerInv => PendingIsTracked
  BY DEF PagerInv
<1>2. QED
  BY <1>1, PagerInvAlways, PTL

\* The mark of the beginning is of the channel that is selected, whatever slow
\* results of other channels arrive (select_channel, observe_rest).
THEOREM ExhaustedAlways == PagerSpec => []ExhaustedIsOfSelection
<1>1. PagerInv => ExhaustedIsOfSelection
  BY DEF PagerInv
<1>2. QED
  BY <1>1, PagerInvAlways, PTL
----------------------------------------------------------------------------
(* One request at a time                                                   *)

\* No two requests that are known have the same id: fewer than IdSpace - 1 ids
\* have been taken since the oldest of them.
IdsTellApart == \A c, d \in Known : c.id = d.id => c.number = d.number

\* A pager that stops waiting has its answer: no other result passes for it.
LEMMA WaitingStep ==
  ASSUME PagerInv, WaitingIsPending, IdsTellApart, [Next]_vars
  PROVE  WaitingIsPending'
<1>1. CASE PagerRests
  BY <1>1 DEF PagerRests, WaitingIsPending
<1>2. ASSUME NEW mark, ~mark, Submit(mark)
      PROVE  WaitingIsPending'
  <2>1. selection' = selection /\ Items(pending) = {}
    BY <1>2, ItemsOfNone DEF Submit
  <2>2. \A c \in Waiting' : c \in Waiting \/ \E p \in Items(pending') : p.number = c.number
    BY <1>2, SubmitKeepsPlaces DEF PagerInv, Places
  <2>3. QED
    BY <2>1, <2>2 DEF WaitingIsPending
<1>3. ASSUME NEW channel, Select(channel)
      PROVE  WaitingIsPending'
  <2>1. selection' = selection + 1 /\ Waiting' = Waiting /\ selection \in Nat
    BY <1>3 DEF Select, RestElse, restVars, workerVars, Waiting, PagerInv, LineInv
  <2>2. \A c \in Waiting' : c.by \in 0..selection
    BY <2>1 DEF PagerInv, CommandsApart, Commands
  <2>3. QED
    BY <2>1, <2>2 DEF WaitingIsPending
<1>4. CASE ObserveRest
  <2>1. /\ selection' = selection /\ Waiting' = Waiting /\ ring # << >>
        /\ \/ pending' = pending
           \/ pending # << >> /\ Completes(Head(ring), Head(pending))
    BY <1>4 DEF ObserveRest, TakeResult, workerVars, Waiting
  <2>2. CASE pending' = pending
    BY <2>1, <2>2 DEF WaitingIsPending
  <2>3. CASE pending # << >> /\ Completes(Head(ring), Head(pending))
    <3> SUFFICES ASSUME selection > 0, NEW c \in Waiting, c.by = selection PROVE FALSE
      BY <2>1 DEF WaitingIsPending
    <3>1. PICK p \in Items(pending) : p.number = c.number
      BY DEF WaitingIsPending
    <3>2. p = Head(pending)
      <4>1. pending \in Seq(Asked) /\ Len(pending) <= 1
        BY DEF PagerInv, PendingKnown
      <4>2. QED
        BY <2>3, <4>1, OnlyItem
    <3>3. Head(ring) \in Items(ring)
      BY <2>1, HeadAndTail DEF PagerInv, ResultsKnown
    <3>4. Head(ring).id = c.id
      BY <2>3, <3>1, <3>2 DEF PagerInv, PendingKnown, Completes, Known, Commands
    <3>5. Head(ring).number = c.number
      BY <3>3, <3>4 DEF IdsTellApart, Known, Commands
    <3>6. QED
      BY <3>3, <3>5 DEF PagerInv, ResultsKnown, Commands
  <2>4. QED
    BY <2>1, <2>2, <2>3
<1>5. CASE UNCHANGED vars
  BY <1>5 DEF vars, restVars, workerVars, pagerVars, Waiting, WaitingIsPending
<1>6. CASE User
  <2>1. CASE TryLoadLatest
    BY <1>2, <2>1 DEF TryLoadLatest
  <2>2. CASE TryLoadOlder
    BY <1>2, <2>2 DEF TryLoadOlder
  <2>3. QED
    BY <1>3, <1>6, <2>1, <2>2 DEF User
<1>7. PagerRests \/ User \/ ObserveRest \/ UNCHANGED vars
  <2>1. Places /\ LineInv /\ IdsInTurn
    BY DEF PagerInv, Places
  <2>2. QED
    BY <2>1, PlacesStep
<1>8. QED
  BY <1>1, <1>4, <1>5, <1>6, <1>7

LEMMA WaitingIsOne ==
  ASSUME PagerInv, WaitingIsPending
  PROVE  OneAtATime
<1> SUFFICES ASSUME selection > 0
             PROVE  Cardinality({c \in Waiting : c.by = selection}) <= 1
  BY DEF OneAtATime, Waiting
<1> DEFINE mine == {c \in Waiting : c.by = selection}
<1>1. ASSUME NEW c \in mine, NEW d \in mine PROVE c = d
  <2>1. PICK p \in Items(pending) : p.number = c.number
    BY DEF WaitingIsPending
  <2>2. PICK q \in Items(pending) : q.number = d.number
    BY DEF WaitingIsPending
  <2>3. p = q
    <3>1. pending \in Seq(Asked) /\ Len(pending) <= 1
      BY DEF PagerInv, PendingKnown
    <3>2. pending # << >>
      BY ItemsOfNone
    <3>3. QED
      BY <3>1, <3>2, OnlyItem
  <2>4. c \in Commands /\ d \in Commands
    BY DEF Commands
  <2>5. QED
    BY <2>1, <2>2, <2>3, <2>4 DEF PagerInv, CommandsApart
<1> HIDE DEF mine
<1>2. CASE mine = {}
  BY <1>2, FS_EmptySet DEF mine
<1>3. CASE mine # {}
  <2>1. PICK c \in mine : mine = {c}
    BY <1>1, <1>3
  <2>2. Cardinality(mine) = 1
    BY <2>1, FS_Singleton
  <2>3. QED
    BY <2>2 DEF mine
<1>4. QED
  BY <1>2, <1>3

\* One selection never has two requests with the worker, for as long as ids tell
\* the requests apart that are known (try_submit and observe_rest, history.rs).
THEOREM OneAtATimeWhileApart == PagerSpec /\ []IdsTellApart => []OneAtATime
<1>1. PagerInv /\ WaitingIsPending /\ IdsTellApart /\ [Next]_vars => WaitingIsPending'
  BY WaitingStep
<1>2. Init => WaitingIsPending
  BY DEF Init, WaitingIsPending
<1>3. PagerInv /\ WaitingIsPending => OneAtATime
  BY WaitingIsOne
<1>4. PagerSpec => Init /\ [][Next]_vars
  BY PTL DEF PagerSpec
<1>5. QED
  BY <1>1, <1>2, <1>3, <1>4, PagerInvAlways, PTL

LEMMA TakenWithin == PagerSpec => [](taken <= MaxTaken)
<1>1. Init => taken <= MaxTaken
  BY DEF Init, RestInit, RestAssumption
<1>2. LineInv /\ taken <= MaxTaken /\ [Next]_vars => (taken <= MaxTaken)'
  <2> SUFFICES ASSUME LineInv, taken <= MaxTaken, [Next]_vars PROVE taken' <= MaxTaken
    OBVIOUS
  <2>1. CASE taken' = taken
    BY <2>1
  <2>2. CASE TakeId
    BY <2>2 DEF TakeId, LineInv, RestAssumption
  <2>3. taken' = taken \/ TakeId
    BY DEF Next, Worker, WorkerNext, Receive, SendOnce, Answer, Respond, Unreadable, Finish, Limited, Abort,
       Passing, TickDown, Clones, Others, OtherSends, OtherTakesId, User, TryLoadLatest,
       TryLoadOlder, Submit, Select, RestElse, ObserveRest, vars, restVars, ghostVars
  <2>4. QED
    BY <2>1, <2>2, <2>3
<1>3. PagerInv => LineInv
  BY DEF PagerInv
<1>4. PagerSpec => Init /\ [][Next]_vars
  BY PTL DEF PagerSpec
<1>5. QED
  BY <1>1, <1>2, <1>3, <1>4, PagerInvAlways, PTL

\* The same for every run that takes fewer ids than there are, 2^32 in the code.
THEOREM OneAtATimeAlways ==
  ASSUME MaxTaken < IdSpace
  PROVE  PagerSpec => []OneAtATime
<1>1. PagerInv /\ taken <= MaxTaken => IdsTellApart
  <2> SUFFICES ASSUME PagerInv, taken <= MaxTaken, NEW c \in Known, NEW d \in Known,
                      c.id = d.id, c.number # d.number
               PROVE  FALSE
    BY DEF IdsTellApart
  <2>1. c.number \in 1..taken /\ d.number \in 1..taken /\ taken \in Nat
    BY DEF PagerInv, IdsInTurn, LineInv
  <2>2. c.number - d.number >= IdSpace - 1 \/ d.number - c.number >= IdSpace - 1
    BY DEF PagerInv, IdsFarApart
  <2>3. QED
    BY <2>1, <2>2 DEF RestAssumption
<1>2. QED
  BY <1>1, PagerInvAlways, TakenWithin, OneAtATimeWhileApart, PTL
=============================================================================
