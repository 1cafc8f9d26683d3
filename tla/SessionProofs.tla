---------------------------- MODULE SessionProofs ----------------------------
(***************************************************************************)
(* Two caches on one bus, for every capacity of the ring and every budget. *)
(* The order of the two drains and their equal budgets keep the list of    *)
(* direct messages level with the message cache (FrameLoop); the list      *)
(* keeps its limit and names one channel to evict (DirectTopology).  A     *)
(* session of the graphical client (GuiSession, src/src/gui_app.rs) is a   *)
(* frame loop that drives both caches, so these hold of every session; and *)
(* what is on the way to each cache tells what the cache comes to: which   *)
(* conversations are open, under which name, and with which message.       *)
(***************************************************************************)
EXTENDS GuiSession, FrontendProofs

USE BusAssumption, FrameAssumption, DirectAssumption
----------------------------------------------------------------------------
(* The frame loop *)

Ahead(r) == Len(unread[r])

\* How far the list may be behind in the middle of a frame: by what the message
\* cache has applied in this frame, then by what is left of the list's budget.
LevelWithin ==
  /\ phase \in {"draw", "rest"} => Ahead("direct") <= Ahead("gateway")
  /\ phase = "gateway" => Ahead("direct") <= Ahead("gateway") + processed
  /\ phase = "direct" => Ahead("direct") <= Ahead("gateway") + (Budget - processed)

LoopInv == LoopTypeOK /\ LevelWithin
----------------------------------------------------------------------------
(* What a push and a pop do to what is left to read.                       *)

LEMMA PushBoundedLength ==
  ASSUME NEW S, NEW s \in Seq(S), NEW e \in S, Len(s) <= Capacity
  PROVE  /\ PushBounded(s, e, Capacity) \in Seq(S)
         /\ Len(PushBounded(s, e, Capacity)) =
              IF Len(s) < Capacity THEN Len(s) + 1 ELSE Capacity
<1>1. CASE Len(s) < Capacity
  <2>1. PushBounded(s, e, Capacity) = Append(s, e)
    BY <1>1 DEF PushBounded
  <2>2. QED
    BY <1>1, <2>1
<1>2. CASE Len(s) = Capacity
  <2>1. PushBounded(s, e, Capacity) = Append(Tail(s), e)
    BY <1>2 DEF PushBounded
  <2>2. s # << >>
    BY <1>2
  <2>3. Tail(s) \in Seq(S) /\ Len(Tail(s)) = Len(s) - 1
    BY <2>2
  <2>4. QED
    BY <1>2, <2>1, <2>3
<1>3. QED
  BY <1>1, <1>2

LEMMA LoopInitInv == LoopInit => LoopInv
<1>1. << >> \in Seq(Events) /\ Len(<< >>) = 0
  OBVIOUS
<1>2. QED
  BY <1>1 DEF LoopInit, BusInit, FrameInit, LoopInv, LoopTypeOK, LevelWithin, Ahead

\* emit, at any moment of the frame: both receivers have one event more to read,
\* unless the ring is full for them.
LEMMA EmitInv ==
  ASSUME LoopInv, Emit
  PROVE  LoopInv'
<1>1. PICK e \in Events : Send(e) /\ UNCHANGED frameVars
  BY DEF Emit
<1>2. phase' = phase /\ processed' = processed /\ lagged' = lagged
  BY <1>1 DEF Send, frameVars
<1>3. \A r \in Receivers :
        /\ unread'[r] \in Seq(Events)
        /\ Len(unread'[r]) = IF Len(unread[r]) < Capacity THEN Len(unread[r]) + 1 ELSE Capacity
  <2> SUFFICES ASSUME NEW r \in Receivers
               PROVE  /\ unread'[r] \in Seq(Events)
                      /\ Len(unread'[r]) =
                           IF Len(unread[r]) < Capacity THEN Len(unread[r]) + 1 ELSE Capacity
    OBVIOUS
  <2>1. unread[r] \in Seq(Events) /\ Len(unread[r]) <= Capacity
    BY DEF LoopInv, LoopTypeOK
  <2>2. unread'[r] = PushBounded(unread[r], e, Capacity)
    BY <1>1 DEF Send
  <2>3. QED
    BY <2>1, <2>2, PushBoundedLength
<1>4. unread' \in [Receivers -> Seq(Events)]
  BY <1>1, <1>3 DEF Send
<1>5. \A r \in Receivers : Len(unread[r]) \in 0..Capacity
  BY DEF LoopInv, LoopTypeOK
<1>6. missed' = [r \in Receivers |-> missed[r] \/ Len(unread[r]) = Capacity]
  BY <1>1 DEF Send
<1>7. missed' \in [Receivers -> BOOLEAN]
  BY <1>6, Zenon
<1>8. \A r \in Receivers : missed'[r] => Len(unread'[r]) = Capacity
  <2> SUFFICES ASSUME NEW r \in Receivers, missed'[r]
               PROVE  Len(unread'[r]) = Capacity
    OBVIOUS
  <2>1. missed[r] \/ Len(unread[r]) = Capacity
    BY <1>6
  <2>2. Len(unread[r]) = Capacity
    BY <2>1 DEF LoopInv, LoopTypeOK
  <2>3. QED
    BY <1>3, <2>2
<1>9. LoopTypeOK'
  BY <1>2, <1>3, <1>4, <1>5, <1>7, <1>8 DEF LoopInv, LoopTypeOK
<1>10. LevelWithin'
  <2> DEFINE g == Len(unread["gateway"])
             d == Len(unread["direct"])
             Pushed(n) == IF n < Capacity THEN n + 1 ELSE Capacity
  <2>1. "gateway" \in Receivers /\ "direct" \in Receivers
    BY FrameAssumption
  <2>2. g \in 0..Capacity /\ d \in 0..Capacity /\ Capacity \in Nat /\ Budget \in Nat
    BY <1>5, <2>1
  <2>3. Len(unread'["gateway"]) = Pushed(g) /\ Len(unread'["direct"]) = Pushed(d)
    BY <1>3, <2>1
  <2>4. processed \in 0..Budget
    BY DEF LoopInv, LoopTypeOK
  <2> HIDE DEF g, d
  <2>5. \A n \in 0..Budget : d <= g + n => Pushed(d) <= Pushed(g) + n
    BY <2>2
  <2>6. d <= g => Pushed(d) <= Pushed(g)
    BY <2>2
  <2>7. Budget - processed \in 0..Budget
    BY <2>2, <2>4
  <2> HIDE DEF Pushed
  <2>8. CASE phase \in {"draw", "rest"}
    <3>1. d <= g
      BY <2>8 DEF LoopInv, LevelWithin, Ahead, g, d
    <3>2. QED
      BY <1>2, <2>3, <2>6, <2>8, <3>1 DEF LevelWithin, Ahead
  <2>9. CASE phase = "gateway"
    <3>1. d <= g + processed
      BY <2>9 DEF LoopInv, LevelWithin, Ahead, g, d
    <3>2. QED
      BY <1>2, <2>3, <2>4, <2>5, <2>9, <3>1 DEF LevelWithin, Ahead
  <2>10. CASE phase = "direct"
    <3>1. d <= g + (Budget - processed)
      BY <2>10 DEF LoopInv, LevelWithin, Ahead, g, d
    <3>2. QED
      BY <1>2, <2>3, <2>5, <2>7, <2>10, <3>1 DEF LevelWithin, Ahead
  <2>11. QED
    BY <2>8, <2>9, <2>10 DEF LoopInv, LoopTypeOK
<1>11. QED
  BY <1>9, <1>10 DEF LoopInv

\* Lagged: what is left to read stays as it is.
LEMMA SkipLostInv ==
  ASSUME LoopInv, NEW r \in Receivers, SkipLost(r)
  PROVE  LoopInv'
<1>1. /\ unread' = unread /\ phase' = phase /\ processed' = processed
      /\ missed' = [missed EXCEPT ![r] = FALSE]
      /\ lagged' = [lagged EXCEPT ![r] = TRUE]
  BY DEF SkipLost, TellLag, frameVars
<1>2. missed' \in [Receivers -> BOOLEAN] /\ lagged' \in [Receivers -> BOOLEAN]
  BY <1>1 DEF LoopInv, LoopTypeOK
<1>3. \A q \in Receivers : missed'[q] => missed[q]
  BY <1>1 DEF LoopInv, LoopTypeOK
<1>4. LoopTypeOK'
  BY <1>1, <1>2, <1>3 DEF LoopInv, LoopTypeOK
<1>5. LevelWithin'
  BY <1>1 DEF LoopInv, LevelWithin, Ahead
<1>6. QED
  BY <1>4, <1>5 DEF LoopInv

LEMMA OneReadOneSpent ==
  ASSUME NEW d \in Nat, NEW g \in Nat, NEW p \in Nat, d <= g + p
  PROVE  d <= (g - 1) + (p + 1)
OBVIOUS

\* Ok: the receiver whose turn it is has one event less to read and one less to
\* spend.
LEMMA DrainInv ==
  ASSUME LoopInv, NEW r \in Receivers, Drain(r)
  PROVE  LoopInv'
<1>1. /\ phase = r /\ phase' = phase
      /\ processed < Budget /\ processed' = processed + 1
      /\ ~missed[r] /\ unread[r] # << >>
      /\ unread' = [unread EXCEPT ![r] = Tail(@)]
      /\ missed' = missed /\ lagged' = lagged
  BY DEF Drain, ReadNext, IsOk
<1>2. unread \in [Receivers -> Seq(Events)]
  BY DEF LoopInv, LoopTypeOK
<1>3. Tail(unread[r]) \in Seq(Events) /\ Len(Tail(unread[r])) = Len(unread[r]) - 1
  BY <1>1, <1>2
<1>4. unread' \in [Receivers -> Seq(Events)]
  BY <1>1, <1>2, <1>3
<1>5. /\ Len(unread'[r]) = Len(unread[r]) - 1
      /\ \A q \in Receivers : q # r => unread'[q] = unread[q]
  BY <1>1, <1>2, <1>3
<1>6. processed \in 0..Budget /\ processed' \in 0..Budget /\ processed \in Nat
  BY <1>1 DEF LoopInv, LoopTypeOK
<1>7. \A q \in Receivers : Len(unread[q]) \in 0..Capacity
  BY <1>2 DEF LoopInv, LoopTypeOK
<1>8. processed' = processed + 1
  BY <1>1
<1>9. LoopTypeOK'
  <2>1. \A q \in Receivers : Len(unread'[q]) <= Capacity
    BY <1>5, <1>7
  <2>2. \A q \in Receivers : missed'[q] => Len(unread'[q]) = Capacity
    BY <1>1, <1>5 DEF LoopInv, LoopTypeOK
  <2>3. QED
    BY <1>1, <1>4, <1>6, <2>1, <2>2 DEF LoopInv, LoopTypeOK
<1>10. LevelWithin'
  <2>1. CASE r = "gateway"
    <3>1. Len(unread'["gateway"]) = Len(unread["gateway"]) - 1
      BY <1>5, <2>1
    <3>2. Len(unread'["direct"]) = Len(unread["direct"])
      BY <1>5, <2>1
    <3>3. phase = "gateway" /\ phase' = "gateway"
      BY <1>1, <2>1
    <3>4. Len(unread["direct"]) <= Len(unread["gateway"]) + processed
      BY <3>3 DEF LoopInv, LevelWithin, Ahead
    <3>5. Len(unread["direct"]) \in Nat /\ Len(unread["gateway"]) \in Nat
      BY <1>7
    <3>6. Len(unread["direct"]) <= (Len(unread["gateway"]) - 1) + (processed + 1)
      BY ONLY <1>6, <3>4, <3>5, OneReadOneSpent
    <3>7. Len(unread'["direct"]) <= Len(unread'["gateway"]) + processed'
      BY <1>8, <3>1, <3>2, <3>6
    <3>8. QED
      BY <3>3, <3>7 DEF LevelWithin, Ahead
  <2>2. CASE r = "direct"
    <3>1. Len(unread'["direct"]) = Len(unread["direct"]) - 1
      BY <1>5, <2>2
    <3>2. Len(unread'["gateway"]) = Len(unread["gateway"])
      BY <1>5, <2>2
    <3>3. phase = "direct" /\ phase' = "direct"
      BY <1>1, <2>2
    <3>4. Len(unread["direct"]) <= Len(unread["gateway"]) + (Budget - processed)
      BY <3>3 DEF LoopInv, LevelWithin, Ahead
    <3>5. Len(unread["direct"]) \in Nat /\ Len(unread["gateway"]) \in Nat
      BY <1>7
    <3>6. Len(unread'["direct"]) <= Len(unread'["gateway"]) + (Budget - processed')
      BY <1>8, <1>6, <3>1, <3>2, <3>4, <3>5
    <3>7. QED
      BY <3>3, <3>6 DEF LevelWithin, Ahead
  <2>3. QED
    BY <2>1, <2>2
<1>11. QED
  BY <1>9, <1>10 DEF LoopInv

\* A drain, or the frame, goes on to what comes next.
LEMMA ProceedInv ==
  ASSUME LoopInv, phase' = Then[phase], processed' = 0, UNCHANGED busVars,
         phase \in Receivers => processed = Budget \/ IsEmpty(phase)
  PROVE  LoopInv'
<1>1. unread' = unread /\ missed' = missed /\ lagged' = lagged
  BY DEF busVars
<1>2. phase \in {"draw", "gateway", "direct", "rest"}
  BY DEF LoopInv, LoopTypeOK
<1>3. /\ phase = "draw" => phase' = "gateway"
      /\ phase = "gateway" => phase' = "direct"
      /\ phase = "direct" => phase' = "rest"
      /\ phase = "rest" => phase' = "draw"
  BY DEF Then
<1>4. LoopTypeOK'
  BY <1>1, <1>2, <1>3 DEF LoopInv, LoopTypeOK
<1>5. /\ processed \in 0..Budget
      /\ Ahead("direct") \in 0..Capacity /\ Ahead("gateway") \in 0..Capacity
  BY DEF LoopInv, LoopTypeOK, Ahead
<1>6. Ahead("direct")' = Ahead("direct") /\ Ahead("gateway")' = Ahead("gateway")
  BY <1>1 DEF Ahead
<1>7. phase = "direct" => Ahead("direct") <= Ahead("gateway")
  <2>1. CASE phase = "direct" /\ processed = Budget
    BY <2>1, <1>5 DEF LoopInv, LevelWithin
  <2>2. CASE phase = "direct" /\ IsEmpty(phase)
    <3>1. Ahead("direct") = 0
      BY <2>2 DEF IsEmpty, Ahead
    <3>2. QED
      BY <3>1, <1>5
  <2>3. QED
    BY <2>1, <2>2
<1>8. phase = "gateway" => Ahead("direct") <= Ahead("gateway") + (Budget - 0)
  BY <1>5 DEF LoopInv, LevelWithin
<1>9. LevelWithin'
  BY <1>2, <1>3, <1>5, <1>6, <1>7, <1>8 DEF LoopInv, LevelWithin
<1>10. QED
  BY <1>4, <1>9 DEF LoopInv
----------------------------------------------------------------------------
LEMMA LoopStepInv ==
  ASSUME LoopInv, [LoopNext]_LoopVars
  PROVE  LoopInv'
<1>1. CASE StartFrame
  BY <1>1, ProceedInv DEF StartFrame, Proceed
<1>2. ASSUME NEW r \in Receivers, Drain(r) PROVE LoopInv'
  BY <1>2, DrainInv
<1>3. ASSUME NEW r \in Receivers, SkipLost(r) PROVE LoopInv'
  BY <1>3, SkipLostInv
<1>4. ASSUME NEW r \in Receivers, EndDrain(r) PROVE LoopInv'
  BY <1>4, ProceedInv DEF EndDrain, Proceed
<1>5. CASE EndRest
  BY <1>5, ProceedInv DEF EndRest, Proceed
<1>6. CASE Emit
  BY <1>6, EmitInv
<1>7. CASE UNCHANGED LoopVars
  BY <1>7 DEF LoopVars, busVars, frameVars, LoopInv, LoopTypeOK, LevelWithin, Ahead
<1>8. QED
  BY <1>1, <1>2, <1>3, <1>4, <1>5, <1>6, <1>7 DEF LoopNext, Poll

THEOREM LoopInvAlways == LoopSpec => []LoopInv
<1>1. LoopInv /\ [LoopNext]_LoopVars => LoopInv'
  BY LoopStepInv
<1>2. QED
  BY LoopInitInv, <1>1, PTL DEF LoopSpec

\* No receiver has more to read than the ring holds, one that was overtaken has
\* all of it, and no drain exceeds its budget (EventBus, GuiSession::poll).
THEOREM LoopTypesAlways == LoopSpec => []LoopTypeOK
<1>1. LoopInv => LoopTypeOK
  BY DEF LoopInv
<1>2. QED
  BY <1>1, LoopInvAlways, PTL

\* No frame is drawn in which the list of direct messages stands behind the
\* message cache in the stream of events, for every capacity and every budget and
\* with any number of losses, which move a receiver on as reading does
\* (GuiSession::poll).
THEOREM DirectNeverBehind == LoopSpec => []DirectNotBehind
<1>1. LoopInv => DirectNotBehind
  BY DEF LoopInv, LevelWithin, Ahead, DirectNotBehind
<1>2. QED
  BY <1>1, LoopInvAlways, PTL
----------------------------------------------------------------------------
(* The list of direct messages *)

\* DirectBounded of a list d and a clock now, so that a list in the middle of a
\* handler can be spoken of.
ListWithin(d, now) ==
  /\ now \in Nat
  /\ DOMAIN d \subseteq Conversations
  /\ d \in [DOMAIN d -> DirectChannel]
  /\ IsFiniteSet(DOMAIN d)
  /\ Cardinality(DOMAIN d) <= MaxDirect
  /\ \A c \in DOMAIN d : d[c].touched <= now
  /\ \A c, e \in DOMAIN d : d[c].touched = d[e].touched => c = e

LEMMA ListIsWithin == DirectBounded <=> ListWithin(direct, directClock)
BY DEF DirectBounded, DirectTypeOK, ListWithin

\* A list with channels has one that was touched longest ago.
LEMMA LeastRecentListed ==
  ASSUME DirectBounded, DOMAIN direct # {}
  PROVE  LeastRecentDirect \in DOMAIN direct
<1> DEFINE stamps == {direct[c].touched : c \in DOMAIN direct}
<1>1. stamps \in SUBSET Nat /\ stamps # {}
  BY DEF DirectBounded, DirectTypeOK, DirectChannel
<1>2. PICK t \in stamps : \A u \in stamps : t <= u
  BY <1>1, LeastNatural
<1>3. PICK c \in DOMAIN direct : direct[c].touched = t
  BY <1>2
<1>4. \A d \in DOMAIN direct : direct[c].touched <= direct[d].touched
  BY <1>2, <1>3
<1>5. QED
  BY <1>4 DEF LeastRecentDirect

\* A channel with the newest stamp, put among channels that leave it room, keeps
\* the list within its bounds.
LEMMA PutListed ==
  ASSUME NEW now, NEW d, ListWithin(d, now),
         NEW room \in SUBSET DOMAIN d, NEW c \in Conversations,
         NEW new \in DirectChannel, new.touched = now + 1,
         c \in room \/ Cardinality(room) < MaxDirect
  PROVE  ListWithin([e \in room \cup {c} |-> IF e = c THEN new ELSE d[e]], now + 1)
<1> DEFINE after == [e \in room \cup {c} |-> IF e = c THEN new ELSE d[e]]
<1>1. DOMAIN after = room \cup {c}
  OBVIOUS
<1>2. /\ IsFiniteSet(room) /\ Cardinality(room) <= Cardinality(DOMAIN d)
      /\ Cardinality(room) \in Nat /\ Cardinality(DOMAIN d) \in Nat
  BY FS_Subset, FS_CardinalityType DEF ListWithin
<1>3. /\ IsFiniteSet(room \cup {c})
      /\ Cardinality(room \cup {c}) =
           IF c \in room THEN Cardinality(room) ELSE Cardinality(room) + 1
  BY <1>2, FS_AddElement
<1>4. Cardinality(room \cup {c}) <= MaxDirect
  BY <1>2, <1>3 DEF ListWithin
<1>5. \A e \in room \cup {c} : after[e] = IF e = c THEN new ELSE d[e]
  OBVIOUS
<1>6. \A e \in room : d[e] \in DirectChannel /\ d[e].touched \in Nat /\ d[e].touched <= now
  BY DEF ListWithin, DirectChannel
<1>7. after \in [room \cup {c} -> DirectChannel]
  BY <1>5, <1>6
<1>8. \A e \in room \cup {c} : after[e].touched = IF e = c THEN now + 1 ELSE d[e].touched
  BY <1>5
<1>9. now \in Nat
  BY DEF ListWithin
<1> HIDE DEF after
<1>10. \A e \in DOMAIN after : after[e].touched <= now + 1
  BY <1>1, <1>6, <1>8, <1>9
<1>11. \A e, f \in DOMAIN after : after[e].touched = after[f].touched => e = f
  <2> SUFFICES ASSUME NEW e \in room \cup {c}, NEW f \in room \cup {c},
                      after[e].touched = after[f].touched
               PROVE  e = f
    BY <1>1
  <2>1. CASE e = c /\ f = c
    BY <2>1
  <2>2. CASE e # c /\ f # c
    BY <2>2, <1>8 DEF ListWithin
  <2>3. CASE e = c /\ f # c
    BY <2>3, <1>6, <1>8, <1>9
  <2>4. CASE e # c /\ f = c
    BY <2>4, <1>6, <1>8, <1>9
  <2>5. QED
    BY <2>1, <2>2, <2>3, <2>4
<1>12. DOMAIN after \subseteq Conversations
  BY <1>1 DEF ListWithin
<1>13. now + 1 \in Nat
  BY <1>9
<1>14. ListWithin(after, now + 1)
  BY <1>1, <1>3, <1>4, <1>7, <1>10, <1>11, <1>12, <1>13 DEF ListWithin
<1>15. QED
  BY <1>14 DEF after
----------------------------------------------------------------------------
LEMMA DirectInitBounded == DirectInit => DirectBounded
<1>1. ASSUME DirectInit PROVE DirectBounded
  <2>1. DOMAIN direct = {} /\ directClock = 0
    BY <1>1 DEF DirectInit
  <2>2. IsFiniteSet({}) /\ Cardinality({}) = 0
    BY FS_EmptySet
  <2>3. direct \in [DOMAIN direct -> DirectChannel]
    BY <1>1 DEF DirectInit
  <2>4. QED
    BY <2>1, <2>2, <2>3 DEF DirectBounded, DirectTypeOK
<1>2. QED
  BY <1>1

\* upsert: the full list first lets the least recently used channel go.
LEMMA UpsertBounded ==
  ASSUME DirectBounded, NEW c \in Conversations, NEW u \in Users \cup {NoRecipient},
         UpsertDirect(c, u)
  PROVE  DirectBounded'
<1> DEFINE room == IF Listed(c) \/ Cardinality(DOMAIN direct) < MaxDirect THEN DOMAIN direct
                   ELSE DOMAIN direct \ {LeastRecentDirect}
           new == [recipient |-> u, touched |-> directClock + 1]
<1>1. /\ directClock' = directClock + 1
      /\ direct' = [d \in room \cup {c} |-> IF d = c THEN new ELSE direct[d]]
  BY DEF UpsertDirect
<1>2. ListWithin(direct, directClock)
  BY ListIsWithin
<1>3. room \in SUBSET DOMAIN direct
  OBVIOUS
<1>4. new \in DirectChannel /\ new.touched = directClock + 1
  BY <1>2 DEF ListWithin, DirectChannel
<1>5. c \in room \/ Cardinality(room) < MaxDirect
  <2>1. CASE Listed(c) \/ Cardinality(DOMAIN direct) < MaxDirect
    BY <2>1 DEF Listed
  <2>2. CASE ~(Listed(c) \/ Cardinality(DOMAIN direct) < MaxDirect)
    <3>1. /\ IsFiniteSet(DOMAIN direct) /\ Cardinality(DOMAIN direct) \in Nat
          /\ Cardinality(DOMAIN direct) <= MaxDirect
      BY <1>2, FS_CardinalityType DEF ListWithin
    <3>2. DOMAIN direct # {}
      BY <2>2, <3>1, FS_EmptySet
    <3>3. LeastRecentDirect \in DOMAIN direct
      BY <3>2, LeastRecentListed
    <3>4. Cardinality(DOMAIN direct \ {LeastRecentDirect}) = Cardinality(DOMAIN direct) - 1
      BY <3>1, <3>3, FS_RemoveElement
    <3>5. QED
      BY <2>2, <3>1, <3>4
  <2>3. QED
    BY <2>1, <2>2
<1> HIDE DEF room, new
<1>6. ListWithin(direct', directClock')
  BY <1>1, <1>2, <1>3, <1>4, <1>5, PutListed
<1>7. QED
  BY <1>6 DEF DirectBounded, DirectTypeOK, ListWithin

\* DirectChannelDelete
LEMMA RemoveBounded ==
  ASSUME DirectBounded, NEW c, RemoveDirect(c)
  PROVE  DirectBounded'
<1>1. /\ direct' = [d \in DOMAIN direct \ {c} |-> direct[d]]
      /\ directClock' = directClock
  BY DEF RemoveDirect
<1>2. /\ DOMAIN direct' = DOMAIN direct \ {c}
      /\ \A d \in DOMAIN direct' : direct'[d] = direct[d]
  BY <1>1
<1>3. /\ IsFiniteSet(DOMAIN direct')
      /\ Cardinality(DOMAIN direct') <= Cardinality(DOMAIN direct)
      /\ Cardinality(DOMAIN direct') \in Nat /\ Cardinality(DOMAIN direct) \in Nat
  BY <1>2, FS_Subset, FS_CardinalityType DEF DirectBounded
<1>4. direct' \in [DOMAIN direct' -> DirectChannel]
  BY <1>1, <1>2 DEF DirectBounded, DirectTypeOK
<1>5. Cardinality(DOMAIN direct') <= MaxDirect
  BY <1>3 DEF DirectBounded
<1>6. QED
  BY <1>1, <1>2, <1>3, <1>4, <1>5 DEF DirectBounded, DirectTypeOK

\* touch: a listed channel takes the newest stamp, its recipient stays.
LEMMA TouchListBounded ==
  ASSUME DirectBounded, NEW c \in Conversations, TouchDirect(c)
  PROVE  DirectBounded'
<1>1. CASE UNCHANGED directVars
  BY <1>1 DEF directVars, DirectBounded, DirectTypeOK
<1>2. CASE /\ Listed(c)
           /\ directClock' = directClock + 1
           /\ direct' = [direct EXCEPT ![c].touched = directClock']
  <2> DEFINE new == [direct[c] EXCEPT !.touched = directClock + 1]
  <2>1. ListWithin(direct, directClock)
    BY ListIsWithin
  <2>2. c \in DOMAIN direct /\ direct[c] \in DirectChannel /\ directClock + 1 \in Nat
    BY <1>2, <2>1 DEF Listed, ListWithin
  <2>3. new \in DirectChannel /\ new.touched = directClock + 1
    BY <2>2 DEF DirectChannel
  <2>4. direct' = [d \in DOMAIN direct \cup {c} |-> IF d = c THEN new ELSE direct[d]]
    BY <1>2, <2>1, <2>2 DEF ListWithin
  <2> HIDE DEF new
  <2> DEFINE room == DOMAIN direct
  <2>5. room \in SUBSET DOMAIN direct /\ c \in room
    BY <2>2
  <2> HIDE DEF room
  <2>6. ListWithin([d \in room \cup {c} |-> IF d = c THEN new ELSE direct[d]],
                   directClock + 1)
    BY <2>1, <2>3, <2>5, PutListed
  <2>7. ListWithin(direct', directClock')
    BY <1>2, <2>4, <2>6 DEF room
  <2>8. QED
    BY <2>7 DEF DirectBounded, DirectTypeOK, ListWithin
<1>3. QED
  BY <1>1, <1>2 DEF TouchDirect
----------------------------------------------------------------------------
\* The list is within its limit and its eviction has one victim, whatever is
\* announced, deleted and written in whatever order.
THEOREM DirectBoundedAlways == DirectSpec => []DirectBounded
<1>1. DirectBounded /\ [DirectNext]_directVars => DirectBounded'
  <2> SUFFICES ASSUME DirectBounded, [DirectNext]_directVars PROVE DirectBounded'
    OBVIOUS
  <2>1. ASSUME NEW c \in Conversations, NEW u \in Users \cup {NoRecipient}, UpsertDirect(c, u)
        PROVE  DirectBounded'
    BY <2>1, UpsertBounded
  <2>2. ASSUME NEW c \in Conversations, RemoveDirect(c) PROVE DirectBounded'
    BY <2>2, RemoveBounded
  <2>3. ASSUME NEW c \in Conversations, TouchDirect(c) PROVE DirectBounded'
    BY <2>3, TouchListBounded
  <2>4. CASE UNCHANGED directVars
    BY <2>4 DEF directVars, DirectBounded, DirectTypeOK
  <2>5. QED
    BY <2>1, <2>2, <2>3, <2>4 DEF DirectNext
<1>2. QED
  BY <1>1, DirectInitBounded, PTL DEF DirectSpec
----------------------------------------------------------------------------
(* A session *)

\* What the Gateway task has still to send are events, and the watch of the
\* current user holds a user or nothing.
OutboxOK == outbox \in Seq(Events) /\ selfUser \in Users \cup {Absent}

SessionInv == OutboxOK /\ LoopInv /\ DirectBounded
----------------------------------------------------------------------------
\* The Gateway task turns a dispatch into events.
LEMMA OutboxStep ==
  ASSUME OutboxOK, [SessionNext]_sessionVars
  PROVE  OutboxOK'
<1>1. ASSUME NEW d \in Dispatches, ReadDispatch(d) PROVE OutboxOK'
  <2>1. selfUser' = SelfAfter(d, selfUser) /\ outbox' = EventsOf(d, selfUser')
    BY <1>1 DEF ReadDispatch
  <2>2. selfUser' \in Users \cup {Absent}
    BY <2>1, DispatchAssumption DEF OutboxOK
  <2>3. outbox' \in Seq(Events)
    BY <2>1, <2>2, DispatchAssumption
  <2>4. QED
    BY <2>2, <2>3 DEF OutboxOK
<1>2. CASE SendEvent
  <2>1. outbox # << >> /\ outbox' = Tail(outbox) /\ selfUser' = selfUser
    BY <1>2 DEF SendEvent
  <2>2. QED
    BY <2>1 DEF OutboxOK
<1>3. CASE PollStep \/ User
  <2>1. UNCHANGED <<outbox, selfUser>>
    BY <1>3 DEF PollStep, User, DrainGateway, DrainDirect, DrainRest, PollElse,
                SelectChannel, Deselect, gatewayVars
  <2>2. QED
    BY <2>1 DEF OutboxOK
<1>4. CASE UNCHANGED sessionVars
  BY <1>4 DEF sessionVars, gatewayVars, OutboxOK
<1>5. QED
  BY <1>1, <1>2, <1>3, <1>4 DEF SessionNext, Gateway

\* As far as bus, phase and budget go a step of the session is one of the loop.
LEMMA LoopStep ==
  ASSUME OutboxOK, [SessionNext]_sessionVars
  PROVE  [LoopNext]_LoopVars
<1>1. ASSUME NEW d \in Dispatches, ReadDispatch(d) PROVE UNCHANGED LoopVars
  BY <1>1 DEF ReadDispatch
<1>2. CASE SendEvent
  <2>1. Send(Head(outbox)) /\ outbox # << >> /\ UNCHANGED frameVars
    BY <1>2 DEF SendEvent
  <2>2. Head(outbox) \in Events
    BY <2>1 DEF OutboxOK
  <2>3. Emit
    BY <2>1, <2>2 DEF Emit
  <2>4. QED
    BY <2>3 DEF LoopNext
<1>3. CASE DrainGateway \/ DrainDirect
  <2>1. "gateway" \in Receivers /\ "direct" \in Receivers
    BY FrameAssumption
  <2>2. \E r \in Receivers : Drain(r)
    BY <1>3, <2>1 DEF DrainGateway, DrainDirect
  <2>3. QED
    BY <2>2 DEF LoopNext, Poll
<1>4. CASE DrainRest
  BY <1>4 DEF DrainRest
<1>5. CASE PollElse
  BY <1>5 DEF PollElse, LoopNext, Poll
<1>6. CASE User
  BY <1>6 DEF User, SelectChannel, Deselect
<1>7. CASE UNCHANGED sessionVars
  BY <1>7 DEF sessionVars
<1>8. QED
  BY <1>1, <1>2, <1>3, <1>4, <1>5, <1>6, <1>7 DEF SessionNext, Gateway, PollStep

\* What a receiver reads next is an event.
LEMMA NextIsEvent ==
  ASSUME LoopInv, NEW r \in Receivers, IsOk(r)
  PROVE  NextEvent(r) \in Events
<1>1. unread[r] \in Seq(Events) /\ unread[r] # << >>
  BY DEF LoopInv, LoopTypeOK, IsOk
<1>2. QED
  BY <1>1 DEF NextEvent

\* Only the drain of the list changes the list, by an event of the bus.
LEMMA ListStep ==
  ASSUME LoopInv, DirectBounded, [SessionNext]_sessionVars
  PROVE  DirectBounded'
<1>1. CASE DrainDirect
  <2> DEFINE e == NextEvent("direct")
  <2>1. Drain("direct") /\ ApplyDirect(e)
    BY <1>1 DEF DrainDirect
  <2>2. e \in Events
    BY <2>1, NextIsEvent, FrameAssumption DEF Drain, ReadNext
  <2> HIDE DEF e
  <2>3. ASSUME e.kind \in {"DirectChannelCreate", "DirectChannelUpdate"},
               UpsertDirect(e.id, e.recipient)
        PROVE  DirectBounded'
    <3>1. e.id \in Conversations /\ e.recipient \in Users \cup {NoRecipient}
      BY <2>2, <2>3, DispatchAssumption DEF FieldsTyped
    <3>2. QED
      BY <2>3, <3>1, UpsertBounded
  <2>4. ASSUME RemoveDirect(e.id) PROVE DirectBounded'
    BY <2>4, RemoveBounded
  <2>5. ASSUME TouchDirect(e.channel) PROVE DirectBounded'
    <3>1. CASE UNCHANGED directVars
      BY <3>1 DEF directVars, DirectBounded, DirectTypeOK
    <3>2. CASE Listed(e.channel)
      <4>1. e.channel \in Conversations
        BY <3>2 DEF Listed, DirectBounded, DirectTypeOK
      <4>2. QED
        BY <2>5, <4>1, TouchListBounded
    <3>3. QED
      BY <2>5, <3>1, <3>2 DEF TouchDirect
  <2>6. CASE UNCHANGED directVars
    BY <2>6 DEF directVars, DirectBounded, DirectTypeOK
  <2>7. QED
    BY <2>1, <2>3, <2>4, <2>5, <2>6 DEF ApplyDirect
<1>2. ASSUME UNCHANGED directVars PROVE DirectBounded'
  BY <1>2 DEF directVars, DirectBounded, DirectTypeOK
<1>3. ASSUME NEW d \in Dispatches, ReadDispatch(d) PROVE UNCHANGED directVars
  BY <1>3 DEF ReadDispatch, cacheVars
<1>4. SendEvent \/ DrainGateway \/ DrainRest \/ PollElse \/ User => UNCHANGED directVars
  BY DEF SendEvent, DrainGateway, DrainRest, PollElse, User, SelectChannel, Deselect, cacheVars
<1>5. UNCHANGED sessionVars => UNCHANGED directVars
  BY DEF sessionVars, cacheVars
<1>6. QED
  BY <1>1, <1>2, <1>3, <1>4, <1>5 DEF SessionNext, Gateway, PollStep

LEMMA SessionInvAlways == SessionSpec => []SessionInv
<1>1. SessionInit => SessionInv
  <2> SUFFICES ASSUME SessionInit PROVE SessionInv
    OBVIOUS
  <2>1. OutboxOK
    BY DEF SessionInit, OutboxOK
  <2>2. LoopInv /\ DirectBounded
    BY LoopInitInv, DirectInitBounded DEF SessionInit
  <2>3. QED
    BY <2>1, <2>2 DEF SessionInv
<1>2. SessionInv /\ [SessionNext]_sessionVars => SessionInv'
  BY OutboxStep, LoopStep, LoopStepInv, ListStep DEF SessionInv
<1>3. QED
  BY <1>1, <1>2, PTL DEF SessionSpec
----------------------------------------------------------------------------
\* Every session is a behaviour of the frame loop, whatever events mean.
THEOREM SessionIsLoop == SessionSpec => LoopSpec
<1>1. SessionInit => LoopInit
  BY DEF SessionInit
<1>2. SessionInv /\ [SessionNext]_sessionVars => [LoopNext]_LoopVars
  BY LoopStep DEF SessionInv
<1>3. QED
  BY <1>1, <1>2, SessionInvAlways, PTL DEF SessionSpec, LoopSpec

\* In every frame of every session the list of direct messages stands where the
\* message cache stands in the stream of events, or further (GuiSession::poll).
THEOREM SessionNeverBehind == SessionSpec => []DirectNotBehind
BY SessionIsLoop, DirectNeverBehind, PTL

\* The list of a session keeps its limit and names one channel to evict, for any
\* dispatches and any pace of the two drains (DirectTopologyState::apply).
THEOREM SessionListBounded == SessionSpec => []DirectBounded
<1>1. SessionInv => DirectBounded
  BY DEF SessionInv
<1>2. QED
  BY <1>1, SessionInvAlways, PTL
----------------------------------------------------------------------------
(* The message cache in a session *)

USE SessionAssumption

\* History is asked for of conversations, and what was asked counts what is
\* still on its way.
FetchesOK ==
  /\ fetches \in Seq(DirectIds) /\ asked \in Nat /\ Len(fetches) <= asked
  /\ closed \subseteq DirectIds

CachesInv == SessionInv /\ FrontendInv /\ FetchesOK

LEMMA ApplyIsNext ==
  ASSUME NEW e \in Events, Apply(e)
  PROVE  Next
<1>1. FieldsTyped(e)
  BY DispatchAssumption
<1>2. CASE e.kind \in {"GatewayReady", "GatewayResumed"}
  BY <1>2 DEF Apply, Next
<1>3. CASE e.kind \in {"GuildCreate", "GuildUpdate", "GuildDelete"}
  <2>1. GuildEvent
    BY <1>1, <1>3 DEF Apply, FieldsTyped, GuildEvent
  <2>2. QED
    BY <2>1 DEF Next
<1>4. CASE e.kind \in {"ChannelCreate", "ChannelUpdate", "ChannelDelete"}
  <2>1. ChannelEvent
    BY <1>1, <1>4 DEF Apply, FieldsTyped, ChannelEvent
  <2>2. QED
    BY <2>1 DEF Next
<1>5. CASE e.kind \in {"ThreadCreate", "ThreadUpdate", "ThreadDelete", "ThreadListSync"}
  <2>1. ThreadEvent
    BY <1>1, <1>5 DEF Apply, FieldsTyped, ThreadEvent
  <2>2. QED
    BY <2>1 DEF Next
<1>6. CASE e.kind \in {"DirectChannelCreate", "DirectChannelUpdate", "DirectChannelDelete"}
  <2>1. DirectEvent
    BY <1>1, <1>6 DEF Apply, FieldsTyped, DirectEvent
  <2>2. QED
    BY <2>1 DEF Next
<1>7. CASE e.kind \in {"Message", "MessageUpdate", "MessageDelete"}
  <2>1. MessageEvent
    BY <1>1, <1>7 DEF Apply, FieldsTyped, MessageEvent, Message
  <2>2. QED
    BY <2>1 DEF Next
<1>8. QED
  BY <1>2, <1>3, <1>4, <1>5, <1>6, <1>7 DEF Apply

\* The Gateway drain applies an event of the bus, the REST drain a page for a
\* conversation; nothing else changes the caches.
LEMMA FrontendOfSession ==
  ASSUME CachesInv, [SessionNext]_sessionVars
  PROVE  [Next]_vars
<1>1. CASE DrainGateway
  <2>1. NextEvent("gateway") \in Events
    BY <1>1, NextIsEvent, FrameAssumption DEF DrainGateway, Drain, ReadNext, CachesInv, SessionInv
  <2>2. QED
    BY <1>1, <2>1, ApplyIsNext DEF DrainGateway
<1>2. CASE DrainRest
  <2>1. Head(fetches) \in ChannelIds
    BY <1>2, FrontendAssumption DEF DrainRest, CachesInv, FetchesOK
  <2>2. (\E page \in Pages : RestFetched(Head(fetches), page)) => RestEvent
    BY <2>1 DEF RestEvent
  <2>3. QED
    BY <1>2, <2>2 DEF DrainRest, Next
<1>3. CASE DrainDirect \/ PollElse \/ SendEvent \/ User
  BY <1>3 DEF DrainDirect, PollElse, SendEvent, User, Deselect, SelectChannel, cacheVars
<1>4. ASSUME NEW d \in Dispatches, ReadDispatch(d) PROVE UNCHANGED vars
  BY <1>4 DEF ReadDispatch, cacheVars
<1>5. UNCHANGED sessionVars => UNCHANGED vars
  BY DEF sessionVars, cacheVars
<1>6. QED
  BY <1>1, <1>2, <1>3, <1>4, <1>5 DEF SessionNext, PollStep, Gateway

LEMMA NothingBefore ==
  ASSUME NEW T, NEW s \in Seq(T)
  PROVE  << >> \o s = s /\ s \o << >> = s
OBVIOUS

\* A deletion without a guild becomes one event, which names a conversation.
LEMMA DeletionIsEvent ==
  ASSUME NEW d \in Dispatches, Closes(d), NEW u \in Users \cup {Absent}
  PROVE  /\ EventsOf(d, u) = <<[kind |-> "DirectChannelDelete", id |-> d.id]>>
         /\ d.id \in DirectIds
<1> DEFINE e == [kind |-> "DirectChannelDelete", id |-> d.id]
<1>1. ChannelEvents(d, "ChannelDelete") = << >> /\ DirectDeleteEvents(d) = <<e>>
  BY DEF Closes, ChannelEvents, DirectDeleteEvents
<1>2. EventsOf(d, u) = ChannelEvents(d, "ChannelDelete") \o DirectDeleteEvents(d)
  BY DEF Closes, EventsOf
<1>3. EventsOf(d, u) = <<e>>
  <2> DEFINE one == <<e>>
  <2>1. one \in Seq({e})
    OBVIOUS
  <2>2. << >> \o one = one
    BY <2>1, NothingBefore
  <2>3. QED
    BY <1>1, <1>2, <2>2
<1>4. e \in Events
  <2>1. EventsOf(d, u) \in Seq(Events)
    BY DispatchAssumption
  <2> DEFINE one == <<e>>
  <2>2. one \in Seq(Events) /\ Len(one) = 1 /\ one[1] = e
    BY <1>3, <2>1
  <2>3. QED
    BY <2>2
<1>5. d.id \in Conversations
  BY <1>4, DispatchAssumption DEF FieldsTyped
<1>6. QED
  BY <1>3, <1>5

LEMMA FetchesStep ==
  ASSUME CachesInv, [SessionNext]_sessionVars
  PROVE  FetchesOK'
<1>1. fetches \in Seq(DirectIds) /\ asked \in Nat /\ Len(fetches) <= asked /\ closed \subseteq DirectIds
  BY DEF CachesInv, FetchesOK
<1>2. CASE DrainRest
  <2>1. fetches # << >> /\ fetches' = Tail(fetches) /\ asked' = asked /\ closed' = closed
    BY <1>2 DEF DrainRest, gatewayVars
  <2>2. Tail(fetches) \in Seq(DirectIds) /\ Len(Tail(fetches)) = Len(fetches) - 1 /\ Len(fetches) \in Nat
    BY <1>1, <2>1
  <2>3. QED
    BY <1>1, <2>1, <2>2 DEF FetchesOK
<1>3. ASSUME NEW c \in DirectIds, SelectChannel(c) PROVE FetchesOK'
  <2>1. CASE asked' = asked + 1 /\ fetches' = Append(fetches, c)
    <3>1. fetches' \in Seq(DirectIds) /\ Len(fetches') = Len(fetches) + 1 /\ Len(fetches) \in Nat
      BY <1>1, <2>1
    <3>2. closed' = closed
      BY <1>3 DEF SelectChannel, gatewayVars
    <3>3. QED
      BY <1>1, <2>1, <3>1, <3>2 DEF FetchesOK
  <2>2. CASE UNCHANGED <<fetches, asked>>
    BY <1>1, <1>3, <2>2 DEF SelectChannel, gatewayVars, FetchesOK
  <2>3. QED
    BY <1>3, <2>1, <2>2 DEF SelectChannel
<1>4. ASSUME NEW d \in Dispatches, ReadDispatch(d) PROVE FetchesOK'
  <2>1. selfUser' = SelfAfter(d, selfUser) /\ selfUser \in Users \cup {Absent}
    BY <1>4 DEF ReadDispatch, CachesInv, SessionInv, OutboxOK
  <2>2. Closes(d) => d.id \in DirectIds
    BY <2>1, DeletionIsEvent
  <2>3. closed' \subseteq DirectIds
    BY <1>1, <1>4, <2>2 DEF ReadDispatch
  <2>4. fetches' = fetches /\ asked' = asked
    BY <1>4 DEF ReadDispatch, userVars
  <2>5. QED
    BY <1>1, <2>3, <2>4 DEF FetchesOK
<1>5. CASE SendEvent \/ DrainGateway \/ DrainDirect \/ PollElse \/ Deselect \/ UNCHANGED sessionVars
  <2>1. fetches' = fetches /\ asked' = asked /\ closed' = closed
    BY <1>5 DEF SendEvent, DrainGateway, DrainDirect, PollElse, Deselect, sessionVars,
                userVars, gatewayVars
  <2>2. QED
    BY <1>1, <2>1 DEF FetchesOK
<1>6. QED
  BY <1>2, <1>3, <1>4, <1>5 DEF SessionNext, PollStep, Gateway, User

LEMMA CachesInvAlways == SessionSpec => []CachesInv
<1>1. SessionInit => FrontendInv /\ FetchesOK
  <2>1. SessionInit => FrontendInv
    BY FrontendStart DEF SessionInit
  <2>2. SessionInit => FetchesOK
    BY DEF SessionInit, FetchesOK
  <2>3. QED
    BY <2>1, <2>2
<1>2. CachesInv /\ [SessionNext]_sessionVars => (FrontendInv /\ FetchesOK)'
  BY FrontendOfSession, FrontendStep, FetchesStep DEF CachesInv
<1>3. SessionInv /\ FrontendInv /\ FetchesOK /\ [SessionNext]_sessionVars => (FrontendInv /\ FetchesOK)'
  BY <1>2 DEF CachesInv
<1>4. SessionSpec => [](FrontendInv /\ FetchesOK)
  BY <1>1, <1>3, SessionInvAlways, PTL DEF SessionSpec
<1>5. QED
  BY <1>4, SessionInvAlways, PTL DEF CachesInv
----------------------------------------------------------------------------
(* What an event does to one conversation                                  *)

\* The events that open and close a conversation.
Openings(c) == {e \in Events : e.kind \in {"DirectChannelCreate", "DirectChannelUpdate"} /\ e.id = c}
Closings(c) == {e \in Events : e.kind = "DirectChannelDelete" /\ e.id = c}

\* Ids are snowflakes: no conversation has the id of a channel or thread of a guild.
ConversationsApart == DirectIds \cap (GuildChannelIds \cup ThreadIds) = {}

\* A topology event leaves the tombstone of a channel alone that it neither
\* retires nor restores, unless the FIFO has no room for it and the new ones.
LEMMA TombstoneOf ==
  ASSUME Inv, NEW gone \in Seq(ChannelIds), NEW back, Retopology(gone, back), NEW c \in ChannelIds
  PROVE  /\ c \in back => c \notin Items(retired')
         /\ c \notin Items(gone) /\ c \in Items(retired') => c \in Items(retired)
         /\ Items(gone) \cap back = {} /\ c \notin back /\ c \in Items(retired)
              => c \in Items(retired') \cup GivenUp
<1> DEFINE r == RetireAll(retired, gone)
<1>1. Fifo(retired) /\ retired' = Retain(r, Items(r) \ back)
  BY InvParts DEF Retopology
<1>2. /\ Fifo(r)
      /\ Items(r) \subseteq Items(retired) \cup Items(gone)
      /\ Items(retired) \subseteq Items(r) \/ Len(r) = MaxRetired
  BY <1>1, RetireAllProperties
<1> HIDE DEF r
<1>3. Items(retired') = Items(r) \cap (Items(r) \ back)
  BY <1>1, <1>2, RetainProperties DEF Fifo
<1>4. Items(gone) \cap back = {} /\ c \notin back /\ c \in Items(retired)
        => c \in Items(retired') \cup GivenUp
  BY TombstonesPushedOut DEF GivenUp
<1>5. QED
  BY <1>2, <1>3, <1>4

\* The one channel an event retires has a tombstone.
LEMMA TombstoneOfOne ==
  ASSUME Inv, NEW c \in ChannelIds, Retopology(<<c>>, {})
  PROVE  c \in Items(retired')
<1> DEFINE one == <<c>>
           f == [i \in 0..1 |-> IF i = 0 THEN retired ELSE RetireOne(retired, c)]
           h == CHOOSE g : IsRetiring(g, retired, one)
           r == RetireAll(retired, one)
<1>1. one \in Seq(ChannelIds) /\ Len(one) = 1 /\ one[1] = c
  OBVIOUS
<1>2. Fifo(retired) /\ retired' = Retain(r, Items(r) \ {})
  BY InvParts DEF Retopology
<1>3. Fifo(r)
  BY <1>1, <1>2, RetireAllProperties
<1> HIDE DEF one
<1>4. IsRetiring(f, retired, one)
  <2>1. \A i \in 0..1 : i # 0 => i = 1 /\ i - 1 = 0 /\ f[i-1] = retired /\ one[i] = c
    BY <1>1
  <2>2. f = [i \in 0..1 |-> IF i = 0 THEN retired ELSE RetireOne(f[i-1], one[i])]
    BY <2>1
  <2>3. QED
    BY <1>1, <2>2 DEF IsRetiring
<1> HIDE DEF f
<1>5. IsRetiring(h, retired, one)
  BY <1>4
<1>6. r = h[1]
  BY <1>1 DEF RetireAll, IsRetiring
<1> HIDE DEF h, r
<1>7. h[1] = RetireOne(retired, c)
  <2>1. h = [i \in 0..1 |-> IF i = 0 THEN retired ELSE RetireOne(h[i-1], one[i])]
    BY <1>1, <1>5 DEF IsRetiring
  <2>2. h[0] = retired
    BY <2>1
  <2>3. h[1] = RetireOne(h[0], one[1])
    BY <2>1
  <2>4. QED
    BY <1>1, <2>2, <2>3
<1>8. c \in Items(r)
  <2>1. CASE c \in Items(retired)
    BY <1>6, <1>7, <2>1 DEF RetireOne
  <2>2. CASE c \notin Items(retired)
    <3>1. RetireOne(retired, c) = PushBounded(retired, c, MaxRetired)
      BY <2>2 DEF RetireOne
    <3>2. c \in Items(PushBounded(retired, c, MaxRetired))
      BY <1>2, MaxRetiredPositive, PushItems DEF Fifo
    <3>3. QED
      BY <1>6, <1>7, <3>1, <3>2
  <2>3. QED
    BY <2>1, <2>2
<1>9. QED
  BY <1>2, <1>3, <1>8, RetainProperties DEF Fifo

\* A step leaves the conversation alone.
LeavesAlone(c) ==
  \/ UNCHANGED retired
  \/ \E gone \in Seq(ChannelIds), back \in SUBSET ChannelIds :
       /\ Retopology(gone, back) /\ c \notin Items(gone) /\ c \notin back
       /\ IdsAreUnique => Items(gone) \cap back = {}

\* The threads of a list, and of a page of threads, have ids of threads.
LEMMA CachedThreadIds ==
  ASSUME NEW s \in Seq(CachedThread)
  PROVE  \A t \in Items(s) : t.id \in ThreadIds
<1>1. \A i \in 1..Len(s) : s[i] \in CachedThread
  OBVIOUS
<1>2. \A t \in CachedThread : t.id \in ThreadIds
  BY DEF CachedThread
<1>3. QED
  BY <1>1, <1>2 DEF Items

LEMMA ListedThreadIds ==
  ASSUME NEW s \in Seq(Thread)
  PROVE  \A t \in Items(s) : t.id \in ThreadIds
<1>1. \A i \in 1..Len(s) : s[i] \in Thread
  OBVIOUS
<1>2. \A t \in Thread : t.id \in ThreadIds
  BY DEF Thread
<1>3. QED
  BY <1>1, <1>2 DEF Items

LEMMA SnapshotLeavesAlone ==
  ASSUME TopologyBounded, ConversationsApart, NEW c \in DirectIds,
         NEW g \in GuildIds, NEW u \in BOOLEAN, NEW s \in Snapshots, GuildCreate(g, u, s)
  PROVE  LeavesAlone(c)
<1>1. CASE u
  BY <1>1 DEF GuildCreate, timelineVars, LeavesAlone
<1>2. CASE ~u
  <2> DEFINE gone == RetiredBySnapshot(g, s)
  <2>1. Retopology(gone, Items(s))
    BY <1>2 DEF GuildCreate
  <2>2. /\ gone \in Seq(ChannelIds) /\ Items(gone) \subseteq Items(ChannelsOf(g)) \cup ThreadIds
        /\ Items(gone) \cap Items(s) \subseteq ThreadIds
    BY RetiredBySnapshotItems
  <2> HIDE DEF gone
  <2>3. Items(ChannelsOf(g)) \subseteq GuildChannelIds
    BY ListsOfGuild DEF Items
  <2>4. Items(s) \subseteq GuildChannelIds
    <3>1. s \in Seq(GuildChannelIds)
      BY TopologyAssumption
    <3>2. QED
      BY <3>1 DEF Items
  <2>5. c \notin Items(gone) /\ c \notin Items(s)
    BY <2>2, <2>3, <2>4 DEF ConversationsApart
  <2>6. Items(s) \subseteq ChannelIds
    BY <2>4, FrontendAssumption
  <2>7. IdsAreUnique => Items(gone) \cap Items(s) = {}
    BY <2>2, <2>4 DEF IdsAreUnique
  <2>8. QED
    BY <2>1, <2>2, <2>5, <2>6, <2>7 DEF LeavesAlone
<1>3. QED
  BY <1>1, <1>2

LEMMA GuildDeleteLeavesAlone ==
  ASSUME TopologyBounded, ConversationsApart, NEW c \in DirectIds,
         NEW g \in GuildIds, NEW u \in BOOLEAN, GuildDelete(g, u)
  PROVE  LeavesAlone(c)
<1>1. CASE u
  BY <1>1 DEF GuildDelete, timelineVars, LeavesAlone
<1>2. CASE ~u
  <2> DEFINE gone == RetiredByGuildDelete(g)
  <2>1. Retopology(gone, {})
    BY <1>2 DEF GuildDelete
  <2>2. gone \in Seq(ChannelIds) /\ Items(gone) = Items(ChannelsOf(g)) \cup Ids(ThreadsOf(g))
    BY RetiredByGuildDeleteItems
  <2> HIDE DEF gone
  <2>3. Items(ChannelsOf(g)) \subseteq GuildChannelIds
    BY ListsOfGuild DEF Items
  <2>4. Ids(ThreadsOf(g)) \subseteq ThreadIds
    BY ListsOfGuild, CachedThreadIds DEF Ids
  <2>5. c \notin Items(gone)
    BY <2>2, <2>3, <2>4 DEF ConversationsApart
  <2>6. QED
    BY <2>1, <2>2, <2>5 DEF LeavesAlone
<1>3. QED
  BY <1>1, <1>2

LEMMA ChannelLeavesAlone ==
  ASSUME TopologyBounded, ConversationsApart, NEW c \in DirectIds,
         NEW g \in GuildIds, NEW d \in GuildChannelIds,
         ChannelCreate(g, d) \/ ChannelUpdate(g, d) \/ ChannelDelete(g, d)
  PROVE  LeavesAlone(c)
<1>1. CASE ChannelCreate(g, d)
  <2>1. Retopology(<< >>, {d})
    BY <1>1 DEF ChannelCreate
  <2>2. {d} \in SUBSET ChannelIds /\ c \notin {d}
    BY FrontendAssumption DEF ConversationsApart
  <2>3. QED
    BY <2>1, <2>2, ItemsOfNone DEF LeavesAlone
<1>2. CASE ChannelUpdate(g, d)
  BY <1>2 DEF ChannelUpdate, timelineVars, LeavesAlone
<1>3. CASE ChannelDelete(g, d)
  <2> DEFINE gone == RetiredByChannelDelete(g, d)
  <2>1. Retopology(gone, {})
    BY <1>3 DEF ChannelDelete
  <2>2. /\ gone \in Seq(ChannelIds)
        /\ Items(gone) = {d} \cup {t.id : t \in {u \in Items(ThreadsOf(g)) : u.parent = d}}
    BY RetiredByChannelDeleteItems
  <2> HIDE DEF gone
  <2>3. {t.id : t \in Items(ThreadsOf(g))} \subseteq ThreadIds
    BY ListsOfGuild, CachedThreadIds
  <2>4. c \notin Items(gone)
    BY <2>2, <2>3 DEF ConversationsApart
  <2>5. QED
    BY <2>1, <2>2, <2>4 DEF LeavesAlone
<1>4. QED
  BY <1>1, <1>2, <1>3

LEMMA ThreadLeavesAlone ==
  ASSUME ConversationsApart, NEW c \in DirectIds, NEW t \in Thread,
         ThreadCreate(t) \/ ThreadUpdate(t)
  PROVE  LeavesAlone(c)
<1>1. t.id \in ChannelIds /\ c # t.id
  BY FrontendAssumption DEF Thread, ConversationsApart
<1> DEFINE one == <<t.id>>
<1>2. one \in Seq(ChannelIds) /\ Items(one) = {t.id}
  BY <1>1, ItemsOfOne
<1>3. /\ Retopology(one, {}) => LeavesAlone(c)
      /\ Retopology(<< >>, {}) => LeavesAlone(c)
      /\ Retopology(<< >>, {t.id}) => LeavesAlone(c)
  <2> HIDE DEF one
  <2>1. Retopology(one, {}) => LeavesAlone(c)
    BY <1>1, <1>2 DEF LeavesAlone
  <2>2. Retopology(<< >>, {}) => LeavesAlone(c)
    BY ItemsOfNone DEF LeavesAlone
  <2>3. Retopology(<< >>, {t.id}) => LeavesAlone(c)
    BY <1>1, ItemsOfNone DEF LeavesAlone
  <2>4. QED
    BY <2>1, <2>2, <2>3
<1>4. QED
  BY <1>3 DEF ThreadCreate, ThreadUpdate

LEMMA ThreadsLeaveAlone ==
  ASSUME TopologyBounded, ConversationsApart, NEW c \in DirectIds, NEW g \in GuildIds,
         \/ \E id \in ThreadIds : ThreadDelete(g, id)
         \/ \E scope \in Scopes, l \in ThreadLists : ThreadListSync(g, scope, l)
  PROVE  LeavesAlone(c)
<1>1. ASSUME NEW id \in ThreadIds, ThreadDelete(g, id) PROVE LeavesAlone(c)
  <2> DEFINE one == <<id>>
  <2>1. Retopology(one, {})
    BY <1>1 DEF ThreadDelete
  <2>2. one \in Seq(ChannelIds) /\ Items(one) = {id}
    BY FrontendAssumption, ItemsOfOne
  <2> HIDE DEF one
  <2>3. QED
    BY <2>1, <2>2 DEF LeavesAlone, ConversationsApart
<1>2. ASSUME NEW scope \in Scopes, NEW l \in ThreadLists, ThreadListSync(g, scope, l)
      PROVE  LeavesAlone(c)
  <2> DEFINE gone == RetiredBySync(g, scope, l)
             back == RestoredBySync(g, l)
  <2>1. Retopology(gone, back)
    BY <1>2 DEF ThreadListSync
  <2>2. /\ gone \in Seq(ChannelIds)
        /\ Items(gone) = {t.id : t \in {u \in Items(ThreadsOf(g)) :
                                          InScope(u, scope) /\ u.id \notin back}}
    BY RetiredBySyncItems
  <2>3. back \subseteq ThreadIds
    <3>1. l \in Seq(Thread)
      BY TopologyAssumption
    <3>2. \A t \in Items(l) : t.id \in ThreadIds
      BY <3>1, ListedThreadIds
    <3>3. QED
      BY <3>2 DEF RestoredBySync
  <2> HIDE DEF gone, back
  <2>4. Items(gone) \cap back = {}
    BY <2>2
  <2>5. {t.id : t \in Items(ThreadsOf(g))} \subseteq ThreadIds
    BY ListsOfGuild, CachedThreadIds
  <2>6. c \notin Items(gone) /\ c \notin back
    BY <2>2, <2>3, <2>5 DEF ConversationsApart
  <2>7. back \subseteq ChannelIds
    BY <2>3, FrontendAssumption
  <2>8. QED
    BY <2>1, <2>2, <2>4, <2>6, <2>7 DEF LeavesAlone
<1>3. QED
  BY <1>1, <1>2

\* Every event but the openings and closings of a conversation leaves it alone.
LEMMA ConversationTombstone ==
  ASSUME FrontendInv, ConversationsApart, NEW e \in Events, Apply(e), NEW c \in DirectIds
  PROVE  /\ e \in Openings(c) => c \notin Items(retired')
         /\ e \in Closings(c) => c \in Items(retired')
         /\ e \notin Closings(c) /\ c \in Items(retired') => c \in Items(retired)
         /\ IdsAreUnique /\ e \notin Openings(c) /\ c \in Items(retired)
              => c \in Items(retired') \cup GivenUp
<1>1. Inv /\ TopologyBounded /\ c \in ChannelIds /\ FieldsTyped(e)
  BY DispatchAssumption, FrontendAssumption DEF FrontendInv
<1>2. ASSUME LeavesAlone(c)
      PROVE  /\ c \in Items(retired') => c \in Items(retired)
             /\ IdsAreUnique /\ c \in Items(retired) => c \in Items(retired') \cup GivenUp
  <2>1. CASE UNCHANGED retired
    BY <2>1
  <2>2. ASSUME NEW gone \in Seq(ChannelIds), NEW back \in SUBSET ChannelIds,
               Retopology(gone, back), c \notin Items(gone), c \notin back,
               IdsAreUnique => Items(gone) \cap back = {}
        PROVE  /\ c \in Items(retired') => c \in Items(retired)
               /\ IdsAreUnique /\ c \in Items(retired) => c \in Items(retired') \cup GivenUp
    BY <1>1, <2>2, TombstoneOf
  <2>3. QED
    BY <1>2, <2>1, <2>2 DEF LeavesAlone
<1>3. CASE e.kind \in {"GatewayReady", "GatewayResumed", "GuildUpdate"}
  <2>1. UNCHANGED retired
    BY <1>3 DEF Apply, GatewayUp, GuildUpdate, timelineVars
  <2>2. QED
    BY <1>3, <2>1 DEF Openings, Closings
<1>4. CASE e.kind \in {"GuildCreate", "GuildDelete"}
  <2>1. LeavesAlone(c)
    BY <1>1, <1>4, SnapshotLeavesAlone, GuildDeleteLeavesAlone DEF Apply, FieldsTyped
  <2>2. QED
    BY <1>2, <1>4, <2>1 DEF Openings, Closings
<1>5. CASE e.kind \in {"ChannelCreate", "ChannelUpdate", "ChannelDelete"}
  <2>1. LeavesAlone(c)
    BY <1>1, <1>5, ChannelLeavesAlone DEF Apply, FieldsTyped
  <2>2. QED
    BY <1>2, <1>5, <2>1 DEF Openings, Closings
<1>6. CASE e.kind \in {"ThreadCreate", "ThreadUpdate"}
  <2>1. LeavesAlone(c)
    BY <1>1, <1>6, ThreadLeavesAlone DEF Apply, FieldsTyped
  <2>2. QED
    BY <1>2, <1>6, <2>1 DEF Openings, Closings
<1>7. CASE e.kind \in {"ThreadDelete", "ThreadListSync"}
  <2>1. LeavesAlone(c)
    BY <1>1, <1>7, ThreadsLeaveAlone DEF Apply, FieldsTyped
  <2>2. QED
    BY <1>2, <1>7, <2>1 DEF Openings, Closings
<1>8. CASE e.kind \in {"Message", "MessageUpdate", "MessageDelete"}
  <2>1. UNCHANGED retired
    BY <1>8, TombstonesUntouched
       DEF Apply, MessageCreated, MessageUpdated, MessageDeleted, OnTimelines
  <2>2. QED
    BY <1>8, <2>1 DEF Openings, Closings
<1>9. CASE e.kind \in {"DirectChannelCreate", "DirectChannelUpdate"}
  <2>1. Retopology(<< >>, {e.id})
    BY <1>9 DEF Apply, DirectOpen
  <2>2. /\ c \in {e.id} => c \notin Items(retired')
        /\ c \in Items(retired') => c \in Items(retired)
        /\ c \notin {e.id} /\ c \in Items(retired) => c \in Items(retired') \cup GivenUp
    BY <1>1, <2>1, ItemsOfNone, TombstoneOf
  <2>3. QED
    BY <1>9, <2>2 DEF Openings, Closings
<1>10. CASE e.kind = "DirectChannelDelete"
  <2> DEFINE one == <<e.id>>
  <2>1. Retopology(one, {}) /\ e.id \in ChannelIds
    BY <1>1, <1>10, FrontendAssumption DEF Apply, DirectDelete, FieldsTyped
  <2>2. c = e.id => c \in Items(retired')
    BY <1>1, <2>1, TombstoneOfOne
  <2>3. one \in Seq(ChannelIds) /\ Items(one) = {e.id}
    BY <2>1, ItemsOfOne
  <2> HIDE DEF one
  <2>4. /\ c \notin Items(one) /\ c \in Items(retired') => c \in Items(retired)
        /\ c \in Items(retired) => c \in Items(retired') \cup GivenUp
    BY <1>1, <2>1, <2>3, TombstoneOf
  <2>5. QED
    BY <1>10, <2>2, <2>3, <2>4 DEF Openings, Closings
<1>11. QED
  BY <1>3, <1>4, <1>5, <1>6, <1>7, <1>8, <1>9, <1>10 DEF Apply
----------------------------------------------------------------------------
(* What a sequence of events comes to                                      *)

\* Once s has been applied, a state holds that every event of yes brings about,
\* only those of no end, and that holds now or not.
EndsIn(s, yes, no, now) ==
  \/ \E i \in DOMAIN s : s[i] \in yes /\ \A j \in DOMAIN s : s[j] \in no => j < i
  \/ now /\ \A i \in DOMAIN s : s[i] \notin no

\* The first of the events is applied.
LEMMA EndsInTail ==
  ASSUME NEW s \in Seq(Events), s # << >>, NEW yes, NEW no, NEW now, NEW after,
         EndsIn(s, yes, no, now), Head(s) \in yes => after, Head(s) \notin no /\ now => after
  PROVE  EndsIn(Tail(s), yes, no, after)
<1> DEFINE t == Tail(s)
<1>1. /\ t \in Seq(Events) /\ Len(t) = Len(s) - 1 /\ Len(s) \in Nat \ {0}
      /\ DOMAIN t = 1..(Len(s) - 1) /\ DOMAIN s = 1..Len(s) /\ Head(s) = s[1]
      /\ \A i \in 1..(Len(s) - 1) : t[i] = s[i + 1]
  OBVIOUS
<1> HIDE DEF t
<1>2. \A i \in DOMAIN t : i + 1 \in DOMAIN s /\ t[i] = s[i + 1] /\ i \in Nat
  BY <1>1
<1>3. CASE now /\ \A i \in DOMAIN s : s[i] \notin no
  <2>1. 1 \in DOMAIN s
    BY <1>1
  <2>2. after
    BY <1>1, <1>3, <2>1
  <2>3. \A i \in DOMAIN t : t[i] \notin no
    BY <1>2, <1>3
  <2>4. QED
    BY <2>2, <2>3 DEF EndsIn, t
<1>4. ASSUME NEW i \in DOMAIN s, s[i] \in yes, \A j \in DOMAIN s : s[j] \in no => j < i
      PROVE  EndsIn(t, yes, no, after)
  <2>1. CASE i = 1
    <3>1. after
      BY <1>1, <1>4, <2>1
    <3>2. \A j \in DOMAIN t : t[j] \notin no
      BY <1>2, <1>4, <2>1
    <3>3. QED
      BY <3>1, <3>2 DEF EndsIn
  <2>2. CASE i # 1
    <3>1. i - 1 \in DOMAIN t /\ t[i - 1] = s[i]
      BY <1>1, <2>2
    <3>2. \A j \in DOMAIN t : t[j] \in no => j < i - 1
      BY <1>1, <1>2, <1>4
    <3>3. QED
      BY <1>4, <3>1, <3>2 DEF EndsIn
  <2>3. QED
    BY <2>1, <2>2
<1>5. QED
  BY <1>3, <1>4 DEF EndsIn, t

\* Events follow that do not end it.
LEMMA EndsInConcat ==
  ASSUME NEW s \in Seq(Events), NEW t \in Seq(Events), NEW yes, NEW no, NEW now,
         EndsIn(s, yes, no, now), \A i \in DOMAIN t : t[i] \notin no
  PROVE  EndsIn(s \o t, yes, no, now)
<1> DEFINE u == s \o t
<1>1. /\ u \in Seq(Events) /\ DOMAIN u = 1..(Len(s) + Len(t))
      /\ Len(s) \in Nat /\ Len(t) \in Nat /\ DOMAIN s = 1..Len(s) /\ DOMAIN t = 1..Len(t)
      /\ \A i \in 1..Len(s) : u[i] = s[i]
      /\ \A i \in 1..(Len(s) + Len(t)) : i > Len(s) => u[i] = t[i - Len(s)]
  OBVIOUS
<1> HIDE DEF u
<1>2. \A i \in DOMAIN u : u[i] \in no => i \in DOMAIN s /\ s[i] \in no
  <2> SUFFICES ASSUME NEW i \in DOMAIN u, u[i] \in no PROVE i \in DOMAIN s /\ s[i] \in no
    OBVIOUS
  <2>1. CASE i > Len(s)
    <3>1. i - Len(s) \in DOMAIN t /\ u[i] = t[i - Len(s)]
      BY <1>1, <2>1
    <3>2. QED
      BY <3>1
  <2>2. CASE i <= Len(s)
    BY <1>1, <2>2
  <2>3. QED
    BY <1>1, <2>1, <2>2
<1>3. \A i \in DOMAIN s : i \in DOMAIN u /\ u[i] = s[i]
  BY <1>1
<1>4. QED
  BY <1>2, <1>3 DEF EndsIn, u

\* One more event, which brings it about or does not end it.
LEMMA EndsInAppend ==
  ASSUME NEW s \in Seq(Events), NEW e \in Events, NEW yes, NEW no, NEW now, e \notin no,
         e \in yes \/ EndsIn(s, yes, no, now)
  PROVE  EndsIn(Append(s, e), yes, no, now)
<1> DEFINE u == Append(s, e)
<1>1. /\ DOMAIN u = 1..(Len(s) + 1) /\ Len(s) \in Nat /\ DOMAIN s = 1..Len(s)
      /\ \A i \in 1..Len(s) : u[i] = s[i]
      /\ u[Len(s) + 1] = e
  OBVIOUS
<1> HIDE DEF u
<1>2. \A i \in DOMAIN u : u[i] \in no => i \in DOMAIN s /\ s[i] \in no /\ i < Len(s) + 1
  <2> SUFFICES ASSUME NEW i \in DOMAIN u, u[i] \in no
               PROVE  i \in DOMAIN s /\ s[i] \in no /\ i < Len(s) + 1
    OBVIOUS
  <2>1. i # Len(s) + 1
    BY <1>1
  <2>2. QED
    BY <1>1, <2>1
<1>3. CASE e \in yes
  <2>1. Len(s) + 1 \in DOMAIN u
    BY <1>1
  <2>2. QED
    BY <1>1, <1>2, <1>3, <2>1 DEF EndsIn, u
<1>4. CASE EndsIn(s, yes, no, now)
  <2>1. \A i \in DOMAIN s : i \in DOMAIN u /\ u[i] = s[i]
    BY <1>1
  <2>2. QED
    BY <1>2, <1>4, <2>1 DEF EndsIn, u
<1>5. QED
  BY <1>3, <1>4

\* Nothing is left to apply.
LEMMA EndsInNone ==
  ASSUME NEW yes, NEW no, NEW now
  PROVE  EndsIn(<< >>, yes, no, now) <=> now
BY DEF EndsIn

LEMMA EndsInLater ==
  ASSUME NEW s, NEW yes, NEW no, NEW now, NEW after, EndsIn(s, yes, no, now), now => after
  PROVE  EndsIn(s, yes, no, after)
BY DEF EndsIn
----------------------------------------------------------------------------
(* Two readers of one bus                                                  *)

\* What an event does to the place of one conversation in the list.
LEMMA ConversationListed ==
  ASSUME DirectBounded, NEW e \in Events, ApplyDirect(e), NEW c \in DirectIds
  PROVE  /\ e \in Openings(c) => c \in DOMAIN direct'
         /\ e \in Closings(c) => c \notin DOMAIN direct'
         /\ e \notin Openings(c) /\ c \in DOMAIN direct' => c \in DOMAIN direct
<1>1. ASSUME e.kind \in {"DirectChannelCreate", "DirectChannelUpdate"},
             UpsertDirect(e.id, e.recipient)
      PROVE  e.id \in DOMAIN direct' /\ DOMAIN direct' \subseteq DOMAIN direct \cup {e.id}
  BY <1>1 DEF UpsertDirect
<1>2. RemoveDirect(e.id) => DOMAIN direct' = DOMAIN direct \ {e.id}
  BY DEF RemoveDirect
<1>3. ASSUME TouchDirect(e.channel) PROVE DOMAIN direct' = DOMAIN direct
  BY <1>3 DEF TouchDirect, directVars, DirectBounded, DirectTypeOK
<1>4. CASE e.kind \in {"DirectChannelCreate", "DirectChannelUpdate"}
  BY <1>1, <1>4 DEF ApplyDirect, Openings, Closings
<1>5. CASE e.kind = "DirectChannelDelete"
  BY <1>2, <1>5 DEF ApplyDirect, Openings, Closings
<1>6. CASE e.kind \notin {"DirectChannelCreate", "DirectChannelUpdate", "DirectChannelDelete"}
  <2>1. DOMAIN direct' = DOMAIN direct
    BY <1>3, <1>6 DEF ApplyDirect, directVars
  <2>2. QED
    BY <1>6, <2>1 DEF Openings, Closings
<1>7. QED
  BY <1>4, <1>5, <1>6

\* A receiver that a send does not overtake has the event last.
LEMMA SentToReader ==
  ASSUME LoopInv, NEW e \in Events, Send(e), NEW r \in Receivers, NeverOvertaken(r)'
  PROVE  NeverOvertaken(r) /\ unread'[r] = Append(unread[r], e)
<1>1. missed'[r] = (missed[r] \/ Len(unread[r]) = Capacity) /\ lagged' = lagged
  BY DEF Send
<1>2. NeverOvertaken(r) /\ Len(unread[r]) # Capacity
  BY <1>1 DEF NeverOvertaken
<1>3. Len(unread[r]) <= Capacity /\ unread[r] \in Seq(Events)
  BY DEF LoopInv, LoopTypeOK
<1>4. ~(Len(unread[r]) >= Capacity)
  BY <1>2, <1>3
<1>5. QED
  BY <1>2, <1>4 DEF Send, PushBounded

\* What is left of a step that neither drains nor sends: nothing is read and
\* nobody is caught up with.
Unmoved ==
  /\ UNCHANGED <<unread, retired, direct>>
  /\ \A r \in Receivers : NeverOvertaken(r)' => NeverOvertaken(r)

LEMMA DrainOrUnmoved ==
  ASSUME LoopInv, [SessionNext]_sessionVars
  PROVE  DrainGateway \/ DrainDirect \/ SendEvent \/ Unmoved
<1>1. UNCHANGED <<busVars, retired, direct>> => Unmoved
  BY DEF Unmoved, busVars, NeverOvertaken
<1>2. UNCHANGED cacheVars => UNCHANGED <<retired, direct>>
  BY DEF cacheVars, vars, timelineVars, directVars
<1>3. ASSUME NEW d \in Dispatches, ReadDispatch(d) PROVE Unmoved
  BY <1>1, <1>2, <1>3 DEF ReadDispatch, LoopVars
<1>4. CASE DrainRest
  <2>1. UNCHANGED <<busVars, direct>>
    BY <1>4 DEF DrainRest, LoopVars, directVars
  <2>2. UNCHANGED retired
    <3>1. ASSUME NEW page \in Pages, RestFetched(Head(fetches), page) PROVE UNCHANGED retired
      BY <3>1, TombstonesUntouched DEF RestFetched, OnTimelines
    <3>2. QED
      BY <1>4, <3>1 DEF DrainRest, vars, timelineVars
  <2>3. QED
    BY <1>1, <2>1, <2>2
<1>5. ASSUME NEW r \in Receivers, SkipLost(r), UNCHANGED cacheVars PROVE Unmoved
  <2>1. /\ unread' = unread
        /\ missed' = [missed EXCEPT ![r] = FALSE]
        /\ lagged' = [lagged EXCEPT ![r] = TRUE]
    BY <1>5 DEF SkipLost, TellLag
  <2>2. \A q \in Receivers : lagged'[q] = IF q = r THEN TRUE ELSE lagged[q]
    BY <2>1 DEF LoopInv, LoopTypeOK
  <2>3. \A q \in Receivers : q # r => missed'[q] = missed[q]
    BY <2>1 DEF LoopInv, LoopTypeOK
  <2>4. \A q \in Receivers : NeverOvertaken(q)' => NeverOvertaken(q)
    BY <2>2, <2>3 DEF NeverOvertaken
  <2>5. QED
    BY <1>2, <1>5, <2>1, <2>4 DEF Unmoved
<1>6. CASE PollElse
  <2>1. CASE StartFrame \/ EndRest \/ \E r \in Receivers : EndDrain(r)
    BY <1>1, <1>2, <1>6, <2>1 DEF PollElse, StartFrame, EndRest, EndDrain
  <2>2. QED
    BY <1>5, <1>6, <2>1 DEF PollElse
<1>7. User \/ UNCHANGED sessionVars => Unmoved
  BY <1>1, <1>2 DEF User, SelectChannel, Deselect, sessionVars, LoopVars
<1>8. QED
  BY <1>3, <1>4, <1>6, <1>7 DEF SessionNext, PollStep, Gateway

\* What a drain reads, and what it leaves.
LEMMA DrainReads ==
  ASSUME LoopInv, NEW r \in Receivers, Drain(r)
  PROVE  /\ unread[r] \in Seq(Events) /\ unread[r] # << >>
         /\ NextEvent(r) = Head(unread[r]) /\ NextEvent(r) \in Events
         /\ unread'[r] = Tail(unread[r])
         /\ \A q \in Receivers : q # r => unread'[q] = unread[q]
         /\ \A q \in Receivers : NeverOvertaken(q)' => NeverOvertaken(q)
<1>1. /\ IsOk(r) /\ unread' = [unread EXCEPT ![r] = Tail(@)]
      /\ missed' = missed /\ lagged' = lagged
  BY DEF Drain, ReadNext
<1>2. unread \in [Receivers -> Seq(Events)]
  BY DEF LoopInv, LoopTypeOK
<1>3. QED
  BY <1>1, <1>2, NextIsEvent DEF NeverOvertaken, IsOk, NextEvent
----------------------------------------------------------------------------
(* The two caches agree where both have read                               *)

\* The message cache is behind the list by x: what is listed will have lost its
\* tombstone when x has been read.
HeardAfter(x) ==
  \A c \in DOMAIN direct : EndsIn(x, Openings(c), Closings(c), ~IsRetired(c))

\* The list is behind by x: what has a tombstone will then not be listed.
GoneAfter(x) ==
  \A c \in DirectIds : IsRetired(c) => EndsIn(x, Closings(c), Openings(c), ~Listed(c))

CachesAgree ==
  (\A r \in Receivers : NeverOvertaken(r)) =>
    \/ \E x \in Seq(Events) : unread["gateway"] = x \o unread["direct"] /\ HeardAfter(x)
    \/ \E x \in Seq(Events) : unread["direct"] = x \o unread["gateway"] /\ GoneAfter(x)

LEMMA BothReceivers == "gateway" \in Receivers /\ "direct" \in Receivers
BY FrameAssumption

LEMMA OpeningOrClosing ==
  ASSUME NEW c, NEW e
  PROVE  ~(e \in Openings(c) /\ e \in Closings(c))
BY DEF Openings, Closings

\* Where both have read the same, the two say the same.
LEMMA LevelAgrees ==
  ASSUME DirectBounded
  PROVE  HeardAfter(<< >>) <=> GoneAfter(<< >>)
<1>1. DOMAIN direct \subseteq DirectIds
  BY DEF DirectBounded, DirectTypeOK
<1>2. HeardAfter(<< >>) <=> \A c \in DOMAIN direct : ~IsRetired(c)
  BY EndsInNone DEF HeardAfter
<1>3. GoneAfter(<< >>) <=> \A c \in DirectIds : IsRetired(c) => ~Listed(c)
  BY EndsInNone DEF GoneAfter
<1>4. QED
  BY <1>1, <1>2, <1>3 DEF Listed

LEMMA TailOfConcat ==
  ASSUME NEW x \in Seq(Events), NEW y \in Seq(Events), x # << >>
  PROVE  Head(x \o y) = Head(x) /\ Tail(x \o y) = Tail(x) \o y /\ Tail(x) \in Seq(Events)
<1>1. Head(x \o y) = Head(x) /\ Tail(x) \in Seq(Events)
  OBVIOUS
<1>2. /\ Tail(x \o y) \in Seq(Events) /\ Tail(x) \o y \in Seq(Events)
      /\ Len(Tail(x \o y)) = Len(x) + Len(y) - 1 /\ Len(Tail(x) \o y) = Len(x) + Len(y) - 1
  OBVIOUS
<1>3. \A i \in 1..(Len(x) + Len(y) - 1) : Tail(x \o y)[i] = (Tail(x) \o y)[i]
  OBVIOUS
<1>4. QED
  BY <1>1, <1>2, <1>3

LEMMA AppendOfConcat ==
  ASSUME NEW x \in Seq(Events), NEW y \in Seq(Events), NEW e \in Events
  PROVE  Append(x \o y, e) = x \o Append(y, e) /\ Append(x, e) \in Seq(Events)
<1>1. /\ Append(x \o y, e) \in Seq(Events) /\ x \o Append(y, e) \in Seq(Events)
      /\ Len(Append(x \o y, e)) = Len(x) + Len(y) + 1
      /\ Len(x \o Append(y, e)) = Len(x) + Len(y) + 1
  OBVIOUS
<1>2. \A i \in 1..(Len(x) + Len(y) + 1) : Append(x \o y, e)[i] = (x \o Append(y, e))[i]
  OBVIOUS
<1>3. QED
  BY <1>1, <1>2

\* The first of what follows is taken over.
LEMMA ShiftOfConcat ==
  ASSUME NEW x \in Seq(Events), NEW y \in Seq(Events), y # << >>
  PROVE  x \o y = Append(x, Head(y)) \o Tail(y)
<1> DEFINE u == Append(x, Head(y))
<1>1. /\ u \in Seq(Events) /\ Len(u) = Len(x) + 1 /\ u[Len(x) + 1] = y[1]
      /\ \A i \in 1..Len(x) : u[i] = x[i]
  OBVIOUS
<1>2. /\ Tail(y) \in Seq(Events) /\ Len(Tail(y)) = Len(y) - 1
      /\ \A i \in 1..(Len(y) - 1) : Tail(y)[i] = y[i + 1]
  OBVIOUS
<1> HIDE DEF u
<1> DEFINE t == Tail(y)
<1> HIDE DEF t
<1>3. /\ x \o y \in Seq(Events) /\ u \o t \in Seq(Events)
      /\ Len(x \o y) = Len(x) + Len(y) /\ Len(u \o t) = Len(x) + Len(y)
  BY <1>1, <1>2 DEF t
<1>4. ASSUME NEW i \in 1..(Len(x) + Len(y)) PROVE (x \o y)[i] = (u \o t)[i]
  <2>1. CASE i <= Len(x)
    BY <1>1, <2>1
  <2>2. CASE i = Len(x) + 1
    BY <1>1, <2>2
  <2>3. CASE i > Len(x) + 1
    <3>1. (u \o t)[i] = t[i - (Len(x) + 1)]
      BY <1>1, <1>2, <2>3 DEF t
    <3>2. t[i - (Len(x) + 1)] = y[i - Len(x)]
      BY <1>2, <2>3 DEF t
    <3>3. QED
      BY <2>3, <3>1, <3>2
  <2>4. i <= Len(x) \/ i = Len(x) + 1 \/ i > Len(x) + 1
    OBVIOUS
  <2>5. QED
    BY ONLY <2>1, <2>2, <2>3, <2>4, Zenon
<1>5. QED
  BY <1>3, <1>4 DEF u, t

\* The message cache applies the next event.
LEMMA GatewayDrainAgrees ==
  ASSUME CachesInv, ConversationsApart, CachesAgree, DrainGateway
  PROVE  CachesAgree'
<1> DEFINE g == unread["gateway"]
           d == unread["direct"]
<1>0. Drain("gateway") /\ LoopInv
  BY DEF DrainGateway, CachesInv, SessionInv
<1> PICK e \in Events : e = NextEvent("gateway")
  BY <1>0, DrainReads, BothReceivers
<1>1. /\ Drain("gateway") /\ Apply(e) /\ direct' = direct
      /\ LoopInv /\ FrontendInv /\ DirectBounded
  BY DEF DrainGateway, directVars, CachesInv, SessionInv
<1>2. /\ g \in Seq(Events) /\ g # << >> /\ e = Head(g) /\ e \in Events
      /\ unread'["gateway"] = Tail(g) /\ unread'["direct"] = d
      /\ \A q \in Receivers : NeverOvertaken(q)' => NeverOvertaken(q)
  BY <1>1, DrainReads, BothReceivers
<1>3. d \in Seq(Events)
  BY <1>1, BothReceivers DEF LoopInv, LoopTypeOK
<1> HIDE DEF g, d
<1>4. \A c \in DirectIds :
        /\ e \in Openings(c) => ~IsRetired(c)'
        /\ e \in Closings(c) => IsRetired(c)'
        /\ e \notin Closings(c) /\ IsRetired(c)' => IsRetired(c)
  BY <1>1, <1>2, ConversationTombstone DEF IsRetired
<1>5. DOMAIN direct \subseteq DirectIds
  BY <1>1 DEF DirectBounded, DirectTypeOK
<1>6. SUFFICES ASSUME \A r \in Receivers : NeverOvertaken(r)
               PROVE  \/ \E x \in Seq(Events) : Tail(g) = x \o d /\ HeardAfter(x)'
                      \/ \E x \in Seq(Events) : d = x \o Tail(g) /\ GoneAfter(x)'
  BY <1>2 DEF CachesAgree
<1>7. \/ \E x \in Seq(Events) : g = x \o d /\ HeardAfter(x)
      \/ \E x \in Seq(Events) : d = x \o g /\ GoneAfter(x)
  BY <1>6 DEF CachesAgree, g, d
<1>8. ASSUME NEW x \in Seq(Events), g = x \o d, HeardAfter(x), x # << >>
      PROVE  Tail(g) = Tail(x) \o d /\ HeardAfter(Tail(x))'
  <2>1. Head(x) = e /\ Tail(g) = Tail(x) \o d /\ Tail(x) \in Seq(Events)
    BY <1>2, <1>3, <1>8, TailOfConcat
  <2>2. ASSUME NEW c \in DOMAIN direct
        PROVE  EndsIn(Tail(x), Openings(c), Closings(c), ~IsRetired(c)')
    <3>1. EndsIn(x, Openings(c), Closings(c), ~IsRetired(c)) /\ c \in DirectIds
      BY <1>5, <1>8 DEF HeardAfter
    <3>2. /\ Head(x) \in Openings(c) => ~IsRetired(c)'
          /\ Head(x) \notin Closings(c) /\ ~IsRetired(c) => ~IsRetired(c)'
      BY <1>4, <2>1, <3>1
    <3>3. QED
      BY <1>8, <3>1, <3>2, EndsInTail
  <2>3. QED
    BY <1>1, <2>1, <2>2 DEF HeardAfter
<1>9. ASSUME NEW x \in Seq(Events), d = x \o g, GoneAfter(x)
      PROVE  d = Append(x, e) \o Tail(g) /\ GoneAfter(Append(x, e))'
  <2>1. d = Append(x, e) \o Tail(g)
    BY <1>2, <1>9, ShiftOfConcat
  <2>2. ASSUME NEW c \in DirectIds, IsRetired(c)'
        PROVE  EndsIn(Append(x, e), Closings(c), Openings(c), ~Listed(c))
    <3>1. e \notin Openings(c)
      BY <1>4, <2>2
    <3>2. e \in Closings(c) \/ EndsIn(x, Closings(c), Openings(c), ~Listed(c))
      BY <1>4, <1>9, <2>2 DEF GoneAfter
    <3>3. QED
      BY <1>2, <3>1, <3>2, EndsInAppend
  <2>3. QED
    BY <1>1, <2>1, <2>2 DEF GoneAfter, Listed
<1>10. Append(<< >>, e) \in Seq(Events) /\ << >> \in Seq(Events)
  BY <1>2
<1>11. CASE \E x \in Seq(Events) : d = x \o g /\ GoneAfter(x)
  <2>1. PICK x \in Seq(Events) : d = x \o g /\ GoneAfter(x)
    BY <1>11
  <2>2. Append(x, e) \in Seq(Events)
    BY <1>2
  <2>3. QED
    BY <1>9, <2>1, <2>2
<1>12. ASSUME NEW x \in Seq(Events), g = x \o d, HeardAfter(x)
       PROVE  \/ \E y \in Seq(Events) : Tail(g) = y \o d /\ HeardAfter(y)'
              \/ \E y \in Seq(Events) : d = y \o Tail(g) /\ GoneAfter(y)'
  <2>1. CASE x # << >>
    <3>1. Tail(x) \in Seq(Events)
      BY <2>1
    <3>2. QED
      BY <1>8, <1>12, <2>1, <3>1
  <2>2. CASE x = << >>
    <3>1. g = d /\ d = << >> \o g
      BY <1>2, <1>3, <1>12, <2>2, NothingBefore
    <3>2. GoneAfter(<< >>)
      BY <1>1, <1>12, <2>2, LevelAgrees
    <3>3. QED
      BY <1>9, <1>10, <3>1, <3>2
  <2>3. QED
    BY <2>1, <2>2
<1>13. QED
  BY <1>7, <1>11, <1>12

\* The list applies the next event.
LEMMA DirectDrainAgrees ==
  ASSUME CachesInv, CachesAgree, DrainDirect
  PROVE  CachesAgree'
<1> DEFINE g == unread["gateway"]
           d == unread["direct"]
<1>0. Drain("direct") /\ LoopInv
  BY DEF DrainDirect, CachesInv, SessionInv
<1> PICK e \in Events : e = NextEvent("direct")
  BY <1>0, DrainReads, BothReceivers
<1>1. /\ Drain("direct") /\ ApplyDirect(e) /\ retired' = retired
      /\ LoopInv /\ FrontendInv /\ DirectBounded
  BY DEF DrainDirect, vars, timelineVars, CachesInv, SessionInv
<1>2. /\ d \in Seq(Events) /\ d # << >> /\ e = Head(d) /\ e \in Events
      /\ unread'["direct"] = Tail(d) /\ unread'["gateway"] = g
      /\ \A q \in Receivers : NeverOvertaken(q)' => NeverOvertaken(q)
  BY <1>1, DrainReads, BothReceivers
<1>3. g \in Seq(Events)
  BY <1>1, BothReceivers DEF LoopInv, LoopTypeOK
<1> HIDE DEF g, d
<1>4. \A c \in DirectIds :
        /\ e \in Openings(c) => c \in DOMAIN direct'
        /\ e \in Closings(c) => c \notin DOMAIN direct'
        /\ e \notin Openings(c) /\ c \in DOMAIN direct' => c \in DOMAIN direct
  BY <1>1, <1>2, ConversationListed
<1>5. /\ DOMAIN direct \subseteq DirectIds
      /\ \A c \in DOMAIN direct' : c \in DirectIds
  <2>1. DOMAIN direct \subseteq DirectIds
    BY <1>1 DEF DirectBounded, DirectTypeOK
  <2>2. DirectBounded'
    BY <1>1, ListStep DEF SessionNext, PollStep
  <2>3. QED
    BY <2>1, <2>2 DEF DirectBounded, DirectTypeOK
<1>6. SUFFICES ASSUME \A r \in Receivers : NeverOvertaken(r)
               PROVE  \/ \E x \in Seq(Events) : g = x \o Tail(d) /\ HeardAfter(x)'
                      \/ \E x \in Seq(Events) : Tail(d) = x \o g /\ GoneAfter(x)'
  BY <1>2 DEF CachesAgree
<1>7. \/ \E x \in Seq(Events) : g = x \o d /\ HeardAfter(x)
      \/ \E x \in Seq(Events) : d = x \o g /\ GoneAfter(x)
  BY <1>6 DEF CachesAgree, g, d
<1>8. ASSUME NEW x \in Seq(Events), d = x \o g, GoneAfter(x), x # << >>
      PROVE  Tail(d) = Tail(x) \o g /\ GoneAfter(Tail(x))'
  <2>1. Head(x) = e /\ Tail(d) = Tail(x) \o g /\ Tail(x) \in Seq(Events)
    BY <1>2, <1>3, <1>8, TailOfConcat
  <2>2. ASSUME NEW c \in DirectIds, IsRetired(c)
        PROVE  EndsIn(Tail(x), Closings(c), Openings(c), c \notin DOMAIN direct')
    <3>1. EndsIn(x, Closings(c), Openings(c), ~Listed(c))
      BY <1>8, <2>2 DEF GoneAfter
    <3>2. /\ Head(x) \in Closings(c) => c \notin DOMAIN direct'
          /\ Head(x) \notin Openings(c) /\ ~Listed(c) => c \notin DOMAIN direct'
      BY <1>4, <2>1 DEF Listed
    <3>3. QED
      BY <1>8, <3>1, <3>2, EndsInTail
  <2>3. QED
    BY <1>1, <2>1, <2>2 DEF GoneAfter, IsRetired, Listed
<1>9. ASSUME NEW x \in Seq(Events), g = x \o d, HeardAfter(x)
      PROVE  g = Append(x, e) \o Tail(d) /\ HeardAfter(Append(x, e))'
  <2>1. g = Append(x, e) \o Tail(d)
    BY <1>2, <1>9, ShiftOfConcat
  <2>2. ASSUME NEW c \in DOMAIN direct'
        PROVE  EndsIn(Append(x, e), Openings(c), Closings(c), ~IsRetired(c))
    <3>1. c \in DirectIds /\ e \notin Closings(c)
      BY <1>4, <1>5, <2>2
    <3>2. e \in Openings(c) \/ EndsIn(x, Openings(c), Closings(c), ~IsRetired(c))
      BY <1>4, <1>9, <2>2, <3>1 DEF HeardAfter
    <3>3. QED
      BY <1>2, <3>1, <3>2, EndsInAppend
  <2>3. QED
    BY <1>1, <2>1, <2>2 DEF HeardAfter, IsRetired
<1>10. Append(<< >>, e) \in Seq(Events) /\ << >> \in Seq(Events)
  BY <1>2
<1>11. CASE \E x \in Seq(Events) : g = x \o d /\ HeardAfter(x)
  <2>1. PICK x \in Seq(Events) : g = x \o d /\ HeardAfter(x)
    BY <1>11
  <2>2. Append(x, e) \in Seq(Events)
    BY <1>2
  <2>3. QED
    BY <1>9, <2>1, <2>2
<1>12. ASSUME NEW x \in Seq(Events), d = x \o g, GoneAfter(x)
       PROVE  \/ \E y \in Seq(Events) : g = y \o Tail(d) /\ HeardAfter(y)'
              \/ \E y \in Seq(Events) : Tail(d) = y \o g /\ GoneAfter(y)'
  <2>1. CASE x # << >>
    <3>1. Tail(x) \in Seq(Events)
      BY <2>1
    <3>2. QED
      BY <1>8, <1>12, <2>1, <3>1
  <2>2. CASE x = << >>
    <3>1. g = d /\ g = << >> \o d
      BY <1>2, <1>3, <1>12, <2>2, NothingBefore
    <3>2. HeardAfter(<< >>)
      BY <1>1, <1>12, <2>2, LevelAgrees
    <3>3. QED
      BY <1>9, <1>10, <3>1, <3>2
  <2>3. QED
    BY <2>1, <2>2
<1>13. QED
  BY <1>7, <1>11, <1>12

\* Whatever is sent, both readers have to read.
LEMMA SendAgrees ==
  ASSUME CachesInv, CachesAgree, SendEvent
  PROVE  CachesAgree'
<1> DEFINE g == unread["gateway"]
           d == unread["direct"]
<1> PICK e \in Events : e = Head(outbox)
  BY DEF SendEvent, CachesInv, SessionInv, OutboxOK
<1>1. LoopInv /\ Send(e) /\ retired' = retired /\ direct' = direct
  BY DEF SendEvent, CachesInv, SessionInv, cacheVars, vars, timelineVars, directVars
<1>2. g \in Seq(Events) /\ d \in Seq(Events)
  BY <1>1, BothReceivers DEF LoopInv, LoopTypeOK
<1>3. SUFFICES ASSUME \A r \in Receivers : NeverOvertaken(r)'
               PROVE  \/ \E x \in Seq(Events) :
                           unread'["gateway"] = x \o unread'["direct"] /\ HeardAfter(x)'
                      \/ \E x \in Seq(Events) :
                           unread'["direct"] = x \o unread'["gateway"] /\ GoneAfter(x)'
  BY DEF CachesAgree
<1>4. /\ unread'["gateway"] = Append(g, e) /\ unread'["direct"] = Append(d, e)
      /\ \A r \in Receivers : NeverOvertaken(r)
  BY <1>1, <1>3, SentToReader, BothReceivers
<1> HIDE DEF g, d
<1>5. \/ \E x \in Seq(Events) : g = x \o d /\ HeardAfter(x)
      \/ \E x \in Seq(Events) : d = x \o g /\ GoneAfter(x)
  BY <1>4 DEF CachesAgree, g, d
<1>6. \A x : /\ HeardAfter(x)' <=> HeardAfter(x)
             /\ GoneAfter(x)' <=> GoneAfter(x)
  BY <1>1 DEF HeardAfter, GoneAfter, Listed, IsRetired
<1>7. ASSUME NEW x \in Seq(Events), g = x \o d, HeardAfter(x)
      PROVE  Append(g, e) = x \o Append(d, e) /\ HeardAfter(x)'
  BY <1>2, <1>6, <1>7, AppendOfConcat
<1>8. ASSUME NEW x \in Seq(Events), d = x \o g, GoneAfter(x)
      PROVE  Append(d, e) = x \o Append(g, e) /\ GoneAfter(x)'
  BY <1>2, <1>6, <1>8, AppendOfConcat
<1>9. QED
  BY <1>4, <1>5, <1>7, <1>8

LEMMA AgreeStep ==
  ASSUME CachesInv, ConversationsApart, CachesAgree, [SessionNext]_sessionVars
  PROVE  CachesAgree'
<1>1. LoopInv
  BY DEF CachesInv, SessionInv
<1>2. CASE Unmoved
  <2>1. /\ unread' = unread /\ retired' = retired /\ direct' = direct
        /\ \A r \in Receivers : NeverOvertaken(r)' => NeverOvertaken(r)
    BY <1>2 DEF Unmoved
  <2>2. \A x : /\ HeardAfter(x)' <=> HeardAfter(x)
               /\ GoneAfter(x)' <=> GoneAfter(x)
    BY <2>1 DEF HeardAfter, GoneAfter, Listed, IsRetired
  <2>3. QED
    BY <2>1, <2>2 DEF CachesAgree
<1>3. QED
  BY <1>1, <1>2, DrainOrUnmoved, GatewayDrainAgrees, DirectDrainAgrees, SendAgrees

\* When a frame is drawn the list has read no less, so what it lists is heard or
\* its opening is among what the message cache has still to read.
LEMMA AgreeIsHeard ==
  ASSUME CachesInv, CachesAgree, DirectNotBehind
  PROVE  ListedIsHeard
<1> DEFINE g == unread["gateway"]
           d == unread["direct"]
<1>1. SUFFICES ASSUME phase = "draw", \A r \in Receivers : NeverOvertaken(r),
                      NEW c \in DOMAIN direct, IsRetired(c)
               PROVE  \E e \in Items(g) :
                        e.kind \in {"DirectChannelCreate", "DirectChannelUpdate"} /\ e.id = c
  BY DEF ListedIsHeard
<1>2. g \in Seq(Events) /\ d \in Seq(Events)
  BY BothReceivers DEF CachesInv, SessionInv, LoopInv, LoopTypeOK
<1>3. Len(d) <= Len(g)
  BY <1>1 DEF DirectNotBehind
<1>4. DirectBounded /\ c \in DirectIds
  BY <1>1 DEF CachesInv, SessionInv, DirectBounded, DirectTypeOK
<1> HIDE DEF g, d
<1>5. ASSUME NEW x \in Seq(Events), g = x \o d, HeardAfter(x)
      PROVE  \E e \in Items(g) : e \in Openings(c)
  <2>1. EndsIn(x, Openings(c), Closings(c), ~IsRetired(c))
    BY <1>1, <1>5 DEF HeardAfter
  <2>2. PICK i \in DOMAIN x : x[i] \in Openings(c)
    BY <1>1, <2>1 DEF EndsIn
  <2>3. i \in DOMAIN g /\ g[i] = x[i]
    BY <1>2, <1>5, <2>2
  <2>4. QED
    BY <2>2, <2>3 DEF Items
<1>6. ASSUME NEW x \in Seq(Events), d = x \o g, GoneAfter(x)
      PROVE  FALSE
  <2>1. Len(x) = 0
    BY <1>2, <1>3, <1>6
  <2>2. x = << >>
    BY <2>1
  <2>3. HeardAfter(<< >>)
    BY <1>4, <1>6, <2>2, LevelAgrees
  <2>4. QED
    BY <1>1, <2>3, EndsInNone DEF HeardAfter
<1>7. QED
  BY <1>1, <1>5, <1>6 DEF CachesAgree, Openings, g, d

\* For every capacity of the ring, every budget and every limit of the two
\* caches, a conversation that is listed when a frame is drawn is one whose
\* messages are shown, or whose opening the next drain applies (GuiSession::poll,
\* FrontendState::apply_direct, DirectTopologyState::apply): that the receivers
\* read at their own pace never opens what was closed.
THEOREM ListedHeardAlways ==
  ASSUME ConversationsApart
  PROVE  SessionSpec => []ListedIsHeard
<1>1. SessionInit => CachesAgree
  <2> SUFFICES ASSUME SessionInit PROVE CachesAgree
    OBVIOUS
  <2>1. unread["gateway"] = << >> /\ unread["direct"] = << >> /\ DOMAIN direct = {}
    BY BothReceivers DEF SessionInit, LoopInit, BusInit, DirectInit
  <2>2. << >> \in Seq(Events) /\ << >> \o << >> = << >>
    OBVIOUS
  <2>3. HeardAfter(<< >>)
    BY <2>1 DEF HeardAfter
  <2>4. QED
    BY <2>1, <2>2, <2>3 DEF CachesAgree
<1>2. CachesInv /\ CachesAgree /\ [SessionNext]_sessionVars => CachesAgree'
  BY AgreeStep
<1>3. CachesInv /\ CachesAgree /\ DirectNotBehind => ListedIsHeard
  BY AgreeIsHeard
<1>4. QED
  BY <1>1, <1>2, <1>3, CachesInvAlways, SessionNeverBehind, PTL DEF SessionSpec
----------------------------------------------------------------------------
(* What a dispatch opens                                                   *)

IsOpening(e) == e.kind \in {"DirectChannelCreate", "DirectChannelUpdate"}

\* An announcement opens its channel for the recipient, an inbound message its
\* channel for the author.
OpenedBy(d, u, e) ==
  \/ /\ d.t \in {"CHANNEL_CREATE", "CHANNEL_UPDATE"} /\ d.guild = Absent /\ d.oneToOne
     /\ e.id = d.id
     /\ e.recipient = IF ValidUser(d.recipient) THEN d.recipient ELSE Absent
  \/ d.t = "MESSAGE_CREATE" /\ IsInbound(d, u) /\ e.id = d.channel /\ e.recipient = d.author

OpensNothing(s) == \A i \in DOMAIN s : ~IsOpening(s[i])

LEMMA OneOpensNothing ==
  ASSUME NEW e, ~IsOpening(e)
  PROVE  OpensNothing(<<e>>)
BY DEF OpensNothing

LEMMA TwoOpenNothing ==
  ASSUME NEW e, NEW f, ~IsOpening(e), ~IsOpening(f)
  PROVE  OpensNothing(<<e, f>>)
BY DEF OpensNothing

LEMMA NoneOpensNothing == OpensNothing(<< >>)
BY DEF OpensNothing

LEMMA SingleConcat ==
  ASSUME NEW e
  PROVE  << >> \o <<e>> = <<e>> /\ <<e>> \o << >> = <<e>> /\ << >> \o << >> = << >>
<1> DEFINE one == <<e>>
<1>1. one \in Seq({e}) /\ << >> \in Seq({e})
  OBVIOUS
<1>2. << >> \o one = one /\ one \o << >> = one
  BY <1>1, NothingBefore
<1>3. << >> \o << >> = << >>
  BY <1>1, NothingBefore
<1>4. QED
  BY <1>2, <1>3

LEMMA ConcatSecond ==
  ASSUME NEW T, NEW s \in Seq(T), NEW t \in Seq(T)
  PROVE  /\ s \o t \in Seq(T) /\ Len(s \o t) = Len(s) + Len(t)
         /\ \A i \in 1..Len(s) : (s \o t)[i] = s[i]
         /\ \A i \in 1..(Len(s) + Len(t)) : i > Len(s) => (s \o t)[i] = t[i - Len(s)]
OBVIOUS

LEMMA PairConcat ==
  ASSUME NEW T, NEW s \in Seq(T), NEW t \in Seq(T), Len(s) = 1, Len(t) = 1
  PROVE  /\ s \o t \in Seq(T) /\ Len(s \o t) = 2
         /\ (s \o t)[1] = s[1] /\ (s \o t)[2] = t[1]
<1> DEFINE r == s \o t
<1>1. /\ r \in Seq(T) /\ Len(r) = Len(s) + Len(t)
      /\ \A i \in 1..Len(s) : r[i] = s[i]
      /\ \A i \in 1..(Len(s) + Len(t)) : i > Len(s) => r[i] = t[i - Len(s)]
  BY ConcatSecond
<1> HIDE DEF r
<1>2. r[1] = s[1] /\ r[2] = t[1] /\ Len(r) = 2
  BY <1>1
<1>3. QED
  BY <1>1, <1>2 DEF r

LEMMA OneThenOne ==
  ASSUME NEW e, NEW f
  PROVE  <<e>> \o <<f>> = <<e, f>>
<1> DEFINE one == <<e>>
           other == <<f>>
           two == <<e, f>>
<1>1. /\ one \in Seq({e, f}) /\ Len(one) = 1 /\ one[1] = e
      /\ other \in Seq({e, f}) /\ Len(other) = 1 /\ other[1] = f
      /\ two \in Seq({e, f}) /\ Len(two) = 2 /\ two[1] = e /\ two[2] = f
  OBVIOUS
<1> HIDE DEF one, other, two
<1>2. /\ one \o other \in Seq({e, f}) /\ Len(one \o other) = 2
      /\ (one \o other)[1] = e /\ (one \o other)[2] = f
  BY <1>1, PairConcat
<1>4. one \o other = two
  <2>1. \A i \in 1..2 : i = 1 \/ i = 2
    OBVIOUS
  <2>2. \A i \in 1..2 : (one \o other)[i] = two[i]
    BY <1>1, <1>2, <2>1
  <2>3. QED
    BY <1>1, <1>2, <2>2
<1>5. QED
  BY <1>4 DEF one, other, two

LEMMA GuildOpensNothing ==
  ASSUME NEW d, NEW u,
         d.t \in {"GUILD_CREATE", "GUILD_UPDATE", "GUILD_DELETE", "READY", "RESUMED", "USER_UPDATE"}
  PROVE  OpensNothing(EventsOf(d, u))
<1>1. CASE d.t = "GUILD_CREATE"
  <2> DEFINE snapshot == [kind |-> "GuildCreate", guild |-> d.guild,
                          unavailable |-> d.unavailable, channels |-> d.channels]
             sync == [kind |-> "ThreadListSync", guild |-> d.guild, scope |-> Absent,
                      threads |-> [i \in DOMAIN d.threads |->
                        [id |-> d.threads[i].id, guild |-> d.guild,
                         parent |-> d.threads[i].parent, archived |-> d.threads[i].archived]]]
  <2>1. ~IsOpening(snapshot) /\ ~IsOpening(sync)
    BY DEF IsOpening
  <2>2. EventsOf(d, u) = IF d.unavailable THEN <<snapshot>> ELSE <<snapshot, sync>>
    BY <1>1 DEF EventsOf, GuildCreateEvents
  <2> HIDE DEF snapshot, sync
  <2>3. QED
    BY <2>1, <2>2, OneOpensNothing, TwoOpenNothing
<1>2. CASE d.t \in {"GUILD_UPDATE", "GUILD_DELETE"}
  <2> DEFINE change(kind) == [kind |-> kind, guild |-> d.guild, unavailable |-> d.unavailable]
  <2>1. EventsOf(d, u) = <<change("GuildUpdate")>> \/ EventsOf(d, u) = <<change("GuildDelete")>>
    BY <1>2 DEF EventsOf, GuildChangeEvents
  <2>2. ~IsOpening(change("GuildUpdate")) /\ ~IsOpening(change("GuildDelete"))
    BY DEF IsOpening
  <2> HIDE DEF change
  <2>3. QED
    BY <2>1, <2>2, OneOpensNothing
<1>3. CASE d.t \in {"READY", "RESUMED", "USER_UPDATE"}
  <2> DEFINE up(kind) == [kind |-> kind]
  <2>1. \/ EventsOf(d, u) = <<up("GatewayReady")>>
        \/ EventsOf(d, u) = <<up("GatewayResumed")>>
        \/ EventsOf(d, u) = << >>
    BY <1>3 DEF EventsOf
  <2>2. ~IsOpening(up("GatewayReady")) /\ ~IsOpening(up("GatewayResumed"))
    BY DEF IsOpening
  <2> HIDE DEF up
  <2>3. QED
    BY <2>1, <2>2, OneOpensNothing, NoneOpensNothing
<1>4. QED
  BY <1>1, <1>2, <1>3

LEMMA ThreadOpensNothing ==
  ASSUME NEW d, NEW u,
         d.t \in {"THREAD_CREATE", "THREAD_UPDATE", "THREAD_DELETE", "THREAD_LIST_SYNC"}
  PROVE  OpensNothing(EventsOf(d, u))
<1> DEFINE change(kind) == [kind |-> kind, thread |-> d.thread]
           delete == [kind |-> "ThreadDelete", guild |-> d.guild, id |-> d.id]
           sync == [kind |-> "ThreadListSync", guild |-> d.guild, scope |-> d.scope,
                    threads |-> d.threads]
<1>1. \/ EventsOf(d, u) = <<change("ThreadCreate")>>
      \/ EventsOf(d, u) = <<change("ThreadUpdate")>>
      \/ EventsOf(d, u) = <<delete>>
      \/ EventsOf(d, u) = <<sync>>
  BY DEF EventsOf, ThreadEvents, ThreadDeleteEvents, ThreadListSyncEvents
<1>2. /\ ~IsOpening(change("ThreadCreate")) /\ ~IsOpening(change("ThreadUpdate"))
      /\ ~IsOpening(delete) /\ ~IsOpening(sync)
  BY DEF IsOpening
<1> HIDE DEF change, delete, sync
<1>3. QED
  BY <1>1, <1>2, OneOpensNothing

LEMMA EditOpensNothing ==
  ASSUME NEW d, NEW u, d.t \in {"MESSAGE_UPDATE", "MESSAGE_DELETE", "MESSAGE_DELETE_BULK"}
  PROVE  OpensNothing(EventsOf(d, u))
<1>1. CASE d.t = "MESSAGE_UPDATE"
  <2> DEFINE e == [kind |-> "MessageUpdate", channel |-> d.channel, id |-> d.id,
                   content |-> IF d.content = Absent THEN Unchanged ELSE d.content]
  <2>1. EventsOf(d, u) = <<e>> /\ ~IsOpening(e)
    BY <1>1 DEF EventsOf, MessageUpdateEvents, IsOpening
  <2> HIDE DEF e
  <2>2. QED
    BY <2>1, OneOpensNothing
<1>2. CASE d.t = "MESSAGE_DELETE"
  <2> DEFINE e == [kind |-> "MessageDelete", channel |-> d.channel, id |-> d.id]
  <2>1. EventsOf(d, u) = <<e>> /\ ~IsOpening(e)
    BY <1>2 DEF EventsOf, MessageDeleteEvents, IsOpening
  <2> HIDE DEF e
  <2>2. QED
    BY <2>1, OneOpensNothing
<1>3. CASE d.t = "MESSAGE_DELETE_BULK"
  <2>1. EventsOf(d, u) = BulkDeleteEvents(d)
    BY <1>3 DEF EventsOf
  <2>2. CASE Len(d.ids) > MaxBulkDelete
    BY <2>1, <2>2, NoneOpensNothing DEF BulkDeleteEvents
  <2>3. CASE ~(Len(d.ids) > MaxBulkDelete)
    BY <2>1, <2>3 DEF BulkDeleteEvents, OpensNothing, IsOpening
  <2>4. QED
    BY <2>2, <2>3
<1>4. QED
  BY <1>1, <1>2, <1>3

LEMMA ChannelOpens ==
  ASSUME NEW d, NEW u, d.t \in {"CHANNEL_CREATE", "CHANNEL_UPDATE", "CHANNEL_DELETE"},
         NEW i \in DOMAIN EventsOf(d, u), IsOpening(EventsOf(d, u)[i])
  PROVE  OpenedBy(d, u, EventsOf(d, u)[i])
<1> DEFINE inGuild(kind) == [kind |-> kind, guild |-> d.guild, id |-> d.id]
           direct1(kind) == [kind |-> kind, id |-> d.id,
                             recipient |-> IF ValidUser(d.recipient) THEN d.recipient ELSE Absent]
           closing == [kind |-> "DirectChannelDelete", id |-> d.id]
<1>1. CASE d.guild # Absent
  <2>1. \E kind \in {"ChannelCreate", "ChannelUpdate", "ChannelDelete"} :
          EventsOf(d, u) = <<inGuild(kind)>> \o << >>
    BY <1>1 DEF EventsOf, ChannelEvents, DirectChangeEvents, DirectDeleteEvents
  <2>2. \A kind \in {"ChannelCreate", "ChannelUpdate", "ChannelDelete"} : ~IsOpening(inGuild(kind))
    BY DEF IsOpening
  <2> HIDE DEF inGuild
  <2>3. OpensNothing(EventsOf(d, u))
    BY <2>1, <2>2, SingleConcat, OneOpensNothing
  <2>4. QED
    BY <2>3 DEF OpensNothing
<1>2. CASE d.guild = Absent /\ d.t = "CHANNEL_DELETE"
  <2>1. EventsOf(d, u) = << >> \o <<closing>> /\ ~IsOpening(closing)
    BY <1>2 DEF EventsOf, ChannelEvents, DirectDeleteEvents, IsOpening
  <2> HIDE DEF closing
  <2>2. OpensNothing(EventsOf(d, u))
    BY <2>1, SingleConcat, OneOpensNothing
  <2>3. QED
    BY <2>2 DEF OpensNothing
<1>3. CASE d.guild = Absent /\ d.t # "CHANNEL_DELETE" /\ ~d.oneToOne
  <2>1. EventsOf(d, u) = << >> \o << >>
    BY <1>3 DEF EventsOf, ChannelEvents, DirectChangeEvents
  <2>2. QED
    BY <2>1, SingleConcat
<1>4. CASE d.guild = Absent /\ d.t # "CHANNEL_DELETE" /\ d.oneToOne
  <2>1. \E kind \in {"DirectChannelCreate", "DirectChannelUpdate"} :
          EventsOf(d, u) = << >> \o <<direct1(kind)>>
    BY <1>4 DEF EventsOf, ChannelEvents, DirectChangeEvents
  <2>2. \A kind : /\ direct1(kind).id = d.id
                  /\ direct1(kind).recipient = IF ValidUser(d.recipient) THEN d.recipient ELSE Absent
    OBVIOUS
  <2> HIDE DEF direct1
  <2>3. PICK kind : EventsOf(d, u) = <<direct1(kind)>>
    BY <2>1, SingleConcat
  <2>4. EventsOf(d, u)[i] = direct1(kind)
    BY <2>3
  <2>5. QED
    BY <1>4, <2>2, <2>4 DEF OpenedBy
<1>5. QED
  BY <1>1, <1>2, <1>3, <1>4

LEMMA MessageOpens ==
  ASSUME NEW d, NEW u, d.t = "MESSAGE_CREATE",
         NEW i \in DOMAIN EventsOf(d, u), IsOpening(EventsOf(d, u)[i])
  PROVE  OpenedBy(d, u, EventsOf(d, u)[i])
<1> DEFINE found == [kind |-> "DirectChannelUpdate", id |-> d.channel, recipient |-> d.author]
           written == [kind |-> "Message", channel |-> d.channel, id |-> d.id, body |-> d.body]
<1>1. EventsOf(d, u) = DiscoveryEvents(d, u) \o MessageEvents(d)
  BY DEF EventsOf, MessageCreateEvents
<1>2. ~IsOpening(written) /\ found.id = d.channel /\ found.recipient = d.author
  BY DEF IsOpening
<1>3. MessageEvents(d) \in {<< >>, <<written>>}
  BY DEF MessageEvents
<1>4. CASE ~IsInbound(d, u)
  <2>1. DiscoveryEvents(d, u) = << >>
    BY <1>4 DEF DiscoveryEvents
  <2> HIDE DEF written
  <2>2. OpensNothing(EventsOf(d, u))
    BY <1>1, <1>2, <1>3, <2>1, SingleConcat, OneOpensNothing, NoneOpensNothing
  <2>3. QED
    BY <2>2 DEF OpensNothing
<1>5. CASE IsInbound(d, u)
  <2>1. DiscoveryEvents(d, u) = <<found>> /\ MessageEvents(d) = <<written>>
    BY <1>5 DEF DiscoveryEvents, MessageEvents, IsInbound, ValidUser
  <2> HIDE DEF found, written
  <2>3. EventsOf(d, u) = <<found>> \o <<written>>
    BY <1>1, <2>1
  <2>4. <<found>> \o <<written>> = <<found, written>>
    BY OneThenOne
  <2>5. EventsOf(d, u)[i] = found
    BY <1>2, <2>3, <2>4
  <2>6. QED
    BY <1>2, <1>5, <2>5 DEF OpenedBy
<1>6. QED
  BY <1>4, <1>5

LEMMA OpeningsOf ==
  ASSUME NEW d \in Dispatches, NEW u,
         NEW i \in DOMAIN EventsOf(d, u), IsOpening(EventsOf(d, u)[i])
  PROVE  OpenedBy(d, u, EventsOf(d, u)[i])
<1>1. d.t \in DispatchNames
  BY DispatchAssumption
<1>2. OpensNothing(EventsOf(d, u)) => FALSE
  BY DEF OpensNothing
<1>3. QED
  BY <1>1, <1>2, GuildOpensNothing, ThreadOpensNothing, EditOpensNothing, ChannelOpens, MessageOpens
     DEF DispatchNames
----------------------------------------------------------------------------
(* The recipient of a conversation is somebody else                        *)

\* The client is signed in as one user, and a channel is announced for the user
\* at its other end.
OneAccount(me) ==
  \A d \in Dispatches :
    /\ d.t \in {"READY", "USER_UPDATE"} => d.user \in {me, Absent, Malformed}
    /\ d.t \in {"CHANNEL_CREATE", "CHANNEL_UPDATE"} /\ d.guild = Absent /\ d.oneToOne =>
         d.recipient # me

OpensForOthers(s, me) == \A i \in DOMAIN s : IsOpening(s[i]) => s[i].recipient # me

\* Whoever is on the way to the list, or in it, is not the client.
OthersOnly(me) ==
  /\ selfUser \in {me, Absent}
  /\ OpensForOthers(outbox, me)
  /\ OpensForOthers(unread["direct"], me)
  /\ \A c \in DOMAIN direct : direct[c].recipient # me

LEMMA TailForOthers ==
  ASSUME NEW me, NEW s \in Seq(Events), s # << >>, OpensForOthers(s, me)
  PROVE  /\ OpensForOthers(Tail(s), me)
         /\ IsOpening(Head(s)) => Head(s).recipient # me
<1>1. /\ DOMAIN Tail(s) = 1..(Len(s) - 1) /\ DOMAIN s = 1..Len(s) /\ Len(s) \in Nat \ {0}
      /\ \A i \in 1..(Len(s) - 1) : Tail(s)[i] = s[i + 1]
      /\ Head(s) = s[1]
  OBVIOUS
<1>2. \A i \in 1..(Len(s) - 1) : i + 1 \in 1..Len(s)
  BY <1>1
<1>3. 1 \in 1..Len(s)
  BY <1>1
<1>4. QED
  BY <1>1, <1>2, <1>3 DEF OpensForOthers

LEMMA PushedForOthers ==
  ASSUME NEW me, NEW s \in Seq(Events), NEW e \in Events, OpensForOthers(s, me),
         IsOpening(e) => e.recipient # me
  PROVE  OpensForOthers(PushBounded(s, e, Capacity), me)
<1> DEFINE pushed == PushBounded(s, e, Capacity)
<1>1. Items(pushed) \subseteq Items(s) \cup {e}
  BY PushItems
<1>2. \A x \in Items(s) \cup {e} : IsOpening(x) => x.recipient # me
  BY DEF OpensForOthers, Items
<1>3. \A i \in DOMAIN pushed : pushed[i] \in Items(pushed)
  BY DEF Items
<1> HIDE DEF pushed
<1>4. OpensForOthers(pushed, me)
  BY <1>1, <1>2, <1>3 DEF OpensForOthers
<1>5. QED
  BY <1>4 DEF pushed

LEMMA OthersStep ==
  ASSUME NEW me \in Users, OneAccount(me), SessionInv, OthersOnly(me), [SessionNext]_sessionVars
  PROVE  OthersOnly(me)'
<1>1. /\ selfUser \in {me, Absent} /\ OpensForOthers(outbox, me)
      /\ OpensForOthers(unread["direct"], me)
      /\ \A c \in DOMAIN direct : direct[c].recipient # me
      /\ LoopInv /\ DirectBounded /\ outbox \in Seq(Events)
      /\ unread["direct"] \in Seq(Events)
  BY BothReceivers DEF OthersOnly, SessionInv, LoopInv, LoopTypeOK, OutboxOK
<1>2. me # Absent
  BY DirectAssumption
<1>3. UNCHANGED <<selfUser, outbox, unread, direct>> => OthersOnly(me)'
  BY <1>1 DEF OthersOnly, OpensForOthers
<1>4. ASSUME NEW d \in Dispatches, ReadDispatch(d) PROVE OthersOnly(me)'
  <2>1. /\ selfUser' = SelfAfter(d, selfUser) /\ outbox' = EventsOf(d, selfUser')
        /\ unread' = unread /\ direct' = direct
    BY <1>4 DEF ReadDispatch, cacheVars, directVars, LoopVars, busVars
  <2>2. selfUser' \in {me, Absent}
    BY <1>1, <2>1 DEF SelfAfter, OneAccount, ValidUser
  <2>3. ASSUME NEW i \in DOMAIN outbox', IsOpening(outbox'[i])
        PROVE  outbox'[i].recipient # me
    <3>1. OpenedBy(d, selfUser', outbox'[i])
      BY <2>1, <2>3, OpeningsOf
    <3>2. CASE /\ d.t \in {"CHANNEL_CREATE", "CHANNEL_UPDATE"} /\ d.guild = Absent /\ d.oneToOne
               /\ outbox'[i].recipient = IF ValidUser(d.recipient) THEN d.recipient ELSE Absent
      BY <1>2, <3>2 DEF OneAccount
    <3>3. CASE IsInbound(d, selfUser') /\ outbox'[i].recipient = d.author
      BY <2>2, <3>3 DEF IsInbound
    <3>4. QED
      BY <3>1, <3>2, <3>3 DEF OpenedBy
  <2>4. OpensForOthers(outbox', me)
    BY <2>3 DEF OpensForOthers
  <2>5. QED
    BY <1>1, <2>1, <2>2, <2>4 DEF OthersOnly
<1>5. CASE SendEvent
  <2>1. /\ outbox # << >> /\ outbox' = Tail(outbox) /\ Send(Head(outbox))
        /\ selfUser' = selfUser /\ direct' = direct
    BY <1>5 DEF SendEvent, cacheVars, directVars
  <2>2. Head(outbox) \in Events
    BY <1>1, <2>1
  <2>3. /\ OpensForOthers(Tail(outbox), me)
        /\ IsOpening(Head(outbox)) => Head(outbox).recipient # me
    BY <1>1, <2>1, TailForOthers
  <2>4. unread'["direct"] = PushBounded(unread["direct"], Head(outbox), Capacity)
    BY <2>1, BothReceivers DEF Send
  <2>5. OpensForOthers(unread'["direct"], me)
    BY <1>1, <2>2, <2>3, <2>4, PushedForOthers
  <2>6. QED
    BY <1>1, <2>1, <2>3, <2>5 DEF OthersOnly
<1>6. CASE DrainGateway
  <2>1. /\ unread'["direct"] = unread["direct"]
        /\ selfUser' = selfUser /\ outbox' = outbox /\ direct' = direct
    BY <1>1, <1>6, DrainReads, BothReceivers DEF DrainGateway, gatewayVars, directVars
  <2>2. QED
    BY <1>1, <2>1 DEF OthersOnly
<1>7. CASE DrainDirect
  <2> DEFINE e == NextEvent("direct")
  <2>1. /\ Drain("direct") /\ ApplyDirect(e) /\ selfUser' = selfUser /\ outbox' = outbox
    BY <1>7 DEF DrainDirect, gatewayVars
  <2>2. /\ unread["direct"] # << >> /\ e = Head(unread["direct"])
        /\ unread'["direct"] = Tail(unread["direct"])
    BY <1>1, <2>1, DrainReads, BothReceivers
  <2>3. /\ OpensForOthers(unread'["direct"], me)
        /\ IsOpening(e) => e.recipient # me
    BY <1>1, <2>2, TailForOthers
  <2> HIDE DEF e
  <2>4. \A c \in DOMAIN direct' : direct'[c].recipient # me
    <3>1. CASE UNCHANGED directVars
      BY <1>1, <3>1 DEF directVars
    <3>2. ASSUME IsOpening(e), UpsertDirect(e.id, e.recipient)
          PROVE  \A c \in DOMAIN direct' : direct'[c].recipient # me
      <4> DEFINE room == IF Listed(e.id) \/ Cardinality(DOMAIN direct) < MaxDirect
                         THEN DOMAIN direct ELSE DOMAIN direct \ {LeastRecentDirect}
                 new == [recipient |-> e.recipient, touched |-> directClock']
      <4>1. direct' = [c \in room \cup {e.id} |-> IF c = e.id THEN new ELSE direct[c]]
        BY <3>2 DEF UpsertDirect
      <4>2. room \subseteq DOMAIN direct /\ new.recipient # me
        BY <2>3, <3>2
      <4> HIDE DEF room, new
      <4>3. QED
        BY <1>1, <4>1, <4>2
    <3>3. ASSUME RemoveDirect(e.id) PROVE \A c \in DOMAIN direct' : direct'[c].recipient # me
      BY <1>1, <3>3 DEF RemoveDirect
    <3>4. ASSUME Listed(e.channel), TouchDirect(e.channel)
          PROVE  \A c \in DOMAIN direct' : direct'[c].recipient # me
      <4>1. direct' = [direct EXCEPT ![e.channel].touched = directClock']
        BY <3>4 DEF TouchDirect
      <4>2. \A c \in DOMAIN direct : direct[c] \in DirectChannel
        BY <1>1 DEF DirectBounded, DirectTypeOK
      <4>3. \A c \in DOMAIN direct : direct'[c].recipient = direct[c].recipient
        BY <4>1, <4>2 DEF DirectChannel
      <4>4. QED
        BY <1>1, <4>1, <4>3
    <3>5. QED
      BY <2>1, <3>1, <3>2, <3>3, <3>4 DEF ApplyDirect, IsOpening, TouchDirect
  <2>5. QED
    BY <1>1, <2>1, <2>3, <2>4 DEF OthersOnly
<1>8. CASE DrainRest \/ PollElse \/ User \/ UNCHANGED sessionVars
  <2>1. UNCHANGED <<selfUser, outbox, unread, direct>>
    BY <1>8 DEF DrainRest, PollElse, User, SelectChannel, Deselect, sessionVars, gatewayVars,
                cacheVars, directVars, LoopVars, busVars, StartFrame, EndRest, SkipLost, EndDrain,
                TellLag
  <2>2. QED
    BY <1>3, <2>1
<1>9. QED
  BY <1>4, <1>5, <1>6, <1>7, <1>8 DEF SessionNext, PollStep, Gateway

\* No conversation is ever listed under the name of the client itself, whether it
\* knows itself yet or not, and whatever was lost on the way to the list
\* (connection.rs, emit_direct_message_discovery).
THEOREM RecipientAlways ==
  ASSUME NEW me \in Users, OneAccount(me)
  PROVE  SessionSpec => []RecipientIsOther
<1>1. SessionInit => OthersOnly(me)
  BY BothReceivers
     DEF SessionInit, LoopInit, BusInit, DirectInit, OthersOnly, OpensForOthers
<1>2. SessionInv /\ OthersOnly(me) /\ [SessionNext]_sessionVars => OthersOnly(me)'
  BY OthersStep
<1>3. OthersOnly(me) => RecipientIsOther
  BY DEF OthersOnly, RecipientIsOther
<1>4. QED
  BY <1>1, <1>2, <1>3, SessionInvAlways, PTL DEF SessionSpec
----------------------------------------------------------------------------
(* What Discord has closed                                                 *)

\* What is on the way to a receiver.
Coming(r) == unread[r] \o outbox

\* A conversation whose messages are ignored, or would be but for the limit of
\* the tombstones.
ShutOut(c) == IsRetired(c) \/ c \in forgotten

\* Once a receiver that was never overtaken has what is on its way, what is
\* closed is shut out, or is not listed.
ClosedAhead ==
  \A c \in closed :
    /\ NeverOvertaken("gateway") =>
         EndsIn(Coming("gateway"), Closings(c), Openings(c), ShutOut(c))
    /\ NeverOvertaken("direct") =>
         EndsIn(Coming("direct"), Closings(c), Openings(c), ~Listed(c))

LEMMA ComingTyped ==
  ASSUME SessionInv, NEW r \in Receivers
  PROVE  unread[r] \in Seq(Events) /\ outbox \in Seq(Events) /\ Coming(r) \in Seq(Events)
BY DEF SessionInv, OutboxOK, LoopInv, LoopTypeOK, Coming

\* What a drain reads is the first of what comes.
LEMMA ComingDrained ==
  ASSUME SessionInv, NEW r \in Receivers, Drain(r), outbox' = outbox
  PROVE  /\ Coming(r) # << >> /\ Head(Coming(r)) = NextEvent(r)
         /\ Coming(r)' = Tail(Coming(r))
         /\ \A q \in Receivers : q # r => Coming(q)' = Coming(q)
         /\ \A q \in Receivers : NeverOvertaken(q)' => NeverOvertaken(q)
<1>1. LoopInv /\ unread[r] \in Seq(Events) /\ outbox \in Seq(Events)
  BY ComingTyped DEF SessionInv
<1>2. /\ unread[r] # << >> /\ NextEvent(r) = Head(unread[r])
      /\ unread'[r] = Tail(unread[r])
      /\ \A q \in Receivers : q # r => unread'[q] = unread[q]
      /\ \A q \in Receivers : NeverOvertaken(q)' => NeverOvertaken(q)
  BY <1>1, DrainReads
<1>3. /\ Head(Coming(r)) = Head(unread[r])
      /\ Tail(Coming(r)) = Tail(unread[r]) \o outbox
  BY <1>1, <1>2, TailOfConcat DEF Coming
<1>4. Coming(r) # << >>
  BY <1>1, <1>2 DEF Coming
<1>5. QED
  BY <1>2, <1>3, <1>4 DEF Coming

\* What is sent is on the way as before.
LEMMA ComingSent ==
  ASSUME SessionInv, SendEvent, NEW r \in Receivers, NeverOvertaken(r)'
  PROVE  NeverOvertaken(r) /\ Coming(r)' = Coming(r)
<1>1. LoopInv /\ unread[r] \in Seq(Events) /\ outbox \in Seq(Events)
  BY ComingTyped DEF SessionInv
<1>2. /\ outbox # << >> /\ outbox' = Tail(outbox) /\ Send(Head(outbox)) /\ Head(outbox) \in Events
  BY <1>1 DEF SendEvent
<1>3. NeverOvertaken(r) /\ unread'[r] = Append(unread[r], Head(outbox))
  BY <1>1, <1>2, SentToReader
<1>4. unread[r] \o outbox = Append(unread[r], Head(outbox)) \o Tail(outbox)
  BY <1>1, <1>2, ShiftOfConcat
<1>5. QED
  BY <1>2, <1>3, <1>4 DEF Coming

\* A dispatch either closes the conversation or does not open it.
LEMMA ComingRead ==
  ASSUME SessionInv, NEW d \in Dispatches, ReadDispatch(d), NEW r \in Receivers,
         NEW c \in closed', NEW now,
         c \in closed => EndsIn(Coming(r), Closings(c), Openings(c), now)
  PROVE  EndsIn(Coming(r)', Closings(c), Openings(c), now)
<1> DEFINE s == unread[r]
           t == EventsOf(d, selfUser')
<1>1. /\ outbox = << >> /\ selfUser' = SelfAfter(d, selfUser) /\ outbox' = t /\ unread' = unread
      /\ closed' = IF Closes(d) THEN closed \cup {d.id}
                   ELSE IF Opens(d, selfUser) THEN closed \ {ChannelIn(d)} ELSE closed
  BY DEF ReadDispatch, LoopVars, busVars
<1>2. s \in Seq(Events) /\ Coming(r) = s /\ Coming(r)' = s \o t
  <2>1. s \in Seq(Events)
    BY ComingTyped
  <2>2. s \o << >> = s
    BY <2>1, NothingBefore
  <2>3. QED
    BY <1>1, <2>1, <2>2 DEF Coming
<1>3. t \in Seq(Events) /\ selfUser' \in Users \cup {Absent}
  BY <1>1, DispatchAssumption DEF SessionInv, OutboxOK
<1>4. CASE Closes(d) /\ c = d.id
  <2> DEFINE e == [kind |-> "DirectChannelDelete", id |-> d.id]
  <2>1. t = <<e>>
    BY <1>3, <1>4, DeletionIsEvent
  <2>2. e \in Events
    <3> DEFINE one == <<e>>
    <3>1. one \in Seq(Events) /\ Len(one) = 1 /\ one[1] = e
      BY <1>3, <2>1
    <3>2. QED
      BY <3>1
  <2>3. e \in Closings(c) /\ e \notin Openings(c)
    BY <1>4, <2>2 DEF Closings, Openings
  <2> HIDE DEF e, s
  <2>4. s \o <<e>> = Append(s, e)
    BY <1>2, <2>2
  <2>5. EndsIn(Append(s, e), Closings(c), Openings(c), now)
    BY <1>2, <2>2, <2>3, EndsInAppend
  <2>6. QED
    BY <1>2, <2>1, <2>4, <2>5
<1>5. CASE ~(Closes(d) /\ c = d.id)
  <2>1. c \in closed /\ ~(~Closes(d) /\ Opens(d, selfUser) /\ c = ChannelIn(d))
    BY <1>1, <1>5
  <2>2. ASSUME NEW i \in DOMAIN t, t[i] \in Openings(c) PROVE FALSE
    <3>1. IsOpening(t[i]) /\ t[i].id = c
      BY <2>2 DEF Openings, IsOpening
    <3>2. OpenedBy(d, selfUser', t[i])
      BY <3>1, OpeningsOf
    <3>3. d.t = "MESSAGE_CREATE" => selfUser' = selfUser
      BY <1>1 DEF SelfAfter
    <3>4. Opens(d, selfUser) /\ c = ChannelIn(d)
      BY <3>1, <3>2, <3>3 DEF OpenedBy, Opens, ChannelIn
    <3>5. ~Closes(d)
      BY <3>4 DEF Opens, Closes
    <3>6. QED
      BY <2>1, <3>4, <3>5
  <2> HIDE DEF s, t
  <2>3. EndsIn(s, Closings(c), Openings(c), now)
    BY <1>2, <2>1
  <2>4. QED
    BY <1>2, <1>3, <2>2, <2>3, EndsInConcat
<1>6. QED
  BY <1>4, <1>5

LEMMA ClosedStep ==
  ASSUME CachesInv, ConversationsApart, IdsAreUnique, ClosedAhead, [SessionNext]_sessionVars
  PROVE  ClosedAhead'
<1>1. SessionInv /\ LoopInv /\ FrontendInv /\ DirectBounded /\ closed \subseteq DirectIds
  BY DEF CachesInv, SessionInv, FetchesOK
<1>2. ASSUME NEW d \in Dispatches, ReadDispatch(d) PROVE ClosedAhead'
  <2>1. /\ retired' = retired /\ forgotten' = forgotten /\ direct' = direct
        /\ \A r : NeverOvertaken(r)' <=> NeverOvertaken(r)
    BY <1>2 DEF ReadDispatch, cacheVars, vars, timelineVars, directVars, LoopVars, busVars,
                NeverOvertaken
  <2>2. ASSUME NEW c \in closed', NeverOvertaken("gateway")
        PROVE  EndsIn(Coming("gateway")', Closings(c), Openings(c), ShutOut(c))
    BY <1>1, <1>2, <2>2, ComingRead, BothReceivers DEF ClosedAhead
  <2>3. ASSUME NEW c \in closed', NeverOvertaken("direct")
        PROVE  EndsIn(Coming("direct")', Closings(c), Openings(c), ~Listed(c))
    BY <1>1, <1>2, <2>3, ComingRead, BothReceivers DEF ClosedAhead
  <2>4. QED
    BY <2>1, <2>2, <2>3 DEF ClosedAhead, ShutOut, IsRetired, Listed
<1>3. CASE SendEvent
  <2>1. retired' = retired /\ forgotten' = forgotten /\ direct' = direct /\ closed' = closed
    BY <1>3 DEF SendEvent, cacheVars, vars, timelineVars, directVars
  <2>2. \A r \in Receivers : NeverOvertaken(r)' => NeverOvertaken(r) /\ Coming(r)' = Coming(r)
    BY <1>1, <1>3, ComingSent
  <2>3. QED
    BY <2>1, <2>2, BothReceivers DEF ClosedAhead, ShutOut, IsRetired, Listed
<1>4. CASE DrainGateway
  <2> DEFINE e == NextEvent("gateway")
  <2>1. /\ Drain("gateway") /\ Apply(e) /\ outbox' = outbox /\ closed' = closed /\ direct' = direct
    BY <1>4 DEF DrainGateway, gatewayVars, directVars
  <2>2. /\ Coming("gateway") # << >> /\ Head(Coming("gateway")) = e
        /\ Coming("gateway")' = Tail(Coming("gateway")) /\ Coming("direct")' = Coming("direct")
        /\ \A q \in Receivers : NeverOvertaken(q)' => NeverOvertaken(q)
        /\ Coming("gateway") \in Seq(Events)
    BY <1>1, <2>1, ComingDrained, ComingTyped, BothReceivers
  <2>3. e \in Events
    BY <1>1, <2>1, DrainReads, BothReceivers
  <2> HIDE DEF e
  <2>4. ASSUME NEW c \in closed, NeverOvertaken("gateway")
        PROVE  EndsIn(Coming("gateway")', Closings(c), Openings(c), ShutOut(c)')
    <3>1. /\ e \in Closings(c) => ShutOut(c)'
          /\ e \notin Openings(c) /\ ShutOut(c) => ShutOut(c)'
      <4>1. forgotten' = (forgotten \cup GivenUp) \ Items(retired')
        BY <1>4 DEF DrainGateway
      <4>2. /\ e \in Closings(c) => c \in Items(retired')
            /\ e \notin Openings(c) /\ c \in Items(retired)
                 => c \in Items(retired') \cup GivenUp
        BY <1>1, <2>1, <2>3, ConversationTombstone
      <4>3. QED
        BY <4>1, <4>2 DEF ShutOut, IsRetired
    <3>2. EndsIn(Coming("gateway"), Closings(c), Openings(c), ShutOut(c))
      BY <2>4 DEF ClosedAhead
    <3>3. QED
      BY <2>2, <3>1, <3>2, EndsInTail
  <2>5. QED
    BY <2>1, <2>2, <2>4, BothReceivers DEF ClosedAhead, Listed
<1>5. CASE DrainDirect
  <2> DEFINE e == NextEvent("direct")
  <2>1. /\ Drain("direct") /\ ApplyDirect(e) /\ outbox' = outbox /\ closed' = closed
        /\ retired' = retired /\ forgotten' = forgotten
    BY <1>5 DEF DrainDirect, gatewayVars, vars, timelineVars
  <2>2. /\ Coming("direct") # << >> /\ Head(Coming("direct")) = e
        /\ Coming("direct")' = Tail(Coming("direct")) /\ Coming("gateway")' = Coming("gateway")
        /\ \A q \in Receivers : NeverOvertaken(q)' => NeverOvertaken(q)
        /\ Coming("direct") \in Seq(Events)
    BY <1>1, <2>1, ComingDrained, ComingTyped, BothReceivers
  <2>3. e \in Events
    BY <1>1, <2>1, DrainReads, BothReceivers
  <2> HIDE DEF e
  <2>4. ASSUME NEW c \in closed, NeverOvertaken("direct")
        PROVE  EndsIn(Coming("direct")', Closings(c), Openings(c), ~Listed(c)')
    <3>1. /\ e \in Closings(c) => ~Listed(c)'
          /\ e \notin Openings(c) /\ ~Listed(c) => ~Listed(c)'
      BY <1>1, <2>1, <2>3, ConversationListed DEF Listed
    <3>2. EndsIn(Coming("direct"), Closings(c), Openings(c), ~Listed(c))
      BY <2>4 DEF ClosedAhead
    <3>3. QED
      BY <2>2, <3>1, <3>2, EndsInTail
  <2>5. QED
    BY <2>1, <2>2, <2>4, BothReceivers DEF ClosedAhead, ShutOut, IsRetired
<1>6. CASE DrainRest \/ PollElse \/ User \/ UNCHANGED sessionVars
  <2>1. DrainGateway \/ DrainDirect \/ SendEvent \/ Unmoved
    BY <1>1, DrainOrUnmoved
  <2>2. outbox' = outbox /\ closed' = closed /\ forgotten' = forgotten
    BY <1>6 DEF DrainRest, PollElse, User, SelectChannel, Deselect, sessionVars, gatewayVars,
                cacheVars
  <2>3. CASE Unmoved
    BY <2>2, <2>3, BothReceivers DEF Unmoved, ClosedAhead, Coming, ShutOut, IsRetired, Listed
  <2>4. QED
    BY <1>3, <1>4, <1>5, <2>1, <2>3
<1>7. QED
  BY <1>2, <1>3, <1>4, <1>5, <1>6 DEF SessionNext, PollStep, Gateway

\* For every capacity, budget and number of tombstones: once a cache that was
\* never overtaken has read the bus, what Discord has closed is gone from it,
\* whatever edits, echoes and history pages came after the deletion; only what
\* has lost its tombstone to later ones may be in the message cache again
\* (docs/direct-cache-convergence.md, "Deletion convergence").
THEOREM ClosedGoneAlways ==
  ASSUME ConversationsApart, IdsAreUnique
  PROVE  SessionSpec => []ClosedIsGone
<1>1. SessionInit => ClosedAhead
  BY DEF SessionInit, ClosedAhead
<1>2. CachesInv /\ ClosedAhead /\ [SessionNext]_sessionVars => ClosedAhead'
  BY ClosedStep
<1>3. CachesInv /\ ClosedAhead => ClosedIsGone
  <2> SUFFICES ASSUME CachesInv, ClosedAhead, Whole, AllRead("gateway"), NEW c \in closed
               PROVE  (c \in DOMAIN channels => c \in forgotten) /\ (AllRead("direct") => ~Listed(c))
    BY DEF ClosedIsGone
  <2>1. \A r \in Receivers : AllRead(r) => Coming(r) = << >>
    <3>1. << >> \in Seq(Events) /\ << >> \o << >> = << >>
      OBVIOUS
    <3>2. QED
      BY <3>1 DEF Whole, AllRead, Coming
  <2>2. ShutOut(c)
    BY <2>1, EndsInNone, BothReceivers DEF ClosedAhead, Whole
  <2>3. AllRead("direct") => ~Listed(c)
    BY <2>1, EndsInNone, BothReceivers DEF ClosedAhead, Whole
  <2>4. RetiredHaveNoTimeline
    BY InvParts DEF CachesInv, FrontendInv
  <2>5. QED
    BY <2>2, <2>3, <2>4 DEF RetiredHaveNoTimeline, ShutOut
<1>4. QED
  BY <1>1, <1>2, <1>3, CachesInvAlways, PTL DEF SessionSpec
----------------------------------------------------------------------------
(* What a history page leaves of a message                                 *)

\* The message is there, or the timeline is full and has a younger one.
HeldOrOut(s, id) ==
  HasId(s, id) \/ (Len(s) = MaxMessages /\ \E m \in Items(s) : m.id > id)

\* An inserted message pushes out one that is older than itself.
LEMMA InsertHoldsOrOut ==
  ASSUME NEW s, Log(s), NEW m \in PageMessage, NEW id \in MsgIds, HeldOrOut(s, id)
  PROVE  HeldOrOut(InsertHistory(s, m), id)
<1> DEFINE n == Len(s)
<1>1. /\ s \in Seq(Message) /\ n \in Nat /\ n <= MaxMessages /\ DOMAIN s = 1..n
      /\ id \in Nat /\ \A k \in 1..n : s[k].id \in Nat
  <2>1. s \in Seq(Message) /\ n \in Nat /\ n <= MaxMessages /\ DOMAIN s = 1..n
    BY DEF Log
  <2>2. \A k \in 1..n : s[k] \in Message
    BY <2>1
  <2>3. QED
    BY <2>1, <2>2, IdsAreNumbers, TimelinesAssumption
<1>2. CASE ~m.authored \/ HasId(s, m.id)
  BY <1>2 DEF InsertHistory
<1>3. CASE m.authored /\ ~HasId(s, m.id)
  <2>1. PICK at \in 1..n+1, e \in Message, longer \in Seq(Message) :
          /\ e.id = m.id
          /\ \A i \in 1..n : i < at => ~(m.id < s[i].id)
          /\ Inserted(longer, s, at, e)
          /\ InsertHistory(s, m) = IF Len(longer) > MaxMessages THEN Tail(longer) ELSE longer
    BY <1>3, HistoryInsertion
  <2>2. /\ at \in 1..n+1 /\ e.id = m.id /\ e.id \in Nat
        /\ \A i \in 1..n : i < at => ~(e.id < s[i].id)
        /\ \A i \in 1..n : e.id # s[i].id
    BY <1>1, <1>3, <2>1, IdsAreNumbers DEF HasId
  <2>3. /\ longer \in Seq(Message) /\ Len(longer) = n + 1 /\ DOMAIN longer = 1..n+1
        /\ \A j \in 1..n+1 :
             longer[j] = IF j < at THEN s[j] ELSE IF j = at THEN e ELSE s[j-1]
    BY <2>1 DEF Inserted
  <2> HIDE DEF n
  <2>4. ASSUME NEW k \in 1..n
        PROVE  \E j \in 1..n+1 : longer[j] = s[k] /\ (j = 1 => k = 1 /\ k < at)
    <3>1. CASE k < at
      <4>1. k \in 1..n+1 /\ longer[k] = s[k]
        BY <1>1, <2>2, <2>3, <3>1
      <4>2. QED
        BY <3>1, <4>1
    <3>2. CASE ~(k < at)
      <4>1. k + 1 \in 1..n+1 /\ longer[k+1] = s[k] /\ k + 1 # 1
        BY <1>1, <2>2, <2>3, <3>2
      <4>2. QED
        BY <4>1
    <3>3. QED
      BY <3>1, <3>2
  <2>5. CASE Len(longer) > MaxMessages
    <3> DEFINE new == Tail(longer)
    <3>1. /\ InsertHistory(s, m) = new /\ Len(new) = n /\ n = MaxMessages
          /\ DOMAIN new = 1..n /\ \A i \in 1..n : new[i] = longer[i+1]
      <4>1. InsertHistory(s, m) = new
        BY <2>1, <2>5
      <4>2. n = MaxMessages
        BY <1>1, <2>3, <2>5, TimelinesAssumption
      <4>3. /\ Len(new) = n /\ DOMAIN new = 1..n /\ \A i \in 1..n : new[i] = longer[i+1]
        BY <1>1, <2>3
      <4>4. QED
        BY <4>1, <4>2, <4>3
    <3> HIDE DEF new
    <3>2. \A j \in 1..n+1 : j # 1 => j - 1 \in 1..n /\ new[j-1] = longer[j]
      BY <1>1, <3>1
    <3>3. ASSUME NEW k \in 1..n
          PROVE  \E i \in DOMAIN new : new[i].id = s[k].id \/ new[i].id > s[k].id
      <4>1. PICK j \in 1..n+1 : longer[j] = s[k] /\ (j = 1 => k = 1 /\ k < at)
        BY <2>4
      <4>2. CASE j # 1
        BY <3>1, <3>2, <4>1, <4>2
      <4>3. CASE j = 1
        <5>1. k < at /\ at # 1 /\ longer[at] = e
          BY <2>2, <2>3, <4>1, <4>3
        <5>2. at - 1 \in DOMAIN new /\ new[at-1] = e
          BY <2>2, <3>1, <3>2, <5>1
        <5>3. e.id > s[k].id
          BY <1>1, <2>2, <5>1
        <5>4. QED
          BY <5>2, <5>3
      <4>4. QED
        BY <4>2, <4>3
    <3>4. \A i \in DOMAIN new : new[i].id \in Nat
      <4>1. \A i \in 1..n : i + 1 \in 1..n+1 /\ longer[i+1] \in Message
        BY <1>1, <2>3
      <4>2. QED
        BY <3>1, <4>1, IdsAreNumbers
    <3>5. PICK k \in 1..n : s[k].id = id \/ s[k].id > id
      BY <1>1 DEF HeldOrOut, HasId, Items
    <3>6. PICK i \in DOMAIN new : new[i].id = s[k].id \/ new[i].id > s[k].id
      BY <3>3
    <3>7. new[i].id = id \/ new[i].id > id
      BY <1>1, <3>4, <3>5, <3>6
    <3>8. QED
      BY <3>1, <3>7 DEF HeldOrOut, HasId, Items
  <2>6. CASE ~(Len(longer) > MaxMessages)
    <3>1. InsertHistory(s, m) = longer /\ n # MaxMessages
      BY <1>1, <2>1, <2>3, <2>6, TimelinesAssumption
    <3>2. PICK k \in 1..n : s[k].id = id
      BY <1>1, <3>1 DEF HeldOrOut, HasId, n
    <3>3. PICK j \in 1..n+1 : longer[j] = s[k]
      BY <2>4
    <3>4. QED
      BY <2>3, <3>1, <3>2, <3>3 DEF HeldOrOut, HasId
  <2>7. QED
    BY <2>5, <2>6
<1>4. QED
  BY <1>2, <1>3 DEF PageMessage

LEMMA MergeHoldsOrOut ==
  ASSUME NEW s, Log(s), NEW page \in Seq(PageMessage), NEW id \in MsgIds, HeldOrOut(s, id)
  PROVE  HeldOrOut(MergeHistory(s, page), id)
<1> DEFINE n == Len(page)
<1>1. n \in Nat /\ DOMAIN page = 1..n
  OBVIOUS
<1>2. PICK f : IsMerge(f, s, page)
  BY MergeStepwise
<1> DEFINE K == {i \in 0..n : HeldOrOut(f[i], id)}
<1>3. 0 \in K
  BY <1>1, <1>2 DEF IsMerge
<1>4. ASSUME NEW i \in 0..n, i < n, i \in K
      PROVE  i+1 \in K
  <2>1. i+1 \in 1..n /\ i+1 \in 0..n /\ page[i+1] \in PageMessage
    BY <1>1, <1>4
  <2>2. f[i+1] = InsertHistory(f[i], page[i+1]) /\ Log(f[i])
    BY <1>2, <1>4 DEF IsMerge
  <2>3. HeldOrOut(f[i+1], id)
    BY <1>4, <2>1, <2>2, InsertHoldsOrOut
  <2>4. QED
    BY <2>1, <2>3
<1> HIDE DEF K
<1>5. 0..n \subseteq K
  BY <1>1, <1>3, <1>4, UpTo
<1>6. n \in K
  BY <1>1, <1>5
<1>7. QED
  BY <1>2, <1>6 DEF K, IsMerge

\* Opening a timeline keeps the others, or leaves the cache full.
LEMMA OpenedKeepsOrFills ==
  ASSUME NEW chs, NEW now \in Nat, Cache(chs, now), NEW c \in ChannelIds
  PROVE  LET open == Opened(chs, c, now+1)
         IN  /\ c \in DOMAIN open
             /\ c \in DOMAIN chs => open[c].messages = chs[c].messages
             /\ c \notin DOMAIN chs => open[c].messages = << >>
             /\ \A d \in DOMAIN chs :
                  \/ d \in DOMAIN open /\ open[d].messages = chs[d].messages
                  \/ Cardinality(DOMAIN open) = MaxChannels
             /\ Cardinality(DOMAIN chs) = MaxChannels => Cardinality(DOMAIN open) = MaxChannels
<1> DEFINE victim == LeastRecentlyUsed(chs)
           open == Opened(chs, c, now+1)
<1>1. Cardinality(DOMAIN chs) \in Nat /\ IsFiniteSet(DOMAIN chs) /\ Cardinality(DOMAIN chs) <= MaxChannels
  BY FS_CardinalityType DEF Cache
<1>2. /\ c \in DOMAIN open
      /\ c \in DOMAIN chs => open[c].messages = chs[c].messages
      /\ c \notin DOMAIN chs => open[c].messages = << >>
  BY DEF Opened
<1>3. CASE c \in DOMAIN chs \/ Cardinality(DOMAIN chs) < MaxChannels
  <2>1. DOMAIN open = DOMAIN chs \cup {c} /\ \A d \in DOMAIN chs : open[d].messages = chs[d].messages
    BY <1>3 DEF Opened
  <2>2. Cardinality(DOMAIN chs) = MaxChannels => Cardinality(DOMAIN open) = MaxChannels
    <3>1. ASSUME Cardinality(DOMAIN chs) = MaxChannels PROVE DOMAIN open = DOMAIN chs
      <4>1. ~(Cardinality(DOMAIN chs) < MaxChannels)
        BY <3>1, TimelinesAssumption
      <4>2. DOMAIN chs \cup {c} = DOMAIN chs
        BY <1>3, <4>1
      <4>3. QED
        BY <2>1, <4>2
    <3>2. QED
      BY <3>1
  <2> HIDE DEF open
  <2>3. QED
    BY <1>2, <2>1, <2>2 DEF open
<1>4. CASE ~(c \in DOMAIN chs \/ Cardinality(DOMAIN chs) < MaxChannels)
  <2>1. Cardinality(DOMAIN chs) = MaxChannels /\ DOMAIN chs # {}
    BY <1>1, <1>4, FS_EmptySet, TimelinesAssumption
  <2>2. victim \in DOMAIN chs
    BY <2>1, LeastRecentlyUsedExists
  <2>3. DOMAIN open = (DOMAIN chs \ {victim}) \cup {c}
    BY <1>4 DEF Opened, Without
  <2> HIDE DEF open, victim
  <2>4. /\ IsFiniteSet(DOMAIN chs \ {victim})
        /\ Cardinality(DOMAIN chs \ {victim}) = Cardinality(DOMAIN chs) - 1
    BY <1>1, <2>2, FS_RemoveElement
  <2>5. Cardinality(DOMAIN open) = Cardinality(DOMAIN chs \ {victim}) + 1
    BY <1>4, <2>3, <2>4, FS_AddElement
  <2>6. Cardinality(DOMAIN open) = MaxChannels
    BY <1>1, <2>1, <2>4, <2>5
  <2>7. QED
    BY <1>2, <2>6 DEF open
<1>5. QED
  BY <1>3, <1>4

\* The message is in its timeline, or something has pushed it out.
ShownOrOut(c, id) ==
  \/ c \in DOMAIN channels /\ HeldOrOut(channels[c].messages, id)
  \/ Cardinality(DOMAIN channels) = MaxChannels

LEMMA HistoryShowsOrOut ==
  ASSUME Inv, NEW f \in ChannelIds, NEW page \in Pages, ApplyHistory(f, page),
         NEW c, NEW id \in MsgIds, ShownOrOut(c, id)
  PROVE  ShownOrOut(c, id)'
<1>1. Cache(channels, clock) /\ clock \in Nat /\ page \in Seq(PageMessage)
  BY InvParts, InputsAssumption
<1>2. CASE UNCHANGED timelineVars
  BY <1>2 DEF timelineVars, ShownOrOut
<1>3. CASE /\ Tick
           /\ channels' = LET open == Opened(channels, f, clock')
                          IN  [open EXCEPT ![f].messages = MergeHistory(@, page)]
  <2> DEFINE open == Opened(channels, f, clock + 1)
  <2>1. clock' = clock + 1
    BY <1>3 DEF Tick
  <2>2. channels' = [open EXCEPT ![f].messages = MergeHistory(open[f].messages, page)]
    BY <1>3, <2>1
  <2>3. /\ f \in DOMAIN open
        /\ f \in DOMAIN channels => open[f].messages = channels[f].messages
        /\ \A d \in DOMAIN channels :
             \/ d \in DOMAIN open /\ open[d].messages = channels[d].messages
             \/ Cardinality(DOMAIN open) = MaxChannels
        /\ Cardinality(DOMAIN channels) = MaxChannels => Cardinality(DOMAIN open) = MaxChannels
    BY <1>1, OpenedKeepsOrFills
  <2>4. Cache(open, clock + 1)
    BY <1>1, OpenedKeepsCache
  <2> HIDE DEF open
  <2>5. DOMAIN channels' = DOMAIN open
    BY <2>2
  <2>6. \A d \in DOMAIN open : d # f => channels'[d] = open[d]
    BY <2>2
  <2>7. channels'[f].messages = MergeHistory(open[f].messages, page)
    BY <2>2, <2>3, <2>4 DEF Cache, Timeline
  <2>8. CASE Cardinality(DOMAIN open) = MaxChannels
    BY <2>5, <2>8 DEF ShownOrOut
  <2>9. CASE Cardinality(DOMAIN open) # MaxChannels
    <3>1. /\ c \in DOMAIN channels /\ HeldOrOut(channels[c].messages, id)
          /\ c \in DOMAIN open /\ open[c].messages = channels[c].messages
      BY <2>3, <2>9 DEF ShownOrOut
    <3>2. CASE c = f
      <4>1. Log(open[f].messages)
        BY <2>3, <2>4 DEF Cache
      <4>2. HeldOrOut(MergeHistory(open[f].messages, page), id)
        BY <1>1, <3>1, <3>2, <4>1, MergeHoldsOrOut
      <4>3. QED
        BY <2>5, <2>7, <3>1, <3>2, <4>2 DEF ShownOrOut
    <3>3. CASE c # f
      BY <2>5, <2>6, <3>1, <3>3 DEF ShownOrOut
    <3>4. QED
      BY <3>2, <3>3
  <2>10. QED
    BY <2>8, <2>9
<1>4. QED
  BY <1>2, <1>3 DEF ApplyHistory
----------------------------------------------------------------------------
(* What an inbound message becomes                                         *)

Found(d) == [kind |-> "DirectChannelUpdate", id |-> d.channel, recipient |-> d.author]
Written(d) == [kind |-> "Message", channel |-> d.channel, id |-> d.id, body |-> d.body]

IsInboundMessage(d, u) == d.t = "MESSAGE_CREATE" /\ IsInbound(d, u)

LEMMA InboundEvents ==
  ASSUME NEW d \in Dispatches, NEW u \in Users \cup {Absent}, IsInboundMessage(d, u)
  PROVE  /\ EventsOf(d, u) = <<Found(d), Written(d)>>
         /\ Found(d) \in Events /\ Written(d) \in Events
         /\ d.channel \in DirectIds /\ d.channel \in ChannelIds
         /\ d.id \in MsgIds /\ d.body \in Bodies
<1>1. DiscoveryEvents(d, u) = <<Found(d)>> /\ MessageEvents(d) = <<Written(d)>>
  BY DEF IsInboundMessage, DiscoveryEvents, MessageEvents, IsInbound, ValidUser, Found, Written
<1>2. EventsOf(d, u) = <<Found(d)>> \o <<Written(d)>>
  BY <1>1 DEF IsInboundMessage, EventsOf, MessageCreateEvents
<1>3. EventsOf(d, u) = <<Found(d), Written(d)>>
  BY <1>2, OneThenOne
<1>4. Found(d) \in Events /\ Written(d) \in Events
  <2> DEFINE two == <<Found(d), Written(d)>>
  <2>1. two \in Seq(Events)
    BY <1>3, DispatchAssumption
  <2>2. Len(two) = 2 /\ two[1] = Found(d) /\ two[2] = Written(d)
    OBVIOUS
  <2> HIDE DEF two
  <2>3. 1 \in 1..Len(two) /\ 2 \in 1..Len(two)
    BY <2>2
  <2>4. two[1] \in Events /\ two[2] \in Events
    BY <2>1, <2>3
  <2>5. QED
    BY <2>2, <2>4
<1>5. FieldsTyped(Found(d)) /\ FieldsTyped(Written(d))
  BY <1>4, DispatchAssumption
<1>6. d.channel \in Conversations
  BY <1>5 DEF FieldsTyped, Found
<1>7. d.id \in MsgIds /\ d.body \in Bodies
  BY <1>5 DEF FieldsTyped, Written
<1>8. QED
  BY <1>3, <1>4, <1>6, <1>7, FrontendAssumption

\* How far a receiver is with the two events of an inbound message: neither is
\* read, the first is and something is ready, or both are and it is done.
Stages(s, d, ready, done) ==
  \/ \E x \in Seq(Events) : s = x \o <<Found(d), Written(d)>>
  \/ s = <<Written(d)>> /\ ready
  \/ s = << >> /\ done

LEMMA SameItems ==
  ASSUME NEW s \in Seq(Events), NEW t \in Seq(Events), Len(s) = Len(t),
         \A i \in 1..Len(s) : s[i] = t[i]
  PROVE  s = t
OBVIOUS

LEMMA TailOfOne ==
  ASSUME NEW s \in Seq(Events), Len(s) = 1
  PROVE  Head(s) = s[1] /\ Tail(s) = << >>
<1>1. Tail(s) \in Seq(Events) /\ Len(Tail(s)) = 0 /\ Head(s) = s[1]
  OBVIOUS
<1> DEFINE t == Tail(s)
<1>2. t \in Seq(Events) /\ Len(t) = 0
  BY <1>1
<1> HIDE DEF t
<1>3. t = << >>
  BY <1>2
<1>4. QED
  BY <1>1, <1>3 DEF t

LEMMA PairIsTyped ==
  ASSUME NEW e \in Events, NEW f \in Events
  PROVE  /\ <<e, f>> \in Seq(Events) /\ <<e, f>> # << >>
         /\ Head(<<e, f>>) = e /\ Tail(<<e, f>>) = <<f>>
         /\ << >> \o <<e, f>> = <<e, f>>
<1> DEFINE two == <<e, f>>
<1>1. two \in Seq(Events) /\ two # << >> /\ Head(two) = e
  OBVIOUS
<1>2. Tail(two) = <<f>>
  <2> DEFINE one == <<f>>
  <2>1. /\ Tail(two) \in Seq(Events) /\ Len(Tail(two)) = 1 /\ Tail(two)[1] = f
        /\ one \in Seq(Events) /\ Len(one) = 1 /\ one[1] = f
    OBVIOUS
  <2> DEFINE rest == Tail(two)
  <2> HIDE DEF two, one, rest
  <2>2. \A i \in 1..1 : i = 1
    OBVIOUS
  <2>3. \A i \in 1..Len(rest) : rest[i] = one[i]
    BY <2>1, <2>2 DEF rest
  <2>4. rest = one
    BY <2>1, <2>3, SameItems DEF rest
  <2>5. QED
    BY <2>4 DEF one, rest
<1>3. << >> \o two = two
  <2> HIDE DEF two
  <2>1. QED
    BY <1>1, NothingBefore
<1>4. QED
  BY <1>1, <1>2, <1>3

LEMMA StagesTail ==
  ASSUME NEW s \in Seq(Events), s # << >>, NEW d, Found(d) \in Events, Written(d) \in Events,
         NEW ready, NEW done, Stages(s, d, ready, done), NEW readyNext, NEW doneNext,
         Head(s) = Found(d) => readyNext,
         Head(s) = Written(d) /\ ready => doneNext
  PROVE  Stages(Tail(s), d, readyNext, doneNext)
<1> DEFINE both == <<Found(d), Written(d)>>
<1>1. /\ both \in Seq(Events) /\ both # << >>
      /\ Head(both) = Found(d) /\ Tail(both) = <<Written(d)>> /\ << >> \o both = both
  BY PairIsTyped
<1>2. ASSUME NEW x \in Seq(Events), s = x \o both
      PROVE  Stages(Tail(s), d, readyNext, doneNext)
  <2> HIDE DEF both
  <2>1. CASE x = << >>
    <3>1. s = both
      BY <1>1, <1>2, <2>1
    <3>2. readyNext /\ Tail(s) = <<Written(d)>>
      BY <1>1, <3>1
    <3>3. QED
      BY <3>2 DEF Stages
  <2>2. CASE x # << >>
    <3>1. Tail(s) = Tail(x) \o both /\ Tail(x) \in Seq(Events)
      BY <1>1, <1>2, <2>2, TailOfConcat
    <3>2. QED
      BY <3>1 DEF Stages, both
  <2>3. QED
    BY <2>1, <2>2
<1>3. CASE s = <<Written(d)>> /\ ready
  <2> DEFINE one == <<Written(d)>>
  <2>0. one \in Seq(Events) /\ Len(one) = 1 /\ one[1] = Written(d)
    OBVIOUS
  <2>1. Head(one) = Written(d) /\ Tail(one) = << >>
    BY <2>0, TailOfOne
  <2> HIDE DEF one
  <2>2. s = one /\ ready
    BY <1>3 DEF one
  <2>3. doneNext /\ Tail(s) = << >>
    BY <2>1, <2>2
  <2>4. QED
    BY <2>3 DEF Stages
<1>4. QED
  BY <1>2, <1>3 DEF Stages

LEMMA LongerThanNone ==
  ASSUME NEW x \in Seq(Events), NEW y \in Seq(Events), Len(y) # 0
  PROVE  x \o y # << >>
<1>1. Len(x \o y) = Len(x) + Len(y)
  OBVIOUS
<1>2. Len(x) \in Nat /\ Len(y) \in Nat
  OBVIOUS
<1>3. Len(x \o y) # 0
  BY <1>1, <1>2
<1>4. QED
  BY <1>3

LEMMA StagesDone ==
  ASSUME NEW d, Found(d) \in Events, Written(d) \in Events, NEW ready, NEW done,
         Stages(<< >>, d, ready, done)
  PROVE  done
<1>1. << >> # <<Written(d)>>
  OBVIOUS
<1>2. ASSUME NEW x \in Seq(Events) PROVE x \o <<Found(d), Written(d)>> # << >>
  <2> DEFINE two == <<Found(d), Written(d)>>
  <2>1. two \in Seq(Events) /\ Len(two) = 2
    OBVIOUS
  <2> HIDE DEF two
  <2>2. x \o two # << >>
    BY <2>1, LongerThanNone
  <2>3. QED
    BY <2>2 DEF two
<1>3. QED
  BY <1>1, <1>2 DEF Stages

LEMMA StagesLater ==
  ASSUME NEW s, NEW d, NEW ready, NEW done, Stages(s, d, ready, done),
         NEW readyNext, NEW doneNext, ready => readyNext, s = << >> /\ done => doneNext
  PROVE  Stages(s, d, readyNext, doneNext)
BY DEF Stages
----------------------------------------------------------------------------
(* Inbound messages                                                        *)

\* What InboundIsShown asks of a message, as a state.
Shown(c, id) ==
  (c \in DOMAIN channels /\ HasId(channels[c].messages, id)) \/ PushedOut(c, id)
ListedAs(c, u) == Listed(c) /\ direct[c].recipient = u

\* Once a receiver that was never overtaken has what is on its way, the message
\* is shown: the discovery comes first and lifts the tombstone, and nothing comes
\* between the two.  So with the list, which the message then only touches.
GatewayStage ==
  Stages(Coming("gateway"), last, ~IsRetired(last.channel), Shown(last.channel, last.id))
DirectStage ==
  Stages(Coming("direct"), last, ListedAs(last.channel, last.author),
                                 ListedAs(last.channel, last.author))
InboundAhead ==
  IsInboundMessage(last, selfUser) =>
    /\ last \in Dispatches
    /\ NeverOvertaken("gateway") => GatewayStage
    /\ NeverOvertaken("direct") => DirectStage

\* A message for a channel without a tombstone is in its timeline.
LEMMA AppliedIsHeld ==
  ASSUME Inv, NEW c \in ChannelIds, NEW m \in Message, ApplyMessage(c, m), ~IsRetired(c)
  PROVE  c \in DOMAIN channels' /\ HasId(channels'[c].messages, m.id)
<1> DEFINE open == Opened(channels, c, clock + 1)
           s == open[c].messages
<1>1. /\ clock' = clock + 1 /\ Cache(channels, clock) /\ clock \in Nat
      /\ channels' = [open EXCEPT ![c].messages = Upsert(open[c].messages, m)]
  BY InvParts DEF ApplyMessage, Tick
<1>2. c \in DOMAIN open /\ Cache(open, clock + 1)
  BY <1>1, OpenedKeepsOrFills, OpenedKeepsCache
<1> HIDE DEF open
<1>3. Log(s)
  BY <1>2 DEF Cache
<1>4. c \in DOMAIN channels' /\ channels'[c].messages = Upsert(s, m)
  BY <1>1, <1>2 DEF Cache, Timeline
<1> HIDE DEF s
<1>5. HasId(Upsert(s, m), m.id)
  <2>1. CASE HasId(s, m.id)
    <3> DEFINE i == LastIndexOf(s, m.id)
    <3>1. i \in DOMAIN s
      BY <1>3, <2>1, LastIndexExists DEF Log
    <3> HIDE DEF i
    <3>2. Upsert(s, m) = [s EXCEPT ![i] = m]
      BY <2>1 DEF Upsert, i
    <3>3. QED
      BY <3>1, <3>2 DEF HasId
  <2>2. CASE ~HasId(s, m.id)
    <3>1. Upsert(s, m) = PushBounded(s, m, MaxMessages)
      BY <2>2 DEF Upsert
    <3>2. m \in Items(PushBounded(s, m, MaxMessages))
      BY <1>3, TimelinesAssumption, PushItems DEF Log
    <3>3. QED
      BY <3>1, <3>2 DEF HasId, Items
  <2>3. QED
    BY <2>1, <2>2
<1>6. QED
  BY <1>4, <1>5

\* The discovery lists the conversation under the name of the author, and the
\* message leaves it there.
LEMMA DiscoveryLists ==
  ASSUME DirectBounded, NEW d, NEW e, ApplyDirect(e),
         e = Found(d) \/ (e = Written(d) /\ ListedAs(d.channel, d.author))
  PROVE  ListedAs(d.channel, d.author)'
<1>1. CASE e = Found(d)
  <2>1. UpsertDirect(d.channel, d.author)
    BY <1>1 DEF ApplyDirect, Found
  <2>2. QED
    BY <2>1 DEF UpsertDirect, ListedAs, Listed
<1>2. CASE e = Written(d) /\ ListedAs(d.channel, d.author)
  <2>1. TouchDirect(d.channel) /\ Listed(d.channel)
    BY <1>2 DEF ApplyDirect, Written, ListedAs
  <2>2. direct' = [direct EXCEPT ![d.channel].touched = directClock']
    BY <2>1 DEF TouchDirect
  <2>3. direct[d.channel] \in DirectChannel
    BY <2>1 DEF Listed, DirectBounded, DirectTypeOK
  <2>4. d.channel \in DOMAIN direct' /\ direct'[d.channel].recipient = direct[d.channel].recipient
    BY <2>1, <2>2, <2>3 DEF Listed, DirectChannel
  <2>5. QED
    BY <1>2, <2>4 DEF ListedAs, Listed
<1>3. QED
  BY <1>1, <1>2

\* The discovery lifts the tombstone, and the message then fills the timeline.
LEMMA DiscoveryOpens ==
  ASSUME Inv, NEW d, d.channel \in ChannelIds, d.id \in MsgIds, d.body \in Bodies,
         NEW e, Apply(e)
  PROVE  /\ e = Found(d) => ~IsRetired(d.channel)'
         /\ e = Written(d) /\ ~IsRetired(d.channel) => Shown(d.channel, d.id)'
<1>1. ASSUME e = Found(d) PROVE ~IsRetired(d.channel)'
  <2>1. Retopology(<< >>, {d.channel})
    BY <1>1 DEF Apply, Found, DirectOpen
  <2>2. QED
    BY <2>1, ItemsOfNone, TombstoneOf DEF IsRetired
<1>2. ASSUME e = Written(d), ~IsRetired(d.channel) PROVE Shown(d.channel, d.id)'
  <2> DEFINE m == [id |-> d.id, body |-> d.body]
  <2>1. ApplyMessage(d.channel, m)
    BY <1>2 DEF Apply, Written, MessageCreated, OnTimelines
  <2>2. m \in Message /\ m.id = d.id
    BY DEF Message
  <2> HIDE DEF m
  <2>3. QED
    BY <1>2, <2>1, <2>2, AppliedIsHeld DEF Shown
<1>3. QED
  BY <1>1, <1>2

\* An answer leaves the message shown, or pushes it out.
LEMMA AnswerShows ==
  ASSUME CachesInv, DrainRest, NEW c, NEW id \in MsgIds, Shown(c, id)
  PROVE  Shown(c, id)'
<1>1. /\ fetches \in Seq(DirectIds) /\ fetches # << >> /\ fetches' = Tail(fetches)
      /\ asked' = asked /\ asked \in Nat /\ Len(fetches) <= asked /\ Inv
  BY DEF CachesInv, FetchesOK, FrontendInv, DrainRest
<1>2. asked' > Len(fetches')
  <2>1. Len(fetches) \in Nat /\ Len(fetches') = Len(fetches) - 1
    BY <1>1
  <2>2. QED
    BY <1>1, <2>1
<1>3. ShownOrOut(c, id)
  BY DEF Shown, PushedOut, ShownOrOut, HeldOrOut
<1>4. ShownOrOut(c, id)'
  <2>1. ASSUME NEW page \in Pages, RestFetched(Head(fetches), page) PROVE ShownOrOut(c, id)'
    <3>1. Head(fetches) \in ChannelIds
      BY <1>1, FrontendAssumption
    <3>2. ApplyHistory(Head(fetches), page)
      BY <2>1 DEF RestFetched, OnTimelines
    <3>3. QED
      BY <1>1, <1>3, <3>1, <3>2, HistoryShowsOrOut
  <2>2. CASE UNCHANGED vars
    BY <1>3, <2>2 DEF ShownOrOut, vars, timelineVars
  <2>3. QED
    BY <2>1, <2>2 DEF DrainRest
<1>5. QED
  BY <1>2, <1>4 DEF ShownOrOut, HeldOrOut, Shown, PushedOut

\* A selection asks for at most one page, which is then on its way.
LEMMA SelectionShows ==
  ASSUME CachesInv, User, NEW c, NEW id, Shown(c, id)
  PROVE  Shown(c, id)'
<1>1. channels' = channels
  BY DEF User, SelectChannel, Deselect, cacheVars, vars, timelineVars
<1>2. asked > Len(fetches) => asked' > Len(fetches')
  <2>1. fetches \in Seq(DirectIds) /\ asked \in Nat
    BY DEF CachesInv, FetchesOK
  <2>2. ASSUME NEW x \in DirectIds, asked' = asked + 1, fetches' = Append(fetches, x)
        PROVE  asked > Len(fetches) => asked' > Len(fetches')
    <3>1. Len(fetches') = Len(fetches) + 1 /\ Len(fetches) \in Nat
      BY <2>1, <2>2
    <3>2. QED
      BY <2>1, <2>2, <3>1
  <2>3. UNCHANGED <<fetches, asked>> => (asked > Len(fetches) => asked' > Len(fetches'))
    OBVIOUS
  <2>4. QED
    BY <2>2, <2>3 DEF User, SelectChannel, Deselect
<1>3. QED
  BY <1>1, <1>2 DEF Shown, PushedOut

\* The dispatch becomes the discovery and the message, which are then the last
\* that is on its way to either cache.
LEMMA InboundRead ==
  ASSUME SessionInv, NEW d \in Dispatches, ReadDispatch(d), NEW r \in Receivers,
         IsInboundMessage(d, selfUser'), NEW ready, NEW done
  PROVE  Stages(Coming(r)', d, ready, done)
<1>1. outbox' = EventsOf(d, selfUser') /\ unread' = unread /\ selfUser' = SelfAfter(d, selfUser)
  BY DEF ReadDispatch, LoopVars, busVars
<1>2. selfUser' \in Users \cup {Absent}
  BY <1>1, DispatchAssumption DEF SessionInv, OutboxOK
<1>3. EventsOf(d, selfUser') = <<Found(d), Written(d)>>
  BY <1>2, InboundEvents
<1>4. unread[r] \in Seq(Events)
  BY ComingTyped
<1>5. Coming(r)' = unread[r] \o <<Found(d), Written(d)>>
  BY <1>1, <1>3 DEF Coming
<1>6. QED
  BY <1>4, <1>5 DEF Stages

LEMMA InboundStep ==
  ASSUME CachesInv, InboundAhead, [SessionNext]_sessionVars
  PROVE  InboundAhead'
<1>1. /\ SessionInv /\ LoopInv /\ DirectBounded /\ Inv
      /\ selfUser \in Users \cup {Absent}
  BY DEF CachesInv, SessionInv, OutboxOK, FrontendInv
<1>2. ASSUME NEW d \in Dispatches, ReadDispatch(d) PROVE InboundAhead'
  <2>1. last' = d
    BY <1>2 DEF ReadDispatch
  <2>2. ASSUME IsInboundMessage(d, selfUser') PROVE GatewayStage' /\ DirectStage'
    BY <1>1, <1>2, <2>1, <2>2, InboundRead, BothReceivers DEF GatewayStage, DirectStage
  <2>3. QED
    BY <1>2, <2>1, <2>2 DEF InboundAhead
<1>3. ASSUME last' = last, selfUser' = selfUser, IsInboundMessage(last, selfUser) => 
               /\ NeverOvertaken("gateway")' => GatewayStage'
               /\ NeverOvertaken("direct")' => DirectStage'
      PROVE  InboundAhead'
  BY <1>3 DEF InboundAhead
<1>4. ASSUME IsInboundMessage(last, selfUser)
      PROVE  /\ last \in Dispatches /\ last.channel \in ChannelIds
             /\ last.id \in MsgIds /\ last.body \in Bodies
             /\ Found(last) \in Events /\ Written(last) \in Events
             /\ NeverOvertaken("gateway") => GatewayStage
             /\ NeverOvertaken("direct") => DirectStage
  BY <1>1, <1>4, InboundEvents DEF InboundAhead
<1>5. CASE SendEvent
  <2>1. /\ last' = last /\ selfUser' = selfUser /\ retired' = retired /\ direct' = direct
        /\ channels' = channels /\ fetches' = fetches /\ asked' = asked
    BY <1>5 DEF SendEvent, cacheVars, vars, timelineVars, directVars, userVars
  <2>2. \A r \in Receivers : NeverOvertaken(r)' => NeverOvertaken(r) /\ Coming(r)' = Coming(r)
    BY <1>1, <1>5, ComingSent
  <2>3. GatewayStage /\ Coming("gateway")' = Coming("gateway") => GatewayStage'
    BY <2>1 DEF GatewayStage, IsRetired, Shown, PushedOut
  <2>4. DirectStage /\ Coming("direct")' = Coming("direct") => DirectStage'
    BY <2>1 DEF DirectStage, ListedAs, Listed
  <2>5. QED
    BY <1>3, <1>4, <2>1, <2>2, <2>3, <2>4, BothReceivers
<1>6. CASE DrainGateway
  <2> DEFINE e == NextEvent("gateway")
  <2>1. /\ Drain("gateway") /\ Apply(e) /\ outbox' = outbox /\ direct' = direct
        /\ last' = last /\ selfUser' = selfUser
    BY <1>6 DEF DrainGateway, gatewayVars, directVars
  <2>2. /\ Coming("gateway") # << >> /\ Head(Coming("gateway")) = e
        /\ Coming("gateway")' = Tail(Coming("gateway")) /\ Coming("direct")' = Coming("direct")
        /\ \A q \in Receivers : NeverOvertaken(q)' => NeverOvertaken(q)
        /\ Coming("gateway") \in Seq(Events)
    BY <1>1, <2>1, ComingDrained, ComingTyped, BothReceivers
  <2> HIDE DEF e
  <2>3. ASSUME IsInboundMessage(last, selfUser), GatewayStage PROVE GatewayStage'
    <3>1. /\ e = Found(last) => ~IsRetired(last.channel)'
          /\ e = Written(last) /\ ~IsRetired(last.channel) => Shown(last.channel, last.id)'
      BY <1>1, <1>4, <2>1, <2>3, DiscoveryOpens DEF IsRetired, Shown, PushedOut
    <3>2. Stages(Tail(Coming("gateway")), last, ~IsRetired(last.channel)', Shown(last.channel, last.id)')
      BY <1>4, <2>2, <2>3, <3>1, StagesTail DEF GatewayStage
    <3>3. QED
      BY <2>1, <2>2, <3>2 DEF GatewayStage
  <2>4. DirectStage => DirectStage'
    BY <2>1, <2>2 DEF DirectStage, ListedAs, Listed
  <2>5. QED
    BY <1>3, <1>4, <2>1, <2>2, <2>3, <2>4, BothReceivers
<1>7. CASE DrainDirect
  <2> DEFINE e == NextEvent("direct")
  <2>1. /\ Drain("direct") /\ ApplyDirect(e) /\ outbox' = outbox /\ last' = last
        /\ selfUser' = selfUser /\ retired' = retired /\ channels' = channels
        /\ fetches' = fetches /\ asked' = asked
    BY <1>7 DEF DrainDirect, gatewayVars, vars, timelineVars, userVars
  <2>2. /\ Coming("direct") # << >> /\ Head(Coming("direct")) = e
        /\ Coming("direct")' = Tail(Coming("direct")) /\ Coming("gateway")' = Coming("gateway")
        /\ \A q \in Receivers : NeverOvertaken(q)' => NeverOvertaken(q)
        /\ Coming("direct") \in Seq(Events)
    BY <1>1, <2>1, ComingDrained, ComingTyped, BothReceivers
  <2> HIDE DEF e
  <2>3. ASSUME IsInboundMessage(last, selfUser), DirectStage PROVE DirectStage'
    <3>1. e = Found(last) \/ (e = Written(last) /\ ListedAs(last.channel, last.author)) =>
            ListedAs(last.channel, last.author)'
      BY <1>1, <2>1, DiscoveryLists DEF ListedAs, Listed
    <3>2. Stages(Tail(Coming("direct")), last, ListedAs(last.channel, last.author)',
                                               ListedAs(last.channel, last.author)')
      BY <1>4, <2>2, <2>3, <3>1, StagesTail DEF DirectStage
    <3>3. QED
      BY <2>1, <2>2, <3>2 DEF DirectStage
  <2>4. GatewayStage => GatewayStage'
    BY <2>1, <2>2 DEF GatewayStage, IsRetired, Shown, PushedOut
  <2>5. QED
    BY <1>3, <1>4, <2>1, <2>2, <2>3, <2>4, BothReceivers
<1>8. CASE DrainRest \/ PollElse \/ User \/ UNCHANGED sessionVars
  <2>1. outbox' = outbox /\ last' = last /\ selfUser' = selfUser
    BY <1>8 DEF DrainRest, PollElse, User, SelectChannel, Deselect, sessionVars, gatewayVars
  <2>2. CASE Unmoved
    <3>1. /\ Coming("gateway")' = Coming("gateway") /\ Coming("direct")' = Coming("direct")
          /\ \A q \in Receivers : NeverOvertaken(q)' => NeverOvertaken(q)
          /\ retired' = retired /\ direct' = direct
      BY <2>1, <2>2 DEF Unmoved, Coming
    <3>2. ASSUME IsInboundMessage(last, selfUser), Shown(last.channel, last.id)
          PROVE  Shown(last.channel, last.id)'
      <4>1. last.id \in MsgIds
        BY <1>4, <3>2
      <4> DEFINE c == last.channel
                 id == last.id
      <4>2. c' = c /\ id' = id
        BY <2>1
      <4> HIDE DEF c, id
      <4>3. Shown(c, id)
        BY <3>2 DEF c, id
      <4>4. DrainRest \/ User => Shown(c, id)'
        BY <4>1, <4>2, <4>3, AnswerShows, SelectionShows DEF id
      <4>5. PollElse \/ UNCHANGED sessionVars => Shown(c, id)'
        BY <4>2, <4>3 DEF PollElse, sessionVars, userVars, cacheVars, vars, timelineVars, Shown,
                          PushedOut
      <4>6. QED
        BY <1>8, <4>4, <4>5 DEF c, id
    <3>3. IsInboundMessage(last, selfUser) /\ GatewayStage => GatewayStage'
      BY <2>1, <3>1, <3>2, StagesLater DEF GatewayStage, IsRetired
    <3>4. DirectStage => DirectStage'
      BY <2>1, <3>1 DEF DirectStage, ListedAs, Listed
    <3>5. QED
      BY <1>3, <1>4, <2>1, <3>1, <3>3, <3>4, BothReceivers
  <2>3. QED
    BY <1>1, <1>5, <1>6, <1>7, <2>2, DrainOrUnmoved
<1>9. QED
  BY <1>2, <1>5, <1>6, <1>7, <1>8 DEF SessionNext, PollStep, Gateway

\* For every capacity, budget and limit of the caches: once a cache that was never
\* overtaken has read the bus, the last inbound message is in its timeline, unless
\* history has pushed it out, and listed under the name of its author, whatever
\* was closed, evicted or answered before (connection.rs,
\* emit_direct_message_discovery; docs/dm-message-discovery.md, "Ordering").
THEOREM InboundShownAlways == SessionSpec => []InboundIsShown
<1>1. SessionInit => InboundAhead
  BY DEF SessionInit, InboundAhead, IsInboundMessage
<1>2. CachesInv /\ InboundAhead /\ [SessionNext]_sessionVars => InboundAhead'
  BY InboundStep
<1>3. CachesInv /\ InboundAhead => InboundIsShown
  <2> SUFFICES ASSUME CachesInv, InboundAhead, Whole, IsInboundMessage(last, selfUser)
               PROVE  /\ AllRead("gateway") => Shown(last.channel, last.id)
                      /\ AllRead("direct") => ListedAs(last.channel, last.author)
    BY DEF InboundIsShown, IsInboundMessage, Shown, ListedAs
  <2>1. \A r \in Receivers : AllRead(r) => Coming(r) = << >>
    <3>1. << >> \in Seq(Events) /\ << >> \o << >> = << >>
      OBVIOUS
    <3>2. QED
      BY <3>1 DEF Whole, AllRead, Coming
  <2>2. GatewayStage /\ DirectStage /\ last \in Dispatches
    BY BothReceivers DEF InboundAhead, Whole
  <2>3. Found(last) \in Events /\ Written(last) \in Events
    BY <2>2, InboundEvents DEF CachesInv, SessionInv, OutboxOK
  <2>4. QED
    BY <2>1, <2>2, <2>3, StagesDone, BothReceivers DEF GatewayStage, DirectStage
<1>4. QED
  BY <1>1, <1>2, <1>3, CachesInvAlways, PTL DEF SessionSpec
=============================================================================
