---------------------------- MODULE VectorProofs ----------------------------
(***************************************************************************)
(* What the operations of Vectors return, for vectors of any length.  The  *)
(* facts about the recursive Retain are proved by a least counterexample:  *)
(* a set of naturals that is not empty has a least element.                *)
(***************************************************************************)
EXTENDS Vectors, TLAPS, FiniteSetTheorems, WellFoundedInduction, SequenceTheorems

\* Every non-empty set of naturals has a least element: the intervals 0..k of
\* its elements k have a smallest one.
LEMMA LeastNatural ==
  ASSUME NEW S \in SUBSET Nat, S # {}
  PROVE  \E m \in S : \A k \in S : m <= k
<1> DEFINE Below == {0..k : k \in S}
<1>1. IsWellFoundedOn(StrictSubsetOrdering(Nat), FiniteSubsetsOf(Nat))
  BY FS_StrictSubsetOrderingWellFounded
<1>2. Below \subseteq FiniteSubsetsOf(Nat)
  <2>1. ASSUME NEW k \in S
        PROVE  0..k \in FiniteSubsetsOf(Nat)
    <3>1. IsFiniteSet(0..k)
      BY FS_Interval
    <3>2. 0..k \in SUBSET Nat
      OBVIOUS
    <3>3. QED
      BY <3>1, <3>2 DEF FiniteSubsetsOf
  <2>2. QED
    BY <2>1
<1>3. Below # {}
  OBVIOUS
<1> HIDE DEF Below
<1>4. PICK I \in Below : \A J \in Below : ~(<<J, I>> \in StrictSubsetOrdering(Nat))
  BY <1>1, <1>2, <1>3, WFMin
<1>5. PICK m \in S : I = 0..m
  BY DEF Below
<1>6. ASSUME NEW k \in S, k < m
      PROVE  FALSE
  <2>1. 0..k \in Below
    BY DEF Below
  <2>2. 0..k \subseteq 0..m /\ 0..k # 0..m
    BY <1>6
  <2>3. <<0..k, 0..m>> \in StrictSubsetOrdering(Nat)
    BY <2>2 DEF StrictSubsetOrdering
  <2>4. QED
    BY <1>4, <1>5, <2>1, <2>3
<1>7. QED
  BY <1>6

\* Induction up to n, for a set instead of a predicate.
LEMMA UpTo ==
  ASSUME NEW n \in Nat, NEW S,
         0 \in S, \A i \in 0..n : i < n /\ i \in S => i+1 \in S
  PROVE  0..n \subseteq S
<1> DEFINE Bad == {k \in 0..n : k \notin S}
<1>1. SUFFICES ASSUME Bad # {} PROVE FALSE
  OBVIOUS
<1>2. PICK m \in Bad : \A k \in Bad : m <= k
  <2>1. Bad \in SUBSET Nat
    OBVIOUS
  <2>2. QED
    BY <1>1, <2>1, LeastNatural
<1>3. m # 0 /\ m-1 \in 0..n /\ m-1 < n
  BY <1>2
<1>4. m-1 \in S
  BY <1>2, <1>3
<1>5. QED
  BY <1>2, <1>3, <1>4
-----------------------------------------------------------------------------
\* A recursion from base by a step function on the values in V has a solution,
\* whose values are all in V.
Solves(f, base, step, n) ==
  f = [i \in 0..n |-> IF i = 0 THEN base ELSE step[<<f[i-1], i>>]]

LEMMA RecursionSolved ==
  ASSUME NEW n \in Nat, NEW V, NEW base \in V, NEW step \in [V \X (1..n) -> V]
  PROVE  \E f \in [0..n -> V] : Solves(f, base, step, n)
<1> DEFINE S == {k \in 0..n : \E f \in [0..k -> V] : Solves(f, base, step, k)}
<1>1. 0 \in S
  <2> DEFINE f == [i \in 0..0 |-> base]
  <2>1. f \in [0..0 -> V] /\ Solves(f, base, step, 0)
    BY DEF Solves
  <2>2. QED
    BY <2>1
<1>2. ASSUME NEW k \in 0..n, k < n, k \in S
      PROVE  k+1 \in S
  <2>1. PICK f \in [0..k -> V] : Solves(f, base, step, k)
    BY <1>2
  <2> DEFINE next == step[<<f[k], k+1>>]
             g == [i \in 0..k+1 |-> IF i = k+1 THEN next ELSE f[i]]
  <2>2. next \in V
    <3>1. <<f[k], k+1>> \in V \X (1..n)
      BY <1>2
    <3>2. QED
      BY <3>1
  <2>3. ASSUME NEW i \in 0..k+1
        PROVE  g[i] = IF i = 0 THEN base ELSE step[<<g[i-1], i>>]
    <3>1. CASE i = k+1
      <4>1. g[k+1] = next /\ g[k] = f[k]
        OBVIOUS
      <4>2. i # 0 /\ i - 1 = k
        BY <3>1
      <4>3. g[i] = step[<<g[i-1], i>>]
        BY <3>1, <4>1, <4>2
      <4>4. QED
        BY <4>2, <4>3
    <3>2. CASE i # k+1
      <4>1. i \in 0..k /\ (i # 0 => i-1 \in 0..k)
        BY <3>2
      <4>2. g[i] = f[i] /\ (i # 0 => g[i-1] = f[i-1])
        BY <4>1, <3>2
      <4>3. f[i] = IF i = 0 THEN base ELSE step[<<f[i-1], i>>]
        BY <2>1, <4>1 DEF Solves
      <4>4. QED
        BY <4>2, <4>3
    <3>3. QED
      BY <3>1, <3>2
  <2>4. g \in [0..k+1 -> V]
    BY <2>2
  <2> HIDE DEF g
  <2>5. g = [i \in 0..k+1 |-> g[i]]
    BY DEF g
  <2>6. Solves(g, base, step, k+1)
    BY <2>3, <2>5 DEF Solves
  <2>7. QED
    BY <1>2, <2>4, <2>6
<1> HIDE DEF S
<1>3. 0..n \subseteq S
  BY <1>1, <1>2, UpTo
<1>4. QED
  BY <1>3 DEF S
-----------------------------------------------------------------------------
\* What Append and Tail do to the items, the length and the distinctness of a
\* vector.
LEMMA AppendItems ==
  ASSUME NEW T, NEW s \in Seq(T), NEW e \in T
  PROVE  /\ Append(s, e) \in Seq(T)
         /\ Len(Append(s, e)) = Len(s) + 1
         /\ Items(Append(s, e)) = Items(s) \cup {e}
         /\ Distinct(s) /\ e \notin Items(s) => Distinct(Append(s, e))
<1>1. /\ Append(s, e) \in Seq(T)
      /\ Len(Append(s, e)) = Len(s) + 1
      /\ DOMAIN Append(s, e) = 1..Len(s)+1
      /\ \A i \in 1..Len(s) : Append(s, e)[i] = s[i]
      /\ Append(s, e)[Len(s)+1] = e
      /\ DOMAIN s = 1..Len(s)
      /\ Len(s) \in Nat
  OBVIOUS
<1>2. Items(Append(s, e)) = Items(s) \cup {e}
  BY <1>1 DEF Items
<1>3. Distinct(s) /\ e \notin Items(s) => Distinct(Append(s, e))
  BY <1>1 DEF Items, Distinct
<1>4. QED
  BY <1>1, <1>2, <1>3

LEMMA TailItems ==
  ASSUME NEW T, NEW s \in Seq(T), s # << >>
  PROVE  /\ Tail(s) \in Seq(T)
         /\ Len(Tail(s)) = Len(s) - 1
         /\ Items(Tail(s)) \subseteq Items(s)
         /\ Distinct(s) => Distinct(Tail(s))
<1>1. /\ Tail(s) \in Seq(T)
      /\ Len(Tail(s)) = Len(s) - 1
      /\ DOMAIN Tail(s) = 1..Len(s)-1
      /\ \A i \in 1..Len(s)-1 : Tail(s)[i] = s[i+1]
      /\ DOMAIN s = 1..Len(s)
      /\ Len(s) \in Nat
  OBVIOUS
<1>2. Items(Tail(s)) \subseteq Items(s)
  BY <1>1 DEF Items
<1>3. Distinct(s) => Distinct(Tail(s))
  BY <1>1 DEF Distinct
<1>4. QED
  BY <1>1, <1>2, <1>3

\* What a vector has is its first item and the rest, which has it no more.
LEMMA HeadAndTail ==
  ASSUME NEW T, NEW s \in Seq(T), s # << >>
  PROVE  /\ Head(s) \in T /\ Head(s) \in Items(s)
         /\ Items(s) = {Head(s)} \cup Items(Tail(s))
         /\ Distinct(s) => Head(s) \notin Items(Tail(s))
<1>1. /\ DOMAIN s = 1..Len(s) /\ Len(s) \in Nat \ {0}
      /\ DOMAIN Tail(s) = 1..Len(s)-1
      /\ \A i \in 1..Len(s)-1 : Tail(s)[i] = s[i+1]
      /\ Head(s) = s[1]
  OBVIOUS
<1>2. Head(s) \in T /\ Head(s) \in Items(s)
  BY <1>1 DEF Items
<1>3. Items(s) \subseteq {Head(s)} \cup Items(Tail(s))
  <2> SUFFICES ASSUME NEW i \in 1..Len(s), i # 1
               PROVE  s[i] \in Items(Tail(s))
    BY <1>1 DEF Items
  <2>1. i - 1 \in 1..Len(s)-1 /\ (i - 1) + 1 = i
    BY <1>1
  <2>2. Tail(s)[i-1] = s[i]
    BY <1>1, <2>1
  <2>3. QED
    BY <1>1, <2>1, <2>2 DEF Items
<1>4. Distinct(s) => Head(s) \notin Items(Tail(s))
  <2> SUFFICES ASSUME Distinct(s), NEW i \in 1..Len(s)-1, Tail(s)[i] = Head(s)
               PROVE  FALSE
    BY <1>1 DEF Items
  <2>1. i + 1 \in 1..Len(s) /\ 1 \in 1..Len(s) /\ s[i+1] = s[1] /\ i + 1 # 1
    BY <1>1
  <2>2. QED
    BY <1>1, <2>1 DEF Distinct
<1>5. QED
  BY <1>2, <1>3, <1>4, TailItems

LEMMA SingleItem ==
  ASSUME NEW T, NEW s \in Seq(T), Len(s) = 1
  PROVE  Items(s) = {Head(s)} /\ Head(s) \in T
<1>1. DOMAIN s = {1} /\ Head(s) = s[1] /\ s[1] \in T
  OBVIOUS
<1>2. QED
  BY <1>1 DEF Items

LEMMA OnlyItem ==
  ASSUME NEW T, NEW s \in Seq(T), Len(s) <= 1, s # << >>
  PROVE  Items(s) = {Head(s)} /\ Head(s) \in T
<1>1. Len(s) \in Nat \ {0}
  BY EmptySeq
<1> DEFINE n == Len(s)
<1>2. n \in Nat \ {0} /\ n <= 1
  BY <1>1
<1> HIDE DEF n
<1>3. n = 1
  BY <1>2
<1>4. Len(s) = 1
  BY <1>3 DEF n
<1>5. QED
  BY <1>4, SingleItem

\* A bounded push adds its item, and takes away the first one of a full vector.
LEMMA PushItems ==
  ASSUME NEW T, NEW s \in Seq(T), NEW e \in T, NEW cap \in Nat \ {0}
  PROVE  LET pushed == PushBounded(s, e, cap)
         IN  /\ pushed \in Seq(T) /\ e \in Items(pushed)
             /\ Items(pushed) \subseteq Items(s) \cup {e}
             /\ \A x \in Items(s) :
                  x \in Items(pushed) \/ (Len(s) >= cap /\ x = Head(s))
<1>1. CASE Len(s) >= cap
  <2>1. s # << >>
    BY <1>1
  <2>2. PushBounded(s, e, cap) = Append(Tail(s), e)
    BY <1>1 DEF PushBounded
  <2>3. Tail(s) \in Seq(T) /\ Items(s) = {Head(s)} \cup Items(Tail(s))
    BY <2>1, TailItems, HeadAndTail
  <2> DEFINE t == Tail(s)
  <2>4. t \in Seq(T)
    BY <2>3
  <2> HIDE DEF t
  <2>5. Append(t, e) \in Seq(T) /\ Items(Append(t, e)) = Items(t) \cup {e}
    BY <2>4, AppendItems
  <2>6. /\ Append(Tail(s), e) \in Seq(T)
        /\ Items(Append(Tail(s), e)) = Items(Tail(s)) \cup {e}
    BY <2>5 DEF t
  <2>7. /\ e \in Items(Append(Tail(s), e))
        /\ Items(Append(Tail(s), e)) \subseteq Items(s) \cup {e}
        /\ \A x \in Items(s) : x \in Items(Append(Tail(s), e)) \/ x = Head(s)
    BY <2>3, <2>6
  <2>8. QED
    BY <1>1, <2>2, <2>6, <2>7
<1>2. CASE ~(Len(s) >= cap)
  <2>1. PushBounded(s, e, cap) = Append(s, e)
    BY <1>2 DEF PushBounded
  <2>2. /\ Append(s, e) \in Seq(T)
        /\ Items(Append(s, e)) = Items(s) \cup {e}
    BY AppendItems
  <2>3. QED
    BY <2>1, <2>2
<1>3. QED
  BY <1>1, <1>2

\* The recursion that defines Retain.
IsKept(f, s, keep) ==
  f = [i \in 0..Len(s) |-> IF i = 0 THEN << >>
                           ELSE IF s[i] \in keep THEN Append(f[i-1], s[i])
                           ELSE f[i-1]]

\* Retain is the last value of the function it defines.
LEMMA RetainIsLast ==
  ASSUME NEW T, NEW s \in Seq(T), NEW keep
  PROVE  \E f : IsKept(f, s, keep) /\ Retain(s, keep) = f[Len(s)]
<1> DEFINE Step(prev, i) == IF s[i] \in keep THEN Append(prev, s[i]) ELSE prev
           step == [p \in Seq(T) \X (1..Len(s)) |-> Step(p[1], p[2])]
<1>1. Len(s) \in Nat /\ << >> \in Seq(T)
  OBVIOUS
<1>2. step \in [Seq(T) \X (1..Len(s)) -> Seq(T)]
  OBVIOUS
<1> HIDE DEF step
<1>3. PICK f \in [0..Len(s) -> Seq(T)] : Solves(f, << >>, step, Len(s))
  BY <1>1, <1>2, RecursionSolved
<1>4. ASSUME NEW i \in 0..Len(s), i # 0
      PROVE  step[<<f[i-1], i>>] = Step(f[i-1], i)
  <2>1. <<f[i-1], i>> \in Seq(T) \X (1..Len(s))
    BY <1>1, <1>4
  <2>2. QED
    BY <2>1 DEF step
<1>5. IsKept(f, s, keep)
  BY <1>3, <1>4 DEF Solves, IsKept
<1> DEFINE h == CHOOSE g : IsKept(g, s, keep)
<1>6. IsKept(h, s, keep)
  BY <1>5
<1>7. Retain(s, keep) = h[Len(s)]
  BY DEF Retain, IsKept
<1>8. QED
  BY <1>6, <1>7
\* Retain keeps exactly the items in keep, and neither lengthens a vector nor
\* repeats an item of one without repetitions.
LEMMA RetainProperties ==
  ASSUME NEW T, NEW s \in Seq(T), NEW keep
  PROVE  /\ Retain(s, keep) \in Seq(T)
         /\ Items(Retain(s, keep)) = Items(s) \cap keep
         /\ Len(Retain(s, keep)) <= Len(s)
         /\ Distinct(s) => Distinct(Retain(s, keep))
<1>1. PICK f : IsKept(f, s, keep) /\ Retain(s, keep) = f[Len(s)]
  BY RetainIsLast
<1> DEFINE S == {i \in 0..Len(s) :
                  /\ f[i] \in Seq(T)
                  /\ Items(f[i]) = {s[j] : j \in 1..i} \cap keep
                  /\ Len(f[i]) <= i
                  /\ Distinct(s) => Distinct(f[i])}
<1>2. Len(s) \in Nat /\ DOMAIN s = 1..Len(s)
  OBVIOUS
<1>3. 0 \in S
  <2>1. f[0] = << >>
    BY <1>1, <1>2 DEF IsKept
  <2>2. Items(<< >>) = {} /\ Distinct(<< >>)
    BY DEF Items, Distinct
  <2>3. << >> \in Seq(T) /\ Len(<< >>) = 0 /\ 0 \in 0..Len(s)
    BY <1>2
  <2>4. {s[j] : j \in 1..0} \cap keep = {}
    OBVIOUS
  <2>5. Items(f[0]) = {s[j] : j \in 1..0} \cap keep
    BY <2>1, <2>2, <2>4
  <2>6. f[0] \in Seq(T) /\ Len(f[0]) <= 0 /\ Distinct(f[0])
    BY <2>1, <2>2, <2>3
  <2>7. QED
    BY <2>3, <2>5, <2>6
<1>4. ASSUME NEW i \in 0..Len(s), i < Len(s), i \in S
      PROVE  i+1 \in S
  <2>1. f[i+1] = IF s[i+1] \in keep THEN Append(f[i], s[i+1]) ELSE f[i]
    <3>1. i+1 \in 0..Len(s) /\ i+1 # 0 /\ (i+1)-1 = i
      BY <1>2, <1>4
    <3>2. f[i+1] = IF s[i+1] \in keep THEN Append(f[(i+1)-1], s[i+1]) ELSE f[(i+1)-1]
      BY <1>1, <3>1 DEF IsKept
    <3>3. QED
      BY <3>1, <3>2
  <2>2. i+1 \in 1..Len(s) /\ s[i+1] \in T
    BY <1>2, <1>4
  <2>3. {s[j] : j \in 1..i+1} = {s[j] : j \in 1..i} \cup {s[i+1]}
    BY <1>2, <1>4
  <2>4. CASE s[i+1] \in keep
    <3>1. f[i+1] = Append(f[i], s[i+1])
      BY <2>1, <2>4
    <3>2. ASSUME Distinct(s) PROVE s[i+1] \notin Items(f[i])
      <4>1. \A j \in 1..i : s[j] # s[i+1]
        BY <3>2, <2>2, <1>2, <1>4 DEF Distinct
      <4>2. QED
        BY <4>1, <1>4
    <3>3. /\ f[i] \in Seq(T)
          /\ Items(f[i]) = {s[j] : j \in 1..i} \cap keep
          /\ Len(f[i]) <= i
          /\ Distinct(s) => Distinct(f[i])
      BY <1>4
    <3>4. /\ f[i+1] \in Seq(T)
          /\ Len(f[i+1]) = Len(f[i]) + 1
          /\ Items(f[i+1]) = Items(f[i]) \cup {s[i+1]}
          /\ Distinct(f[i]) /\ s[i+1] \notin Items(f[i]) => Distinct(f[i+1])
      BY <3>1, <3>3, <2>2, AppendItems
    <3>5. Items(f[i+1]) = {s[j] : j \in 1..i+1} \cap keep
      BY <3>3, <3>4, <2>3, <2>4
    <3>6. Len(f[i+1]) <= i+1 /\ i+1 \in 0..Len(s)
      BY <3>3, <3>4, <2>2, <1>2, <1>4
    <3>7. QED
      BY <3>2, <3>3, <3>4, <3>5, <3>6
  <2>5. CASE s[i+1] \notin keep
    BY <2>1, <2>2, <2>3, <2>5, <1>2, <1>4
  <2>6. QED
    BY <2>4, <2>5
<1> HIDE DEF S
<1>5. 0..Len(s) \subseteq S
  BY <1>2, <1>3, <1>4, UpTo
<1>6. Len(s) \in S
  BY <1>2, <1>5
<1>7. Items(s) = {s[j] : j \in 1..Len(s)}
  BY <1>2 DEF Items
<1>8. QED
  BY <1>1, <1>6, <1>7 DEF S

\* A vector without repetitions has as many items as places.
LEMMA CountItems ==
  ASSUME NEW T, NEW s \in Seq(T), Distinct(s)
  PROVE  IsFiniteSet(Items(s)) /\ Cardinality(Items(s)) = Len(s)
<1> DEFINE n == Len(s)
<1>1. n \in Nat /\ DOMAIN s = 1..n /\ s = [i \in 1..n |-> s[i]]
  OBVIOUS
<1>2. \A i, j \in 1..n : s[i] = s[j] => i = j
  BY <1>1 DEF Distinct
<1>3. \A i \in 1..n : s[i] \in Items(s)
  BY <1>1 DEF Items
<1>4. \A x \in Items(s) : \E i \in 1..n : s[i] = x
  BY <1>1 DEF Items
<1>5. n \in Nat
  OBVIOUS
<1> HIDE DEF n
<1>6. IsFiniteSet(1..n) /\ Cardinality(1..n) = n
  BY ONLY <1>5, FS_Interval
<1>7. s \in [1..n -> Items(s)]
  BY <1>1, <1>3
<1>8. s \in Surjection(1..n, Items(s))
  BY <1>4, <1>7 DEF Surjection
<1>9. s \in Injection(1..n, Items(s))
  BY <1>2, <1>7 DEF Injection, IsInjective
<1>10. IsFiniteSet(Items(s)) /\ Cardinality(Items(s)) = Cardinality(1..n)
  BY <1>6, <1>8, <1>9, FS_Surjection
<1>11. QED
  BY <1>6, <1>10 DEF n
=============================================================================
