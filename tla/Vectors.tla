------------------------------ MODULE Vectors ------------------------------
(***************************************************************************)
(* The operations of Vec and VecDeque that the client's bounded caches are *)
(* built from.  They are written with recursive functions rather than with *)
(* folds or SelectSeq, whose operator arguments keep them out of a proof.  *)
(***************************************************************************)
EXTENDS Naturals, Sequences

\* The set of the items of a vector.
Items(s) == {s[i] : i \in DOMAIN s}

\* No item occurs twice.
Distinct(s) == \A i, j \in DOMAIN s : s[i] = s[j] => i = j

\* retain: the items of s that belong to keep, in their order.
Retain(s, keep) ==
  LET kept[i \in 0..Len(s)] ==
        IF i = 0 THEN << >>
        ELSE IF s[i] \in keep THEN Append(kept[i-1], s[i])
        ELSE kept[i-1]
  IN  kept[Len(s)]

\* iter().take(n): the longest prefix of at most n items.
Take(s, n) == SubSeq(s, 1, IF Len(s) <= n THEN Len(s) ELSE n)

\* push_back on a deque that first drops its oldest item when it is full.
PushBounded(s, e, cap) == Append(IF Len(s) >= cap THEN Tail(s) ELSE s, e)

\* insert(i, e): the items from i on move one place back.
InsertAt(s, i, e) ==
  [j \in 1..Len(s)+1 |-> IF j < i THEN s[j] ELSE IF j = i THEN e ELSE s[j-1]]
=============================================================================
