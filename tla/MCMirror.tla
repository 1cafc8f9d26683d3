------------------------------ MODULE MCMirror ------------------------------
(* A guild with two channels and a thread, room for all of them, and a ring *)
(* of two events. *)
EXTENDS Mirror

CONSTANTS g1, c1, c2, t1, b1

MCMessage == [id |-> 1, body |-> b1]

MCChannelList(S) == Retain(<<c1, c2>>, S)
MCListOf(S) == IF S = {} THEN << >> ELSE <<CHOOSE t \in S : TRUE>>

MCScopes == {Absent, {c1}}
MCSnapshots == {MCChannelList(S) : S \in SUBSET {c1, c2}}
MCThreadLists ==
  {<< >>} \cup {<<[id |-> t1, guild |-> g1, parent |-> c, archived |-> FALSE]>> : c \in {c1, c2}}
=============================================================================
