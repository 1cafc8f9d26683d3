----------------------------- MODULE MCFrontend -----------------------------
(* FrontendState on a small instance: a guild that may hold one of its two  *)
(* channels, a thread and a direct message, two timelines of one message,   *)
(* and room for two tombstones.                                             *)
EXTENDS FrontendState

CONSTANTS g1, c1, c2, t1, d1, b1

MCPages == {<<[id |-> 1, body |-> b1, authored |-> TRUE]>>}

MCSnapshots == {<< >>, <<c1>>, <<c2, c1>>}

MCThread(c, a) == [id |-> t1, guild |-> g1, parent |-> c, archived |-> a]

MCThreadLists ==
  {<< >>, <<MCThread(c1, FALSE)>>, <<MCThread(c1, TRUE)>>,
   <<MCThread(c2, FALSE)>>}

MCScopes == {Absent, {c1}}
=============================================================================
