----------------------------- MODULE MCTopology -----------------------------
(* Topology on a small instance: three guilds for a cache of two, two       *)
(* channels and two threads, of which a guild may hold two and one.         *)
EXTENDS Topology, TLC

CONSTANTS g1, g2, g3, c1, c2, c3, t1, t2

MCGuildIds == {g1, g2, g3}

MCSnapshots == {<< >>, <<c1>>, <<c2, c1>>, <<c1, c3, c2>>}

MCThread(id, c, a) == [id |-> id, guild |-> g1, parent |-> c, archived |-> a]

MCThreadLists ==
  {<< >>,
   <<MCThread(t1, c1, FALSE)>>,
   <<MCThread(t2, c2, FALSE), MCThread(t1, c1, FALSE)>>,
   <<MCThread(t1, c2, TRUE), MCThread(t2, Absent, FALSE)>>}

MCScopes == {Absent, {c1}, {}}
=============================================================================
