---------------------------- MODULE MCTimelines ----------------------------
(* Timelines on a small instance: a cache of two timelines of two messages *)
(* for three channels, and room for two tombstones.                        *)
EXTENDS Timelines, TLC

CONSTANTS c1, c2, c3, b1, b2

MCChannelIds == {c1, c2, c3}
MCBodies == {b1, b2}

Entry(i, b, a) == [id |-> i, body |-> b, authored |-> a]

\* Newest first, as Discord answers, with and without messages of no author.
MCPages ==
  {<<Entry(2, b, TRUE), Entry(1, b, TRUE)>> : b \in MCBodies}
    \cup {<<Entry(3, b1, TRUE), Entry(2, b1, a), Entry(1, b1, TRUE)>> : a \in BOOLEAN}
    \cup {<<Entry(3, b1, FALSE)>>}

\* A channel of its own, or a channel with its threads.
MCRetirements ==
  {<<c>> : c \in MCChannelIds}
    \cup {<<c, d>> : c, d \in MCChannelIds} \cup {<< >>}

MCRestorations == {{c} : c \in MCChannelIds} \cup {{}}

MCSymmetry == Permutations(MCChannelIds)
=============================================================================
