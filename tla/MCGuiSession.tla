---------------------------- MODULE MCGuiSession ----------------------------
(* A session with two conversations, of which one fits the list, one the    *)
(* message cache and one the tombstones; the client and one other user, a  *)
(* ring of two events, and pages of one message, that is older or younger  *)
(* than the one that is dispatched.                                        *)
EXTENDS GuiSession

CONSTANTS d1, d2, me, alice, b1

MCPages == {<<[id |-> i, body |-> b1, authored |-> TRUE]>> : i \in {1, 3}}

Channel(t, c, u) == [t |-> t, guild |-> Absent, id |-> c, oneToOne |-> TRUE, recipient |-> u]
Written(c, u) ==
  [t |-> "MESSAGE_CREATE", guild |-> Absent, channel |-> c, id |-> 2, body |-> b1, author |-> u]

MCDispatches ==
  {[t |-> "READY", user |-> me], [t |-> "READY", user |-> Malformed]}
    \cup {Channel("CHANNEL_CREATE", c, alice) : c \in {d1, d2}}
    \cup {Channel("CHANNEL_UPDATE", d1, Malformed), Channel("CHANNEL_DELETE", d1, Absent),
           Channel("CHANNEL_DELETE", d2, Absent)}
    \cup {Written(c, u) : c \in {d1}, u \in {me, alice, Malformed}}
    \cup {[t |-> "MESSAGE_DELETE", channel |-> d1, id |-> 2]}

MCEvents == UNION {Items(EventsOf(d, u)) : d \in MCDispatches, u \in Users \cup {Absent}}
=============================================================================
