--------------------------- MODULE DirectTopology ---------------------------
(***************************************************************************)
(* DirectTopologyState (src/src/gateway/direct.rs): the bounded list of    *)
(* the one-to-one direct messages, of which the least recently used one    *)
(* goes when it is full.  The order of the list and all that is known of a *)
(* recipient but who it is are left out.                                   *)
(***************************************************************************)
EXTENDS Naturals, FiniteSets

CONSTANTS
  Conversations, \* the channel ids of direct messages
  Users,         \* who may be at the other end
  NoRecipient,   \* the recipient of a channel that came without a valid one
  MaxDirect      \* max_channels

ASSUME DirectAssumption ==
  /\ MaxDirect \in Nat \ {0}
  /\ NoRecipient \notin Users

VARIABLES
  direct,       \* channels: the listed direct messages, by channel id
  directClock   \* stamps the touched field of one

directVars == <<direct, directClock>>

DirectChannel == [recipient : Users \cup {NoRecipient}, touched : Nat]

Listed(c) == c \in DOMAIN direct

\* evict_least_recently_used
LeastRecentDirect ==
  CHOOSE c \in DOMAIN direct : \A d \in DOMAIN direct : direct[c].touched <= direct[d].touched

\* Mutant: a full list takes one more channel.
UpsertDirectBeyond(c, recipient) ==
  /\ directClock' = directClock + 1
  /\ direct' = [d \in DOMAIN direct \cup {c} |->
                  IF d = c THEN [recipient |-> recipient, touched |-> directClock'] ELSE direct[d]]

\* upsert, of DirectChannelCreate and DirectChannelUpdate alike: what comes
\* replaces what is listed, also when it comes without a recipient.
UpsertDirect(c, recipient) ==
  /\ directClock' = directClock + 1
  /\ LET room == IF Listed(c) \/ Cardinality(DOMAIN direct) < MaxDirect THEN DOMAIN direct
                 ELSE DOMAIN direct \ {LeastRecentDirect}
         new == [recipient |-> recipient, touched |-> directClock']
     IN  direct' = [d \in room \cup {c} |-> IF d = c THEN new ELSE direct[d]]

\* DirectChannelDelete
RemoveDirect(c) ==
  /\ direct' = [d \in DOMAIN direct \ {c} |-> direct[d]]
  /\ UNCHANGED directClock

\* touch, of Message, MessageUpdate and MessageDelete alike.
TouchDirect(c) ==
  \/ ~Listed(c) /\ UNCHANGED directVars
  \/ /\ Listed(c)
     /\ directClock' = directClock + 1
     /\ direct' = [direct EXCEPT ![c].touched = directClock']

DirectInit == direct = << >> /\ directClock = 0

DirectNext ==
  \E c \in Conversations :
    \/ \E u \in Users \cup {NoRecipient} : UpsertDirect(c, u)
    \/ RemoveDirect(c)
    \/ TouchDirect(c)

DirectSpec == DirectInit /\ [][DirectNext]_directVars
----------------------------------------------------------------------------
(* Properties *)

\* What the fields hold.
DirectTypeOK ==
  /\ directClock \in Nat
  /\ DOMAIN direct \subseteq Conversations
  /\ direct \in [DOMAIN direct -> DirectChannel]

\* The list keeps its limit whatever is opened, updated and touched, and the
\* stamps name one least recently used channel: none is from the future and no
\* two are the same, so that upsert evicts at most one (direct.rs, upsert).
DirectBounded ==
  /\ DirectTypeOK
  /\ IsFiniteSet(DOMAIN direct)
  /\ Cardinality(DOMAIN direct) <= MaxDirect
  /\ \A c \in DOMAIN direct : direct[c].touched <= directClock
  /\ \A c, d \in DOMAIN direct : direct[c].touched = direct[d].touched => c = d
=============================================================================
