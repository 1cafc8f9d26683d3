----------------------------- MODULE Ingestion -----------------------------
(***************************************************************************)
(* From a dispatch of the Gateway to events of the frontend: the table of  *)
(* NetworkBackbone::run_connection (src/src/gateway/connection.rs) with    *)
(* the parsers it calls in events.rs, direct.rs, bulk.rs and identity.rs.  *)
(*                                                                         *)
(* A dispatch is a record of the fields the parsers read, t its name; an   *)
(* optional field is Absent when the payload lacks it, and a user is       *)
(* Malformed when it is there but its id is no snowflake or its name is    *)
(* empty.  The result is the sequence of events that is emitted.           *)
(***************************************************************************)
EXTENDS FrontendState

CONSTANTS
  Malformed,       \* a user that the parsers for users refuse
  MaxBulkDelete    \* MAX_BULK_DELETE_IDS

ValidUser(u) == u \notin {Absent, Malformed}
----------------------------------------------------------------------------
(* events.rs *)

MessageEvents(d) ==
  IF d.author = Absent THEN << >>
  ELSE <<[kind |-> "Message", channel |-> d.channel, id |-> d.id, body |-> d.body]>>

MessageUpdateEvents(d) ==
  <<[kind |-> "MessageUpdate", channel |-> d.channel, id |-> d.id,
     content |-> IF d.content = Absent THEN Unchanged ELSE d.content]>>

MessageDeleteEvents(d) ==
  <<[kind |-> "MessageDelete", channel |-> d.channel, id |-> d.id]>>

\* Mutant: the threads of the snapshot are not announced.
GuildCreateAlone(d) ==
  <<[kind |-> "GuildCreate", guild |-> d.guild, unavailable |-> d.unavailable,
     channels |-> d.channels]>>

\* A snapshot of an available guild is followed by a sync of all its threads.
GuildCreateEvents(d) ==
  LET snapshot == [kind |-> "GuildCreate", guild |-> d.guild,
                   unavailable |-> d.unavailable, channels |-> d.channels]
      sync == [kind |-> "ThreadListSync", guild |-> d.guild, scope |-> Absent,
               threads |-> [i \in DOMAIN d.threads |->
                 [id |-> d.threads[i].id, guild |-> d.guild,
                  parent |-> d.threads[i].parent, archived |-> d.threads[i].archived]]]
  IN  IF d.unavailable THEN <<snapshot>> ELSE <<snapshot, sync>>

GuildChangeEvents(d, kind) ==
  <<[kind |-> kind, guild |-> d.guild, unavailable |-> d.unavailable]>>

\* A channel of a guild: create, update and delete; without a guild it is none.
ChannelEvents(d, kind) ==
  IF d.guild = Absent THEN << >> ELSE <<[kind |-> kind, guild |-> d.guild, id |-> d.id]>>

ThreadEvents(d, kind) == <<[kind |-> kind, thread |-> d.thread]>>

ThreadDeleteEvents(d) == <<[kind |-> "ThreadDelete", guild |-> d.guild, id |-> d.id]>>

ThreadListSyncEvents(d) ==
  <<[kind |-> "ThreadListSync", guild |-> d.guild, scope |-> d.scope, threads |-> d.threads]>>
----------------------------------------------------------------------------
(* direct.rs *)

\* A channel without a guild that is a one-to-one direct message; a recipient
\* that is not valid is left out.
DirectChangeEvents(d, kind) ==
  IF d.guild # Absent \/ ~d.oneToOne THEN << >>
  ELSE <<[kind |-> kind, id |-> d.id,
          recipient |-> IF ValidUser(d.recipient) THEN d.recipient ELSE Absent]>>

\* A deletion is taken for one of a direct message whatever the channel was.
DirectDeleteEvents(d) ==
  IF d.guild # Absent THEN << >> ELSE <<[kind |-> "DirectChannelDelete", id |-> d.id]>>
----------------------------------------------------------------------------
(* connection.rs *)

\* Mutant: a client that does not know itself takes any author for another.
IsInboundGuessing(d, self) == d.guild = Absent /\ ValidUser(d.author) /\ d.author # self

\* A message of somebody else in a channel without a guild, to a client that
\* knows itself.
IsInbound(d, self) ==
  d.guild = Absent /\ self # Absent /\ ValidUser(d.author) /\ d.author # self

\* emit_direct_message_discovery
DiscoveryEvents(d, self) ==
  IF ~IsInbound(d, self) THEN << >>
  ELSE <<[kind |-> "DirectChannelUpdate", id |-> d.channel, recipient |-> d.author]>>

\* Mutant: the message comes before the discovery of its channel.
MessageFirst(d, self) == MessageEvents(d) \o DiscoveryEvents(d, self)

MessageCreateEvents(d, self) == DiscoveryEvents(d, self) \o MessageEvents(d)
----------------------------------------------------------------------------
(* bulk.rs: one deletion per id; a list that is too long deletes nothing. *)
BulkDeleteEvents(d) ==
  IF Len(d.ids) > MaxBulkDelete THEN << >>
  ELSE [i \in DOMAIN d.ids |->
          [kind |-> "MessageDelete", channel |-> d.channel, id |-> d.ids[i]]]
----------------------------------------------------------------------------
(* identity.rs: READY and USER_UPDATE replace the current user, unless it *)
(* is malformed; nothing forgets it. *)
SelfAfter(d, self) ==
  IF d.t \in {"READY", "USER_UPDATE"} /\ ValidUser(d.user) THEN d.user ELSE self
----------------------------------------------------------------------------
\* The dispatches the table knows; it ignores all others.
DispatchNames ==
  {"READY", "RESUMED", "USER_UPDATE", "GUILD_CREATE", "GUILD_UPDATE", "GUILD_DELETE",
   "CHANNEL_CREATE", "CHANNEL_UPDATE", "CHANNEL_DELETE", "THREAD_CREATE", "THREAD_UPDATE",
   "THREAD_DELETE", "THREAD_LIST_SYNC", "MESSAGE_CREATE", "MESSAGE_UPDATE", "MESSAGE_DELETE",
   "MESSAGE_DELETE_BULK"}

\* The dispatch table.  Both channel parsers see every channel.
EventsOf(d, self) ==
  CASE d.t = "READY" -> <<[kind |-> "GatewayReady"]>>
    [] d.t = "RESUMED" -> <<[kind |-> "GatewayResumed"]>>
    [] d.t = "USER_UPDATE" -> << >>
    [] d.t = "GUILD_CREATE" -> GuildCreateEvents(d)
    [] d.t = "GUILD_UPDATE" -> GuildChangeEvents(d, "GuildUpdate")
    [] d.t = "GUILD_DELETE" -> GuildChangeEvents(d, "GuildDelete")
    [] d.t = "CHANNEL_CREATE" -> ChannelEvents(d, "ChannelCreate")
                                   \o DirectChangeEvents(d, "DirectChannelCreate")
    [] d.t = "CHANNEL_UPDATE" -> ChannelEvents(d, "ChannelUpdate")
                                   \o DirectChangeEvents(d, "DirectChannelUpdate")
    [] d.t = "CHANNEL_DELETE" -> ChannelEvents(d, "ChannelDelete") \o DirectDeleteEvents(d)
    [] d.t = "THREAD_CREATE" -> ThreadEvents(d, "ThreadCreate")
    [] d.t = "THREAD_UPDATE" -> ThreadEvents(d, "ThreadUpdate")
    [] d.t = "THREAD_DELETE" -> ThreadDeleteEvents(d)
    [] d.t = "THREAD_LIST_SYNC" -> ThreadListSyncEvents(d)
    [] d.t = "MESSAGE_CREATE" -> MessageCreateEvents(d, self)
    [] d.t = "MESSAGE_UPDATE" -> MessageUpdateEvents(d)
    [] d.t = "MESSAGE_DELETE" -> MessageDeleteEvents(d)
    [] d.t = "MESSAGE_DELETE_BULK" -> BulkDeleteEvents(d)
=============================================================================
