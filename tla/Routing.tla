------------------------------- MODULE Routing -------------------------------
(***************************************************************************)
(* From a dispatched Discord event to the consumers that read it, and from *)
(* a consumer's request to the Discord shard that takes it.                *)
(*                                                                         *)
(* Discord sends the events of guild g on shard g % real, direct messages  *)
(* on shard 0 and what concerns the bot's user on every shard (g stands    *)
(* for the guild's id shifted right by 22 bits).  A shard's reader handles *)
(* one event at a time: the state first, then publishing, which writes the *)
(* shard's metadata and adds the event to the channels of the websocket    *)
(* sessions it routes to.  A session's writer marshals an event, with the  *)
(* metadata as it is by then, when it takes it from the channel.           *)
(*                                                                         *)
(* feed[c] is everything ever put into c's channel, of which the first     *)
(* Len(shown[c]) have been written; log is every event ever published.     *)
(* The channel's bound, resumes and disconnects are in ChatServer.         *)
(***************************************************************************)
EXTENDS Integers, Sequences, FiniteSets

CONSTANTS
    Configs,        \* configurations of a manager, see ConfigOK
    Guilds,         \* guilds, by their shifted id
    Consumers,      \* websocket connections of consumers
    Clients,        \* the <<shard id, shard count>> consumers identify with
    EventTypes,     \* the types of the events Discord sends
    EventBlacklist, \* types dropped before the state sees them
    ProduceBlacklist, \* types the state sees and consumers do not
    None,
    MaxEvents,      \* bound: events Discord sends
    MaxRequests     \* bound: requests consumers send

VARIABLES
    config,   \* the manager's configuration
    cached,   \* State.Guilds
    metadata, \* for each Discord shard, the triple its metadata points at
    handling, \* for each Discord shard, the event its reader is publishing
    sent,     \* number of events Discord sent
    log,      \* the published events, in order
    session,  \* for each consumer, its subscriber
    feed,     \* for each consumer, what was put into writeNormal
    shown,    \* for each consumer, the metadata triples written to it
    arrived,  \* the requests that reached Discord, with the shard they took
    asked     \* number of requests sent by consumers

vars == <<config, cached, metadata, handling, sent, log, session, feed, shown,
          arrived, asked>>

\* real: Discord's shard count; virtual: the virtual shard count, 0 when
\* virtual shards are off; ranges: the configured ranges of shard ids.
ConfigOK(cfg) ==
    /\ cfg.real \in Nat \ {0}
    /\ cfg.virtual \in Nat
    /\ cfg.dm \in Nat
    /\ cfg.virtual = 0 \/ cfg.dm < cfg.virtual
    /\ cfg.quickStart \in BOOLEAN

ASSUME ConfigsAssumption == \A cfg \in Configs : ConfigOK(cfg)
ASSUME GuildsAssumption == Guilds \subseteq Nat /\ None \notin Guilds
ASSUME ClientsAssumption == Clients \subseteq Int \X Int
ASSUME BoundsAssumption == MaxEvents \in Nat /\ MaxRequests \in Nat

-----------------------------------------------------------------------------
(* Shards and shard counts *)

\* The ids below max that one of the ranges covers.
ReturnRange(ranges, max) == {i \in 0..(max - 1) : \E r \in ranges : r[1] <= i /\ i <= r[2]}

\* The shards this manager runs: all of them unless ranges are configured.
ShardIDs(cfg) ==
    IF cfg.ranges = {} THEN 0..(cfg.real - 1) ELSE ReturnRange(cfg.ranges, cfg.real)

ShardIDOfGuild(g, count) == IF count <= 0 THEN 0 ELSE g % count

ConsumerShardCount == IF config.virtual > 0 THEN config.virtual ELSE config.real

\* The shard of a guild's consumer, as the documentation numbers them.
Home(g) == g % ConsumerShardCount

-----------------------------------------------------------------------------
(* Events: what each handler names as the event's destination *)

NoGuild(global) == [guild |-> None, global |-> global]

\* Handlers whose payload always has a guild.
GuildEvents == {"GUILD_CREATE", "GUILD_DELETE", "GUILD_BAN_ADD", "GUILD_BAN_REMOVE",
                "GUILD_INTEGRATIONS_UPDATE", "PRESENCE_UPDATE", "TYPING_START"}

\* Handlers whose payload has no guild in a direct message.
MessageEvents == {"MESSAGE_CREATE", "MESSAGE_UPDATE", "MESSAGE_DELETE", "MESSAGE_DELETE_BULK"}
ReactionEvents == {"MESSAGE_REACTION_ADD", "MESSAGE_REACTION_REMOVE",
                   "MESSAGE_REACTION_REMOVE_ALL", "MESSAGE_REACTION_REMOVE_EMOJI"}
InviteEvents == {"INVITE_CREATE", "INVITE_DELETE"}

\* Handlers that route to all when the payload has no guild.
EntitlementEvents == {"ENTITLEMENT_CREATE", "ENTITLEMENT_UPDATE", "ENTITLEMENT_DELETE"}
WildcardEvents == {"WILDCARD"}

\* USER_UPDATE, which Discord sends on every shard.
UserEvents == {"USER_UPDATE"}

ASSUME TypesAssumption ==
    EventTypes \subseteq UNION {GuildEvents, MessageEvents, ReactionEvents, InviteEvents,
                               EntitlementEvents, WildcardEvents, UserEvents}

\* What a shard's reader has at hand between its state handler and publishing.
Handled == [type : EventTypes, shard : Nat,
            id : [guild : Guilds \union {None}, global : BOOLEAN]]

ASSUME NoneAssumption == None \notin Handled

\* EventDispatchIdentifier of an event of this type about guild g, or about none.
Identifier(type, g) ==
    IF type \in UserEvents THEN NoGuild(TRUE)
    ELSE IF g # None THEN [guild |-> g, global |-> FALSE]
    ELSE NoGuild(type \in EntitlementEvents \union WildcardEvents)

\* What Discord may send on shard s.
Sendable(s, type, g) ==
    /\ g # None => (g % config.real = s /\ type \notin UserEvents)
    /\ g = None => type \notin GuildEvents
    /\ (g = None /\ type \notin UserEvents) => s = 0

\* The metadata a shard starts with; 1 is the shard group's id.
OwnTriple(s) == <<1, s, config.real>>

\* Mutant: the virtual shard computed from Discord's shard count.
RouteTripleReal(s, id) ==
    IF config.virtual = 0 THEN metadata[s]
    ELSE IF id.global THEN <<0, 0, 0>>
    ELSE IF id.guild # None THEN <<0, ShardIDOfGuild(id.guild, config.real), config.virtual>>
    ELSE <<0, config.dm, config.virtual>>

\* RoutePayloadToConsumer: what publishing writes into the shared metadata.
RouteTriple(s, id) ==
    IF config.virtual = 0 THEN metadata[s]
    ELSE IF id.global THEN <<0, 0, 0>>
    ELSE IF id.guild # None THEN <<0, ShardIDOfGuild(id.guild, config.virtual), config.virtual>>
    ELSE <<0, config.dm, config.virtual>>

\* publish's test of a subscriber against the event's shard and count.
Selects(client, triple, id) ==
    IF client[2] # triple[3] /\ id.guild # None
      THEN client[2] > 0 /\ ShardIDOfGuild(id.guild, client[2]) = triple[2]
      ELSE client[1] = triple[2]

-----------------------------------------------------------------------------
(* Types and initial state *)

Phases == {"new", "ranging", "greeted", "ended", "refused"}

TypeOK ==
    /\ config \in Configs
    /\ cached \subseteq Guilds
    /\ DOMAIN metadata = ShardIDs(config)
    /\ DOMAIN handling = ShardIDs(config)
    /\ sent \in 0..MaxEvents /\ asked \in 0..MaxRequests
    /\ Len(log) <= sent
    /\ \A c \in Consumers :
          /\ session[c].phase \in Phases
          /\ session[c].due \subseteq Guilds /\ session[c].held \in Guilds \union {None}
          /\ session[c].since \in 0..Len(log)
          /\ Len(shown[c]) <= Len(feed[c])
          /\ \A k \in 1..Len(feed[c]) : feed[c][k].n \in 0..Len(log)

Init ==
    /\ config \in Configs
    /\ cached = {}
    /\ metadata = [s \in ShardIDs(config) |-> OwnTriple(s)]
    /\ handling = [s \in ShardIDs(config) |-> None]
    /\ sent = 0 /\ asked = 0
    /\ log = <<>>
    /\ session = [c \in Consumers |->
                    [phase |-> "new", client |-> None, due |-> {}, held |-> None,
                     since |-> 0]]
    /\ feed = [c \in Consumers |-> <<>>]
    /\ shown = [c \in Consumers |-> <<>>]
    /\ arrived = {}

-----------------------------------------------------------------------------
(* Events *)

\* The caches after the state handler of an event.
CacheAfter(type, g) ==
    CASE type = "GUILD_CREATE" -> cached \union {g}
      [] type = "GUILD_DELETE" -> cached \ {g}
      [] OTHER -> cached

\* OnDispatch, up to the state handler: Discord sends an event and the shard's
\* reader applies it to the state.
Dispatch(s, type, g) ==
    /\ handling[s] = None
    /\ sent < MaxEvents
    /\ Sendable(s, type, g)
    /\ sent' = sent + 1
    /\ IF type \in EventBlacklist
         THEN UNCHANGED <<cached, handling>>
         ELSE /\ cached' = CacheAfter(type, g)
              /\ handling' = [handling EXCEPT ![s] =
                    [type |-> type, shard |-> s, id |-> Identifier(type, g)]]
    /\ UNCHANGED <<config, metadata, log, session, feed, shown, arrived, asked>>

\* An event on the produce blacklist goes no further.
Withhold(s) ==
    /\ handling[s] # None
    /\ handling[s].type \in ProduceBlacklist
    /\ handling' = [handling EXCEPT ![s] = None]
    /\ UNCHANGED <<config, cached, metadata, sent, log, session, feed, shown, arrived, asked>>

\* The subscribers: sessions from identifying on, disconnected ones included.
Registered(c) == session[c].phase \in {"ranging", "greeted", "ended"}

\* Mutant: a session that is still being greeted is sent the event twice.
DeliveredTwice(c, e, triple) ==
    LET item == [n |-> Len(log) + 1, guild |-> e.id.guild]
    IN IF ~(Registered(c) /\ Selects(session[c].client, triple, e.id)) THEN feed[c]
       ELSE IF session[c].phase = "ranging" THEN feed[c] \o <<item, item>>
       ELSE Append(feed[c], item)

\* Mutant: the session is handed an event that was not published yet.
DeliveredAhead(c, e, triple) ==
    IF Registered(c) /\ Selects(session[c].client, triple, e.id)
      THEN Append(feed[c], [n |-> Len(log) + 2, guild |-> e.id.guild])
      ELSE feed[c]

\* publish puts event e of the shard, with this route, into c's channel if it
\* selects c.
Delivered(c, e, triple) ==
    IF Registered(c) /\ Selects(session[c].client, triple, e.id)
      THEN Append(feed[c], [n |-> Len(log) + 1, guild |-> e.id.guild])
      ELSE feed[c]

\* Mutant: a copy is routed, but the shared metadata is marshalled.
ReroutedCopy(s, triple) == metadata

\* The route written into the metadata that all of the shard's events share.
Rerouted(s, triple) == [metadata EXCEPT ![s] = triple]

\* PublishEvent: route the event and publish it to every subscriber it selects.
Publish(s) ==
    /\ handling[s] # None
    /\ handling[s].type \notin ProduceBlacklist
    /\ LET e == handling[s]
           triple == RouteTriple(s, e.id)
       IN /\ metadata' = Rerouted(s, triple)
          /\ log' = Append(log, [type |-> e.type, shard |-> s, guild |-> e.id.guild,
                                 triple |-> triple])
          /\ feed' = [c \in Consumers |-> Delivered(c, e, triple)]
    /\ handling' = [handling EXCEPT ![s] = None]
    /\ UNCHANGED <<config, cached, sent, session, shown, arrived, asked>>

\* The session's writer marshals and writes its next message.
Write(c) ==
    /\ session[c].phase \in {"ranging", "greeted"}
    /\ Len(shown[c]) < Len(feed[c])
    /\ LET n == feed[c][Len(shown[c]) + 1].n
       IN shown' = [shown EXCEPT ![c] =
                       Append(@, IF n = 0 THEN None ELSE metadata[log[n].shard])]
    /\ UNCHANGED <<config, cached, metadata, handling, sent, log, session, feed, arrived, asked>>

-----------------------------------------------------------------------------
(* Sessions *)

\* identifyClient of a refused client.
Refuse(c, client) ==
    /\ session[c].phase = "new"
    /\ client[2] > ConsumerShardCount \/ client[1] > ConsumerShardCount
    /\ session' = [session EXCEPT ![c].phase = "refused"]
    /\ UNCHANGED <<config, cached, metadata, handling, sent, log, feed, shown, arrived, asked>>

\* identifyClient of an accepted client, addSubscriber and the start of
\* dispatchInitial, which ranges over the guilds known by then.
Identify(c, client) ==
    /\ session[c].phase = "new"
    /\ client[2] <= ConsumerShardCount /\ client[1] <= ConsumerShardCount
    /\ session' = [session EXCEPT ![c] =
          [phase |-> IF config.quickStart THEN "greeted" ELSE "ranging",
           client |-> <<client[1], IF client[2] <= 0 THEN ConsumerShardCount ELSE client[2]>>,
           due |-> IF config.quickStart THEN {} ELSE cached,
           held |-> None,
           since |-> Len(log)]]
    /\ UNCHANGED <<config, cached, metadata, handling, sent, log, feed, shown, arrived, asked>>

Greeted(c) == {feed[c][k].guild : k \in {j \in 1..Len(feed[c]) : feed[c][j].n = 0}}

\* GetGuild fails on a guild whose parts are still being stored.
BeingStored(g) ==
    \E s \in ShardIDs(config) :
       handling[s] # None /\ handling[s].type = "GUILD_CREATE" /\ handling[s].id.guild = g

\* dispatchInitial comes to a guild and reads it.  The range may or may not come
\* to a guild added since it began.
Load(c, g) ==
    /\ session[c].phase = "ranging"
    /\ session[c].held = None
    /\ g \in cached /\ g \in session[c].due \union (cached \ Greeted(c))
    /\ ShardIDOfGuild(g, ConsumerShardCount) = session[c].client[1]
    /\ session' = [session EXCEPT ![c].due = @ \ {g}, ![c].held = g]
    /\ UNCHANGED <<config, cached, metadata, handling, sent, log, feed, shown, arrived, asked>>

\* Mutant: skipping a guild ends the range, as returning true does.
SkipStopping(c, g) ==
    /\ session[c].phase = "ranging"
    /\ session[c].held = None
    /\ g \in session[c].due
    /\ \/ g \notin cached
       \/ ShardIDOfGuild(g, ConsumerShardCount) # session[c].client[1]
       \/ BeingStored(g)
    /\ session' = [session EXCEPT ![c].due = {}]
    /\ UNCHANGED <<config, cached, metadata, handling, sent, log, feed, shown, arrived, asked>>

\* A guild that is gone, of another shard or not yet complete is skipped.
Skip(c, g) ==
    /\ session[c].phase = "ranging"
    /\ session[c].held = None
    /\ g \in session[c].due
    /\ \/ g \notin cached
       \/ ShardIDOfGuild(g, ConsumerShardCount) # session[c].client[1]
       \/ BeingStored(g)
    /\ session' = [session EXCEPT ![c].due = @ \ {g}]
    /\ UNCHANGED <<config, cached, metadata, handling, sent, log, feed, shown, arrived, asked>>

\* It then puts the guild it read into the channel, whatever happened since.
Greet(c) ==
    /\ session[c].phase = "ranging"
    /\ session[c].held # None
    /\ feed' = [feed EXCEPT ![c] = Append(@, [n |-> 0, guild |-> session[c].held])]
    /\ session' = [session EXCEPT ![c].held = None]
    /\ UNCHANGED <<config, cached, metadata, handling, sent, log, shown, arrived, asked>>

EndGreeting(c) ==
    /\ session[c].phase = "ranging"
    /\ session[c].due = {} /\ session[c].held = None
    /\ session' = [session EXCEPT ![c].phase = "greeted"]
    /\ UNCHANGED <<config, cached, metadata, handling, sent, log, feed, shown, arrived, asked>>

\* Mutant: the guild's shard among the consumers' shards instead of Discord's.
RequestShardVirtual(client, g) ==
    IF client[2] # config.real THEN ShardIDOfGuild(g, ConsumerShardCount) ELSE client[1]

\* handleReadMessages: the Discord shard a request about guild g is sent on.
RequestShard(client, g) ==
    IF client[2] # config.real THEN ShardIDOfGuild(g, config.real) ELSE client[1]

\* A consumer asks something about a guild and getShard finds the shard.
Request(c, g) ==
    /\ session[c].phase \in {"ranging", "greeted"}
    /\ asked < MaxRequests
    /\ RequestShard(session[c].client, g) \in ShardIDs(config)
    /\ asked' = asked + 1
    /\ arrived' = arrived \union {[consumer |-> c, guild |-> g,
                                   shard |-> RequestShard(session[c].client, g)]}
    /\ UNCHANGED <<config, cached, metadata, handling, sent, log, session, feed, shown>>

\* getShard finds none: the test that follows is of the subscriber, so the nil
\* shard is used; the panic is recovered and the session's context cancelled.
FailRequest(c, g) ==
    /\ session[c].phase \in {"ranging", "greeted"}
    /\ asked < MaxRequests
    /\ RequestShard(session[c].client, g) \notin ShardIDs(config)
    /\ asked' = asked + 1
    /\ session' = [session EXCEPT ![c].phase = "ended"]
    /\ UNCHANGED <<config, cached, metadata, handling, sent, log, feed, shown, arrived>>

-----------------------------------------------------------------------------

DiscordStep ==
    \E s \in ShardIDs(config) :
       \/ \E type \in EventTypes, g \in Guilds \union {None} : Dispatch(s, type, g)
       \/ Withhold(s)
       \/ Publish(s)

ConsumerStep ==
    \E c \in Consumers :
       \/ \E client \in Clients : Refuse(c, client) \/ Identify(c, client)
       \/ \E g \in Guilds : Load(c, g) \/ Skip(c, g) \/ Request(c, g) \/ FailRequest(c, g)
       \/ Greet(c)
       \/ EndGreeting(c)
       \/ Write(c)

Next == DiscordStep \/ ConsumerStep

Spec == Init /\ [][Next]_vars

-----------------------------------------------------------------------------
(* Properties *)

\* A session that names one of the shards consumers have.
Plain(c) ==
    /\ Registered(c)
    /\ session[c].client[2] = ConsumerShardCount
    /\ session[c].client[1] < ConsumerShardCount

Events(c) == {feed[c][k].n : k \in 1..Len(feed[c])} \ {0}

\* Among the sessions with the full shard count, an event of a guild published
\* since a session was registered is for the session of the guild's virtual (or
\* real) shard and for no other, whatever Discord shard it came on.
GuildEventsGoHome ==
    \A c \in Consumers : Plain(c) =>
      \A n \in (session[c].since + 1)..Len(log) :
        log[n].guild # None => (n \in Events(c) <=> Home(log[n].guild) = session[c].client[1])

\* No session gets an event twice, or after one that was published later.
EventsInOrder ==
    \A c \in Consumers : \A j, k \in 1..Len(feed[c]) :
        j < k /\ feed[c][j].n > 0 /\ feed[c][k].n > 0 => feed[c][j].n < feed[c][k].n

\* What a session knows of a guild: the last message about it is not its removal.
Knows(c, g) ==
    \E k \in 1..Len(feed[c]) :
       /\ feed[c][k].guild = g
       /\ feed[c][k].n = 0 \/ log[feed[c][k].n].type = "GUILD_CREATE"
       /\ \A j \in (k + 1)..Len(feed[c]) :
             ~(feed[c][j].guild = g /\ feed[c][j].n > 0 /\ log[feed[c][j].n].type = "GUILD_DELETE")

Quiet == \A s \in ShardIDs(config) : handling[s] = None

\* Once a session has been greeted and no event is being handled, it has been
\* told of every cached guild of its shard: no guild falls between the
\* initial guilds and the events, whenever it was created.
NoGuildMissed ==
    \A c \in Consumers :
      Plain(c) /\ session[c].phase = "greeted" /\ ~config.quickStart /\ Quiet =>
        \A g \in cached : Home(g) = session[c].client[1] => Knows(c, g)

\* The metadata shown with an event is that of the event or of a later event
\* of the same Discord shard, never of an earlier one.
MetadataIsNotOlder ==
    \A c \in Consumers : \A k \in 1..Len(shown[c]) :
      LET n == feed[c][k].n
      IN n > 0 => \E m \in n..Len(log) : log[m].shard = log[n].shard /\ log[m].triple = shown[c][k]

\* A request about one of a session's own guilds, of any shard count, takes the
\* Discord shard that guild's events come on.
RequestsTakeRealShard ==
    \A r \in arrived :
      LET client == session[r.consumer].client
      IN client[1] = r.guild % client[2] => r.shard = r.guild % config.real
=============================================================================
