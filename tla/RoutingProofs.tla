----------------------------- MODULE RoutingProofs ------------------------------
(***************************************************************************)
(* Type correctness and the safety invariants of Routing, for all          *)
(* configurations, guilds, clients and events.                             *)
(*                                                                         *)
(* Three facts about the shards carry the argument: an event of a guild is *)
(* only ever handled by the shard the guild is on (HandlingOK), metadata   *)
(* is a shard's own unless shards are virtual (MetadataOK), and it is that *)
(* of the last event the shard published (MetadataIsLast).  That no guild  *)
(* is missed needs to be said of every moment of the greeting: a guild is  *)
(* known, due, held, or still being stored and so yet to be published      *)
(* (Greeting).                                                             *)
(***************************************************************************)
EXTENDS Routing, FiniteSetTheorems, TLAPS

Triples == Int \X Int \X Int
Entries == [type : EventTypes, shard : Nat, guild : Guilds \union {None}, triple : Triples]
Items == [n : Nat, guild : Guilds \union {None}]
Sessions == [phase : Phases, client : (Int \X Int) \union {None}, due : SUBSET Guilds,
             held : Guilds \union {None}, since : Nat]
Busy == {s \in ShardIDs(config) : handling[s] # None}

Types ==
    /\ config \in Configs
    /\ cached \in SUBSET Guilds
    /\ metadata \in [ShardIDs(config) -> Triples]
    /\ handling \in [ShardIDs(config) -> Handled \union {None}]
    /\ sent \in 0..MaxEvents /\ asked \in 0..MaxRequests
    /\ log \in Seq(Entries)
    /\ session \in [Consumers -> Sessions]
    /\ feed \in [Consumers -> Seq(Items)]
    /\ shown \in [Consumers -> Seq(Triples \union {None})]

\* What is being handled is still to be added to the log.
Counted == Len(log) + Cardinality(Busy) <= sent

Bounded ==
    \A c \in Consumers :
       /\ session[c].since <= Len(log)
       /\ Len(shown[c]) <= Len(feed[c])
       /\ \A k \in 1..Len(feed[c]) : feed[c][k].n <= Len(log)
       /\ Registered(c) => session[c].client \in Int \X Int

HandlingOK ==
    \A s \in ShardIDs(config) : handling[s] # None =>
       /\ handling[s].id.guild # None =>
             ~handling[s].id.global /\ handling[s].id.guild % config.real = s
       /\ handling[s].type = "GUILD_DELETE" => handling[s].id.guild \notin cached

MetadataOK == config.virtual = 0 => \A s \in ShardIDs(config) : metadata[s] = OwnTriple(s)

MetadataIsLast ==
    \A n \in 1..Len(log) :
       /\ log[n].shard \in ShardIDs(config)
       /\ \E m \in n..Len(log) :
             log[m].shard = log[n].shard /\ log[m].triple = metadata[log[n].shard]

RequestsOK ==
    \A r \in arrived :
       /\ r.consumer \in Consumers /\ r.guild \in Guilds
       /\ session[r.consumer].phase # "new"
       /\ r.shard = RequestShard(session[r.consumer].client, r.guild)

\* A session being greeted, or greeted, of one of the consumers' shards.
Served(c) == Plain(c) /\ session[c].phase \in {"ranging", "greeted"} /\ ~config.quickStart

Greeting ==
    \A c \in Consumers : Served(c) =>
       \A g \in cached : Home(g) = session[c].client[1] =>
          \/ Knows(c, g)
          \/ session[c].phase = "ranging" /\ (g \in session[c].due \/ session[c].held = g)
          \/ BeingStored(g)

\* The inductive invariant, but for Greeting, which needs GUILD_CREATE published.
IInv ==
    /\ Types /\ Counted /\ Bounded
    /\ HandlingOK /\ MetadataOK /\ MetadataIsLast
    /\ GuildEventsGoHome /\ EventsInOrder /\ MetadataIsNotOlder /\ RequestsOK

-----------------------------------------------------------------------------
(* Shards *)

LEMMA ConfigFacts ==
    ASSUME config \in Configs
    PROVE  /\ config.real \in Nat /\ config.real > 0
           /\ config.virtual \in Nat /\ config.dm \in Nat
           /\ ConsumerShardCount \in Nat /\ ConsumerShardCount > 0
  <1>1. ConfigOK(config)
    BY ConfigsAssumption
  <1> QED BY <1>1 DEF ConfigOK, ConsumerShardCount

LEMMA ShardFacts ==
    ASSUME config \in Configs
    PROVE  /\ ShardIDs(config) \subseteq Nat
           /\ IsFiniteSet(ShardIDs(config))
  <1>1. config.real \in Nat
    BY ConfigFacts
  <1>2. ShardIDs(config) \subseteq 0..(config.real - 1)
    BY DEF ShardIDs, ReturnRange
  <1>3. IsFiniteSet(0..(config.real - 1))
    BY <1>1, FS_Interval
  <1> QED BY <1>1, <1>2, <1>3, FS_Subset

LEMMA GuildShard ==
    ASSUME NEW g \in Guilds, NEW n \in Nat
    PROVE  /\ ShardIDOfGuild(g, n) \in Int
           /\ n > 0 => ShardIDOfGuild(g, n) = g % n
  <1>1. g \in Nat
    BY GuildsAssumption
  <1> QED BY <1>1 DEF ShardIDOfGuild

LEMMA RouteType ==
    ASSUME Types, NEW s \in ShardIDs(config), handling[s] # None
    PROVE  RouteTriple(s, handling[s].id) \in Triples
  <1>1. handling[s] \in Handled /\ metadata[s] \in Triples
    BY DEF Types
  <1>2. handling[s].id.guild # None => handling[s].id.guild \in Guilds
    BY <1>1 DEF Handled
  <1>3. config.virtual \in Nat /\ config.dm \in Nat
    BY ConfigFacts DEF Types
  <1>4. handling[s].id.guild # None => ShardIDOfGuild(handling[s].id.guild, config.virtual) \in Int
    BY <1>2, <1>3, GuildShard
  <1> QED BY <1>1, <1>3, <1>4 DEF RouteTriple, Triples

-----------------------------------------------------------------------------
(* Feeds *)

\* Every step leaves a feed as it is or puts one item at its end.
FeedsGrow ==
    \A c \in Consumers :
       \/ feed'[c] = feed[c]
       \/ \E item \in Items : feed'[c] = Append(feed[c], item)

LEMMA FeedPrefix ==
    ASSUME Types, FeedsGrow, NEW c \in Consumers
    PROVE  /\ feed'[c] \in Seq(Items) /\ Len(feed[c]) <= Len(feed'[c])
           /\ \A k \in 1..Len(feed[c]) : feed'[c][k] = feed[c][k]
  <1>1. feed[c] \in Seq(Items)
    BY DEF Types
  <1>2. CASE feed'[c] = feed[c]
    BY <1>1, <1>2
  <1>3. ASSUME NEW item \in Items, feed'[c] = Append(feed[c], item)
        PROVE  /\ feed'[c] \in Seq(Items) /\ Len(feed[c]) <= Len(feed'[c])
               /\ \A k \in 1..Len(feed[c]) : feed'[c][k] = feed[c][k]
    BY <1>1, <1>3
  <1> QED BY <1>2, <1>3 DEF FeedsGrow

\* What Publish does, seen from the log and the feeds.
LEMMA PublishFacts ==
    ASSUME Types, NEW s \in ShardIDs(config), Publish(s)
    PROVE  LET e == handling[s]
               triple == RouteTriple(s, e.id)
               entry == [type |-> e.type, shard |-> s, guild |-> e.id.guild, triple |-> triple]
           IN /\ e \in Handled /\ triple \in Triples /\ entry \in Entries
              /\ log' = Append(log, entry) /\ log' \in Seq(Entries)
              /\ Len(log') = Len(log) + 1 /\ log'[Len(log) + 1] = entry
              /\ \A n \in 1..Len(log) : log'[n] = log[n]
              /\ \A c \in Consumers : feed'[c] =
                    IF Registered(c) /\ Selects(session[c].client, triple, e.id)
                      THEN Append(feed[c], [n |-> Len(log) + 1, guild |-> e.id.guild])
                      ELSE feed[c]
              /\ FeedsGrow /\ feed' \in [Consumers -> Seq(Items)]
  <1> DEFINE e == handling[s]
             triple == RouteTriple(s, e.id)
             entry == [type |-> e.type, shard |-> s, guild |-> e.id.guild, triple |-> triple]
             item == [n |-> Len(log) + 1, guild |-> e.id.guild]
  <1>1. e \in Handled
    BY DEF Types, Publish
  <1>2. triple \in Triples
    BY RouteType DEF Publish
  <1>3. s \in Nat
    BY ShardFacts DEF Types
  <1>4. entry \in Entries
    BY <1>1, <1>2, <1>3 DEF Entries, Handled
  <1>5. log \in Seq(Entries)
    BY DEF Types
  <1>6. item \in Items
    BY <1>1, <1>5 DEF Items, Handled
  <1>7. log' = Append(log, entry)
    BY DEF Publish
  <1>8. \A c \in Consumers : feed'[c] =
           IF Registered(c) /\ Selects(session[c].client, triple, e.id)
             THEN Append(feed[c], item) ELSE feed[c]
    BY DEF Publish, Delivered
  <1> HIDE DEF triple, entry, item
  <1>9. /\ log' \in Seq(Entries) /\ Len(log') = Len(log) + 1 /\ log'[Len(log) + 1] = entry
        /\ \A n \in 1..Len(log) : log'[n] = log[n]
    BY <1>4, <1>5, <1>7
  <1>10. FeedsGrow
    BY <1>6, <1>8 DEF FeedsGrow
  <1>11. feed' \in [Consumers -> Seq(Items)]
    <2>1. feed' = [c \in Consumers |-> feed'[c]]
      BY DEF Publish
    <2> QED BY <2>1, <1>10, FeedPrefix
  <1> QED BY <1>1, <1>2, <1>4, <1>7, <1>8, <1>9, <1>10, <1>11 DEF triple, entry, item

\* What Greet does.
LEMMA GreetFacts ==
    ASSUME Types, NEW c \in Consumers, Greet(c)
    PROVE  LET item == [n |-> 0, guild |-> session[c].held]
           IN /\ item \in Items
              /\ feed'[c] = Append(feed[c], item)
              /\ \A d \in Consumers \ {c} : feed'[d] = feed[d]
              /\ FeedsGrow /\ feed' \in [Consumers -> Seq(Items)]
  <1> DEFINE item == [n |-> 0, guild |-> session[c].held]
  <1>1. item \in Items
    BY DEF Types, Sessions, Items
  <1>2. feed' = [feed EXCEPT ![c] = Append(@, item)]
    BY DEF Greet
  <1> HIDE DEF item
  <1>3. feed'[c] = Append(feed[c], item) /\ \A d \in Consumers \ {c} : feed'[d] = feed[d]
    BY <1>2 DEF Types
  <1>4. FeedsGrow
    BY <1>1, <1>3 DEF FeedsGrow
  <1>5. feed' \in [Consumers -> Seq(Items)]
    BY <1>1, <1>2 DEF Types
  <1> QED BY <1>1, <1>3, <1>4, <1>5 DEF item
-----------------------------------------------------------------------------
(* Sessions *)

\* What a step of session c leaves alone.
SessionFrame == UNCHANGED <<config, cached, metadata, handling, sent, log, shown, arrived>>

\* How the session of c may change: refused, registered now, or registered
\* before and still the client it was.
SessionChange(c) ==
    /\ session' \in [Consumers -> Sessions]
    /\ \A d \in Consumers \ {c} : session'[d] = session[d]
    /\ \/ session[c].phase = "new" /\ session'[c].phase = "refused"
          /\ session'[c].client = session[c].client /\ session'[c].since = session[c].since
       \/ /\ session[c].phase = "new" /\ session'[c].phase \in {"ranging", "greeted"}
          /\ session'[c].client \in Int \X Int /\ session'[c].since = Len(log)
       \/ /\ session[c].phase \in {"ranging", "greeted"}
          /\ session'[c].phase \in {"ranging", "greeted", "ended"}
          /\ session'[c].client = session[c].client /\ session'[c].since = session[c].since

SessionOnly(c) ==
    \/ \E client \in Clients : Refuse(c, client) \/ Identify(c, client)
    \/ \E g \in Guilds : Load(c, g) \/ Skip(c, g) \/ FailRequest(c, g)
    \/ EndGreeting(c)

LEMMA SessionChanges ==
    ASSUME Types, NEW c \in Consumers, SessionOnly(c) \/ Greet(c)
    PROVE  SessionFrame /\ SessionChange(c)
  <1>1. session \in [Consumers -> Sessions] /\ log \in Seq(Entries)
    BY DEF Types
  <1>2. ASSUME NEW client \in Clients, Refuse(c, client) PROVE SessionFrame /\ SessionChange(c)
    BY <1>1, <1>2, ZenonT(60) DEF Refuse, SessionFrame, SessionChange, Sessions, Phases
  <1>3. ASSUME NEW client \in Clients, Identify(c, client)
        PROVE  SessionFrame /\ SessionChange(c)
    <2>1. client \in Int \X Int
      BY ClientsAssumption
    <2>2. ConsumerShardCount \in Nat
      BY ConfigFacts DEF Types
    <2>3. <<client[1], IF client[2] <= 0 THEN ConsumerShardCount ELSE client[2]>> \in Int \X Int
      BY <2>1, <2>2
    <2>4. cached \in SUBSET Guilds /\ Len(log) \in Nat
      BY <1>1 DEF Types
    <2> QED BY <1>1, <1>3, <2>3, <2>4 DEF Identify, SessionFrame, SessionChange, Sessions, Phases
  <1>4. ASSUME NEW g \in Guilds, Load(c, g) \/ Skip(c, g) \/ FailRequest(c, g)
        PROVE  SessionFrame /\ SessionChange(c)
    <2>1. CASE Load(c, g)
      <3> DEFINE new == [session[c] EXCEPT !.due = @ \ {g}, !.held = g]
      <3>1. session[c] \in Sessions /\ session[c].phase = "ranging"
        BY <1>1, <2>1 DEF Load
      <3>2. /\ new \in Sessions /\ new.phase = "ranging"
            /\ new.client = session[c].client /\ new.since = session[c].since
        BY <3>1 DEF Sessions
      <3>3. session' = [session EXCEPT ![c] = new]
        BY <2>1, Zenon DEF Load
      <3>4. SessionFrame
        BY <2>1 DEF Load, SessionFrame
      <3> HIDE DEF new
      <3> QED BY <1>1, <3>1, <3>2, <3>3, <3>4 DEF SessionChange
    <2>2. CASE Skip(c, g)
      BY <1>1, <2>2, SMTT(60) DEF Skip, SessionFrame, SessionChange, Sessions, Phases
    <2>3. CASE FailRequest(c, g)
      <3> DEFINE new == [session[c] EXCEPT !.phase = "ended"]
      <3>1. session[c] \in Sessions /\ session[c].phase \in {"ranging", "greeted"}
        BY <1>1, <2>3 DEF FailRequest
      <3>2. /\ new \in Sessions /\ new.phase = "ended"
            /\ new.client = session[c].client /\ new.since = session[c].since
        BY <3>1 DEF Sessions, Phases
      <3>3. session' = [session EXCEPT ![c] = new]
        BY <2>3, Zenon DEF FailRequest
      <3>4. SessionFrame
        BY <2>3 DEF FailRequest, SessionFrame
      <3> HIDE DEF new
      <3> QED BY <1>1, <3>1, <3>2, <3>3, <3>4 DEF SessionChange
    <2> QED BY <1>4, <2>1, <2>2, <2>3
  <1>5. CASE EndGreeting(c)
    <2> DEFINE new == [session[c] EXCEPT !.phase = "greeted"]
    <2>1. session[c] \in Sessions /\ session[c].phase = "ranging"
      BY <1>1, <1>5 DEF EndGreeting
    <2>2. /\ new \in Sessions /\ new.phase = "greeted"
          /\ new.client = session[c].client /\ new.since = session[c].since
      BY <2>1 DEF Sessions, Phases
    <2>3. session' = [session EXCEPT ![c] = new]
      BY <1>5, Zenon DEF EndGreeting
    <2>4. SessionFrame
      BY <1>5 DEF EndGreeting, SessionFrame
    <2> HIDE DEF new
    <2> QED BY <1>1, <2>1, <2>2, <2>3, <2>4 DEF SessionChange
  <1>6. CASE Greet(c)
    <2> DEFINE new == [session[c] EXCEPT !.held = None]
    <2>1. session[c] \in Sessions /\ session[c].phase = "ranging"
      BY <1>1, <1>6 DEF Greet
    <2>2. /\ new \in Sessions /\ new.phase = session[c].phase
          /\ new.client = session[c].client /\ new.since = session[c].since
      BY <2>1 DEF Sessions, Phases
    <2>3. session' = [session EXCEPT ![c] = new]
      BY <1>6, Zenon DEF Greet
    <2>4. SessionFrame
      BY <1>6 DEF Greet, SessionFrame
    <2> HIDE DEF new
    <2> QED BY <1>1, <2>1, <2>2, <2>3, <2>4 DEF SessionChange
  <1> QED BY <1>2, <1>3, <1>4, <1>5, <1>6 DEF SessionOnly

-----------------------------------------------------------------------------
(* Types and bounds *)

LEMMA InitTypes == Init => Types /\ Counted /\ Bounded
  <1> SUFFICES ASSUME Init PROVE Types /\ Counted /\ Bounded
    OBVIOUS
  <1>1. config \in Configs
    BY DEF Init
  <1>2. ShardIDs(config) \subseteq Nat /\ config.real \in Nat
    BY <1>1, ShardFacts, ConfigFacts
  <1>3. Types
    BY <1>2, BoundsAssumption DEF Init, Types, OwnTriple, Triples, Sessions, Phases
  <1>4. Busy = {}
    BY DEF Init, Busy
  <1>5. Counted
    BY <1>4, FS_EmptySet DEF Init, Counted
  <1>6. Bounded
    BY DEF Init, Bounded, Registered
  <1> QED BY <1>3, <1>5, <1>6

LEMMA DispatchTypes ==
    ASSUME Types, NEW s \in ShardIDs(config), NEW type \in EventTypes,
           NEW g \in Guilds \union {None}, Dispatch(s, type, g)
    PROVE  Types'
  <1>1. Identifier(type, g) \in [guild : Guilds \union {None}, global : BOOLEAN]
    BY DEF Identifier, NoGuild
  <1>2. [type |-> type, shard |-> s, id |-> Identifier(type, g)] \in Handled
    BY <1>1, ShardFacts DEF Handled, Types
  <1>3. CacheAfter(type, g) \in SUBSET Guilds
    <2>1. type = "GUILD_CREATE" => g \in Guilds
      BY DEF Dispatch, Sendable, GuildEvents
    <2> QED BY <2>1 DEF CacheAfter, Types
  <1>4. sent' \in 0..MaxEvents
    BY BoundsAssumption DEF Dispatch, Types
  <1>5. /\ cached' \in SUBSET Guilds
        /\ handling' \in [ShardIDs(config) -> Handled \union {None}]
    <2>1. CASE type \in EventBlacklist
      BY <2>1 DEF Dispatch, Types
    <2>2. CASE type \notin EventBlacklist
      BY <2>2, <1>2, <1>3 DEF Dispatch, Types
    <2> QED BY <2>1, <2>2
  <1>6. UNCHANGED <<config, metadata, log, session, feed, shown, asked>>
    BY DEF Dispatch
  <1> QED BY <1>4, <1>5, <1>6 DEF Types

LEMMA PublishTypes ==
    ASSUME Types, NEW s \in ShardIDs(config), Publish(s)
    PROVE  Types'
  <1>1. log' \in Seq(Entries) /\ feed' \in [Consumers -> Seq(Items)]
    BY PublishFacts
  <1>2. metadata' \in [ShardIDs(config) -> Triples]
    BY RouteType DEF Publish, Rerouted, Types
  <1>3. handling' \in [ShardIDs(config) -> Handled \union {None}]
    BY DEF Publish, Types
  <1>4. UNCHANGED <<config, cached, sent, session, shown, asked>>
    BY SMTT(60) DEF Publish
  <1> QED BY <1>1, <1>2, <1>3, <1>4 DEF Types

LEMMA WriteTypes ==
    ASSUME Types, Bounded, MetadataIsLast, NEW c \in Consumers, Write(c)
    PROVE  /\ Types'
           /\ Len(shown'[c]) = Len(shown[c]) + 1 /\ Len(shown'[c]) <= Len(feed[c])
           /\ \A k \in 1..Len(shown[c]) : shown'[c][k] = shown[c][k]
           /\ LET n == feed[c][Len(shown[c]) + 1].n
              IN n > 0 => /\ n \in 1..Len(log)
                          /\ shown'[c][Len(shown[c]) + 1] = metadata[log[n].shard]
  <1> DEFINE n == feed[c][Len(shown[c]) + 1].n
             new == IF n = 0 THEN None ELSE metadata[log[n].shard]
  <1>1. /\ feed[c] \in Seq(Items) /\ shown[c] \in Seq(Triples \union {None})
        /\ log \in Seq(Entries) /\ metadata \in [ShardIDs(config) -> Triples]
    BY DEF Types
  <1>2. Len(shown[c]) < Len(feed[c])
    BY DEF Write
  <1>3. Len(shown[c]) + 1 \in 1..Len(feed[c])
    BY <1>1, <1>2
  <1>4. n \in 0..Len(log)
    <2>1. feed[c][Len(shown[c]) + 1] \in Items
      BY <1>1, <1>3
    <2>2. n \in Nat /\ n <= Len(log)
      BY <1>3, <2>1 DEF Bounded, Items
    <2> QED BY <1>1, <2>2
  <1>5. new \in Triples \union {None}
    BY <1>1, <1>4, SMTT(60) DEF MetadataIsLast
  <1>6. shown' = [shown EXCEPT ![c] = Append(@, new)]
    BY DEF Write
  <1> HIDE DEF n, new
  <1>7. shown' \in [Consumers -> Seq(Triples \union {None})]
    BY <1>5, <1>6 DEF Types
  <1>8. shown'[c] = Append(shown[c], new)
    BY <1>6 DEF Types
  <1>9. /\ Len(shown'[c]) = Len(shown[c]) + 1 /\ shown'[c][Len(shown[c]) + 1] = new
        /\ \A k \in 1..Len(shown[c]) : shown'[c][k] = shown[c][k]
    BY <1>1, <1>5, <1>8
  <1>10. UNCHANGED <<config, cached, metadata, handling, sent, log, session, feed, asked>>
    BY DEF Write
  <1>11. Types'
    BY <1>7, <1>10 DEF Types
  <1> QED BY <1>1, <1>2, <1>4, <1>9, <1>11, SMTT(60) DEF n, new

LEMMA SessionTypes ==
    ASSUME Types, NEW c \in Consumers, SessionOnly(c) \/ Greet(c)
    PROVE  Types'
  <1>1. SessionFrame /\ SessionChange(c)
    BY SessionChanges
  <1>2. asked' \in 0..MaxRequests
    <2>1. UNCHANGED asked \/ (asked < MaxRequests /\ asked' = asked + 1)
      BY DEF SessionOnly, Refuse, Identify, Load, Skip, FailRequest, EndGreeting, Greet
    <2> QED BY <2>1, BoundsAssumption DEF Types
  <1>3. feed' \in [Consumers -> Seq(Items)]
    <2>1. CASE Greet(c)
      BY <2>1, GreetFacts
    <2>2. CASE SessionOnly(c)
      BY <2>2 DEF SessionOnly, Refuse, Identify, Load, Skip, FailRequest, EndGreeting, Types
    <2> QED BY <2>1, <2>2
  <1> QED BY <1>1, <1>2, <1>3 DEF Types, SessionFrame, SessionChange
-----------------------------------------------------------------------------
(* Counted and Bounded *)

LEMMA BusyFinite == Types => IsFiniteSet(Busy)
  BY ShardFacts, FS_Subset DEF Types, Busy

LEMMA DispatchCounted ==
    ASSUME Types, Counted, NEW s \in ShardIDs(config), NEW type \in EventTypes,
           NEW g \in Guilds \union {None}, Dispatch(s, type, g)
    PROVE  Counted'
  <1>1. IsFiniteSet(Busy) /\ Cardinality(Busy) \in Nat
    BY BusyFinite, FS_CardinalityType
  <1>2. Busy' \subseteq Busy \union {s}
    BY DEF Dispatch, Busy, Types
  <1>3. /\ IsFiniteSet(Busy \union {s})
        /\ Cardinality(Busy \union {s}) <= Cardinality(Busy) + 1
    <2>1. Cardinality(Busy \union {s}) \in {Cardinality(Busy), Cardinality(Busy) + 1}
      BY <1>1, FS_AddElement
    <2>2. IsFiniteSet(Busy \union {s})
      BY <1>1, FS_AddElement
    <2> QED BY <1>1, <2>1, <2>2
  <1>4. Cardinality(Busy') <= Cardinality(Busy \union {s}) /\ Cardinality(Busy') \in Nat
    BY <1>2, <1>3, FS_Subset, FS_CardinalityType
  <1>5. Len(log) \in Nat /\ sent \in Nat /\ Cardinality(Busy \union {s}) \in Nat
    BY <1>3, FS_CardinalityType DEF Types
  <1>6. sent' = sent + 1 /\ log' = log
    BY DEF Dispatch
  <1> QED BY <1>1, <1>3, <1>4, <1>5, <1>6 DEF Counted

LEMMA HandledCounted ==
    ASSUME Types, Counted, NEW s \in ShardIDs(config), Withhold(s) \/ Publish(s)
    PROVE  Counted'
  <1>1. IsFiniteSet(Busy)
    BY BusyFinite
  <1>2. s \in Busy /\ Busy' = Busy \ {s}
    BY DEF Withhold, Publish, Busy, Types
  <1>3. Cardinality(Busy') = Cardinality(Busy) - 1 /\ Cardinality(Busy) \in Nat
    BY <1>1, <1>2, FS_RemoveElement, FS_CardinalityType
  <1>4. Len(log) \in Nat /\ sent \in Nat
    BY DEF Types
  <1>5. sent' = sent /\ Len(log') \in Nat /\ Len(log') <= Len(log) + 1
    <2>1. CASE Withhold(s)
      BY <1>4, <2>1 DEF Withhold
    <2>2. CASE Publish(s)
      BY <1>4, <2>2, PublishFacts DEF Publish
    <2> QED BY <2>1, <2>2
  <1> QED BY <1>3, <1>4, <1>5 DEF Counted

LEMMA PublishBounded ==
    ASSUME Types, Bounded, NEW s \in ShardIDs(config), Publish(s)
    PROVE  Bounded'
  <1> SUFFICES ASSUME NEW c \in Consumers
               PROVE  /\ session'[c].since <= Len(log')
                      /\ Len(shown'[c]) <= Len(feed'[c])
                      /\ \A k \in 1..Len(feed'[c]) : feed'[c][k].n <= Len(log')
                      /\ Registered(c)' => session'[c].client \in Int \X Int
    BY DEF Bounded
  <1>1. /\ feed[c] \in Seq(Items) /\ shown[c] \in Seq(Triples \union {None})
        /\ session[c] \in Sessions /\ log \in Seq(Entries)
    BY DEF Types
  <1>2. Len(log') = Len(log) + 1 /\ Len(log) \in Nat /\ UNCHANGED <<session, shown>>
    BY <1>1, PublishFacts DEF Publish
  <1>3. feed'[c] = feed[c] \/ feed'[c] = Append(feed[c], [n |-> Len(log) + 1, guild |-> handling[s].id.guild])
    BY PublishFacts
  <1>4. \A k \in 1..Len(feed[c]) : feed[c][k].n <= Len(log) /\ feed[c][k].n \in Nat
    <2>1. \A k \in 1..Len(feed[c]) : feed[c][k] \in Items
      BY <1>1
    <2> QED BY <2>1 DEF Bounded, Items
  <1>5. session[c].since \in Nat
    BY <1>1 DEF Sessions
  <1>6. /\ Len(feed[c]) <= Len(feed'[c])
        /\ \A k \in 1..Len(feed'[c]) : feed'[c][k].n <= Len(log) + 1
    <2>1. CASE feed'[c] = feed[c]
      BY <1>1, <1>2, <1>4, <2>1, SMTT(60)
    <2>2. CASE feed'[c] # feed[c]
      <3> DEFINE item == [n |-> Len(log) + 1, guild |-> handling[s].id.guild]
      <3>1. feed'[c] = Append(feed[c], item) /\ item.n = Len(log) + 1
        BY <1>3, <2>2
      <3> HIDE DEF item
      <3>2. /\ Len(feed'[c]) = Len(feed[c]) + 1 /\ feed'[c][Len(feed[c]) + 1] = item
            /\ \A k \in 1..Len(feed[c]) : feed'[c][k] = feed[c][k]
        BY <1>1, <3>1
      <3>3. ASSUME NEW k \in 1..Len(feed'[c]) PROVE feed'[c][k].n <= Len(log) + 1
        <4>1. CASE k \in 1..Len(feed[c])
          BY <1>2, <1>4, <3>2, <4>1, SMTT(60)
        <4>2. CASE k = Len(feed[c]) + 1
          BY <1>2, <3>1, <3>2, <4>2
        <4> QED BY <1>1, <3>2, <4>1, <4>2
      <3> QED BY <1>1, <3>2, <3>3
    <2> QED BY <2>1, <2>2
  <1>7. feed'[c] \in Seq(Items)
    BY PublishFacts
  <1> QED BY <1>1, <1>2, <1>5, <1>6, <1>7, SMTT(60) DEF Bounded, Registered

LEMMA WriteBounded ==
    ASSUME Types, Bounded, MetadataIsLast, NEW c \in Consumers, Write(c)
    PROVE  Bounded'
  <1>1. UNCHANGED <<session, feed, log>>
    BY DEF Write
  <1>2. \A d \in Consumers \ {c} : shown'[d] = shown[d]
    BY DEF Write, Types
  <1>3. Len(shown'[c]) <= Len(feed[c])
    BY WriteTypes
  <1> QED BY <1>1, <1>2, <1>3 DEF Bounded, Registered

LEMMA SessionBounded ==
    ASSUME Types, Bounded, NEW c \in Consumers, SessionOnly(c) \/ Greet(c)
    PROVE  Bounded'
  <1>1. SessionFrame /\ SessionChange(c)
    BY SessionChanges
  <1>2. log \in Seq(Entries) /\ session \in [Consumers -> Sessions] /\ Types'
    BY SessionTypes DEF Types
  <1> SUFFICES ASSUME NEW d \in Consumers
               PROVE  /\ session'[d].since <= Len(log)
                      /\ Len(shown[d]) <= Len(feed'[d])
                      /\ \A k \in 1..Len(feed'[d]) : feed'[d][k].n <= Len(log)
                      /\ Registered(d)' => session'[d].client \in Int \X Int
    BY <1>1 DEF Bounded, SessionFrame
  <1>3. session'[d].since <= Len(log)
    <2>1. session'[d].since = Len(log) \/ session'[d].since = session[d].since
      BY <1>1 DEF SessionChange
    <2>2. session[d].since <= Len(log) /\ Len(log) \in Nat
      BY <1>2 DEF Bounded
    <2> QED BY <2>1, <2>2
  <1>4. Registered(d)' => session'[d].client \in Int \X Int
    BY <1>1, <1>2 DEF SessionChange, Bounded, Registered
  <1>5. Len(shown[d]) <= Len(feed'[d]) /\ \A k \in 1..Len(feed'[d]) : feed'[d][k].n <= Len(log)
    <2>1. /\ feed[d] \in Seq(Items) /\ shown[d] \in Seq(Triples \union {None})
          /\ Len(log) \in Nat
      BY <1>2, SMTT(60) DEF Types
    <2>2. CASE feed'[d] = feed[d]
      BY <2>2 DEF Bounded
    <2>3. CASE d = c /\ Greet(c)
      <3>1. feed'[d] = Append(feed[d], [n |-> 0, guild |-> session[c].held])
        BY <2>3, GreetFacts
      <3>2. \A k \in 1..Len(feed[d]) : feed[d][k].n <= Len(log)
        BY DEF Bounded
      <3> QED BY <2>1, <3>1, <3>2 DEF Bounded
    <2>4. feed'[d] = feed[d] \/ (d = c /\ Greet(c))
      BY GreetFacts DEF SessionOnly, Refuse, Identify, Load, Skip, FailRequest, EndGreeting
    <2> QED BY <2>2, <2>3, <2>4
  <1> QED BY <1>3, <1>4, <1>5

-----------------------------------------------------------------------------
(* What is handled, and metadata *)

LEMMA DispatchHandling ==
    ASSUME Types, HandlingOK, NEW s \in ShardIDs(config), NEW type \in EventTypes,
           NEW g \in Guilds \union {None}, Dispatch(s, type, g)
    PROVE  HandlingOK'
  <1>1. config' = config /\ handling[s] = None
    BY DEF Dispatch
  <1>2. CASE type \in EventBlacklist
    BY <1>2 DEF Dispatch, HandlingOK
  <1>3. CASE type \notin EventBlacklist
    <2>1. /\ cached' = CacheAfter(type, g)
          /\ handling'[s] = [type |-> type, shard |-> s, id |-> Identifier(type, g)]
          /\ \A q \in ShardIDs(config) \ {s} : handling'[q] = handling[q]
      BY <1>3 DEF Dispatch, Types
    <2>2. ASSUME Identifier(type, g).guild # None
          PROVE  /\ Identifier(type, g).guild = g /\ ~Identifier(type, g).global
                 /\ g % config.real = s
      BY <2>2 DEF Dispatch, Sendable, Identifier, NoGuild
    <2>3. type = "GUILD_DELETE" => Identifier(type, g).guild \notin cached'
      <3>1. type = "GUILD_DELETE" => cached' = cached \ {g} /\ type \in GuildEvents
        BY <2>1 DEF CacheAfter, GuildEvents
      <3>2. None \notin cached
        BY GuildsAssumption DEF Types
      <3> QED BY <2>2, <3>1, <3>2
    <2>4. ASSUME NEW q \in ShardIDs(config) \ {s}, handling[q] # None,
                 handling[q].type = "GUILD_DELETE"
          PROVE  handling[q].id.guild \notin cached'
      <3>1. cached' \subseteq cached \union {g}
        BY <2>1 DEF CacheAfter
      <3>2. handling[q].id.guild \notin cached
        BY <2>4 DEF HandlingOK
      <3>3. CASE g = None
        <4>1. cached' \subseteq cached
          <5>1. type # "GUILD_CREATE"
            BY <3>3 DEF Dispatch, Sendable, GuildEvents
          <5> QED BY <2>1, <5>1 DEF CacheAfter
        <4> QED BY <3>2, <4>1
      <3>4. CASE g # None
        <4>1. g % config.real = s
          BY <3>4 DEF Dispatch, Sendable
        <4>2. handling[q].id.guild # None => handling[q].id.guild % config.real = q
          BY <2>4 DEF HandlingOK
        <4> QED BY <3>1, <3>2, <3>4, <4>1, <4>2
      <3> QED BY <3>3, <3>4
    <2> QED BY <1>1, <2>1, <2>2, <2>3, <2>4 DEF HandlingOK
  <1> QED BY <1>2, <1>3

LEMMA HandledHandling ==
    ASSUME Types, HandlingOK, NEW s \in ShardIDs(config), Withhold(s) \/ Publish(s)
    PROVE  HandlingOK'
  BY DEF Withhold, Publish, HandlingOK, Types

LEMMA PublishMetadata ==
    ASSUME Types, MetadataOK, NEW s \in ShardIDs(config), Publish(s)
    PROVE  MetadataOK'
  BY DEF Publish, Rerouted, RouteTriple, MetadataOK, Types, OwnTriple

LEMMA PublishIsLast ==
    ASSUME Types, MetadataIsLast, NEW s \in ShardIDs(config), Publish(s)
    PROVE  MetadataIsLast'
  <1> DEFINE triple == RouteTriple(s, handling[s].id)
             N == Len(log) + 1
  <1>1. /\ log \in Seq(Entries) /\ log' \in Seq(Entries) /\ Len(log') = N /\ Len(log) \in Nat
        /\ \A n \in 1..Len(log) : log'[n] = log[n]
    <2>1. log \in Seq(Entries)
      BY DEF Types
    <2>2. log' \in Seq(Entries) /\ Len(log') = Len(log) + 1
      BY PublishFacts
    <2>3. \A n \in 1..Len(log) : log'[n] = log[n]
      BY PublishFacts
    <2> QED BY <2>1, <2>2, <2>3
  <1>2. log'[N].shard = s /\ log'[N].triple = triple
    <2>1. log'[N] = [type |-> handling[s].type, shard |-> s, guild |-> handling[s].id.guild,
                     triple |-> triple]
      BY PublishFacts
    <2> QED BY <2>1
  <1>3. /\ metadata'[s] = triple
        /\ \A q \in ShardIDs(config) \ {s} : metadata'[q] = metadata[q]
    BY DEF Publish, Rerouted, Types
  <1>4. config' = config
    BY DEF Publish
  <1> SUFFICES ASSUME NEW n \in 1..N
               PROVE  /\ log'[n].shard \in ShardIDs(config)
                      /\ \E m \in n..N : /\ log'[m].shard = log'[n].shard
                                         /\ log'[m].triple = metadata'[log'[n].shard]
    BY <1>1, <1>4 DEF MetadataIsLast
  <1> HIDE DEF triple
  <1>5. N \in n..N
    BY <1>1
  <1>6. CASE log'[n].shard = s
    BY <1>2, <1>3, <1>5, <1>6
  <1>7. CASE log'[n].shard # s
    <2>1. n \in 1..Len(log)
      BY <1>1, <1>2, <1>7
    <2>2. log[n].shard \in ShardIDs(config)
      BY <2>1 DEF MetadataIsLast
    <2>3. PICK m \in n..Len(log) : /\ log[m].shard = log[n].shard
                                   /\ log[m].triple = metadata[log[n].shard]
      BY <2>1 DEF MetadataIsLast
    <2>4. m \in 1..Len(log) /\ m \in n..N
      BY <1>1, <2>1
    <2> QED BY <1>1, <1>3, <1>7, <2>1, <2>2, <2>3, <2>4
  <1> QED BY <1>6, <1>7
-----------------------------------------------------------------------------
(* Where guild events go *)

EventsOf(f) == {f[k].n : k \in 1..Len(f)} \ {0}

LEMMA AppendEvents ==
    ASSUME NEW f \in Seq(Items), NEW item \in Items
    PROVE  EventsOf(Append(f, item)) = EventsOf(f) \union ({item.n} \ {0})
  <1> DEFINE h == Append(f, item)
  <1>1. /\ Len(f) \in Nat /\ Len(h) = Len(f) + 1 /\ h[Len(f) + 1] = item
        /\ \A k \in 1..Len(f) : h[k] = f[k]
    OBVIOUS
  <1> HIDE DEF h
  <1>2. 1..Len(h) = 1..Len(f) \union {Len(f) + 1}
    BY <1>1
  <1>3. {h[k].n : k \in 1..Len(h)} = {f[k].n : k \in 1..Len(f)} \union {item.n}
    <2>1. \A k \in 1..Len(f) : h[k].n = f[k].n
      BY <1>1
    <2>2. h[Len(f) + 1].n = item.n
      BY <1>1
    <2> QED BY <1>2, <2>1, <2>2, SMTT(60)
  <1> QED BY <1>3 DEF EventsOf, h

\* Routing sends an event about a guild to its home, among the plain sessions.
LEMMA SelectsHome ==
    ASSUME Types, Bounded, HandlingOK, MetadataOK,
           NEW s \in ShardIDs(config), handling[s] # None, handling[s].id.guild # None,
           NEW c \in Consumers, Plain(c)
    PROVE  LET id == handling[s].id
           IN Selects(session[c].client, RouteTriple(s, id), id)
                <=> Home(id.guild) = session[c].client[1]
  <1> DEFINE id == handling[s].id
             client == session[c].client
  <1>1. id.guild \in Guilds /\ ~id.global /\ id.guild % config.real = s
    BY DEF HandlingOK, Types, Handled
  <1>2. client[2] = ConsumerShardCount
    BY DEF Plain
  <1>3. config.real \in Nat /\ config.virtual \in Nat
    BY ConfigFacts DEF Types
  <1>4. CASE config.virtual = 0
    <2>1. RouteTriple(s, id) = <<1, s, config.real>>
      BY <1>4 DEF RouteTriple, MetadataOK, OwnTriple
    <2>2. ConsumerShardCount = config.real /\ Home(id.guild) = s
      BY <1>1, <1>4 DEF ConsumerShardCount, Home
    <2> QED BY <1>2, <2>1, <2>2 DEF Selects
  <1>5. CASE config.virtual # 0
    <2>1. RouteTriple(s, id) = <<0, ShardIDOfGuild(id.guild, config.virtual), config.virtual>>
      BY <1>1, <1>5 DEF RouteTriple
    <2>2. ConsumerShardCount = config.virtual
      BY <1>3, <1>5 DEF ConsumerShardCount
    <2>3. ShardIDOfGuild(id.guild, config.virtual) = Home(id.guild)
      BY <1>1, <1>3, <1>5, <2>2, GuildShard DEF Home
    <2> QED BY <1>2, <2>1, <2>2, <2>3 DEF Selects
  <1> QED BY <1>4, <1>5

LEMMA PublishGoesHome ==
    ASSUME Types, Bounded, HandlingOK, MetadataOK, GuildEventsGoHome,
           NEW s \in ShardIDs(config), Publish(s)
    PROVE  GuildEventsGoHome'
  <1> DEFINE id == handling[s].id
             N == Len(log) + 1
             item == [n |-> N, guild |-> id.guild]
             chosen(c) == Registered(c) /\ Selects(session[c].client, RouteTriple(s, id), id)
  <1>1. UNCHANGED <<config, session>>
    BY DEF Publish
  <1> SUFFICES ASSUME NEW c \in Consumers, Plain(c),
                      NEW n \in (session[c].since + 1)..Len(log'), log'[n].guild # None
               PROVE  n \in EventsOf(feed'[c]) <=> Home(log'[n].guild) = session[c].client[1]
    BY <1>1 DEF GuildEventsGoHome, Plain, Registered, Events, EventsOf, Home, ConsumerShardCount
  <1>2. feed[c] \in Seq(Items) /\ log \in Seq(Entries) /\ session[c].since \in Nat
    BY DEF Types, Sessions
  <1>3. /\ Len(log) \in Nat /\ Len(log') = N
        /\ \A k \in 1..Len(log) : log'[k] = log[k]
    <2>1. Len(log') = N
      BY PublishFacts
    <2>2. \A k \in 1..Len(log) : log'[k] = log[k]
      BY PublishFacts
    <2> QED BY <1>2, <2>1, <2>2
  <1>4. log'[N].guild = id.guild
    <2>1. log'[N] = [type |-> handling[s].type, shard |-> s, guild |-> id.guild,
                     triple |-> RouteTriple(s, id)]
      BY PublishFacts
    <2> QED BY <2>1
  <1>5. item \in Items /\ item.n = N
    BY <1>2 DEF Items, Types, Handled, Publish
  <1>6. feed'[c] = IF chosen(c) THEN Append(feed[c], item) ELSE feed[c]
    BY PublishFacts
  <1>7. EventsOf(feed'[c]) = IF chosen(c) THEN EventsOf(feed[c]) \union {N} ELSE EventsOf(feed[c])
    <2>1. {item.n} \ {0} = {N}
      BY <1>3, <1>5
    <2> HIDE DEF item, chosen
    <2>2. CASE chosen(c)
      BY <1>2, <1>5, <1>6, <2>1, <2>2, AppendEvents
    <2> QED BY <1>6, <2>2
  <1>8. CASE n # N
    <2>1. n \in (session[c].since + 1)..Len(log) /\ n \in 1..Len(log)
      BY <1>2, <1>3, <1>8
    <2>2. n \in EventsOf(feed[c]) <=> Home(log[n].guild) = session[c].client[1]
      BY <1>3, <2>1 DEF GuildEventsGoHome, Events, EventsOf
    <2> HIDE DEF chosen
    <2> QED BY <1>3, <1>7, <1>8, <2>1, <2>2
  <1>9. CASE n = N
    <2>1. N \notin EventsOf(feed[c])
      <3>1. \A k \in 1..Len(feed[c]) : feed[c][k].n <= Len(log)
        BY DEF Bounded
      <3> QED BY <1>3, <3>1 DEF EventsOf
    <2>2. chosen(c) <=> Home(id.guild) = session[c].client[1]
      <3>1. handling[s] # None /\ id.guild # None /\ Registered(c)
        BY <1>4, <1>9 DEF Publish, Plain
      <3> QED BY <3>1, SelectsHome
    <2> HIDE DEF chosen
    <2> QED BY <1>4, <1>7, <1>9, <2>1, <2>2
  <1> QED BY <1>8, <1>9

LEMMA SessionGoesHome ==
    ASSUME Types, GuildEventsGoHome, NEW c \in Consumers, SessionOnly(c) \/ Greet(c)
    PROVE  GuildEventsGoHome'
  <1>1. SessionFrame /\ SessionChange(c)
    BY SessionChanges
  <1>2. \A d \in Consumers : EventsOf(feed'[d]) = EventsOf(feed[d])
    <2> SUFFICES ASSUME NEW d \in Consumers PROVE EventsOf(feed'[d]) = EventsOf(feed[d])
      OBVIOUS
    <2>1. CASE d = c /\ Greet(c)
      <3> DEFINE item == [n |-> 0, guild |-> session[c].held]
      <3>1. feed'[d] = Append(feed[d], item) /\ item \in Items /\ feed[d] \in Seq(Items)
        BY <2>1, GreetFacts DEF Types
      <3>2. {item.n} \ {0} = {}
        OBVIOUS
      <3> HIDE DEF item
      <3> QED BY <3>1, <3>2, AppendEvents, ZenonT(60)
    <2>2. feed'[d] = feed[d] \/ (d = c /\ Greet(c))
      BY GreetFacts DEF SessionOnly, Refuse, Identify, Load, Skip, FailRequest, EndGreeting
    <2> QED BY <2>1, <2>2
  <1> SUFFICES ASSUME NEW d \in Consumers, Plain(d)',
                      NEW n \in (session'[d].since + 1)..Len(log), log[n].guild # None
               PROVE  n \in EventsOf(feed[d]) <=> Home(log[n].guild) = session'[d].client[1]
    BY <1>1, <1>2 DEF SessionFrame, GuildEventsGoHome, Events, EventsOf, Home, ConsumerShardCount
  <1>3. Len(log) \in Nat
    BY DEF Types
  <1>4. /\ session'[d].since = session[d].since /\ session'[d].client = session[d].client
        /\ Registered(d)
    BY <1>1, <1>3 DEF SessionChange, Plain, Registered
  <1>5. Plain(d)
    BY <1>1, <1>4 DEF Plain, SessionFrame, ConsumerShardCount
  <1> QED BY <1>4, <1>5 DEF GuildEventsGoHome, Events, EventsOf

-----------------------------------------------------------------------------
(* The order of events *)

LEMMA PublishInOrder ==
    ASSUME Types, Bounded, EventsInOrder, NEW s \in ShardIDs(config), Publish(s)
    PROVE  EventsInOrder'
  <1> SUFFICES ASSUME NEW c \in Consumers, NEW j \in 1..Len(feed'[c]), NEW k \in 1..Len(feed'[c]),
                      j < k, feed'[c][j].n > 0, feed'[c][k].n > 0
               PROVE  feed'[c][j].n < feed'[c][k].n
    BY DEF EventsInOrder
  <1> DEFINE item == [n |-> Len(log) + 1, guild |-> handling[s].id.guild]
  <1>1. feed[c] \in Seq(Items) /\ log \in Seq(Entries)
    BY DEF Types
  <1>2. feed'[c] = feed[c] \/ feed'[c] = Append(feed[c], item)
    BY PublishFacts
  <1>3. item.n = Len(log) + 1
    OBVIOUS
  <1> HIDE DEF item
  <1>4. CASE feed'[c] = feed[c]
    BY <1>4 DEF EventsInOrder
  <1>5. CASE feed'[c] = Append(feed[c], item)
    <2>1. /\ Len(feed[c]) \in Nat /\ Len(feed'[c]) = Len(feed[c]) + 1
          /\ feed'[c][Len(feed[c]) + 1] = item
          /\ \A i \in 1..Len(feed[c]) : feed'[c][i] = feed[c][i]
      BY <1>1, <1>5
    <2>2. j \in 1..Len(feed[c])
      BY <2>1
    <2>3. CASE k \in 1..Len(feed[c])
      BY <2>1, <2>2, <2>3 DEF EventsInOrder
    <2>4. CASE k = Len(feed[c]) + 1
      <3>1. feed[c][j].n <= Len(log) /\ feed[c][j] \in Items
        BY <1>1, <2>2 DEF Bounded
      <3>2. feed[c][j].n \in Nat /\ Len(log) \in Nat
        BY <1>1, <3>1 DEF Items
      <3>3. feed'[c][j] = feed[c][j] /\ feed'[c][k] = item
        BY <2>1, <2>2, <2>4
      <3> QED BY <1>3, <3>1, <3>2, <3>3
    <2> QED BY <2>1, <2>3, <2>4
  <1> QED BY <1>2, <1>4, <1>5

LEMMA GreetInOrder ==
    ASSUME Types, EventsInOrder, NEW c \in Consumers, Greet(c)
    PROVE  EventsInOrder'
  <1> DEFINE item == [n |-> 0, guild |-> session[c].held]
  <1>1. feed'[c] = Append(feed[c], item) /\ \A d \in Consumers \ {c} : feed'[d] = feed[d]
    BY GreetFacts
  <1>2. item.n = 0 /\ feed[c] \in Seq(Items)
    BY DEF Types
  <1> HIDE DEF item
  <1>3. /\ Len(feed[c]) \in Nat /\ Len(feed'[c]) = Len(feed[c]) + 1
        /\ feed'[c][Len(feed[c]) + 1] = item
        /\ \A i \in 1..Len(feed[c]) : feed'[c][i] = feed[c][i]
    BY <1>1, <1>2
  <1>4. ASSUME NEW j \in 1..Len(feed'[c]), NEW k \in 1..Len(feed'[c]),
               j < k, feed'[c][j].n > 0, feed'[c][k].n > 0
        PROVE  feed'[c][j].n < feed'[c][k].n
    <2>1. k # Len(feed[c]) + 1
      BY <1>2, <1>3, <1>4
    <2>2. j \in 1..Len(feed[c]) /\ k \in 1..Len(feed[c])
      BY <1>3, <1>4, <2>1
    <2> QED BY <1>3, <1>4, <2>2 DEF EventsInOrder
  <1> QED BY <1>1, <1>4 DEF EventsInOrder
-----------------------------------------------------------------------------
(* The metadata written *)

LEMMA FeedsGrowNotOlder ==
    ASSUME Types, Bounded, MetadataIsNotOlder, FeedsGrow, UNCHANGED shown,
           log' \in Seq(Entries), Len(log) <= Len(log'),
           \A n \in 1..Len(log) : log'[n] = log[n]
    PROVE  MetadataIsNotOlder'
  <1> SUFFICES ASSUME NEW c \in Consumers, NEW k \in 1..Len(shown[c]), feed'[c][k].n > 0
               PROVE  \E m \in feed'[c][k].n..Len(log') :
                         /\ log'[m].shard = log'[feed'[c][k].n].shard
                         /\ log'[m].triple = shown[c][k]
    BY DEF MetadataIsNotOlder
  <1>1. /\ feed[c] \in Seq(Items) /\ shown[c] \in Seq(Triples \union {None})
        /\ log \in Seq(Entries) /\ Len(log) \in Nat /\ Len(log') \in Nat
    BY DEF Types
  <1>2. k \in 1..Len(feed[c])
    BY <1>1 DEF Bounded
  <1>3. feed'[c][k] = feed[c][k] /\ feed[c][k] \in Items
    BY <1>1, <1>2, FeedPrefix
  <1>4. PICK m \in feed[c][k].n..Len(log) : /\ log[m].shard = log[feed[c][k].n].shard
                                            /\ log[m].triple = shown[c][k]
    BY <1>3 DEF MetadataIsNotOlder
  <1>5. feed[c][k].n \in 1..Len(log) /\ m \in 1..Len(log)
    BY <1>1, <1>3, <1>4, SMTT(60) DEF Items
  <1>6. log'[m] = log[m] /\ log'[feed[c][k].n] = log[feed[c][k].n]
    BY <1>5
  <1>7. m \in feed[c][k].n..Len(log')
    BY <1>1, <1>5
  <1> QED BY <1>3, <1>4, <1>6, <1>7

LEMMA WriteNotOlder ==
    ASSUME Types, Bounded, MetadataIsLast, MetadataIsNotOlder, NEW c \in Consumers, Write(c)
    PROVE  MetadataIsNotOlder'
  <1>1. UNCHANGED <<feed, log>> /\ \A d \in Consumers \ {c} : shown'[d] = shown[d]
    BY DEF Write, Types
  <1> DEFINE K == Len(shown[c]) + 1
             n == feed[c][K].n
  <1>2. /\ Len(shown'[c]) = K
        /\ \A k \in 1..Len(shown[c]) : shown'[c][k] = shown[c][k]
        /\ n > 0 => n \in 1..Len(log) /\ shown'[c][K] = metadata[log[n].shard]
    BY WriteTypes
  <1>3. n > 0 => \E m \in n..Len(log) : /\ log[m].shard = log[n].shard
                                         /\ log[m].triple = shown'[c][K]
    BY <1>2 DEF MetadataIsLast
  <1>4. Len(shown[c]) \in Nat
    BY DEF Types
  <1> HIDE DEF n
  <1>5. ASSUME NEW k \in 1..Len(shown'[c]), feed[c][k].n > 0
        PROVE  \E m \in feed[c][k].n..Len(log) : /\ log[m].shard = log[feed[c][k].n].shard
                                                 /\ log[m].triple = shown'[c][k]
    <2>1. CASE k \in 1..Len(shown[c])
      BY <1>2, <1>5, <2>1 DEF MetadataIsNotOlder
    <2>2. CASE k = K
      BY <1>3, <1>5, <2>2 DEF n
    <2> QED BY <1>2, <1>4, <2>1, <2>2
  <1> QED BY <1>1, <1>5, SMTT(60) DEF MetadataIsNotOlder

-----------------------------------------------------------------------------
(* Requests *)

LEMMA RequestRequests ==
    ASSUME Types, RequestsOK, NEW c \in Consumers, NEW g \in Guilds, Request(c, g)
    PROVE  RequestsOK'
  <1>1. /\ UNCHANGED <<config, session>>
        /\ arrived' = arrived \union {[consumer |-> c, guild |-> g,
                                       shard |-> RequestShard(session[c].client, g)]}
        /\ session[c].phase # "new"
    BY DEF Request
  <1> QED BY <1>1 DEF RequestsOK, RequestShard

LEMMA SessionRequests ==
    ASSUME Types, RequestsOK, NEW c \in Consumers, SessionOnly(c) \/ Greet(c)
    PROVE  RequestsOK'
  <1>1. SessionFrame /\ SessionChange(c)
    BY SessionChanges
  <1>2. \A d \in Consumers : session[d].phase # "new" =>
           session'[d].phase # "new" /\ session'[d].client = session[d].client
    BY <1>1 DEF SessionChange
  <1> QED BY <1>1, <1>2 DEF RequestsOK, RequestShard, SessionFrame

LEMMA RequestsImply == Types /\ RequestsOK => RequestsTakeRealShard
  <1> SUFFICES ASSUME Types, RequestsOK, NEW r \in arrived,
                      session[r.consumer].client[1] = r.guild % session[r.consumer].client[2]
               PROVE  r.shard = r.guild % config.real
    BY DEF RequestsTakeRealShard
  <1>1. config.real \in Nat /\ config.real > 0
    BY ConfigFacts DEF Types
  <1>2. r.guild \in Guilds /\ r.shard = RequestShard(session[r.consumer].client, r.guild)
    BY DEF RequestsOK
  <1>3. ShardIDOfGuild(r.guild, config.real) = r.guild % config.real
    BY <1>1, <1>2, GuildShard
  <1> QED BY <1>2, <1>3 DEF RequestShard

-----------------------------------------------------------------------------
(* Greeting *)

\* What a session knows of a guild it still knows, unless it is told of its removal.
LEMMA KnowsStays ==
    ASSUME Types, Bounded, NEW c \in Consumers, NEW g \in Guilds, Knows(c, g),
           \A n \in 1..Len(log) : log'[n] = log[n],
           \/ feed'[c] = feed[c]
           \/ \E item \in Items :
                 /\ feed'[c] = Append(feed[c], item)
                 /\ ~(item.guild = g /\ item.n > 0 /\ log'[item.n].type = "GUILD_DELETE")
    PROVE  Knows(c, g)'
  <1>1. feed[c] \in Seq(Items) /\ log \in Seq(Entries) /\ Len(log) \in Nat
    BY DEF Types
  <1>2. \A k \in 1..Len(feed[c]) : feed[c][k].n \in 0..Len(log)
    <2>1. \A k \in 1..Len(feed[c]) : feed[c][k] \in Items
      BY <1>1
    <2> QED BY <1>1, <2>1 DEF Bounded, Items
  <1>3. PICK k \in 1..Len(feed[c]) :
           /\ feed[c][k].guild = g
           /\ feed[c][k].n = 0 \/ log[feed[c][k].n].type = "GUILD_CREATE"
           /\ \A j \in (k + 1)..Len(feed[c]) :
                 ~(feed[c][j].guild = g /\ feed[c][j].n > 0
                     /\ log[feed[c][j].n].type = "GUILD_DELETE")
    BY DEF Knows
  <1>4. \A j \in 1..Len(feed[c]) : feed[c][j].n > 0 => log'[feed[c][j].n] = log[feed[c][j].n]
    BY <1>1, <1>2, SMTT(60)
  <1>5. CASE feed'[c] = feed[c]
    <2>1. feed'[c][k].n = 0 \/ log'[feed'[c][k].n].type = "GUILD_CREATE"
      BY <1>2, <1>3, <1>4, <1>5
    <2>2. \A j \in (k + 1)..Len(feed'[c]) :
             ~(feed'[c][j].guild = g /\ feed'[c][j].n > 0
                 /\ log'[feed'[c][j].n].type = "GUILD_DELETE")
      BY <1>1, <1>3, <1>4, <1>5, SMTT(60)
    <2> QED BY <1>3, <1>5, <2>1, <2>2 DEF Knows
  <1>6. ASSUME NEW item \in Items, feed'[c] = Append(feed[c], item),
               ~(item.guild = g /\ item.n > 0 /\ log'[item.n].type = "GUILD_DELETE")
        PROVE  Knows(c, g)'
    <2>1. /\ Len(feed[c]) \in Nat /\ Len(feed'[c]) = Len(feed[c]) + 1
          /\ feed'[c][Len(feed[c]) + 1] = item
          /\ \A i \in 1..Len(feed[c]) : feed'[c][i] = feed[c][i]
      BY <1>1, <1>6
    <2>2. k \in 1..Len(feed'[c]) /\ feed'[c][k] = feed[c][k]
      BY <1>3, <2>1
    <2>3. feed'[c][k].n = 0 \/ log'[feed'[c][k].n].type = "GUILD_CREATE"
      BY <1>2, <1>3, <1>4, <2>2
    <2>4. ASSUME NEW j \in (k + 1)..Len(feed'[c])
          PROVE  ~(feed'[c][j].guild = g /\ feed'[c][j].n > 0
                     /\ log'[feed'[c][j].n].type = "GUILD_DELETE")
      <3>1. CASE j = Len(feed[c]) + 1
        BY <1>6, <2>1, <3>1
      <3>2. CASE j # Len(feed[c]) + 1
        <4>1. j \in (k + 1)..Len(feed[c]) /\ j \in 1..Len(feed[c])
          BY <2>1, <2>4, <3>2
        <4> QED BY <1>3, <1>4, <2>1, <4>1, SMTT(60)
      <3> QED BY <3>1, <3>2
    <2> QED BY <1>3, <2>2, <2>3, <2>4 DEF Knows
  <1> QED BY <1>5, <1>6

\* A session told of a guild knows it.
LEMMA ToldKnows ==
    ASSUME Types, NEW c \in Consumers, NEW g \in Guilds, NEW item \in Items,
           feed'[c] = Append(feed[c], item), item.guild = g,
           item.n = 0 \/ log'[item.n].type = "GUILD_CREATE"
    PROVE  Knows(c, g)'
  <1>1. feed[c] \in Seq(Items)
    BY DEF Types
  <1>2. Len(feed'[c]) \in 1..Len(feed'[c]) /\ feed'[c][Len(feed'[c])] = item
    BY <1>1
  <1>3. (Len(feed'[c]) + 1)..Len(feed'[c]) = {}
    BY <1>1
  <1> QED BY <1>2, <1>3 DEF Knows

LEMMA PublishGreeting ==
    ASSUME Types, Bounded, HandlingOK, MetadataOK, Greeting,
           NEW s \in ShardIDs(config), Publish(s)
    PROVE  Greeting'
  <1>1. /\ UNCHANGED <<config, cached, session>>
        /\ \A q \in ShardIDs(config) \ {s} : handling'[q] = handling[q]
    BY DEF Publish, Types
  <1> SUFFICES ASSUME NEW c \in Consumers, Served(c), NEW g \in cached,
                      Home(g) = session[c].client[1]
               PROVE  \/ Knows(c, g)'
                      \/ /\ session[c].phase = "ranging"
                         /\ g \in session[c].due \/ session[c].held = g
                      \/ BeingStored(g)'
    BY <1>1 DEF Greeting, Served, Plain, Registered, Home, ConsumerShardCount
  <1> DEFINE id == handling[s].id
             N == Len(log) + 1
             item == [n |-> N, guild |-> id.guild]
             chosen == Registered(c) /\ Selects(session[c].client, RouteTriple(s, id), id)
  <1>2. g \in Guilds /\ Len(log) \in Nat
    BY DEF Types
  <1>3. \A n \in 1..Len(log) : log'[n] = log[n]
    BY PublishFacts
  <1>4. log'[N].type = handling[s].type
    <2>1. log'[N] = [type |-> handling[s].type, shard |-> s, guild |-> id.guild,
                     triple |-> RouteTriple(s, id)]
      BY PublishFacts
    <2> QED BY <2>1
  <1>5. item \in Items /\ item.n = N /\ item.guild = id.guild
    BY <1>2 DEF Items, Types, Handled, Publish
  <1>6. feed'[c] = IF chosen THEN Append(feed[c], item) ELSE feed[c]
    BY PublishFacts
  <1>7. CASE Knows(c, g)
    <2>1. ~(id.guild = g /\ handling[s].type = "GUILD_DELETE")
      BY DEF HandlingOK, Publish
    <2> HIDE DEF item, chosen
    <2> QED BY <1>2, <1>3, <1>4, <1>5, <1>6, <1>7, <2>1, KnowsStays
  <1>8. CASE BeingStored(g)
    <2>1. PICK q \in ShardIDs(config) :
             handling[q] # None /\ handling[q].type = "GUILD_CREATE" /\ handling[q].id.guild = g
      BY <1>8 DEF BeingStored
    <2>2. CASE q # s
      BY <1>1, <2>1, <2>2 DEF BeingStored
    <2>3. CASE q = s
      <3>1. id.guild # None /\ Plain(c) /\ Registered(c)
        BY <1>2, <2>1, <2>3, GuildsAssumption DEF Served, Plain
      <3>2. chosen
        BY <2>1, <2>3, <3>1, SelectsHome
      <3> HIDE DEF item, chosen
      <3> QED BY <1>2, <1>4, <1>5, <1>6, <2>1, <2>3, <3>2, ToldKnows
    <2> QED BY <2>2, <2>3
  <1> QED BY <1>7, <1>8 DEF Greeting

LEMMA DispatchGreeting ==
    ASSUME Types, Bounded, Greeting, NEW s \in ShardIDs(config), NEW type \in EventTypes,
           NEW g \in Guilds \union {None}, Dispatch(s, type, g)
    PROVE  Greeting'
  <1>1. UNCHANGED <<config, session, log, feed>> /\ handling[s] = None
    BY DEF Dispatch
  <1>2. \A q \in ShardIDs(config) : handling[q] # None => handling'[q] = handling[q]
    BY <1>1 DEF Dispatch, Types
  <1>3. ASSUME NEW h \in cached', h \notin cached PROVE BeingStored(h)'
    <2>1. type \notin EventBlacklist /\ type = "GUILD_CREATE" /\ h = g
      BY <1>3 DEF Dispatch, CacheAfter
    <2> DEFINE new == [type |-> type, shard |-> s, id |-> Identifier(type, g)]
    <2>2. handling' = [handling EXCEPT ![s] = new]
      BY <2>1 DEF Dispatch
    <2>3. g \in Guilds /\ g # None
      BY <2>1, GuildsAssumption DEF Dispatch, Sendable, GuildEvents
    <2>4. Identifier(type, g) = [guild |-> g, global |-> FALSE]
      BY <2>1, <2>3 DEF Identifier, UserEvents
    <2>5. s \in Nat
      BY ShardFacts DEF Types
    <2>6. new \in Handled
      BY <2>3, <2>4, <2>5 DEF Handled
    <2>7. new # None
      BY <2>6, NoneAssumption
    <2>8. handling'[s] = new
      BY <2>2 DEF Types
    <2>9. new.type = "GUILD_CREATE" /\ new.id.guild = h
      BY <2>1, <2>4
    <2> HIDE DEF new
    <2> QED BY <1>1, <2>7, <2>8, <2>9 DEF BeingStored
  <1>4. \A h : BeingStored(h) => BeingStored(h)'
    BY <1>1, <1>2 DEF BeingStored
  <1>5. \A c, h : Knows(c, h) => Knows(c, h)'
    BY <1>1 DEF Knows
  <1> QED BY <1>1, <1>3, <1>4, <1>5 DEF Greeting, Served, Plain, Registered, Home,
                                        ConsumerShardCount

LEMMA WithholdGreeting ==
    ASSUME Types, Greeting, "GUILD_CREATE" \notin ProduceBlacklist,
           NEW s \in ShardIDs(config), Withhold(s)
    PROVE  Greeting'
  <1>1. UNCHANGED <<config, session, log, feed, cached>>
    BY DEF Withhold
  <1>2. \A q \in ShardIDs(config) \ {s} : handling'[q] = handling[q]
    BY DEF Withhold, Types
  <1>3. handling[s].type # "GUILD_CREATE"
    BY DEF Withhold
  <1>4. \A h : BeingStored(h) => BeingStored(h)'
    BY <1>1, <1>2, <1>3 DEF BeingStored
  <1>5. \A c, h : Knows(c, h) => Knows(c, h)'
    BY <1>1 DEF Knows
  <1> QED BY <1>1, <1>4, <1>5 DEF Greeting, Served, Plain, Registered, Home, ConsumerShardCount

LEMMA SessionGreeting ==
    ASSUME Types, Bounded, Greeting, NEW c \in Consumers, SessionOnly(c) \/ Greet(c)
    PROVE  Greeting'
  <1>1. SessionFrame /\ SessionChange(c)
    BY SessionChanges
  <1>2. \A h : BeingStored(h) => BeingStored(h)'
    BY <1>1 DEF SessionFrame, BeingStored
  <1> SUFFICES ASSUME NEW d \in Consumers, Served(d)', NEW g \in cached,
                      Home(g) = session'[d].client[1]
               PROVE  \/ Knows(d, g)'
                      \/ /\ session'[d].phase = "ranging"
                         /\ g \in session'[d].due \/ session'[d].held = g
                      \/ BeingStored(g)'
    BY <1>1 DEF SessionFrame, Greeting, Home, ConsumerShardCount
  <1>3. g \in Guilds /\ g # None
    BY GuildsAssumption DEF Types
  <1>4. \A n \in 1..Len(log) : log'[n] = log[n]
    BY <1>1 DEF SessionFrame
  <1>5. CASE d # c
    <2>1. feed'[d] = feed[d]
      BY <1>5, GreetFacts DEF SessionOnly, Refuse, Identify, Load, Skip, FailRequest, EndGreeting
    <2>2. session'[d] = session[d]
      BY <1>1, <1>5 DEF SessionChange
    <2>3. Served(d)
      BY <1>1, <2>2 DEF Served, Plain, Registered, SessionFrame, ConsumerShardCount
    <2> QED BY <1>2, <1>3, <1>4, <2>1, <2>2, <2>3, KnowsStays DEF Greeting
  <1>6. CASE d = c
    <2>1. /\ Registered(c) /\ session'[c].client = session[c].client
          /\ session[c].phase \in {"ranging", "greeted"}
          => Served(c)
      BY <1>1, <1>6 DEF Served, Plain, Registered, SessionFrame, ConsumerShardCount
    <2>2. session \in [Consumers -> Sessions]
      BY DEF Types
    <2>3. ASSUME NEW client \in Clients, Refuse(c, client) \/ Identify(c, client)
          PROVE  session'[c].phase = "ranging" /\ g \in session'[c].due
      <3>1. ~Refuse(c, client)
        BY <1>6, <2>2 DEF Refuse, Served, Sessions
      <3>2. ~config.quickStart
        BY <1>1 DEF Served, SessionFrame
      <3> QED BY <2>2, <2>3, <3>1, <3>2 DEF Identify
    <2>4. ASSUME NEW h \in Guilds, Load(c, h) PROVE \/ Knows(c, g)'
                                                    \/ /\ session'[c].phase = "ranging"
                                                       /\ g \in session'[c].due \/ session'[c].held = g
                                                    \/ BeingStored(g)'
      <3>1. /\ session[c].phase = "ranging" /\ session[c].held = None /\ feed' = feed
            /\ session' = [session EXCEPT ![c] = [session[c] EXCEPT !.due = @ \ {h}, !.held = h]]
        BY <2>4, Zenon DEF Load
      <3>2. /\ session'[c].phase = "ranging" /\ session'[c].held = h
            /\ session'[c].due = session[c].due \ {h} /\ session'[c].client = session[c].client
        BY <2>2, <3>1 DEF Sessions
      <3>3. Served(c)
        BY <2>1, <3>1, <3>2 DEF Registered
      <3>4. \/ Knows(c, g) \/ g \in session[c].due \/ BeingStored(g)
        BY <1>3, <1>6, <3>1, <3>2, <3>3 DEF Greeting
      <3> QED BY <1>2, <1>3, <1>4, <3>1, <3>2, <3>4, KnowsStays
    <2>5. ASSUME NEW h \in Guilds, Skip(c, h) PROVE \/ Knows(c, g)'
                                                    \/ /\ session'[c].phase = "ranging"
                                                       /\ g \in session'[c].due
                                                    \/ BeingStored(g)'
      <3>1. /\ session[c].phase = "ranging" /\ session[c].held = None /\ feed' = feed
            /\ session' = [session EXCEPT ![c].due = @ \ {h}]
        BY <2>5 DEF Skip
      <3>2. /\ session'[c].phase = "ranging"
            /\ session'[c].due = session[c].due \ {h} /\ session'[c].client = session[c].client
        BY <2>2, <3>1 DEF Sessions
      <3>3. Served(c)
        BY <2>1, <3>1, <3>2 DEF Registered
      <3>4. \/ Knows(c, g) \/ g \in session[c].due \/ BeingStored(g)
        BY <1>3, <1>6, <3>1, <3>2, <3>3 DEF Greeting
      <3>5. h = g => BeingStored(g)
        <4>1. ConsumerShardCount \in Nat /\ ConsumerShardCount > 0
          BY ConfigFacts DEF Types
        <4>2. ShardIDOfGuild(g, ConsumerShardCount) = Home(g)
          BY <1>3, <4>1, GuildShard DEF Home
        <4> QED BY <1>6, <2>5, <3>2, <4>2 DEF Skip
      <3> QED BY <1>2, <1>3, <1>4, <3>1, <3>2, <3>4, <3>5, KnowsStays
    <2>6. ASSUME NEW h \in Guilds PROVE ~FailRequest(c, h)
      BY <1>6, <2>2 DEF FailRequest, Served, Sessions
    <2>7. CASE EndGreeting(c)
      <3>1. /\ session[c].phase = "ranging" /\ session[c].held = None /\ session[c].due = {}
            /\ feed' = feed /\ session'[c].client = session[c].client
        BY <2>2, <2>7 DEF EndGreeting, Sessions
      <3>2. Served(c)
        BY <2>1, <3>1 DEF Registered
      <3>3. Knows(c, g) \/ BeingStored(g)
        BY <1>3, <1>6, <3>1, <3>2 DEF Greeting
      <3> QED BY <1>2, <1>3, <1>4, <1>6, <3>1, <3>3, KnowsStays
    <2>8. CASE Greet(c)
      <3> DEFINE item == [n |-> 0, guild |-> session[c].held]
      <3>1. feed'[c] = Append(feed[c], item) /\ item \in Items
        BY <2>8, GreetFacts
      <3>2. item.n = 0 /\ item.guild = session[c].held
        OBVIOUS
      <3> HIDE DEF item
      <3>3. /\ session[c].phase = "ranging" /\ session'[c].phase = "ranging"
            /\ session'[c].due = session[c].due /\ session'[c].client = session[c].client
        BY <2>2, <2>8 DEF Greet, Sessions
      <3>4. Served(c)
        BY <2>1, <3>3 DEF Registered
      <3>5. CASE session[c].held = g
        BY <1>3, <1>6, <3>1, <3>2, <3>5, ToldKnows
      <3>6. CASE session[c].held # g
        <4>1. Knows(c, g) \/ g \in session[c].due \/ BeingStored(g)
          BY <1>6, <3>3, <3>4, <3>6 DEF Greeting
        <4> QED BY <1>2, <1>3, <1>4, <1>6, <3>1, <3>2, <3>3, <4>1, KnowsStays
      <3> QED BY <3>5, <3>6
    <2> QED BY <1>6, <2>3, <2>4, <2>5, <2>6, <2>7, <2>8 DEF SessionOnly
  <1> QED BY <1>5, <1>6
-----------------------------------------------------------------------------
(* The invariant *)

LEMMA InitIInv == Init => IInv /\ Greeting
  <1> SUFFICES ASSUME Init PROVE IInv /\ Greeting
    OBVIOUS
  <1>1. Types /\ Counted /\ Bounded
    BY InitTypes
  <1>2. HandlingOK /\ MetadataOK /\ MetadataIsLast
    BY DEF Init, HandlingOK, MetadataOK, MetadataIsLast
  <1>3. GuildEventsGoHome /\ EventsInOrder /\ MetadataIsNotOlder /\ RequestsOK
    BY DEF Init, GuildEventsGoHome, EventsInOrder, MetadataIsNotOlder, RequestsOK
  <1>4. Greeting
    BY DEF Init, Greeting
  <1> QED BY <1>1, <1>2, <1>3, <1>4 DEF IInv

\* A step that only changes the caches or what is being handled.
LEMMA HandlingFrame ==
    ASSUME IInv, UNCHANGED <<config, metadata, log, session, feed, shown, arrived>>
    PROVE  /\ Bounded' /\ MetadataOK' /\ MetadataIsLast' /\ GuildEventsGoHome'
           /\ EventsInOrder' /\ MetadataIsNotOlder' /\ RequestsOK'
  <1>1. Bounded' /\ MetadataOK' /\ MetadataIsLast'
    BY DEF IInv, Bounded, Registered, MetadataOK, MetadataIsLast, OwnTriple
  <1>2. GuildEventsGoHome'
    BY DEF IInv, GuildEventsGoHome, Plain, Registered, Events, Home, ConsumerShardCount
  <1>3. EventsInOrder' /\ MetadataIsNotOlder'
    BY DEF IInv, EventsInOrder, MetadataIsNotOlder
  <1>4. RequestsOK'
    BY DEF IInv, RequestsOK, RequestShard
  <1> QED BY <1>1, <1>2, <1>3, <1>4

\* A step that leaves the shards alone.
LEMMA ShardFrame ==
    ASSUME IInv, UNCHANGED <<config, cached, metadata, handling, sent, log>>
    PROVE  Counted' /\ HandlingOK' /\ MetadataOK' /\ MetadataIsLast'
  <1>1. Busy' = Busy
    BY DEF Busy
  <1> QED BY <1>1 DEF IInv, Counted, HandlingOK, MetadataOK, MetadataIsLast, OwnTriple

LEMMA DispatchStep ==
    ASSUME IInv, NEW s \in ShardIDs(config), NEW type \in EventTypes,
           NEW g \in Guilds \union {None}, Dispatch(s, type, g)
    PROVE  IInv'
  <1>1. UNCHANGED <<config, metadata, log, session, feed, shown, arrived>>
    BY DEF Dispatch
  <1> QED BY <1>1, HandlingFrame, DispatchTypes, DispatchCounted, DispatchHandling DEF IInv

LEMMA WithholdStep ==
    ASSUME IInv, NEW s \in ShardIDs(config), Withhold(s)
    PROVE  IInv'
  <1>1. UNCHANGED <<config, metadata, log, session, feed, shown, arrived>>
    BY DEF Withhold
  <1>2. Types'
    BY DEF Withhold, IInv, Types
  <1> QED BY <1>1, <1>2, HandlingFrame, HandledCounted, HandledHandling DEF IInv

LEMMA PublishStep ==
    ASSUME IInv, NEW s \in ShardIDs(config), Publish(s)
    PROVE  IInv'
  <1>1. Types' /\ Counted' /\ Bounded' /\ HandlingOK'
    BY PublishTypes, HandledCounted, PublishBounded, HandledHandling DEF IInv
  <1>2. MetadataOK' /\ MetadataIsLast'
    BY PublishMetadata, PublishIsLast DEF IInv
  <1>3. GuildEventsGoHome' /\ EventsInOrder'
    BY PublishGoesHome, PublishInOrder DEF IInv
  <1>4. MetadataIsNotOlder'
    <2>1. UNCHANGED shown
      BY DEF Publish
    <2>2. FeedsGrow /\ log' \in Seq(Entries) /\ Len(log') = Len(log) + 1
      BY PublishFacts DEF IInv
    <2>3. \A n \in 1..Len(log) : log'[n] = log[n]
      BY PublishFacts DEF IInv
    <2>4. Len(log) \in Nat
      BY DEF IInv, Types
    <2>5. Len(log) <= Len(log')
      BY <2>2, <2>4
    <2> QED BY <2>1, <2>2, <2>3, <2>5, FeedsGrowNotOlder DEF IInv
  <1>5. RequestsOK'
    BY DEF Publish, IInv, RequestsOK, RequestShard
  <1> QED BY <1>1, <1>2, <1>3, <1>4, <1>5 DEF IInv

LEMMA WriteStep ==
    ASSUME IInv, NEW c \in Consumers, Write(c)
    PROVE  IInv'
  <1>1. UNCHANGED <<config, cached, metadata, handling, sent, log, session, feed, arrived>>
    BY DEF Write
  <1>2. Types' /\ Bounded' /\ MetadataIsNotOlder'
    BY WriteTypes, WriteBounded, WriteNotOlder DEF IInv
  <1>3. Counted' /\ HandlingOK' /\ MetadataOK' /\ MetadataIsLast'
    BY <1>1, ShardFrame
  <1>4. GuildEventsGoHome' /\ EventsInOrder' /\ RequestsOK'
    BY <1>1 DEF IInv, GuildEventsGoHome, Plain, Registered, Events, Home, ConsumerShardCount,
                EventsInOrder, RequestsOK, RequestShard
  <1> QED BY <1>2, <1>3, <1>4 DEF IInv

LEMMA RequestStep ==
    ASSUME IInv, NEW c \in Consumers, NEW g \in Guilds, Request(c, g)
    PROVE  IInv'
  <1>1. /\ UNCHANGED <<config, cached, metadata, handling, sent, log, session, feed, shown>>
        /\ asked < MaxRequests /\ asked' = asked + 1
    BY DEF Request
  <1>2. asked' \in 0..MaxRequests
    BY <1>1, BoundsAssumption DEF IInv, Types
  <1>3. Types'
    BY <1>1, <1>2 DEF IInv, Types
  <1>4. Counted' /\ HandlingOK' /\ MetadataOK' /\ MetadataIsLast'
    BY <1>1, ShardFrame
  <1>5. Bounded' /\ GuildEventsGoHome' /\ EventsInOrder' /\ MetadataIsNotOlder'
    BY <1>1 DEF IInv, Bounded, GuildEventsGoHome, Plain, Registered, Events, Home,
                ConsumerShardCount, EventsInOrder, MetadataIsNotOlder
  <1>6. RequestsOK'
    BY RequestRequests DEF IInv
  <1> QED BY <1>3, <1>4, <1>5, <1>6 DEF IInv

LEMMA SessionStep ==
    ASSUME IInv, NEW c \in Consumers, SessionOnly(c) \/ Greet(c)
    PROVE  IInv'
  <1>1. SessionFrame
    BY SessionChanges DEF IInv
  <1>2. Types' /\ Bounded' /\ GuildEventsGoHome' /\ RequestsOK'
    BY SessionTypes, SessionBounded, SessionGoesHome, SessionRequests DEF IInv
  <1>3. Counted' /\ HandlingOK' /\ MetadataOK' /\ MetadataIsLast'
    BY <1>1, ShardFrame DEF SessionFrame
  <1>4. EventsInOrder' /\ MetadataIsNotOlder'
    <2>1. CASE Greet(c)
      <3>1. EventsInOrder'
        BY <2>1, GreetInOrder DEF IInv
      <3>2. FeedsGrow
        BY <2>1, GreetFacts DEF IInv
      <3>3. log \in Seq(Entries) /\ Len(log) \in Nat
        BY DEF IInv, Types
      <3>4. MetadataIsNotOlder'
        BY <1>1, <3>2, <3>3, FeedsGrowNotOlder DEF IInv, SessionFrame
      <3> QED BY <3>1, <3>4
    <2>2. CASE SessionOnly(c)
      <3>1. feed' = feed
        BY <2>2 DEF SessionOnly, Refuse, Identify, Load, Skip, FailRequest, EndGreeting
      <3> QED BY <1>1, <3>1 DEF IInv, EventsInOrder, MetadataIsNotOlder, SessionFrame
    <2> QED BY <2>1, <2>2
  <1> QED BY <1>2, <1>3, <1>4 DEF IInv

LEMMA NextIInv == IInv /\ [Next]_vars => IInv'
  <1> SUFFICES ASSUME IInv, [Next]_vars PROVE IInv'
    OBVIOUS
  <1>1. CASE Next
    <2>1. \A s \in ShardIDs(config), type \in EventTypes, g \in Guilds \union {None} :
             Dispatch(s, type, g) => IInv'
      BY DispatchStep
    <2>2. \A s \in ShardIDs(config) : (Withhold(s) => IInv') /\ (Publish(s) => IInv')
      BY WithholdStep, PublishStep
    <2>3. \A c \in Consumers : Write(c) => IInv'
      BY WriteStep
    <2>4. \A c \in Consumers, g \in Guilds : Request(c, g) => IInv'
      BY RequestStep
    <2>5. \A c \in Consumers : SessionOnly(c) \/ Greet(c) => IInv'
      BY SessionStep
    <2>6. CASE DiscordStep
      BY <2>1, <2>2, <2>6 DEF DiscordStep
    <2>7. CASE ConsumerStep
      BY <2>3, <2>4, <2>5, <2>7 DEF ConsumerStep, SessionOnly
    <2> QED BY <1>1, <2>6, <2>7 DEF Next
  <1>2. CASE UNCHANGED vars
    <2>1. UNCHANGED <<config, cached, metadata, handling, sent, log, session, feed, shown,
                      arrived, asked>>
      BY <1>2 DEF vars
    <2>2. Types' /\ Counted' /\ HandlingOK'
      BY <2>1, ShardFrame DEF IInv, Types
    <2> QED BY <2>1, <2>2, HandlingFrame DEF IInv
  <1> QED BY <1>1, <1>2

LEMMA NextGreeting ==
    ASSUME "GUILD_CREATE" \notin ProduceBlacklist
    PROVE  IInv /\ Greeting /\ [Next]_vars => Greeting'
  <1> SUFFICES ASSUME IInv, Greeting, [Next]_vars PROVE Greeting'
    OBVIOUS
  <1>1. ASSUME UNCHANGED <<config, cached, handling, log, session, feed>> PROVE Greeting'
    <2>1. \A h : BeingStored(h) => BeingStored(h)'
      BY <1>1 DEF BeingStored
    <2>2. \A c, h : Knows(c, h) => Knows(c, h)'
      BY <1>1 DEF Knows
    <2> QED BY <1>1, <2>1, <2>2 DEF Greeting, Served, Plain, Registered, Home,
                                    ConsumerShardCount
  <1>2. CASE DiscordStep
    <2>1. PICK s \in ShardIDs(config) :
             \/ \E type \in EventTypes, g \in Guilds \union {None} : Dispatch(s, type, g)
             \/ Withhold(s) \/ Publish(s)
      BY <1>2 DEF DiscordStep
    <2> QED BY <2>1, DispatchGreeting, WithholdGreeting, PublishGreeting DEF IInv
  <1>3. CASE ConsumerStep
    <2>1. PICK c \in Consumers :
             \/ Write(c) \/ (\E g \in Guilds : Request(c, g))
             \/ SessionOnly(c) \/ Greet(c)
      BY <1>3 DEF ConsumerStep, SessionOnly
    <2>2. CASE Write(c) \/ \E g \in Guilds : Request(c, g)
      BY <1>1, <2>2 DEF Write, Request
    <2> QED BY <2>1, <2>2, SessionGreeting DEF IInv
  <1>4. CASE UNCHANGED vars
    BY <1>1, <1>4 DEF vars
  <1> QED BY <1>2, <1>3, <1>4 DEF Next

-----------------------------------------------------------------------------
(* The theorems *)

LEMMA TypesImply == IInv => TypeOK
  <1> SUFFICES ASSUME IInv PROVE TypeOK
    OBVIOUS
  <1>1. Types /\ Counted /\ Bounded
    BY DEF IInv
  <1>2. Len(log) \in Nat /\ Len(log) <= sent
    <2>1. Cardinality(Busy) \in Nat
      BY <1>1, BusyFinite, FS_CardinalityType
    <2> QED BY <1>1, <2>1 DEF Types, Counted
  <1>3. ASSUME NEW c \in Consumers
        PROVE  /\ session[c].phase \in Phases
               /\ session[c].due \subseteq Guilds /\ session[c].held \in Guilds \union {None}
               /\ session[c].since \in 0..Len(log)
               /\ Len(shown[c]) <= Len(feed[c])
               /\ \A k \in 1..Len(feed[c]) : feed[c][k].n \in 0..Len(log)
    <2>1. session[c] \in Sessions /\ feed[c] \in Seq(Items)
      BY <1>1 DEF Types
    <2>2. \A k \in 1..Len(feed[c]) : feed[c][k] \in Items
      BY <2>1
    <2> QED BY <1>1, <1>2, <2>1, <2>2, SMTT(60) DEF Bounded, Sessions, Items
  <1> QED BY <1>1, <1>2, <1>3 DEF Types, TypeOK

LEMMA GreetingImplies == IInv /\ Greeting => NoGuildMissed
  <1> SUFFICES ASSUME IInv, Greeting, Quiet, NEW c \in Consumers, Plain(c),
                      session[c].phase = "greeted", ~config.quickStart,
                      NEW g \in cached, Home(g) = session[c].client[1]
               PROVE  Knows(c, g)
    BY DEF NoGuildMissed
  <1>1. ~BeingStored(g)
    BY DEF Quiet, BeingStored
  <1> QED BY <1>1 DEF Greeting, Served

\* Every session, message and shard stays within what the code can make of it.
THEOREM RoutingTypeCorrect == Spec => []TypeOK
  <1>1. Init => IInv
    BY InitIInv
  <1> QED BY <1>1, NextIInv, TypesImply, PTL DEF Spec

\* An event of a guild goes to the session of the guild's shard and to no other,
\* for every configuration of shard counts.
THEOREM EventsGoHome == Spec => []GuildEventsGoHome
  <1>1. Init => IInv
    BY InitIInv
  <1>2. IInv => GuildEventsGoHome
    BY DEF IInv
  <1> QED BY <1>1, <1>2, NextIInv, PTL DEF Spec

\* A session is sent events in the order they were published in, none of them twice.
THEOREM SessionsSeeOrder == Spec => []EventsInOrder
  <1>1. Init => IInv
    BY InitIInv
  <1>2. IInv => EventsInOrder
    BY DEF IInv
  <1> QED BY <1>1, <1>2, NextIInv, PTL DEF Spec

\* What is written with an event is its metadata or that of a later event.
THEOREM MetadataNeverOlder == Spec => []MetadataIsNotOlder
  <1>1. Init => IInv
    BY InitIInv
  <1>2. IInv => MetadataIsNotOlder
    BY DEF IInv
  <1> QED BY <1>1, <1>2, NextIInv, PTL DEF Spec

\* A consumer's request about one of its guilds takes the Discord shard of that guild.
THEOREM RequestsAreRouted == Spec => []RequestsTakeRealShard
  <1>1. Init => IInv
    BY InitIInv
  <1>2. IInv => RequestsTakeRealShard
    BY RequestsImply DEF IInv
  <1> QED BY <1>1, <1>2, NextIInv, PTL DEF Spec

\* No guild falls between the initial guilds of a session and the events sent to
\* it, if consumers are sent GUILD_CREATE at all.
THEOREM NobodyMissesAGuild ==
    ASSUME "GUILD_CREATE" \notin ProduceBlacklist
    PROVE  Spec => []NoGuildMissed
  <1>1. Init => IInv /\ Greeting
    BY InitIInv
  <1>2. IInv /\ Greeting /\ [Next]_vars => (IInv /\ Greeting)'
    BY NextIInv, NextGreeting
  <1>3. IInv /\ Greeting => NoGuildMissed
    BY GreetingImplies
  <1> QED BY <1>1, <1>2, <1>3, PTL DEF Spec
=============================================================================
