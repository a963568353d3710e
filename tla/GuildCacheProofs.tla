---------------------------- MODULE GuildCacheProofs ----------------------------
(***************************************************************************)
(* The cache ejector removes no guild in use, the caches have their types, *)
(* and at rest the roles and channels are those of the guilds, for any     *)
(* managers, guilds and entities.                                          *)
(*                                                                         *)
(* A reference a manager has held since before the scan (steady) is to a   *)
(* guild that has been noted, or whose manager is still to be scanned      *)
(* (SteadyOK): when the cached guilds that were not noted are listed,      *)
(* nobody is left to scan, so it is not among them.  The ejector and the   *)
(* readers interleave in any way; only giving the reference up ends it.    *)
(*                                                                         *)
(* The types need those of what is under way: every event in an inbox is   *)
(* one Discord sends, so its handler is a sequence of operations on guilds *)
(* and entities (HandlerTyped); what a handler has read of a guild has its *)
(* types too; and a reader's hand belongs to the operation it is in, and   *)
(* is live only while the outer map has an inner one (Holds): no step of   *)
(* another takes that one out but the ejector's, which drops it (TInv).    *)
(*                                                                         *)
(* That the cache has the roles and channels of a guild at rest is about   *)
(* each entry by itself (EntryOK).  A manager may be about to store it or  *)
(* to remove it, by an event in its inbox or by the handler it is in.      *)
(* Whoever is about to do the opposite of what Discord did last does that  *)
(* after it (Local), and the cache has the entry as Discord has it, or     *)
(* somebody is about to make it so (Due).  When an entry comes or goes,    *)
(* every manager that has anything to do with the guild is sent the event  *)
(* (FlipPlain): a guild some bot has left counts only if one manager was   *)
(* ever in it.  An update writes back what it read of the guild; that      *)
(* counts in such a guild only, where nobody else removes it meanwhile     *)
(* (ReadPlain).                                                            *)
(***************************************************************************)
EXTENDS GuildCache, FiniteSetTheorems, TLAPS

Shape ==
    /\ refs = [m \in Managers |-> refs[m]]
    /\ ejector = [pc |-> ejector.pc, left |-> ejector.left, seen |-> ejector.seen,
                  victims |-> ejector.victims, stage |-> ejector.stage,
                  steady |-> ejector.steady]

SteadyOK ==
    \A p \in ejector.steady :
       /\ p = <<p[1], p[2]>> /\ p[1] \in Managers /\ p[2] \in refs[p[1]]
       /\ ejector.pc = "scan" => p[1] \in ejector.left \/ p[2] \in ejector.seen
       /\ p[2] \notin ejector.victims

IInv == Shape /\ SteadyOK

-----------------------------------------------------------------------------
LEMMA InitIInv == Init => IInv
  BY DEF Init, Idle, IInv, Shape, SteadyOK

\* The steps of readers, and of Discord, that are not about references.
LEMMA OtherReaderSteps ==
    ASSUME NEW m \in Managers,
           \/ Handle(m) \/ StoreGuild(m) \/ Increment(m) \/ Decrement(m)
           \/ StoreEmojis(m) \/ RemoveEmojis(m) \/ Load(m) \/ Store(m) \/ Drop(m)
           \/ ReadGuild(m) \/ ReadPart(m) \/ Rewrite(m) \/ Check(m) \/ Mark(m) \/ Unmark(m)
    PROVE  UNCHANGED <<refs, ejector>>
  <1>1. CASE Handle(m) \/ ReadGuild(m) \/ ReadPart(m) \/ Check(m)
    BY <1>1, Zenon DEF Handle, ReadGuild, ReadPart, Check, state
  <1>2. CASE StoreGuild(m) \/ Increment(m) \/ Decrement(m)
    BY <1>2, Zenon DEF StoreGuild, Increment, Decrement
  <1>3. CASE StoreEmojis(m) \/ RemoveEmojis(m)
    BY <1>3, Zenon DEF StoreEmojis, RemoveEmojis
  <1>4. CASE Load(m) \/ Store(m) \/ Drop(m)
    BY <1>4, Zenon DEF Load, Store, Drop, state
  <1>5. CASE Rewrite(m)
    BY <1>5, Zenon DEF Rewrite, state
  <1>6. CASE Mark(m) \/ Unmark(m)
    BY <1>6, Zenon DEF Mark, Unmark
  <1> QED BY <1>1, <1>2, <1>3, <1>4, <1>5, <1>6, Zenon

LEMMA DiscordSteps == Discord => UNCHANGED <<refs, ejector>>
  <1> SUFFICES ASSUME Discord PROVE UNCHANGED <<refs, ejector>>
    OBVIOUS
  <1>1. PICK g \in Guilds :
           \/ \E m \in Managers : Invite(m, g) \/ Kick(m, g)
           \/ \E k \in Kinds : \E e \in Entities[k] : Enter(g, k, e) \/ Leave(g, k, e) \/ Touch(g, k, e)
           \/ \E type \in DOMAIN WritesBack : Update(g, type)
    BY DEF Discord
  <1>2. CASE \E m \in Managers : Invite(m, g) \/ Kick(m, g)
    BY <1>2 DEF Invite, Kick, state
  <1>3. CASE \E k \in Kinds : \E e \in Entities[k] : Enter(g, k, e) \/ Leave(g, k, e) \/ Touch(g, k, e)
    BY <1>3 DEF Enter, Leave, Touch, state
  <1>4. CASE \E type \in DOMAIN WritesBack : Update(g, type)
    BY <1>4 DEF Update, state
  <1> QED BY <1>1, <1>2, <1>3, <1>4

LEMMA ReferenceSteps ==
    ASSUME IInv, NEW m \in Managers, Reference(m) \/ Unreference(m)
    PROVE  IInv'
  <1> DEFINE g == Head(todo[m]).guild
  <1>1. CASE Reference(m)
    <2>1. refs' = [refs EXCEPT ![m] = @ \union {g}] /\ UNCHANGED ejector
      BY <1>1 DEF Reference
    <2> HIDE DEF g
    <2> QED BY <2>1 DEF IInv, Shape, SteadyOK
  <1>2. CASE Unreference(m)
    <2>1. /\ refs' = [refs EXCEPT ![m] = @ \ {g}]
          /\ ejector' = [ejector EXCEPT !.steady = @ \ {<<m, g>>}]
      BY <1>2 DEF Unreference
    <2> HIDE DEF g
    <2>2. Shape'
      BY <2>1 DEF IInv, Shape
    <2>3. /\ ejector'.steady = ejector.steady \ {<<m, g>>}
          /\ ejector'.pc = ejector.pc /\ ejector'.left = ejector.left
          /\ ejector'.seen = ejector.seen /\ ejector'.victims = ejector.victims
      BY <2>1 DEF IInv, Shape
    <2>4. ASSUME NEW p \in ejector'.steady PROVE p[2] \in refs'[p[1]]
      <3>1. p = <<p[1], p[2]>> /\ p[1] \in Managers /\ p[2] \in refs[p[1]] /\ p # <<m, g>>
        BY <2>3, <2>4 DEF IInv, SteadyOK
      <3>2. ~(p[1] = m /\ p[2] = g)
        BY <3>1
      <3> QED BY <2>1, <3>1, <3>2 DEF IInv, Shape
    <2> QED BY <2>2, <2>3, <2>4 DEF IInv, SteadyOK
  <1> QED BY <1>1, <1>2

LEMMA EjectorSteps ==
    ASSUME IInv, Ejector
    PROVE  IInv'
  <1>1. CASE BeginEject
    <2>1. /\ UNCHANGED refs
          /\ ejector' = [pc |-> "scan", left |-> Managers, seen |-> {}, victims |-> {}, stage |-> 0,
                         steady |-> UNION {References(m) : m \in Managers}]
      BY <1>1 DEF BeginEject, Idle, state
    <2>2. ASSUME NEW p \in ejector'.steady
          PROVE  p = <<p[1], p[2]>> /\ p[1] \in Managers /\ p[2] \in refs[p[1]]
      BY <2>1, <2>2 DEF References
    <2> QED BY <2>1, <2>2 DEF IInv, Shape, SteadyOK
  <1>2. CASE ListVictims
    <2>1. /\ UNCHANGED refs /\ ejector.pc = "scan" /\ ejector.left = {}
          /\ ejector' = [ejector EXCEPT !.pc = "remove",
                            !.victims = {g \in Guilds : guilds[g] # None} \ ejector.seen]
      BY <1>2 DEF ListVictims, state
    <2> QED BY <2>1 DEF IInv, Shape, SteadyOK
  <1>3. CASE EndEject
    BY <1>3 DEF EndEject, Idle, state, IInv, Shape, SteadyOK
  <1>4. ASSUME NEW m \in Managers, Scan(m) PROVE IInv'
    <2>1. /\ UNCHANGED refs
          /\ ejector' = [ejector EXCEPT !.left = @ \ {m}, !.seen = @ \union refs[m]]
      BY <1>4 DEF Scan, state
    <2> QED BY <2>1 DEF IInv, Shape, SteadyOK
  <1>5. ASSUME NEW g \in Guilds, Remove(g) PROVE IInv'
    <2>1. /\ UNCHANGED refs /\ ejector.pc = "remove"
          /\ \/ ejector' = [ejector EXCEPT !.stage = 0, !.victims = @ \ {g}]
             \/ ejector' = [ejector EXCEPT !.stage = @ + 1]
      BY <1>5 DEF Remove
    <2> QED BY <2>1 DEF IInv, Shape, SteadyOK
  <1> QED BY <1>1, <1>2, <1>3, <1>4, <1>5 DEF Ejector

LEMMA NextIInv == IInv /\ [Next]_vars => IInv'
  <1> SUFFICES ASSUME IInv, [Next]_vars PROVE IInv'
    OBVIOUS
  <1>1. ASSUME UNCHANGED <<refs, ejector>> PROVE IInv'
    BY <1>1 DEF IInv, Shape, SteadyOK
  <1>2. CASE Discord
    BY <1>1, <1>2, DiscordSteps
  <1>3. ASSUME NEW m \in Managers, Reader(m) PROVE IInv'
    BY <1>1, <1>3, OtherReaderSteps, ReferenceSteps DEF Reader
  <1>4. CASE Ejector
    BY <1>4, EjectorSteps
  <1>5. ASSUME NEW key \in dedupe, ExpireKey(key) PROVE IInv'
    BY <1>1, <1>5 DEF ExpireKey
  <1>6. CASE UNCHANGED vars
    BY <1>1, <1>6 DEF vars, state
  <1> QED BY <1>2, <1>3, <1>4, <1>5, <1>6 DEF Next

-----------------------------------------------------------------------------
\* The ejector removes no guild that one manager has referenced since before it
\* began to look, in whatever order it comes to the managers and they change.
THEOREM EjectorSparesTheUsed == Spec => []TheUsedStay
  <1>1. Init => IInv
    BY InitIInv
  <1>2. IInv => TheUsedStay
    BY DEF IInv, SteadyOK, TheUsedStay
  <1> QED BY <1>1, <1>2, NextIInv, PTL DEF Spec

-----------------------------------------------------------------------------
(* Typing: the operations of handlers                                      *)

\* What the inner maps of a table have.
Of(k) == IF k = "mutual" THEN Guilds ELSE Entities[k]

PlainOps ==
    [do : {"ref", "unref", "emojis", "noEmojis", "readGuild", "readRoles", "readChannels",
           "readEmojis", "readMembers", "increment", "decrement"}, guild : Guilds]
CountOps == [do : {"guild"}, guild : Guilds, count : Int]
MapOps(k) ==
    [do : {"store"}, kind : {k}, key : Keys(k), entries : SUBSET Of(k)]
    \union [do : {"drop"}, kind : {k}, key : Keys(k), entries : {{e} : e \in Of(k)}]
KeyOps == [do : {"check", "mark", "unmark"}, dkey : {"add", "remove"} \X Guilds \X Users]
RewriteOps == [do : {"rewrite"}, guild : Guilds, role : (SUBSET Entities.role) \union {None}]

TableOps == UNION {MapOps(k) : k \in Tables}

Operations == PlainOps \union CountOps \union TableOps \union KeyOps \union RewriteOps

\* An operation on a two-level map.
MapOp(op) ==
    /\ op.do \in {"store", "drop"} /\ op.kind \in Tables /\ op.key \in Keys(op.kind)
    /\ op.entries \subseteq Of(op.kind)

OperationOK(op) ==
    /\ op.do \in {"store", "drop"} => MapOp(op)
    /\ op.do \notin {"store", "drop", "check", "mark", "unmark"} => op.guild \in Guilds
    /\ op.do = "guild" => op.count \in Int
    /\ op.do = "rewrite" => op.role \in (SUBSET Entities.role) \union {None}

LEMMA OperationIs ==
    ASSUME NEW op \in Operations
    PROVE  OperationOK(op)
  <1>1. CASE op \in TableOps
    <2>1. PICK k \in Tables : op \in MapOps(k)
      BY <1>1 DEF TableOps
    <2> QED BY <2>1 DEF MapOps, MapOp, OperationOK
  <1>2. CASE op \in PlainOps
    BY <1>2 DEF PlainOps, OperationOK
  <1>3. CASE op \in CountOps
    BY <1>3 DEF CountOps, OperationOK
  <1>4. CASE op \in KeyOps
    <2>1. op.do \in {"check", "mark", "unmark"}
      BY <1>4 DEF KeyOps
    <2> QED BY <2>1 DEF OperationOK
  <1>5. CASE op \in RewriteOps
    BY <1>5 DEF RewriteOps, OperationOK
  <1> QED BY <1>1, <1>2, <1>3, <1>4, <1>5 DEF Operations

LEMMA MapOpIn ==
    ASSUME NEW do \in {"store", "drop"}, NEW k \in Tables, NEW key \in Keys(k), NEW S \in SUBSET Of(k),
           do = "drop" => \E e \in Of(k) : S = {e}
    PROVE  [do |-> do, kind |-> k, key |-> key, entries |-> S] \in Operations
  <1>1. [do |-> do, kind |-> k, key |-> key, entries |-> S] \in MapOps(k)
    BY DEF MapOps
  <1> QED BY <1>1 DEF Operations, TableOps

LEMMA StoreOpsTyped ==
    ASSUME NEW k \in Tables, NEW key \in Keys(k), NEW S \in SUBSET Of(k)
    PROVE  StoreOps(k, key, S) \in Seq(Operations)
  <1>1. [do |-> "store", kind |-> k, key |-> key, entries |-> S] \in Operations
    BY MapOpIn
  <1> QED BY <1>1 DEF StoreOps

LEMMA DropOpTyped ==
    ASSUME NEW k \in Tables, NEW key \in Keys(k), NEW e \in Of(k)
    PROVE  DropOp(k, key, e) \in Operations
  <1>1. {e} \in SUBSET Of(k)
    OBVIOUS
  <1> QED BY <1>1, MapOpIn DEF DropOp

\* What a guild may be read or sent with.
Contents ==
    [role : SUBSET Entities.role, channel : SUBSET Entities.channel, member : SUBSET Entities.member]

LEMMA TableKinds ==
    /\ Of("role") = Entities.role /\ Of("channel") = Entities.channel
    /\ Of("member") = Entities.member /\ Of("mutual") = Guilds
    /\ Keys("role") = Guilds /\ Keys("channel") = Guilds /\ Keys("member") = Guilds
    /\ Keys("mutual") = Users
    /\ {"role", "channel", "member", "mutual"} \subseteq Tables
  BY DEF Of, Keys, Tables, Kinds, Entities

LEMMA SetGuildTyped ==
    ASSUME NEW g \in Guilds, NEW content, NEW count \in Int,
           content.role \subseteq Entities.role, content.channel \subseteq Entities.channel,
           content.member \subseteq Entities.member
    PROVE  SetGuild(g, content, count) \in Seq(Operations)
  <1>1. Op("ref", g) \in Operations /\ Op("emojis", g) \in Operations
    BY DEF Op, Operations, PlainOps
  <1>2. [do |-> "guild", guild |-> g, count |-> count] \in Operations
    BY DEF Operations, CountOps
  <1>3. /\ StoreOps("role", g, content.role) \in Seq(Operations)
        /\ StoreOps("channel", g, content.channel) \in Seq(Operations)
    BY StoreOpsTyped, TableKinds
  <1>4. StoreOps("member", g, Cacheable("member", content.member)) \in Seq(Operations)
    <2>1. Cacheable("member", content.member) \subseteq Entities.member
      BY DEF Cacheable
    <2> QED BY <2>1, StoreOpsTyped, TableKinds
  <1> DEFINE a == <<Op("ref", g), [do |-> "guild", guild |-> g, count |-> count]>>
             b == <<Op("emojis", g)>>
  <1>5. a \in Seq(Operations) /\ b \in Seq(Operations)
    BY <1>1, <1>2
  <1>6. SetGuild(g, content, count) =
          a \o StoreOps("role", g, content.role) \o StoreOps("channel", g, content.channel)
            \o b \o StoreOps("member", g, Cacheable("member", content.member))
    BY DEF SetGuild
  <1> HIDE DEF a, b
  <1> QED BY <1>3, <1>4, <1>5, <1>6

-----------------------------------------------------------------------------
(* Typing: the events and their handlers                                   *)

\* A guild on Discord has finitely many members, which are counted.
FullContents == {content \in Contents : IsFiniteSet(content.member)}

CreateEvents == [type : {"create"}, guild : Guilds, content : FullContents]
DeleteEvents == [type : {"delete"}, guild : Guilds]
UpdateEvents == [type : {"update", "emojis", "stickers"}, guild : Guilds, content : FullContents]
TouchEvents(k) == [type : {"touch"}, guild : Guilds, kind : {k}, entity : Entities[k]]
\* The bot's own member and the role of everyone neither enter nor leave.
MoveEvents(k) ==
    [type : {"enter", "leave"}, guild : Guilds, kind : {k},
     entity : IF k = "member" THEN Users ELSE Entities[k]]
EntityEvents == UNION {TouchEvents(k) \union MoveEvents(k) : k \in Kinds}

Events == CreateEvents \union DeleteEvents \union UpdateEvents \union EntityEvents

LEMMA PlainOpTyped ==
    ASSUME NEW g \in Guilds,
           NEW do \in {"ref", "unref", "emojis", "noEmojis", "readGuild", "readRoles", "readChannels",
                       "readEmojis", "readMembers", "increment", "decrement"}
    PROVE  Op(do, g) \in Operations
  BY DEF Op, Operations, PlainOps

LEMMA KeyOpTyped ==
    ASSUME NEW g \in Guilds, NEW u \in Users, NEW do \in {"check", "mark", "unmark"},
           NEW kind \in {"add", "remove"}
    PROVE  KeyOp(do, kind, g, u) \in Operations
  BY DEF KeyOp, Operations, KeyOps

LEMMA CacheableTyped ==
    ASSUME NEW k \in Kinds, NEW S \in SUBSET Entities[k]
    PROVE  Cacheable(k, S) \in SUBSET Of(k) /\ k \in Tables /\ Keys(k) = Guilds
  BY DEF Cacheable, Of, Kinds, Tables, Keys

LEMMA OnSetTyped ==
    ASSUME NEW g \in Guilds, NEW k \in Kinds, NEW e \in Entities[k]
    PROVE  OnSet(g, k, e) \in Seq(Operations)
  <1>1. Cacheable(k, {e}) \in SUBSET Of(k) /\ k \in Tables /\ g \in Keys(k)
    BY CacheableTyped
  <1> QED BY <1>1, StoreOpsTyped DEF OnSet

LEMMA GetGuildTyped ==
    ASSUME NEW g \in Guilds
    PROVE  GetGuild(g) \in Seq(Operations)
  <1>1. /\ Op("readGuild", g) \in Operations /\ Op("readRoles", g) \in Operations
        /\ Op("readChannels", g) \in Operations /\ Op("readEmojis", g) \in Operations
        /\ Op("readMembers", g) \in Operations
    BY PlainOpTyped
  <1> QED BY <1>1 DEF GetGuild

LEMMA MemberHandlersTyped ==
    ASSUME NEW g \in Guilds, NEW u \in Users
    PROVE  OnGuildMemberAdd(g, u) \in Seq(Operations) /\ OnGuildMemberRemove(g, u) \in Seq(Operations)
  <1>1. \A do \in {"check", "mark", "unmark"} : \A kind \in {"add", "remove"} :
           KeyOp(do, kind, g, u) \in Operations
    BY KeyOpTyped
  <1>2. Op("readGuild", g) \in Operations /\ Op("increment", g) \in Operations
        /\ Op("decrement", g) \in Operations
    BY PlainOpTyped
  <1>3. StoreOps("member", g, Cacheable("member", {u})) \in Seq(Operations)
    <2>1. {u} \subseteq Entities["member"]
      BY DEF Entities
    <2>2. Cacheable("member", {u}) \in SUBSET Of("member")
      BY <2>1, CacheableTyped DEF Kinds
    <2> QED BY <2>2, StoreOpsTyped, TableKinds
  <1>4. StoreOps("mutual", u, IF StoreMutuals THEN {g} ELSE {}) \in Seq(Operations)
    <2>1. (IF StoreMutuals THEN {g} ELSE {}) \in SUBSET Of("mutual")
      BY TableKinds
    <2> QED BY <2>1, StoreOpsTyped, TableKinds
  <1>5. DropOp("member", g, u) \in Operations /\ DropOp("mutual", u, g) \in Operations
    <2>1. u \in Of("member")
      BY TableKinds DEF Entities
    <2> QED BY <2>1, DropOpTyped, TableKinds
  <1>6. OnGuildMemberAdd(g, u) \in Seq(Operations)
    <2> DEFINE a == <<KeyOp("check", "add", g, u), KeyOp("mark", "add", g, u),
                      KeyOp("unmark", "remove", g, u), Op("readGuild", g), Op("increment", g)>>
    <2>1. a \in Seq(Operations)
      BY <1>1, <1>2
    <2>2. OnGuildMemberAdd(g, u) =
            a \o StoreOps("member", g, Cacheable("member", {u}))
              \o StoreOps("mutual", u, IF StoreMutuals THEN {g} ELSE {})
      BY DEF OnGuildMemberAdd
    <2> HIDE DEF a
    <2> QED BY <1>3, <1>4, <2>1, <2>2
  <1>7. OnGuildMemberRemove(g, u) \in Seq(Operations)
    BY <1>1, <1>2, <1>5 DEF OnGuildMemberRemove
  <1> QED BY <1>6, <1>7

LEMMA EntityHandlerTyped ==
    ASSUME NEW event \in EntityEvents
    PROVE  EntityHandler(event) \in Seq(Operations)
  <1>1. PICK k \in Kinds : event \in TouchEvents(k) \/ event \in MoveEvents(k)
    BY DEF EntityEvents
  <1>2. PICK g \in Guilds : g = event.guild
    BY <1>1 DEF TouchEvents, MoveEvents
  <1>3. PICK e \in Entities[k] : e = event.entity
    BY <1>1 DEF TouchEvents, MoveEvents, Entities
  <1>4. /\ event.kind = k /\ k \in {"role", "channel", "member"}
        /\ event.type \in {"enter", "leave", "touch"}
        /\ event.type \in {"enter", "leave"} /\ k = "member" => e \in Users
    BY <1>1, <1>3 DEF TouchEvents, MoveEvents, Kinds
  <1>5. OnSet(g, k, e) \in Seq(Operations)
    BY OnSetTyped
  <1>6. k \in {"role", "channel"} => <<DropOp(k, g, e)>> \in Seq(Operations)
    <2> HAVE k \in {"role", "channel"}
    <2>1. DropOp(k, g, e) \in Operations
      BY DropOpTyped, TableKinds
    <2> QED BY <2>1
  <1>7. e \in Users => OnGuildMemberAdd(g, e) \in Seq(Operations)
                       /\ OnGuildMemberRemove(g, e) \in Seq(Operations)
    BY MemberHandlersTyped
  <1> DEFINE type == <<event.type, event.kind>>
  <1>8. EntityHandler(event) =
          CASE type = <<"enter", "role">> -> OnGuildRoleCreate(g, e)
            [] type = <<"touch", "role">> -> OnGuildRoleUpdate(g, e)
            [] type = <<"leave", "role">> -> OnGuildRoleDelete(g, e)
            [] type = <<"enter", "channel">> -> OnChannelCreate(g, e)
            [] type = <<"touch", "channel">> -> OnChannelUpdate(g, e)
            [] type = <<"leave", "channel">> -> OnChannelDelete(g, e)
            [] type = <<"enter", "member">> -> OnGuildMemberAdd(g, e)
            [] type = <<"touch", "member">> -> OnGuildMemberUpdate(g, e)
            [] type = <<"leave", "member">> -> OnGuildMemberRemove(g, e)
    BY <1>2, <1>3, Zenon DEF EntityHandler
  <1> HIDE DEF type
  <1>9. /\ OnGuildRoleCreate(g, e) = OnSet(g, "role", e) /\ OnGuildRoleUpdate(g, e) = OnSet(g, "role", e)
        /\ OnChannelCreate(g, e) = OnSet(g, "channel", e)
        /\ OnChannelUpdate(g, e) = OnSet(g, "channel", e)
        /\ OnGuildMemberUpdate(g, e) = OnSet(g, "member", e)
        /\ OnGuildRoleDelete(g, e) = <<DropOp("role", g, e)>>
        /\ OnChannelDelete(g, e) = <<DropOp("channel", g, e)>>
    BY Zenon DEF OnGuildRoleCreate, OnGuildRoleUpdate, OnChannelCreate, OnChannelUpdate,
       OnGuildMemberUpdate, OnGuildRoleDelete, OnChannelDelete
  <1>10. type = <<event.type, k>>
    BY <1>4 DEF type
  <1> QED BY <1>4, <1>5, <1>6, <1>7, <1>8, <1>9, <1>10

LEMMA HandlerTyped ==
    ASSUME NEW event \in Events
    PROVE  Handler(event) \in Seq(Operations)
  <1>1. CASE event \in EntityEvents
    <2>1. event.type \in {"enter", "leave", "touch"}
      BY <1>1 DEF EntityEvents, TouchEvents, MoveEvents
    <2>2. Handler(event) = EntityHandler(event)
      BY <2>1 DEF Handler
    <2> QED BY <1>1, <2>2, EntityHandlerTyped
  <1>2. CASE event \in DeleteEvents
    <2>1. event.type = "delete" /\ event.guild \in Guilds
      BY <1>2 DEF DeleteEvents
    <2>2. Handler(event) = <<Op("unref", event.guild)>>
      BY <2>1 DEF Handler, OnGuildDelete
    <2> QED BY <2>1, <2>2, PlainOpTyped
  <1>3. CASE event \in CreateEvents
    <2>1. event.type = "create" /\ event.guild \in Guilds /\ event.content \in FullContents
      BY <1>3 DEF CreateEvents
    <2>2. PICK content \in FullContents : content = event.content
      BY <2>1
    <2>3. Handler(event) = SetGuild(event.guild, content, Cardinality(content.member))
      BY <2>1, <2>2 DEF Handler, OnGuildCreate
    <2>4. Cardinality(content.member) \in Int
      BY FS_CardinalityType DEF FullContents
    <2>5. content.role \subseteq Entities.role /\ content.channel \subseteq Entities.channel
          /\ content.member \subseteq Entities.member
      BY DEF FullContents, Contents
    <2> QED BY <2>1, <2>3, <2>4, <2>5, SetGuildTyped
  <1>4. CASE event \in UpdateEvents
    <2>1. PICK g \in Guilds : g = event.guild
      BY <1>4 DEF UpdateEvents
    <2>2. event.type \in {"update", "emojis", "stickers"} /\ event.content.role \in SUBSET Entities.role
      BY <1>4 DEF UpdateEvents, FullContents, Contents
    <2>3. \A S \in (SUBSET Entities.role) \union {None} :
             [do |-> "rewrite", guild |-> g, role |-> S] \in Operations
      BY DEF Operations, RewriteOps
    <2>4. GetGuild(g) \in Seq(Operations)
      BY GetGuildTyped
    <2>5. CASE event.type = "update"
      <3>1. Handler(event) = GetGuild(g) \o <<[do |-> "rewrite", guild |-> g, role |-> event.content.role]>>
        BY <2>1, <2>5 DEF Handler, OnGuildUpdate
      <3> QED BY <2>2, <2>3, <2>4, <3>1
    <2>6. CASE event.type = "stickers"
      <3>1. Handler(event) = GetGuild(g) \o <<[do |-> "rewrite", guild |-> g, role |-> None]>>
        BY <2>1, <2>6 DEF Handler, OnStickersUpdate
      <3>2. [do |-> "rewrite", guild |-> g, role |-> None] \in Operations
        BY <2>3
      <3> QED BY <2>4, <3>1, <3>2
    <2>7. CASE event.type = "emojis"
      <3>1. Handler(event) = <<Op("noEmojis", g), Op("emojis", g)>>
        BY <2>1, <2>7 DEF Handler, OnEmojisUpdate
      <3>2. Op("noEmojis", g) \in Operations /\ Op("emojis", g) \in Operations
        BY PlainOpTyped
      <3> QED BY <3>1, <3>2
    <2> QED BY <2>2, <2>5, <2>6, <2>7
  <1> QED BY <1>1, <1>2, <1>3, <1>4 DEF Events

-----------------------------------------------------------------------------
(* Typing: the invariant, and Discord's steps                              *)

Reads == [count : Int, role : SUBSET Entities.role, channel : SUBSET Entities.channel,
          member : SUBSET Entities.member]

TruthOK ==
    /\ truth = [g \in Guilds |-> truth[g]]
    /\ \A g \in Guilds : truth[g] \in FullContents /\ Self \in truth[g].member

InboxOK == inbox \in [Managers -> Seq(Events)]
TodoOK == todo \in [Managers -> Seq(Operations)]
BeforeOK == before \in [Managers -> Reads \union {None}]

CachesOK ==
    /\ refs \in [Managers -> SUBSET Guilds]
    /\ guilds \in [Guilds -> Int \union {None}]
    /\ emojis \subseteq Guilds

PartsOK ==
    /\ parts = [k \in Tables |-> parts[k]]
    /\ \A k \in Tables : parts[k] \in [Keys(k) -> (SUBSET Of(k)) \union {None}]

Holds(m) ==
    LET op == Head(todo[m]) IN
    /\ todo[m] # <<>> /\ op.do \in {"store", "drop"}
    /\ hand[m].entry \in op.entries /\ hand[m].map \in {"absent", "live", "dropped"}
    /\ hand[m].map = "live" => parts[op.kind][op.key] # None

HandOK ==
    /\ hand = [m \in Managers |-> [map |-> hand[m].map, entry |-> hand[m].entry]]
    /\ \A m \in Managers : hand[m] # NoHand => Holds(m)

StageOK == ejector.stage \in 0..4

TInv == TruthOK /\ InboxOK /\ TodoOK /\ BeforeOK /\ CachesOK /\ PartsOK /\ HandOK /\ StageOK

LEMMA InitTInv == Init => TInv
  <1> SUFFICES ASSUME Init PROVE TInv
    OBVIOUS
  <1>1. TruthOK
    <2>1. Basic \in FullContents /\ Self \in Basic.member
      <3>1. IsFiniteSet({Self})
        BY FS_Singleton
      <3> QED BY <3>1 DEF Basic, FullContents, Contents, Entities
    <2> QED BY <2>1 DEF Init, TruthOK
  <1>2. InboxOK /\ TodoOK /\ BeforeOK
    BY DEF Init, InboxOK, TodoOK, BeforeOK
  <1>3. CachesOK
    BY DEF Init, CachesOK
  <1>4. PartsOK
    <2>1. parts = [k \in Tables |-> [key \in Keys(k) |->
             IF k \in {"role", "member"} /\ bots[key] # {} THEN Basic[k] ELSE None]]
      BY DEF Init
    <2>2. \A k \in {"role", "member"} : Basic[k] \in SUBSET Of(k)
      BY TableKinds DEF Basic, Entities
    <2> QED BY <2>1, <2>2 DEF PartsOK
  <1>5. HandOK
    BY DEF Init, HandOK, NoHand
  <1>6. StageOK
    BY DEF Init, Idle, StageOK
  <1> QED BY <1>1, <1>2, <1>3, <1>4, <1>5, <1>6 DEF TInv

\* What is left as it was keeps its type.
LEMMA SameStages ==
    ASSUME TInv, UNCHANGED <<todo, hand, before, state, ejector>>
    PROVE  TodoOK' /\ BeforeOK' /\ CachesOK' /\ PartsOK' /\ HandOK' /\ StageOK'
  BY DEF TInv, TodoOK, BeforeOK, CachesOK, PartsOK, HandOK, Holds, StageOK, state

LEMMA SendTyped ==
    ASSUME InboxOK, NEW g \in Guilds, NEW event \in Events, Send(g, event)
    PROVE  InboxOK'
  BY DEF InboxOK, Send

LEMMA ChangeTyped ==
    ASSUME TInv, NEW g \in Guilds, NEW k \in Kinds, NEW e \in Entities[k],
           Enter(g, k, e) \/ Leave(g, k, e) \/ Touch(g, k, e)
    PROVE  TruthOK' /\ InboxOK'
  <1>1. /\ truth = [x \in Guilds |-> truth[x]] /\ InboxOK
        /\ truth[g].role \in SUBSET Entities.role /\ truth[g].channel \in SUBSET Entities.channel
        /\ truth[g].member \in SUBSET Entities.member /\ IsFiniteSet(truth[g].member)
        /\ truth[g] \in Contents
        /\ Self \in truth[g].member
    BY DEF TInv, TruthOK, FullContents, Contents
  <1>2. k \in {"role", "channel", "member"}
    BY DEF Kinds
  <1>3. ASSUME NEW S \in SUBSET Entities[k], Self \in S \/ k # "member", IsFiniteSet(S) \/ k # "member",
               truth' = [truth EXCEPT ![g][k] = S]
        PROVE  TruthOK'
    <2>1. [truth[g] EXCEPT ![k] = S] \in Contents
      <3>1. CASE k = "role" BY <1>1, <1>3, <3>1 DEF Contents
      <3>2. CASE k = "channel" BY <1>1, <1>3, <3>2 DEF Contents
      <3>3. CASE k = "member" BY <1>1, <1>3, <3>3 DEF Contents
      <3> QED BY <1>2, <3>1, <3>2, <3>3
    <2>2. [truth[g] EXCEPT ![k] = S].member = IF k = "member" THEN S ELSE truth[g].member
      BY <1>1, <1>2 DEF Contents
    <2>3. [truth[g] EXCEPT ![k] = S] \in FullContents /\ Self \in [truth[g] EXCEPT ![k] = S].member
      BY <1>1, <1>3, <2>1, <2>2 DEF FullContents
    <2>4. truth' = [truth EXCEPT ![g] = [truth[g] EXCEPT ![k] = S]]
      BY <1>1, <1>3
    <2> QED BY <1>1, <2>3, <2>4 DEF TInv, TruthOK
  <1>4. truth[g][k] \in SUBSET Entities[k] /\ (k = "member" => truth[g][k] = truth[g].member)
    <2>1. CASE k = "role" BY <1>1, <2>1
    <2>2. CASE k = "channel" BY <1>1, <2>2
    <2>3. CASE k = "member" BY <1>1, <2>3
    <2> QED BY <1>2, <2>1, <2>2, <2>3
  <1>5. ASSUME NEW type \in {"enter", "leave"}, k = "member" => e \in Users
        PROVE  [type |-> type, guild |-> g, kind |-> k, entity |-> e] \in Events
    BY <1>5 DEF Events, EntityEvents, MoveEvents
  <1>6. CASE Enter(g, k, e)
    <2>1. /\ e \notin truth[g][k] /\ truth' = [truth EXCEPT ![g][k] = truth[g][k] \union {e}]
          /\ Send(g, [type |-> "enter", guild |-> g, kind |-> k, entity |-> e])
      BY <1>1, <1>6 DEF Enter
    <2>2. k = "member" => e \in Users
      BY <1>1, <1>4, <2>1 DEF Entities
    <2>3. InboxOK'
      BY <1>1, <1>5, <2>1, <2>2, SendTyped
    <2>4. k = "member" => IsFiniteSet(truth[g][k] \union {e})
      BY <1>1, <1>4, FS_AddElement
    <2>5. (truth[g][k] \union {e}) \in SUBSET Entities[k]
          /\ (k = "member" => Self \in truth[g][k] \union {e})
      BY <1>1, <1>4, <2>1
    <2>6. TruthOK'
      BY <1>3, <2>1, <2>4, <2>5
    <2> QED BY <2>3, <2>6
  <1>7. CASE Leave(g, k, e)
    <2>1. /\ e \in truth[g][k] /\ e # Self /\ truth' = [truth EXCEPT ![g][k] = truth[g][k] \ {e}]
          /\ Send(g, [type |-> "leave", guild |-> g, kind |-> k, entity |-> e])
      BY <1>1, <1>7 DEF Leave
    <2>2. k = "member" => e \in Users
      BY <2>1 DEF Entities
    <2>3. InboxOK'
      BY <1>1, <1>5, <2>1, <2>2, SendTyped
    <2>4. k = "member" => IsFiniteSet(truth[g][k] \ {e})
      BY <1>1, <1>4, FS_RemoveElement
    <2>5. (truth[g][k] \ {e}) \in SUBSET Entities[k] /\ (k = "member" => Self \in truth[g][k] \ {e})
      BY <1>1, <1>4, <2>1
    <2>6. TruthOK'
      BY <1>3, <2>1, <2>4, <2>5
    <2> QED BY <2>3, <2>6
  <1>8. CASE Touch(g, k, e)
    <2>1. /\ UNCHANGED truth
          /\ Send(g, [type |-> "touch", guild |-> g, kind |-> k, entity |-> e])
      BY <1>8 DEF Touch
    <2>2. [type |-> "touch", guild |-> g, kind |-> k, entity |-> e] \in Events
      BY DEF Events, EntityEvents, TouchEvents
    <2> QED BY <1>1, <2>1, <2>2, SendTyped DEF TInv, TruthOK
  <1> QED BY <1>6, <1>7, <1>8

LEMMA DiscordTyped ==
    ASSUME TInv, Discord
    PROVE  TInv'
  <1>1. ASSUME TruthOK', InboxOK', UNCHANGED <<todo, hand, before, state, ejector>>
        PROVE  TInv'
    BY <1>1, SameStages DEF TInv
  <1>2. PICK g \in Guilds :
           \/ \E m \in Managers : Invite(m, g) \/ Kick(m, g)
           \/ \E k \in Kinds : \E e \in Entities[k] : Enter(g, k, e) \/ Leave(g, k, e) \/ Touch(g, k, e)
           \/ \E type \in DOMAIN WritesBack : Update(g, type)
    BY DEF Discord
  <1>3. truth[g] \in FullContents /\ inbox \in [Managers -> Seq(Events)]
    BY DEF TInv, TruthOK, InboxOK
  <1>4. ASSUME NEW m \in Managers, Invite(m, g) \/ Kick(m, g)
        PROVE  TInv'
    <2>1. /\ [type |-> "create", guild |-> g, content |-> truth[g]] \in Events
          /\ [type |-> "delete", guild |-> g] \in Events
      BY <1>3 DEF Events, CreateEvents, DeleteEvents
    <2>2. PICK event \in Events : inbox' = [inbox EXCEPT ![m] = Append(@, event)]
      BY <1>4, <2>1 DEF Invite, Kick
    <2>3. InboxOK'
      BY <1>3, <2>2 DEF InboxOK
    <2>4. UNCHANGED <<truth, todo, hand, before, state, ejector>>
      BY <1>4, Zenon DEF Invite, Kick, world
    <2>5. TruthOK'
      BY <2>4 DEF TInv, TruthOK
    <2> QED BY <1>1, <2>3, <2>4, <2>5
  <1>5. ASSUME NEW k \in Kinds, NEW e \in Entities[k], Enter(g, k, e) \/ Leave(g, k, e) \/ Touch(g, k, e)
        PROVE  TInv'
    <2>1. TruthOK' /\ InboxOK'
      BY <1>5, ChangeTyped
    <2>2. UNCHANGED <<todo, hand, before, state, ejector>>
      BY <1>5, Zenon DEF Enter, Leave, Touch
    <2> QED BY <1>1, <2>1, <2>2
  <1>6. ASSUME NEW type \in DOMAIN WritesBack, Update(g, type)
        PROVE  TInv'
    <2>1. type \in {"update", "emojis", "stickers"}
      BY DEF WritesBack
    <2>2. [type |-> type, guild |-> g, content |-> truth[g]] \in Events
      BY <1>3, <2>1 DEF Events, UpdateEvents
    <2>3. /\ Send(g, [type |-> type, guild |-> g, content |-> truth[g]])
          /\ UNCHANGED <<truth, todo, hand, before, state, ejector>>
      BY <1>6, Zenon DEF Update
    <2>4. InboxOK'
      BY <2>2, <2>3, SendTyped DEF TInv
    <2>5. TruthOK'
      BY <2>3 DEF TInv, TruthOK
    <2> QED BY <1>1, <2>3, <2>4, <2>5
  <1> QED BY <1>2, <1>4, <1>5, <1>6

-----------------------------------------------------------------------------
(* Typing: the readers' steps                                              *)

\* A reader goes on to the next operation of its handler.
LEMMA NextTyped ==
    ASSUME TInv, NEW m \in Managers, todo[m] # <<>>
    PROVE  /\ Head(todo[m]) \in Operations /\ OperationOK(Head(todo[m]))
           /\ Tail(todo[m]) \in Seq(Operations)
  <1>1. todo[m] \in Seq(Operations)
    BY DEF TInv, TodoOK
  <1>2. Head(todo[m]) \in Operations /\ Tail(todo[m]) \in Seq(Operations)
    BY <1>1
  <1> QED BY <1>2, OperationIs

\* Whoever has nothing in hand may do something else next.
LEMMA OtherTodo ==
    ASSUME TInv, NEW m \in Managers, hand[m] = NoHand, NEW s \in Seq(Operations),
           todo' = [todo EXCEPT ![m] = s], UNCHANGED <<hand, parts>>
    PROVE  TodoOK' /\ HandOK' /\ PartsOK'
  <1>1. todo \in [Managers -> Seq(Operations)] /\ HandOK /\ PartsOK
    BY DEF TInv, TodoOK
  <1>2. TodoOK'
    BY <1>1 DEF TodoOK
  <1>3. HandOK'
    <2>1. \A n \in Managers : hand[n] # NoHand => n # m /\ Holds(n)
      BY <1>1 DEF HandOK
    <2>2. \A n \in Managers : n # m => todo'[n] = todo[n]
      BY <1>1
    <2> QED BY <1>1, <2>1, <2>2 DEF HandOK, Holds
  <1> QED BY <1>1, <1>2, <1>3 DEF PartsOK

LEMMA Elsewhere ==
    ASSUME TInv, NEW m \in Managers, todo[m] # <<>> => Head(todo[m]).do \notin {"store", "drop"}
    PROVE  hand[m] = NoHand
  BY DEF TInv, HandOK, Holds

\* The operations on the shared maps of one level.
LEMMA PlainTyped ==
    ASSUME TInv, NEW m \in Managers,
           \/ Reference(m) \/ Unreference(m) \/ StoreGuild(m) \/ Increment(m) \/ Decrement(m)
           \/ StoreEmojis(m) \/ RemoveEmojis(m) \/ Mark(m) \/ Unmark(m)
    PROVE  TInv'
  <1> DEFINE op == Head(todo[m])
  <1>1. /\ todo[m] # <<>> /\ Next1(m)
        /\ op.do \in {"ref", "unref", "guild", "increment", "decrement", "emojis", "noEmojis",
                      "mark", "unmark"}
    BY DEF Reference, Unreference, StoreGuild, Increment, Decrement, StoreEmojis, RemoveEmojis,
       Mark, Unmark, Doing
  <1>2. op \in Operations /\ OperationOK(op) /\ Tail(todo[m]) \in Seq(Operations)
    BY <1>1, NextTyped
  <1>3. UNCHANGED <<truth, inbox, hand, parts>>
    <2>1. CASE Reference(m) \/ Unreference(m)
      BY <2>1, Zenon DEF Reference, Unreference, world
    <2>2. CASE StoreGuild(m) \/ Increment(m) \/ Decrement(m)
      BY <2>2, Zenon DEF StoreGuild, Increment, Decrement, world
    <2>3. CASE StoreEmojis(m) \/ RemoveEmojis(m)
      BY <2>3, Zenon DEF StoreEmojis, RemoveEmojis, world
    <2>4. CASE Mark(m) \/ Unmark(m)
      BY <2>4, Zenon DEF Mark, Unmark, world
    <2> QED BY <2>1, <2>2, <2>3, <2>4, Zenon
  <1>4. TodoOK' /\ HandOK' /\ PartsOK'
    <2>1. hand[m] = NoHand
      BY <1>1, Elsewhere
    <2> QED BY <1>1, <1>2, <1>3, <2>1, OtherTodo DEF Next1
  <1>5. TruthOK' /\ InboxOK'
    BY <1>3 DEF TInv, TruthOK, InboxOK
  <1>6. /\ refs \in [Managers -> SUBSET Guilds] /\ guilds \in [Guilds -> Int \union {None}]
        /\ emojis \subseteq Guilds /\ before \in [Managers -> Reads \union {None}]
        /\ ejector.stage \in 0..4
    BY DEF TInv, CachesOK, BeforeOK, StageOK
  <1>7. op.do \notin {"mark", "unmark"} => op.guild \in Guilds
    BY <1>1, <1>2 DEF OperationOK
  <1>8. before[m] # None => before[m].count \in Int
    BY <1>6 DEF Reads
  <1>9. BeforeOK' /\ CachesOK' /\ StageOK'
    <2>1. CASE Reference(m) \/ StoreEmojis(m) \/ RemoveEmojis(m) \/ Mark(m) \/ Unmark(m)
      <3>1. UNCHANGED <<before, ejector, guilds>>
        BY <2>1, Zenon DEF Reference, StoreEmojis, RemoveEmojis, Mark, Unmark
      <3>2. refs' \in [Managers -> SUBSET Guilds] /\ emojis' \subseteq Guilds
        BY <1>6, <1>7, <2>1 DEF Reference, StoreEmojis, RemoveEmojis, Mark, Unmark, Doing
      <3> QED BY <1>6, <3>1, <3>2 DEF BeforeOK, CachesOK, StageOK
    <2>2. CASE Unreference(m)
      <3>1. /\ refs' = [refs EXCEPT ![m] = @ \ {op.guild}] /\ UNCHANGED <<before, guilds, emojis>>
            /\ ejector' = [ejector EXCEPT !.steady = @ \ {<<m, op.guild>>}]
        BY <2>2 DEF Unreference
      <3>2. refs' \in [Managers -> SUBSET Guilds]
        BY <1>6, <3>1
      <3>3. ejector'.stage = ejector.stage
        BY <3>1
      <3> QED BY <1>6, <3>1, <3>2, <3>3 DEF BeforeOK, CachesOK, StageOK
    <2>3. CASE StoreGuild(m)
      <3>1. guilds' = [guilds EXCEPT ![op.guild] = op.count] /\ UNCHANGED <<before, refs, emojis, ejector>>
        BY <2>3 DEF StoreGuild
      <3>2. op.count \in Int
        BY <1>2, <2>3 DEF StoreGuild, Doing, OperationOK
      <3> QED BY <1>6, <3>1, <3>2 DEF BeforeOK, CachesOK, StageOK
    <2>4. CASE Increment(m) \/ Decrement(m)
      <3>1. /\ \/ guilds' = guilds
               \/ /\ before[m] # None
                  /\ guilds' = [guilds EXCEPT ![op.guild] = before[m].count + 1]
               \/ /\ before[m] # None
                  /\ guilds' = [guilds EXCEPT ![op.guild] = before[m].count - 1]
            /\ before' = [before EXCEPT ![m] = None]
            /\ UNCHANGED <<refs, emojis, ejector>>
        BY <2>4 DEF Increment, Decrement
      <3> HIDE DEF op
      <3>2. guilds' \in [Guilds -> Int \union {None}]
        BY <1>6, <1>8, <3>1
      <3>3. before' \in [Managers -> Reads \union {None}]
        BY <1>6, <3>1
      <3> QED BY <1>6, <3>1, <3>2, <3>3 DEF BeforeOK, CachesOK, StageOK
    <2> QED BY <2>1, <2>2, <2>3, <2>4
  <1> QED BY <1>4, <1>5, <1>9 DEF TInv

\* What GetGuild reads, and what the handler goes on with.
LEMMA ReadTyped ==
    ASSUME TInv, NEW m \in Managers, ReadGuild(m) \/ ReadPart(m) \/ Rewrite(m) \/ Check(m) \/ Handle(m)
    PROVE  TInv'
  <1> DEFINE op == Head(todo[m])
  <1>1. UNCHANGED <<truth, hand, state, ejector>>
    BY Zenon DEF ReadGuild, ReadPart, Rewrite, Check, Handle, world
  <1>2. TruthOK' /\ CachesOK' /\ StageOK'
    BY <1>1 DEF TInv, TruthOK, CachesOK, StageOK, state
  <1>3. /\ inbox \in [Managers -> Seq(Events)] /\ before \in [Managers -> Reads \union {None}]
        /\ todo[m] \in Seq(Operations) /\ todo \in [Managers -> Seq(Operations)]
        /\ guilds \in [Guilds -> Int \union {None}]
        /\ \A k \in Tables : parts[k] \in [Keys(k) -> (SUBSET Of(k)) \union {None}]
    BY DEF TInv, InboxOK, BeforeOK, TodoOK, CachesOK, PartsOK
  <1>4. ASSUME NEW s \in Seq(Operations), todo' = [todo EXCEPT ![m] = s], hand[m] = NoHand,
               InboxOK', BeforeOK'
        PROVE  TInv'
    <2>1. UNCHANGED <<hand, parts>>
      BY <1>1 DEF state
    <2>2. TodoOK' /\ HandOK' /\ PartsOK'
      BY <1>4, <2>1, OtherTodo
    <2> QED BY <1>2, <1>4, <2>2 DEF TInv
  <1>5. CASE Handle(m)
    <2>1. /\ todo[m] = <<>> /\ inbox[m] # <<>>
          /\ todo' = [todo EXCEPT ![m] = Handler(Head(inbox[m]))]
          /\ inbox' = [inbox EXCEPT ![m] = Tail(inbox[m])] /\ UNCHANGED before
      BY <1>5, <1>3 DEF Handle
    <2>2. inbox[m] \in Seq(Events)
      BY <1>3
    <2>3. Head(inbox[m]) \in Events /\ Tail(inbox[m]) \in Seq(Events)
      BY <2>1, <2>2
    <2>4. Handler(Head(inbox[m])) \in Seq(Operations)
      BY <2>3, HandlerTyped
    <2>5. InboxOK' /\ BeforeOK'
      BY <1>3, <2>1, <2>3, SMTT(60) DEF InboxOK, BeforeOK
    <2> QED BY <1>4, <2>1, <2>4, <2>5, Elsewhere
  <1>6. CASE ~Handle(m)
    <2>1. todo[m] # <<>> /\ inbox' = inbox /\ op.do \notin {"store", "drop"}
      BY <1>6 DEF ReadGuild, ReadPart, Rewrite, Check, Doing, PartOf
    <2>2. op \in Operations /\ OperationOK(op) /\ Tail(todo[m]) \in Seq(Operations)
      BY <2>1, NextTyped
    <2>3. hand[m] = NoHand /\ InboxOK'
      BY <1>3, <2>1, Elsewhere DEF InboxOK
    <2>4. CASE ReadGuild(m)
      <3>1. PICK g \in Guilds : g = op.guild
        BY <2>2, <2>4 DEF ReadGuild, Doing, OperationOK
      <3>2. before' = [before EXCEPT ![m] = IF guilds[g] = None THEN None
                       ELSE [count |-> guilds[g], role |-> {}, channel |-> {}, member |-> {}]]
        BY <2>4, <3>1 DEF ReadGuild
      <3>3. (IF guilds[g] = None THEN None
             ELSE [count |-> guilds[g], role |-> {}, channel |-> {}, member |-> {}])
              \in Reads \union {None}
        BY <1>3 DEF Reads
      <3>4. BeforeOK'
        BY <1>3, <3>2, <3>3, SMTT(60) DEF BeforeOK
      <3> QED BY <1>4, <2>2, <2>3, <2>4, <3>4 DEF ReadGuild, Next1
    <2>5. CASE ReadPart(m)
      <3>1. op.do \in {"readRoles", "readChannels", "readMembers", "readEmojis"} /\ op.guild \in Guilds
        BY <2>2, <2>5 DEF ReadPart, PartOf, OperationOK
      <3>2. PICK k : k = PartOf[op.do]
        OBVIOUS
      <3>3. op.do # "readEmojis" => k \in Kinds /\ k \in Tables /\ op.guild \in Keys(k) /\ Of(k) = Entities[k]
        BY <3>1, <3>2, TableKinds DEF PartOf, Kinds
      <3>4. PICK S : S = parts[k][op.guild]
        BY ZenonT(60)
      <3>5. \/ before' = [before EXCEPT ![m] = None]
            \/ before' = before
            \/ /\ before[m] # None /\ op.do # "readEmojis" /\ S # None
               /\ before' = [before EXCEPT ![m][k] = S]
        BY <2>5, <3>2, <3>4, ZenonT(60) DEF ReadPart
      <3>6. BeforeOK'
        <4>1. CASE before[m] # None /\ op.do # "readEmojis" /\ S # None
                   /\ before' = [before EXCEPT ![m][k] = S]
          <5>1. S \in SUBSET Entities[k] /\ k \in {"role", "channel", "member"}
            BY <1>3, <3>3, <3>4, <4>1 DEF Kinds
          <5>2. before[m] \in Reads
            BY <1>3, <4>1
          <5>3. [before[m] EXCEPT ![k] = S] \in Reads
            <6>1. CASE k = "role" BY <5>1, <5>2, <6>1 DEF Reads
            <6>2. CASE k = "channel" BY <5>1, <5>2, <6>2 DEF Reads
            <6>3. CASE k = "member" BY <5>1, <5>2, <6>3 DEF Reads
            <6> QED BY <5>1, <6>1, <6>2, <6>3
          <5>4. before' = [before EXCEPT ![m] = [before[m] EXCEPT ![k] = S]]
            BY <1>3, <4>1
          <5> QED BY <1>3, <5>3, <5>4 DEF BeforeOK
        <4>2. CASE before' = [before EXCEPT ![m] = None] \/ before' = before
          BY <1>3, <4>2 DEF BeforeOK
        <4> QED BY <3>5, <4>1, <4>2
      <3> QED BY <1>4, <2>2, <2>3, <2>5, <3>6 DEF ReadPart, Next1
    <2>6. CASE Rewrite(m)
      <3>1. PICK g \in Guilds : g = op.guild
        BY <2>2, <2>6 DEF Rewrite, Doing, OperationOK
      <3>2. PICK roles \in (SUBSET Entities.role) \union {None} : roles = op.role
        BY <2>2, <2>6 DEF Rewrite, Doing, OperationOK
      <3>3. PICK old \in Reads \union {None} : old = before[m]
        BY <1>3
      <3> DEFINE bare == [role |-> roles, channel |-> {}, member |-> {}]
                 full == IF roles = None THEN old ELSE [old EXCEPT !.role = roles]
                 s == IF old # None THEN SetGuild(g, full, old.count)
                      ELSE IF roles = None THEN <<>> ELSE SetGuild(g, bare, 0)
      <3>4. todo' = [todo EXCEPT ![m] = s] /\ before' = [before EXCEPT ![m] = None]
        BY <2>6, <3>1, <3>2, <3>3 DEF Rewrite
      <3>5. s \in Seq(Operations)
        <4>1. CASE old # None
          <5>1. /\ full.role \subseteq Entities.role /\ full.channel \subseteq Entities.channel
                /\ full.member \subseteq Entities.member /\ old.count \in Int
            BY <4>1 DEF Reads
          <5> HIDE DEF full
          <5> QED BY <4>1, <5>1, SetGuildTyped
        <4>2. CASE old = None /\ roles # None
          <5>1. /\ bare.role \subseteq Entities.role /\ bare.channel \subseteq Entities.channel
                /\ bare.member \subseteq Entities.member
            BY <4>2
          <5> HIDE DEF bare
          <5> QED BY <4>2, <5>1, SetGuildTyped
        <4> QED BY <4>1, <4>2
      <3>6. BeforeOK'
        BY <1>3, <3>4 DEF BeforeOK
      <3> HIDE DEF s
      <3> QED BY <1>4, <2>3, <3>4, <3>5, <3>6
    <2>7. CASE Check(m)
      <3>1. PICK s \in Seq(Operations) : todo' = [todo EXCEPT ![m] = s]
        <4>1. todo' = [todo EXCEPT ![m] = IF Head(todo[m]).dkey \in dedupe THEN <<>> ELSE Tail(todo[m])]
          BY <1>3, <2>7 DEF Check
        <4>2. <<>> \in Seq(Operations)
          OBVIOUS
        <4> QED BY <2>2, <4>1, <4>2
      <3>2. BeforeOK'
        BY <1>3, <2>7 DEF Check, BeforeOK
      <3> QED BY <1>4, <2>3, <3>1, <3>2
    <2> QED BY <1>6, <2>4, <2>5, <2>6, <2>7, SMTT(60)
  <1> QED BY <1>5, <1>6

-----------------------------------------------------------------------------
(* Typing: the two-level maps and the ejector                              *)

LEMMA OfSome ==
    ASSUME NEW k \in Tables, NEW S \in SUBSET Of(k)
    PROVE  S # None
  <1>1. S \in SUBSET (Roles \union Channels \union Users \union Guilds \union {Everyone, Self})
    BY DEF Of, Entities, Tables, Kinds
  <1> QED BY <1>1, ConstantsAssumption

\* One inner map changes, or none.
LEMMA PartsChange ==
    ASSUME PartsOK, NEW k \in Tables, NEW key \in Keys(k),
           NEW S \in (SUBSET Of(k)) \union {None}, parts' = [parts EXCEPT ![k][key] = S]
    PROVE  /\ PartsOK'
           /\ \A x \in Tables : \A y \in Keys(x) :
                 parts'[x][y] = IF x = k /\ y = key THEN S ELSE parts[x][y]
  <1>1. /\ parts = [x \in Tables |-> parts[x]]
        /\ \A x \in Tables : parts[x] \in [Keys(x) -> (SUBSET Of(x)) \union {None}]
    BY DEF PartsOK
  <1>2. parts' = [parts EXCEPT ![k] = [parts[k] EXCEPT ![key] = S]]
    BY <1>1
  <1>3. [parts[k] EXCEPT ![key] = S] \in [Keys(k) -> (SUBSET Of(k)) \union {None}]
    BY <1>1
  <1>4. \A x \in Tables : parts'[x] = IF x = k THEN [parts[k] EXCEPT ![key] = S] ELSE parts[x]
    BY <1>1, <1>2
  <1>5. PartsOK'
    <2>1. parts' = [x \in Tables |-> parts'[x]]
      BY <1>1, <1>2
    <2>2. \A x \in Tables : parts'[x] \in [Keys(x) -> (SUBSET Of(x)) \union {None}]
      BY <1>1, <1>3, <1>4
    <2> QED BY <2>1, <2>2 DEF PartsOK
  <1>6. \A x \in Tables : \A y \in Keys(x) :
           parts'[x][y] = IF x = k /\ y = key THEN S ELSE parts[x][y]
    BY <1>1, <1>4
  <1> QED BY <1>5, <1>6

\* What a reader holds is of the operation it is in.
LEMMA HoldsTyped ==
    ASSUME TInv, NEW m \in Managers, hand[m] # NoHand
    PROVE  MapOp(Head(todo[m])) /\ hand[m].entry \in Head(todo[m]).entries /\ todo[m] # <<>>
           /\ Head(todo[m]).do \in {"store", "drop"}
  <1>1. Holds(m)
    BY DEF TInv, HandOK
  <1>2. todo[m] # <<>> /\ hand[m].entry \in Head(todo[m]).entries
        /\ Head(todo[m]).do \in {"store", "drop"}
    BY <1>1 DEF Holds
  <1>3. MapOp(Head(todo[m]))
    BY <1>2, NextTyped DEF OperationOK
  <1> QED BY <1>2, <1>3

LEMMA LoadTyped ==
    ASSUME TInv, NEW m \in Managers, Load(m)
    PROVE  TInv'
  <1>1. /\ todo[m] # <<>> /\ Head(todo[m]).do \in {"store", "drop"} /\ hand[m] = NoHand
        /\ UNCHANGED <<truth, inbox, todo, before, refs, guilds, emojis, parts, ejector>>
    BY DEF Load, Doing, world, state
  <1>2. PICK e \in Head(todo[m]).entries :
           hand' = [hand EXCEPT ![m] =
              [map |-> LoadInner(Head(todo[m]).kind, Head(todo[m]).key), entry |-> e]]
    BY DEF Load
  <1>3. PICK map : map = LoadInner(Head(todo[m]).kind, Head(todo[m]).key)
    OBVIOUS
  <1>4. /\ map = "live" => parts[Head(todo[m]).kind][Head(todo[m]).key] # None
        /\ map \in {"absent", "live", "dropped"}
    BY <1>3 DEF LoadInner
  <1>5. HandOK /\ hand' = [hand EXCEPT ![m] = [map |-> map, entry |-> e]]
    BY <1>2, <1>3 DEF TInv
  <1>6. HandOK'
    <2>1. hand' = [n \in Managers |-> [map |-> hand'[n].map, entry |-> hand'[n].entry]]
      BY <1>5 DEF HandOK
    <2>2. ASSUME NEW n \in Managers, hand'[n] # NoHand PROVE Holds(n)'
      <3>1. CASE n = m
        <4>1. hand'[n].map = map /\ hand'[n].entry = e
          BY <1>5, <3>1 DEF HandOK
        <4> QED BY <1>1, <1>4, <3>1, <4>1 DEF Holds
      <3>2. CASE n # m
        <4>1. hand'[n] = hand[n]
          BY <1>5, <3>2 DEF HandOK
        <4>2. Holds(n)
          BY <1>5, <2>2, <4>1 DEF HandOK
        <4> QED BY <1>1, <4>1, <4>2 DEF Holds
      <3> QED BY <3>1, <3>2
    <2> QED BY <2>1, <2>2 DEF HandOK
  <1> QED BY <1>1, <1>6 DEF TInv, TruthOK, InboxOK, TodoOK, BeforeOK, CachesOK, PartsOK, StageOK

\* Who changes an inner map takes out none that another holds.
LEMMA ChangeMapTyped ==
    ASSUME TInv, NEW m \in Managers, Store(m) \/ Drop(m)
    PROVE  TInv'
  <1>1. /\ hand[m] # NoHand /\ hand' = [hand EXCEPT ![m] = NoHand]
        /\ UNCHANGED <<truth, inbox, before, refs, guilds, emojis, ejector>>
    <2>1. CASE Store(m)
      BY <2>1, Zenon DEF Store, world
    <2>2. CASE Drop(m)
      BY <2>2, Zenon DEF Drop, world
    <2> QED BY <2>1, <2>2
  <1>2. PICK op : op = Head(todo[m])
    OBVIOUS
  <1>3. PICK k, key, e, map : k = op.kind /\ key = op.key /\ e = hand[m].entry /\ map = hand[m].map
    OBVIOUS
  <1>4. /\ k \in Tables /\ key \in Keys(k) /\ op.entries \subseteq Of(k) /\ e \in Of(k)
        /\ todo[m] # <<>> /\ op.do \in {"store", "drop"}
    BY <1>1, <1>2, <1>3, HoldsTyped DEF MapOp
  <1>5. Holds(m) /\ todo \in [Managers -> Seq(Operations)] /\ Tail(todo[m]) \in Seq(Operations)
    BY <1>1, <1>4, NextTyped DEF TInv, HandOK, TodoOK
  <1>6. PartsOK /\ HandOK /\ parts[k][key] \in (SUBSET Of(k)) \union {None}
    BY <1>4 DEF TInv, PartsOK
  <1>7. map = "live" => parts[k][key] \in SUBSET Of(k)
    BY <1>2, <1>3, <1>5, <1>6 DEF Holds
  <1>8. \/ parts' = parts
        \/ \E S \in SUBSET Of(k) : parts' = [parts EXCEPT ![k][key] = S]
    <2>1. CASE Store(m)
      <3>1. parts' = StoreInner(k, key, map, e)
        BY <1>2, <1>3, <2>1, Zenon DEF Store
      <3>2. CASE map = "live"
        <4>1. parts' = [parts EXCEPT ![k][key] = parts[k][key] \union {e}]
          BY <1>4, <1>6, <3>1, <3>2 DEF StoreInner, PartsOK
        <4> QED BY <1>4, <1>7, <3>2, <4>1
      <3>3. CASE map # "live"
        <4>1. parts' = parts \/ parts' = [parts EXCEPT ![k][key] = {e}]
          BY <3>1, <3>3 DEF StoreInner
        <4> QED BY <1>4, <4>1
      <3> QED BY <3>2, <3>3
    <2>2. CASE Drop(m)
      <3>1. parts' = DeleteInner(k, key, map, e)
        BY <1>2, <1>3, <2>2, Zenon DEF Drop
      <3>2. CASE map = "live"
        <4>1. parts' = [parts EXCEPT ![k][key] = parts[k][key] \ {e}]
          BY <1>4, <1>6, <3>1, <3>2 DEF DeleteInner, PartsOK
        <4> QED BY <1>7, <3>2, <4>1
      <3>3. CASE map # "live"
        BY <3>1, <3>3 DEF DeleteInner
      <3> QED BY <3>2, <3>3
    <2> QED BY <2>1, <2>2
  <1>9. PartsOK' /\ \A x \in Tables : \A y \in Keys(x) : parts[x][y] # None => parts'[x][y] # None
    <2>1. CASE parts' = parts
      BY <1>6, <2>1 DEF PartsOK
    <2>2. ASSUME NEW S \in SUBSET Of(k), parts' = [parts EXCEPT ![k][key] = S]
          PROVE  PartsOK' /\ \A x \in Tables : \A y \in Keys(x) : parts[x][y] # None => parts'[x][y] # None
      <3>1. S # None
        BY <1>4, OfSome
      <3>2. S \in (SUBSET Of(k)) \union {None}
        OBVIOUS
      <3>3. PartsOK' /\ \A x \in Tables : \A y \in Keys(x) :
               parts'[x][y] = IF x = k /\ y = key THEN S ELSE parts[x][y]
        BY <1>4, <1>6, <2>2, <3>2, PartsChange, ZenonT(60)
      <3> QED BY <3>1, <3>3
    <2> QED BY <1>8, <2>1, <2>2
  <1>10. PICK s \in Seq(Operations) : todo' = [todo EXCEPT ![m] = s]
    <2>1. CASE Store(m)
      <3>1. todo' = [todo EXCEPT ![m] = StoreOps(k, key, op.entries \ {e}) \o Tail(todo[m])]
        BY <1>2, <1>3, <1>5, <2>1 DEF Store
      <3>2. StoreOps(k, key, op.entries \ {e}) \in Seq(Operations)
        <4>1. op.entries \ {e} \in SUBSET Of(k)
          BY <1>4
        <4> QED BY <1>4, <4>1, StoreOpsTyped
      <3>3. StoreOps(k, key, op.entries \ {e}) \o Tail(todo[m]) \in Seq(Operations)
        BY <1>5, <3>2
      <3> QED BY <3>1, <3>3
    <2>2. CASE Drop(m)
      BY <1>5, <2>2 DEF Drop, Next1
    <2> QED BY <2>1, <2>2
  <1>11. TodoOK'
    BY <1>5, <1>10 DEF TodoOK
  <1>12. HandOK'
    <2>1. hand' = [n \in Managers |-> [map |-> hand'[n].map, entry |-> hand'[n].entry]]
      BY <1>1, <1>6 DEF HandOK, NoHand
    <2>2. ASSUME NEW n \in Managers, hand'[n] # NoHand PROVE Holds(n)'
      <3>1. n # m /\ hand'[n] = hand[n] /\ todo'[n] = todo[n]
        BY <1>1, <1>5, <1>6, <1>10, <2>2 DEF HandOK
      <3>2. Holds(n) /\ MapOp(Head(todo[n]))
        BY <1>6, <2>2, <3>1, HoldsTyped DEF HandOK
      <3> QED BY <1>9, <3>1, <3>2 DEF Holds, MapOp
    <2> QED BY <2>1, <2>2 DEF HandOK
  <1> QED BY <1>1, <1>9, <1>11, <1>12 DEF TInv, TruthOK, InboxOK, BeforeOK, CachesOK, StageOK

\* The ejector drops what readers hold of the inner map it takes out.
LEMMA RemoveTyped ==
    ASSUME TInv, NEW g \in Guilds, Remove(g)
    PROVE  TInv'
  <1>1. PICK stage : stage = Stages[ejector.stage + 1]
    OBVIOUS
  <1>2. stage \in {"guild", "role", "channel", "emojis", "member"}
        /\ (stage # "member" => ejector.stage + 1 \in 0..4)
    BY <1>1 DEF TInv, StageOK, Stages
  <1>3. UNCHANGED <<truth, inbox, todo, before, refs>>
    BY Zenon DEF Remove, world
  <1>4. CachesOK'
    <2>1. (guilds' = guilds \/ guilds' = [guilds EXCEPT ![g] = None]) /\ emojis' \subseteq emojis
      BY DEF Remove
    <2> QED BY <1>3, <2>1 DEF TInv, CachesOK
  <1>5. PartsOK' /\ HandOK'
    <2>1. CASE stage \in Kinds
      <3>1. ClearKey(stage, g)
        BY <1>1, <2>1 DEF Remove
      <3>2. /\ stage \in Tables /\ g \in Keys(stage)
            /\ parts' = [parts EXCEPT ![stage][g] = None]
        BY <2>1, <3>1 DEF ClearKey, Tables, Keys, Kinds
      <3>3. PartsOK' /\ \A x \in Tables : \A y \in Keys(x) :
               ~(x = stage /\ y = g) => parts'[x][y] = parts[x][y]
        <4>1. PartsOK /\ None \in (SUBSET Of(stage)) \union {None}
          BY DEF TInv
        <4>2. PartsOK' /\ \A x \in Tables : \A y \in Keys(x) :
                 parts'[x][y] = IF x = stage /\ y = g THEN None ELSE parts[x][y]
          BY <3>2, <4>1, PartsChange, ZenonT(60)
        <4> QED BY <4>2
      <3>4. \A n \in Managers :
               hand'[n] = IF hand[n].map = "live" /\ Head(todo[n]).kind = stage /\ Head(todo[n]).key = g
                            THEN [hand[n] EXCEPT !.map = "dropped"] ELSE hand[n]
        BY <3>1 DEF ClearKey
      <3>5. HandOK
        BY DEF TInv
      <3>6. hand' = [n \in Managers |-> [map |-> hand'[n].map, entry |-> hand'[n].entry]]
        BY <3>1, <3>5 DEF HandOK, ClearKey
      <3>7. ASSUME NEW n \in Managers, hand'[n] # NoHand PROVE Holds(n)'
        <4>1. hand[n] # NoHand
          <5>1. None # "live"
            BY ConstantsAssumption
          <5>2. CASE hand[n] = NoHand
            <6>1. hand[n].map # "live"
              BY <5>1, <5>2 DEF NoHand
            <6> QED BY <3>4, <3>7, <6>1
          <5> QED BY <5>2
        <4>2. Holds(n) /\ MapOp(Head(todo[n])) /\ todo'[n] = todo[n]
          BY <1>3, <3>5, <4>1, HoldsTyped DEF HandOK
        <4>3. hand[n] = [map |-> hand[n].map, entry |-> hand[n].entry]
          BY <3>5 DEF HandOK
        <4>4. /\ hand'[n].entry = hand[n].entry /\ hand'[n].map \in {hand[n].map, "dropped"}
              /\ hand'[n].map = "live" =>
                    hand[n].map = "live" /\ ~(Head(todo[n]).kind = stage /\ Head(todo[n]).key = g)
          BY <3>4, <4>3
        <4> QED BY <3>3, <4>2, <4>4 DEF Holds, MapOp
      <3> QED BY <3>3, <3>6, <3>7 DEF HandOK
    <2>2. CASE stage \notin Kinds
      <3>1. UNCHANGED <<parts, hand>>
        BY <1>1, <2>2 DEF Remove
      <3> QED BY <1>3, <3>1 DEF TInv, PartsOK, HandOK, Holds
    <2> QED BY <2>1, <2>2
  <1>6. StageOK'
    <2>1. ejector' = IF stage = "member"
                       THEN [ejector EXCEPT !.stage = 0, !.victims = @ \ {g}]
                       ELSE [ejector EXCEPT !.stage = @ + 1]
      BY <1>1 DEF Remove
    <2> QED BY <1>2, <2>1 DEF TInv, StageOK
  <1> QED BY <1>3, <1>4, <1>5, <1>6 DEF TInv, TruthOK, InboxOK, TodoOK, BeforeOK

LEMMA EjectorTyped ==
    ASSUME IInv, TInv, Ejector
    PROVE  TInv'
  <1>1. ASSUME NEW g \in Guilds, Remove(g) PROVE TInv'
    BY <1>1, RemoveTyped
  <1>2. ASSUME UNCHANGED <<world, inbox, todo, hand, before, state>>, ejector'.stage \in 0..4
        PROVE  TInv'
    BY <1>2 DEF TInv, TruthOK, InboxOK, TodoOK, BeforeOK, CachesOK, PartsOK, HandOK, Holds, StageOK,
       world, state
  <1>3. CASE BeginEject
    <2>1. ejector'.stage = 0
      BY <1>3 DEF BeginEject, Idle
    <2> QED BY <1>2, <1>3, <2>1 DEF BeginEject
  <1>4. CASE EndEject
    <2>1. ejector'.stage = 0
      BY <1>4 DEF EndEject, Idle
    <2> QED BY <1>2, <1>4, <2>1 DEF EndEject
  <1>5. CASE ListVictims
    <2>1. ejector'.stage = ejector.stage
      BY <1>5 DEF ListVictims, IInv, Shape
    <2> QED BY <1>2, <1>5, <2>1 DEF ListVictims, TInv, StageOK
  <1>6. ASSUME NEW m \in Managers, Scan(m) PROVE TInv'
    <2>1. ejector'.stage = ejector.stage
      BY <1>6 DEF Scan, IInv, Shape
    <2> QED BY <1>2, <1>6, <2>1 DEF Scan, TInv, StageOK
  <1> QED BY <1>1, <1>3, <1>4, <1>5, <1>6 DEF Ejector

LEMMA NextTInv == IInv /\ TInv /\ [Next]_vars => TInv'
  <1> SUFFICES ASSUME IInv, TInv, [Next]_vars PROVE TInv'
    OBVIOUS
  <1>1. CASE Discord
    BY <1>1, DiscordTyped
  <1>2. ASSUME NEW m \in Managers, Reader(m) PROVE TInv'
    BY <1>2, PlainTyped, ReadTyped, LoadTyped, ChangeMapTyped DEF Reader
  <1>3. CASE Ejector
    BY <1>3, EjectorTyped
  <1>4. ASSUME UNCHANGED <<world, inbox, todo, hand, before, refs, guilds, emojis, parts, ejector>>
        PROVE  TInv'
    BY <1>4 DEF TInv, TruthOK, InboxOK, TodoOK, BeforeOK, CachesOK, PartsOK, HandOK, Holds, StageOK,
       world
  <1>5. ASSUME NEW key \in dedupe, ExpireKey(key) PROVE TInv'
    BY <1>4, <1>5 DEF ExpireKey
  <1>6. CASE UNCHANGED vars
    BY <1>4, <1>6 DEF vars, state
  <1> QED BY <1>1, <1>2, <1>3, <1>5, <1>6 DEF Next

LEMMA TInvTypeOK == TInv => TypeOK
  <1> SUFFICES ASSUME TInv PROVE TypeOK
    OBVIOUS
  <1>1. /\ refs \in [Managers -> SUBSET Guilds] /\ guilds \in [Guilds -> Int \union {None}]
        /\ emojis \subseteq Guilds /\ ejector.stage \in 0..4
    BY DEF TInv, CachesOK, StageOK
  <1>2. \A k \in Tables : parts[k] \in [Keys(k) -> (SUBSET Of(k)) \union {None}]
    BY DEF TInv, PartsOK
  <1>3. \A k \in Kinds : \A g \in Guilds : parts[k][g] = None \/ parts[k][g] \subseteq Entities[k]
    <2> TAKE k \in Kinds
    <2>1. k \in Tables /\ Keys(k) = Guilds /\ Of(k) = Entities[k]
      BY DEF Kinds, Tables, Keys, Of
    <2> QED BY <1>2, <2>1
  <1>4. \A u \in Users : parts["mutual"][u] = None \/ parts["mutual"][u] \subseteq Guilds
    <2>1. parts["mutual"] \in [Users -> (SUBSET Guilds) \union {None}]
      BY <1>2, TableKinds
    <2> QED BY <2>1
  <1>5. \A m \in Managers : hand[m] # NoHand =>
          /\ Doing(m, "store") \/ Doing(m, "drop")
          /\ hand[m].map = "live" => parts[Head(todo[m]).kind][Head(todo[m]).key] # None
    BY DEF TInv, HandOK, Holds, Doing
  <1> QED BY <1>1, <1>3, <1>4, <1>5 DEF TypeOK

\* The caches hold what they are for, counts are counts, and a reader that has
\* loaded an inner map still in use finds it in the outer map, for any managers,
\* guilds and entities, while the ejector and other readers run.
THEOREM GuildCacheTyped == Spec => []TypeOK
  <1>1. Init => IInv /\ TInv
    BY InitIInv, InitTInv
  <1> QED BY <1>1, NextIInv, NextTInv, TInvTypeOK, PTL DEF Spec

-----------------------------------------------------------------------------
(* Sequences: what is in one, and what comes after what                     *)

Items(s) == {s[i] : i \in 1..Len(s)}

\* Whatever of A is in s, something of B comes after it.
Followed(s, A, B) ==
    \A i \in 1..Len(s) : s[i] \in A => \E j \in i+1..Len(s) : s[j] \in B

LEMMA ItemsConcat ==
    ASSUME NEW S, NEW s \in Seq(S), NEW t \in Seq(S)
    PROVE  Items(s \o t) = Items(s) \union Items(t) /\ s \o t \in Seq(S)
  <1>1. Len(s \o t) = Len(s) + Len(t) /\ Len(s) \in Nat /\ Len(t) \in Nat
    OBVIOUS
  <1>2. ASSUME NEW y \in Items(s \o t) PROVE y \in Items(s) \union Items(t)
    <2>1. PICK i \in 1..Len(s \o t) : y = (s \o t)[i]
      BY <1>2 DEF Items
    <2>2. CASE i <= Len(s)
      BY <1>1, <2>1, <2>2 DEF Items
    <2>3. CASE i > Len(s)
      <3>1. i - Len(s) \in 1..Len(t) /\ y = t[i - Len(s)]
        BY <1>1, <2>1, <2>3
      <3> QED BY <3>1 DEF Items
    <2> QED BY <1>1, <2>2, <2>3
  <1>3. ASSUME NEW y \in Items(s) PROVE y \in Items(s \o t)
    <2>1. PICK i \in 1..Len(s) : y = s[i]
      BY <1>3 DEF Items
    <2>2. i \in 1..Len(s \o t) /\ y = (s \o t)[i]
      BY <1>1, <2>1
    <2> QED BY <2>2 DEF Items
  <1>4. ASSUME NEW y \in Items(t) PROVE y \in Items(s \o t)
    <2>1. PICK i \in 1..Len(t) : y = t[i]
      BY <1>4 DEF Items
    <2>2. Len(s) + i \in 1..Len(s \o t) /\ y = (s \o t)[Len(s) + i]
      BY <1>1, <2>1
    <2> QED BY <2>2 DEF Items
  <1> QED BY <1>2, <1>3, <1>4

LEMMA ItemsAppend ==
    ASSUME NEW S, NEW s \in Seq(S), NEW x \in S
    PROVE  Items(Append(s, x)) = Items(s) \union {x}
  <1>1. /\ Len(Append(s, x)) = Len(s) + 1 /\ Append(s, x)[Len(s) + 1] = x /\ Len(s) \in Nat
        /\ \A i \in 1..Len(s) : Append(s, x)[i] = s[i]
    OBVIOUS
  <1>2. \A i \in 1..Len(s) + 1 : i \in 1..Len(s) \/ i = Len(s) + 1
    BY <1>1
  <1>3. 1..Len(s) \subseteq 1..Len(s) + 1 /\ Len(s) + 1 \in 1..Len(s) + 1
    BY <1>1
  <1> QED BY <1>1, <1>2, <1>3 DEF Items

LEMMA ItemsTail ==
    ASSUME NEW S, NEW s \in Seq(S)
    PROVE  /\ s # <<>> => Items(s) = {Head(s)} \union Items(Tail(s))
           /\ s = <<>> => Items(s) = {}
  <1>1. ASSUME s # <<>> PROVE Items(s) = {Head(s)} \union Items(Tail(s))
    <2>1. /\ Len(Tail(s)) = Len(s) - 1 /\ Head(s) = s[1] /\ Len(s) \in Nat /\ Len(s) >= 1
          /\ \A i \in 1..Len(s) - 1 : Tail(s)[i] = s[i + 1]
      BY <1>1
    <2>2. ASSUME NEW y \in Items(s) PROVE y \in {Head(s)} \union Items(Tail(s))
      <3>1. PICK i \in 1..Len(s) : y = s[i]
        BY <2>2 DEF Items
      <3>2. CASE i # 1
        <4>1. i - 1 \in 1..Len(Tail(s)) /\ y = Tail(s)[i - 1]
          BY <2>1, <3>1, <3>2
        <4> QED BY <4>1 DEF Items
      <3> QED BY <2>1, <3>1, <3>2
    <2>3. ASSUME NEW y \in Items(Tail(s)) PROVE y \in Items(s)
      <3>1. PICK i \in 1..Len(s) - 1 : y = Tail(s)[i]
        BY <2>1, <2>3 DEF Items
      <3>2. i + 1 \in 1..Len(s) /\ y = s[i + 1]
        BY <2>1, <3>1
      <3> QED BY <3>2 DEF Items
    <2>4. Head(s) \in Items(s)
      BY <2>1 DEF Items
    <2> QED BY <2>2, <2>3, <2>4
  <1>2. s = <<>> => Items(s) = {}
    BY DEF Items
  <1> QED BY <1>1, <1>2

LEMMA FollowedAfter ==
    ASSUME NEW S, NEW s \in Seq(S), NEW A, NEW B
    PROVE  /\ \A x \in S \ A : (x \in B \/ Followed(s, A, B)) => Followed(Append(s, x), A, B)
           /\ s # <<>> /\ Followed(s, A, B) => Followed(Tail(s), A, B)
           /\ s # <<>> /\ Followed(s, A, B) /\ Head(s) \in A => Items(Tail(s)) \intersect B # {}
           /\ Items(s) \intersect A = {} => Followed(s, A, B)
  <1>1. ASSUME NEW x \in S \ A, x \in B \/ Followed(s, A, B) PROVE Followed(Append(s, x), A, B)
    <2>1. /\ Len(Append(s, x)) = Len(s) + 1 /\ Append(s, x)[Len(s) + 1] = x /\ Len(s) \in Nat
          /\ \A i \in 1..Len(s) : Append(s, x)[i] = s[i]
      OBVIOUS
    <2>2. SUFFICES ASSUME NEW i \in 1..Len(s) + 1, Append(s, x)[i] \in A
                   PROVE  \E j \in i+1..Len(s) + 1 : Append(s, x)[j] \in B
      BY <2>1 DEF Followed
    <2>3. i \in 1..Len(s) /\ s[i] \in A
      BY <2>1, <2>2
    <2>4. CASE x \in B
      <3>1. Len(s) + 1 \in i+1..Len(s) + 1
        BY <2>1, <2>3
      <3> QED BY <2>1, <2>4, <3>1
    <2>5. CASE Followed(s, A, B)
      <3>1. PICK j \in i+1..Len(s) : s[j] \in B
        BY <2>3, <2>5 DEF Followed
      <3>2. j \in i+1..Len(s) + 1 /\ j \in 1..Len(s)
        BY <2>1, <2>3, <3>1
      <3> QED BY <2>1, <3>1, <3>2
    <2> QED BY <1>1, <2>4, <2>5
  <1>2. ASSUME s # <<>>, Followed(s, A, B)
        PROVE  Followed(Tail(s), A, B) /\ (Head(s) \in A => Items(Tail(s)) \intersect B # {})
    <2>1. /\ Len(Tail(s)) = Len(s) - 1 /\ Head(s) = s[1] /\ Len(s) \in Nat /\ Len(s) >= 1
          /\ \A i \in 1..Len(s) - 1 : Tail(s)[i] = s[i + 1]
      BY <1>2
    <2>2. ASSUME NEW i \in 1..Len(Tail(s)), Tail(s)[i] \in A
          PROVE  \E j \in i+1..Len(Tail(s)) : Tail(s)[j] \in B
      <3>1. i + 1 \in 1..Len(s) /\ s[i + 1] \in A
        BY <2>1, <2>2
      <3>2. PICK j \in i+1+1..Len(s) : s[j] \in B
        BY <1>2, <3>1 DEF Followed
      <3>3. j - 1 \in i+1..Len(Tail(s)) /\ Tail(s)[j - 1] = s[j]
        BY <2>1, <2>2, <3>2
      <3> QED BY <3>2, <3>3
    <2>3. ASSUME Head(s) \in A PROVE Items(Tail(s)) \intersect B # {}
      <3>1. 1 \in 1..Len(s) /\ s[1] \in A
        BY <2>1, <2>3
      <3>2. PICK j \in 1+1..Len(s) : s[j] \in B
        BY <1>2, <3>1 DEF Followed
      <3>3. j - 1 \in 1..Len(Tail(s)) /\ Tail(s)[j - 1] = s[j]
        BY <2>1, <3>2
      <3> QED BY <3>2, <3>3 DEF Items
    <2> QED BY <2>2, <2>3 DEF Followed
  <1>3. Items(s) \intersect A = {} => Followed(s, A, B)
    BY DEF Items, Followed
  <1> QED BY <1>1, <1>2, <1>3

-----------------------------------------------------------------------------
(* Handlers: what one does to the roles and channels of a guild             *)

Plain == {"role", "channel"}
ReadDos == {"readGuild", "readRoles", "readChannels", "readEmojis", "readMembers"}

\* What an event is about to do to entry e of kind k of guild g.
Brings(event, g, k, e) ==
    /\ event.guild = g
    /\ \/ event.type \in {"enter", "touch"} /\ event.kind = k /\ event.entity = e
       \/ event.type = "create" /\ e \in event.content[k]
       \/ event.type = "update" /\ k = "role" /\ e \in event.content.role
Takes(event, g, k, e) ==
    event.guild = g /\ event.type = "leave" /\ event.kind = k /\ event.entity = e

\* What an operation is.
Puts(op, g, k, e) ==
    \/ op.do = "store" /\ op.kind = k /\ op.key = g /\ e \in op.entries
    \/ op.do = "rewrite" /\ op.guild = g /\ k = "role" /\ op.role # None /\ e \in op.role
WritesOld(op, g, k) == op.do = "rewrite" /\ op.guild = g /\ (k = "channel" \/ op.role = None)

\* The removal of a role or a channel is all its handler does; a handler that may be
\* given up puts neither in; and what a handler writes back it reads of the same guild.
WellShaped(s) ==
    \A op \in Items(s) :
       /\ op.do = "drop" /\ op.kind \in Plain => \E x : s = <<DropOp(op.kind, op.key, x)>>
       /\ op.do = "check" =>
             \A y \in Items(s) : y.do # "rewrite" /\ (y.do = "store" => y.kind \notin Plain)
       /\ op.do = "rewrite" => \A y \in Items(s) \ {op} : y.do \in ReadDos /\ y.guild = op.guild

\* What a handler s of an event does to roles and channels.
Does(s, event) ==
    /\ WellShaped(s)
    /\ \A op \in Items(s) :
          /\ op.do \in {"store", "drop"} /\ op.kind \in Plain => op.key = event.guild
          /\ op.do = "rewrite" =>
                /\ op.guild = event.guild /\ Head(s).do = "readGuild"
                /\ event.type = "stickers" \/ (event.type = "update" /\ op.role # None)
    /\ \A g \in Guilds : \A k \in Plain : \A e \in Entities[k] :
          /\ (\E op \in Items(s) : Puts(op, g, k, e)) <=> Brings(event, g, k, e)
          /\ s = <<DropOp(k, g, e)>> <=> Takes(event, g, k, e)

LEMMA StoreOpsItems ==
    ASSUME NEW k \in Tables, NEW key \in Keys(k), NEW S \in SUBSET Of(k)
    PROVE  Items(StoreOps(k, key, S)) =
              IF S = {} THEN {} ELSE {[do |-> "store", kind |-> k, key |-> key, entries |-> S]}
  BY DEF StoreOps, Items

\* SetGuild stores what it is given, and neither removes, reads nor checks.
LEMMA SetGuildDoes ==
    ASSUME NEW g \in Guilds, NEW content, NEW count \in Int,
           content.role \subseteq Entities.role, content.channel \subseteq Entities.channel,
           content.member \subseteq Entities.member
    PROVE  /\ SetGuild(g, content, count) # <<>>
           /\ \A op \in Items(SetGuild(g, content, count)) :
                 /\ op.do \in {"ref", "guild", "emojis", "store"}
                 /\ op.do = "store" => op.key = g
           /\ \A h \in Guilds : \A k \in Plain : \A e \in Entities[k] :
                 (\E op \in Items(SetGuild(g, content, count)) : Puts(op, h, k, e))
                    <=> h = g /\ e \in content[k]
  <1> DEFINE a == <<Op("ref", g), [do |-> "guild", guild |-> g, count |-> count]>>
             r == StoreOps("role", g, content.role)
             c == StoreOps("channel", g, content.channel)
             b == <<Op("emojis", g)>>
             w == StoreOps("member", g, Cacheable("member", content.member))
             s == SetGuild(g, content, count)
  <1>1. Op("ref", g) \in Operations /\ Op("emojis", g) \in Operations
        /\ [do |-> "guild", guild |-> g, count |-> count] \in Operations
    BY DEF Op, Operations, PlainOps, CountOps
  <1>2. Cacheable("member", content.member) \in SUBSET Of("member")
    BY TableKinds DEF Cacheable
  <1>3. /\ a \in Seq(Operations) /\ b \in Seq(Operations) /\ r \in Seq(Operations)
        /\ c \in Seq(Operations) /\ w \in Seq(Operations)
    BY <1>1, <1>2, StoreOpsTyped, TableKinds
  <1>4. s = a \o r \o c \o b \o w
    BY DEF SetGuild
  <1>5. Items(a) = {Op("ref", g), [do |-> "guild", guild |-> g, count |-> count]}
        /\ Items(b) = {Op("emojis", g)}
    BY DEF Items
  <1>6. /\ Items(r) = IF content.role = {} THEN {}
                      ELSE {[do |-> "store", kind |-> "role", key |-> g, entries |-> content.role]}
        /\ Items(c) = IF content.channel = {} THEN {}
                      ELSE {[do |-> "store", kind |-> "channel", key |-> g, entries |-> content.channel]}
        /\ \A op \in Items(w) : op.do = "store" /\ op.kind = "member" /\ op.key = g
    <2>1. Items(r) = IF content.role = {} THEN {}
                     ELSE {[do |-> "store", kind |-> "role", key |-> g, entries |-> content.role]}
      BY StoreOpsItems, TableKinds, SMTT(60)
    <2>2. Items(c) = IF content.channel = {} THEN {}
                     ELSE {[do |-> "store", kind |-> "channel", key |-> g, entries |-> content.channel]}
      BY StoreOpsItems, TableKinds
    <2>3. PICK S \in SUBSET Of("member") : S = Cacheable("member", content.member)
      BY <1>2
    <2>4. Items(w) = IF S = {} THEN {}
                     ELSE {[do |-> "store", kind |-> "member", key |-> g, entries |-> S]}
      BY <2>3, StoreOpsItems, TableKinds
    <2> QED BY <2>1, <2>2, <2>4
  <1> HIDE DEF a, r, c, b, w, s
  <1>7. Items(s) = Items(a) \union Items(r) \union Items(c) \union Items(b) \union Items(w)
    <2>1. Items(a \o r) = Items(a) \union Items(r) /\ a \o r \in Seq(Operations)
      BY <1>3, ItemsConcat
    <2>2. Items(a \o r \o c) = Items(a \o r) \union Items(c) /\ a \o r \o c \in Seq(Operations)
      BY <1>3, <2>1, ItemsConcat
    <2>3. Items(a \o r \o c \o b) = Items(a \o r \o c) \union Items(b)
          /\ a \o r \o c \o b \in Seq(Operations)
      BY <1>3, <2>2, ItemsConcat
    <2>4. Items(a \o r \o c \o b \o w) = Items(a \o r \o c \o b) \union Items(w)
      <3>1. PICK t \in Seq(Operations) : t = a \o r \o c \o b
        BY <2>3
      <3>2. Items(t \o w) = Items(t) \union Items(w)
        BY <1>3, ItemsConcat
      <3> QED BY <3>1, <3>2
    <2> QED BY <1>4, <2>1, <2>2, <2>3, <2>4
  <1>8. \A op \in Items(a) \union Items(b) : op.do \in {"ref", "guild", "emojis"}
    BY <1>5 DEF Op
  <1>9. \A op \in Items(s) : op.do \in {"ref", "guild", "emojis", "store"}
                             /\ (op.do = "store" => op.key = g)
    BY <1>6, <1>7, <1>8
  <1>10. ASSUME NEW h \in Guilds, NEW k \in Plain, NEW e \in Entities[k]
         PROVE  (\E op \in Items(s) : Puts(op, h, k, e)) <=> h = g /\ e \in content[k]
    <2>1. \A op \in Items(a) \union Items(b) \union Items(w) : ~Puts(op, h, k, e)
      BY <1>6, <1>8 DEF Puts, Plain
    <2>2. ASSUME NEW kind, NEW S
          PROVE  Puts([do |-> "store", kind |-> kind, key |-> g, entries |-> S], h, k, e)
                    <=> kind = k /\ h = g /\ e \in S
      BY DEF Puts
    <2>3. /\ (\E op \in Items(r) : Puts(op, h, k, e)) <=> k = "role" /\ h = g /\ e \in content.role
          /\ (\E op \in Items(c) : Puts(op, h, k, e)) <=> k = "channel" /\ h = g /\ e \in content.channel
      <3>1. ASSUME NEW kind, NEW S, NEW ops,
                   ops = IF S = {} THEN {}
                         ELSE {[do |-> "store", kind |-> kind, key |-> g, entries |-> S]}
            PROVE  (\E op \in ops : Puts(op, h, k, e)) <=> k = kind /\ h = g /\ e \in S
        <4>1. CASE S = {}
          BY <3>1, <4>1
        <4>2. CASE S # {}
          BY <2>2, <3>1, <4>2, Zenon
        <4> QED BY <4>1, <4>2
      <3> QED BY <1>6, <3>1
    <2>4. k \in {"role", "channel"}
      BY DEF Plain
    <2> QED BY <1>7, <2>1, <2>2, <2>3, <2>4
  <1>11. s # <<>>
    <2>1. Op("ref", g) \in Items(s)
      BY <1>5, <1>7
    <2>2. Items(<<>>) = {}
      BY DEF Items
    <2> QED BY <2>1, <2>2
  <1> QED BY <1>9, <1>10, <1>11 DEF s

\* Handlers that are about neither roles nor channels.
LEMMA DoesNothing ==
    ASSUME NEW s, NEW event,
           \A op \in Items(s) :
              op.do # "rewrite" /\ (op.do \in {"store", "drop"} => op.kind \notin Plain),
           \A g \in Guilds : \A k \in Plain : \A e \in Entities[k] :
              ~Brings(event, g, k, e) /\ ~Takes(event, g, k, e)
    PROVE  Does(s, event)
  <1>1. WellShaped(s)
    BY DEF WellShaped
  <1>2. ASSUME NEW g \in Guilds, NEW k \in Plain, NEW e \in Entities[k]
        PROVE  (\A op \in Items(s) : ~Puts(op, g, k, e)) /\ s # <<DropOp(k, g, e)>>
    <2>1. \A op \in Items(s) : ~Puts(op, g, k, e)
      BY DEF Puts
    <2>2. DropOp(k, g, e) \in Items(<<DropOp(k, g, e)>>)
      BY DEF Items
    <2>3. DropOp(k, g, e).do = "drop" /\ DropOp(k, g, e).kind = k
      BY DEF DropOp
    <2> QED BY <2>1, <2>2, <2>3
  <1> QED BY <1>1, <1>2 DEF Does

\* Of one entry of a guild, that is stored or removed.
LEMMA DoesOne ==
    ASSUME NEW g \in Guilds, NEW k \in Plain, NEW e \in Entities[k], NEW event \in Events,
           event.guild = g, event.kind = k, event.entity = e
    PROVE  /\ event.type \in {"enter", "touch"} => Does(OnSet(g, k, e), event)
           /\ event.type = "leave" => Does(<<DropOp(k, g, e)>>, event)
  <1>1. k \in {"role", "channel"} /\ k \in Tables /\ Keys(k) = Guilds /\ Of(k) = Entities[k]
    BY DEF Plain, Tables, Kinds, Keys, Of
  <1>2. ASSUME event.type \in {"enter", "touch"}
        PROVE  Does(OnSet(g, k, e), event)
    <2> DEFINE s == OnSet(g, k, e)
               op == [do |-> "store", kind |-> k, key |-> g, entries |-> {e}]
    <2>1. Items(s) = {op}
      <3>1. s = StoreOps(k, g, {e})
        BY <1>1 DEF OnSet, Cacheable
      <3>2. PICK S \in SUBSET Of(k) : S = {e}
        BY <1>1
      <3>3. Items(StoreOps(k, g, S)) =
              IF S = {} THEN {} ELSE {[do |-> "store", kind |-> k, key |-> g, entries |-> S]}
        BY <1>1, StoreOpsItems
      <3> QED BY <3>1, <3>2, <3>3
    <2> HIDE DEF s
    <2>2. WellShaped(s)
      BY <2>1 DEF WellShaped
    <2>3. ASSUME NEW h \in Guilds, NEW l \in Plain, NEW x \in Entities[l]
          PROVE  /\ Puts(op, h, l, x) <=> h = g /\ l = k /\ x = e
                 /\ Brings(event, h, l, x) <=> h = g /\ l = k /\ x = e
                 /\ s # <<DropOp(l, h, x)>> /\ ~Takes(event, h, l, x)
      <3>1. s # <<DropOp(l, h, x)>>
        <4>1. DropOp(l, h, x) \in Items(<<DropOp(l, h, x)>>) /\ DropOp(l, h, x).do = "drop"
          BY DEF Items, DropOp
        <4> QED BY <2>1, <4>1
      <3>2. Puts(op, h, l, x) <=> h = g /\ l = k /\ x = e
        BY DEF Puts
      <3>3. (Brings(event, h, l, x) <=> h = g /\ l = k /\ x = e) /\ ~Takes(event, h, l, x)
        BY <1>2 DEF Brings, Takes
      <3> QED BY <3>1, <3>2, <3>3
    <2>4. op.key = event.guild /\ op.do = "store"
      OBVIOUS
    <2> HIDE DEF op
    <2>5. \A x \in Items(s) : x.do = "store" /\ x.key = event.guild
      BY <2>1, <2>4
    <2>6. ASSUME NEW h \in Guilds, NEW l \in Plain, NEW x \in Entities[l]
          PROVE  /\ (\E y \in Items(s) : Puts(y, h, l, x)) <=> Brings(event, h, l, x)
                 /\ s = <<DropOp(l, h, x)>> <=> Takes(event, h, l, x)
      <3>1. (\E y \in Items(s) : Puts(y, h, l, x)) <=> Puts(op, h, l, x)
        BY <2>1
      <3> QED BY <2>3, <3>1, Zenon
    <2>7. ASSUME NEW y \in Items(s)
          PROVE  /\ y.do \in {"store", "drop"} /\ y.kind \in Plain => y.key = event.guild
                 /\ y.do = "rewrite" =>
                       /\ y.guild = event.guild /\ Head(s).do = "readGuild"
                       /\ event.type = "stickers" \/ (event.type = "update" /\ y.role # None)
      BY <2>5
    <2>8. Does(s, event)
      BY <2>2, <2>6, <2>7, Zenon DEF Does
    <2> QED BY <2>8 DEF s
  <1>3. ASSUME event.type = "leave"
        PROVE  Does(<<DropOp(k, g, e)>>, event)
    <2> DEFINE s == <<DropOp(k, g, e)>>
    <2>1. Items(s) = {DropOp(k, g, e)}
      BY DEF Items
    <2>2. DropOp(k, g, e) = [do |-> "drop", kind |-> k, key |-> g, entries |-> {e}]
      BY DEF DropOp
    <2>3. WellShaped(s)
      <3>1. DropOp(k, g, e).kind = k /\ DropOp(k, g, e).key = g /\ DropOp(k, g, e).do = "drop"
        BY <2>2
      <3>2. \E x : s = <<DropOp(DropOp(k, g, e).kind, DropOp(k, g, e).key, x)>>
        BY <3>1
      <3> QED BY <2>1, <3>1, <3>2 DEF WellShaped
    <2>4. ASSUME NEW h \in Guilds, NEW l \in Plain, NEW x \in Entities[l]
          PROVE  /\ ~Puts(DropOp(k, g, e), h, l, x) /\ ~Brings(event, h, l, x)
                 /\ s = <<DropOp(l, h, x)>> <=> Takes(event, h, l, x)
      <3>1. ~Puts(DropOp(k, g, e), h, l, x) /\ ~Brings(event, h, l, x)
        BY <1>3, <2>2 DEF Puts, Brings
      <3>2. s = <<DropOp(l, h, x)>> <=> DropOp(k, g, e) = DropOp(l, h, x)
        OBVIOUS
      <3>3. DropOp(l, h, x) = [do |-> "drop", kind |-> l, key |-> h, entries |-> {x}]
        BY DEF DropOp
      <3>4. DropOp(k, g, e) = DropOp(l, h, x) <=> k = l /\ g = h /\ e = x
        BY <2>2, <3>3
      <3> QED BY <1>3, <3>1, <3>2, <3>4 DEF Takes
    <2>5. DropOp(k, g, e).key = event.guild /\ DropOp(k, g, e).do = "drop"
      BY <2>2
    <2> HIDE DEF s
    <2>6. \A x \in Items(s) : x.do = "drop" /\ x.key = event.guild
      BY <2>1, <2>5
    <2>7. \A h \in Guilds : \A l \in Plain : \A x \in Entities[l] :
             /\ (\E y \in Items(s) : Puts(y, h, l, x)) <=> Brings(event, h, l, x)
             /\ s = <<DropOp(l, h, x)>> <=> Takes(event, h, l, x)
      BY <2>1, <2>4, Zenon
    <2>8. ASSUME NEW y \in Items(s)
          PROVE  /\ y.do \in {"store", "drop"} /\ y.kind \in Plain => y.key = event.guild
                 /\ y.do = "rewrite" =>
                       /\ y.guild = event.guild /\ Head(s).do = "readGuild"
                       /\ event.type = "stickers" \/ (event.type = "update" /\ y.role # None)
      BY <2>6
    <2>9. Does(s, event)
      BY <2>3, <2>7, <2>8, Zenon DEF Does
    <2> QED BY <2>9 DEF s
  <1> QED BY <1>2, <1>3

\* Members do not concern roles and channels.
LEMMA MemberItems ==
    ASSUME NEW g \in Guilds, NEW u \in Entities.member
    PROVE  /\ \A op \in Items(OnSet(g, "member", u)) : op.do = "store" /\ op.kind = "member"
           /\ u \in Users =>
                \A op \in Items(OnGuildMemberAdd(g, u)) \union Items(OnGuildMemberRemove(g, u)) :
                   op.do # "rewrite" /\ (op.do \in {"store", "drop"} => op.kind \in {"member", "mutual"})
  <1>1. ASSUME NEW S \in SUBSET {u}
        PROVE  \A op \in Items(StoreOps("member", g, Cacheable("member", S))) :
                  op.do = "store" /\ op.kind = "member"
    <2>1. PICK T \in SUBSET Of("member") : T = Cacheable("member", S)
      BY TableKinds DEF Cacheable
    <2> QED BY <2>1, StoreOpsItems, TableKinds
  <1>2. ASSUME u \in Users
        PROVE  \A op \in Items(OnGuildMemberAdd(g, u)) :
                  op.do # "rewrite" /\ (op.do \in {"store", "drop"} => op.kind \in {"member", "mutual"})
    <2> DEFINE a == <<KeyOp("check", "add", g, u), KeyOp("mark", "add", g, u),
                      KeyOp("unmark", "remove", g, u), Op("readGuild", g), Op("increment", g)>>
               b == StoreOps("member", g, Cacheable("member", {u}))
               c == StoreOps("mutual", u, IF StoreMutuals THEN {g} ELSE {})
    <2>1. \A op \in Items(a) : op.do \in {"check", "mark", "unmark", "readGuild", "increment"}
      BY DEF Items, KeyOp, Op
    <2>2. \A op \in Items(b) : op.do = "store" /\ op.kind = "member"
      BY <1>1
    <2>3. \A op \in Items(c) : op.do = "store" /\ op.kind = "mutual"
      <3>1. PICK T \in SUBSET Of("mutual") : T = IF StoreMutuals THEN {g} ELSE {}
        BY TableKinds
      <3> QED BY <1>2, <3>1, StoreOpsItems, TableKinds
    <2>4. a \in Seq(Operations)
      <3>1. /\ KeyOp("check", "add", g, u) \in Operations /\ KeyOp("mark", "add", g, u) \in Operations
            /\ KeyOp("unmark", "remove", g, u) \in Operations
        BY <1>2, KeyOpTyped
      <3>2. Op("readGuild", g) \in Operations /\ Op("increment", g) \in Operations
        BY PlainOpTyped
      <3> QED BY <3>1, <3>2
    <2>5. b \in Seq(Operations) /\ c \in Seq(Operations)
      <3>1. Cacheable("member", {u}) \in SUBSET Of("member")
        BY TableKinds DEF Cacheable
      <3>2. (IF StoreMutuals THEN {g} ELSE {}) \in SUBSET Of("mutual")
        BY TableKinds
      <3> QED BY <1>2, <3>1, <3>2, StoreOpsTyped, TableKinds
    <2>6. OnGuildMemberAdd(g, u) = a \o b \o c
      BY DEF OnGuildMemberAdd
    <2> HIDE DEF a, b, c
    <2>7. PICK t \in Seq(Operations) : t = a \o b /\ Items(t) = Items(a) \union Items(b)
      BY <2>4, <2>5, ItemsConcat, ZenonT(60)
    <2>8. Items(t \o c) = Items(t) \union Items(c)
      BY <2>5, ItemsConcat
    <2> QED BY <2>1, <2>2, <2>3, <2>6, <2>7, <2>8
  <1>3. \A op \in Items(OnGuildMemberRemove(g, u)) :
           op.do # "rewrite" /\ (op.do \in {"store", "drop"} => op.kind \in {"member", "mutual"})
    BY DEF OnGuildMemberRemove, Items, KeyOp, Op, DropOp
  <1>4. \A op \in Items(OnSet(g, "member", u)) : op.do = "store" /\ op.kind = "member"
    BY <1>1 DEF OnSet
  <1> QED BY <1>2, <1>3, <1>4

LEMMA EntityHandlerDoes ==
    ASSUME NEW event \in EntityEvents
    PROVE  Does(Handler(event), event)
  <1>1. PICK k \in Kinds : event \in TouchEvents(k) \/ event \in MoveEvents(k)
    BY DEF EntityEvents
  <1>2. PICK g \in Guilds : g = event.guild
    BY <1>1 DEF TouchEvents, MoveEvents
  <1>3. PICK e \in Entities[k] : e = event.entity
    BY <1>1 DEF TouchEvents, MoveEvents, Entities
  <1>4. /\ event.kind = k /\ k \in {"role", "channel", "member"}
        /\ event.type \in {"enter", "leave", "touch"} /\ event \in Events
        /\ event.type \in {"enter", "leave"} /\ k = "member" => e \in Users
    BY <1>1, <1>3 DEF TouchEvents, MoveEvents, Kinds, Events, EntityEvents
  <1> DEFINE type == <<event.type, event.kind>>
  <1>5. Handler(event) = EntityHandler(event)
    BY <1>4 DEF Handler
  <1>6. EntityHandler(event) =
          CASE type = <<"enter", "role">> -> OnGuildRoleCreate(g, e)
            [] type = <<"touch", "role">> -> OnGuildRoleUpdate(g, e)
            [] type = <<"leave", "role">> -> OnGuildRoleDelete(g, e)
            [] type = <<"enter", "channel">> -> OnChannelCreate(g, e)
            [] type = <<"touch", "channel">> -> OnChannelUpdate(g, e)
            [] type = <<"leave", "channel">> -> OnChannelDelete(g, e)
            [] type = <<"enter", "member">> -> OnGuildMemberAdd(g, e)
            [] type = <<"touch", "member">> -> OnGuildMemberUpdate(g, e)
            [] type = <<"leave", "member">> -> OnGuildMemberRemove(g, e)
    BY <1>2, <1>3, Zenon DEF EntityHandler
  <1>7. /\ OnGuildRoleCreate(g, e) = OnSet(g, "role", e) /\ OnGuildRoleUpdate(g, e) = OnSet(g, "role", e)
        /\ OnChannelCreate(g, e) = OnSet(g, "channel", e)
        /\ OnChannelUpdate(g, e) = OnSet(g, "channel", e)
        /\ OnGuildMemberUpdate(g, e) = OnSet(g, "member", e)
        /\ OnGuildRoleDelete(g, e) = <<DropOp("role", g, e)>>
        /\ OnChannelDelete(g, e) = <<DropOp("channel", g, e)>>
    BY Zenon DEF OnGuildRoleCreate, OnGuildRoleUpdate, OnChannelCreate, OnChannelUpdate,
       OnGuildMemberUpdate, OnGuildRoleDelete, OnChannelDelete
  <1>8. type = <<event.type, k>>
    BY <1>4 DEF type
  <1> HIDE DEF type
  <1>9. CASE k \in Plain
    <2>1. k \in {"role", "channel"}
      BY <1>9 DEF Plain
    <2>2. CASE event.type = "leave"
      <3>1. Handler(event) = <<DropOp(k, g, e)>>
        BY <1>5, <1>6, <1>7, <1>8, <2>1, <2>2
      <3> QED BY <1>2, <1>3, <1>4, <1>9, <2>2, <3>1, DoesOne
    <2>3. CASE event.type # "leave"
      <3>1. event.type \in {"enter", "touch"}
        BY <1>4, <2>3
      <3>2. Handler(event) = OnSet(g, k, e)
        BY <1>5, <1>6, <1>7, <1>8, <2>1, <3>1
      <3> QED BY <1>2, <1>3, <1>4, <1>9, <3>1, <3>2, DoesOne
    <2> QED BY <2>2, <2>3
  <1>10. CASE k = "member"
    <2>1. e \in Entities.member
      BY <1>10
    <2>2. \/ Handler(event) = OnSet(g, "member", e)
          \/ e \in Users /\ Handler(event) = OnGuildMemberAdd(g, e)
          \/ e \in Users /\ Handler(event) = OnGuildMemberRemove(g, e)
      BY <1>4, <1>5, <1>6, <1>7, <1>8, <1>10
    <2>3. \A op \in Items(Handler(event)) :
             op.do # "rewrite" /\ (op.do \in {"store", "drop"} => op.kind \in {"member", "mutual"})
      <3>1. \A op \in Items(OnSet(g, "member", e)) : op.do = "store" /\ op.kind = "member"
        BY <2>1, MemberItems
      <3>2. e \in Users =>
               \A op \in Items(OnGuildMemberAdd(g, e)) \union Items(OnGuildMemberRemove(g, e)) :
                  op.do # "rewrite" /\ (op.do \in {"store", "drop"} => op.kind \in {"member", "mutual"})
        BY <2>1, MemberItems
      <3> QED BY <2>2, <3>1, <3>2
    <2>4. \A h \in Guilds : \A l \in Plain : \A x \in Entities[l] :
             ~Brings(event, h, l, x) /\ ~Takes(event, h, l, x)
      BY <1>4, <1>10 DEF Brings, Takes, Plain
    <2>5. \A op \in Items(Handler(event)) :
             op.do # "rewrite" /\ (op.do \in {"store", "drop"} => op.kind \notin Plain)
      BY <2>3 DEF Plain
    <2> QED BY <2>4, <2>5, DoesNothing
  <1> QED BY <1>4, <1>9, <1>10 DEF Plain

\* A guild is read and then written back, or only its roles are.
LEMMA RewriteDoes ==
    ASSUME NEW g \in Guilds, NEW event, event.guild = g, NEW roles \in (SUBSET Entities.role) \union {None},
           \/ event.type = "stickers" /\ roles = None
           \/ event.type = "update" /\ roles # None /\ roles = event.content.role
    PROVE  Does(GetGuild(g) \o <<[do |-> "rewrite", guild |-> g, role |-> roles]>>, event)
  <1> DEFINE op == [do |-> "rewrite", guild |-> g, role |-> roles]
             a == GetGuild(g)
             s == a \o <<op>>
  <1>1. op \in Operations /\ a \in Seq(Operations) /\ <<op>> \in Seq(Operations)
    <2>1. op \in Operations
      BY DEF Operations, RewriteOps
    <2> QED BY <2>1, GetGuildTyped
  <1>2. Items(a) = {Op("readGuild", g), Op("readRoles", g), Op("readChannels", g), Op("readEmojis", g),
                    Op("readMembers", g)}
    BY DEF GetGuild, Items
  <1>3. Items(s) = Items(a) \union {op}
    <2>1. Items(<<op>>) = {op}
      BY DEF Items
    <2>2. PICK t \in Seq(Operations) : t = <<op>>
      BY <1>1
    <2> HIDE DEF a, op
    <2>3. Items(a \o t) = Items(a) \union Items(t)
      BY <1>1, ItemsConcat
    <2> QED BY <2>1, <2>2, <2>3
  <1>4. \A x \in Items(a) : x.do \in ReadDos /\ x.guild = g
    BY <1>2 DEF Op, ReadDos
  <1>5. Head(s).do = "readGuild" /\ Len(s) = 6
    BY DEF GetGuild, Op
  <1>6. op.do = "rewrite" /\ op.guild = g /\ op.role = roles
    OBVIOUS
  <1> HIDE DEF a, op, s
  <1>7. WellShaped(s)
    BY <1>3, <1>4, <1>6 DEF WellShaped, ReadDos
  <1>8. ASSUME NEW h \in Guilds, NEW k \in Plain, NEW e \in Entities[k]
        PROVE  /\ (\E x \in Items(s) : Puts(x, h, k, e)) <=> Brings(event, h, k, e)
               /\ s = <<DropOp(k, h, e)>> <=> Takes(event, h, k, e)
    <2>1. \A x \in Items(a) : ~Puts(x, h, k, e)
      BY <1>4 DEF Puts, ReadDos
    <2>2. Puts(op, h, k, e) <=> Brings(event, h, k, e)
      BY <1>6 DEF Puts, Brings
    <2>3. s # <<DropOp(k, h, e)>> /\ ~Takes(event, h, k, e)
      <3>1. Len(<<DropOp(k, h, e)>>) = 1
        OBVIOUS
      <3> QED BY <1>5, <3>1 DEF Takes
    <2> QED BY <1>3, <2>1, <2>2, <2>3
  <1>9. ASSUME NEW x \in Items(s)
        PROVE  /\ x.do \in {"store", "drop"} /\ x.kind \in Plain => x.key = event.guild
               /\ x.do = "rewrite" =>
                     /\ x.guild = event.guild /\ Head(s).do = "readGuild"
                     /\ event.type = "stickers" \/ (event.type = "update" /\ x.role # None)
    <2>1. CASE x \in Items(a)
      BY <1>4, <2>1 DEF ReadDos
    <2>2. CASE x = op
      <3>1. x.do = "rewrite" /\ x.guild = g /\ x.role = roles
        BY <1>6, <2>2
      <3>2. event.type = "stickers" \/ (event.type = "update" /\ x.role # None)
        BY <3>1
      <3> QED BY <1>5, <3>1, <3>2
    <2> QED BY <1>3, <2>1, <2>2
  <1>10. Does(s, event)
    BY <1>7, <1>8, <1>9, Zenon DEF Does
  <1> QED BY <1>10 DEF s, a, op

LEMMA HandlerDoes ==
    ASSUME NEW event \in Events
    PROVE  Does(Handler(event), event)
  <1>1. CASE event \in EntityEvents
    BY <1>1, EntityHandlerDoes
  <1>2. CASE event \in DeleteEvents
    <2>1. event.type = "delete" /\ Handler(event) = <<Op("unref", event.guild)>>
      <3>1. event.type = "delete"
        BY <1>2 DEF DeleteEvents
      <3> QED BY <3>1 DEF Handler, OnGuildDelete
    <2>2. Items(Handler(event)) = {Op("unref", event.guild)}
      BY <2>1 DEF Items
    <2>3. \A op \in Items(Handler(event)) :
             op.do # "rewrite" /\ (op.do \in {"store", "drop"} => op.kind \notin Plain)
      BY <2>2 DEF Op
    <2> QED BY <2>1, <2>3, DoesNothing DEF Brings, Takes
  <1>3. CASE event \in CreateEvents
    <2>1. event.type = "create" /\ event.guild \in Guilds /\ event.content \in FullContents
      BY <1>3 DEF CreateEvents
    <2>2. PICK content \in FullContents, g \in Guilds : content = event.content /\ g = event.guild
      BY <2>1
    <2>3. PICK count \in Int : count = Cardinality(content.member)
      BY FS_CardinalityType DEF FullContents
    <2>4. Handler(event) = SetGuild(g, content, count)
      BY <2>1, <2>2, <2>3 DEF Handler, OnGuildCreate
    <2>5. content.role \subseteq Entities.role /\ content.channel \subseteq Entities.channel
          /\ content.member \subseteq Entities.member
      BY DEF FullContents, Contents
    <2>6. PICK s : s = SetGuild(g, content, count)
      OBVIOUS
    <2>7. \A op \in Items(s) : op.do \in {"ref", "guild", "emojis", "store"}
                               /\ (op.do = "store" => op.key = g)
      BY <2>5, <2>6, SetGuildDoes
    <2>8. \A h \in Guilds : \A k \in Plain : \A e \in Entities[k] :
             (\E op \in Items(s) : Puts(op, h, k, e)) <=> h = g /\ e \in content[k]
      BY <2>5, <2>6, SetGuildDoes
    <2>9. WellShaped(s)
      BY <2>7 DEF WellShaped
    <2>10. ASSUME NEW h \in Guilds, NEW k \in Plain, NEW e \in Entities[k]
           PROVE  /\ (\E op \in Items(s) : Puts(op, h, k, e)) <=> Brings(event, h, k, e)
                  /\ s = <<DropOp(k, h, e)>> <=> Takes(event, h, k, e)
      <3>1. (h = g /\ e \in content[k]) <=> Brings(event, h, k, e)
        BY <2>1, <2>2 DEF Brings
      <3>2. ~Takes(event, h, k, e)
        BY <2>1 DEF Takes
      <3>3. DropOp(k, h, e) \in Items(<<DropOp(k, h, e)>>) /\ DropOp(k, h, e).do = "drop"
        BY DEF Items, DropOp
      <3> QED BY <2>7, <2>8, <3>1, <3>2, <3>3
    <2>11. \A op \in Items(s) :
              op.do # "rewrite" /\ (op.do \in {"store", "drop"} => op.key = event.guild)
      BY <2>2, <2>7
    <2>12. Does(s, event)
      BY <2>9, <2>10, <2>11, Zenon DEF Does
    <2> QED BY <2>4, <2>6, <2>12
  <1>4. CASE event \in UpdateEvents
    <2>1. PICK g \in Guilds : g = event.guild
      BY <1>4 DEF UpdateEvents
    <2>2. event.type \in {"update", "emojis", "stickers"} /\ event.content.role \in SUBSET Entities.role
      BY <1>4 DEF UpdateEvents, FullContents, Contents
    <2>3. CASE event.type = "update"
      <3>1. PICK roles \in (SUBSET Entities.role) \union {None} :
               roles = event.content.role /\ roles \in SUBSET Of("role")
        BY <2>2, TableKinds
      <3>2. roles # None
        BY <3>1, OfSome, TableKinds
      <3>3. Handler(event) = GetGuild(g) \o <<[do |-> "rewrite", guild |-> g, role |-> roles]>>
        BY <2>1, <2>3, <3>1 DEF Handler, OnGuildUpdate
      <3> QED BY <2>1, <2>3, <3>1, <3>2, <3>3, RewriteDoes
    <2>4. CASE event.type = "stickers"
      <3>1. PICK roles \in (SUBSET Entities.role) \union {None} : roles = None
        OBVIOUS
      <3>2. Handler(event) = GetGuild(g) \o <<[do |-> "rewrite", guild |-> g, role |-> roles]>>
        BY <2>1, <2>4, <3>1 DEF Handler, OnStickersUpdate
      <3> QED BY <2>1, <2>4, <3>1, <3>2, RewriteDoes
    <2>5. CASE event.type = "emojis"
      <3>1. Handler(event) = <<Op("noEmojis", g), Op("emojis", g)>>
        BY <2>1, <2>5 DEF Handler, OnEmojisUpdate
      <3>2. Items(Handler(event)) = {Op("noEmojis", g), Op("emojis", g)}
        BY <3>1 DEF Items
      <3>3. \A op \in Items(Handler(event)) :
               op.do # "rewrite" /\ (op.do \in {"store", "drop"} => op.kind \notin Plain)
        BY <3>2 DEF Op
      <3> QED BY <2>5, <3>3, DoesNothing DEF Brings, Takes
    <2> QED BY <2>2, <2>3, <2>4, <2>5
  <1> QED BY <1>1, <1>2, <1>3, <1>4 DEF Events

-----------------------------------------------------------------------------
(* Who has to do with a guild, and how handlers are shaped                  *)

\* Only managers that were in a guild have to do with it, and what its updates
\* write back is recorded.
OpKnown(m, op) ==
    /\ op.do \in {"store", "drop"} /\ op.kind \in Plain => m \in served[op.key]
    /\ op.do = "rewrite" =>
          /\ m \in served[op.guild] /\ "channel" \in updated[op.guild]
          /\ op.role = None => "role" \in updated[op.guild]
EventKnown(m, event) ==
    /\ m \in served[event.guild]
    /\ event.type \in DOMAIN WritesBack => WritesBack[event.type] \subseteq updated[event.guild]

WorldOK ==
    /\ bots \in [Guilds -> SUBSET Managers] /\ served \in [Guilds -> SUBSET Managers]
    /\ unseen = [g \in Guilds |-> unseen[g]] /\ updated = [g \in Guilds |-> updated[g]]
    /\ \A g \in Guilds : bots[g] \subseteq served[g] /\ (g \notin left => bots[g] = served[g])

HandlersOK ==
    \A m \in Managers :
       /\ WellShaped(todo[m])
       /\ \A op \in Items(todo[m]) : OpKnown(m, op)
       /\ \A event \in Items(inbox[m]) : EventKnown(m, event)

\* History only grows.
Grows ==
    /\ \A g \in Guilds : served[g] \subseteq served'[g] /\ unseen[g] \subseteq unseen'[g]
                         /\ updated[g] \subseteq updated'[g]
    /\ left \subseteq left'

\* An event of the guild is sent to some of those that serve it.
Sent(g, event) ==
    /\ event \in Events /\ event.guild = g
    /\ \A m \in Managers :
          \/ inbox'[m] = inbox[m]
          \/ inbox'[m] = Append(inbox[m], event) /\ EventKnown(m, event)'

LEMMA TailItems ==
    ASSUME NEW s \in Seq(Operations), s # <<>>
    PROVE  /\ Items(s) = {Head(s)} \union Items(Tail(s)) /\ Tail(s) \in Seq(Operations)
           /\ WellShaped(s) =>
                WellShaped(Tail(s)) /\ \A op \in Items(Tail(s)) : ~(op.do = "drop" /\ op.kind \in Plain)
  <1>1. Items(s) = {Head(s)} \union Items(Tail(s)) /\ Tail(s) \in Seq(Operations)
    BY ItemsTail
  <1>2. ASSUME WellShaped(s), NEW op \in Items(Tail(s)), op.do = "drop" /\ op.kind \in Plain
        PROVE  FALSE
    <2>1. PICK x : s = <<DropOp(op.kind, op.key, x)>>
      BY <1>1, <1>2 DEF WellShaped
    <2>2. Tail(s) = <<>>
      BY <2>1
    <2>3. Items(Tail(s)) = {}
      BY <1>1, <2>2, ItemsTail
    <2> QED BY <1>2, <2>3
  <1>3. WellShaped(s) => WellShaped(Tail(s))
    BY <1>1, <1>2 DEF WellShaped
  <1> QED BY <1>1, <1>2, <1>3

LEMMA OpStaysKnown ==
    ASSUME Grows, NEW m \in Managers, NEW op \in Operations, OpKnown(m, op)
    PROVE  OpKnown(m, op)'
  <1>1. OperationOK(op)
    BY OperationIs
  <1>2. op.do \in {"store", "drop"} /\ op.kind \in Plain => op.key \in Guilds
    BY <1>1 DEF OperationOK, MapOp, Plain, Keys
  <1>3. op.do = "rewrite" => op.guild \in Guilds
    BY <1>1 DEF OperationOK
  <1>4. ASSUME op.do \in {"store", "drop"}, op.kind \in Plain
        PROVE  m \in served'[op.key]
    BY <1>2, <1>4 DEF Grows, OpKnown
  <1>5. ASSUME op.do = "rewrite"
        PROVE  /\ m \in served'[op.guild] /\ "channel" \in updated'[op.guild]
               /\ op.role = None => "role" \in updated'[op.guild]
    BY <1>3, <1>5 DEF Grows, OpKnown
  <1> QED BY <1>4, <1>5 DEF OpKnown

LEMMA EventStaysKnown ==
    ASSUME Grows, NEW m \in Managers, NEW event \in Events, EventKnown(m, event)
    PROVE  EventKnown(m, event)'
  <1>1. event.guild \in Guilds
    BY DEF Events, CreateEvents, DeleteEvents, UpdateEvents, EntityEvents, TouchEvents, MoveEvents
  <1> QED BY <1>1 DEF Grows, EventKnown

LEMMA SentKnown ==
    ASSUME TInv, HandlersOK, Grows, NEW g, NEW event, Sent(g, event), UNCHANGED todo
    PROVE  HandlersOK'
  <1> SUFFICES ASSUME NEW m \in Managers
               PROVE  /\ WellShaped(todo[m])
                      /\ \A op \in Items(todo[m]) : OpKnown(m, op)'
                      /\ \A x \in Items(inbox'[m]) : EventKnown(m, x)'
    BY DEF HandlersOK
  <1>1. todo[m] \in Seq(Operations) /\ inbox[m] \in Seq(Events)
    BY DEF TInv, TodoOK, InboxOK
  <1>2. \A op \in Items(todo[m]) : op \in Operations /\ OpKnown(m, op)
    BY <1>1 DEF HandlersOK, Items
  <1>3. \A x \in Items(inbox[m]) : x \in Events /\ EventKnown(m, x)
    BY <1>1 DEF HandlersOK, Items
  <1>4. \A x \in Items(inbox'[m]) : x \in Items(inbox[m]) \/ (x = event /\ EventKnown(m, event)')
    <2>1. event \in Events /\ Items(Append(inbox[m], event)) = Items(inbox[m]) \union {event}
      BY <1>1, ItemsAppend DEF Sent
    <2>2. CASE inbox'[m] = inbox[m]
      BY <2>2
    <2>3. CASE inbox'[m] = Append(inbox[m], event) /\ EventKnown(m, event)'
      BY <2>1, <2>3
    <2> QED BY <2>2, <2>3 DEF Sent
  <1>5. \A op \in Items(todo[m]) : OpKnown(m, op)'
    BY <1>2, OpStaysKnown
  <1>6. \A x \in Items(inbox'[m]) : EventKnown(m, x)'
    BY <1>3, <1>4, EventStaysKnown
  <1> QED BY <1>5, <1>6 DEF HandlersOK

\* A reader takes an event, or goes on with its handler.
LEMMA GoesOnKnown ==
    ASSUME TInv, HandlersOK, NEW m \in Managers, NEW s, WellShaped(s),
           \A op \in Items(s) : OpKnown(m, op), todo' = [todo EXCEPT ![m] = s],
           \A n \in Managers : Items(inbox'[n]) \subseteq Items(inbox[n]), UNCHANGED world
    PROVE  HandlersOK'
  <1>1. \A n \in Managers : todo'[n] = IF n = m THEN s ELSE todo[n]
    BY DEF TInv, TodoOK
  <1>2. UNCHANGED <<served, updated>>
    BY DEF world
  <1> SUFFICES ASSUME NEW n \in Managers
               PROVE  /\ WellShaped(todo'[n])
                      /\ \A op \in Items(todo'[n]) : OpKnown(n, op)'
                      /\ \A x \in Items(inbox'[n]) : EventKnown(n, x)'
    BY DEF HandlersOK
  <1>3. \A op : OpKnown(n, op)' <=> OpKnown(n, op)
    BY <1>2 DEF OpKnown
  <1>4. \A x : EventKnown(n, x)' <=> EventKnown(n, x)
    BY <1>2 DEF EventKnown
  <1> QED BY <1>1, <1>3, <1>4 DEF HandlersOK

LEMMA WorldSteps ==
    ASSUME TInv, WorldOK, Discord
    PROVE  WorldOK' /\ Grows /\ \E g \in Guilds : \E event : Sent(g, event)
  <1>1. PICK g \in Guilds :
           \/ \E m \in Managers : Invite(m, g) \/ Kick(m, g)
           \/ \E k \in Kinds : \E e \in Entities[k] : Enter(g, k, e) \/ Leave(g, k, e) \/ Touch(g, k, e)
           \/ \E type \in DOMAIN WritesBack : Update(g, type)
    BY DEF Discord
  <1>2. /\ bots[g] \subseteq Managers /\ bots[g] \subseteq served[g] /\ truth[g] \in FullContents
        /\ inbox \in [Managers -> Seq(Events)]
        /\ truth = [x \in Guilds |-> truth[x]] /\ Self \in truth[g].member
    BY DEF TInv, TruthOK, InboxOK, WorldOK
  <1>3. ASSUME NEW event \in Events, event.guild = g, Send(g, event), UNCHANGED served,
               event.type \in DOMAIN WritesBack => WritesBack[event.type] \subseteq updated'[g]
        PROVE  Sent(g, event)
    BY <1>2, <1>3 DEF Sent, Send, EventKnown
  <1>4. ASSUME NEW m \in Managers, Invite(m, g) PROVE WorldOK' /\ Grows /\ \E event : Sent(g, event)
    <2>0. PICK event : event = [type |-> "create", guild |-> g, content |-> truth[g]]
      OBVIOUS
    <2>1. /\ bots' = [bots EXCEPT ![g] = @ \union {m}] /\ served' = [served EXCEPT ![g] = @ \union {m}]
          /\ inbox' = [inbox EXCEPT ![m] = Append(inbox[m], event)]
          /\ UNCHANGED <<unseen, left, updated>>
      BY <1>2, <1>4, <2>0 DEF Invite
    <2>2. event \in Events
      BY <1>2, <2>0 DEF Events, CreateEvents
    <2>3. event.guild = g /\ event.type \notin DOMAIN WritesBack /\ m \in served'[g]
      BY <2>0, <2>1 DEF WritesBack, WorldOK
    <2>4. EventKnown(m, event)'
      BY <2>3 DEF EventKnown
    <2>5. \A n \in Managers : inbox'[n] = IF n = m THEN Append(inbox[m], event) ELSE inbox[n]
      BY <1>2, <2>1
    <2>6. Sent(g, event)
      <3> SUFFICES ASSUME NEW n \in Managers
                   PROVE  \/ inbox'[n] = inbox[n]
                          \/ inbox'[n] = Append(inbox[n], event) /\ EventKnown(n, event)'
        BY <2>2, <2>3 DEF Sent
      <3> QED BY <2>4, <2>5
    <2>7. WorldOK' /\ Grows
      BY <2>1 DEF WorldOK, Grows
    <2> QED BY <2>6, <2>7
  <1>5. ASSUME NEW m \in Managers, Kick(m, g) PROVE WorldOK' /\ Grows /\ \E event : Sent(g, event)
    <2>0. PICK event : event = [type |-> "delete", guild |-> g]
      OBVIOUS
    <2>1. /\ bots' = [bots EXCEPT ![g] = @ \ {m}] /\ left' = left \union {g} /\ m \in bots[g]
          /\ inbox' = [inbox EXCEPT ![m] = Append(inbox[m], event)]
          /\ UNCHANGED <<unseen, served, updated>>
      BY <1>2, <1>5, <2>0 DEF Kick
    <2>2. event \in Events
      BY <2>0 DEF Events, DeleteEvents
    <2>3. event.guild = g /\ event.type \notin DOMAIN WritesBack /\ m \in served'[g]
      BY <1>2, <2>0, <2>1 DEF WritesBack
    <2>4. EventKnown(m, event)'
      BY <2>3 DEF EventKnown
    <2>5. \A n \in Managers : inbox'[n] = IF n = m THEN Append(inbox[m], event) ELSE inbox[n]
      BY <1>2, <2>1
    <2>6. Sent(g, event)
      <3> SUFFICES ASSUME NEW n \in Managers
                   PROVE  \/ inbox'[n] = inbox[n]
                          \/ inbox'[n] = Append(inbox[n], event) /\ EventKnown(n, event)'
        BY <2>2, <2>3 DEF Sent
      <3> QED BY <2>4, <2>5
    <2>7. WorldOK' /\ Grows
      BY <2>1 DEF WorldOK, Grows
    <2> QED BY <2>6, <2>7
  <1>6. ASSUME NEW k \in Kinds, NEW e \in Entities[k], Enter(g, k, e) \/ Leave(g, k, e) \/ Touch(g, k, e)
        PROVE  WorldOK' /\ Grows /\ \E event : Sent(g, event)
    <2>1. PICK type \in {"enter", "leave", "touch"} :
             /\ Send(g, [type |-> type, guild |-> g, kind |-> k, entity |-> e])
             /\ type # "touch" /\ k = "member" => e # Self
             /\ UNCHANGED <<bots, served, left, updated>>
             /\ unseen' = unseen \/ unseen' = [unseen EXCEPT ![g] = @ \union {e}]
      <3>1. CASE Enter(g, k, e)
        <4>1. k = "member" => e # Self
          BY <1>2, <3>1 DEF Enter
        <4> QED BY <3>1, <4>1 DEF Enter, Unseen
      <3>2. CASE Leave(g, k, e)
        BY <3>2 DEF Leave, Unseen
      <3>3. CASE Touch(g, k, e)
        BY <3>3 DEF Touch
      <3> QED BY <1>6, <3>1, <3>2, <3>3
    <2>2. PICK event : event = [type |-> type, guild |-> g, kind |-> k, entity |-> e]
      OBVIOUS
    <2>3. event \in Events
      <3>1. type # "touch" => (k = "member" => e \in Users)
        BY <2>1 DEF Entities
      <3> QED BY <2>2, <3>1 DEF Events, EntityEvents, TouchEvents, MoveEvents
    <2>4. event.guild = g /\ event.type \notin DOMAIN WritesBack
      BY <2>2 DEF WritesBack
    <2>5. Sent(g, event)
      BY <1>3, <2>1, <2>2, <2>3, <2>4
    <2>6. WorldOK' /\ Grows
      BY <2>1 DEF WorldOK, Grows
    <2> QED BY <2>5, <2>6
  <1>7. ASSUME NEW type \in DOMAIN WritesBack, Update(g, type)
        PROVE  WorldOK' /\ Grows /\ \E event : Sent(g, event)
    <2>1. PICK event : event = [type |-> type, guild |-> g, content |-> truth[g]]
      OBVIOUS
    <2>2. PICK W : W = WritesBack[type]
      OBVIOUS
    <2>3. /\ updated' = [updated EXCEPT ![g] = @ \union W] /\ Send(g, event)
          /\ UNCHANGED <<bots, served, unseen, left>>
      BY <1>7, <2>1, <2>2 DEF Update
    <2>4. event \in Events /\ event.guild = g /\ event.type = type
      <3>1. type \in {"update", "emojis", "stickers"}
        BY DEF WritesBack
      <3> QED BY <1>2, <2>1, <3>1 DEF Events, UpdateEvents
    <2>5. W \subseteq updated'[g]
      BY <2>3 DEF WorldOK
    <2>6. Sent(g, event)
      BY <1>3, <2>2, <2>3, <2>4, <2>5
    <2>7. WorldOK' /\ Grows
      BY <2>3 DEF WorldOK, Grows
    <2> QED BY <2>6, <2>7
  <1> QED BY <1>1, <1>4, <1>5, <1>6, <1>7

LEMMA NothingItems == Items(<<>>) = {} /\ WellShaped(<<>>)
  <1>1. Items(<<>>) = {}
    BY DEF Items
  <1> QED BY <1>1 DEF WellShaped

\* The operations a reader goes over without more.
Passes(m) ==
    \/ Reference(m) \/ Unreference(m) \/ StoreGuild(m) \/ Increment(m) \/ Decrement(m)
    \/ StoreEmojis(m) \/ RemoveEmojis(m) \/ Mark(m) \/ Unmark(m)

LEMMA PassesSteps ==
    ASSUME NEW m \in Managers, Passes(m)
    PROVE  /\ todo[m] # <<>> /\ Next1(m) /\ UNCHANGED <<world, inbox, hand, parts, lost, torn>>
           /\ Head(todo[m]).do \in {"ref", "unref", "guild", "increment", "decrement", "emojis",
                                    "noEmojis", "mark", "unmark"}
           /\ before' = before \/ before' = [before EXCEPT ![m] = None]
  BY DEF Passes, Reference, Unreference, StoreGuild, Increment, Decrement, StoreEmojis, RemoveEmojis,
         Mark, Unmark, Doing

LEMMA PassesHandlers ==
    ASSUME TInv, HandlersOK, NEW m \in Managers,
           Passes(m) \/ Drop(m) \/ ReadGuild(m) \/ ReadPart(m) \/ Check(m)
    PROVE  HandlersOK'
  <1>1. todo[m] # <<>> /\ UNCHANGED <<world, inbox>>
        /\ (todo' = [todo EXCEPT ![m] = Tail(todo[m])] \/ todo' = [todo EXCEPT ![m] = <<>>])
    <2>1. CASE Passes(m)
      BY <2>1, PassesSteps DEF Next1
    <2>2. CASE Drop(m)
      BY <2>2, SMTT(60) DEF Drop, Doing, Next1
    <2>3. CASE ReadGuild(m) \/ ReadPart(m)
      BY <2>3, ZenonT(60) DEF ReadGuild, ReadPart, Doing, Next1
    <2>4. CASE Check(m)
      BY <2>4 DEF Check, Doing
    <2> QED BY <2>1, <2>2, <2>3, <2>4
  <1>2. /\ todo[m] \in Seq(Operations) /\ WellShaped(todo[m])
        /\ \A op \in Items(todo[m]) : OpKnown(m, op)
    BY DEF TInv, TodoOK, HandlersOK
  <1>3. CASE todo' = [todo EXCEPT ![m] = Tail(todo[m])]
    <2>1. WellShaped(Tail(todo[m])) /\ \A op \in Items(Tail(todo[m])) : OpKnown(m, op)
      BY <1>1, <1>2, TailItems
    <2>2. PICK s : s = Tail(todo[m])
      OBVIOUS
    <2> QED BY <1>1, <1>3, <2>1, <2>2, GoesOnKnown
  <1>4. CASE todo' = [todo EXCEPT ![m] = <<>>]
    <2>1. PICK s : s = <<>>
      OBVIOUS
    <2>2. WellShaped(s) /\ \A op \in Items(s) : OpKnown(m, op)
      BY <2>1, NothingItems
    <2> QED BY <1>1, <1>4, <2>1, <2>2, GoesOnKnown
  <1> QED BY <1>1, <1>3, <1>4

LEMMA LoadHandlers ==
    ASSUME TInv, HandlersOK, NEW m \in Managers, Load(m)
    PROVE  HandlersOK'
  <1>1. UNCHANGED <<world, inbox, todo>>
    BY DEF Load
  <1>2. UNCHANGED <<served, updated>>
    BY <1>1 DEF world
  <1> QED BY <1>1, <1>2 DEF HandlersOK, OpKnown, EventKnown

\* What is left of a handler, s, after entry e of operation op is stored.
StoreLeft(m, op, e, s) ==
    /\ op = Head(todo[m]) /\ MapOp(op) /\ op.do = "store" /\ todo[m] # <<>>
    /\ e = hand[m].entry /\ e \in op.entries
    /\ todo' = [todo EXCEPT ![m] = s]
    /\ Items(todo[m]) = {op} \union Items(Tail(todo[m]))
    /\ Items(s) = Items(Tail(todo[m])) \union
          (IF op.entries = {e} THEN {}
           ELSE {[do |-> "store", kind |-> op.kind, key |-> op.key, entries |-> op.entries \ {e}]})

LEMMA StoreLeaves ==
    ASSUME TInv, HandlersOK, NEW m \in Managers, Store(m)
    PROVE  \E op \in Operations : \E s \in Seq(Operations) : \E e : StoreLeft(m, op, e, s)
  <1>1. PICK op \in Operations : op = Head(todo[m]) /\ MapOp(op)
    BY HoldsTyped, NextTyped DEF Store
  <1>2. PICK e : e = hand[m].entry
    OBVIOUS
  <1>3. e \in op.entries /\ todo[m] # <<>> /\ op.do = "store"
    BY <1>1, <1>2, HoldsTyped DEF Store, Doing
  <1>4. PICK S \in SUBSET Of(op.kind) : S = op.entries \ {e}
    BY <1>1 DEF MapOp
  <1>5. PICK s : s = StoreOps(op.kind, op.key, S) \o Tail(todo[m])
    OBVIOUS
  <1>6. op.kind \in Tables /\ op.key \in Keys(op.kind)
    BY <1>1 DEF MapOp
  <1>7. StoreOps(op.kind, op.key, S) \in Seq(Operations) /\ Tail(todo[m]) \in Seq(Operations)
    BY <1>3, <1>6, StoreOpsTyped, NextTyped
  <1>8. s \in Seq(Operations)
        /\ Items(s) = Items(StoreOps(op.kind, op.key, S)) \union Items(Tail(todo[m]))
    <2>1. PICK front \in Seq(Operations), rest \in Seq(Operations) :
             front = StoreOps(op.kind, op.key, S) /\ rest = Tail(todo[m])
      BY <1>7
    <2>2. front \o rest \in Seq(Operations) /\ Items(front \o rest) = Items(front) \union Items(rest)
      BY ItemsConcat
    <2> QED BY <1>5, <2>1, <2>2
  <1>9. Items(StoreOps(op.kind, op.key, S)) =
           IF S = {} THEN {} ELSE {[do |-> "store", kind |-> op.kind, key |-> op.key, entries |-> S]}
    BY <1>6, StoreOpsItems
  <1>10. S = {} <=> op.entries = {e}
    BY <1>3, <1>4
  <1>11. todo' = [todo EXCEPT ![m] = s]
    BY <1>1, <1>2, <1>4, <1>5 DEF Store
  <1>12. todo[m] \in Seq(Operations)
    BY DEF TInv, TodoOK
  <1>13. Items(todo[m]) = {op} \union Items(Tail(todo[m]))
    BY <1>1, <1>3, <1>12, TailItems
  <1>14. Items(s) = Items(Tail(todo[m])) \union
                    (IF op.entries = {e} THEN {}
                     ELSE {[do |-> "store", kind |-> op.kind, key |-> op.key,
                            entries |-> op.entries \ {e}]})
    BY <1>4, <1>8, <1>9, <1>10
  <1>15. StoreLeft(m, op, e, s)
    BY <1>1, <1>2, <1>3, <1>11, <1>13, <1>14 DEF StoreLeft
  <1> QED BY <1>8, <1>15

LEMMA StoreHandlers ==
    ASSUME TInv, HandlersOK, NEW m \in Managers, Store(m)
    PROVE  HandlersOK'
  <1>0. PICK op \in Operations : \E s \in Seq(Operations) : \E e : StoreLeft(m, op, e, s)
    BY StoreLeaves
  <1>01. PICK s \in Seq(Operations) : \E e : StoreLeft(m, op, e, s)
    BY <1>0
  <1>02. PICK e : StoreLeft(m, op, e, s)
    BY <1>01
  <1>1.  /\ op = Head(todo[m]) /\ MapOp(op) /\ op.do = "store" /\ todo[m] # <<>>
         /\ e = hand[m].entry /\ e \in op.entries
         /\ todo' = [todo EXCEPT ![m] = s]
         /\ Items(todo[m]) = {op} \union Items(Tail(todo[m]))
         /\ Items(s) = Items(Tail(todo[m])) \union
               (IF op.entries = {e} THEN {}
                ELSE {[do |-> "store", kind |-> op.kind, key |-> op.key, entries |-> op.entries \ {e}]})
    BY <1>02 DEF StoreLeft
  <1>2. /\ todo[m] \in Seq(Operations) /\ WellShaped(todo[m])
        /\ \A x \in Items(todo[m]) : OpKnown(m, x)
    BY DEF TInv, TodoOK, HandlersOK
  <1>3. WellShaped(Tail(todo[m]))
        /\ \A x \in Items(Tail(todo[m])) : ~(x.do = "drop" /\ x.kind \in Plain)
    BY <1>1, <1>2, TailItems
  <1>4. ASSUME NEW x \in Items(s)
        PROVE  \/ x \in Items(Tail(todo[m]))
               \/ x.do = "store" /\ x.kind = op.kind /\ x.key = op.key
    BY <1>1, <1>4
  <1>5. \A x \in Items(s) : OpKnown(m, x)
    <2>1. OpKnown(m, op) /\ \A x \in Items(Tail(todo[m])) : OpKnown(m, x)
      BY <1>1, <1>2
    <2>2. \A x : x.do = "store" /\ x.kind = op.kind /\ x.key = op.key => OpKnown(m, x)
      BY <1>1, <2>1 DEF OpKnown
    <2> QED BY <1>4, <2>1, <2>2
  <1>6. WellShaped(s)
    <2> SUFFICES ASSUME NEW x \in Items(s)
                 PROVE  /\ ~(x.do = "drop" /\ x.kind \in Plain)
                        /\ x.do = "check" =>
                             \A y \in Items(s) : y.do # "rewrite" /\ (y.do = "store" => y.kind \notin Plain)
                        /\ x.do = "rewrite" =>
                             \A y \in Items(s) \ {x} : y.do \in ReadDos /\ y.guild = x.guild
      BY DEF WellShaped
    <2>1. ~(x.do = "drop" /\ x.kind \in Plain)
      BY <1>3, <1>4
    <2>2. ASSUME x.do = "check"
          PROVE  \A y \in Items(s) : y.do # "rewrite" /\ (y.do = "store" => y.kind \notin Plain)
      <3>1. x \in Items(todo[m])
        BY <1>1, <1>4, <2>2
      <3>2. \A y \in Items(todo[m]) : y.do # "rewrite" /\ (y.do = "store" => y.kind \notin Plain)
        BY <1>2, <2>2, <3>1 DEF WellShaped
      <3> QED BY <1>1, <1>4, <3>2
    <2>3. ASSUME x.do = "rewrite"
          PROVE  FALSE
      <3>1. x \in Items(todo[m]) /\ op \in Items(todo[m]) /\ op # x
        BY <1>1, <1>4, <2>3
      <3>2. op.do \in ReadDos
        BY <1>2, <2>3, <3>1 DEF WellShaped
      <3> QED BY <1>1, <3>2 DEF ReadDos
    <2> QED BY <2>1, <2>2, <2>3
  <1>7. UNCHANGED <<world, inbox>>
    BY DEF Store
  <1> QED BY <1>1, <1>5, <1>6, <1>7, GoesOnKnown

LEMMA HandleHandlers ==
    ASSUME TInv, HandlersOK, NEW m \in Managers, Handle(m)
    PROVE  HandlersOK'
  <1>1. /\ inbox[m] \in Seq(Events) /\ inbox[m] # <<>> /\ inbox' = [inbox EXCEPT ![m] = Tail(inbox[m])]
        /\ \A x \in Items(inbox[m]) : EventKnown(m, x) /\ UNCHANGED world /\ inbox \in [Managers -> Seq(Events)]
    BY DEF TInv, InboxOK, HandlersOK, Handle
  <1>2. Items(inbox[m]) = {Head(inbox[m])} \union Items(Tail(inbox[m]))
    BY <1>1, ItemsTail
  <1>3. PICK event \in Events : event = Head(inbox[m])
    BY <1>1
  <1>4. PICK s : s = Handler(event)
    OBVIOUS
  <1>5. Does(s, event) /\ event.guild \in Guilds
    <2>1. event.guild \in Guilds
      BY DEF Events, CreateEvents, DeleteEvents, UpdateEvents, EntityEvents, TouchEvents, MoveEvents
    <2> QED BY <1>4, <2>1, HandlerDoes
  <1>6. EventKnown(m, event)
    BY <1>1, <1>2, <1>3
  <1>7. ASSUME NEW op \in Items(s)
        PROVE  OpKnown(m, op)
    <2>1. /\ op.do \in {"store", "drop"} /\ op.kind \in Plain => op.key = event.guild
          /\ op.do = "rewrite" =>
                /\ op.guild = event.guild
                /\ event.type = "stickers" \/ (event.type = "update" /\ op.role # None)
      BY <1>5, Zenon DEF Does
    <2>2. /\ event.type = "stickers" => {"role", "channel"} \subseteq updated[event.guild]
          /\ event.type = "update" => "channel" \in updated[event.guild]
      BY <1>6 DEF EventKnown, WritesBack
    <2> QED BY <1>6, <2>1, <2>2 DEF OpKnown, EventKnown
  <1>8. WellShaped(s) /\ todo' = [todo EXCEPT ![m] = s]
    BY <1>3, <1>4, <1>5 DEF Does, Handle
  <1>9. \A n \in Managers : Items(inbox'[n]) \subseteq Items(inbox[n])
    BY <1>1, <1>2
  <1>10. UNCHANGED world
    BY DEF Handle
  <1> QED BY <1>7, <1>8, <1>9, <1>10, GoesOnKnown

\* What a handler writes back, with or without what it read: it goes on with s.
RewriteLeft(m, op, s) ==
    /\ op = Head(todo[m]) /\ op.do = "rewrite" /\ todo[m] # <<>> /\ op.guild \in Guilds
    /\ todo' = [todo EXCEPT ![m] = s]
    /\ \A x \in Items(s) :
          x.do \in {"ref", "guild", "emojis", "store"} /\ (x.do = "store" => x.key = op.guild)
    /\ \A h \in Guilds : \A k \in Plain : \A e \in Entities[k] :
          (\E x \in Items(s) : Puts(x, h, k, e)) <=>
             /\ h = op.guild
             /\ \/ op.role # None /\ k = "role" /\ e \in op.role
                \/ (k = "channel" \/ op.role = None) /\ before[m] # None /\ e \in before[m][k]

\* The guild as it is written back.
WrittenBack(m, op, old, content, count) ==
    /\ todo' = [todo EXCEPT ![m] = SetGuild(op.guild, content, count)]
    /\ content.role \subseteq Entities.role /\ content.channel \subseteq Entities.channel
    /\ content.member \subseteq Entities.member
    /\ content.role = IF op.role # None THEN op.role ELSE old.role
    /\ content.channel = IF old # None THEN old.channel ELSE {}

LEMMA RewriteLeaves ==
    ASSUME TInv, HandlersOK, NEW m \in Managers, Rewrite(m)
    PROVE  \E op \in Operations : \E s \in Seq(Operations) : RewriteLeft(m, op, s)
  <1>1. todo[m] # <<>> /\ Head(todo[m]).do = "rewrite"
    BY DEF Rewrite, Doing
  <1>2. PICK op \in Operations : op = Head(todo[m]) /\ OperationOK(op)
    BY <1>1, NextTyped
  <1>3. op.guild \in Guilds /\ op.role \in (SUBSET Entities.role) \union {None}
    BY <1>1, <1>2 DEF OperationOK
  <1>4. PICK old : old = before[m]
    OBVIOUS
  <1>5. old \in Reads \union {None}
    BY <1>4 DEF TInv, BeforeOK
  <1>6. Plain = {"role", "channel"}
    BY DEF Plain
  <1>7. CASE old = None /\ op.role = None
    <2>1. todo' = [todo EXCEPT ![m] = <<>>]
      BY <1>2, <1>4, <1>7 DEF Rewrite
    <2>2. PICK s \in Seq(Operations) : s = <<>>
      <3>1. <<>> \in Seq(Operations)
        OBVIOUS
      <3> QED BY <3>1, Zenon
    <2>3. Items(s) = {}
      BY <2>2, NothingItems
    <2>4. RewriteLeft(m, op, s)
      BY <1>1, <1>2, <1>3, <1>4, <1>6, <1>7, <2>1, <2>2, <2>3 DEF RewriteLeft
    <2> QED BY <2>4
  <1>8. CASE old # None \/ op.role # None
    <2>0. \E count \in Int : \E content : WrittenBack(m, op, old, content, count)
      <3>1. CASE old = None
        <4>1. PICK content : content = [role |-> op.role, channel |-> {}, member |-> {}]
          OBVIOUS
        <4>2. todo' = [todo EXCEPT ![m] = SetGuild(op.guild, content, 0)]
          BY <1>2, <1>4, <1>8, <3>1, <4>1 DEF Rewrite
        <4>3. /\ content.role \subseteq Entities.role /\ content.channel \subseteq Entities.channel
              /\ content.member \subseteq Entities.member
              /\ content.role = op.role /\ content.channel = {} /\ op.role # None
          BY <1>3, <1>8, <3>1, <4>1
        <4>4. WrittenBack(m, op, old, content, 0)
          BY <3>1, <4>2, <4>3 DEF WrittenBack
        <4> QED BY <4>4
      <3>2. CASE old # None /\ op.role = None
        <4>1. todo' = [todo EXCEPT ![m] = SetGuild(op.guild, old, old.count)]
          BY <1>2, <1>4, <3>2 DEF Rewrite
        <4>2. old.count \in Int /\ old.role \subseteq Entities.role /\ old.channel \subseteq Entities.channel
              /\ old.member \subseteq Entities.member
          BY <1>5, <3>2 DEF Reads
        <4>3. WrittenBack(m, op, old, old, old.count)
          BY <3>2, <4>1, <4>2 DEF WrittenBack
        <4> QED BY <4>2, <4>3
      <3>3. CASE old # None /\ op.role # None
        <4>1. old.count \in Int /\ old \in Reads
          BY <1>5, <3>3 DEF Reads
        <4>2. PICK content : content = [old EXCEPT !.role = op.role]
          OBVIOUS
        <4>3. content.role = op.role /\ content.channel = old.channel /\ content.member = old.member
              /\ old.channel \subseteq Entities.channel /\ old.member \subseteq Entities.member
          BY <4>1, <4>2 DEF Reads
        <4>4. todo' = [todo EXCEPT ![m] = SetGuild(op.guild, content, old.count)]
          BY <1>2, <1>4, <3>3, <4>2 DEF Rewrite
        <4>5. op.role \subseteq Entities.role
          BY <1>3, <3>3
        <4>6. content.role \subseteq Entities.role
          BY <4>3, <4>5
        <4>7. WrittenBack(m, op, old, content, old.count)
          BY <3>3, <4>3, <4>4, <4>6 DEF WrittenBack
        <4> QED BY <4>1, <4>7
      <3> QED BY <1>8, <3>1, <3>2, <3>3
    <2>01. PICK count \in Int : \E content : WrittenBack(m, op, old, content, count)
      BY <2>0
    <2>02. PICK content : WrittenBack(m, op, old, content, count)
      BY <2>01
    <2>1. /\ content.role \subseteq Entities.role /\ content.channel \subseteq Entities.channel
          /\ content.member \subseteq Entities.member
          /\ todo' = [todo EXCEPT ![m] = SetGuild(op.guild, content, count)]
          /\ content.role = IF op.role # None THEN op.role ELSE old.role
          /\ content.channel = IF old # None THEN old.channel ELSE {}
      BY <2>02 DEF WrittenBack
    <2>2. PICK s \in Seq(Operations) : s = SetGuild(op.guild, content, count)
      BY <1>3, <2>1, SetGuildTyped
    <2>3. /\ \A x \in Items(s) :
                x.do \in {"ref", "guild", "emojis", "store"} /\ (x.do = "store" => x.key = op.guild)
          /\ \A h \in Guilds : \A k \in Plain : \A e \in Entities[k] :
                (\E x \in Items(s) : Puts(x, h, k, e)) <=> h = op.guild /\ e \in content[k]
      <3>1. \A x \in Items(SetGuild(op.guild, content, count)) :
               x.do \in {"ref", "guild", "emojis", "store"} /\ (x.do = "store" => x.key = op.guild)
        BY <1>3, <2>1, SetGuildDoes
      <3>2. \A h \in Guilds : \A k \in Plain : \A e \in Entities[k] :
               (\E x \in Items(SetGuild(op.guild, content, count)) : Puts(x, h, k, e))
                  <=> h = op.guild /\ e \in content[k]
        BY <1>3, <2>1, SetGuildDoes
      <3> QED BY <2>2, <3>1, <3>2
    <2>4. ASSUME NEW h \in Guilds, NEW k \in Plain, NEW e \in Entities[k]
          PROVE  e \in content[k] <=>
                    \/ op.role # None /\ k = "role" /\ e \in op.role
                    \/ (k = "channel" \/ op.role = None) /\ old # None /\ e \in old[k]
      <3>1. CASE k = "role"
        BY <1>8, <2>1, <3>1
      <3>2. CASE k = "channel"
        BY <1>8, <2>1, <3>2
      <3> QED BY <1>6, <3>1, <3>2
    <2>5. todo' = [todo EXCEPT ![m] = s]
      BY <2>1, <2>2
    <2>6. \A h \in Guilds : \A k \in Plain : \A e \in Entities[k] :
                    (\E x \in Items(s) : Puts(x, h, k, e)) <=>
                       /\ h = op.guild
                       /\ \/ op.role # None /\ k = "role" /\ e \in op.role
                          \/ (k = "channel" \/ op.role = None) /\ before[m] # None /\ e \in before[m][k]
      BY <1>4, <2>3, <2>4
    <2>7. RewriteLeft(m, op, s)
      BY <1>1, <1>2, <1>3, <2>3, <2>5, <2>6 DEF RewriteLeft
    <2> QED BY <2>7
  <1> QED BY <1>7, <1>8

LEMMA RewriteHandlers ==
    ASSUME TInv, HandlersOK, NEW m \in Managers, Rewrite(m)
    PROVE  HandlersOK'
  <1>0. PICK op \in Operations : \E s \in Seq(Operations) : RewriteLeft(m, op, s)
    BY RewriteLeaves
  <1>01. PICK s \in Seq(Operations) : RewriteLeft(m, op, s)
    BY <1>0
  <1>1.  /\ op = Head(todo[m]) /\ op.do = "rewrite" /\ todo[m] # <<>> /\ op.guild \in Guilds
         /\ todo' = [todo EXCEPT ![m] = s]
         /\ \A x \in Items(s) :
               x.do \in {"ref", "guild", "emojis", "store"} /\ (x.do = "store" => x.key = op.guild)
    BY <1>01 DEF RewriteLeft
  <1>2. OpKnown(m, op)
    <2>1. todo[m] \in Seq(Operations)
      BY DEF TInv, TodoOK
    <2>2. op \in Items(todo[m])
      BY <1>1, <2>1, TailItems
    <2> QED BY <2>2 DEF HandlersOK
  <1>3. WellShaped(s) /\ \A x \in Items(s) : OpKnown(m, x)
    BY <1>1, <1>2 DEF WellShaped, OpKnown
  <1>4. UNCHANGED <<world, inbox>>
    BY DEF Rewrite
  <1> QED BY <1>1, <1>3, <1>4, GoesOnKnown

\* Readers' handlers and inboxes stay as they are said to be.
LEMMA NextHandlers ==
    ASSUME TInv, WorldOK, HandlersOK, [Next]_vars
    PROVE  WorldOK' /\ HandlersOK'
  <1>1. CASE Discord
    <2>1. UNCHANGED todo
      <3>1. PICK g \in Guilds :
               \/ \E m \in Managers : Invite(m, g) \/ Kick(m, g)
               \/ \E k \in Kinds : \E e \in Entities[k] :
                     Enter(g, k, e) \/ Leave(g, k, e) \/ Touch(g, k, e)
               \/ \E type \in DOMAIN WritesBack : Update(g, type)
        BY <1>1 DEF Discord
      <3> QED BY <3>1 DEF Invite, Kick, Enter, Leave, Touch, Update
    <2> QED BY <1>1, <2>1, WorldSteps, SentKnown
  <1>2. ASSUME NEW m \in Managers, Reader(m) PROVE WorldOK' /\ HandlersOK'
    <2>1. UNCHANGED world
      BY <1>2, ZenonT(60) DEF Reader, Handle, Reference, Unreference, StoreGuild, Increment, Decrement,
           StoreEmojis, RemoveEmojis, Load, Store, Drop, ReadGuild, ReadPart, Rewrite, Check, Mark, Unmark
    <2>2. WorldOK'
      BY <2>1 DEF WorldOK, world
    <2>3. HandlersOK'
      BY <1>2, PassesHandlers, LoadHandlers, StoreHandlers, HandleHandlers, RewriteHandlers
         DEF Reader, Passes
    <2> QED BY <2>2, <2>3
  <1>3. CASE UNCHANGED <<world, inbox, todo>>
    BY <1>3, SMTT(60) DEF world, WorldOK, HandlersOK, OpKnown, EventKnown
  <1>4. Ejector \/ (\E key \in dedupe : ExpireKey(key)) \/ UNCHANGED vars => UNCHANGED <<world, inbox, todo>>
    BY DEF Ejector, BeginEject, ListVictims, EndEject, Scan, Remove, ExpireKey, vars
  <1> QED BY <1>1, <1>2, <1>3, <1>4 DEF Next

-----------------------------------------------------------------------------
(* Roles and channels: the invariant, and how a reader keeps it             *)

Comings(g, k, e) == {event \in Events : Brings(event, g, k, e)}
Goings(g, k, e) == {event \in Events : Takes(event, g, k, e)}

\* What manager m is about to do to entry e: by an event yet to be handled, ...
Coming(m, g, k, e) == Items(inbox[m]) \intersect Comings(g, k, e) # {}
Going(m, g, k, e) == Items(inbox[m]) \intersect Goings(g, k, e) # {}
\* ... by the handler it is in, and by what that read and is to write back.
Putting(m, g, k, e) == \E op \in Items(todo[m]) : Puts(op, g, k, e)
Taking(m, g, k, e) == todo[m] = <<DropOp(k, g, e)>>
Rewriting(m, g, k, e) ==
    /\ todo[m] # <<>> /\ Head(todo[m]).do # "readGuild"
    /\ before[m] # None /\ e \in before[m][k]
    /\ \E op \in Items(todo[m]) : WritesOld(op, g, k)

\* The guilds and the parts of them that have to match.
Counted(g, k) == g \notin lost \union torn /\ (Alone(g) \/ (g \notin left /\ k \notin updated[g]))

\* Whoever is about to do the opposite of what Discord did last does that after it.
Local(m, g, k, e) ==
    IF e \in truth[g][k]
    THEN /\ Followed(inbox[m], Goings(g, k, e), Comings(g, k, e))
         /\ Taking(m, g, k, e) => Coming(m, g, k, e)
    ELSE /\ Followed(inbox[m], Comings(g, k, e), Goings(g, k, e))
         /\ Putting(m, g, k, e) \/ Rewriting(m, g, k, e) => Going(m, g, k, e)

\* What the cache has is as it is on Discord, or somebody is about to make it so.
Agrees(g, k, e) ==
    IF e \in truth[g][k] THEN bots[g] = {} \/ e \in Held(k, g) ELSE e \notin Held(k, g)
Due(m, g, k, e) ==
    IF e \in truth[g][k] THEN Putting(m, g, k, e) \/ Coming(m, g, k, e)
                         ELSE Taking(m, g, k, e) \/ Going(m, g, k, e)

EntryOK(g, k, e) ==
    /\ \A m \in Managers : Local(m, g, k, e)
    /\ Agrees(g, k, e) \/ \E m \in Managers : Due(m, g, k, e)

PlainOK ==
    \A g \in Guilds : \A k \in Plain : \A e \in Entities[k] \ unseen[g] :
       Counted(g, k) => EntryOK(g, k, e)

LEMMA PlainKinds ==
    ASSUME NEW k \in Plain
    PROVE  /\ k \in {"role", "channel"} /\ k \in Kinds /\ k \in Tables /\ Keys(k) = Guilds
           /\ Of(k) = Entities[k] /\ k # "member" /\ k # "mutual"
  BY DEF Plain, Kinds, Tables, Keys, Of

\* A manager that was never in a guild has nothing to do with it.
LEMMA Strangers ==
    ASSUME HandlersOK, NEW m \in Managers, NEW g \in Guilds, m \notin served[g],
           NEW k \in Plain, NEW e
    PROVE  /\ ~Coming(m, g, k, e) /\ ~Going(m, g, k, e)
           /\ ~Putting(m, g, k, e) /\ ~Taking(m, g, k, e) /\ ~Rewriting(m, g, k, e)
  <1>1. \A event \in Items(inbox[m]) : event.guild # g
    BY DEF HandlersOK, EventKnown
  <1>2. ~Coming(m, g, k, e) /\ ~Going(m, g, k, e)
    BY <1>1 DEF Coming, Going, Comings, Goings, Brings, Takes
  <1>3. ASSUME NEW op \in Items(todo[m])
        PROVE  /\ op.do \in {"store", "drop"} /\ op.kind \in Plain => op.key # g
               /\ op.do = "rewrite" => op.guild # g
    BY DEF HandlersOK, OpKnown
  <1>4. ~Putting(m, g, k, e) /\ ~Rewriting(m, g, k, e)
    BY <1>3 DEF Putting, Rewriting, Puts, WritesOld
  <1>5. ~Taking(m, g, k, e)
    <2>1. DropOp(k, g, e) \in Items(<<DropOp(k, g, e)>>)
      BY DEF Items
    <2>2. DropOp(k, g, e).do = "drop" /\ DropOp(k, g, e).kind = k /\ DropOp(k, g, e).key = g
      BY DEF DropOp
    <2> QED BY <1>3, <2>1, <2>2 DEF Taking
  <1> QED BY <1>2, <1>4, <1>5

\* Whoever was in a guild only one manager was ever in is that one.
LEMMA AloneIsOne ==
    ASSUME WorldOK, NEW g \in Guilds, Alone(g), NEW m \in served[g], NEW n \in served[g]
    PROVE  m = n
  <1> SUFFICES ASSUME m # n PROVE FALSE
    OBVIOUS
  <1>1. IsFiniteSet(served[g])
    BY ConstantsAssumption, FS_Subset DEF WorldOK
  <1>2. PICK S : S = {m, n}
    OBVIOUS
  <1>3. S \subseteq served[g] /\ IsFiniteSet(S)
    BY <1>1, <1>2, FS_Subset
  <1>4. Cardinality({m}) = 1 /\ IsFiniteSet({m})
    BY FS_Singleton
  <1>5. Cardinality({m} \union {n}) = Cardinality({m}) + 1
    BY <1>4, FS_AddElement
  <1>6. Cardinality(S) = 2
    <2>1. S = {m} \union {n}
      BY <1>2
    <2> QED BY <1>4, <1>5, <2>1
  <1>7. Cardinality(S) <= Cardinality(served[g]) /\ Cardinality(served[g]) \in Nat
    BY <1>1, <1>3, FS_Subset, FS_CardinalityType
  <1> QED BY <1>6, <1>7 DEF Alone

\* Once a guild does not count, it never does again.
LEMMA CountedBefore ==
    ASSUME WorldOK', Grows, lost \subseteq lost', torn \subseteq torn', NEW g \in Guilds, NEW k,
           Counted(g, k)'
    PROVE  Counted(g, k)
  <1>1. g \notin lost \union torn
    BY DEF Counted
  <1>2. CASE Alone(g)'
    <2>1. IsFiniteSet(served'[g])
      BY ConstantsAssumption, FS_Subset DEF WorldOK
    <2>2. served[g] \subseteq served'[g]
      BY DEF Grows
    <2>3. /\ Cardinality(served[g]) <= Cardinality(served'[g]) /\ IsFiniteSet(served[g])
          /\ Cardinality(served[g]) \in Nat /\ Cardinality(served'[g]) \in Nat
      BY <2>1, <2>2, FS_Subset, FS_CardinalityType
    <2>4. Alone(g)
      BY <1>2, <2>3 DEF Alone
    <2> QED BY <1>1, <2>4 DEF Counted
  <1>3. CASE g \notin left' /\ k \notin updated'[g]
    BY <1>1, <1>3 DEF Counted, Grows
  <1> QED BY <1>2, <1>3 DEF Counted

\* The step of one reader, as far as one entry goes.
Keeps(m, g, k, e) ==
    Counted(g, k)' /\ EntryOK(g, k, e) =>
       /\ Local(m, g, k, e)'
       /\ Agrees(g, k, e) \/ Due(m, g, k, e) => (Agrees(g, k, e) \/ Due(m, g, k, e))'

\* The others are where they were.
OthersStay(m) ==
    \A n \in Managers \ {m} : inbox'[n] = inbox[n] /\ todo'[n] = todo[n] /\ before'[n] = before[n]

LEMMA ReaderKeeps ==
    ASSUME WorldOK, PlainOK, NEW m \in Managers, OthersStay(m), UNCHANGED <<world, torn>>,
           lost \subseteq lost',
           \A g \in Guilds : \A k \in Plain : \A e \in Entities[k] : Keeps(m, g, k, e)
    PROVE  PlainOK'
  <1>1. UNCHANGED <<truth, bots, unseen, served, left, updated>>
    BY DEF world
  <1>2. WorldOK' /\ Grows /\ torn \subseteq torn'
    BY <1>1 DEF WorldOK, Grows
  <1> SUFFICES ASSUME NEW g \in Guilds, NEW k \in Plain, NEW e \in Entities[k], e \notin unseen'[g],
                      Counted(g, k)'
               PROVE  EntryOK(g, k, e)'
    BY DEF PlainOK
  <1>3. EntryOK(g, k, e)
    BY <1>1, <1>2, CountedBefore DEF PlainOK
  <1>4. Keeps(m, g, k, e)
    OBVIOUS
  <1>5. ASSUME NEW n \in Managers, n # m
        PROVE  (Local(n, g, k, e) => Local(n, g, k, e)') /\ (Due(n, g, k, e) => Due(n, g, k, e)')
    <2>1. inbox'[n] = inbox[n] /\ todo'[n] = todo[n] /\ before'[n] = before[n]
      BY <1>5 DEF OthersStay
    <2>2. /\ Coming(n, g, k, e)' <=> Coming(n, g, k, e)
          /\ Going(n, g, k, e)' <=> Going(n, g, k, e)
          /\ Putting(n, g, k, e)' <=> Putting(n, g, k, e)
          /\ Taking(n, g, k, e)' <=> Taking(n, g, k, e)
          /\ Rewriting(n, g, k, e)' <=> Rewriting(n, g, k, e)
      BY <2>1 DEF Coming, Going, Putting, Taking, Rewriting
    <2> QED BY <1>1, <2>1, <2>2 DEF Local, Due
  <1>6. \A n \in Managers : Local(n, g, k, e)'
    BY <1>3, <1>4, <1>5 DEF Keeps, EntryOK
  <1>7. (Agrees(g, k, e) \/ \E n \in Managers : Due(n, g, k, e))'
    <2>1. CASE Agrees(g, k, e) \/ Due(m, g, k, e)
      BY <1>3, <1>4, <2>1 DEF Keeps
    <2>2. ASSUME NEW n \in Managers, n # m, Due(n, g, k, e)
          PROVE  \E x \in Managers : Due(x, g, k, e)'
      BY <1>5, <2>2
    <2> QED BY <1>3, <2>1, <2>2 DEF EntryOK
  <1> QED BY <1>6, <1>7 DEF EntryOK

\* A step that leaves the maps and the inbox of its reader alone.
LEMMA QuietKeeps ==
    ASSUME NEW m \in Managers, NEW g, NEW k, NEW e, UNCHANGED <<world, parts>>,
           inbox'[m] = inbox[m],
           Putting(m, g, k, e) => Putting(m, g, k, e)',
           Putting(m, g, k, e)' => Putting(m, g, k, e) \/ Rewriting(m, g, k, e),
           Taking(m, g, k, e)' <=> Taking(m, g, k, e),
           Counted(g, k)' /\ EntryOK(g, k, e) /\ e \notin truth[g][k] /\ Rewriting(m, g, k, e)' =>
              Rewriting(m, g, k, e) \/ Going(m, g, k, e)
    PROVE  Keeps(m, g, k, e)
  <1>1. UNCHANGED <<truth, bots>> /\ (Held(k, g)' = Held(k, g))
    BY DEF world, Held
  <1>2. (Coming(m, g, k, e)' <=> Coming(m, g, k, e)) /\ (Going(m, g, k, e)' <=> Going(m, g, k, e))
    BY DEF Coming, Going
  <1>3. Agrees(g, k, e)' <=> Agrees(g, k, e)
    BY <1>1 DEF Agrees
  <1>4. Due(m, g, k, e) => Due(m, g, k, e)'
    BY <1>1, <1>2 DEF Due
  <1>5. ASSUME Counted(g, k)', EntryOK(g, k, e)
        PROVE  Local(m, g, k, e)'
    <2>1. Local(m, g, k, e)
      BY <1>5 DEF EntryOK
    <2> QED BY <1>1, <1>2, <1>5, <2>1 DEF Local
  <1> QED BY <1>3, <1>4, <1>5 DEF Keeps

-----------------------------------------------------------------------------
(* Roles and channels: the readers' steps                                   *)

\* No handler is about to remove an entry after its first operation.
LEMMA TailTakes ==
    ASSUME TInv, HandlersOK, NEW m \in Managers, todo[m] # <<>>, NEW g, NEW k \in Plain, NEW e
    PROVE  /\ Items(todo[m]) = {Head(todo[m])} \union Items(Tail(todo[m]))
           /\ Tail(todo[m]) # <<DropOp(k, g, e)>>
           /\ Taking(m, g, k, e) => Head(todo[m]) = DropOp(k, g, e) /\ Tail(todo[m]) = <<>>
  <1>1. todo[m] \in Seq(Operations) /\ WellShaped(todo[m])
    BY DEF TInv, TodoOK, HandlersOK
  <1>2. /\ Items(todo[m]) = {Head(todo[m])} \union Items(Tail(todo[m]))
        /\ \A op \in Items(Tail(todo[m])) : ~(op.do = "drop" /\ op.kind \in Plain)
    BY <1>1, TailItems
  <1>3. Tail(todo[m]) # <<DropOp(k, g, e)>>
    <2>1. DropOp(k, g, e) \in Items(<<DropOp(k, g, e)>>)
      BY DEF Items
    <2>2. DropOp(k, g, e).do = "drop" /\ DropOp(k, g, e).kind = k
      BY DEF DropOp
    <2> QED BY <1>2, <2>1, <2>2
  <1>4. Taking(m, g, k, e) => Head(todo[m]) = DropOp(k, g, e) /\ Tail(todo[m]) = <<>>
    BY DEF Taking
  <1> QED BY <1>2, <1>3, <1>4

LEMMA TodoChanges ==
    ASSUME TInv, NEW m \in Managers, NEW s, todo' = [todo EXCEPT ![m] = s]
    PROVE  todo'[m] = s /\ \A n \in Managers \ {m} : todo'[n] = todo[n]
  BY DEF TInv, TodoOK

LEMMA BeforeChanges ==
    ASSUME TInv, NEW m \in Managers, NEW b, before' = before \/ before' = [before EXCEPT ![m] = b]
    PROVE  before'[m] \in {before[m], b} /\ \A n \in Managers \ {m} : before'[n] = before[n]
  BY DEF TInv, BeforeOK

\* The operations that are passed over, and the check that may end a handler.
LEMMA PassesPlain ==
    ASSUME TInv, WorldOK, HandlersOK, PlainOK, NEW m \in Managers, Passes(m) \/ Check(m)
    PROVE  PlainOK'
  <1>1. /\ todo[m] # <<>> /\ UNCHANGED <<world, inbox, parts, lost, torn>>
        /\ Head(todo[m]).do \in {"ref", "unref", "guild", "increment", "decrement", "emojis",
                                 "noEmojis", "mark", "unmark", "check"}
        /\ before' = before \/ before' = [before EXCEPT ![m] = None]
    <2>1. CASE Passes(m)
      BY <2>1, PassesSteps
    <2>2. CASE Check(m)
      BY <2>2 DEF Check, Doing, state
    <2> QED BY <2>1, <2>2
  <1>2. PICK s : /\ todo' = [todo EXCEPT ![m] = s]
                 /\ s = Tail(todo[m]) \/ (s = <<>> /\ Head(todo[m]).do = "check")
    <2>1. CASE Passes(m)
      BY <2>1, PassesSteps DEF Next1
    <2>2. CASE Check(m)
      BY <2>2 DEF Check, Doing
    <2> QED BY <2>1, <2>2
  <1>3. todo'[m] = s /\ \A n \in Managers \ {m} : todo'[n] = todo[n]
    BY <1>2, TodoChanges
  <1>4. before'[m] \in {before[m], None} /\ \A n \in Managers \ {m} : before'[n] = before[n]
    BY <1>1, BeforeChanges
  <1>5. OthersStay(m)
    BY <1>1, <1>3, <1>4 DEF OthersStay
  <1>6. ASSUME NEW g \in Guilds, NEW k \in Plain, NEW e \in Entities[k]
        PROVE  Keeps(m, g, k, e)
    <2>1. Items(todo[m]) = {Head(todo[m])} \union Items(Tail(todo[m]))
      BY <1>1, TailTakes
    <2>2. ~Puts(Head(todo[m]), g, k, e) /\ ~WritesOld(Head(todo[m]), g, k)
      BY <1>1 DEF Puts, WritesOld
    <2>3. (Putting(m, g, k, e)' <=> Putting(m, g, k, e)) /\ Items(s) \subseteq Items(todo[m])
      <3>1. CASE s = Tail(todo[m])
        BY <1>3, <2>1, <2>2, <3>1 DEF Putting
      <3>2. CASE s = <<>> /\ Head(todo[m]).do = "check"
        <4>1. WellShaped(todo[m]) /\ Head(todo[m]) \in Items(todo[m])
          BY <2>1 DEF HandlersOK
        <4>2. \A y \in Items(todo[m]) : y.do # "rewrite" /\ (y.do = "store" => y.kind \notin Plain)
          BY <3>2, <4>1 DEF WellShaped
        <4>3. ~Putting(m, g, k, e)
          BY <4>2 DEF Putting, Puts
        <4>4. Items(s) = {}
          BY <3>2, NothingItems
        <4> QED BY <1>3, <4>3, <4>4 DEF Putting
      <3> QED BY <1>2, <3>1, <3>2
    <2>4. ~Taking(m, g, k, e) /\ ~Taking(m, g, k, e)'
      <3>1. DropOp(k, g, e).do = "drop"
        BY DEF DropOp
      <3>2. /\ Taking(m, g, k, e) => Head(todo[m]) = DropOp(k, g, e)
            /\ Tail(todo[m]) # <<DropOp(k, g, e)>>
        <4>1. todo[m] # <<>>
          BY <1>1
        <4> QED BY <4>1, TailTakes, Zenon
      <3>3. Head(todo[m]).do # "drop"
        BY <1>1
      <3>4. <<>> # <<DropOp(k, g, e)>>
        OBVIOUS
      <3>5. s # <<DropOp(k, g, e)>>
        BY <1>2, <3>2, <3>4
      <3> QED BY <1>3, <3>1, <3>2, <3>3, <3>5 DEF Taking
    <2>5. Rewriting(m, g, k, e)' => Rewriting(m, g, k, e)
      BY <1>1, <1>3, <1>4, <2>3 DEF Rewriting
    <2> QED BY <1>1, <2>3, <2>4, <2>5, QuietKeeps
  <1> QED BY <1>1, <1>5, <1>6, ReaderKeeps

LEMMA LoadPlain ==
    ASSUME PlainOK, NEW m \in Managers, Load(m)
    PROVE  PlainOK'
  <1>1. UNCHANGED <<truth, bots, unseen, served, left, updated, inbox, todo, before, parts, lost, torn>>
    BY DEF Load, world, state
  <1> QED BY <1>1, SMTT(60) DEF PlainOK, EntryOK, Counted, Alone, Local, Agrees, Due, Coming, Going, Putting,
       Taking, Rewriting, Held

\* The handler of an event does what the event is about to do.
LEMMA HandlePlain ==
    ASSUME TInv, WorldOK, HandlersOK, PlainOK, NEW m \in Managers, Handle(m)
    PROVE  PlainOK'
  <1>1. /\ inbox \in [Managers -> Seq(Events)] /\ inbox[m] \in Seq(Events) /\ inbox[m] # <<>>
        /\ inbox' = [inbox EXCEPT ![m] = Tail(inbox[m])]
        /\ todo[m] = <<>> /\ UNCHANGED <<world, before, parts, lost, torn>>
    BY DEF TInv, InboxOK, Handle, state
  <1>2. Items(inbox[m]) = {Head(inbox[m])} \union Items(Tail(inbox[m]))
    BY <1>1, ItemsTail
  <1>3. PICK event \in Events : event = Head(inbox[m])
    BY <1>1
  <1>4. PICK s : s = Handler(event)
    OBVIOUS
  <1>5. Does(s, event)
    BY <1>4, HandlerDoes
  <1>6. todo'[m] = s /\ \A n \in Managers \ {m} : todo'[n] = todo[n]
    <2>1. todo' = [todo EXCEPT ![m] = s]
      BY <1>3, <1>4 DEF Handle
    <2> QED BY <2>1, TodoChanges
  <1>7. inbox'[m] = Tail(inbox[m]) /\ \A n \in Managers \ {m} : inbox'[n] = inbox[n]
    BY <1>1
  <1>8. OthersStay(m)
    BY <1>1, <1>6, <1>7 DEF OthersStay
  <1>9. ASSUME NEW g \in Guilds, NEW k \in Plain, NEW e \in Entities[k]
        PROVE  Keeps(m, g, k, e)
    <2>1. PICK C, G : C = Comings(g, k, e) /\ G = Goings(g, k, e)
      OBVIOUS
    <2>2. ~Putting(m, g, k, e) /\ ~Taking(m, g, k, e) /\ ~Rewriting(m, g, k, e)
      <3>1. Items(todo[m]) = {}
        BY <1>1, NothingItems
      <3>2. todo[m] # <<DropOp(k, g, e)>>
        BY <1>1
      <3> QED BY <1>1, <3>1, <3>2 DEF Putting, Taking, Rewriting
    <2>3. (Putting(m, g, k, e)' <=> event \in C) /\ (Taking(m, g, k, e)' <=> event \in G)
      <3>1. /\ (\E op \in Items(s) : Puts(op, g, k, e)) <=> Brings(event, g, k, e)
            /\ s = <<DropOp(k, g, e)>> <=> Takes(event, g, k, e)
        BY <1>5, Zenon DEF Does
      <3> QED BY <1>6, <2>1, <3>1 DEF Putting, Taking, Comings, Goings
    <2>4. ~Rewriting(m, g, k, e)'
      <3>1. \A op \in Items(s) : op.do = "rewrite" => Head(s).do = "readGuild"
        BY <1>5, Zenon DEF Does
      <3> QED BY <1>6, <3>1 DEF Rewriting, WritesOld
    <2>5. /\ Coming(m, g, k, e)' <=> Items(Tail(inbox[m])) \intersect C # {}
          /\ Going(m, g, k, e)' <=> Items(Tail(inbox[m])) \intersect G # {}
      BY <1>7, <2>1 DEF Coming, Going, Comings, Goings
    <2>6. /\ Coming(m, g, k, e) => event \in C \/ Coming(m, g, k, e)'
          /\ Going(m, g, k, e) => event \in G \/ Going(m, g, k, e)'
      BY <1>2, <1>3, <2>1, <2>5 DEF Coming, Going
    <2>7. /\ Followed(inbox[m], C, G) =>
                Followed(inbox'[m], C, G) /\ (event \in C => Going(m, g, k, e)')
          /\ Followed(inbox[m], G, C) =>
                Followed(inbox'[m], G, C) /\ (event \in G => Coming(m, g, k, e)')
      BY <1>1, <1>3, <1>7, <2>5, FollowedAfter
    <2>8. UNCHANGED <<truth, bots>> /\ Held(k, g)' = Held(k, g)
      BY <1>1 DEF world, Held
    <2>9. Comings(g, k, e)' = C /\ Goings(g, k, e)' = G
      BY <2>1 DEF Comings, Goings
    <2>10. (Agrees(g, k, e)' <=> Agrees(g, k, e)) /\ (Due(m, g, k, e) => Due(m, g, k, e)')
      BY <2>2, <2>3, <2>6, <2>8 DEF Agrees, Due
    <2>11. Local(m, g, k, e) => Local(m, g, k, e)'
      BY <2>1, <2>3, <2>4, <2>7, <2>8, <2>9 DEF Local
    <2> QED BY <2>10, <2>11 DEF Keeps, EntryOK
  <1> QED BY <1>1, <1>8, <1>9, ReaderKeeps

\* A handler that is to write back what it reads has nothing else to do.
LEMMA WritersRead ==
    ASSUME HandlersOK, NEW m \in Managers, NEW op \in Items(todo[m]), op.do = "rewrite",
           NEW y \in Items(todo[m]), y # op
    PROVE  y.do \in ReadDos /\ y.guild = op.guild
  BY DEF HandlersOK, WellShaped

\* What is read of the guild is what only this manager would have changed.
LEMMA ReadPlain ==
    ASSUME TInv, WorldOK, HandlersOK, PlainOK, NEW m \in Managers, ReadGuild(m) \/ ReadPart(m)
    PROVE  PlainOK'
  <1>1. /\ todo[m] # <<>> /\ UNCHANGED <<world, inbox, parts, lost, torn>>
        /\ Head(todo[m]).do \in {"readGuild", "readRoles", "readChannels", "readMembers", "readEmojis"}
        /\ todo' = [todo EXCEPT ![m] = Tail(todo[m])]
    BY DEF ReadGuild, ReadPart, Doing, Next1, PartOf, state
  <1>2. PICK g0 \in Guilds : g0 = Head(todo[m]).guild
    BY <1>1, NextTyped DEF OperationOK
  <1>3. PICK b : before' = before \/ before' = [before EXCEPT ![m] = b]
    <2>1. CASE ReadGuild(m)
      BY <2>1 DEF ReadGuild
    <2>2. CASE ReadPart(m)
      <3> DEFINE k0 == PartOf[Head(todo[m]).do]
      <3>1. \/ before' = [before EXCEPT ![m] = None] \/ before' = before
            \/ before' = [before EXCEPT ![m][k0] = parts[k0][g0]]
        BY <1>2, <2>2, Zenon DEF ReadPart
      <3>2. [before EXCEPT ![m][k0] = parts[k0][g0]] =
               [before EXCEPT ![m] = [before[m] EXCEPT ![k0] = parts[k0][g0]]]
        OBVIOUS
      <3> QED BY <3>1, <3>2, Zenon
    <2> QED BY <2>1, <2>2
  <1>4. todo'[m] = Tail(todo[m]) /\ \A n \in Managers \ {m} : todo'[n] = todo[n]
    BY <1>1, TodoChanges
  <1>5. before \in [Managers -> Reads \union {None}]
    BY DEF TInv, BeforeOK
  <1>6. OthersStay(m)
    BY <1>1, <1>3, <1>4, <1>5 DEF OthersStay
  <1>7. ASSUME NEW k \in Plain, before'[m] # None
        PROVE  \/ before'[m][k] = {}
               \/ /\ Head(todo[m]).do # "readGuild" /\ before[m] # None
                  /\ before'[m][k] = before[m][k] \/ before'[m][k] = Held(k, g0)
    <2>1. k \in {"role", "channel"}
      BY PlainKinds
    <2>2. CASE ReadGuild(m)
      <3>1. before'[m] = IF guilds[g0] = None THEN None
                         ELSE [count |-> guilds[g0], role |-> {}, channel |-> {}, member |-> {}]
        BY <1>2, <1>5, <2>2, SMTT(60) DEF ReadGuild
      <3> QED BY <1>7, <2>1, <3>1
    <2>3. CASE ReadPart(m)
      <3> DEFINE k0 == PartOf[Head(todo[m]).do]
      <3>0. Head(todo[m]).do # "readGuild"
        BY <2>3 DEF ReadPart, PartOf
      <3>1. \/ before' = [before EXCEPT ![m] = None]
            \/ before' = before /\ before[m] # None
            \/ /\ before' = [before EXCEPT ![m][k0] = parts[k0][g0]]
               /\ before[m] # None /\ parts[k0][g0] # None /\ Head(todo[m]).do \in DOMAIN PartOf
        <4>1. Head(todo[m]).do \in DOMAIN PartOf \union {"readEmojis"}
          BY <2>3 DEF ReadPart
        <4> QED BY <1>2, <2>3, <4>1, Zenon DEF ReadPart
      <3>2. CASE before' = [before EXCEPT ![m] = None]
        BY <1>5, <1>7, <3>2
      <3>3. CASE before' = before /\ before[m] # None
        BY <3>0, <3>3
      <3>4. CASE /\ before' = [before EXCEPT ![m][k0] = parts[k0][g0]]
                 /\ before[m] # None /\ parts[k0][g0] # None /\ Head(todo[m]).do \in DOMAIN PartOf
        <4>1. k0 \in {"role", "channel", "member"}
          BY <3>4 DEF PartOf
        <4>2. PICK x, P : x = k0 /\ P = parts[x][g0]
          OBVIOUS
        <4>3. before' = [before EXCEPT ![m] = [before[m] EXCEPT ![x] = P]]
          BY <3>4, <4>2
        <4>4. before'[m] = [before[m] EXCEPT ![x] = P] /\ before[m] \in Reads
          BY <1>5, <3>4, <4>3
        <4>5. x \in {"role", "channel", "member"}
          BY <4>1, <4>2
        <4>6. before'[m][k] = IF k = x THEN P ELSE before[m][k]
          BY <2>1, <4>4, <4>5 DEF Reads
        <4>7. k = x => P = Held(k, g0)
          BY <3>4, <4>2 DEF Held
        <4> QED BY <3>0, <3>4, <4>6, <4>7
      <3> QED BY <3>1, <3>2, <3>3, <3>4, SMTT(60)
    <2> QED BY <2>2, <2>3
  <1>8. ASSUME NEW g \in Guilds, NEW k \in Plain, NEW e \in Entities[k]
        PROVE  Keeps(m, g, k, e)
    <2>1. Items(todo[m]) = {Head(todo[m])} \union Items(Tail(todo[m]))
      BY <1>1, TailTakes
    <2>2. ~Puts(Head(todo[m]), g, k, e) /\ ~WritesOld(Head(todo[m]), g, k)
      BY <1>1 DEF Puts, WritesOld
    <2>3. Putting(m, g, k, e)' <=> Putting(m, g, k, e)
      BY <1>4, <2>1, <2>2 DEF Putting
    <2>4. ~Taking(m, g, k, e) /\ ~Taking(m, g, k, e)'
      <3>1. DropOp(k, g, e).do = "drop"
        BY DEF DropOp
      <3>2. /\ Taking(m, g, k, e) => Head(todo[m]) = DropOp(k, g, e)
            /\ Tail(todo[m]) # <<DropOp(k, g, e)>>
        <4>1. todo[m] # <<>>
          BY <1>1
        <4> QED BY <4>1, TailTakes, Zenon
      <3>3. Head(todo[m]).do # "drop"
        BY <1>1
      <3> QED BY <1>4, <3>1, <3>2, <3>3 DEF Taking
    <2>5. ASSUME Counted(g, k)', EntryOK(g, k, e), e \notin truth[g][k], Rewriting(m, g, k, e)'
          PROVE  Rewriting(m, g, k, e) \/ Going(m, g, k, e)
      <3>1. PICK op \in Items(todo[m]) : WritesOld(op, g, k) /\ op # Head(todo[m])
        BY <1>4, <2>1, <2>2, <2>5 DEF Rewriting
      <3>2. g0 = g
        <4>1. op.do = "rewrite" /\ op.guild = g /\ Head(todo[m]) \in Items(todo[m])
          BY <2>1, <3>1 DEF WritesOld
        <4> QED BY <1>2, <3>1, <4>1, WritersRead
      <3>3. before'[m] # None /\ e \in before'[m][k]
        BY <2>5 DEF Rewriting
      <3>4. CASE before[m] # None /\ e \in before[m][k] /\ Head(todo[m]).do # "readGuild"
        BY <1>1, <3>1, <3>4 DEF Rewriting
      <3>5. CASE e \in Held(k, g)
        <4>1. m \in served[g] /\ k \in updated[g]
          <5>1. OpKnown(m, op)
            BY DEF HandlersOK
          <5> QED BY <3>1, <5>1, PlainKinds DEF OpKnown, WritesOld
        <4>2. Alone(g)
          <5>1. UNCHANGED <<served, left, updated, lost, torn>>
            BY <1>1 DEF world
          <5> QED BY <2>5, <4>1, <5>1 DEF Counted, Alone
        <4>3. PICK n \in Managers : Taking(n, g, k, e) \/ Going(n, g, k, e)
          BY <2>5, <3>5 DEF EntryOK, Agrees, Due
        <4>4. n = m
          <5>1. n \in served[g]
            BY <4>3, Strangers
          <5> QED BY <4>1, <4>2, <5>1, AloneIsOne
        <4> QED BY <2>4, <4>3, <4>4
      <3> QED BY <1>7, <3>2, <3>3, <3>4, <3>5
    <2> QED BY <1>1, <2>3, <2>4, <2>5, QuietKeeps
  <1> QED BY <1>1, <1>6, <1>8, ReaderKeeps, SMTT(60)

\* What is written back is what the update came with, or what was read.
LEMMA RewritePlain ==
    ASSUME TInv, WorldOK, HandlersOK, PlainOK, NEW m \in Managers, Rewrite(m)
    PROVE  PlainOK'
  <1>0. PICK op \in Operations : \E s \in Seq(Operations) : RewriteLeft(m, op, s)
    BY RewriteLeaves
  <1>1. PICK s \in Seq(Operations) : RewriteLeft(m, op, s)
    BY <1>0
  <1>2. /\ op = Head(todo[m]) /\ op.do = "rewrite" /\ todo[m] # <<>> /\ op.guild \in Guilds
        /\ todo' = [todo EXCEPT ![m] = s]
        /\ \A x \in Items(s) :
              x.do \in {"ref", "guild", "emojis", "store"} /\ (x.do = "store" => x.key = op.guild)
        /\ \A h \in Guilds : \A k \in Plain : \A e \in Entities[k] :
              (\E x \in Items(s) : Puts(x, h, k, e)) <=>
                 /\ h = op.guild
                 /\ \/ op.role # None /\ k = "role" /\ e \in op.role
                    \/ (k = "channel" \/ op.role = None) /\ before[m] # None /\ e \in before[m][k]
    BY <1>1 DEF RewriteLeft
  <1>3. UNCHANGED <<world, inbox, parts, lost, torn>> /\ before' = [before EXCEPT ![m] = None]
    BY DEF Rewrite, state
  <1>4. todo'[m] = s /\ \A n \in Managers \ {m} : todo'[n] = todo[n]
    BY <1>2, TodoChanges
  <1>5. before'[m] = None /\ \A n \in Managers \ {m} : before'[n] = before[n]
    BY <1>3 DEF TInv, BeforeOK
  <1>6. OthersStay(m)
    BY <1>3, <1>4, <1>5 DEF OthersStay
  <1>7. ASSUME NEW g \in Guilds, NEW k \in Plain, NEW e \in Entities[k]
        PROVE  Keeps(m, g, k, e)
    <2>1. Items(todo[m]) = {Head(todo[m])} \union Items(Tail(todo[m]))
      BY <1>2, TailTakes
    <2>2. k \in {"role", "channel"}
      BY PlainKinds
    <2>3. Putting(m, g, k, e)' <=>
             /\ g = op.guild
             /\ \/ op.role # None /\ k = "role" /\ e \in op.role
                \/ (k = "channel" \/ op.role = None) /\ before[m] # None /\ e \in before[m][k]
      BY <1>2, <1>4 DEF Putting
    <2>4. Putting(m, g, k, e) => Putting(m, g, k, e)'
      <3> SUFFICES ASSUME NEW x \in Items(todo[m]), Puts(x, g, k, e)
                   PROVE  Putting(m, g, k, e)'
        BY DEF Putting
      <3>1. x = op
        <4>1. x.do \notin ReadDos
          BY DEF Puts, ReadDos
        <4> QED BY <1>2, <2>1, <4>1, WritersRead
      <3> QED BY <1>2, <2>3, <3>1 DEF Puts
    <2>5. Putting(m, g, k, e)' => Putting(m, g, k, e) \/ Rewriting(m, g, k, e)
      <3>1. ASSUME g = op.guild, op.role # None, k = "role", e \in op.role
            PROVE  Putting(m, g, k, e)
        <4>1. Puts(op, g, k, e)
          BY <1>2, <3>1 DEF Puts
        <4> QED BY <1>2, <2>1, <4>1 DEF Putting
      <3>2. ASSUME g = op.guild, k = "channel" \/ op.role = None, before[m] # None, e \in before[m][k]
            PROVE  Rewriting(m, g, k, e)
        <4>1. WritesOld(op, g, k)
          BY <1>2, <3>2 DEF WritesOld
        <4> QED BY <1>2, <2>1, <3>2, <4>1 DEF Rewriting
      <3> QED BY <2>3, <3>1, <3>2
    <2>6. ~Taking(m, g, k, e) /\ ~Taking(m, g, k, e)'
      <3>0. DropOp(k, g, e) \in Items(<<DropOp(k, g, e)>>)
        BY DEF Items
      <3>1. DropOp(k, g, e).do = "drop" /\ DropOp(k, g, e) \in Items(<<DropOp(k, g, e)>>)
        BY <3>0 DEF DropOp
      <3>2. s # <<DropOp(k, g, e)>>
        BY <1>2, <3>1
      <3>3. Taking(m, g, k, e) => Head(todo[m]) = DropOp(k, g, e)
        BY DEF Taking
      <3> QED BY <1>2, <1>4, <3>1, <3>2, <3>3 DEF Taking
    <2>7. ~Rewriting(m, g, k, e)'
      BY <1>5 DEF Rewriting
    <2> QED BY <1>3, <2>4, <2>5, <2>6, <2>7, QuietKeeps
  <1> QED BY <1>3, <1>6, <1>7, ReaderKeeps

\* Unless the change is lost, the cache has it; it has what is elsewhere as before.
LEMMA ChangeMap ==
    ASSUME TInv, NEW m \in Managers, Store(m) \/ Drop(m),
           NEW k \in Tables, NEW g \in Keys(k)
    PROVE  /\ g \notin lost' =>
                 Held(k, g)' =
                    IF Head(todo[m]).kind = k /\ Head(todo[m]).key = g
                    THEN IF Doing(m, "store") THEN Held(k, g) \union {hand[m].entry}
                                              ELSE Held(k, g) \ {hand[m].entry}
                    ELSE Held(k, g)
           /\ ~(Head(todo[m]).kind = k /\ Head(todo[m]).key = g) => parts'[k][g] = parts[k][g]
           /\ g \notin lost' =>
                 /\ parts[k][g] # None => parts'[k][g] # None
                 /\ Doing(m, "store") /\ Head(todo[m]).kind = k /\ Head(todo[m]).key = g =>
                       parts'[k][g] # None
  <1>1. hand[m] # NoHand /\ Holds(m)
    <2>1. hand[m] # NoHand
      BY DEF Store, Drop
    <2> QED BY <2>1, SMTT(60) DEF TInv, HandOK
  <1>2. PICK l, key, e, map : /\ l = Head(todo[m]).kind /\ key = Head(todo[m]).key
                              /\ e = hand[m].entry /\ map = hand[m].map
    OBVIOUS
  <1>3. /\ l \in Tables /\ key \in Keys(l) /\ e \in Of(l)
        /\ map \in {"absent", "live", "dropped"} /\ (map = "live" => parts[l][key] # None)
    <2>1. MapOp(Head(todo[m])) /\ e \in Head(todo[m]).entries
      BY <1>1, <1>2, HoldsTyped
    <2>2. map \in {"absent", "live", "dropped"} /\ (map = "live" => parts[l][key] # None)
      BY <1>1, <1>2 DEF Holds
    <2> QED BY <1>2, <2>1, <2>2 DEF MapOp
  <1>4. PartsOK /\ parts[l][key] \in (SUBSET Of(l)) \union {None}
    BY <1>3 DEF TInv, PartsOK
  <1>5. lost' = IF Misses(l, key, map) THEN lost \union {key} ELSE lost
    BY <1>2, Zenon DEF Store, Drop
  <1>7. ASSUME NEW S \in SUBSET Of(l), parts' = [parts EXCEPT ![l][key] = S]
        PROVE  /\ Held(k, g)' = IF l = k /\ key = g THEN S ELSE Held(k, g)
               /\ parts'[k][g] = IF l = k /\ key = g THEN S ELSE parts[k][g]
               /\ S # None
    <2>1. S # None
      BY <1>3, OfSome
    <2>2. S \in (SUBSET Of(l)) \union {None}
      OBVIOUS
    <2>3. \A x \in Tables : \A y \in Keys(x) :
             parts'[x][y] = IF x = l /\ y = key THEN S ELSE parts[x][y]
      <3>1. PartsOK /\ l \in Tables /\ key \in Keys(l)
        BY <1>3, <1>4
      <3> QED BY <1>7, <2>2, <3>1, PartsChange, ZenonT(60)
    <2>4. parts'[k][g] = IF k = l /\ g = key THEN S ELSE parts[k][g]
      BY <2>3
    <2> QED BY <2>1, <2>4 DEF Held
  <1>8. CASE Store(m)
    <2>1. parts' = StoreInner(l, key, map, e) /\ Doing(m, "store")
      BY <1>2, <1>8, Zenon DEF Store
    <2>2. CASE map = "live"
      <3>1. parts' = [parts EXCEPT ![l][key] = parts[l][key] \union {e}]
        BY <1>3, <1>4, <2>1, <2>2 DEF StoreInner, PartsOK
      <3>2. PICK S \in SUBSET Of(l) : S = parts[l][key] \union {e}
        BY <1>3, <1>4, <2>2
      <3>3. /\ Held(k, g)' = IF l = k /\ key = g THEN S ELSE Held(k, g)
            /\ parts'[k][g] = IF l = k /\ key = g THEN S ELSE parts[k][g]
            /\ S # None
        BY <1>7, <3>1, <3>2
      <3>4. l = k /\ key = g => Held(k, g) = parts[l][key]
        BY <1>3, <2>2 DEF Held
      <3> QED BY <1>2, <2>1, <3>2, <3>3, <3>4
    <2>3. CASE map = "absent" /\ parts[l][key] = None
      <3>1. parts' = [parts EXCEPT ![l][key] = {e}]
        BY <2>1, <2>3 DEF StoreInner
      <3>2. PICK S \in SUBSET Of(l) : S = {e}
        BY <1>3
      <3>3. /\ Held(k, g)' = IF l = k /\ key = g THEN S ELSE Held(k, g)
            /\ parts'[k][g] = IF l = k /\ key = g THEN S ELSE parts[k][g]
            /\ S # None
        BY <1>7, <3>1, <3>2
      <3>4. l = k /\ key = g => Held(k, g) = {}
        BY <2>3 DEF Held
      <3> QED BY <1>2, <2>1, <3>2, <3>3, <3>4
    <2>4. CASE Misses(l, key, map)
      <3>1. g \notin lost' => key # g
        BY <1>5, <2>4
      <3>2. parts' = parts
        BY <2>1, <2>4 DEF Misses, StoreInner
      <3>3. Held(k, g)' = Held(k, g)
        BY <3>2 DEF Held
      <3> QED BY <1>2, <3>1, <3>2, <3>3
    <2> QED BY <1>3, <2>2, <2>3, <2>4 DEF Misses
  <1>9. CASE Drop(m)
    <2>1. parts' = DeleteInner(l, key, map, e) /\ ~Doing(m, "store")
      <3>1. parts' = DeleteInner(l, key, map, e)
        BY <1>2, <1>9, Zenon DEF Drop
      <3>2. ~Doing(m, "store")
        BY <1>9, SMTT(60) DEF Drop, Doing
      <3> QED BY <3>1, <3>2
    <2>2. CASE map = "live"
      <3>1. parts' = [parts EXCEPT ![l][key] = parts[l][key] \ {e}]
        BY <1>3, <1>4, <2>1, <2>2 DEF DeleteInner, PartsOK
      <3>2. PICK S \in SUBSET Of(l) : S = parts[l][key] \ {e}
        BY <1>3, <1>4, <2>2
      <3>3. /\ Held(k, g)' = IF l = k /\ key = g THEN S ELSE Held(k, g)
            /\ parts'[k][g] = IF l = k /\ key = g THEN S ELSE parts[k][g]
            /\ S # None
        BY <1>7, <3>1, <3>2
      <3>4. l = k /\ key = g => Held(k, g) = parts[l][key]
        BY <1>3, <2>2 DEF Held
      <3> QED BY <1>2, <2>1, <3>2, <3>3, <3>4
    <2>3. CASE map # "live"
      <3>1. parts' = parts
        BY <2>1, <2>3 DEF DeleteInner
      <3>2. map = "absent" /\ parts[l][key] = None => (l = k /\ key = g => Held(k, g) = {})
        BY DEF Held
      <3>3. Misses(l, key, map) /\ g \notin lost' => key # g
        BY <1>5
      <3>4. Held(k, g)' = Held(k, g)
        BY <3>1 DEF Held
      <3>5. Misses(l, key, map) \/ (map = "absent" /\ parts[l][key] = None)
        BY <1>3, <2>3 DEF Misses
      <3>6. parts'[k][g] = parts[k][g]
        BY <3>1
      <3>7. ASSUME g \notin lost', l = k, key = g
            PROVE  Held(k, g) = {}
        BY <3>2, <3>3, <3>5, <3>7
      <3> QED BY <1>2, <2>1, <3>4, <3>6, <3>7
    <2> QED BY <2>2, <2>3
  <1> QED BY <1>8, <1>9

\* What a store or a removal has in common.
LEMMA ChangeFrame ==
    ASSUME TInv, NEW m \in Managers, Store(m) \/ Drop(m)
    PROVE  UNCHANGED <<world, inbox, before, torn>> /\ lost \subseteq lost'
  <1>1. CASE Store(m)
    BY <1>1 DEF Store
  <1>2. CASE Drop(m)
    BY <1>2 DEF Drop
  <1> QED BY <1>1, <1>2

LEMMA StorePlain ==
    ASSUME TInv, WorldOK, HandlersOK, PlainOK, NEW m \in Managers, Store(m)
    PROVE  PlainOK'
  <1>0. PICK op \in Operations : \E s \in Seq(Operations) : \E e : StoreLeft(m, op, e, s)
    BY StoreLeaves
  <1>01. PICK s \in Seq(Operations) : \E e : StoreLeft(m, op, e, s)
    BY <1>0
  <1>02. PICK e0 : StoreLeft(m, op, e0, s)
    BY <1>01
  <1>1.  /\ op = Head(todo[m]) /\ MapOp(op) /\ op.do = "store" /\ todo[m] # <<>>
         /\ e0 = hand[m].entry /\ e0 \in op.entries
         /\ todo' = [todo EXCEPT ![m] = s]
         /\ Items(todo[m]) = {op} \union Items(Tail(todo[m]))
         /\ Items(s) = Items(Tail(todo[m])) \union
               (IF op.entries = {e0} THEN {}
                ELSE {[do |-> "store", kind |-> op.kind, key |-> op.key, entries |-> op.entries \ {e0}]})
    BY <1>02 DEF StoreLeft
  <1>2. UNCHANGED <<world, inbox, before, torn>> /\ lost \subseteq lost'
    BY ChangeFrame
  <1>3. todo'[m] = s /\ \A n \in Managers \ {m} : todo'[n] = todo[n]
    BY <1>1, TodoChanges
  <1>4. OthersStay(m)
    BY <1>2, <1>3 DEF OthersStay
  <1>5. todo[m] \in Seq(Operations) /\ WellShaped(todo[m])
    BY DEF TInv, TodoOK, HandlersOK
  <1>6. PICK rest : rest = [do |-> "store", kind |-> op.kind, key |-> op.key, entries |-> op.entries \ {e0}]
    OBVIOUS
  <1>7. ASSUME NEW g \in Guilds, NEW k \in Plain, NEW e \in Entities[k]
        PROVE  Keeps(m, g, k, e)
    <2> DEFINE Now == op.kind = k /\ op.key = g /\ e = e0
    <2>1. Puts(op, g, k, e) <=> op.kind = k /\ op.key = g /\ e \in op.entries
      BY <1>1 DEF Puts
    <2>2. Puts(rest, g, k, e) <=> op.kind = k /\ op.key = g /\ e \in op.entries \ {e0}
      BY <1>6 DEF Puts
    <2>3. /\ Putting(m, g, k, e) => Putting(m, g, k, e)' \/ Now
          /\ Putting(m, g, k, e)' \/ Now => Putting(m, g, k, e)
      <3>1. Items(s) = Items(Tail(todo[m])) \union (IF op.entries = {e0} THEN {} ELSE {rest})
        BY <1>1, <1>6
      <3>2. Puts(op, g, k, e) => Now \/ Putting(m, g, k, e)'
        BY <1>3, <2>1, <2>2, <3>1 DEF Putting
      <3>3. Now => Puts(op, g, k, e)
        BY <1>1, <2>1
      <3>4. Puts(rest, g, k, e) => Puts(op, g, k, e)
        BY <2>1, <2>2
      <3> HIDE DEF Now
      <3>5. Putting(m, g, k, e) => Putting(m, g, k, e)' \/ Now
        BY <1>1, <1>3, <3>1, <3>2 DEF Putting
      <3>6. Putting(m, g, k, e)' \/ Now => Putting(m, g, k, e)
        BY <1>1, <1>3, <3>1, <3>3, <3>4 DEF Putting
      <3> QED BY <3>5, <3>6
    <2>4. ~Taking(m, g, k, e) /\ ~Taking(m, g, k, e)'
      <3>1. DropOp(k, g, e).do = "drop" /\ DropOp(k, g, e).kind = k
        BY DEF DropOp
      <3>2. Taking(m, g, k, e) => Head(todo[m]) = DropOp(k, g, e)
        BY DEF Taking
      <3>3. \A x \in Items(Tail(todo[m])) : ~(x.do = "drop" /\ x.kind \in Plain)
        BY <1>1, <1>5, TailItems
      <3>4. \A x \in Items(s) : ~(x.do = "drop" /\ x.kind \in Plain)
        BY <1>1, <3>3
      <3>5. DropOp(k, g, e) \in Items(<<DropOp(k, g, e)>>)
        BY DEF Items
      <3>6. s # <<DropOp(k, g, e)>>
        BY <3>1, <3>4, <3>5
      <3> QED BY <1>1, <1>3, <3>1, <3>2, <3>6 DEF Taking
    <2>5. ~Rewriting(m, g, k, e)'
      <3> SUFFICES ASSUME NEW x \in Items(s), WritesOld(x, g, k) PROVE FALSE
        BY <1>3 DEF Rewriting
      <3>1. x.do = "rewrite" /\ x \in Items(todo[m]) /\ op # x
        BY <1>1 DEF WritesOld
      <3>2. op \in Items(todo[m])
        BY <1>1
      <3>3. op.do \in ReadDos
        BY <3>1, <3>2, WritersRead
      <3> QED BY <1>1, <3>3 DEF ReadDos
    <2>6. UNCHANGED <<truth, bots>> /\ inbox'[m] = inbox[m]
      BY <1>2 DEF world
    <2>7. (Coming(m, g, k, e)' <=> Coming(m, g, k, e)) /\ (Going(m, g, k, e)' <=> Going(m, g, k, e))
      BY <2>6 DEF Coming, Going
    <2>8. ASSUME Counted(g, k)', EntryOK(g, k, e)
          PROVE  /\ Local(m, g, k, e)'
                 /\ Agrees(g, k, e) \/ Due(m, g, k, e) => (Agrees(g, k, e) \/ Due(m, g, k, e))'
      <3>1. e \in Held(k, g)' <=> e \in Held(k, g) \/ Now
        <4>1. g \notin lost' /\ Doing(m, "store")
          BY <1>1, <2>8 DEF Counted, Doing
        <4>2. Held(k, g)' = IF op.kind = k /\ op.key = g THEN Held(k, g) \union {e0} ELSE Held(k, g)
          BY <1>1, <4>1, PlainKinds, ChangeMap
        <4> QED BY <4>2
      <3>2. Local(m, g, k, e)
        BY <2>8 DEF EntryOK
      <3> HIDE DEF Now
      <3>3. Local(m, g, k, e)'
        BY <2>3, <2>4, <2>5, <2>6, <2>7, <3>2 DEF Local
      <3>4. Agrees(g, k, e) => (Agrees(g, k, e) \/ Due(m, g, k, e))'
        BY <2>3, <2>6, <2>7, <3>1, <3>2 DEF Local, Agrees, Due
      <3>5. Due(m, g, k, e) => (Agrees(g, k, e) \/ Due(m, g, k, e))'
        BY <2>3, <2>4, <2>6, <2>7, <3>1 DEF Agrees, Due
      <3> QED BY <3>3, <3>4, <3>5
    <2> QED BY <2>8 DEF Keeps
  <1> QED BY <1>2, <1>4, <1>7, ReaderKeeps

LEMMA DropPlain ==
    ASSUME TInv, WorldOK, HandlersOK, PlainOK, NEW m \in Managers, Drop(m)
    PROVE  PlainOK'
  <1>1. UNCHANGED <<world, inbox, before, torn>> /\ lost \subseteq lost'
    BY ChangeFrame
  <1>2. todo[m] # <<>> /\ todo' = [todo EXCEPT ![m] = Tail(todo[m])] /\ hand[m] # NoHand
    BY DEF Drop, Doing, Next1
  <1>3. todo'[m] = Tail(todo[m]) /\ \A n \in Managers \ {m} : todo'[n] = todo[n]
    BY <1>2, TodoChanges
  <1>4. OthersStay(m)
    BY <1>1, <1>3 DEF OthersStay
  <1>5. PICK op, e0 : op = Head(todo[m]) /\ e0 = hand[m].entry
    OBVIOUS
  <1>6. op.do = "drop" /\ e0 \in op.entries
    BY <1>2, <1>5, HoldsTyped DEF Drop, Doing
  <1>7. WellShaped(todo[m])
    BY DEF HandlersOK
  <1>8. ASSUME NEW g \in Guilds, NEW k \in Plain, NEW e \in Entities[k]
        PROVE  Keeps(m, g, k, e)
    <2>1. /\ Items(todo[m]) = {op} \union Items(Tail(todo[m]))
          /\ Tail(todo[m]) # <<DropOp(k, g, e)>>
      BY <1>2, <1>5, TailTakes, Zenon
    <2>2. Taking(m, g, k, e) <=> op.kind = k /\ op.key = g /\ e = e0
      <3>1. ASSUME Taking(m, g, k, e) PROVE op.kind = k /\ op.key = g /\ e = e0
        <4>1. op = DropOp(k, g, e)
          BY <1>5, <3>1 DEF Taking
        <4> QED BY <1>6, <4>1 DEF DropOp
      <3>2. ASSUME op.kind = k, op.key = g, e = e0 PROVE Taking(m, g, k, e)
        <4>1. PICK x : todo[m] = <<DropOp(k, g, x)>>
          BY <1>6, <1>7, <2>1, <3>2 DEF WellShaped
        <4>2. op = DropOp(k, g, x)
          BY <1>5, <4>1
        <4>3. x = e
          BY <1>6, <3>2, <4>2 DEF DropOp
        <4> QED BY <4>1, <4>3 DEF Taking
      <3> QED BY <3>1, <3>2
    <2>3. ~Puts(op, g, k, e)
      BY <1>6 DEF Puts
    <2>4. Putting(m, g, k, e)' <=> Putting(m, g, k, e)
      BY <1>3, <2>1, <2>3 DEF Putting
    <2>5. ~Taking(m, g, k, e)'
      BY <1>3, <2>1 DEF Taking
    <2>6. ~Rewriting(m, g, k, e)'
      <3> SUFFICES ASSUME NEW x \in Items(Tail(todo[m])), WritesOld(x, g, k) PROVE FALSE
        BY <1>3 DEF Rewriting
      <3>1. x.do = "rewrite" /\ x \in Items(todo[m]) /\ op # x /\ op \in Items(todo[m])
        BY <1>6, <2>1 DEF WritesOld
      <3>2. op.do \in ReadDos
        BY <3>1, WritersRead
      <3> QED BY <1>6, <3>2 DEF ReadDos
    <2>7. UNCHANGED <<truth, bots>> /\ inbox'[m] = inbox[m]
      BY <1>1 DEF world
    <2>8. (Coming(m, g, k, e)' <=> Coming(m, g, k, e)) /\ (Going(m, g, k, e)' <=> Going(m, g, k, e))
      BY <2>7 DEF Coming, Going
    <2>9. ASSUME Counted(g, k)', EntryOK(g, k, e)
          PROVE  /\ Local(m, g, k, e)'
                 /\ Agrees(g, k, e) \/ Due(m, g, k, e) => (Agrees(g, k, e) \/ Due(m, g, k, e))'
      <3>1. e \in Held(k, g)' <=> e \in Held(k, g) /\ ~Taking(m, g, k, e)
        <4>1. g \notin lost' /\ ~Doing(m, "store")
          BY <1>5, <1>6, <2>9 DEF Counted, Doing
        <4>2. Held(k, g)' = IF op.kind = k /\ op.key = g THEN Held(k, g) \ {e0} ELSE Held(k, g)
          BY <1>5, <4>1, PlainKinds, ChangeMap
        <4> QED BY <2>2, <4>2
      <3>2. Local(m, g, k, e)
        BY <2>9 DEF EntryOK
      <3>3. Local(m, g, k, e)'
        BY <2>4, <2>5, <2>6, <2>7, <2>8, <3>2 DEF Local
      <3>4. Agrees(g, k, e) => (Agrees(g, k, e) \/ Due(m, g, k, e))'
        BY <2>7, <2>8, <3>1, <3>2 DEF Local, Agrees, Due
      <3>5. Due(m, g, k, e) => (Agrees(g, k, e) \/ Due(m, g, k, e))'
        BY <2>4, <2>7, <2>8, <3>1 DEF Agrees, Due
      <3> QED BY <3>3, <3>4, <3>5
    <2> QED BY <2>9 DEF Keeps
  <1> QED BY <1>1, <1>4, <1>8, ReaderKeeps

-----------------------------------------------------------------------------
(* Roles and channels: Discord, the ejector, and what holds at rest         *)

\* An event comes that does not go against what Discord did last to the entry.
LEMMA SentPlain ==
    ASSUME TInv, NEW g \in Guilds, NEW k \in Plain, NEW e \in Entities[k], NEW event \in Events,
           UNCHANGED <<todo, before, parts>>, EntryOK(g, k, e),
           \A m \in Managers : inbox'[m] = inbox[m] \/ inbox'[m] = Append(inbox[m], event),
           e \in truth'[g][k] <=> e \in truth[g][k],
           e \in truth[g][k] => ~Takes(event, g, k, e),
           e \notin truth[g][k] => ~Brings(event, g, k, e),
           bots[g] = {} /\ bots'[g] # {} /\ e \in truth[g][k] =>
              \E m \in Managers : inbox'[m] = Append(inbox[m], event) /\ Brings(event, g, k, e)
    PROVE  EntryOK(g, k, e)'
  <1>1. PICK C, G : C = Comings(g, k, e) /\ G = Goings(g, k, e)
    OBVIOUS
  <1>2. C = Comings(g, k, e)' /\ G = Goings(g, k, e)'
    BY <1>1 DEF Comings, Goings
  <1>3. /\ e \in truth[g][k] => event \in Events \ G
        /\ e \notin truth[g][k] => event \in Events \ C
        /\ Brings(event, g, k, e) => event \in C
    BY <1>1 DEF Comings, Goings
  <1>4. ASSUME NEW m \in Managers
        PROVE  /\ inbox[m] \in Seq(Events)
               /\ Coming(m, g, k, e) => Coming(m, g, k, e)'
               /\ Going(m, g, k, e) => Going(m, g, k, e)'
               /\ inbox'[m] = Append(inbox[m], event) /\ event \in C => Coming(m, g, k, e)'
    <2>1. inbox[m] \in Seq(Events)
      BY DEF TInv, InboxOK
    <2>2. Items(Append(inbox[m], event)) = Items(inbox[m]) \union {event}
      BY <2>1, ItemsAppend
    <2>3. Items(inbox[m]) \subseteq Items(inbox'[m])
      BY <2>2
    <2> QED BY <1>1, <1>2, <2>1, <2>2, <2>3 DEF Coming, Going
  <1>5. ASSUME NEW m \in Managers
        PROVE  /\ Putting(m, g, k, e)' <=> Putting(m, g, k, e)
               /\ Taking(m, g, k, e)' <=> Taking(m, g, k, e)
               /\ Rewriting(m, g, k, e)' <=> Rewriting(m, g, k, e)
    BY DEF Putting, Taking, Rewriting
  <1>6. Held(k, g)' = Held(k, g)
    BY DEF Held
  <1>7. ASSUME NEW m \in Managers PROVE Local(m, g, k, e)'
    <2>1. Local(m, g, k, e) /\ inbox[m] \in Seq(Events)
      BY <1>4 DEF EntryOK
    <2>2. CASE e \in truth[g][k]
      <3>1. Followed(inbox'[m], G, C)
        <4>1. Followed(inbox[m], G, C)
          BY <1>1, <2>1, <2>2 DEF Local
        <4>2. Followed(Append(inbox[m], event), G, C)
          BY <1>3, <2>1, <2>2, <4>1, FollowedAfter
        <4> QED BY <4>1, <4>2
      <3> QED BY <1>2, <1>4, <1>5, <2>1, <2>2, <3>1 DEF Local
    <2>3. CASE e \notin truth[g][k]
      <3>1. Followed(inbox'[m], C, G)
        <4>1. Followed(inbox[m], C, G)
          BY <1>1, <2>1, <2>3 DEF Local
        <4>2. Followed(Append(inbox[m], event), C, G)
          BY <1>3, <2>1, <2>3, <4>1, FollowedAfter
        <4> QED BY <4>1, <4>2
      <3> QED BY <1>2, <1>4, <1>5, <2>1, <2>3, <3>1 DEF Local
    <2> QED BY <2>2, <2>3
  <1>8. \A m \in Managers : Due(m, g, k, e) => Due(m, g, k, e)'
    BY <1>4, <1>5 DEF Due
  <1>9. Agrees(g, k, e) => Agrees(g, k, e)' \/ \E m \in Managers : Due(m, g, k, e)'
    <2>1. ASSUME e \in truth[g][k], bots[g] = {}, bots'[g] # {}
          PROVE  \E m \in Managers : Due(m, g, k, e)'
      BY <1>3, <1>4, <2>1 DEF Due
    <2> QED BY <1>6, <2>1 DEF Agrees
  <1> QED BY <1>7, <1>8, <1>9 DEF EntryOK

\* The entry comes or goes, and everyone who has to do with the guild is told.
LEMMA FlipPlain ==
    ASSUME TInv, WorldOK, HandlersOK,
           NEW g \in Guilds, NEW k \in Plain, NEW e \in Entities[k], NEW event \in Events,
           UNCHANGED <<todo, before, parts, bots>>, Send(g, event), bots[g] # {}, Counted(g, k),
           e \in truth'[g][k] => Brings(event, g, k, e) /\ ~Takes(event, g, k, e),
           e \notin truth'[g][k] => Takes(event, g, k, e) /\ ~Brings(event, g, k, e)
    PROVE  EntryOK(g, k, e)'
  <1>1. PICK C, G : C = Comings(g, k, e) /\ G = Goings(g, k, e)
    OBVIOUS
  <1>2. C = Comings(g, k, e)' /\ G = Goings(g, k, e)'
    BY <1>1 DEF Comings, Goings
  <1>3. /\ e \in truth'[g][k] => event \in C /\ event \in Events \ G
        /\ e \notin truth'[g][k] => event \in G /\ event \in Events \ C
    BY <1>1 DEF Comings, Goings
  <1>4. bots[g] = served[g]
    <2>1. CASE g \notin left
      BY <2>1 DEF WorldOK
    <2>2. CASE Alone(g)
      <3>1. bots[g] \subseteq served[g]
        BY DEF WorldOK
      <3>2. PICK m : m \in bots[g]
        OBVIOUS
      <3>3. \A n \in served[g] : n = m
        BY <2>2, <3>1, <3>2, AloneIsOne
      <3> QED BY <3>1, <3>2, <3>3
    <2> QED BY <2>1, <2>2 DEF Counted
  <1>5. ASSUME NEW m \in Managers, m \in bots[g]
        PROVE  /\ e \in truth'[g][k] => Followed(inbox'[m], G, C) /\ Coming(m, g, k, e)'
               /\ e \notin truth'[g][k] => Followed(inbox'[m], C, G) /\ Going(m, g, k, e)'
    <2>1. inbox'[m] = Append(inbox[m], event) /\ inbox[m] \in Seq(Events)
      BY <1>5 DEF Send, TInv, InboxOK
    <2>2. Items(inbox'[m]) = Items(inbox[m]) \union {event}
      BY <2>1, ItemsAppend
    <2>3. /\ e \in truth'[g][k] => Followed(inbox'[m], G, C)
          /\ e \notin truth'[g][k] => Followed(inbox'[m], C, G)
      <3>1. ASSUME e \in truth'[g][k] PROVE Followed(Append(inbox[m], event), G, C)
        BY <1>3, <2>1, <3>1, FollowedAfter
      <3>2. ASSUME e \notin truth'[g][k] PROVE Followed(Append(inbox[m], event), C, G)
        BY <1>3, <2>1, <3>2, FollowedAfter
      <3> QED BY <2>1, <3>1, <3>2
    <2> QED BY <1>2, <1>3, <2>2, <2>3 DEF Coming, Going
  <1>6. ASSUME NEW m \in Managers, m \notin bots[g] PROVE Local(m, g, k, e)'
    <2>1. /\ ~Coming(m, g, k, e) /\ ~Going(m, g, k, e)
          /\ ~Putting(m, g, k, e) /\ ~Taking(m, g, k, e) /\ ~Rewriting(m, g, k, e)
      BY <1>4, <1>6, Strangers
    <2>2. inbox'[m] = inbox[m] /\ inbox[m] \in Seq(Events)
      BY <1>6 DEF Send, TInv, InboxOK
    <2>3. Items(inbox[m]) \intersect C = {} /\ Items(inbox[m]) \intersect G = {}
      BY <1>1, <2>1 DEF Coming, Going
    <2>4. Followed(inbox'[m], C, G) /\ Followed(inbox'[m], G, C)
      BY <2>2, <2>3, FollowedAfter
    <2>5. ~Putting(m, g, k, e)' /\ ~Taking(m, g, k, e)' /\ ~Rewriting(m, g, k, e)'
      BY <2>1 DEF Putting, Taking, Rewriting
    <2> QED BY <1>2, <2>4, <2>5 DEF Local
  <1>7. \A m \in Managers : Local(m, g, k, e)'
    BY <1>2, <1>5, <1>6 DEF Local
  <1>8. \E m \in Managers : Due(m, g, k, e)'
    <2>1. PICK m \in Managers : m \in bots[g]
      BY DEF WorldOK
    <2> QED BY <1>5, <2>1 DEF Due
  <1> QED BY <1>7, <1>8 DEF EntryOK

\* A bot is invited or kicked: everything the guild has is sent, or nothing of it.
LEMMA MovePlain ==
    ASSUME TInv, WorldOK, NEW g0 \in Guilds, NEW m0 \in Managers, Invite(m0, g0) \/ Kick(m0, g0),
           NEW g \in Guilds, NEW k \in Plain, NEW e \in Entities[k], EntryOK(g, k, e)
    PROVE  EntryOK(g, k, e)'
  <1>1. PICK event \in Events :
           /\ inbox' = [inbox EXCEPT ![m0] = Append(inbox[m0], event)]
           /\ event.guild = g0 /\ event.type \in {"create", "delete"}
           /\ event.type = "create" => event.content = truth[g0]
           /\ event.type = "delete" => Kick(m0, g0)
    <2>1. CASE Invite(m0, g0)
      <3>1. PICK event : event = [type |-> "create", guild |-> g0, content |-> truth[g0]]
        OBVIOUS
      <3>2. event \in Events
        BY <3>1 DEF TInv, TruthOK, Events, CreateEvents
      <3>3. inbox' = [inbox EXCEPT ![m0] = Append(inbox[m0], event)]
        BY <2>1, <3>1 DEF Invite
      <3> QED BY <3>1, <3>2, <3>3
    <2>2. CASE Kick(m0, g0)
      <3>1. PICK event : event = [type |-> "delete", guild |-> g0]
        OBVIOUS
      <3>2. event \in Events
        BY <3>1 DEF Events, DeleteEvents
      <3>3. inbox' = [inbox EXCEPT ![m0] = Append(inbox[m0], event)]
        BY <2>2, <3>1 DEF Kick
      <3> QED BY <2>2, <3>1, <3>2, <3>3
    <2> QED BY <2>1, <2>2
  <1>2. UNCHANGED <<todo, before, parts, truth>>
    BY DEF Invite, Kick, state
  <1>3. \A m \in Managers : inbox'[m] = IF m = m0 THEN Append(inbox[m0], event) ELSE inbox[m]
    BY <1>1 DEF TInv, InboxOK
  <1>4. ~Takes(event, g, k, e) /\ (e \notin truth[g][k] => ~Brings(event, g, k, e))
    BY <1>1 DEF Takes, Brings
  <1>5. ASSUME bots[g] = {}, bots'[g] # {}, e \in truth[g][k]
        PROVE  inbox'[m0] = Append(inbox[m0], event) /\ Brings(event, g, k, e)
    <2>1. CASE Kick(m0, g0)
      <3>1. bots' = [bots EXCEPT ![g0] = @ \ {m0}]
        BY <2>1 DEF Kick
      <3> QED BY <1>5, <3>1 DEF WorldOK
    <2>2. CASE event.type = "create"
      <3>1. g = g0
        <4>1. bots' = [bots EXCEPT ![g0] = @ \union {m0}] \/ bots' = [bots EXCEPT ![g0] = @ \ {m0}]
          BY DEF Invite, Kick
        <4> QED BY <1>5, <4>1 DEF WorldOK
      <3> QED BY <1>1, <1>3, <1>5, <2>2, <3>1 DEF Brings
    <2> QED BY <1>1, <2>1, <2>2
  <1> QED BY <1>1, <1>2, <1>3, <1>4, <1>5, SentPlain

\* An entry comes, goes or is updated.
LEMMA ChangePlain ==
    ASSUME TInv, WorldOK, HandlersOK, NEW g0 \in Guilds, NEW k0 \in Kinds, NEW e0 \in Entities[k0],
           Enter(g0, k0, e0) \/ Leave(g0, k0, e0) \/ Touch(g0, k0, e0),
           NEW g \in Guilds, NEW k \in Plain, NEW e \in Entities[k], e \notin unseen'[g],
           EntryOK(g, k, e), Counted(g, k)
    PROVE  EntryOK(g, k, e)'
  <1>1. PICK type \in {"enter", "leave", "touch"} :
           /\ Send(g0, [type |-> type, guild |-> g0, kind |-> k0, entity |-> e0])
           /\ type = "enter" =>
                 Enter(g0, k0, e0) /\ truth' = [truth EXCEPT ![g0][k0] = @ \union {e0}]
                 /\ e0 \notin truth[g0][k0]
           /\ type = "leave" =>
                 Leave(g0, k0, e0) /\ truth' = [truth EXCEPT ![g0][k0] = @ \ {e0}]
           /\ type = "touch" => truth' = truth /\ e0 \in truth[g0][k0]
           /\ (type # "touch" /\ k0 = "member" => e0 # Self)
    <2>1. CASE Enter(g0, k0, e0)
      <3>1. k0 = "member" => e0 # Self
        BY <2>1 DEF Enter, TInv, TruthOK
      <3> QED BY <2>1, <3>1 DEF Enter
    <2>2. CASE Leave(g0, k0, e0)
      BY <2>2 DEF Leave
    <2>3. CASE Touch(g0, k0, e0)
      BY <2>3 DEF Touch
    <2> QED BY <2>1, <2>2, <2>3
  <1>2. PICK event : event = [type |-> type, guild |-> g0, kind |-> k0, entity |-> e0]
    OBVIOUS
  <1>3. event \in Events
    <2>1. type # "touch" => (k0 = "member" => e0 \in Users)
      BY <1>1 DEF Entities
    <2> QED BY <1>2, <2>1 DEF Events, EntityEvents, TouchEvents, MoveEvents
  <1>4. UNCHANGED <<todo, before, parts, bots>>
    BY DEF Enter, Leave, Touch, state
  <1>5. \A m \in Managers : inbox'[m] = inbox[m] \/ inbox'[m] = Append(inbox[m], event)
    BY <1>1, <1>2 DEF Send
  <1>6. /\ Brings(event, g, k, e) <=> g = g0 /\ k = k0 /\ e = e0 /\ type # "leave"
        /\ Takes(event, g, k, e) <=> g = g0 /\ k = k0 /\ e = e0 /\ type = "leave"
    BY <1>2 DEF Brings, Takes
  <1>7. /\ truth[g0] \in FullContents /\ truth[g] \in FullContents
        /\ truth = [x \in Guilds |-> truth[x]] /\ k \in {"role", "channel"} /\ k0 \in Kinds
    BY PlainKinds DEF TInv, TruthOK
  <1>8. e \in truth'[g][k] <=>
           \/ e \in truth[g][k] /\ ~(g = g0 /\ k = k0 /\ e = e0 /\ type = "leave")
           \/ g = g0 /\ k = k0 /\ e = e0 /\ type = "enter"
    <2>1. truth[g0] \in [role : SUBSET Entities.role, channel : SUBSET Entities.channel,
                         member : SUBSET Entities.member]
      BY <1>7 DEF FullContents, Contents
    <2>2. CASE type = "touch"
      BY <1>1, <2>2
    <2>3. ASSUME NEW S, truth' = [truth EXCEPT ![g0][k0] = S]
          PROVE  truth'[g][k] = IF g = g0 /\ k = k0 THEN S ELSE truth[g][k]
      <3>1. truth' = [truth EXCEPT ![g0] = [truth[g0] EXCEPT ![k0] = S]]
        BY <2>3
      <3>2. truth'[g] = IF g = g0 THEN [truth[g0] EXCEPT ![k0] = S] ELSE truth[g]
        BY <1>7, <3>1
      <3>3. [truth[g0] EXCEPT ![k0] = S][k] = IF k = k0 THEN S ELSE truth[g0][k]
        BY <1>7, <2>1 DEF Kinds
      <3> QED BY <3>2, <3>3
    <2>4. CASE type = "enter"
      <3>1. truth'[g][k] = IF g = g0 /\ k = k0 THEN truth[g0][k0] \union {e0} ELSE truth[g][k]
        BY <1>1, <2>3, <2>4
      <3> QED BY <2>4, <3>1
    <2>5. CASE type = "leave"
      <3>1. truth'[g][k] = IF g = g0 /\ k = k0 THEN truth[g0][k0] \ {e0} ELSE truth[g][k]
        BY <1>1, <2>3, <2>5
      <3> QED BY <2>5, <3>1
    <2> QED BY <2>2, <2>4, <2>5
  <1>9. CASE g = g0 /\ k = k0 /\ e = e0 /\ type # "touch"
    <2>1. bots[g] # {}
      <3>1. unseen' = Unseen(g0, e0)
        BY <1>1, <1>9 DEF Enter, Leave
      <3> QED BY <1>9, <3>1 DEF Unseen, WorldOK
    <2>2. Send(g, event)
      BY <1>1, <1>2, <1>9
    <2> QED BY <1>3, <1>4, <1>6, <1>8, <1>9, <2>1, <2>2, FlipPlain
  <1>10. CASE ~(g = g0 /\ k = k0 /\ e = e0 /\ type # "touch")
    <2>1. /\ e \in truth'[g][k] <=> e \in truth[g][k]
          /\ ~Takes(event, g, k, e)
          /\ e \notin truth[g][k] => ~Brings(event, g, k, e)
      BY <1>1, <1>6, <1>8, <1>10
    <2> QED BY <1>3, <1>4, <1>5, <2>1, SentPlain
  <1> QED BY <1>9, <1>10

\* An update comes with the roles the guild has.
LEMMA UpdatePlain ==
    ASSUME TInv, NEW g0 \in Guilds, NEW type \in DOMAIN WritesBack, Update(g0, type),
           NEW g \in Guilds, NEW k \in Plain, NEW e \in Entities[k], EntryOK(g, k, e)
    PROVE  EntryOK(g, k, e)'
  <1>1. PICK event : event = [type |-> type, guild |-> g0, content |-> truth[g0]]
    OBVIOUS
  <1>2. Send(g0, event) /\ UNCHANGED <<todo, before, parts, truth, bots>>
    BY <1>1 DEF Update, state
  <1>3. type \in {"update", "emojis", "stickers"}
    BY DEF WritesBack
  <1>4. event \in Events
    BY <1>1, <1>3 DEF TInv, TruthOK, Events, UpdateEvents
  <1>5. ~Takes(event, g, k, e) /\ (e \notin truth[g][k] => ~Brings(event, g, k, e))
    BY <1>1, <1>3 DEF Takes, Brings
  <1>6. \A m \in Managers : inbox'[m] = inbox[m] \/ inbox'[m] = Append(inbox[m], event)
    BY <1>2 DEF Send
  <1> QED BY <1>2, <1>4, <1>5, <1>6, SentPlain

\* What happens at Discord leaves the caches and the key it removes alone.
LEMMA DiscordSpares ==
    ASSUME Discord
    PROVE  UNCHANGED <<state, torn>>
  <1>1. ASSUME NEW g \in Guilds, NEW m \in Managers, Invite(m, g) \/ Kick(m, g)
        PROVE  UNCHANGED <<state, torn>>
    <2>1. CASE Invite(m, g)
      BY <2>1 DEF Invite
    <2>2. CASE Kick(m, g)
      BY <2>2 DEF Kick
    <2> QED BY <1>1, <2>1, <2>2
  <1>2. ASSUME NEW g \in Guilds, NEW k \in Kinds, NEW e \in Entities[k],
               Enter(g, k, e) \/ Leave(g, k, e) \/ Touch(g, k, e)
        PROVE  UNCHANGED <<state, torn>>
    <2>1. CASE Enter(g, k, e)
      BY <2>1 DEF Enter
    <2>2. CASE Leave(g, k, e)
      BY <2>2 DEF Leave
    <2>3. CASE Touch(g, k, e)
      BY <2>3 DEF Touch
    <2> QED BY <1>2, <2>1, <2>2, <2>3
  <1>3. ASSUME NEW g \in Guilds, NEW type \in DOMAIN WritesBack, Update(g, type)
        PROVE  UNCHANGED <<state, torn>>
    BY <1>3 DEF Update
  <1> QED BY <1>1, <1>2, <1>3, Zenon DEF Discord

LEMMA DiscordPlain ==
    ASSUME TInv, WorldOK, HandlersOK, PlainOK, Discord
    PROVE  PlainOK'
  <1>1. WorldOK' /\ Grows
    BY WorldSteps
  <1>2. UNCHANGED <<lost, torn>>
    <2> QED BY DiscordSpares DEF state
  <1> SUFFICES ASSUME NEW g \in Guilds, NEW k \in Plain, NEW e \in Entities[k], e \notin unseen'[g],
                      Counted(g, k)'
               PROVE  EntryOK(g, k, e)'
    BY DEF PlainOK
  <1>3. Counted(g, k)
    BY <1>1, <1>2, CountedBefore
  <1>4. EntryOK(g, k, e)
    BY <1>1, <1>3 DEF PlainOK, Grows
  <1> QED BY <1>3, <1>4, MovePlain, ChangePlain, UpdatePlain DEF Discord

\* The ejector takes a guild out while no bot is in it, or it counts no more.
LEMMA RemovePlain ==
    ASSUME TInv, WorldOK, PlainOK, NEW g0 \in Guilds, Remove(g0)
    PROVE  PlainOK'
  <1>1. /\ UNCHANGED <<truth, bots, unseen, served, left, updated, inbox, todo, before, lost>>
        /\ torn' = IF bots[g0] # {} THEN torn \union {g0} ELSE torn
    BY DEF Remove, world
  <1>2. WorldOK' /\ Grows
    BY <1>1 DEF WorldOK, Grows
  <1>3. \A k \in Tables : \A g \in Keys(k) :
           parts'[k][g] = parts[k][g] \/ (g = g0 /\ parts'[k][g] = None)
    <2>1. parts' = parts \/ \E k \in Kinds : parts' = [parts EXCEPT ![k][g0] = None]
      BY DEF Remove, ClearKey
    <2>2. ASSUME NEW k0 \in Kinds, parts' = [parts EXCEPT ![k0][g0] = None],
                 NEW k \in Tables, NEW g \in Keys(k)
          PROVE  parts'[k][g] = parts[k][g] \/ (g = g0 /\ parts'[k][g] = None)
      <3>1. PartsOK /\ k0 \in Tables /\ g0 \in Keys(k0) /\ None \in (SUBSET Of(k0)) \union {None}
        BY DEF TInv, Kinds, Tables, Keys
      <3>2. \A x \in Tables : \A y \in Keys(x) :
               parts'[x][y] = IF x = k0 /\ y = g0 THEN None ELSE parts[x][y]
        BY <2>2, <3>1, PartsChange, ZenonT(60)
      <3> QED BY <3>2
    <2> QED BY <2>1, <2>2
  <1> SUFFICES ASSUME NEW g \in Guilds, NEW k \in Plain, NEW e \in Entities[k], e \notin unseen'[g],
                      Counted(g, k)'
               PROVE  EntryOK(g, k, e)'
    BY DEF PlainOK
  <1>4. EntryOK(g, k, e)
    <2>1. Counted(g, k)
      BY <1>1, <1>2, CountedBefore
    <2> QED BY <1>1, <2>1 DEF PlainOK
  <1>5. Held(k, g)' = Held(k, g) \/ (bots[g] = {} /\ Held(k, g)' = {})
    <2>1. parts'[k][g] = parts[k][g] \/ (g = g0 /\ parts'[k][g] = None)
      BY <1>3, PlainKinds
    <2>2. g = g0 => bots[g] = {}
      BY <1>1 DEF Counted
    <2> QED BY <2>1, <2>2 DEF Held
  <1>6. Agrees(g, k, e) => Agrees(g, k, e)'
    BY <1>1, <1>5 DEF Agrees
  <1>7. \A m \in Managers :
           (Local(m, g, k, e)' <=> Local(m, g, k, e)) /\ (Due(m, g, k, e)' <=> Due(m, g, k, e))
    BY <1>1 DEF Local, Due, Coming, Going, Putting, Taking, Rewriting
  <1> QED BY <1>4, <1>6, <1>7 DEF EntryOK

LEMMA SamePlain ==
    ASSUME PlainOK, UNCHANGED <<world, inbox, todo, before, parts, lost, torn>>
    PROVE  PlainOK'
  <1>1. UNCHANGED <<truth, bots, unseen, served, left, updated>>
    BY DEF world
  <1> QED BY <1>1, SMTT(60) DEF PlainOK, EntryOK, Counted, Alone, Local, Agrees, Due, Coming, Going, Putting,
       Taking, Rewriting, Held

LEMMA InitPlain ==
    ASSUME Init
    PROVE  WorldOK /\ HandlersOK /\ PlainOK
  <1>1. WorldOK
    BY DEF Init, WorldOK
  <1>2. \A m \in Managers : todo[m] = <<>> /\ inbox[m] = <<>> /\ Items(todo[m]) = {} /\ Items(inbox[m]) = {}
    BY NothingItems DEF Init
  <1>3. HandlersOK
    BY <1>2, NothingItems DEF HandlersOK
  <1>4. ASSUME NEW g \in Guilds, NEW k \in Plain, NEW e \in Entities[k]
        PROVE  EntryOK(g, k, e)
    <2>1. ASSUME NEW m \in Managers PROVE Local(m, g, k, e)
      <3>1. ~Putting(m, g, k, e) /\ ~Rewriting(m, g, k, e)
        BY <1>2 DEF Putting, Rewriting
      <3>2. ~Taking(m, g, k, e)
        <4>1. <<>> # <<DropOp(k, g, e)>>
          OBVIOUS
        <4> QED BY <1>2, <4>1 DEF Taking
      <3>3. \A A, B : Followed(inbox[m], A, B)
        BY <1>2 DEF Followed
      <3> QED BY <3>1, <3>2, <3>3 DEF Local
    <2>2. k \in {"role", "channel"} /\ k \in Tables /\ Keys(k) = Guilds
      BY PlainKinds
    <2>3. truth[g] = Basic
      BY DEF Init
    <2>4. parts[k][g] = IF k \in {"role", "member"} /\ bots[g] # {} THEN Basic[k] ELSE None
      <3>1. parts[k] = [key \in Keys(k) |->
                          IF k \in {"role", "member"} /\ bots[key] # {} THEN Basic[k] ELSE None]
        BY <2>2 DEF Init
      <3> QED BY <2>2, <3>1
    <2>5. Basic.role # None /\ Basic.role = {Everyone} /\ Basic.channel = {}
      BY ConstantsAssumption DEF Basic
    <2>6. Agrees(g, k, e)
      <3>1. CASE k = "role"
        BY <2>3, <2>4, <2>5, <3>1 DEF Agrees, Held
      <3>2. CASE k = "channel"
        BY <2>3, <2>4, <2>5, <3>2 DEF Agrees, Held
      <3> QED BY <2>2, <3>1, <3>2
    <2> QED BY <2>1, <2>6 DEF EntryOK
  <1> QED BY <1>1, <1>3, <1>4 DEF PlainOK

LEMMA NextPlain ==
    ASSUME TInv, WorldOK, HandlersOK, PlainOK, [Next]_vars
    PROVE  PlainOK'
  <1>1. ASSUME NEW m \in Managers, Reader(m) PROVE PlainOK'
    BY <1>1, PassesPlain, LoadPlain, HandlePlain, ReadPlain, RewritePlain, StorePlain, DropPlain
       DEF Reader, Passes
  <1>2. CASE Ejector
    <2>1. ASSUME BeginEject \/ ListVictims \/ EndEject \/ \E m \in Managers : Scan(m) PROVE PlainOK'
      <3>1. UNCHANGED <<world, inbox, todo, before, parts, lost, torn>>
        BY <2>1 DEF BeginEject, ListVictims, EndEject, Scan, state
      <3> QED BY <3>1, SamePlain
    <2> QED BY <1>2, <2>1, RemovePlain DEF Ejector
  <1>3. CASE (\E key \in dedupe : ExpireKey(key)) \/ UNCHANGED vars
    <2>1. UNCHANGED <<world, inbox, todo, before, parts, lost, torn>>
      BY <1>3 DEF ExpireKey, vars, state
    <2> QED BY <2>1, SamePlain
  <1> QED BY <1>1, <1>2, <1>3, DiscordPlain DEF Next

\* At rest nobody is about to change anything.
LEMMA PlainMatches ==
    ASSUME TInv, PlainOK
    PROVE  PlainPartsMatch
  <1> SUFFICES ASSUME NEW g \in Guilds \ (lost \union torn), AtRest(g), bots[g] # {},
                      Alone(g) \/ g \notin left, NEW k \in {"role", "channel"},
                      ~(~Alone(g) /\ k \in updated[g])
               PROVE  (Held(k, g) \ unseen[g]) = (Expected(k, g) \ unseen[g])
    BY DEF PlainPartsMatch
  <1>1. k \in Plain /\ k \in Tables /\ Keys(k) = Guilds /\ Of(k) = Entities[k]
    BY PlainKinds DEF Plain
  <1>2. Counted(g, k)
    BY DEF Counted
  <1>3. Expected(k, g) = truth[g][k]
    BY DEF Expected, Cacheable
  <1>4. truth[g][k] \subseteq Entities[k]
    BY DEF TInv, TruthOK, FullContents, Contents
  <1>5. Held(k, g) \subseteq Entities[k]
    BY <1>1 DEF TInv, PartsOK, Held
  <1>6. ASSUME NEW e \in Entities[k], e \notin unseen[g]
        PROVE  e \in Held(k, g) <=> e \in truth[g][k]
    <2>1. EntryOK(g, k, e)
      BY <1>1, <1>2, <1>6 DEF PlainOK
    <2>2. ASSUME NEW m \in Managers PROVE ~Due(m, g, k, e)
      <3>1. todo[m] = <<>> /\ Items(todo[m]) = {} /\ Items(inbox[m]) = {}
        BY NothingItems DEF AtRest
      <3>2. <<>> # <<DropOp(k, g, e)>>
        OBVIOUS
      <3> QED BY <3>1, <3>2 DEF Due, Coming, Going, Putting, Taking
    <2>3. Agrees(g, k, e)
      BY <2>1, <2>2 DEF EntryOK
    <2> QED BY <2>3 DEF Agrees
  <1> QED BY <1>3, <1>4, <1>5, <1>6

\* At rest the cache has the roles and channels each guild has, for any managers,
\* guilds and entities, however the readers of the managers that share a guild, and
\* the ejector, interleave: but for what changed unseen, a change that went to a map
\* no longer in use, and the guilds and parts that PlainPartsMatch excepts.
THEOREM PlainPartsKept == Spec => []PlainPartsMatch
  <1> DEFINE Inv == IInv /\ TInv /\ WorldOK /\ HandlersOK /\ PlainOK
  <1>1. Init => Inv
    BY InitIInv, InitTInv, InitPlain
  <1>2. Inv /\ [Next]_vars => Inv'
    BY NextIInv, NextTInv, NextHandlers, NextPlain
  <1>3. Inv => PlainPartsMatch
    BY PlainMatches
  <1> QED BY <1>1, <1>2, <1>3, PTL DEF Spec
=============================================================================
