------------------------------ MODULE GuildCache ------------------------------
(***************************************************************************)
(* The state the managers share: guilds with their member counts, roles,   *)
(* channels, emojis and members, the mutual guilds of users, the keys that *)
(* keep a member event from being applied once per manager, and the cache  *)
(* ejector.                                                                *)
(*                                                                         *)
(* Each manager with its bot in a guild is sent the guild's events on a    *)
(* connection of its own, in order and with a delay of its own (inbox).    *)
(* Its reader runs the handler of one event at a time.  The maps are       *)
(* concurrent, so one operation on a map is one step, and a handler is the *)
(* sequence of them it is in the middle of (todo).  What operates on a     *)
(* two-level map loads the inner map first (hand) and changes it then: by  *)
(* then it may have been taken out of the outer map, or another one put    *)
(* where there was none.                                                   *)
(***************************************************************************)
EXTENDS Integers, Sequences, FiniteSets

CONSTANTS
    Managers, Guilds,
    Roles, Channels, Users,  \* what a guild may have
    Everyone, Self,          \* the role and the member every guild has
    None,
    CacheMembers,            \* the configuration's cache_members
    StoreMutuals,            \* the configuration's store_mutuals
    MaxChanges               \* bound: changes of guilds on Discord

VARIABLES
    truth,    \* Discord: what each guild has
    bots,     \* Discord: the managers whose bot is in each guild
    changes,  \* number of changes so far
    inbox,    \* for each manager, the events its reader has yet to handle
    todo,     \* for each manager, the operations left of its handler
    hand,     \* for each manager, the inner map and the entry it works on
    before,   \* for each manager, what its handler read of the guild
    refs,     \* for each manager, the Guilds of its shard group
    guilds,   \* State.Guilds: the member count of each guild
    emojis,   \* State.GuildEmojis: the guilds it has
    parts,    \* State.GuildRoles, GuildChannels, GuildMembers and Mutuals
    dedupe,   \* Sandwich.Dedupe
    ejector,  \* the cache ejector
    unseen,   \* history: what changed in a guild without a bot in it
    served,   \* history: the managers whose bot was ever in each guild
    left,     \* history: the guilds a bot has left
    updated,  \* history: the kinds updates of each guild wrote back
    lost,     \* history: the guilds of which a change went to a dropped map
    torn      \* history: the guilds ejected in spite of a bot in them

world == <<truth, bots, changes, unseen, served, left, updated>>
state == <<refs, guilds, emojis, parts, dedupe, lost>>
vars == <<world, inbox, todo, hand, before, state, ejector, torn>>

Kinds == {"role", "channel", "member"}
Entities == [role |-> Roles \union {Everyone}, channel |-> Channels,
             member |-> Users \union {Self}]

ASSUME ConstantsAssumption ==
    /\ IsFiniteSet(Managers) /\ Managers # {}
    /\ None \notin Managers \union Guilds \union Users \union {"live"}
    /\ None \notin Int
    /\ None \notin [count : Int, role : SUBSET Entities.role, channel : SUBSET Entities.channel,
                    member : SUBSET Entities.member]
    /\ \A S \in SUBSET (Roles \union Channels \union Users \union Guilds \union {Everyone, Self}) :
          S # None
    /\ CacheMembers \in BOOLEAN /\ StoreMutuals \in BOOLEAN
    /\ MaxChanges \in Nat

-----------------------------------------------------------------------------
(* Two-level maps: parts[k][key] is the inner map at key, None if there is *)
(* none.  A hand is "live" while it holds the inner map of the outer one,  *)
(* "dropped" once that was taken out, "absent" if there was none.          *)

Tables == Kinds \union {"mutual"}
Keys(k) == IF k = "mutual" THEN Users ELSE Guilds
NoHand == [map |-> None, entry |-> None]

LoadInner(k, key) == IF parts[k][key] = None THEN "absent" ELSE "live"

\* DoubleCache.Store, after the load: into the inner map loaded, or into a new
\* one that is set only if there still is none.
StoreInner(k, key, map, e) ==
    CASE map = "live" -> [parts EXCEPT ![k][key] = @ \union {e}]
      [] map = "absent" /\ parts[k][key] = None -> [parts EXCEPT ![k][key] = {e}]
      [] OTHER -> parts

\* DoubleCache.Delete, after the load.
DeleteInner(k, key, map, e) ==
    IF map = "live" THEN [parts EXCEPT ![k][key] = @ \ {e}] ELSE parts

\* The store is of no effect.
Misses(k, key, map) == map = "dropped" \/ (map = "absent" /\ parts[k][key] # None)

-----------------------------------------------------------------------------
(* Handlers: the operations each event is handled by                       *)

Op(do, g) == [do |-> do, guild |-> g]
StoreOps(k, key, S) ==
    IF S = {} THEN <<>> ELSE <<[do |-> "store", kind |-> k, key |-> key, entries |-> S]>>
DropOp(k, key, e) == [do |-> "drop", kind |-> k, key |-> key, entries |-> {e}]
KeyOp(do, kind, g, u) == [do |-> do, dkey |-> <<kind, g, u>>]

\* SetGuildMember caches the bot's own member in any case.
Cacheable(k, S) == IF k = "member" /\ ~CacheMembers THEN S \intersect {Self} ELSE S

\* SetGuild: reference, guild, roles, channels, emojis, members, in this order.
\* What the guild had before is not removed.
SetGuild(g, content, count) ==
    <<Op("ref", g), [do |-> "guild", guild |-> g, count |-> count]>>
    \o StoreOps("role", g, content.role) \o StoreOps("channel", g, content.channel)
    \o <<Op("emojis", g)>> \o StoreOps("member", g, Cacheable("member", content.member))

OnGuildCreate(g, content) == SetGuild(g, content, Cardinality(content.member))

\* OnGuildDelete only gives up the manager's reference.
OnGuildDelete(g) == <<Op("unref", g)>>

\* GetGuild reads part by part, and stops at the first part that is missing.
GetGuild(g) ==
    <<Op("readGuild", g), Op("readRoles", g), Op("readChannels", g), Op("readEmojis", g),
      Op("readMembers", g)>>

\* OnGuildUpdate: GetGuild, then SetGuild; the payload itself has roles only.
OnGuildUpdate(g, content) ==
    GetGuild(g) \o <<[do |-> "rewrite", guild |-> g, role |-> content.role]>>

\* OnGuildStickersUpdate writes back all it read, and nothing if a part is missing.
OnStickersUpdate(g) == GetGuild(g) \o <<[do |-> "rewrite", guild |-> g, role |-> None]>>

OnEmojisUpdate(g) == <<Op("noEmojis", g), Op("emojis", g)>>

OnGuildMemberAdd(g, u) ==
    <<KeyOp("check", "add", g, u), KeyOp("mark", "add", g, u), KeyOp("unmark", "remove", g, u),
      Op("readGuild", g), Op("increment", g)>>
    \o StoreOps("member", g, Cacheable("member", {u}))
    \o StoreOps("mutual", u, IF StoreMutuals THEN {g} ELSE {})

\* Mutant: the key of the member's next join is left set.
RemoveKeepsAddKey(g, u) ==
    <<KeyOp("check", "remove", g, u), KeyOp("mark", "remove", g, u),
      Op("readGuild", g), Op("decrement", g),
      DropOp("member", g, u), DropOp("mutual", u, g)>>

OnGuildMemberRemove(g, u) ==
    <<KeyOp("check", "remove", g, u), KeyOp("mark", "remove", g, u), KeyOp("unmark", "add", g, u),
      Op("readGuild", g), Op("decrement", g),
      DropOp("member", g, u), DropOp("mutual", u, g)>>

\* Mutant: what comes before anything else of its kind is not stored.
SetKnown(g, k, e) ==
    IF parts[k][g] = None THEN <<>> ELSE StoreOps(k, g, Cacheable(k, {e}))

\* The entry is stored, known before or not.
OnSet(g, k, e) == StoreOps(k, g, Cacheable(k, {e}))

OnGuildRoleCreate(g, e) == OnSet(g, "role", e)
OnGuildRoleUpdate(g, e) == OnSet(g, "role", e)
OnGuildRoleDelete(g, e) == <<DropOp("role", g, e)>>
OnChannelCreate(g, e) == OnSet(g, "channel", e)
OnChannelUpdate(g, e) == OnSet(g, "channel", e)
OnChannelDelete(g, e) == <<DropOp("channel", g, e)>>

\* A voice state brings the member along: it is stored the same way.
OnGuildMemberUpdate(g, u) == OnSet(g, "member", u)

EntityHandler(event) ==
    LET g == event.guild
        e == event.entity
        type == <<event.type, event.kind>>
    IN CASE type = <<"enter", "role">> -> OnGuildRoleCreate(g, e)
         [] type = <<"touch", "role">> -> OnGuildRoleUpdate(g, e)
         [] type = <<"leave", "role">> -> OnGuildRoleDelete(g, e)
         [] type = <<"enter", "channel">> -> OnChannelCreate(g, e)
         [] type = <<"touch", "channel">> -> OnChannelUpdate(g, e)
         [] type = <<"leave", "channel">> -> OnChannelDelete(g, e)
         [] type = <<"enter", "member">> -> OnGuildMemberAdd(g, e)
         [] type = <<"touch", "member">> -> OnGuildMemberUpdate(g, e)
         [] type = <<"leave", "member">> -> OnGuildMemberRemove(g, e)

Handler(event) ==
    LET g == event.guild IN
    CASE event.type = "create" -> OnGuildCreate(g, event.content)
      [] event.type = "delete" -> OnGuildDelete(g)
      [] event.type = "update" -> OnGuildUpdate(g, event.content)
      [] event.type = "emojis" -> OnEmojisUpdate(g)
      [] event.type = "stickers" -> OnStickersUpdate(g)
      [] OTHER -> EntityHandler(event)

-----------------------------------------------------------------------------
(* Initial state: some bots are in the guilds already, and cached          *)

Basic == [role |-> {Everyone}, channel |-> {}, member |-> {Self}]
Idle == [pc |-> "idle", left |-> {}, seen |-> {}, victims |-> {}, stage |-> 0, steady |-> {}]

Init ==
    /\ truth = [g \in Guilds |-> Basic]
    /\ bots \in [Guilds -> SUBSET Managers]
    /\ changes = 0
    /\ inbox = [m \in Managers |-> <<>>]
    /\ todo = [m \in Managers |-> <<>>]
    /\ hand = [m \in Managers |-> NoHand]
    /\ before = [m \in Managers |-> None]
    /\ refs = [m \in Managers |-> {g \in Guilds : m \in bots[g]}]
    /\ guilds = [g \in Guilds |-> IF bots[g] = {} THEN None ELSE 1]
    /\ emojis = {g \in Guilds : bots[g] # {}}
    /\ parts = [k \in Tables |-> [key \in Keys(k) |->
          IF k \in {"role", "member"} /\ bots[key] # {} THEN Basic[k] ELSE None]]
    /\ dedupe = {}
    /\ ejector = Idle
    /\ unseen = [g \in Guilds |-> {}]
    /\ served = bots /\ left = {} /\ updated = [g \in Guilds |-> {}]
    /\ lost = {} /\ torn = {}

-----------------------------------------------------------------------------
(* Discord                                                                 *)

Send(g, event) ==
    inbox' = [m \in Managers |-> IF m \in bots[g] THEN Append(inbox[m], event) ELSE inbox[m]]

Change == changes < MaxChanges /\ changes' = changes + 1

\* A bot is added to a guild: its manager is sent all of it.
Invite(m, g) ==
    /\ Change /\ m \notin bots[g]
    /\ bots' = [bots EXCEPT ![g] = @ \union {m}]
    /\ served' = [served EXCEPT ![g] = @ \union {m}]
    /\ inbox' = [inbox EXCEPT ![m] =
          Append(@, [type |-> "create", guild |-> g, content |-> truth[g]])]
    /\ UNCHANGED <<truth, unseen, left, updated, todo, hand, before, state, ejector, torn>>

Kick(m, g) ==
    /\ Change /\ m \in bots[g]
    /\ bots' = [bots EXCEPT ![g] = @ \ {m}]
    /\ left' = left \union {g}
    /\ inbox' = [inbox EXCEPT ![m] = Append(@, [type |-> "delete", guild |-> g])]
    /\ UNCHANGED <<truth, unseen, served, updated, todo, hand, before, state, ejector, torn>>

Unseen(g, e) == IF bots[g] = {} THEN [unseen EXCEPT ![g] = @ \union {e}] ELSE unseen

\* A role, a channel or a member comes to a guild, or leaves it.
Enter(g, k, e) ==
    /\ Change /\ e \notin truth[g][k]
    /\ truth' = [truth EXCEPT ![g][k] = @ \union {e}]
    /\ unseen' = Unseen(g, e)
    /\ Send(g, [type |-> "enter", guild |-> g, kind |-> k, entity |-> e])
    /\ UNCHANGED <<bots, served, left, updated, todo, hand, before, state, ejector, torn>>

Leave(g, k, e) ==
    /\ Change /\ e \in truth[g][k] \ {Everyone, Self}
    /\ truth' = [truth EXCEPT ![g][k] = @ \ {e}]
    /\ unseen' = Unseen(g, e)
    /\ Send(g, [type |-> "leave", guild |-> g, kind |-> k, entity |-> e])
    /\ UNCHANGED <<bots, served, left, updated, todo, hand, before, state, ejector, torn>>

\* What the handler of an update writes back as it read it before.
WritesBack == [update |-> {"channel"}, emojis |-> {}, stickers |-> {"role", "channel"}]

\* One of them, the guild, its emojis or its stickers are updated.
Touch(g, k, e) ==
    /\ Change /\ e \in truth[g][k] /\ bots[g] # {}
    /\ Send(g, [type |-> "touch", guild |-> g, kind |-> k, entity |-> e])
    /\ UNCHANGED <<truth, bots, unseen, served, left, updated, todo, hand, before, state, ejector, torn>>

Update(g, type) ==
    /\ Change /\ bots[g] # {} /\ type \in DOMAIN WritesBack
    /\ updated' = [updated EXCEPT ![g] = @ \union WritesBack[type]]
    /\ Send(g, [type |-> type, guild |-> g, content |-> truth[g]])
    /\ UNCHANGED <<truth, bots, unseen, served, left, todo, hand, before, state, ejector, torn>>

-----------------------------------------------------------------------------
(* Readers                                                                 *)

Doing(m, do) == todo[m] # <<>> /\ Head(todo[m]).do = do

Handle(m) ==
    /\ todo[m] = <<>> /\ inbox[m] # <<>>
    /\ todo' = [todo EXCEPT ![m] = Handler(Head(inbox[m]))]
    /\ inbox' = [inbox EXCEPT ![m] = Tail(@)]
    /\ UNCHANGED <<world, hand, before, state, ejector, torn>>

Next1(m) == todo' = [todo EXCEPT ![m] = Tail(@)]

\* ShardGroup.Guilds
Reference(m) ==
    /\ Doing(m, "ref") /\ Next1(m)
    /\ refs' = [refs EXCEPT ![m] = @ \union {Head(todo[m]).guild}]
    /\ UNCHANGED <<world, inbox, hand, before, guilds, emojis, parts, dedupe, lost, ejector, torn>>

Unreference(m) ==
    /\ Doing(m, "unref") /\ Next1(m)
    /\ refs' = [refs EXCEPT ![m] = @ \ {Head(todo[m]).guild}]
    /\ ejector' = [ejector EXCEPT !.steady = @ \ {<<m, Head(todo[m]).guild>>}]
    /\ UNCHANGED <<world, inbox, hand, before, guilds, emojis, parts, dedupe, lost, torn>>

\* State.Guilds
StoreGuild(m) ==
    /\ Doing(m, "guild") /\ Next1(m)
    /\ guilds' = [guilds EXCEPT ![Head(todo[m]).guild] = Head(todo[m]).count]
    /\ UNCHANGED <<world, inbox, hand, before, refs, emojis, parts, dedupe, lost, ejector, torn>>

\* Cache.Update stores the guild it loaded even if it was deleted since.
Increment(m) ==
    /\ Doing(m, "increment") /\ Next1(m)
    /\ guilds' = IF before[m] = None THEN guilds
                 ELSE [guilds EXCEPT ![Head(todo[m]).guild] = before[m].count + 1]
    /\ before' = [before EXCEPT ![m] = None]
    /\ UNCHANGED <<world, inbox, hand, refs, emojis, parts, dedupe, lost, ejector, torn>>

\* SetIfPresent does not.
Decrement(m) ==
    /\ Doing(m, "decrement") /\ Next1(m)
    /\ LET g == Head(todo[m]).guild
       IN guilds' = IF before[m] = None \/ guilds[g] = None THEN guilds
                    ELSE [guilds EXCEPT ![g] = before[m].count - 1]
    /\ before' = [before EXCEPT ![m] = None]
    /\ UNCHANGED <<world, inbox, hand, refs, emojis, parts, dedupe, lost, ejector, torn>>

\* State.GuildEmojis
StoreEmojis(m) ==
    /\ Doing(m, "emojis") /\ Next1(m)
    /\ emojis' = emojis \union {Head(todo[m]).guild}
    /\ UNCHANGED <<world, inbox, hand, before, refs, guilds, parts, dedupe, lost, ejector, torn>>

RemoveEmojis(m) ==
    /\ Doing(m, "noEmojis") /\ Next1(m)
    /\ emojis' = emojis \ {Head(todo[m]).guild}
    /\ UNCHANGED <<world, inbox, hand, before, refs, guilds, parts, dedupe, lost, ejector, torn>>

\* The two-level maps, one entry at a time: load the inner map, then change it.
Load(m) ==
    /\ Doing(m, "store") \/ Doing(m, "drop")
    /\ hand[m] = NoHand
    /\ LET op == Head(todo[m]) IN
       \E e \in op.entries :
          hand' = [hand EXCEPT ![m] = [map |-> LoadInner(op.kind, op.key), entry |-> e]]
    /\ UNCHANGED <<world, inbox, todo, before, state, ejector, torn>>

Store(m) ==
    /\ Doing(m, "store") /\ hand[m] # NoHand
    /\ LET op == Head(todo[m])
           e == hand[m].entry
       IN /\ parts' = StoreInner(op.kind, op.key, hand[m].map, e)
          /\ lost' = IF Misses(op.kind, op.key, hand[m].map) THEN lost \union {op.key} ELSE lost
          /\ todo' = [todo EXCEPT ![m] = StoreOps(op.kind, op.key, op.entries \ {e}) \o Tail(@)]
    /\ hand' = [hand EXCEPT ![m] = NoHand]
    /\ UNCHANGED <<world, inbox, before, refs, guilds, emojis, dedupe, ejector, torn>>

Drop(m) ==
    /\ Doing(m, "drop") /\ hand[m] # NoHand
    /\ LET op == Head(todo[m])
       IN /\ parts' = DeleteInner(op.kind, op.key, hand[m].map, hand[m].entry)
          /\ lost' = IF Misses(op.kind, op.key, hand[m].map) THEN lost \union {op.key} ELSE lost
    /\ Next1(m)
    /\ hand' = [hand EXCEPT ![m] = NoHand]
    /\ UNCHANGED <<world, inbox, before, refs, guilds, emojis, dedupe, ejector, torn>>

\* GetGuild: what it read so far is lost when a part is missing.
ReadGuild(m) ==
    /\ Doing(m, "readGuild") /\ Next1(m)
    /\ LET g == Head(todo[m]).guild
       IN before' = [before EXCEPT ![m] = IF guilds[g] = None THEN None
                       ELSE [count |-> guilds[g], role |-> {}, channel |-> {}, member |-> {}]]
    /\ UNCHANGED <<world, inbox, hand, state, ejector, torn>>

\* The parts GetGuild fails without.
Missing(m) ==
    LET g == Head(todo[m]).guild IN
    \/ Doing(m, "readRoles") /\ parts["role"][g] = None
    \/ Doing(m, "readEmojis") /\ g \notin emojis
    \/ Doing(m, "readMembers") /\ parts["member"][g] = None

PartOf == [readRoles |-> "role", readChannels |-> "channel", readMembers |-> "member"]

ReadPart(m) ==
    /\ todo[m] # <<>> /\ Head(todo[m]).do \in DOMAIN PartOf \union {"readEmojis"}
    /\ Next1(m)
    /\ LET op == Head(todo[m])
           k == PartOf[op.do]
       IN before' = IF before[m] = None \/ Missing(m) THEN [before EXCEPT ![m] = None]
                    ELSE IF op.do = "readEmojis" \/ parts[k][op.guild] = None
                    THEN before
                    ELSE [before EXCEPT ![m][k] = parts[k][op.guild]]
    /\ UNCHANGED <<world, inbox, hand, state, ejector, torn>>

\* OnGuildUpdate goes on with what it read, or with the bare payload.
Rewrite(m) ==
    /\ Doing(m, "rewrite")
    /\ LET op == Head(todo[m])
           old == before[m]
           bare == [role |-> op.role, channel |-> {}, member |-> {}]
       IN todo' = [todo EXCEPT ![m] =
            IF old # None
              THEN SetGuild(op.guild, IF op.role = None THEN old ELSE [old EXCEPT !.role = op.role],
                            old.count)
              ELSE IF op.role = None THEN <<>> ELSE SetGuild(op.guild, bare, 0)]
    /\ before' = [before EXCEPT ![m] = None]
    /\ UNCHANGED <<world, inbox, hand, state, ejector, torn>>

\* CheckAndAddDedupe: an event whose key is set is dropped.
Check(m) ==
    /\ Doing(m, "check")
    /\ todo' = [todo EXCEPT ![m] = IF Head(@).dkey \in dedupe THEN <<>> ELSE Tail(@)]
    /\ UNCHANGED <<world, inbox, hand, before, state, ejector, torn>>

Mark(m) ==
    /\ Doing(m, "mark") /\ Next1(m)
    /\ dedupe' = dedupe \union {Head(todo[m]).dkey}
    /\ UNCHANGED <<world, inbox, hand, before, refs, guilds, emojis, parts, lost, ejector, torn>>

Unmark(m) ==
    /\ Doing(m, "unmark") /\ Next1(m)
    /\ dedupe' = dedupe \ {Head(todo[m]).dkey}
    /\ UNCHANGED <<world, inbox, hand, before, refs, guilds, emojis, parts, lost, ejector, torn>>

\* A key is a minute old: it counts as unset, and the ejector deletes it.
ExpireKey(key) ==
    /\ key \in dedupe
    /\ dedupe' = dedupe \ {key}
    /\ UNCHANGED <<world, inbox, todo, hand, before, refs, guilds, emojis, parts, lost,
                   ejector, torn>>

-----------------------------------------------------------------------------
(* The ejector                                                             *)

References(m) == {<<m, g>> : g \in refs[m]}

BeginEject ==
    /\ ejector.pc = "idle"
    /\ ejector' = [Idle EXCEPT !.pc = "scan", !.left = Managers,
                               !.steady = UNION {References(m) : m \in Managers}]
    /\ UNCHANGED <<world, inbox, todo, hand, before, state, torn>>

\* Mutant: only the last manager's guilds are noted.
ScanOverwrites(m) ==
    /\ ejector.pc = "scan" /\ m \in ejector.left
    /\ ejector' = [ejector EXCEPT !.left = @ \ {m}, !.seen = refs[m]]
    /\ UNCHANGED <<world, inbox, todo, hand, before, state, torn>>

\* The guilds of one manager's shard groups are noted as used.
Scan(m) ==
    /\ ejector.pc = "scan" /\ m \in ejector.left
    /\ ejector' = [ejector EXCEPT !.left = @ \ {m}, !.seen = @ \union refs[m]]
    /\ UNCHANGED <<world, inbox, todo, hand, before, state, torn>>

\* The cached guilds that were not noted are to be removed.
ListVictims ==
    /\ ejector.pc = "scan" /\ ejector.left = {}
    /\ ejector' = [ejector EXCEPT !.pc = "remove",
                      !.victims = {g \in Guilds : guilds[g] # None} \ ejector.seen]
    /\ UNCHANGED <<world, inbox, todo, hand, before, state, torn>>

\* Mutant: whoever loaded the inner map goes on with the one in the outer map.
ClearInPlace(k, g) == parts' = [parts EXCEPT ![k][g] = None] /\ UNCHANGED hand

\* ClearKey takes the inner map out: whoever holds it changes a dropped one.
ClearKey(k, g) ==
    /\ parts' = [parts EXCEPT ![k][g] = None]
    /\ hand' = [m \in Managers |->
          IF hand[m].map = "live" /\ Head(todo[m]).kind = k /\ Head(todo[m]).key = g
            THEN [hand[m] EXCEPT !.map = "dropped"] ELSE hand[m]]

\* RemoveGuild of a victim, map by map: guild, roles, channels, emojis, members.
Stages == <<"guild", "role", "channel", "emojis", "member">>

Remove(g) ==
    /\ ejector.pc = "remove" /\ g \in ejector.victims
    /\ LET stage == Stages[ejector.stage + 1] IN
       /\ IF stage = "guild" THEN guilds' = [guilds EXCEPT ![g] = None] ELSE UNCHANGED guilds
       /\ IF stage = "emojis" THEN emojis' = emojis \ {g} ELSE UNCHANGED emojis
       /\ IF stage \in Kinds THEN ClearKey(stage, g) ELSE UNCHANGED <<parts, hand>>
       /\ torn' = IF bots[g] # {} THEN torn \union {g} ELSE torn
       /\ ejector' = IF stage = "member"
                       THEN [ejector EXCEPT !.stage = 0, !.victims = @ \ {g}]
                       ELSE [ejector EXCEPT !.stage = @ + 1]
    /\ UNCHANGED <<world, inbox, todo, before, refs, dedupe, lost>>

EndEject ==
    /\ ejector.pc = "remove" /\ ejector.victims = {}
    /\ ejector' = Idle
    /\ UNCHANGED <<world, inbox, todo, hand, before, state, torn>>

-----------------------------------------------------------------------------

Discord ==
    \E g \in Guilds :
       \/ \E m \in Managers : Invite(m, g) \/ Kick(m, g)
       \/ \E k \in Kinds : \E e \in Entities[k] : Enter(g, k, e) \/ Leave(g, k, e) \/ Touch(g, k, e)
       \/ \E type \in DOMAIN WritesBack : Update(g, type)

Reader(m) ==
    \/ Handle(m)
    \/ Reference(m) \/ Unreference(m) \/ StoreGuild(m) \/ Increment(m) \/ Decrement(m)
    \/ StoreEmojis(m) \/ RemoveEmojis(m)
    \/ Load(m) \/ Store(m) \/ Drop(m)
    \/ ReadGuild(m) \/ ReadPart(m) \/ Rewrite(m)
    \/ Check(m) \/ Mark(m) \/ Unmark(m)

Ejector ==
    \/ BeginEject \/ ListVictims \/ EndEject
    \/ \E m \in Managers : Scan(m)
    \/ \E g \in Guilds : Remove(g)

Next ==
    \/ Discord
    \/ \E m \in Managers : Reader(m)
    \/ Ejector
    \/ \E key \in dedupe : ExpireKey(key)

Spec == Init /\ [][Next]_vars

-----------------------------------------------------------------------------
(* Properties *)

\* The caches hold what they are for, and who loaded an inner map that is still
\* in use finds it in the outer map.
TypeOK ==
    /\ \A g \in Guilds : guilds[g] = None \/ guilds[g] \in Int
    /\ emojis \subseteq Guilds
    /\ \A m \in Managers : refs[m] \subseteq Guilds
    /\ \A k \in Kinds : \A g \in Guilds :
          parts[k][g] = None \/ parts[k][g] \subseteq Entities[k]
    /\ \A u \in Users : parts["mutual"][u] = None \/ parts["mutual"][u] \subseteq Guilds
    /\ \A m \in Managers : hand[m] # NoHand =>
          /\ Doing(m, "store") \/ Doing(m, "drop")
          /\ hand[m].map = "live" => parts[Head(todo[m]).kind][Head(todo[m]).key] # None
    /\ ejector.stage \in 0..4

\* Nobody has anything left to do about guild g.
AtRest(g) ==
    /\ ejector.victims = {}
    /\ \A m \in Managers : todo[m] = <<>> /\ inbox[m] = <<>>

Held(k, g) == IF parts[k][g] = None THEN {} ELSE parts[k][g]
Expected(k, g) == Cacheable(k, truth[g][k])

\* The ejector never removes a guild that one manager has referenced since
\* before the scan, whatever the others do meanwhile.
TheUsedStay == \A p \in ejector.steady : p[2] \notin ejector.victims

Alone(g) == Cardinality(served[g]) <= 1

\* At rest, the roles cached of a guild are those it has, whichever managers
\* share it and however late each of them was, and so are the channels, unless
\* an update of the shared guild wrote them back: another reader may have
\* removed one meanwhile.  Excepted are what changed while no bot
\* was there, a change that went to a map no longer in use, a guild ejected in
\* spite of a bot, and one that one of several managers left: its reader may
\* still store what the others have removed.
PlainPartsMatch ==
    \A g \in Guilds \ (lost \union torn) :
      AtRest(g) /\ bots[g] # {} /\ (Alone(g) \/ g \notin left) =>
        \A k \in {"role", "channel"} :
          \/ ~Alone(g) /\ k \in updated[g]
          \/ (Held(k, g) \ unseen[g]) = (Expected(k, g) \ unseen[g])

\* So are the members of a guild only one manager was ever in, and their count,
\* however often each of them came and went: no join or leave is taken for one
\* already applied.  Nobody who left has the guild among the mutual ones.
MembersMatch ==
    \A g \in Guilds \ (lost \union torn) :
      AtRest(g) /\ Alone(g) /\ bots[g] # {} =>
        /\ (Held("member", g) \ unseen[g]) = (Expected("member", g) \ unseen[g])
        /\ unseen[g] = {} => guilds[g] = Cardinality(truth[g].member)
        /\ \A u \in Users \ (lost \union unseen[g]) :
              g \in Held("mutual", u) => u \in truth[g].member
=============================================================================
