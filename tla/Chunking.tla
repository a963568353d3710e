-------------------------------- MODULE Chunking --------------------------------
(***************************************************************************)
(* The start of a session: OnReady reads guilds until none has come for a  *)
(* while, then asks Discord for the members of each guild that lacks some, *)
(* one guild after the other.                                              *)
(*                                                                         *)
(* OnReady runs on the goroutine that reads the connection.  A request     *)
(* waits for its chunks on a channel that the reader of another manager    *)
(* may also send to: the managers share the entries of guildChunks.        *)
(* Members of a guild are numbered like the chunks they come in, and the   *)
(* first of them comes with the guild itself.                              *)
(***************************************************************************)
EXTENDS Integers, Sequences, FiniteSets

CONSTANTS
    Shards,       \* shards of different managers
    Guilds,
    GuildsOf,     \* for each shard, the guilds READY lists
    ChunkCount,   \* chunks of a guild, which is also its member count
    Ghosts,       \* the guilds a member who has left is still cached of
    None,
    MaxRequests   \* bound: requests of consumers

ASSUME ConstantsAssumption ==
    /\ ChunkCount \in Nat \ {0} /\ MaxRequests \in Nat
    /\ GuildsOf \in [Shards -> SUBSET Guilds] /\ Ghosts \subseteq Guilds
    /\ None \notin Shards

VARIABLES
    pc,           \* where the reader of each shard stands
    inbox,        \* for each shard, what Discord sent it and it has not read
    left,         \* for each shard, the guilds ChunkAllGuilds has still to do
    current,      \* for each shard, the guild it is chunking
    channel,      \* for each shard, the channel of its guildChunk
    received,     \* for each shard, its chunksReceived
    guildChunks,  \* Sandwich.guildChunks: the channel made for each guild
    guilds,       \* State.Guilds: the guilds known
    members,      \* State.GuildMembers: the members cached of each guild
    requests      \* the requests of consumers so far

local == <<left, current, channel, received>>
state == <<guildChunks, guilds, members>>
vars == <<pc, inbox, local, state, requests>>

Parts == 1..ChunkCount
Goto(s, l) == pc' = [pc EXCEPT ![s] = l]

\* Chunk i of the answer to a request of ChunkGuild, or of a consumer.
Chunk(g, i, own, s) == [type |-> "chunk", guild |-> g, index |-> i,
                        nonce |-> IF own THEN s ELSE None]
Create(g) == [type |-> "create", guild |-> g]
Answer(g, own, s) == [i \in Parts |-> Chunk(g, i, own, s)]

-----------------------------------------------------------------------------
\* Each shard has read READY.
Init ==
    /\ pc = [s \in Shards |-> "ready"]
    /\ inbox = [s \in Shards |-> <<>>]
    /\ left = GuildsOf
    /\ current = [s \in Shards |-> None]
    /\ channel = [s \in Shards |-> None]
    /\ received = [s \in Shards |-> 0]
    /\ guildChunks = [g \in Guilds |-> None]
    /\ guilds = {}
    /\ members = [g \in Guilds |-> {}]
    /\ requests = 0

-----------------------------------------------------------------------------
(* Discord and the consumers *)

Sent(g) == \E s \in Shards : \E i \in 1..Len(inbox[s]) : inbox[s][i] = Create(g)

\* A guild is sent, perhaps late; a GUILD_CREATE of one already known would
\* change nothing.
SendCreate(s, g) ==
    /\ g \in GuildsOf[s] \ guilds /\ ~Sent(g)
    /\ inbox' = [inbox EXCEPT ![s] = Append(@, Create(g))]
    /\ UNCHANGED <<pc, local, state, requests>>

\* A consumer has a shard request the members of a guild.
ConsumerRequest(s, g) ==
    /\ requests < MaxRequests /\ g \in GuildsOf[s]
    /\ requests' = requests + 1
    /\ inbox' = [inbox EXCEPT ![s] = @ \o Answer(g, FALSE, s)]
    /\ UNCHANGED <<pc, local, state>>

-----------------------------------------------------------------------------
(* The reader *)

\* Mutant: chunking has a goroutine of its own, and reading goes on meanwhile.
ReadsAlways(s) == pc[s] \in {"ready", "listen", "wait"}

\* The reader reads in the loop of OnReady and in Listen, nowhere else.
Reads(s) == pc[s] \in {"ready", "listen"}

ReadCreate(s) ==
    /\ Reads(s) /\ inbox[s] # <<>> /\ Head(inbox[s]).type = "create"
    /\ LET g == Head(inbox[s]).guild
       IN /\ guilds' = guilds \union {g}
          /\ members' = [members EXCEPT ![g] = @ \union {1}]
    /\ inbox' = [inbox EXCEPT ![s] = Tail(@)]
    /\ UNCHANGED <<pc, local, guildChunks, requests>>

\* The requests waiting on the channel of guild g: a chunk of it can be handed
\* over to one of them.
Receivers(g) ==
    {r \in Shards : pc[r] = "wait" /\ channel[r] # None /\ channel[r] = guildChunks[g]
                    /\ current[r] = g}

\* What a request does with a chunk: one with another nonce does not count.
Counts(r, chunk) == chunk.nonce = r

\* OnGuildMembersChunk: the members are cached, then the chunk is handed to a
\* request that waits on the channel of the guild, or to nobody.
ReadChunk(s) ==
    /\ Reads(s) /\ inbox[s] # <<>> /\ Head(inbox[s]).type = "chunk"
    /\ LET chunk == Head(inbox[s])
           g == chunk.guild
       IN /\ members' = [members EXCEPT ![g] = @ \union {chunk.index}]
          /\ \E r \in IF Receivers(g) = {} THEN {None} ELSE Receivers(g) :
               /\ received' = [q \in Shards |->
                     IF q = r /\ Counts(r, chunk) THEN received[q] + 1 ELSE received[q]]
               /\ pc' = [q \in Shards |->
                     IF q = r /\ Counts(r, chunk) /\ received[r] + 1 >= ChunkCount THEN "chunk" ELSE pc[q]]
    /\ inbox' = [inbox EXCEPT ![s] = Tail(@)]
    /\ UNCHANGED <<left, current, channel, guildChunks, guilds, requests>>

\* No guild has come for a while when the loop looks at its timer, before a read
\* (a heartbeat acknowledgement ends the read before): the shard is ready, and chunks its guilds.
EndReady(s) ==
    /\ pc[s] = "ready"
    /\ Goto(s, "chunk")
    /\ UNCHANGED <<inbox, local, state, requests>>

-----------------------------------------------------------------------------
(* ChunkAllGuilds and ChunkGuild *)

EndChunking(s) ==
    /\ pc[s] = "chunk" /\ left[s] = {}
    /\ Goto(s, "listen")
    /\ current' = [current EXCEPT ![s] = None]
    /\ channel' = [channel EXCEPT ![s] = None]
    /\ UNCHANGED <<inbox, left, received, state, requests>>

\* Mutant: a guild without an entry is given none.
LoadOnly(s, g) ==
    /\ pc[s] = "chunk" /\ g \in left[s]
    /\ Goto(s, "decide")
    /\ left' = [left EXCEPT ![s] = @ \ {g}]
    /\ current' = [current EXCEPT ![s] = g]
    /\ channel' = [channel EXCEPT ![s] = guildChunks[g]]
    /\ UNCHANGED <<inbox, received, state, requests>>

LoadGuildChunk(s, g) ==
    /\ pc[s] = "chunk" /\ g \in left[s]
    /\ Goto(s, IF guildChunks[g] = None THEN "make" ELSE "decide")
    /\ left' = [left EXCEPT ![s] = @ \ {g}]
    /\ current' = [current EXCEPT ![s] = g]
    /\ channel' = [channel EXCEPT ![s] = guildChunks[g]]
    /\ UNCHANGED <<inbox, received, state, requests>>

\* Another manager may have made an entry since: this one replaces it.
StoreGuildChunk(s) ==
    /\ pc[s] = "make"
    /\ Goto(s, "decide")
    /\ guildChunks' = [guildChunks EXCEPT ![current[s]] = s]
    /\ channel' = [channel EXCEPT ![s] = s]
    /\ UNCHANGED <<inbox, left, current, received, guilds, members, requests>>

Cached(g) == Cardinality(members[g]) + IF g \in Ghosts THEN 1 ELSE 0

\* Mutant: a guild that is not known is left alone.
NeedsIfKnown(g) == g \in guilds /\ ChunkCount > Cached(g)

\* A guild that is not known is chunked, and one that has more members than are
\* cached: only how many they are is compared.
NeedsChunking(g) == g \notin guilds \/ ChunkCount > Cached(g)

Request(s) ==
    /\ pc[s] = "decide"
    /\ IF NeedsChunking(current[s])
         THEN /\ Goto(s, "wait")
              /\ inbox' = [inbox EXCEPT ![s] = @ \o Answer(current[s], TRUE, s)]
         ELSE Goto(s, "chunk") /\ UNCHANGED inbox
    /\ received' = [received EXCEPT ![s] = 0]
    /\ UNCHANGED <<left, current, channel, state, requests>>

\* Mutant: the timer is started by the first chunk.
TimeoutAfterChunk(s) ==
    /\ pc[s] = "wait" /\ received[s] > 0
    /\ Goto(s, "chunk")
    /\ UNCHANGED <<inbox, local, state, requests>>

Timeout(s) ==
    /\ pc[s] = "wait"
    /\ Goto(s, "chunk")
    /\ UNCHANGED <<inbox, local, state, requests>>

-----------------------------------------------------------------------------
Reader(s) ==
    \/ ReadCreate(s) \/ ReadChunk(s) \/ EndReady(s)
    \/ EndChunking(s) \/ (\E g \in Guilds : LoadGuildChunk(s, g))
    \/ StoreGuildChunk(s) \/ Request(s) \/ Timeout(s)

Next ==
    \E s \in Shards :
       \/ Reader(s)
       \/ \E g \in Guilds : SendCreate(s, g) \/ ConsumerRequest(s, g)

Spec == Init /\ [][Next]_vars

\* Readers run, and timers end: Discord acknowledges heartbeats meanwhile.
Fairness == \A s \in Shards : WF_vars(Reader(s))

FairSpec == Spec /\ Fairness
-----------------------------------------------------------------------------
(* Properties *)

\* A shard works on a guild, and on a channel for it from the time it decides.
TypeOK ==
    /\ pc \in [Shards -> {"ready", "listen", "chunk", "make", "decide", "wait"}]
    /\ guildChunks \in [Guilds -> Shards \union {None}]
    /\ guilds \subseteq Guilds /\ members \in [Guilds -> SUBSET Parts]
    /\ received \in [Shards -> 0..ChunkCount]
    /\ \A s \in Shards :
         /\ left[s] \subseteq Guilds
         /\ pc[s] \in {"make", "decide", "wait"} => current[s] \in Guilds \ left[s]
         /\ pc[s] \in {"decide", "wait"} => channel[s] # None

\* A request of the start never counts a chunk: those of its own are read by the
\* goroutine that waits for them, so none arrives before the timeout, and those
\* of other managers and of consumers on the same channel are not its own.
OnlyTimeoutsEndRequests == \A s \in Shards : received[s] = 0

\* Every shard gets through its start: no number of guilds, other managers'
\* chunks or consumers' requests keeps its reader from listening again.
StartEnds == \A s \in Shards : <>(pc[s] = "listen")

\* Chunking completes the members of every guild all the same, whoever reads
\* their chunks and however late the guild itself comes.  Excepted is a guild
\* with a member cached who has left: its count hides one that is missing.
MembersComplete ==
    \A s \in Shards : \A g \in GuildsOf[s] :
        pc[s] = "listen" /\ g \notin Ghosts ~> members[g] = Parts
=============================================================================
