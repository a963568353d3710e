----------------------------- MODULE ChunkingProofs -----------------------------
(***************************************************************************)
(* Type correctness of Chunking, and that no request of the start ever     *)
(* counts a chunk, for any shards, guilds and numbers of chunks.           *)
(*                                                                         *)
(* The argument is about who can hand a chunk to whom.  A chunk that       *)
(* counts for shard r has the nonce r, and such a chunk is only ever in    *)
(* the inbox of r itself (InboxOK).  It is handed over by the shard that   *)
(* reads it, so r would have to read and to wait at the same time.         *)
(***************************************************************************)
EXTENDS Chunking, TLAPS

\* What Discord sends shard s: guilds, and the chunks s asked for.
Messages(s) ==
    {Create(g) : g \in Guilds}
    \union {Chunk(g, i, own, s) : g \in Guilds, i \in Parts, own \in BOOLEAN}

InboxOK ==
    /\ inbox \in [Shards -> Seq(UNION {Messages(s) : s \in Shards})]
    /\ \A s \in Shards : inbox[s] \in Seq(Messages(s))

LocalOK ==
    /\ left \in [Shards -> SUBSET Guilds]
    /\ current \in [Shards -> Guilds \union {None}]
    /\ channel \in [Shards -> Shards \union {None}]
    /\ received \in [Shards -> {0}]

\* The inductive invariant.
IInv == TypeOK /\ LocalOK /\ InboxOK

-----------------------------------------------------------------------------
LEMMA AnswerType ==
    ASSUME NEW s \in Shards, NEW g \in Guilds, NEW own \in BOOLEAN
    PROVE  Answer(g, own, s) \in Seq(Messages(s))
  <1>1. ChunkCount \in Nat
    BY ConstantsAssumption
  <1>2. \A i \in 1..ChunkCount : Chunk(g, i, own, s) \in Messages(s)
    BY DEF Messages, Parts
  <1> QED BY <1>1, <1>2 DEF Answer, Parts

\* Appending to the inbox of one shard what may be sent to it.
LEMMA InboxGrows ==
    ASSUME InboxOK, NEW s \in Shards, NEW new \in Seq(Messages(s)),
           inbox' = [inbox EXCEPT ![s] = @ \o new]
    PROVE  InboxOK'
  <1> DEFINE All == UNION {Messages(r) : r \in Shards}
  <1>1. Messages(s) \subseteq All
    OBVIOUS
  <1>2. inbox[s] \o new \in Seq(Messages(s))
    BY DEF InboxOK
  <1>3. inbox[s] \o new \in Seq(All)
    <2>1. \A i \in 1..Len(inbox[s] \o new) : (inbox[s] \o new)[i] \in All
      BY <1>1, <1>2
    <2> QED BY <2>1, <1>2
  <1> HIDE DEF All
  <1>4. inbox \in [Shards -> Seq(All)]
    BY DEF InboxOK, All
  <1>5. inbox' \in [Shards -> Seq(All)]
    BY <1>3, <1>4
  <1>6. \A r \in Shards : inbox'[r] \in Seq(Messages(r))
    BY <1>2, <1>4 DEF InboxOK
  <1> QED BY <1>5, <1>6 DEF InboxOK, All

\* A message is read.
LEMMA InboxShrinks ==
    ASSUME InboxOK, NEW s \in Shards, inbox[s] # <<>>,
           inbox' = [inbox EXCEPT ![s] = Tail(@)]
    PROVE  /\ Head(inbox[s]) \in Messages(s)
           /\ InboxOK'
  <1> DEFINE All == UNION {Messages(r) : r \in Shards}
  <1> HIDE DEF All
  <1>1. inbox \in [Shards -> Seq(All)] /\ inbox[s] \in Seq(Messages(s))
    BY DEF InboxOK, All
  <1>2. Tail(inbox[s]) \in Seq(All) /\ Tail(inbox[s]) \in Seq(Messages(s))
    BY <1>1
  <1>3. inbox' \in [Shards -> Seq(All)]
    BY <1>1, <1>2
  <1>4. \A r \in Shards : inbox'[r] \in Seq(Messages(r))
    BY <1>1, <1>2 DEF InboxOK
  <1>5. Head(inbox[s]) \in Messages(s)
    BY <1>1
  <1> QED BY <1>3, <1>4, <1>5 DEF InboxOK, All

\* A chunk being read counts for nobody who waits: it has the nonce of the
\* shard that reads it, or none.
LEMMA NobodyCounts ==
    ASSUME IInv, NEW s \in Shards, Reads(s), inbox[s] # <<>>,
           Head(inbox[s]).type = "chunk",
           NEW r, r = None \/ r \in Receivers(Head(inbox[s]).guild)
    PROVE  \A q \in Shards : ~(q = r /\ Counts(r, Head(inbox[s])))
  <1> DEFINE chunk == Head(inbox[s])
  <1>1. chunk \in Messages(s)
    BY DEF IInv, InboxOK
  <1>2. chunk.nonce \in {s, None}
    BY <1>1 DEF Messages, Create, Chunk
  <1>3. \A q \in Shards : q = r => r \in Shards /\ pc[r] = "wait"
    BY ConstantsAssumption DEF Receivers
  <1>4. pc[s] # "wait"
    BY DEF Reads
  <1> QED BY <1>2, <1>3, <1>4, ConstantsAssumption DEF Counts

-----------------------------------------------------------------------------
LEMMA InitIInv == Init => IInv
  <1> SUFFICES ASSUME Init PROVE IInv
    OBVIOUS
  <1>1. TypeOK
    BY ConstantsAssumption DEF Init, TypeOK
  <1>2. LocalOK
    BY ConstantsAssumption DEF Init, LocalOK
  <1>3. InboxOK
    BY DEF Init, InboxOK
  <1> QED BY <1>1, <1>2, <1>3 DEF IInv

\* Discord and the consumers only add to inboxes.
LEMMA SendStep ==
    ASSUME IInv, NEW s \in Shards, NEW g \in Guilds,
           SendCreate(s, g) \/ ConsumerRequest(s, g)
    PROVE  IInv'
  <1>1. UNCHANGED <<pc, local, state>>
    BY DEF SendCreate, ConsumerRequest
  <1>2. TypeOK' /\ LocalOK'
    BY <1>1 DEF IInv, TypeOK, LocalOK, local, state
  <1>3. CASE SendCreate(s, g)
    <2>1. <<Create(g)>> \in Seq(Messages(s))
      BY DEF Messages
    <2>2. inbox' = [inbox EXCEPT ![s] = @ \o <<Create(g)>>]
      <3>1. inbox[s] \in Seq(Messages(s))
        BY DEF IInv, InboxOK
      <3>2. Append(inbox[s], Create(g)) = inbox[s] \o <<Create(g)>>
        BY <3>1, <2>1
      <3> QED BY <1>3, <3>2 DEF SendCreate
    <2> QED BY <1>2, <2>1, <2>2, InboxGrows DEF IInv
  <1>4. CASE ConsumerRequest(s, g)
    <2>1. Answer(g, FALSE, s) \in Seq(Messages(s))
      BY AnswerType
    <2>2. inbox' = [inbox EXCEPT ![s] = @ \o Answer(g, FALSE, s)]
      BY <1>4 DEF ConsumerRequest
    <2> QED BY <1>2, <2>1, <2>2, InboxGrows DEF IInv
  <1> QED BY <1>3, <1>4

LEMMA ReadCreateStep ==
    ASSUME IInv, NEW s \in Shards, ReadCreate(s)
    PROVE  IInv'
  <1>1. /\ Head(inbox[s]) \in Messages(s) /\ InboxOK'
    BY InboxShrinks DEF ReadCreate, IInv
  <1>2. Head(inbox[s]).guild \in Guilds
    BY <1>1 DEF Messages, Create, Chunk
  <1>3. 1 \in Parts
    BY ConstantsAssumption DEF Parts
  <1>4. TypeOK'
    BY <1>2, <1>3 DEF ReadCreate, IInv, TypeOK, local
  <1>5. LocalOK'
    BY DEF ReadCreate, IInv, LocalOK, local
  <1> QED BY <1>1, <1>4, <1>5 DEF IInv

LEMMA ReadChunkStep ==
    ASSUME IInv, NEW s \in Shards, ReadChunk(s)
    PROVE  IInv'
  <1> DEFINE chunk == Head(inbox[s])
  <1>1. chunk \in Messages(s) /\ InboxOK'
    BY InboxShrinks DEF ReadChunk, IInv
  <1>2. chunk.guild \in Guilds /\ chunk.index \in Parts
    BY <1>1 DEF ReadChunk, Messages, Create, Chunk
  <1>3. members' = [members EXCEPT ![chunk.guild] = @ \union {chunk.index}]
    BY DEF ReadChunk
  <1>4. PICK r \in IF Receivers(chunk.guild) = {} THEN {None} ELSE Receivers(chunk.guild) :
           /\ received' = [q \in Shards |->
                 IF q = r /\ Counts(r, chunk) THEN received[q] + 1 ELSE received[q]]
           /\ pc' = [q \in Shards |->
                 IF q = r /\ Counts(r, chunk) /\ received[r] + 1 >= ChunkCount
                   THEN "chunk" ELSE pc[q]]
    BY DEF ReadChunk
  <1>5. \A q \in Shards : ~(q = r /\ Counts(r, chunk))
    BY <1>4, NobodyCounts DEF ReadChunk
  <1>6. received' = received /\ pc' = pc
    BY <1>4, <1>5 DEF IInv, LocalOK, TypeOK
  <1>7. UNCHANGED <<left, current, channel, guildChunks, guilds>>
    BY DEF ReadChunk
  <1> HIDE DEF chunk
  <1>8. TypeOK'
    BY <1>2, <1>3, <1>6, <1>7 DEF IInv, TypeOK
  <1>9. LocalOK'
    BY <1>6, <1>7 DEF IInv, LocalOK
  <1> QED BY <1>1, <1>8, <1>9 DEF IInv

LEMMA RequestStep ==
    ASSUME IInv, NEW s \in Shards, Request(s)
    PROVE  IInv'
  <1>1. current[s] \in Guilds
    BY DEF Request, IInv, TypeOK
  <1>2. TypeOK'
    BY ConstantsAssumption, ZenonT(60) DEF Request, Goto, IInv, TypeOK, LocalOK, state
  <1>3. LocalOK'
    BY DEF Request, IInv, LocalOK
  <1>4. InboxOK'
    <2>1. CASE NeedsChunking(current[s])
      <3>1. inbox' = [inbox EXCEPT ![s] = @ \o Answer(current[s], TRUE, s)]
        BY <2>1 DEF Request
      <3> QED BY <3>1, <1>1, AnswerType, InboxGrows DEF IInv
    <2>2. CASE ~NeedsChunking(current[s])
      BY <2>2 DEF Request, IInv, InboxOK
    <2> QED BY <2>1, <2>2
  <1> QED BY <1>2, <1>3, <1>4 DEF IInv

\* The steps that change what a shard works on and leave the inboxes alone.
LEMMA LoadStep ==
    ASSUME IInv, NEW s \in Shards, NEW g \in Guilds, LoadGuildChunk(s, g)
    PROVE  IInv'
  <1>1. InboxOK'
    BY DEF LoadGuildChunk, IInv, InboxOK
  <1> QED BY <1>1 DEF LoadGuildChunk, Goto, state, IInv, TypeOK, LocalOK

LEMMA LocalStep ==
    ASSUME IInv, NEW s \in Shards,
           EndReady(s) \/ EndChunking(s) \/ StoreGuildChunk(s) \/ Timeout(s)
    PROVE  IInv'
  <1>1. InboxOK'
    BY DEF EndReady, EndChunking, StoreGuildChunk, Timeout, IInv, InboxOK
  <1>2. CASE EndReady(s)
    BY <1>1, <1>2 DEF EndReady, Goto, local, state, IInv, TypeOK, LocalOK
  <1>3. CASE Timeout(s)
    BY <1>1, <1>3 DEF Timeout, Goto, local, state, IInv, TypeOK, LocalOK
  <1>4. CASE EndChunking(s)
    BY <1>1, <1>4 DEF EndChunking, Goto, state, IInv, TypeOK, LocalOK
  <1>5. CASE StoreGuildChunk(s)
    BY <1>1, <1>5, ConstantsAssumption DEF StoreGuildChunk, Goto, IInv, TypeOK, LocalOK
  <1> QED BY <1>2, <1>3, <1>4, <1>5

LEMMA NextIInv == IInv /\ [Next]_vars => IInv'
  <1> SUFFICES ASSUME IInv, [Next]_vars PROVE IInv'
    OBVIOUS
  <1>1. CASE Next
    <2>1. PICK s \in Shards :
             Reader(s) \/ \E g \in Guilds : SendCreate(s, g) \/ ConsumerRequest(s, g)
      BY <1>1 DEF Next
    <2>2. ASSUME NEW g \in Guilds, SendCreate(s, g) \/ ConsumerRequest(s, g) PROVE IInv'
      BY <2>2, SendStep
    <2>3. CASE ReadCreate(s)
      BY <2>3, ReadCreateStep
    <2>4. CASE ReadChunk(s)
      BY <2>4, ReadChunkStep
    <2>5. CASE Request(s)
      BY <2>5, RequestStep
    <2>6. ASSUME NEW g \in Guilds, LoadGuildChunk(s, g) PROVE IInv'
      BY <2>6, LoadStep
    <2>7. CASE EndReady(s) \/ EndChunking(s) \/ StoreGuildChunk(s) \/ Timeout(s)
      BY <2>7, LocalStep
    <2> QED BY <2>1, <2>2, <2>3, <2>4, <2>5, <2>6, <2>7 DEF Reader
  <1>2. CASE UNCHANGED vars
    BY <1>2 DEF vars, local, state, IInv, TypeOK, LocalOK, InboxOK
  <1> QED BY <1>1, <1>2

-----------------------------------------------------------------------------
\* Every reader stays where OnReady, ChunkAllGuilds or Listen can have it, and
\* works on a guild, with a channel from the time it decides on.
THEOREM ChunkingTypeCorrect == Spec => []TypeOK
  <1>1. Init => IInv
    BY InitIInv
  <1>2. IInv /\ [Next]_vars => IInv'
    BY NextIInv
  <1>3. IInv => TypeOK
    BY DEF IInv
  <1> QED BY <1>1, <1>2, <1>3, PTL DEF Spec

\* No request ChunkGuild makes at the start ever counts a chunk: each of them
\* waits until its time is up.
THEOREM TimeoutsEndRequests == Spec => []OnlyTimeoutsEndRequests
  <1>1. Init => IInv
    BY InitIInv
  <1>2. IInv /\ [Next]_vars => IInv'
    BY NextIInv
  <1>3. IInv => OnlyTimeoutsEndRequests
    BY DEF IInv, LocalOK, OnlyTimeoutsEndRequests
  <1> QED BY <1>1, <1>2, <1>3, PTL DEF Spec
=============================================================================
