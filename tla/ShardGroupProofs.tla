--------------------------- MODULE ShardGroupProofs ---------------------------
(***************************************************************************)
(* Proofs about ShardGroup, for any number of groups and shards and for    *)
(* every bound: type correctness, the teardown and floodgate invariants,   *)
(* that a manager which opens one group at a time keeps a ready one, that  *)
(* the groups implement RollingRestart, and that they do nothing to a      *)
(* shard but what ShardLife allows.                                        *)
(***************************************************************************)
EXTENDS ShardGroup, FiniteSetTheorems, TLAPS

USE DEF managerVars, openVars, readyVars, closeVars, shardVars, vars

\* The shard IDs of a well-typed group, and its first one, are shards.
LEMMA IDsTyped ==
    ASSUME TypeOK, NEW g \in Groups
    PROVE  /\ IDs(g) \subseteq Shards
           /\ shardIDs[g] # <<>> => FirstShard(g) \in Shards
           /\ {shardIDs[g][i] : i \in 2..Len(shardIDs[g])} \subseteq Shards
  <1>1. shardIDs[g] \in Seq(Shards)
    BY DEF TypeOK
  <1>2. IDs(g) \subseteq Shards
    BY <1>1 DEF IDs
  <1>3. shardIDs[g] # <<>> => FirstShard(g) \in Shards
    BY <1>1 DEF FirstShard
  <1>4. {shardIDs[g][i] : i \in 2..Len(shardIDs[g])} \subseteq Shards
    BY <1>1
  <1> QED BY <1>2, <1>3, <1>4

\* Where the literals and constants of the actions belong.
LEMMA Literals ==
    /\ Groups \subseteq Closers /\ Endpoint \in Closers /\ None \notin Groups
    /\ None = Endpoint
    /\ Groups \subseteq Int
    /\ {"Connecting", "Connected", "MarkedForClosure", "Closing", "Closed",
        "Erroring"} \subseteq ShardGroupStatus
    /\ {"scaled", "marking", "created", "connectFirst",
        "connectRest", "failing", "error", "returned", "failed"} \subseteq OpenerPC
    /\ {"wait", "takeover", "done"} \subseteq WaiterPC
    /\ {"down", "dialing", "aborted", "live", "lost", "redialing", "closed"}
          \subseteq Connection
  BY ConstantsAssumption DEF Groups, Closers, Endpoint, None, ShardGroupStatus, OpenerPC,
     WaiterPC, Connection

\* Every step of the code keeps every variable's type.
LEMMA TypeStep == TypeOK /\ [Next]_vars => TypeOK'
  <1> SUFFICES ASSUME TypeOK, [Next]_vars
               PROVE  TypeOK'
    OBVIOUS
  <1> USE Literals DEF TypeOK, SetStatus, SetShard, EnterClose
  <1>1. ASSUME NEW ids \in Layouts, Scale(ids) PROVE TypeOK'
    <2>1. /\ shardGroupCounter' \in 0..MaxGroups
          /\ shardGroupCounter + 1 \in Groups
      BY <1>1, ConstantsAssumption DEF Scale, Groups
    <2>2. ids \in Seq(Shards)
      BY ConstantsAssumption
    <2> QED BY <1>1, <2>1, <2>2 DEF Scale
  <1>2. ASSUME Stop PROVE TypeOK'
    <2>1. stops' \in 0..MaxStops
      BY <1>2, ConstantsAssumption DEF Stop
    <2> QED BY <1>2, <2>1 DEF Stop
  <1>3. ASSUME NEW h \in Groups, CloseStopped(h) PROVE TypeOK'
    BY <1>3 DEF CloseStopped
  <1>4. ASSUME NEW g \in Groups, OpenStep(g) PROVE TypeOK'
    <2>1. CASE BeginOpen(g)
      BY <2>1 DEF BeginOpen
    <2>2. ASSUME NEW h \in Groups, VisitGroup(g, h) PROVE TypeOK'
      BY <2>2 DEF VisitGroup
    <2>3. CASE MarkForClosure(g)
      BY <2>3 DEF MarkForClosure
    <2>4. CASE CreateShards(g)
      BY <2>4, ZenonT(60) DEF CreateShards
    <2>5. CASE StartConnecting(g)
      BY <2>5, IDsTyped, ZenonT(60) DEF StartConnecting
    <2>6. CASE ConnectRest(g)
      BY <2>6, IDsTyped DEF ConnectRest
    <2>7. CASE ReturnOpen(g)
      BY <2>7 DEF ReturnOpen
    <2>8. CASE CloseFailed(g)
      BY <2>8 DEF CloseFailed
    <2>9. CASE ReturnError(g)
      BY <2>9 DEF ReturnError
    <2>10. CASE MissingShards(g)
      BY <2>10 DEF MissingShards
    <2> QED BY <1>4, <2>1, <2>2, <2>3, <2>4, <2>5, <2>6, <2>7, <2>8, <2>9, <2>10
            DEF OpenStep
  <1>5. ASSUME NEW g \in Groups, WaiterStep(g) PROVE TypeOK'
    <2>1. CASE WaitForReady(g)
      <3>1. foundReady' \in [Groups -> Nat]
        BY <2>1 DEF WaitForReady
      <3> QED BY <2>1, <3>1 DEF WaitForReady
    <2>2. CASE BeginTakeover(g)
      BY <2>2 DEF BeginTakeover
    <2>3. ASSUME NEW h \in Groups, CloseOther(g, h) PROVE TypeOK'
      BY <2>3 DEF CloseOther
    <2>4. CASE OpenFloodgate(g)
      BY <2>4 DEF OpenFloodgate
    <2> QED BY <1>5, <2>1, <2>2, <2>3, <2>4 DEF WaiterStep
  <1>6. ASSUME NEW g \in Groups, ConnectFailure(g) PROVE TypeOK'
    <2>1. CASE FailFirst(g)
      <3>1. retries' \in [Groups -> 0..ShardConnectRetries]
        <4>1. CASE retries[g] > 0 /\ retries' = [retries EXCEPT ![g] = @ - 1]
          <5>1. retries[g] - 1 \in 0..ShardConnectRetries
            BY <4>1, ConstantsAssumption
          <5> QED BY <4>1, <5>1
        <4>2. CASE UNCHANGED retries
          BY <4>2
        <4> QED BY <2>1, <4>1, <4>2 DEF FailFirst
      <3>2. /\ opener' \in [Groups -> OpenerPC]
            /\ connecting' \in [Groups -> SUBSET Shards]
            /\ status' \in [Groups -> ShardGroupStatus]
        <4>1. CASE UNCHANGED <<opener, connecting, status>>
          BY <4>1
        <4>2. CASE /\ SetStatus(g, "Erroring")
                   /\ opener' = [opener EXCEPT ![g] = "failing"]
                   /\ connecting' = [connecting EXCEPT ![g] = {}]
          BY <4>2
        <4> QED BY <2>1, <4>1, <4>2 DEF FailFirst
      <3>3. shard' \in [Groups -> [Shards -> Connection]]
        BY <2>1 DEF FailFirst
      <3> QED BY <2>1, <3>1, <3>2, <3>3 DEF FailFirst
    <2>2. ASSUME NEW s \in Shards, FailOther(g, s) PROVE TypeOK'
      BY <2>2 DEF FailOther
    <2>3. ASSUME NEW s \in Shards, FailReconnect(g, s) PROVE TypeOK'
      BY <2>3 DEF FailReconnect
    <2>4. ASSUME NEW s \in Shards, LoseConnection(g, s) PROVE TypeOK'
      <3>1. reconnects' \in 0..MaxReconnects
        BY <2>4, ConstantsAssumption DEF LoseConnection
      <3> QED BY <2>4, <3>1 DEF LoseConnection
    <2> QED BY <1>6, <2>1, <2>2, <2>3, <2>4 DEF ConnectFailure
  <1>7. ASSUME NEW c \in Closers, CloseStep(c) PROVE TypeOK'
    <2>1. ASSUME NEW s \in Shards, CloseShard(c, s) PROVE TypeOK'
      <3>1. closing[c] \in Groups
        BY <2>1 DEF CloseShard
      <3>2. shard' \in [Groups -> [Shards -> Connection]]
        <4>1. CASE SetShard(closing[c], s, "closed")
          BY <3>1, <4>1
        <4>2. CASE SetShard(closing[c], s, "aborted")
          BY <3>1, <4>2
        <4>3. CASE UNCHANGED shard
          BY <4>3
        <4> HIDE DEF SetShard
        <4> QED BY <2>1, <4>1, <4>2, <4>3 DEF CloseShard
      <3>3. pending' \in [Closers -> SUBSET Shards] /\ cleared' \in [Closers -> SUBSET Shards]
        BY <2>1 DEF CloseShard
      <3>4. UNCHANGED <<managerVars, openVars, readyVars, closing, closeBegun,
                        closeDone, isReady, reconnects, everReady, status, toVisit>>
        BY <2>1 DEF CloseShard
      <3> QED BY <3>2, <3>3, <3>4
    <2>2. CASE LeaveClose(c)
      BY <2>2 DEF LeaveClose
    <2>3. ASSUME NEW s \in Shards, ClearToClose(c, s) PROVE TypeOK'
      BY <2>3 DEF ClearToClose
    <2> QED BY <1>7, <2>1, <2>2, <2>3 DEF CloseStep
  <1>8. ASSUME NEW g \in Groups, NEW s \in Shards, BeginConnect(g, s)
        PROVE  TypeOK'
    BY <1>8 DEF BeginConnect
  <1>9. ASSUME NEW g \in Groups, NEW s \in Shards, EndConnect(g, s)
        PROVE  TypeOK'
    BY <1>9 DEF EndConnect
  <1>10. ASSUME NEW g \in Groups, NEW s \in Shards, BecomeReady(g, s)
         PROVE  TypeOK'
    BY <1>10, ZenonT(60) DEF BecomeReady
  <1>11. ASSUME NEW g \in Groups, NEW s \in Shards, BeginReconnect(g, s)
         PROVE  TypeOK'
    BY <1>11 DEF BeginReconnect
  <1>12. ASSUME NEW g \in Groups, NEW s \in Shards, EndReconnect(g, s)
         PROVE  TypeOK'
    BY <1>12 DEF EndReconnect
  <1>13. ASSUME NEW g \in Groups, NEW s \in Shards, ClearReady(g, s)
         PROVE  TypeOK'
    BY <1>13 DEF ClearReady
  <1>14. ASSUME NEW g \in Groups, NEW s \in Shards, StaleReady(g, s)
         PROVE  TypeOK'
    BY <1>14 DEF StaleReady
  <1>15. CASE UNCHANGED vars
    BY <1>15
  <1> QED BY <1>1, <1>2, <1>3, <1>4, <1>5, <1>6, <1>7, <1>8, <1>9, <1>10,
             <1>11, <1>12, <1>13, <1>14, <1>15 DEF Next

\* A manager without groups is well typed.
LEMMA InitTyped == Init => TypeOK
  <1> SUFFICES ASSUME Init PROVE TypeOK
    OBVIOUS
  <1>1. /\ "Idle" \in ShardGroupStatus /\ "none" \in OpenerPC
        /\ "none" \in WaiterPC /\ "none" \in Connection
        /\ <<>> \in Seq(Shards)
    BY DEF ShardGroupStatus, OpenerPC, WaiterPC, Connection
  <1>2. /\ shardGroupCounter \in 0..MaxGroups
        /\ stops \in 0..MaxStops
        /\ retries \in [Groups -> 0..ShardConnectRetries]
        /\ foundReady \in [Groups -> Nat]
        /\ reconnects \in 0..MaxReconnects
    BY ConstantsAssumption DEF Init
  <1> QED BY <1>1, <1>2 DEF Init, TypeOK

\* Every variable keeps its type: retries never go below zero, nothing is
\* closed that is not a group of the manager.
THEOREM TypeCorrect == Spec => []TypeOK
  BY InitTyped, TypeStep, PTL DEF Spec

\* What a step preserves, besides the types.
Parts == /\ MapInv
         /\ WaiterInv
         /\ ReadyInv
         /\ TakeoverInv
         /\ CloserInv
         /\ TeardownHasReplacement

\* The invariant of the goroutines of Open and Close is inductive: one step
\* per action, one under it per part the action can disturb.
LEMMA InvStep == IInv /\ [Next]_vars => IInv'
  <1> SUFFICES ASSUME IInv, [Next]_vars
               PROVE  IInv'
    OBVIOUS
  <1> USE Literals DEF IInv, TypeOK, SetStatus, SetShard, EnterClose
  <1>0. TypeOK'
    BY TypeStep
  <1>1. ASSUME NEW ids \in Layouts, Scale(ids)
        PROVE  Parts'
    <2>0. /\ shardGroupCounter + 1 \in Groups
          /\ opener[shardGroupCounter + 1] = "none"
          /\ \A g \in Groups : opener'[g] = IF g = shardGroupCounter + 1
                                             THEN "scaled" ELSE opener[g]
      BY <1>1, ConstantsAssumption DEF Scale, MapInv, Groups
    <2>1. MapInv'
      BY <1>1, <2>0, SMTT(60) DEF Scale, MapInv, CloserInv
    <2>2. WaiterInv'
      BY <1>1, <2>0 DEF Scale, WaiterInv, CloserInv, MapInv
    <2>3. ReadyInv'
      BY <1>1, <2>0, SMTT(60) DEF Scale, ReadyInv, WaiterInv, MapInv
    <2>4. TakeoverInv'
      BY <1>1, <2>0, SMTT(60) DEF Scale, TakeoverInv, WaiterInv, CloserInv, MapInv,
         ReadyInv
    <2>5. CloserInv'
      BY <1>1, <2>0 DEF Scale, CloserInv, WaiterInv, MapInv
    <2>6. TeardownHasReplacement'
      BY <1>1, <2>0 DEF Scale, TeardownHasReplacement, Failed, WaiterInv,
         CloserInv, MapInv
    <2> QED BY <2>1, <2>2, <2>3, <2>4, <2>5, <2>6 DEF Parts
  <1>2. ASSUME Stop
        PROVE  Parts'
    <2>1. MapInv'
      BY <1>2 DEF Stop, MapInv, CloserInv
    <2>2. WaiterInv'
      BY <1>2 DEF Stop, WaiterInv, CloserInv, MapInv
    <2>3. ReadyInv'
      BY <1>2 DEF Stop, ReadyInv, WaiterInv, MapInv
    <2>4. TakeoverInv'
      BY <1>2 DEF Stop, TakeoverInv, WaiterInv, CloserInv, MapInv,
         ReadyInv
    <2>5. CloserInv'
      BY <1>2 DEF Stop, CloserInv, WaiterInv, MapInv
    <2>6. TeardownHasReplacement'
      BY <1>2 DEF Stop, TeardownHasReplacement, Failed, WaiterInv,
         CloserInv, MapInv
    <2> QED BY <2>1, <2>2, <2>3, <2>4, <2>5, <2>6 DEF Parts
  <1>3. ASSUME NEW h \in Groups, CloseStopped(h)
        PROVE  Parts'
    <2>1. MapInv'
      BY <1>3 DEF CloseStopped, MapInv, CloserInv
    <2>2. WaiterInv'
      BY <1>3 DEF CloseStopped, WaiterInv, CloserInv, MapInv
    <2>3. ReadyInv'
      BY <1>3 DEF CloseStopped, ReadyInv, WaiterInv, MapInv
    <2>4. TakeoverInv'
      BY <1>3 DEF CloseStopped, TakeoverInv, WaiterInv, CloserInv, MapInv,
         ReadyInv
    <2>5. CloserInv'
      BY <1>3, SMTT(60) DEF CloseStopped, CloserInv, WaiterInv, MapInv
    <2>6. TeardownHasReplacement'
      BY <1>3 DEF CloseStopped, TeardownHasReplacement, Failed, WaiterInv,
         CloserInv, MapInv
    <2> QED BY <2>1, <2>2, <2>3, <2>4, <2>5, <2>6 DEF Parts
  <1>4. ASSUME NEW g \in Groups, BeginOpen(g)
        PROVE  Parts'
    <2>1. MapInv'
      BY <1>4 DEF BeginOpen, MapInv, CloserInv
    <2>2. WaiterInv'
      BY <1>4 DEF BeginOpen, WaiterInv, CloserInv, MapInv
    <2>3. ReadyInv'
      BY <1>4, SMTT(60) DEF BeginOpen, ReadyInv, WaiterInv, MapInv
    <2>4. TakeoverInv'
      BY <1>4 DEF BeginOpen, TakeoverInv, WaiterInv, CloserInv, MapInv,
         ReadyInv
    <2>5. CloserInv'
      BY <1>4, SMTT(60) DEF BeginOpen, CloserInv, WaiterInv, MapInv
    <2>6. TeardownHasReplacement'
      BY <1>4 DEF BeginOpen, TeardownHasReplacement, Failed, WaiterInv,
         CloserInv, MapInv
    <2> QED BY <2>1, <2>2, <2>3, <2>4, <2>5, <2>6 DEF Parts
  <1>5. ASSUME NEW g \in Groups, NEW h \in Groups, VisitGroup(g, h)
        PROVE  Parts'
    <2>1. TakeoverInv'
      BY <1>5, SMTT(60) DEF VisitGroup, TakeoverInv, WaiterInv, CloserInv, MapInv,
         ReadyInv
    <2>2. CloserInv'
      BY <1>5, SMTT(60) DEF VisitGroup, CloserInv, WaiterInv, MapInv
    <2>3. MapInv' /\ WaiterInv' /\ ReadyInv' /\ TeardownHasReplacement'
      BY <1>5 DEF VisitGroup, MapInv, WaiterInv, ReadyInv,
         TeardownHasReplacement, Failed
    <2> QED BY <2>1, <2>2, <2>3 DEF Parts
  <1>6. ASSUME NEW g \in Groups, MarkForClosure(g)
        PROVE  Parts'
    <2>1. MapInv'
      BY <1>6 DEF MarkForClosure, MapInv, CloserInv
    <2>2. WaiterInv'
      BY <1>6 DEF MarkForClosure, WaiterInv, CloserInv, MapInv
    <2>3. ReadyInv'
      BY <1>6 DEF MarkForClosure, ReadyInv, WaiterInv, MapInv
    <2>4. TakeoverInv'
      BY <1>6 DEF MarkForClosure, TakeoverInv, WaiterInv, CloserInv, MapInv,
         ReadyInv
    <2>5. CloserInv'
      BY <1>6 DEF MarkForClosure, CloserInv, WaiterInv, MapInv
    <2>6. TeardownHasReplacement'
      BY <1>6 DEF MarkForClosure, TeardownHasReplacement, Failed, WaiterInv,
         CloserInv, MapInv
    <2> QED BY <2>1, <2>2, <2>3, <2>4, <2>5, <2>6 DEF Parts
  <1>7. ASSUME NEW g \in Groups, CreateShards(g)
        PROVE  Parts'
    <2>1. MapInv'
      BY <1>7 DEF CreateShards, MapInv, CloserInv
    <2>2. WaiterInv'
      BY <1>7 DEF CreateShards, WaiterInv, CloserInv, MapInv
    <2>3. ReadyInv'
      BY <1>7 DEF CreateShards, ReadyInv, WaiterInv, MapInv
    <2>4. CloserInv'
      BY <1>7 DEF CreateShards, CloserInv, WaiterInv, MapInv
    <2>5. TeardownHasReplacement'
      BY <1>7 DEF CreateShards, TeardownHasReplacement, Failed, WaiterInv,
         CloserInv, MapInv
    <2>6. TakeoverInv'
      BY <1>7 DEF CreateShards, TakeoverInv
    <2> QED BY <2>1, <2>2, <2>3, <2>4, <2>5, <2>6 DEF Parts
  <1>8. ASSUME NEW g \in Groups, MissingShards(g)
        PROVE  Parts'
    <2>1. MapInv'
      BY <1>8 DEF MissingShards, MapInv, CloserInv
    <2>2. WaiterInv'
      BY <1>8 DEF MissingShards, WaiterInv, CloserInv, MapInv
    <2>3. ReadyInv'
      BY <1>8 DEF MissingShards, ReadyInv, WaiterInv, MapInv
    <2>4. TakeoverInv'
      BY <1>8 DEF MissingShards, TakeoverInv, WaiterInv, CloserInv, MapInv,
         ReadyInv
    <2>5. CloserInv'
      BY <1>8 DEF MissingShards, CloserInv, WaiterInv, MapInv
    <2>6. TeardownHasReplacement'
      BY <1>8 DEF MissingShards, TeardownHasReplacement, Failed, WaiterInv,
         CloserInv, MapInv
    <2> QED BY <2>1, <2>2, <2>3, <2>4, <2>5, <2>6 DEF Parts
  <1>9. ASSUME NEW g \in Groups, StartConnecting(g)
        PROVE  Parts'
    <2>1. MapInv'
      BY <1>9 DEF StartConnecting, MapInv, CloserInv
    <2>2. WaiterInv'
      BY <1>9 DEF StartConnecting, WaiterInv, CloserInv, MapInv
    <2>3. ReadyInv'
      BY <1>9 DEF StartConnecting, ReadyInv, WaiterInv, MapInv
    <2>4. CloserInv'
      BY <1>9 DEF StartConnecting, CloserInv, WaiterInv, MapInv
    <2>5. TeardownHasReplacement'
      BY <1>9 DEF StartConnecting, TeardownHasReplacement, Failed, WaiterInv,
         CloserInv, MapInv
    <2>6. TakeoverInv'
      BY <1>9 DEF StartConnecting, TakeoverInv
    <2> QED BY <2>1, <2>2, <2>3, <2>4, <2>5, <2>6 DEF Parts
  <1>10. ASSUME NEW g \in Groups, ConnectRest(g)
        PROVE  Parts'
    <2>1. MapInv'
      BY <1>10 DEF ConnectRest, MapInv, CloserInv
    <2>2. WaiterInv'
      BY <1>10 DEF ConnectRest, WaiterInv, CloserInv, MapInv
    <2>3. ReadyInv'
      BY <1>10 DEF ConnectRest, ReadyInv, WaiterInv, MapInv
    <2>4. CloserInv'
      BY <1>10 DEF ConnectRest, CloserInv, WaiterInv, MapInv
    <2>5. TeardownHasReplacement'
      BY <1>10 DEF ConnectRest, TeardownHasReplacement, Failed, WaiterInv,
         CloserInv, MapInv
    <2>6. TakeoverInv'
      BY <1>10 DEF ConnectRest, TakeoverInv
    <2> QED BY <2>1, <2>2, <2>3, <2>4, <2>5, <2>6 DEF Parts
  <1>11. ASSUME NEW g \in Groups, ReturnOpen(g)
        PROVE  Parts'
    <2>0. waiter[g] = "none" /\ ~allShardsReady[g]
      BY <1>11 DEF ReturnOpen, WaiterInv
    <2>1. MapInv'
      BY <1>11, <2>0 DEF ReturnOpen, MapInv, CloserInv
    <2>2. WaiterInv'
      BY <1>11, <2>0 DEF ReturnOpen, WaiterInv, CloserInv, MapInv
    <2>3. ReadyInv'
      BY <1>11, <2>0 DEF ReturnOpen, ReadyInv, WaiterInv, MapInv
    <2>4. TakeoverInv'
      BY <1>11, <2>0 DEF ReturnOpen, TakeoverInv, WaiterInv, CloserInv,
         MapInv, ReadyInv
    <2>5. CloserInv'
      BY <1>11, <2>0 DEF ReturnOpen, CloserInv, WaiterInv, MapInv
    <2>6. TeardownHasReplacement'
      BY <1>11, <2>0 DEF ReturnOpen, TeardownHasReplacement, Failed,
         WaiterInv, CloserInv, MapInv
    <2> QED BY <2>1, <2>2, <2>3, <2>4, <2>5, <2>6 DEF Parts
  <1>12. ASSUME NEW g \in Groups, CloseFailed(g)
        PROVE  Parts'
    <2>1. TakeoverInv'
      BY <1>12 DEF CloseFailed, TakeoverInv, WaiterInv, CloserInv, MapInv,
         ReadyInv
    <2>2. CloserInv'
      BY <1>12 DEF CloseFailed, CloserInv, WaiterInv, MapInv
    <2>3. TeardownHasReplacement'
      BY <1>12 DEF CloseFailed, TeardownHasReplacement, Failed, WaiterInv,
         CloserInv, MapInv
    <2>4. MapInv' /\ WaiterInv' /\ ReadyInv'
      BY <1>12 DEF CloseFailed, MapInv, WaiterInv, ReadyInv
    <2> QED BY <2>1, <2>2, <2>3, <2>4 DEF Parts
  <1>13. ASSUME NEW g \in Groups, ReturnError(g)
        PROVE  Parts'
    <2>1. MapInv'
      BY <1>13 DEF ReturnError, MapInv, CloserInv
    <2>2. WaiterInv'
      BY <1>13 DEF ReturnError, WaiterInv, CloserInv, MapInv
    <2>3. ReadyInv'
      BY <1>13, SMTT(60) DEF ReturnError, ReadyInv, WaiterInv, MapInv
    <2>4. TakeoverInv'
      BY <1>13 DEF ReturnError, TakeoverInv, WaiterInv, CloserInv, MapInv,
         ReadyInv
    <2>5. CloserInv'
      BY <1>13 DEF ReturnError, CloserInv, WaiterInv, MapInv
    <2>6. TeardownHasReplacement'
      BY <1>13 DEF ReturnError, TeardownHasReplacement, Failed, WaiterInv,
         CloserInv, MapInv
    <2> QED BY <2>1, <2>2, <2>3, <2>4, <2>5, <2>6 DEF Parts
  <1>14. ASSUME NEW g \in Groups, WaitForReady(g)
        PROVE  Parts'
    <2>1. ReadyInv'
      BY <1>14, SMTT(60) DEF WaitForReady, ReadyInv, WaiterInv, MapInv
    <2>2. MapInv' /\ WaiterInv' /\ TakeoverInv' /\ CloserInv' /\ TeardownHasReplacement'
      BY <1>14 DEF WaitForReady, MapInv, WaiterInv, TakeoverInv, CloserInv,
         TeardownHasReplacement, Failed
    <2> QED BY <2>1, <2>2 DEF Parts
  <1>15. ASSUME NEW g \in Groups, BeginTakeover(g)
        PROVE  Parts'
    <2>1. WaiterInv'
      BY <1>15 DEF BeginTakeover, WaiterInv, CloserInv, MapInv
    <2>2. ReadyInv'
      BY <1>15 DEF BeginTakeover, ReadyInv, WaiterInv, MapInv
    <2>3. TakeoverInv'
      BY <1>15, SMTT(60) DEF BeginTakeover, TakeoverInv, WaiterInv, CloserInv, MapInv,
         ReadyInv
    <2>4. CloserInv'
      BY <1>15, SMTT(60) DEF BeginTakeover, CloserInv, WaiterInv, MapInv
    <2>5. TeardownHasReplacement'
      BY <1>15 DEF BeginTakeover, TeardownHasReplacement, Failed, WaiterInv,
         CloserInv, MapInv
    <2>6. MapInv'
      BY <1>15 DEF BeginTakeover, MapInv
    <2> QED BY <2>1, <2>2, <2>3, <2>4, <2>5, <2>6 DEF Parts
  <1>16. ASSUME NEW g \in Groups, NEW h \in Groups, CloseOther(g, h)
        PROVE  Parts'
    <2>1. WaiterInv'
      BY <1>16 DEF CloseOther, WaiterInv, CloserInv, MapInv
    <2>2. TakeoverInv'
      BY <1>16 DEF CloseOther, TakeoverInv, WaiterInv, CloserInv, MapInv,
         ReadyInv
    <2>3. CloserInv'
      BY <1>16, SMTT(60) DEF CloseOther, CloserInv, WaiterInv, MapInv
    <2>4. TeardownHasReplacement'
      BY <1>16, SMTT(60) DEF CloseOther, TeardownHasReplacement, Failed, WaiterInv,
         CloserInv, MapInv
    <2>5. MapInv' /\ ReadyInv'
      BY <1>16 DEF CloseOther, MapInv, ReadyInv
    <2> QED BY <2>1, <2>2, <2>3, <2>4, <2>5 DEF Parts
  <1>17. ASSUME NEW g \in Groups, OpenFloodgate(g)
        PROVE  Parts'
    <2>1. MapInv'
      BY <1>17 DEF OpenFloodgate, MapInv, CloserInv
    <2>2. WaiterInv'
      BY <1>17 DEF OpenFloodgate, WaiterInv, CloserInv, MapInv
    <2>3. ReadyInv'
      BY <1>17 DEF OpenFloodgate, ReadyInv, WaiterInv, MapInv
    <2>4. TakeoverInv'
      BY <1>17 DEF OpenFloodgate, TakeoverInv, WaiterInv, CloserInv, MapInv,
         ReadyInv
    <2>5. CloserInv'
      BY <1>17 DEF OpenFloodgate, CloserInv, WaiterInv, MapInv
    <2>6. TeardownHasReplacement'
      BY <1>17 DEF OpenFloodgate, TeardownHasReplacement, Failed, WaiterInv,
         CloserInv, MapInv
    <2> QED BY <2>1, <2>2, <2>3, <2>4, <2>5, <2>6 DEF Parts
  <1>18. ASSUME NEW g \in Groups, FailFirst(g)
        PROVE  Parts'
    <2>1. MapInv'
      BY <1>18, SMTT(60) DEF FailFirst, MapInv, CloserInv
    <2>2. WaiterInv'
      BY <1>18, SMTT(60) DEF FailFirst, WaiterInv, CloserInv, MapInv
    <2>3. ReadyInv'
      BY <1>18, SMTT(60) DEF FailFirst, ReadyInv, WaiterInv, MapInv
    <2>4. CloserInv'
      BY <1>18, SMTT(60) DEF FailFirst, CloserInv, WaiterInv, MapInv
    <2>5. TeardownHasReplacement'
      BY <1>18, SMTT(60) DEF FailFirst, TeardownHasReplacement, Failed, WaiterInv,
         CloserInv, MapInv
    <2>6. TakeoverInv'
      BY <1>18 DEF FailFirst, TakeoverInv
    <2> QED BY <2>1, <2>2, <2>3, <2>4, <2>5, <2>6 DEF Parts
  <1>19. ASSUME NEW g \in Groups, NEW s \in Shards, FailOther(g, s)
        PROVE  Parts'
    <2>1. MapInv'
      BY <1>19 DEF FailOther, MapInv, CloserInv
    <2>2. WaiterInv'
      BY <1>19 DEF FailOther, WaiterInv, CloserInv, MapInv
    <2>3. ReadyInv'
      BY <1>19 DEF FailOther, ReadyInv, WaiterInv, MapInv
    <2>4. TakeoverInv'
      BY <1>19 DEF FailOther, TakeoverInv, WaiterInv, CloserInv, MapInv,
         ReadyInv
    <2>5. CloserInv'
      BY <1>19 DEF FailOther, CloserInv, WaiterInv, MapInv
    <2>6. TeardownHasReplacement'
      BY <1>19 DEF FailOther, TeardownHasReplacement, Failed, WaiterInv,
         CloserInv, MapInv
    <2> QED BY <2>1, <2>2, <2>3, <2>4, <2>5, <2>6 DEF Parts
  <1>20. ASSUME NEW g \in Groups, NEW s \in Shards, FailReconnect(g, s)
        PROVE  Parts'
    <2>1. MapInv'
      BY <1>20 DEF FailReconnect, MapInv, CloserInv
    <2>2. WaiterInv'
      BY <1>20 DEF FailReconnect, WaiterInv, CloserInv, MapInv
    <2>3. ReadyInv'
      BY <1>20 DEF FailReconnect, ReadyInv, WaiterInv, MapInv
    <2>4. TakeoverInv'
      BY <1>20 DEF FailReconnect, TakeoverInv, WaiterInv, CloserInv, MapInv,
         ReadyInv
    <2>5. CloserInv'
      BY <1>20 DEF FailReconnect, CloserInv, WaiterInv, MapInv
    <2>6. TeardownHasReplacement'
      BY <1>20 DEF FailReconnect, TeardownHasReplacement, Failed, WaiterInv,
         CloserInv, MapInv
    <2> QED BY <2>1, <2>2, <2>3, <2>4, <2>5, <2>6 DEF Parts
  <1>21. ASSUME NEW g \in Groups, NEW s \in Shards, LoseConnection(g, s)
        PROVE  Parts'
    <2>1. MapInv'
      BY <1>21 DEF LoseConnection, MapInv, CloserInv
    <2>2. WaiterInv'
      BY <1>21 DEF LoseConnection, WaiterInv, CloserInv, MapInv
    <2>3. ReadyInv'
      BY <1>21, SMTT(60) DEF LoseConnection, ReadyInv, WaiterInv, MapInv
    <2>4. TakeoverInv'
      BY <1>21 DEF LoseConnection, TakeoverInv, WaiterInv, CloserInv, MapInv,
         ReadyInv
    <2>5. CloserInv'
      BY <1>21 DEF LoseConnection, CloserInv, WaiterInv, MapInv
    <2>6. TeardownHasReplacement'
      BY <1>21 DEF LoseConnection, TeardownHasReplacement, Failed, WaiterInv,
         CloserInv, MapInv
    <2> QED BY <2>1, <2>2, <2>3, <2>4, <2>5, <2>6 DEF Parts
  <1>22. ASSUME NEW c \in Closers, NEW s \in Shards, CloseShard(c, s)
        PROVE  Parts'
    <2>1. MapInv'
      BY <1>22 DEF CloseShard, MapInv, CloserInv
    <2>2. WaiterInv'
      BY <1>22 DEF CloseShard, WaiterInv, CloserInv, MapInv
    <2>3. ReadyInv'
      BY <1>22 DEF CloseShard, ReadyInv, WaiterInv, MapInv
    <2>4. TakeoverInv'
      BY <1>22 DEF CloseShard, TakeoverInv, WaiterInv, CloserInv, MapInv,
         ReadyInv
    <2>5. CloserInv'
      BY <1>22 DEF CloseShard, CloserInv, WaiterInv, MapInv
    <2>6. TeardownHasReplacement'
      BY <1>22 DEF CloseShard, TeardownHasReplacement, Failed, WaiterInv,
         CloserInv, MapInv
    <2> QED BY <2>1, <2>2, <2>3, <2>4, <2>5, <2>6 DEF Parts
  <1>23. ASSUME NEW c \in Closers, LeaveClose(c)
        PROVE  Parts'
    <2>1. MapInv'
      BY <1>23 DEF LeaveClose, MapInv, CloserInv
    <2>2. WaiterInv'
      BY <1>23 DEF LeaveClose, WaiterInv, CloserInv, MapInv
    <2>3. ReadyInv'
      BY <1>23, SMTT(60) DEF LeaveClose, ReadyInv, WaiterInv, MapInv
    <2>4. TakeoverInv'
      BY <1>23 DEF LeaveClose, TakeoverInv, WaiterInv, CloserInv, MapInv,
         ReadyInv
    <2>5. CloserInv'
      BY <1>23, SMTT(60) DEF LeaveClose, CloserInv, WaiterInv, MapInv
    <2>6. TeardownHasReplacement'
      BY <1>23 DEF LeaveClose, TeardownHasReplacement, Failed, WaiterInv,
         CloserInv, MapInv
    <2> QED BY <2>1, <2>2, <2>3, <2>4, <2>5, <2>6 DEF Parts
  <1>24. ASSUME NEW g \in Groups, NEW s \in Shards, BeginConnect(g, s)
        PROVE  Parts'
    <2>1. MapInv'
      BY <1>24 DEF BeginConnect, MapInv, CloserInv
    <2>2. WaiterInv'
      BY <1>24 DEF BeginConnect, WaiterInv, CloserInv, MapInv
    <2>3. ReadyInv'
      BY <1>24 DEF BeginConnect, ReadyInv, WaiterInv, MapInv
    <2>4. TakeoverInv'
      BY <1>24 DEF BeginConnect, TakeoverInv, WaiterInv, CloserInv, MapInv,
         ReadyInv
    <2>5. CloserInv'
      BY <1>24 DEF BeginConnect, CloserInv, WaiterInv, MapInv
    <2>6. TeardownHasReplacement'
      BY <1>24 DEF BeginConnect, TeardownHasReplacement, Failed, WaiterInv,
         CloserInv, MapInv
    <2> QED BY <2>1, <2>2, <2>3, <2>4, <2>5, <2>6 DEF Parts
  <1>25. ASSUME NEW g \in Groups, NEW s \in Shards, EndConnect(g, s)
        PROVE  Parts'
    <2>1. MapInv'
      BY <1>25 DEF EndConnect, MapInv, CloserInv
    <2>2. WaiterInv'
      BY <1>25 DEF EndConnect, WaiterInv, CloserInv, MapInv
    <2>3. ReadyInv'
      BY <1>25 DEF EndConnect, ReadyInv, WaiterInv, MapInv
    <2>4. TakeoverInv'
      BY <1>25 DEF EndConnect, TakeoverInv, WaiterInv, CloserInv, MapInv,
         ReadyInv
    <2>5. CloserInv'
      BY <1>25 DEF EndConnect, CloserInv, WaiterInv, MapInv
    <2>6. TeardownHasReplacement'
      BY <1>25 DEF EndConnect, TeardownHasReplacement, Failed, WaiterInv,
         CloserInv, MapInv
    <2> QED BY <2>1, <2>2, <2>3, <2>4, <2>5, <2>6 DEF Parts
  <1>26. ASSUME NEW g \in Groups, NEW s \in Shards, BecomeReady(g, s)
        PROVE  Parts'
    <2>1. MapInv'
      BY <1>26 DEF BecomeReady, MapInv, CloserInv
    <2>2. WaiterInv'
      BY <1>26 DEF BecomeReady, WaiterInv, CloserInv, MapInv
    <2>3. ReadyInv'
      BY <1>26, SMTT(60) DEF BecomeReady, ReadyInv, WaiterInv, MapInv
    <2>4. TakeoverInv'
      BY <1>26 DEF BecomeReady, TakeoverInv, WaiterInv, CloserInv, MapInv,
         ReadyInv
    <2>5. CloserInv'
      BY <1>26 DEF BecomeReady, CloserInv, WaiterInv, MapInv
    <2>6. TeardownHasReplacement'
      BY <1>26 DEF BecomeReady, TeardownHasReplacement, Failed, WaiterInv,
         CloserInv, MapInv
    <2> QED BY <2>1, <2>2, <2>3, <2>4, <2>5, <2>6 DEF Parts
  <1>27. ASSUME NEW g \in Groups, NEW s \in Shards, BeginReconnect(g, s)
        PROVE  Parts'
    <2>1. ReadyInv'
      BY <1>27 DEF BeginReconnect, ReadyInv, WaiterInv, MapInv
    <2>2. MapInv' /\ WaiterInv' /\ TakeoverInv' /\ CloserInv' /\ TeardownHasReplacement'
      BY <1>27 DEF BeginReconnect, MapInv, WaiterInv, TakeoverInv, CloserInv,
         TeardownHasReplacement, Failed
    <2> QED BY <2>1, <2>2 DEF Parts
  <1>28. ASSUME NEW g \in Groups, NEW s \in Shards, EndReconnect(g, s)
        PROVE  Parts'
    <2>1. MapInv'
      BY <1>28 DEF EndReconnect, MapInv, CloserInv
    <2>2. WaiterInv'
      BY <1>28 DEF EndReconnect, WaiterInv, CloserInv, MapInv
    <2>3. ReadyInv'
      BY <1>28 DEF EndReconnect, ReadyInv, WaiterInv, MapInv
    <2>4. TakeoverInv'
      BY <1>28 DEF EndReconnect, TakeoverInv, WaiterInv, CloserInv, MapInv,
         ReadyInv
    <2>5. CloserInv'
      BY <1>28 DEF EndReconnect, CloserInv, WaiterInv, MapInv
    <2>6. TeardownHasReplacement'
      BY <1>28 DEF EndReconnect, TeardownHasReplacement, Failed, WaiterInv,
         CloserInv, MapInv
    <2> QED BY <2>1, <2>2, <2>3, <2>4, <2>5, <2>6 DEF Parts
  <1>35. ASSUME NEW g \in Groups, NEW s \in Shards, ClearReady(g, s)
        PROVE  Parts'
    <2>1. ReadyInv'
      BY <1>35 DEF ClearReady, ReadyInv, WaiterInv, MapInv
    <2>2. MapInv' /\ WaiterInv' /\ TakeoverInv' /\ CloserInv' /\ TeardownHasReplacement'
      BY <1>35 DEF ClearReady, MapInv, WaiterInv, TakeoverInv, CloserInv,
         TeardownHasReplacement, Failed
    <2> QED BY <2>1, <2>2 DEF Parts
  <1>36. ASSUME NEW g \in Groups, NEW s \in Shards, StaleReady(g, s)
        PROVE  Parts'
    <2>1. ReadyInv'
      BY <1>36 DEF StaleReady, ReadyInv, WaiterInv, MapInv
    <2>2. MapInv' /\ WaiterInv' /\ TakeoverInv' /\ CloserInv' /\ TeardownHasReplacement'
      BY <1>36 DEF StaleReady, MapInv, WaiterInv, TakeoverInv, CloserInv,
         TeardownHasReplacement, Failed
    <2> QED BY <2>1, <2>2 DEF Parts
  <1>37. ASSUME NEW c \in Closers, NEW s \in Shards, ClearToClose(c, s)
        PROVE  Parts'
    <2>1. ReadyInv'
      BY <1>37 DEF ClearToClose, ReadyInv, WaiterInv, MapInv
    <2>2. MapInv' /\ WaiterInv' /\ TakeoverInv' /\ CloserInv' /\ TeardownHasReplacement'
      BY <1>37 DEF ClearToClose, MapInv, WaiterInv, TakeoverInv, CloserInv,
         TeardownHasReplacement, Failed
    <2> QED BY <2>1, <2>2 DEF Parts
  <1>29. CASE UNCHANGED vars
    BY <1>29 DEF Parts, MapInv, WaiterInv, ReadyInv, TakeoverInv, CloserInv,
       TeardownHasReplacement, Failed, IDs
  <1> HIDE DEF IInv, TypeOK
  <1>30. ASSUME NEW g \in Groups, OpenStep(g) PROVE Parts'
    BY <1>30, <1>4, <1>5, <1>6, <1>7, <1>8, <1>9, <1>10, <1>11, <1>12, <1>13
       DEF OpenStep
  <1>31. ASSUME NEW g \in Groups, WaiterStep(g) PROVE Parts'
    BY <1>31, <1>14, <1>15, <1>16, <1>17 DEF WaiterStep
  <1>32. ASSUME NEW g \in Groups, ConnectFailure(g) PROVE Parts'
    BY <1>32, <1>18, <1>19, <1>20, <1>21 DEF ConnectFailure
  <1>33. ASSUME NEW c \in Closers, CloseStep(c) PROVE Parts'
    BY <1>33, <1>22, <1>23, <1>37 DEF CloseStep
  <1>34. ASSUME Next PROVE Parts'
    BY <1>34, <1>1, <1>2, <1>3, <1>24, <1>25, <1>26, <1>27, <1>28, <1>30,
       <1>31, <1>32, <1>33, <1>35, <1>36 DEF Next
  <1> QED BY <1>0, <1>29, <1>34 DEF Parts, IInv

\* It holds of every state the code reaches.
LEMMA Inductive == Spec => []IInv
  <1>1. Init => IInv
    <2> SUFFICES ASSUME Init PROVE IInv
      OBVIOUS
    <2>1. TypeOK
      BY InitTyped
    <2> QED BY <2>1, Literals DEF Init, IInv, MapInv, WaiterInv, ReadyInv,
               TakeoverInv, CloserInv, TeardownHasReplacement
  <1> QED BY <1>1, InvStep, PTL DEF Spec

\* Whatever opens, connects, fails, reconnects and stops are interleaved, a
\* group goes down only for a complete one, for its own failure or for a stop.
THEOREM TeardownSafe == Spec => []TeardownHasReplacement
  <1>1. IInv => TeardownHasReplacement
    BY DEF IInv
  <1> QED BY <1>1, Inductive, PTL

\* No group's events pass before its shards were ready and the groups before
\* it closed, however many groups are opened at a time.
THEOREM FloodgateSafe == Spec => []FloodgateOpensLast
  <1>1. IInv => FloodgateOpensLast
    <2> SUFFICES ASSUME IInv, NEW g \in Groups, floodgate[g]
                 PROVE  /\ IDs(g) \subseteq everReady[g]
                        /\ \A h \in groups : h < g => h \in closeDone
      BY DEF FloodgateOpensLast
    <2>1. waiter[g] = "done" /\ allShardsReady[g]
      BY DEF IInv, WaiterInv
    <2>2. IDs(g) \subseteq everReady[g]
      BY <2>1 DEF IInv, TypeOK, ReadyInv, IDs
    <2>3. \A h \in groups : h < g => h \in closeDone
      BY <2>1 DEF IInv, TakeoverInv
    <2> QED BY <2>2, <2>3
  <1> QED BY <1>1, Inductive, PTL

-----------------------------------------------------------------------------
(* With one open at a time a manager keeps a ready group.                  *)

\* Only groups an Open was called for are in the map, or ranged over.
Known ==
    /\ \A h \in groups : opener[h] # "none"
    /\ \A g \in Groups : \A h \in toVisit[g] : opener[h] # "none"

OneOpen == \A g, h \in Groups : Opening(g) /\ Opening(h) => g = h

\* A group that is being opened, or may be yet, was closed by nobody: who closes
\* others is itself being opened.
Untouched ==
    ~isClosing => \A g \in Groups : waiter[g] # "done" /\ ~Failed(g) => g \notin closeBegun

KeepInv == Known /\ OneOpen /\ Untouched /\ ManagerKeepsReadyGroup

LEMMA InitKeep == Init => KeepInv
  BY Literals DEF Init, KeepInv, Known, OneOpen, Opening, Untouched, ManagerKeepsReadyGroup

LEMMA NobodyOpening ==
    ASSUME MaxConcurrentOpens <= 1,
           Cardinality({h \in Groups : Opening(h)}) < MaxConcurrentOpens
    PROVE  \A h \in Groups : ~Opening(h)
  <1> DEFINE S == {h \in Groups : Opening(h)}
  <1>1. IsFiniteSet(Groups)
    BY ConstantsAssumption, FS_Interval DEF Groups
  <1>2. IsFiniteSet(S)
    BY <1>1, FS_Subset
  <1>3. Cardinality(S) \in Nat
    BY <1>2, FS_CardinalityType
  <1> HIDE DEF S
  <1>4. Cardinality(S) = 0
    BY <1>3, ConstantsAssumption DEF S
  <1>5. S = {}
    BY <1>2, <1>4, FS_EmptySet
  <1> QED BY <1>5 DEF S

LEMMA MembersAreGroups ==
    ASSUME IInv
    PROVE  groups \subseteq Groups /\ \A g \in Groups : toVisit[g] \subseteq Groups
  <1>1. shardGroupCounter \in 0..MaxGroups /\ groups \subseteq 1..shardGroupCounter
    BY DEF IInv, TypeOK, MapInv
  <1>2. groups \subseteq Groups
    BY <1>1, ConstantsAssumption DEF Groups
  <1> QED BY <1>2, Literals DEF IInv, TypeOK

LEMMA ScaleKeeps ==
    ASSUME IInv, KeepInv, MaxConcurrentOpens <= 1, NEW ids \in Layouts, Scale(ids)
    PROVE  KeepInv'
  <1> DEFINE n == shardGroupCounter + 1
  <1>1. n \in Groups /\ opener[n] = "none" /\ waiter[n] = "none" /\ n \notin groups
    <2>1. n \in Groups /\ ~(n <= shardGroupCounter)
      BY ConstantsAssumption DEF Scale, IInv, TypeOK, Groups
    <2>2. n \notin groups
      BY <2>1 DEF IInv, MapInv, TypeOK
    <2> HIDE DEF n
    <2>3. opener[n] = "none"
      BY <2>1 DEF IInv, MapInv
    <2> QED BY <2>1, <2>2, <2>3 DEF IInv, WaiterInv
  <1>2. \A g \in Groups : opener'[g] = IF g = n THEN "scaled" ELSE opener[g]
    BY DEF Scale, IInv, TypeOK
  <1>3. groups' = groups \cup {n}
        /\ UNCHANGED <<isClosing, waiter, allShardsReady, toVisit, closeBegun>>
    BY DEF Scale
  <1> HIDE DEF n
  <1>4. Known'
    BY <1>1, <1>2, <1>3, MembersAreGroups DEF KeepInv, Known
  <1>5. OneOpen'
    <2>1. \A h \in Groups : ~Opening(h)
      BY NobodyOpening DEF Scale
    <2> QED BY <1>2, <1>3, <2>1 DEF OneOpen, Opening
  <1>6. Untouched'
    BY <1>1, <1>2, <1>3 DEF KeepInv, Untouched, Failed
  <1>7. ManagerKeepsReadyGroup'
    BY <1>3 DEF KeepInv, ManagerKeepsReadyGroup
  <1> QED BY <1>4, <1>5, <1>6, <1>7 DEF KeepInv

\* A step of a group's Open, or of its goroutine, that goes on from where it was.
Goes(g) ==
    /\ \A h \in Groups \ {g} : opener'[h] = opener[h] /\ waiter'[h] = waiter[h]
    /\ opener[g] # "none" /\ opener'[g] # "none"
    /\ Opening(g)' => Opening(g)
    /\ Failed(g) => Failed(g)'
    /\ waiter[g] = "done" => waiter'[g] = "done"
    /\ UNCHANGED <<isClosing, groups, allShardsReady, closeBegun>>
    /\ \A h \in Groups : toVisit'[h] \subseteq toVisit[h] \cup groups

LEMMA GoesKeeps ==
    ASSUME IInv, KeepInv, NEW g \in Groups, Goes(g)
    PROVE  KeepInv'
  <1>1. Known'
    BY MembersAreGroups DEF Goes, KeepInv, Known
  <1>2. OneOpen'
    BY DEF Goes, KeepInv, OneOpen, Opening
  <1>3. Untouched'
    BY DEF Goes, KeepInv, Untouched, Failed
  <1>4. ManagerKeepsReadyGroup'
    BY DEF Goes, KeepInv, ManagerKeepsReadyGroup
  <1> QED BY <1>1, <1>2, <1>3, <1>4 DEF KeepInv

\* A step that takes no part in opening.
Still == UNCHANGED <<isClosing, groups, opener, waiter, allShardsReady, closeBegun>>
         /\ \A h \in Groups : toVisit'[h] \subseteq toVisit[h]

LEMMA StillKeeps ==
    ASSUME KeepInv, Still
    PROVE  KeepInv'
  <1>1. Known'
    BY DEF Still, KeepInv, Known
  <1>2. OneOpen'
    BY DEF Still, KeepInv, OneOpen, Opening
  <1>3. Untouched'
    BY DEF Still, KeepInv, Untouched, Failed
  <1>4. ManagerKeepsReadyGroup'
    BY DEF Still, KeepInv, ManagerKeepsReadyGroup
  <1> QED BY <1>1, <1>2, <1>3, <1>4 DEF KeepInv

LEMMA ShardSteps ==
    ASSUME NEW g \in Groups, NEW s \in Shards,
           \/ BeginConnect(g, s) \/ EndConnect(g, s) \/ BecomeReady(g, s)
           \/ BeginReconnect(g, s) \/ EndReconnect(g, s) \/ FailReconnect(g, s)
           \/ FailOther(g, s) \/ LoseConnection(g, s)
           \/ ClearReady(g, s) \/ StaleReady(g, s)
    PROVE  Still
  <1>1. CASE BeginConnect(g, s) \/ EndConnect(g, s) \/ BecomeReady(g, s) \/ FailOther(g, s)
    BY <1>1 DEF BeginConnect, EndConnect, BecomeReady, FailOther, Still
  <1>2. CASE BeginReconnect(g, s) \/ EndReconnect(g, s) \/ FailReconnect(g, s)
    BY <1>2 DEF BeginReconnect, EndReconnect, FailReconnect, Still
  <1>3. CASE LoseConnection(g, s)
    BY <1>3 DEF LoseConnection, Still
  <1>4. CASE ClearReady(g, s) \/ StaleReady(g, s)
    BY <1>4 DEF ClearReady, StaleReady, Still
  <1> QED BY <1>1, <1>2, <1>3, <1>4

\* ManagerKeepsReadyGroup through the steps of an Open: none of them begins to
\* close anybody but itself, and only a group that failed leaves the map.
LEMMA OpenKeeps ==
    ASSUME IInv, KeepInv, NEW g \in Groups, OpenStep(g) \/ FailFirst(g)
    PROVE  KeepInv'
  <1> USE DEF IInv, TypeOK
  <1>1. CASE BeginOpen(g)
    <2>1. Goes(g)
      BY <1>1, Literals DEF BeginOpen, Goes, Opening, Failed
    <2> QED BY <2>1, GoesKeeps
  <1>2. ASSUME NEW h \in Groups, VisitGroup(g, h) PROVE KeepInv'
    <2>1. Still
      BY <1>2, SMTT(60) DEF VisitGroup, Still
    <2> QED BY <2>1, StillKeeps
  <1>3. CASE MarkForClosure(g)
    <2>1. Still
      BY <1>3 DEF MarkForClosure, Still
    <2> QED BY <2>1, StillKeeps
  <1>4. CASE CreateShards(g)
    <2>1. Goes(g)
      BY <1>4 DEF CreateShards, Goes, Opening, Failed
    <2> QED BY <2>1, GoesKeeps
  <1>5. CASE MissingShards(g)
    <2>1. Goes(g)
      BY <1>5 DEF MissingShards, Goes, Opening, Failed
    <2> QED BY <2>1, GoesKeeps
  <1>6. CASE StartConnecting(g)
    <2>1. Goes(g)
      BY <1>6 DEF StartConnecting, Goes, Opening, Failed
    <2> QED BY <2>1, GoesKeeps
  <1>7. CASE ConnectRest(g)
    <2>1. Goes(g)
      BY <1>7 DEF ConnectRest, Goes, Opening, Failed
    <2> QED BY <2>1, GoesKeeps
  <1>8. CASE ReturnOpen(g)
    <2>1. waiter[g] = "none"
      BY <1>8 DEF ReturnOpen, WaiterInv
    <2>2. Goes(g)
      BY <1>8, <2>1 DEF ReturnOpen, Goes, Opening, Failed
    <2> QED BY <2>2, GoesKeeps
  <1>9. CASE FailFirst(g)
    <2>1. opener[g] = "connectFirst" /\ waiter[g] # "done"
      BY <1>9 DEF FailFirst, WaiterInv
    <2>2. /\ \A h \in Groups \ {g} : opener'[h] = opener[h]
          /\ opener'[g] \in {"connectFirst", "failing"}
      BY <1>9, <2>1 DEF FailFirst
    <2>3. UNCHANGED <<isClosing, groups, waiter, allShardsReady, closeBegun, toVisit>>
      BY <1>9 DEF FailFirst
    <2>4. Goes(g)
      BY <2>1, <2>2, <2>3 DEF Goes, Opening, Failed
    <2> QED BY <2>4, GoesKeeps
  <1>10. CASE CloseFailed(g)
    <2>1. Failed(g) /\ ~allShardsReady[g] /\ closeBegun' = closeBegun \cup {g}
      BY <1>10 DEF CloseFailed, EnterClose, Failed, WaiterInv
    <2>2. UNCHANGED <<isClosing, groups, opener, waiter, allShardsReady, toVisit>>
      BY <1>10 DEF CloseFailed
    <2>3. Known' /\ OneOpen'
      BY <2>2 DEF KeepInv, Known, OneOpen, Opening
    <2>4. Untouched'
      BY <2>1, <2>2 DEF KeepInv, Untouched, Failed
    <2>5. ManagerKeepsReadyGroup'
      BY <2>1, <2>2 DEF KeepInv, ManagerKeepsReadyGroup
    <2> QED BY <2>3, <2>4, <2>5 DEF KeepInv
  <1>11. CASE ReturnError(g)
    <2>1. opener[g] = "error" /\ ~allShardsReady[g]
      BY <1>11 DEF ReturnError, WaiterInv
    <2>2. groups' \subseteq groups /\ groups \ {g} \subseteq groups'
      BY <1>11 DEF ReturnError
    <2>3. /\ \A h \in Groups : opener'[h] = IF h = g THEN "failed" ELSE opener[h]
          /\ UNCHANGED <<isClosing, waiter, allShardsReady, closeBegun, toVisit>>
      BY <1>11 DEF ReturnError
    <2>4. Known'
      BY <2>1, <2>2, <2>3, MembersAreGroups DEF KeepInv, Known
    <2>5. OneOpen'
      BY <2>1, <2>3 DEF KeepInv, OneOpen, Opening
    <2>6. Untouched'
      BY <2>1, <2>3 DEF KeepInv, Untouched, Failed
    <2>7. ManagerKeepsReadyGroup'
      BY <2>1, <2>2, <2>3 DEF KeepInv, ManagerKeepsReadyGroup
    <2> QED BY <2>4, <2>5, <2>6, <2>7 DEF KeepInv
  <1> HIDE DEF IInv, TypeOK
  <1> QED BY <1>1, <1>2, <1>3, <1>4, <1>5, <1>6, <1>7, <1>8, <1>9, <1>10, <1>11 DEF OpenStep

\* And through those of the goroutine that takes over: the group is ready, in
\* the map and not being closed when it begins to close another.
LEMMA WaiterKeeps ==
    ASSUME IInv, KeepInv, NEW g \in Groups, WaiterStep(g)
    PROVE  KeepInv'
  <1> USE DEF IInv, TypeOK
  <1>0. /\ waiter[g] \in {"wait", "takeover"} => Opening(g) /\ ~Failed(g) /\ g \in groups
        /\ waiter[g] = "takeover" => allShardsReady[g]
    BY DEF WaiterInv, MapInv, Opening, Failed
  <1>1. CASE WaitForReady(g)
    <2>1. Still
      BY <1>1 DEF WaitForReady, Still
    <2> QED BY <2>1, StillKeeps
  <1>2. CASE OpenFloodgate(g)
    <2>1. Goes(g)
      BY <1>2, <1>0 DEF OpenFloodgate, Goes, Opening, Failed
    <2> QED BY <2>1, GoesKeeps
  <1>3. CASE BeginTakeover(g)
    <2>1. /\ waiter[g] = "wait"
          /\ \A h \in Groups \ {g} : waiter'[h] = waiter[h]
          /\ waiter'[g] = "takeover" /\ allShardsReady'[g]
          /\ \A h \in Groups : toVisit'[h] \subseteq toVisit[h] \cup groups
          /\ UNCHANGED <<isClosing, groups, opener, closeBegun>>
      BY <1>3, Literals DEF BeginTakeover
    <2>2. Known'
      BY <2>1 DEF KeepInv, Known
    <2>3. OneOpen'
      BY <1>0, <2>1 DEF KeepInv, OneOpen, Opening
    <2>4. Untouched'
      BY <2>1 DEF KeepInv, Untouched, Failed
    <2>5. ManagerKeepsReadyGroup'
      BY <1>0, <2>1 DEF KeepInv, Untouched, ManagerKeepsReadyGroup
    <2> QED BY <2>2, <2>3, <2>4, <2>5 DEF KeepInv
  <1>4. ASSUME NEW h \in Groups, CloseOther(g, h) PROVE KeepInv'
    <2>1. /\ waiter[g] = "takeover" /\ h \in toVisit[g]
          /\ closeBegun' = closeBegun \cup {h}
          /\ \A f \in Groups : toVisit'[f] \subseteq toVisit[f]
          /\ UNCHANGED <<isClosing, groups, opener, waiter, allShardsReady>>
      BY <1>4, Literals DEF CloseOther, EnterClose
    <2>2. h # g
      BY <2>1 DEF CloserInv
    <2>3. waiter[h] = "done" \/ Failed(h)
      <3>1. ~Opening(h)
        BY <1>0, <2>1, <2>2 DEF KeepInv, OneOpen
      <3>2. opener[h] # "none"
        BY <2>1 DEF KeepInv, Known
      <3> QED BY <3>1, <3>2 DEF Opening, Failed
    <2>4. Known' /\ OneOpen'
      BY <2>1 DEF KeepInv, Known, OneOpen, Opening
    <2>5. Untouched'
      BY <2>1, <2>3 DEF KeepInv, Untouched, Failed
    <2>6. ManagerKeepsReadyGroup'
      <3>1. ~isClosing => g \notin closeBegun
        BY <1>0, <2>1 DEF KeepInv, Untouched
      <3> QED BY <1>0, <2>1, <2>2, <3>1 DEF ManagerKeepsReadyGroup
    <2> QED BY <2>4, <2>5, <2>6 DEF KeepInv
  <1> HIDE DEF IInv, TypeOK
  <1> QED BY <1>1, <1>2, <1>3, <1>4 DEF WaiterStep

\* A stop leaves nothing to be shown but which groups are open.
LEMMA StopKeeps ==
    ASSUME IInv, KeepInv, Stop \/ \E h \in Groups : CloseStopped(h)
    PROVE  KeepInv'
  <1>1. /\ isClosing'
        /\ \A g \in Groups : toVisit'[g] = toVisit[g]
        /\ UNCHANGED <<groups, opener, waiter>>
    <2>1. Endpoint \notin Groups /\ Groups \subseteq Closers
      BY Literals
    <2>2. toVisit[Endpoint] # {} => isClosing
      BY DEF IInv, CloserInv
    <2> QED BY <2>1, <2>2 DEF Stop, CloseStopped, IInv, TypeOK
  <1> QED BY <1>1 DEF KeepInv, Known, OneOpen, Opening, Untouched, ManagerKeepsReadyGroup

LEMMA LeaveKeeps ==
    ASSUME IInv, KeepInv, NEW c \in Closers, LeaveClose(c)
    PROVE  KeepInv'
  <1>1. PICK h \in Groups : h = closing[c]
    BY DEF LeaveClose, IInv, TypeOK
  <1>2. UNCHANGED <<isClosing, groups, waiter, allShardsReady, closeBegun, toVisit>>
    BY DEF LeaveClose
  <1>3. CASE c = h
    <2>1. opener[h] = "failing" /\ waiter[h] # "done"
      BY <1>1, <1>3 DEF IInv, CloserInv, WaiterInv
    <2>2. \A f \in Groups : opener'[f] = IF f = h THEN "error" ELSE opener[f]
      BY <1>1, <1>3 DEF LeaveClose, IInv, TypeOK
    <2>3. opener'[h] = "error" /\ \A f \in Groups \ {h} : opener'[f] = opener[f]
      BY <2>2
    <2>4. Goes(h)
      BY <1>2, <2>1, <2>3 DEF Goes, Opening, Failed
    <2> QED BY <2>4, GoesKeeps
  <1>4. CASE c # h
    <2>1. Still
      BY <1>1, <1>2, <1>4 DEF LeaveClose, Still
    <2> QED BY <2>1, StillKeeps
  <1> QED BY <1>3, <1>4

LEMMA KeepStep ==
    ASSUME MaxConcurrentOpens <= 1, IInv, KeepInv, [Next]_vars
    PROVE  KeepInv'
  <1>1. CASE \E ids \in Layouts : Scale(ids)
    BY <1>1, ScaleKeeps
  <1>2. CASE Stop \/ \E h \in Groups : CloseStopped(h)
    BY <1>2, StopKeeps
  <1>3. CASE \E g \in Groups : OpenStep(g) \/ FailFirst(g)
    BY <1>3, OpenKeeps
  <1>4. CASE \E g \in Groups : WaiterStep(g)
    BY <1>4, WaiterKeeps
  <1>5. ASSUME NEW g \in Groups, NEW s \in Shards,
               \/ BeginConnect(g, s) \/ EndConnect(g, s) \/ BecomeReady(g, s)
               \/ BeginReconnect(g, s) \/ EndReconnect(g, s) \/ FailReconnect(g, s)
               \/ FailOther(g, s) \/ LoseConnection(g, s)
               \/ ClearReady(g, s) \/ StaleReady(g, s)
        PROVE  KeepInv'
    BY <1>5, ShardSteps, StillKeeps
  <1>6. ASSUME NEW c \in Closers, NEW s \in Shards,
               ClearToClose(c, s) \/ CloseShard(c, s)
        PROVE  KeepInv'
    <2>1. Still
      BY <1>6 DEF ClearToClose, CloseShard, Still
    <2> QED BY <2>1, StillKeeps
  <1>7. CASE \E c \in Closers : LeaveClose(c)
    BY <1>7, LeaveKeeps
  <1>8. CASE UNCHANGED vars
    <2>1. Still
      BY <1>8 DEF Still
    <2> QED BY <2>1, StillKeeps
  <1> QED BY <1>1, <1>2, <1>3, <1>4, <1>5, <1>6, <1>7, <1>8
          DEF Next, ConnectFailure, CloseStep

\* With one open at a time, a manager that had a ready group and is not stopped
\* has one that nobody has begun to close, for any number of restarts.
THEOREM ReadyGroupKept ==
    ASSUME MaxConcurrentOpens <= 1
    PROVE  Spec => []ManagerKeepsReadyGroup
  <1>1. IInv /\ KeepInv /\ [Next]_vars => (IInv /\ KeepInv)'
    BY InvStep, KeepStep
  <1>2. KeepInv => ManagerKeepsReadyGroup
    BY DEF KeepInv
  <1> QED BY <1>1, <1>2, InitKeep, Inductive, PTL DEF Spec

-----------------------------------------------------------------------------
(* The groups implement RollingRestart.                                    *)

failedSet  == {g \in Groups : Failed(g)}
readySet   == {g \in Groups : allShardsReady[g]}
servingSet == {g \in Groups : floodgate[g]}

\* Nothing a consumer of the abstract specification sees has changed.
Quiet == /\ UNCHANGED <<groups, allShardsReady, floodgate, closeBegun,
                        closeDone, isClosing>>
         /\ \A g \in Groups : Failed(g)' <=> Failed(g)

\* A step that touches none of the mapped variables is a stutter of
\* RollingRestart.
LEMMA QuietStutters == Quiet => UNCHANGED Restart!vars
  <1> SUFFICES ASSUME Quiet PROVE UNCHANGED Restart!vars
    OBVIOUS
  <1>1. failedSet' = failedSet /\ readySet' = readySet
        /\ servingSet' = servingSet
    BY DEF Quiet, failedSet, readySet, servingSet
  <1> QED BY <1>1 DEF Quiet, Restart!vars, failedSet, readySet, servingSet

\* Every step of the code is a step of RollingRestart or a stutter.
LEMMA RefinementStep ==
    IInv /\ [Next]_vars => [Restart!Next]_(Restart!vars)
  <1> SUFFICES ASSUME IInv, [Next]_vars
               PROVE  Restart!Next \/ UNCHANGED Restart!vars
    OBVIOUS
  <1> DEFINE Mapped == Restart!Next \/ UNCHANGED Restart!vars
  <1> USE Literals DEF SetStatus, SetShard, EnterClose
  <1>a. TypeOK
    BY DEF IInv
  <1>1. ASSUME NEW ids \in Layouts, Scale(ids) PROVE Mapped
    <2> DEFINE g == shardGroupCounter + 1
    <2>1. g \in Groups /\ opener[g] = "none"
      BY <1>1, ConstantsAssumption DEF Scale, IInv, MapInv, TypeOK, Groups
    <2>2. \A h \in groups : h < g
      BY ConstantsAssumption DEF IInv, MapInv, TypeOK, Groups
    <2>3. failedSet' = failedSet
      BY <1>1, <2>1 DEF Scale, Failed, failedSet, IInv, TypeOK
    <2>4. Restart!Join(g)
      BY <1>1, <2>2, <2>3 DEF Scale, Restart!Join, failedSet
    <2> QED BY <2>1, <2>4 DEF Restart!Next
  <1>2. ASSUME Stop PROVE Mapped
    BY <1>2 DEF Stop, Restart!Next, Restart!Stop, Failed
  <1>3. ASSUME NEW h \in Groups, CloseStopped(h) PROVE Mapped
    <2>1. isClosing
      BY <1>3 DEF CloseStopped, IInv, CloserInv
    <2>2. Restart!TearDown(h)
      BY <1>3, <2>1 DEF CloseStopped, Restart!TearDown, Failed
    <2> QED BY <2>2 DEF Restart!Next
  <1>4. ASSUME NEW g \in Groups, CloseFailed(g) PROVE Mapped
    <2>1. Restart!TearDown(g)
      BY <1>4 DEF CloseFailed, Restart!TearDown, Failed
    <2> QED BY <2>1 DEF Restart!Next
  <1>5. ASSUME NEW g \in Groups, NEW h \in Groups, CloseOther(g, h)
        PROVE  Mapped
    <2>1. allShardsReady[g] /\ g # h
      BY <1>5 DEF CloseOther, IInv, WaiterInv, CloserInv
    <2>2. floodgate' = floodgate
      BY <1>5 DEF CloseOther, IInv, WaiterInv, TypeOK
    <2>3. g \in readySet \ {h}
      BY <2>1 DEF readySet
    <2>4. Restart!TearDown(h)
      BY <1>5, <2>2, <2>3 DEF CloseOther, Restart!TearDown, Failed, readySet
    <2> QED BY <2>4 DEF Restart!Next
  <1>6. ASSUME NEW c \in Closers, LeaveClose(c) PROVE Mapped
    <2>1. closing[c] \in Groups /\ closing[c] \in closeBegun
      BY <1>6, <1>a DEF LeaveClose, IInv, CloserInv, TypeOK
    <2>2. c = closing[c] => opener[c] = "failing"
      BY <1>6, <2>1 DEF IInv, CloserInv
    <2>3. failedSet' = failedSet
      BY <1>6, <1>a, <2>1, <2>2 DEF LeaveClose, failedSet, Failed, TypeOK
    <2>4. Restart!Retire(closing[c])
      BY <1>6, <2>1, <2>3 DEF LeaveClose, Restart!Retire, failedSet
    <2> QED BY <2>1, <2>4 DEF Restart!Next
  <1>7. ASSUME NEW g \in Groups, opener[g] \in {"created", "connectFirst"},
               failedSet' = failedSet \cup {g},
               UNCHANGED <<groups, readyVars, closeVars, isClosing>>
        PROVE  Mapped
    <2>1. g \in groups \ readySet
      BY <1>7 DEF IInv, MapInv, WaiterInv, readySet
    <2>2. Restart!Fail(g)
      BY <1>7, <2>1 DEF Restart!Fail, failedSet, readySet
    <2> QED BY <2>2 DEF Restart!Next
  <1>8. ASSUME NEW g \in Groups, FailFirst(g) PROVE Mapped
    <2>1. CASE opener' = opener
      BY <1>8, <2>1, QuietStutters DEF FailFirst, Quiet, Failed
    <2>2. CASE opener' = [opener EXCEPT ![g] = "failing"]
      <3>1. failedSet' = failedSet \cup {g}
        BY <2>2, <1>a DEF failedSet, Failed, TypeOK
      <3> QED BY <1>8, <3>1, <1>7 DEF FailFirst
    <2> QED BY <1>8, <2>1, <2>2 DEF FailFirst
  <1>9. ASSUME NEW g \in Groups, MissingShards(g) PROVE Mapped
    <2>1. failedSet' = failedSet \cup {g}
      BY <1>9, <1>a DEF MissingShards, failedSet, Failed, TypeOK
    <2> QED BY <1>9, <2>1, <1>7 DEF MissingShards
  <1>10. ASSUME NEW g \in Groups, ReturnError(g) PROVE Mapped
    <2>1. g \in failedSet
      BY <1>10 DEF ReturnError, Failed, failedSet
    <2>2. failedSet' = failedSet
      BY <1>10, <1>a DEF ReturnError, Failed, failedSet, TypeOK
    <2>3. CASE groups' = groups
      BY <1>10, <2>2, <2>3
         DEF ReturnError, Restart!vars, failedSet
    <2>4. CASE groups' = groups \ {g}
      <3>1. Restart!Leave(g)
        BY <1>10, <2>1, <2>2, <2>4 DEF ReturnError, Restart!Leave, failedSet
      <3> QED BY <3>1 DEF Restart!Next
    <2> QED BY <1>10, <2>3, <2>4 DEF ReturnError
  <1>11. ASSUME NEW g \in Groups, BeginTakeover(g) PROVE Mapped
    <2>1. opener[g] = "returned"
      BY <1>11 DEF BeginTakeover, IInv, WaiterInv
    <2>2. g \in groups \ failedSet
      BY <2>1 DEF IInv, MapInv, failedSet, Failed
    <2>3. readySet' = readySet \cup {g}
      BY <1>11, <1>a DEF BeginTakeover, readySet, TypeOK
    <2>4. Restart!Complete(g)
      BY <1>11, <2>2, <2>3
         DEF BeginTakeover, Restart!Complete, readySet, failedSet, Failed
    <2> QED BY <2>4 DEF Restart!Next
  <1>12. ASSUME NEW g \in Groups, OpenFloodgate(g) PROVE Mapped
    <2>1. g \in readySet
      BY <1>12 DEF OpenFloodgate, IInv, WaiterInv, readySet
    <2>2. \A h \in groups : h < g => h \in closeDone
      BY <1>12, <2>1, <1>a, SMTT(60)
         DEF OpenFloodgate, IInv, TakeoverInv, readySet, TypeOK
    <2>3. servingSet' = servingSet \cup {g}
      BY <1>12, <1>a DEF OpenFloodgate, servingSet, TypeOK
    <2>4. Restart!Serve(g)
      BY <1>12, <2>1, <2>2, <2>3
         DEF OpenFloodgate, Restart!Serve, servingSet, readySet, Failed
    <2> QED BY <2>4 DEF Restart!Next
  <1>13. ASSUME Quiet PROVE Mapped
    BY <1>13, QuietStutters
  <1>14. ASSUME NEW g \in Groups, OpenStep(g) PROVE Mapped
    <2>1. ASSUME \/ BeginOpen(g) \/ MarkForClosure(g) \/ CreateShards(g)
                 \/ StartConnecting(g) \/ ConnectRest(g) \/ ReturnOpen(g)
                 \/ \E h \in Groups : VisitGroup(g, h)
          PROVE  Quiet
      BY <2>1, <1>a, SMTT(60)
         DEF BeginOpen, MarkForClosure, CreateShards, StartConnecting,
             ConnectRest, ReturnOpen, VisitGroup, Quiet, Failed, TypeOK
    <2> QED BY <1>14, <2>1, <1>4, <1>9, <1>10, <1>13 DEF OpenStep
  <1>15. ASSUME NEW g \in Groups, WaiterStep(g) PROVE Mapped
    <2>1. WaitForReady(g) => Quiet
      BY DEF WaitForReady, Quiet, Failed
    <2> QED BY <1>15, <2>1, <1>5, <1>11, <1>12, <1>13 DEF WaiterStep
  <1>16. ASSUME NEW g \in Groups, ConnectFailure(g) PROVE Mapped
    <2>1. ASSUME NEW s \in Shards,
                 FailOther(g, s) \/ FailReconnect(g, s) \/ LoseConnection(g, s)
          PROVE  Quiet
      BY <2>1 DEF FailOther, FailReconnect, LoseConnection, Quiet, Failed
    <2> QED BY <1>16, <2>1, <1>8, <1>13 DEF ConnectFailure
  <1>17. ASSUME NEW c \in Closers, CloseStep(c) PROVE Mapped
    <2>1. ASSUME NEW s \in Shards, ClearToClose(c, s) \/ CloseShard(c, s)
          PROVE  Quiet
      BY <2>1 DEF ClearToClose, CloseShard, Quiet, Failed
    <2> QED BY <1>17, <2>1, <1>6, <1>13 DEF CloseStep
  <1>18. ASSUME NEW g \in Groups, NEW s \in Shards,
                \/ BeginConnect(g, s) \/ EndConnect(g, s) \/ BecomeReady(g, s)
                \/ BeginReconnect(g, s) \/ EndReconnect(g, s)
                \/ ClearReady(g, s) \/ StaleReady(g, s)
         PROVE  Quiet
    BY <1>18 DEF BeginConnect, EndConnect, BecomeReady, BeginReconnect,
                 EndReconnect, ClearReady, StaleReady, Quiet, Failed
  <1>19. CASE UNCHANGED vars
    <2>1. Quiet
      BY <1>19 DEF Quiet, Failed
    <2> QED BY <2>1, <1>13
  <1>20. ASSUME Next PROVE Mapped
    BY <1>20, <1>1, <1>2, <1>3, <1>13, <1>14, <1>15, <1>16, <1>17, <1>18
       DEF Next
  <1> QED BY <1>19, <1>20

\* The code's interleaved opens, takeovers, failures and stops are a rolling
\* restart as RollingRestart describes it.
THEOREM Implements == Spec => ImplementsRollingRestart
  <1>1. Init => Restart!Init
    BY DEF Init, Restart!Init, Failed
  <1> QED BY <1>1, RefinementStep, Inductive, PTL
          DEF Spec, ImplementsRollingRestart, Restart!Spec

-----------------------------------------------------------------------------
(* The shards of the groups keep to ShardLife.                             *)

\* A group at rest: neither where its open stands nor what it connects changes.
Rests(f) == /\ shardIDs'[f] = shardIDs[f] /\ opener'[f] = opener[f]
            /\ connecting'[f] = connecting[f]

\* What nobody touches stays.
LEMMA PartKept ==
    ASSUME TypeOK, NEW g \in Groups, ConnectPart(g), Rests(g), shard'[g] = shard[g]
    PROVE  ConnectPart(g)'
  BY DEF ConnectPart, Rests, IDs, FirstShard

\* The connection of one shard changes: of one being connected within its Connect
\* call, of another only where it had one.
LEMMA PartMoves ==
    ASSUME TypeOK, NEW g \in Groups, NEW s \in Shards, ConnectPart(g), Rests(g),
           \A r \in Shards \ {s} : shard'[g][r] = shard[g][r],
           \/ s \in connecting[g] /\ shard'[g][s] \in {"down", "dialing", "aborted"}
           \/ s \notin connecting[g] /\ shard[g][s] \notin {"none", "down"}
           \/ shard'[g][s] = shard[g][s]
    PROVE  ConnectPart(g)'
  <1>1. CASE s \in connecting[g] /\ shard'[g][s] \in {"down", "dialing", "aborted"}
    <2>1. \A i \in 2..Len(shardIDs[g]) : opener[g] = "connectFirst" => shardIDs[g][i] # s
      <3>1. shardIDs[g] \in Seq(Shards)
        BY DEF TypeOK
      <3>2. ASSUME NEW i \in 2..Len(shardIDs[g]), opener[g] = "connectFirst"
            PROVE  shardIDs[g][i] # s
        <4>1. s = shardIDs[g][1] /\ i # 1 /\ i \in DOMAIN shardIDs[g] /\ 1 \in DOMAIN shardIDs[g]
          BY <1>1, <3>1, <3>2 DEF ConnectPart, FirstShard
        <4> QED BY <4>1 DEF ConnectPart
      <3> QED BY <3>2
    <2>2. /\ \A i \in 2..Len(shardIDs[g]) : shardIDs[g][i] \in Shards
          /\ connecting[g] \subseteq Shards
      BY IDsTyped DEF TypeOK
    <2> QED BY <1>1, <2>1, <2>2 DEF ConnectPart, Rests, IDs, FirstShard
  <1>2. CASE s \notin connecting[g] /\ shard[g][s] \notin {"none", "down"}
    <2>1. /\ \A i \in 2..Len(shardIDs[g]) : shardIDs[g][i] \in Shards
          /\ connecting[g] \subseteq Shards
          /\ IDs(g) \subseteq Shards
      BY IDsTyped DEF TypeOK
    <2> QED BY <1>2, <2>1 DEF ConnectPart, Rests, IDs, FirstShard
  <1>3. CASE shard'[g][s] = shard[g][s]
    <2>1. /\ \A i \in 2..Len(shardIDs[g]) : shardIDs[g][i] \in Shards
          /\ connecting[g] \subseteq Shards
          /\ IDs(g) \subseteq Shards
      BY IDsTyped DEF TypeOK
    <2> QED BY <1>3, <2>1 DEF ConnectPart, Rests, IDs, FirstShard
  <1> QED BY <1>1, <1>2, <1>3

\* ConnectPart through the steps of the group's own Open, and through every step
\* of another group's.
LEMMA OpenConnects ==
    ASSUME IInv, NEW g \in Groups, NEW f \in Groups, ConnectPart(f),
           OpenStep(g) \/ FailFirst(g)
    PROVE  ConnectPart(f)'
  <1> USE DEF IInv, TypeOK
  <1>0. /\ shardIDs[f] \in Seq(Shards)
        /\ \A i \in DOMAIN shardIDs[f] : shardIDs[f][i] \in Shards
        /\ connecting[f] \subseteq Shards /\ IDs(f) \subseteq Shards
    BY IDsTyped
  <1>1. ASSUME \/ BeginOpen(g) \/ MissingShards(g) \/ ReturnOpen(g) \/ ReturnError(g)
               \/ MarkForClosure(g) \/ CloseFailed(g)
               \/ \E h \in Groups : VisitGroup(g, h)
        PROVE  ConnectPart(f)'
    <2>1. UNCHANGED <<shardIDs, connecting, shard>>
      BY <1>1 DEF BeginOpen, MissingShards, ReturnOpen, ReturnError, MarkForClosure,
                  CloseFailed, VisitGroup
    <2>2. \/ opener'[f] = opener[f]
          \/ opener[f] = "scaled" /\ opener'[f] = "marking"
          \/ /\ opener[f] \in {"created", "connectRest", "error"}
             /\ connecting[f] = {}
             /\ opener'[f] \in {"error", "returned", "failed"}
      BY <1>1 DEF BeginOpen, MissingShards, ReturnOpen, ReturnError, MarkForClosure,
                  CloseFailed, VisitGroup, ConnectPart
    <2> QED BY <2>1, <2>2 DEF ConnectPart, IDs, FirstShard
  <1>2. CASE CreateShards(g)
    BY <1>0, <1>2 DEF CreateShards, ConnectPart, IDs, FirstShard
  <1>3. CASE StartConnecting(g)
    BY <1>0, <1>3 DEF StartConnecting, ConnectPart, IDs, FirstShard
  <1>4. CASE ConnectRest(g)
    BY <1>0, <1>4 DEF ConnectRest, ConnectPart, IDs, FirstShard
  <1>5. CASE FailFirst(g)
    BY <1>0, <1>5 DEF FailFirst, SetShard, ConnectPart, IDs, FirstShard
  <1> QED BY <1>1, <1>2, <1>3, <1>4, <1>5 DEF OpenStep

\* ConnectPart through what happens to a shard, whoever does it.
LEMMA ShardConnects ==
    ASSUME TypeOK, NEW g \in Groups, NEW s \in Shards, NEW f \in Groups, ConnectPart(f),
           \/ BeginConnect(g, s) \/ EndConnect(g, s) \/ BecomeReady(g, s)
           \/ BeginReconnect(g, s) \/ EndReconnect(g, s) \/ FailReconnect(g, s)
           \/ FailOther(g, s) \/ LoseConnection(g, s)
           \/ ClearReady(g, s) \/ StaleReady(g, s)
    PROVE  ConnectPart(f)'
  <1> USE DEF TypeOK
  <1>1. CASE EndConnect(g, s)
    <2>1. connecting'[f] \subseteq connecting[f] /\ (f = g => s \notin connecting'[f])
      BY <1>1 DEF EndConnect
    <2>2. \A r \in Shards : <<f, r>> # <<g, s>> => shard'[f][r] = shard[f][r]
      BY <1>1 DEF EndConnect, SetShard
    <2>3. shardIDs' = shardIDs /\ opener' = opener
      BY <1>1 DEF EndConnect
    <2>4. f = g => opener[f] \in {"connectFirst", "connectRest"}
      BY <1>1 DEF EndConnect, ConnectPart
    <2>5. /\ \A i \in DOMAIN shardIDs[f] : shardIDs[f][i] \in Shards
          /\ connecting[f] \subseteq Shards /\ IDs(f) \subseteq Shards
      BY IDsTyped
    <2>6. f = g /\ opener[f] = "connectFirst" =>
             \A i \in 2..Len(shardIDs[f]) : shardIDs[f][i] # s
      BY <1>1, <2>5 DEF EndConnect, ConnectPart, FirstShard
    <2> QED BY <2>1, <2>2, <2>3, <2>4, <2>5, <2>6 DEF ConnectPart, IDs, FirstShard
  <1>2. ASSUME ~EndConnect(g, s)
        PROVE  ConnectPart(f)'
    <2>1. Rests(f)
      BY <1>2 DEF BeginConnect, BecomeReady, BeginReconnect, EndReconnect, FailReconnect,
         FailOther, LoseConnection, ClearReady, StaleReady, Rests
    <2>2. \A r \in Shards : <<f, r>> # <<g, s>> => shard'[f][r] = shard[f][r]
      BY <1>2 DEF BeginConnect, BecomeReady, BeginReconnect, EndReconnect, FailReconnect,
         FailOther, LoseConnection, ClearReady, StaleReady, SetShard
    <2>3. f = g =>
           \/ s \in connecting[f] /\ shard'[f][s] \in {"down", "dialing", "aborted"}
           \/ shard[f][s] \in {"live", "lost", "redialing"}
           \/ shard'[f][s] = shard[f][s]
      BY <1>2 DEF BeginConnect, BecomeReady, BeginReconnect, EndReconnect, FailReconnect,
         FailOther, LoseConnection, ClearReady, StaleReady, SetShard
    <2>4. shard[f][s] \in {"live", "lost", "redialing"} => s \notin connecting[f]
      BY DEF ConnectPart
    <2> HIDE DEF TypeOK
    <2>5. CASE f = g
      BY <2>1, <2>2, <2>3, <2>4, <2>5, PartMoves
    <2>6. CASE f # g
      <3>1. shard'[f][s] = shard[f][s]
        BY <2>2, <2>6
      <3> QED BY <2>1, <2>2, <2>6, <3>1, PartMoves
    <2> QED BY <2>5, <2>6
  <1> QED BY <1>1, <1>2

\* ConnectInv is kept by every step.
LEMMA ConnectStep == IInv /\ ConnectInv /\ [Next]_vars => ConnectInv'
  <1> SUFFICES ASSUME IInv, [Next]_vars, NEW f \in Groups, ConnectPart(f)
               PROVE  ConnectPart(f)'
    BY DEF ConnectInv
  <1>0. TypeOK
    BY DEF IInv
  <1>1. ASSUME NEW ids \in Layouts, Scale(ids) PROVE ConnectPart(f)'
    <2>1. /\ shardGroupCounter + 1 \in Groups
          /\ opener[shardGroupCounter + 1] = "none"
      BY <1>0, <1>1, ConstantsAssumption DEF Scale, IInv, MapInv, TypeOK, Groups
    <2>2. \A i, j \in DOMAIN ids : ids[i] = ids[j] => i = j
      BY ConstantsAssumption
    <2> QED BY <1>0, <1>1, <2>1, <2>2 DEF Scale, TypeOK, ConnectPart, IDs, FirstShard
  <1>2. CASE \E g \in Groups : OpenStep(g) \/ FailFirst(g)
    BY <1>2, OpenConnects
  <1>3. ASSUME NEW g \in Groups, NEW s \in Shards,
               \/ BeginConnect(g, s) \/ EndConnect(g, s) \/ BecomeReady(g, s)
               \/ BeginReconnect(g, s) \/ EndReconnect(g, s) \/ FailReconnect(g, s)
               \/ FailOther(g, s) \/ LoseConnection(g, s)
               \/ ClearReady(g, s) \/ StaleReady(g, s)
        PROVE  ConnectPart(f)'
    BY <1>0, <1>3, ShardConnects
  <1>4. ASSUME NEW c \in Closers, NEW s \in Shards, CloseShard(c, s)
        PROVE  ConnectPart(f)'
    <2>1. Rests(f) /\ closing[c] \in Groups
      BY <1>0, <1>4 DEF CloseShard, Rests, TypeOK
    <2>2. \A r \in Shards \ {s} : shard'[f][r] = shard[f][r]
      <3>1. CASE SetShard(closing[c], s, "closed")
        BY <1>0, <2>1, <3>1 DEF SetShard, TypeOK
      <3>2. CASE SetShard(closing[c], s, "aborted")
        BY <1>0, <2>1, <3>2 DEF SetShard, TypeOK
      <3>3. CASE UNCHANGED shard
        BY <3>3
      <3> QED BY <1>4, <3>1, <3>2, <3>3 DEF CloseShard
    <2>3. \/ shard'[f][s] = shard[f][s]
          \/ shard[f][s] = "live"
          \/ shard[f][s] = "dialing" /\ shard'[f][s] = "aborted"
      <3>1. CASE shard[closing[c]][s] = "live" /\ SetShard(closing[c], s, "closed")
        BY <1>0, <2>1, <3>1 DEF SetShard, TypeOK
      <3>2. CASE shard[closing[c]][s] = "dialing" /\ SetShard(closing[c], s, "aborted")
        BY <1>0, <2>1, <3>2 DEF SetShard, TypeOK
      <3>3. CASE UNCHANGED shard
        BY <3>3
      <3> QED BY <1>4, <3>1, <3>2, <3>3 DEF CloseShard
    <2>4. shard[f][s] = "live" => s \notin connecting[f]
      BY DEF ConnectPart
    <2> QED BY <1>0, <2>1, <2>2, <2>3, <2>4, PartMoves
  <1>5. ASSUME UNCHANGED <<shardIDs, connecting, shard>>,
               opener'[f] = opener[f] \/ (opener[f] = "failing" /\ opener'[f] = "error")
        PROVE  ConnectPart(f)'
    BY <1>5 DEF ConnectPart, IDs, FirstShard
  <1>6. ASSUME NEW c \in Closers, LeaveClose(c) PROVE ConnectPart(f)'
    <2>1. \A h \in Groups : closing[h] = h => opener[h] = "failing"
      BY DEF IInv, CloserInv
    <2>2. opener'[f] = opener[f] \/ (opener[f] = "failing" /\ opener'[f] = "error")
      <3>1. closing[c] \in Groups
        BY <1>0, <1>6 DEF LeaveClose, TypeOK
      <3>2. CASE opener' = opener
        BY <3>2
      <3>3. CASE c = closing[c] /\ opener' = [opener EXCEPT ![c] = "error"]
        BY <1>0, <2>1, <3>1, <3>3 DEF TypeOK
      <3> QED BY <1>6, <3>2, <3>3 DEF LeaveClose
    <2> QED BY <1>5, <1>6, <2>2 DEF LeaveClose
  <1>7. ASSUME \/ Stop \/ \E h \in Groups : CloseStopped(h)
               \/ \E g \in Groups : WaiterStep(g)
               \/ \E c \in Closers, s \in Shards : ClearToClose(c, s)
               \/ UNCHANGED vars
        PROVE  ConnectPart(f)'
    <2>1. UNCHANGED <<shardIDs, connecting, shard, opener>>
      <3>1. ASSUME NEW g \in Groups, WaiterStep(g)
            PROVE  UNCHANGED <<shardIDs, connecting, shard, opener>>
        <4>1. CASE WaitForReady(g)
          BY <4>1 DEF WaitForReady
        <4>2. CASE BeginTakeover(g) \/ OpenFloodgate(g)
          BY <4>2 DEF BeginTakeover, OpenFloodgate
        <4>3. CASE \E h \in Groups : CloseOther(g, h)
          BY <4>3 DEF CloseOther
        <4> QED BY <3>1, <4>1, <4>2, <4>3 DEF WaiterStep
      <3>2. CASE Stop \/ \E h \in Groups : CloseStopped(h)
        BY <3>2 DEF Stop, CloseStopped
      <3>3. CASE \E c \in Closers, s \in Shards : ClearToClose(c, s)
        BY <3>3 DEF ClearToClose
      <3>4. CASE UNCHANGED vars
        BY <3>4
      <3> QED BY <1>7, <3>1, <3>2, <3>3, <3>4
    <2> QED BY <2>1, <1>5
  <1> QED BY <1>1, <1>2, <1>3, <1>4, <1>6, <1>7 DEF Next, ConnectFailure, CloseStep

\* Whether some closer still has to close a shard, and the connection of it that
\* a group knows before and after NewShard.
BeingClosed(g, s) == \E c \in Closers : closing[c] = g /\ s \in pending[c]

Line(g, s) == IF shard[g][s] = "none" THEN "down" ELSE shard[g][s]

\* A step that changes nothing of a shard, but that NewShard made it, is no step
\* of its life.
LEMMA Unseen ==
    ASSUME NEW f \in Groups, NEW r \in Shards,
           Line(f, r)' = Line(f, r),
           isReady'[f][r] = isReady[f][r],
           r \in everReady'[f] <=> r \in everReady[f],
           BeingClosed(f, r)' <=> BeingClosed(f, r)
    PROVE  LifeStep(f, r)
  <1>1. UNCHANGED Life(f, r)!vars
    BY DEF Life!vars, Line, BeingClosed
  <1> QED BY <1>1 DEF LifeStep

\* Nor one that leaves its connection, its readiness and all closers alone.
LEMMA OthersUnseen ==
    ASSUME NEW f \in Groups, NEW r \in Shards,
           shard'[f][r] = shard[f][r],
           isReady'[f][r] = isReady[f][r],
           everReady'[f] = everReady[f],
           UNCHANGED <<closing, pending>>
    PROVE  LifeStep(f, r)
  <1>1. Line(f, r)' = Line(f, r) /\ (BeingClosed(f, r)' <=> BeingClosed(f, r))
    BY DEF Line, BeingClosed
  <1> QED BY <1>1, Unseen

\* What the group and the shard itself do to its connection.
LEMMA Moves ==
    ASSUME NEW g \in Groups, NEW s \in Shards, UNCHANGED <<closing, pending>>,
           isReady'[g][s] = isReady[g][s], everReady'[g] = everReady[g],
           \/ shard[g][s] = "none" /\ shard'[g][s] = "down"
           \/ shard[g][s] = "down" /\ shard'[g][s] = "dialing"
           \/ shard[g][s] = "dialing" /\ shard'[g][s] = "live"
           \/ shard[g][s] = "aborted" /\ shard'[g][s] = "closed"
           \/ shard[g][s] \in {"dialing", "aborted"} /\ shard'[g][s] = "down"
           \/ shard[g][s] = "live" /\ shard'[g][s] = "lost"
           \/ shard[g][s] = "lost" /\ shard'[g][s] = "redialing"
           \/ shard[g][s] = "redialing" /\ shard'[g][s] \in {"live", "lost"}
    PROVE  LifeStep(g, s)
  <1>0. BeingClosed(g, s)' <=> BeingClosed(g, s)
    BY DEF BeingClosed
  <1>1. CASE shard[g][s] = "none" /\ shard'[g][s] = "down"
    <2>1. Line(g, s)' = Line(g, s)
      BY <1>1 DEF Line
    <2> QED BY <1>0, <2>1, Unseen
  <1>2. ASSUME NEW from, NEW to, shard[g][s] \in from, "none" \notin from,
               shard'[g][s] = to, to # "none"
        PROVE  Life(g, s)!Move(from, to)
    BY <1>0, <1>2 DEF Life!Move, BeingClosed
  <1>3. CASE shard[g][s] = "down" /\ shard'[g][s] = "dialing"
    <2>1. Life(g, s)!BeginConnect
      BY <1>2, <1>3 DEF Life!BeginConnect
    <2> QED BY <2>1 DEF LifeStep, Life!Next
  <1>4. CASE \/ shard[g][s] = "dialing" /\ shard'[g][s] = "live"
             \/ shard[g][s] = "aborted" /\ shard'[g][s] = "closed"
    <2>1. Life(g, s)!EndConnect
      BY <1>2, <1>4 DEF Life!EndConnect
    <2> QED BY <2>1 DEF LifeStep, Life!Next
  <1>5. CASE shard[g][s] \in {"dialing", "aborted"} /\ shard'[g][s] = "down"
    <2>1. Life(g, s)!FailConnect
      BY <1>2, <1>5 DEF Life!FailConnect
    <2> QED BY <2>1 DEF LifeStep, Life!Next
  <1>6. CASE shard[g][s] = "live" /\ shard'[g][s] = "lost"
    <2>1. Life(g, s)!LoseConnection
      BY <1>2, <1>6 DEF Life!LoseConnection
    <2> QED BY <2>1 DEF LifeStep, Life!Next
  <1>7. CASE shard[g][s] = "lost" /\ shard'[g][s] = "redialing"
    <2>1. Life(g, s)!BeginReconnect
      BY <1>2, <1>7 DEF Life!BeginReconnect
    <2> QED BY <2>1 DEF LifeStep, Life!Next
  <1>8. CASE shard[g][s] = "redialing" /\ shard'[g][s] = "live"
    <2>1. Life(g, s)!EndReconnect
      BY <1>2, <1>8 DEF Life!EndReconnect
    <2> QED BY <2>1 DEF LifeStep, Life!Next
  <1>9. CASE shard[g][s] = "redialing" /\ shard'[g][s] = "lost"
    <2>1. Life(g, s)!FailReconnect
      BY <1>2, <1>9 DEF Life!FailReconnect
    <2> QED BY <2>1 DEF LifeStep, Life!Next
  <1> QED BY <1>1, <1>3, <1>4, <1>5, <1>6, <1>7, <1>8, <1>9

\* A step that changes the connection of one shard and nothing else of any.
LEMMA ConnectionLives ==
    ASSUME TypeOK, ConnectInv, NEW g \in Groups, NEW s \in Shards,
           \/ BeginConnect(g, s) \/ EndConnect(g, s)
           \/ BeginReconnect(g, s) \/ EndReconnect(g, s) \/ FailReconnect(g, s)
           \/ FailFirst(g) /\ s = FirstShard(g)
           \/ FailOther(g, s) \/ LoseConnection(g, s),
           NEW f \in Groups, NEW r \in Shards
    PROVE  LifeStep(f, r)
  <1> USE DEF TypeOK, SetShard
  <1>1. UNCHANGED <<closing, pending, isReady, everReady>>
    BY DEF BeginConnect, EndConnect, BeginReconnect, EndReconnect, FailReconnect, FailFirst,
       FailOther, LoseConnection
  <1>2. shard' = [shard EXCEPT ![g][s] = shard'[g][s]]
    BY DEF BeginConnect, EndConnect, BeginReconnect, EndReconnect, FailReconnect, FailFirst,
       FailOther, LoseConnection
  <1>3. CASE f # g \/ r # s
    <2>1. shard'[f][r] = shard[f][r]
      BY <1>2, <1>3
    <2> QED BY <1>1, <2>1, OthersUnseen
  <1>4. CASE f = g /\ r = s
    <2>1. \/ shard[g][s] = "down" /\ shard'[g][s] = "dialing"
          \/ shard[g][s] = "dialing" /\ shard'[g][s] = "live"
          \/ shard[g][s] = "aborted" /\ shard'[g][s] = "closed"
          \/ shard[g][s] \in {"dialing", "aborted"} /\ shard'[g][s] = "down"
          \/ shard[g][s] = "live" /\ shard'[g][s] = "lost"
          \/ shard[g][s] = "lost" /\ shard'[g][s] = "redialing"
          \/ shard[g][s] = "redialing" /\ shard'[g][s] \in {"live", "lost"}
      <3>1. CASE BeginConnect(g, s)
        BY <3>1 DEF BeginConnect, ConnectInv, ConnectPart
      <3>2. CASE EndConnect(g, s)
        BY <3>2 DEF EndConnect
      <3>3. CASE BeginReconnect(g, s) \/ EndReconnect(g, s) \/ FailReconnect(g, s)
        BY <3>3 DEF BeginReconnect, EndReconnect, FailReconnect
      <3>4. CASE FailFirst(g) /\ s = FirstShard(g)
        BY <3>4 DEF FailFirst
      <3>5. CASE FailOther(g, s) \/ LoseConnection(g, s)
        BY <3>5 DEF FailOther, LoseConnection
      <3> QED BY <3>1, <3>2, <3>3, <3>4, <3>5
    <2> HIDE DEF TypeOK, SetShard
    <2> QED BY <1>1, <1>4, <2>1, Moves
  <1> QED BY <1>3, <1>4

\* A step that changes the readiness of one shard and nothing else of any.
LEMMA ReadinessLives ==
    ASSUME TypeOK, NEW g \in Groups, NEW s \in Shards,
           \/ BecomeReady(g, s) \/ ClearReady(g, s) \/ StaleReady(g, s)
           \/ \E c \in Closers : ClearToClose(c, s) /\ closing[c] = g,
           NEW f \in Groups, NEW r \in Shards
    PROVE  LifeStep(f, r)
  <1> USE DEF TypeOK
  <1>1. UNCHANGED <<closing, pending, shard>>
    BY DEF BecomeReady, ClearReady, StaleReady, ClearToClose
  <1>2. CASE f # g \/ r # s
    <2>1. isReady'[f][r] = isReady[f][r] /\ (r \in everReady'[f] <=> r \in everReady[f])
      <3>1. CASE BecomeReady(g, s)
        BY <1>2, <3>1 DEF BecomeReady
      <3>2. CASE ClearReady(g, s) \/ StaleReady(g, s)
        BY <1>2, <3>2 DEF ClearReady, StaleReady
      <3>3. ASSUME NEW c \in Closers, ClearToClose(c, s), closing[c] = g
            PROVE  isReady'[f][r] = isReady[f][r] /\ everReady' = everReady
        <4>1. everReady' = everReady /\ isReady' = [isReady EXCEPT ![g][s] = FALSE]
          BY <3>3 DEF ClearToClose
        <4> QED BY <1>2, <4>1
      <3> QED BY <3>1, <3>2, <3>3
    <2>2. Line(f, r)' = Line(f, r) /\ (BeingClosed(f, r)' <=> BeingClosed(f, r))
      BY <1>1 DEF Line, BeingClosed
    <2> QED BY <2>1, <2>2, Unseen
  <1>3. CASE f = g /\ r = s
    <2>0. BeingClosed(g, s)' <=> BeingClosed(g, s)
      BY <1>1 DEF BeingClosed
    <2>1. CASE BecomeReady(g, s)
      <3>1. isReady'[g][s] = TRUE /\ s \in everReady'[g] /\ shard[g][s] \in {"live", "closed"}
        BY <2>1 DEF BecomeReady
      <3>2. Life(g, s)!BecomeReady
        BY <1>1, <2>0, <3>1 DEF Life!BecomeReady, BeingClosed
      <3> QED BY <1>3, <3>2 DEF LifeStep, Life!Next
    <2>2. CASE StaleReady(g, s)
      <3>1. /\ isReady'[g][s] = TRUE /\ everReady' = everReady /\ s \in everReady[g]
            /\ shard[g][s] = "lost"
        BY <2>2 DEF StaleReady
      <3>2. Life(g, s)!StaleReady
        BY <1>1, <2>0, <3>1 DEF Life!StaleReady, BeingClosed
      <3> QED BY <1>3, <3>2 DEF LifeStep, Life!Next
    <2>3. CASE ClearReady(g, s) \/ \E c \in Closers : ClearToClose(c, s) /\ closing[c] = g
      <3>1. isReady'[g][s] = FALSE /\ everReady' = everReady
        <4>1. CASE ClearReady(g, s)
          BY <4>1 DEF ClearReady
        <4>2. ASSUME NEW c \in Closers, ClearToClose(c, s), closing[c] = g
              PROVE  isReady'[g][s] = FALSE /\ everReady' = everReady
          BY <4>2 DEF ClearToClose
        <4> QED BY <2>3, <4>1, <4>2
      <3>2. BeingClosed(g, s) \/ shard[g][s] \in {"lost", "redialing", "closed"}
        BY <2>3 DEF ClearReady, ClearToClose, BeingClosed
      <3>3. Life(g, s)!ClearReady
        BY <1>1, <2>0, <3>1, <3>2 DEF Life!ClearReady, BeingClosed
      <3> QED BY <1>3, <3>3 DEF LifeStep, Life!Next
    <2>4. \/ BecomeReady(g, s) \/ ClearReady(g, s) \/ StaleReady(g, s)
          \/ \E c \in Closers : ClearToClose(c, s) /\ closing[c] = g
      OBVIOUS
    <2> QED BY <2>1, <2>2, <2>3, <2>4
  <1> QED BY <1>2, <1>3


\* Close of one shard is a CloseShard of its life, and no step of another's.
LEMMA CloseLives ==
    ASSUME TypeOK, NEW c \in Closers, NEW s \in Shards, CloseShard(c, s),
           NEW f \in Groups, NEW r \in Shards
    PROVE  LifeStep(f, r)
  <1> DEFINE h == closing[c]
  <1> USE DEF TypeOK
  <1>1. h \in Groups /\ s \in pending[c]
    BY DEF CloseShard
  <1>2. /\ UNCHANGED <<closing, isReady, everReady>>
        /\ \A d \in Closers \ {c} : pending'[d] = pending[d]
        /\ pending'[c] = pending[c] \ {s}
    BY DEF CloseShard
  <1>3. CASE f # h \/ r # s
    <2>1. shard'[f][r] = shard[f][r]
      <3>1. CASE SetShard(h, s, "closed")
        BY <1>1, <1>3, <3>1 DEF SetShard
      <3>2. CASE SetShard(h, s, "aborted")
        BY <1>1, <1>3, <3>2 DEF SetShard
      <3>3. CASE UNCHANGED shard
        BY <3>3
      <3> QED BY <3>1, <3>2, <3>3 DEF CloseShard
    <2>2. BeingClosed(f, r)' <=> BeingClosed(f, r)
      <3> HIDE DEF TypeOK
      <3>1. \A d \in Closers : closing[d] = f => (r \in pending'[d] <=> r \in pending[d])
        BY <1>2, <1>3
      <3> QED BY <1>2, <3>1 DEF BeingClosed
    <2>3. Line(f, r)' = Line(f, r)
      BY <2>1 DEF Line
    <2> QED BY <1>2, <2>2, <2>3, Unseen
  <1>4. CASE f = h /\ r = s
    <2>1. BeingClosed(f, r)
      BY <1>1, <1>4 DEF BeingClosed
    <2>2. \/ shard[f][r] = "live" /\ shard'[f][r] = "closed"
          \/ shard[f][r] = "dialing" /\ shard'[f][r] = "aborted"
          \/ shard[f][r] # "live" /\ shard'[f][r] = shard[f][r]
      <3>1. CASE shard[h][s] = "live" /\ SetShard(h, s, "closed")
        BY <1>1, <1>4, <3>1 DEF SetShard
      <3>2. CASE shard[h][s] = "dialing" /\ SetShard(h, s, "aborted")
        BY <1>1, <1>4, <3>2 DEF SetShard
      <3>3. CASE shard[h][s] # "live" /\ UNCHANGED shard
        BY <1>4, <3>3
      <3> QED BY <3>1, <3>2, <3>3 DEF CloseShard
    <2>3. Line(f, r) # "live" => shard[f][r] # "live"
      BY DEF Line
    <2> HIDE DEF TypeOK
    <2>4. Life(f, r)!CloseShard
      BY <1>2, <2>1, <2>2 DEF Life!CloseShard, BeingClosed
    <2> QED BY <2>4 DEF LifeStep, Life!Next
  <1> QED BY <1>3, <1>4

\* Entering Close begins to close all shards of a group and no other.
LEMMA EnterLives ==
    ASSUME TypeOK, NEW c \in Closers, NEW h \in Groups, EnterClose(c, h),
           closing[c] = None, UNCHANGED shardVars,
           NEW f \in Groups, NEW r \in Shards
    PROVE  LifeStep(f, r)
  <1>1. /\ \A d \in Closers \ {c} : closing'[d] = closing[d] /\ pending'[d] = pending[d]
        /\ closing[c] # f
    BY Literals DEF EnterClose, TypeOK
  <1>2. BeingClosed(f, r) => BeingClosed(f, r)'
    BY <1>1 DEF BeingClosed
  <1>3. CASE BeingClosed(f, r)' <=> BeingClosed(f, r)
    <2>1. Line(f, r)' = Line(f, r)
      BY DEF Line
    <2> QED BY <1>3, <2>1, Unseen
  <1>4. CASE BeingClosed(f, r)'
    <2>1. Life(f, r)!BeginClose
      BY <1>4 DEF Life!BeginClose, BeingClosed
    <2> QED BY <2>1 DEF LifeStep, Life!Next
  <1> QED BY <1>2, <1>3, <1>4

\* Leaving Close ends no closing of a shard: none was left to close.
LEMMA LeaveLives ==
    ASSUME TypeOK, NEW c \in Closers, LeaveClose(c),
           NEW f \in Groups, NEW r \in Shards
    PROVE  LifeStep(f, r)
  <1>1. /\ \A d \in Closers \ {c} : closing'[d] = closing[d]
        /\ closing'[c] # f /\ pending[c] = {}
        /\ UNCHANGED <<pending, shardVars>>
    BY Literals DEF LeaveClose, TypeOK
  <1>2. BeingClosed(f, r)' <=> BeingClosed(f, r)
    BY <1>1 DEF BeingClosed
  <1>3. Line(f, r)' = Line(f, r)
    BY <1>1 DEF Line
  <1> QED BY <1>1, <1>2, <1>3, Unseen

\* And an Open, or the goroutine it leaves, does to a shard only what is listed.
LEMMA OpenLives ==
    ASSUME TypeOK, ConnectInv, NEW g \in Groups, OpenStep(g) \/ WaiterStep(g),
           NEW f \in Groups, NEW r \in Shards
    PROVE  LifeStep(f, r)
  <1>1. CASE UNCHANGED <<closeVars, shardVars>>
    BY <1>1, OthersUnseen
  <1>2. CASE CreateShards(g)
    <2>1. UNCHANGED <<closing, pending, isReady, everReady>>
      BY <1>2 DEF CreateShards
    <2>2. shard'[f][r] = shard[f][r] \/ (shard[f][r] = "none" /\ shard'[f][r] = "down")
      BY <1>2 DEF CreateShards, ConnectInv, ConnectPart, TypeOK
    <2> QED BY <2>1, <2>2, Moves, OthersUnseen
  <1>3. CASE CloseFailed(g)
    BY <1>3, EnterLives, Literals DEF CloseFailed
  <1>4. ASSUME NEW h \in Groups, CloseOther(g, h) PROVE LifeStep(f, r)
    BY <1>4, EnterLives, Literals DEF CloseOther
  <1>5. ASSUME OpenStep(g), ~CreateShards(g), ~CloseFailed(g)
        PROVE  UNCHANGED <<closeVars, shardVars>>
    <2>1. CASE BeginOpen(g) \/ MarkForClosure(g) \/ MissingShards(g)
      BY <2>1 DEF BeginOpen, MarkForClosure, MissingShards
    <2>2. CASE \E h \in Groups : VisitGroup(g, h)
      BY <2>2 DEF VisitGroup
    <2>3. CASE StartConnecting(g) \/ ConnectRest(g) \/ ReturnOpen(g) \/ ReturnError(g)
      BY <2>3 DEF StartConnecting, ConnectRest, ReturnOpen, ReturnError
    <2> QED BY <1>5, <2>1, <2>2, <2>3 DEF OpenStep
  <1>6. ASSUME WaitForReady(g) \/ BeginTakeover(g) \/ OpenFloodgate(g)
        PROVE  UNCHANGED <<closeVars, shardVars>>
    BY <1>6 DEF WaitForReady, BeginTakeover, OpenFloodgate
  <1> QED BY <1>1, <1>2, <1>3, <1>4, <1>5, <1>6 DEF WaiterStep

\* Every step, seen from any shard.
LEMMA LivesStep ==
    IInv /\ ConnectInv /\ [Next]_vars => \A f \in Groups, r \in Shards : LifeStep(f, r)
  <1> SUFFICES ASSUME IInv, ConnectInv, [Next]_vars, NEW f \in Groups, NEW r \in Shards
               PROVE  LifeStep(f, r)
    OBVIOUS
  <1>0. TypeOK
    BY DEF IInv
  <1>1. CASE \/ \E ids \in Layouts : Scale(ids)
             \/ Stop
             \/ UNCHANGED vars
    <2>1. UNCHANGED <<closeVars, shardVars>>
      BY <1>1 DEF Scale, Stop
    <2> QED BY <2>1, OthersUnseen
  <1>2. ASSUME NEW h \in Groups, CloseStopped(h) PROVE LifeStep(f, r)
    BY <1>0, <1>2, EnterLives, Literals DEF CloseStopped
  <1>3. ASSUME NEW g \in Groups, OpenStep(g) \/ WaiterStep(g) PROVE LifeStep(f, r)
    BY <1>0, <1>3, OpenLives
  <1>4. ASSUME NEW g \in Groups, FailFirst(g) PROVE LifeStep(f, r)
    <2>1. FirstShard(g) \in Shards
      BY <1>0, <1>4 DEF FailFirst, TypeOK
    <2> QED BY <1>0, <1>4, <2>1, ConnectionLives
  <1>5. ASSUME NEW g \in Groups, NEW s \in Shards,
               \/ BeginConnect(g, s) \/ EndConnect(g, s)
               \/ BeginReconnect(g, s) \/ EndReconnect(g, s) \/ FailReconnect(g, s)
               \/ FailOther(g, s) \/ LoseConnection(g, s)
        PROVE  LifeStep(f, r)
    BY <1>0, <1>5, ConnectionLives
  <1>6. ASSUME NEW g \in Groups, NEW s \in Shards,
               BecomeReady(g, s) \/ ClearReady(g, s) \/ StaleReady(g, s)
        PROVE  LifeStep(f, r)
    BY <1>0, <1>6, ReadinessLives
  <1>7. ASSUME NEW c \in Closers, NEW s \in Shards, ClearToClose(c, s)
        PROVE  LifeStep(f, r)
    <2>1. closing[c] \in Groups
      BY <1>0, <1>7 DEF ClearToClose, TypeOK
    <2> QED BY <1>0, <1>7, <2>1, ReadinessLives
  <1>8. ASSUME NEW c \in Closers, NEW s \in Shards, CloseShard(c, s)
        PROVE  LifeStep(f, r)
    BY <1>0, <1>8, CloseLives
  <1>9. ASSUME NEW c \in Closers, LeaveClose(c) PROVE LifeStep(f, r)
    BY <1>0, <1>9, LeaveLives
  <1> QED BY <1>1, <1>2, <1>3, <1>4, <1>5, <1>6, <1>7, <1>8, <1>9
          DEF Next, ConnectFailure, CloseStep

\* A manager without groups connects nothing.
LEMMA InitConnect == Init => ConnectInv
  <1> SUFFICES ASSUME Init, NEW g \in Groups PROVE ConnectPart(g)
    BY DEF ConnectInv
  <1> QED BY DEF Init, ConnectPart, IDs, FirstShard

\* Whatever opens, retries, takeovers and stops of any number of groups are
\* interleaved, what they do to a shard is what module Shard is proved to do.
THEOREM ShardsKeepToLife == Spec => ShardsFollowLife
  <1>1. IInv /\ ConnectInv /\ [Next]_vars => (IInv /\ ConnectInv)'
    BY InvStep, ConnectStep
  <1>2. IInv /\ ConnectInv /\ [Next]_vars
           => [\A g \in Groups, s \in Shards : LifeStep(g, s)]_vars
    BY LivesStep
  <1> QED BY <1>1, <1>2, InitConnect, Inductive, PTL DEF Spec, ShardsFollowLife
=============================================================================
