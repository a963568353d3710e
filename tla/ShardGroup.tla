------------------------------ MODULE ShardGroup ------------------------------
(***************************************************************************)
(* The shard groups of one manager: Manager.Scale, ShardGroup.Open (the    *)
(* opener, one connect goroutine per shard, the goroutine that waits for   *)
(* every shard and then takes over), ShardGroup.Close and Manager.Close,   *)
(* over the part of a shard the group can observe.                         *)
(*                                                                         *)
(* A group is its ID, drawn from shardGroupCounter.  A shard is seen here  *)
(* only through its connection: internal detail (heartbeats, sequence      *)
(* numbers, sessions) belongs to module Shard.                             *)
(***************************************************************************)
EXTENDS Integers, Sequences, FiniteSets

CONSTANTS MaxGroups,            \* bound: how often Manager.Scale is called
          Shards,               \* shard IDs
          Layouts,              \* the shardIDs arguments of Scale that occur
          ShardConnectRetries,  \* RetriesRemaining of a new shard
          MaxReconnects,        \* bound: connections Discord drops once up
          MaxStops,             \* bound: calls of ShardGroupStopEndpoint
          MaxConcurrentOpens,   \* bound: opens in progress at one time
          AutoStart             \* whether group 1 is opened by Manager.Open

ASSUME ConstantsAssumption ==
    /\ MaxGroups \in Nat \ {0}
    /\ Layouts \subseteq Seq(Shards)
    /\ \A ids \in Layouts : \A i, j \in DOMAIN ids : ids[i] = ids[j] => i = j
    /\ ShardConnectRetries \in Nat
    /\ MaxReconnects \in Nat
    /\ MaxStops \in Nat
    /\ MaxConcurrentOpens \in Nat
    /\ AutoStart \in BOOLEAN

Groups   == 1..MaxGroups
None     == 0                  \* no group
Endpoint == 0                  \* Manager.Close, among those who close groups
Closers  == Groups \cup {Endpoint}

VARIABLES
    shardGroupCounter,  \* Manager.shardGroupCounter
    groups,             \* keys of Manager.ShardGroups
    isClosing,          \* Manager.IsClosing
    shardIDs,           \* ShardGroup.ShardIDs
    status,             \* ShardGroup.Status
    floodgate,          \* ShardGroup.floodgate
    allShardsReady,     \* ShardGroup.allShardsReady
    retries,            \* RetriesRemaining of the group's first shard
    opener,             \* where the call of ShardGroup.Open stands
    marking,            \* group whose status the opener has read, not yet set
    connecting,         \* shards whose connect loop has not ended
    waiter,             \* where the goroutine started by Open stands
    foundReady,         \* how many shards that goroutine has found ready
    toVisit,            \* rest of a Range over Manager.ShardGroups
    closing,            \* group a closer is inside Close of
    pending,            \* shards that Close has not closed yet
    cleared,            \* those of them whose IsReady it has cleared
    shard,              \* connection of each shard
    isReady,            \* Shard.IsReady
    reconnects,         \* connections dropped so far
    stops,              \* stop requests so far
    everReady,          \* history: shards that received READY
    closeBegun,         \* history: groups some Close was entered for
    closeDone           \* history: groups some Close has returned for

managerVars == <<shardGroupCounter, groups, isClosing, stops>>
openVars    == <<shardIDs, opener, marking, connecting, retries>>
readyVars   == <<floodgate, allShardsReady, waiter, foundReady>>
closeVars   == <<closing, pending, cleared, closeBegun, closeDone>>
shardVars   == <<shard, isReady, reconnects, everReady>>
vars == <<managerVars, openVars, readyVars, closeVars, shardVars,
          status, toVisit>>

-----------------------------------------------------------------------------
ShardGroupStatus == {"Idle", "Connecting", "Connected", "MarkedForClosure",
                     "Closing", "Closed", "Erroring"}

OpenerPC == {"none", "scaled", "marking", "created", "connectFirst",
             "connectRest", "failing", "error", "returned", "failed"}

WaiterPC == {"none", "wait", "takeover", "done"}

\* "none" before NewShard; "down" without connection and without Reconnect;
\* "dialing" and "aborted" inside Connect called by Open, with its context
\* live or cancelled; "live" listening; "lost" and "redialing" inside
\* Reconnect, between two Connect calls or in one; "closed" for good.
Connection == {"none", "down", "dialing", "aborted", "live", "lost",
               "redialing", "closed"}

IDs(g) == {shardIDs[g][i] : i \in DOMAIN shardIDs[g]}

FirstShard(g) == shardIDs[g][1]

SetStatus(g, st) == status' = [status EXCEPT ![g] = st]

SetShard(g, s, c) == shard' = [shard EXCEPT ![g][s] = c]

\* Manager.AllReady: what a consumer's identify is refused on.
AllReady == /\ groups # {}
            /\ ~isClosing
            /\ \A g \in groups : allShardsReady[g]

\* An Open that has neither failed nor reached the end of its goroutine.
Opening(g) == /\ opener[g] \notin {"none", "failed"}
              /\ waiter[g] # "done"

-----------------------------------------------------------------------------
Init ==
    /\ shardGroupCounter = 0
    /\ groups = {}
    /\ isClosing = FALSE
    /\ stops = 0
    /\ shardIDs = [g \in Groups |-> <<>>]
    /\ status = [g \in Groups |-> "Idle"]
    /\ floodgate = [g \in Groups |-> FALSE]
    /\ allShardsReady = [g \in Groups |-> FALSE]
    /\ retries = [g \in Groups |-> ShardConnectRetries]
    /\ opener = [g \in Groups |-> "none"]
    /\ marking = [g \in Groups |-> None]
    /\ connecting = [g \in Groups |-> {}]
    /\ waiter = [g \in Groups |-> "none"]
    /\ foundReady = [g \in Groups |-> 0]
    /\ toVisit = [c \in Closers |-> {}]
    /\ closing = [c \in Closers |-> None]
    /\ pending = [c \in Closers |-> {}]
    /\ cleared = [c \in Closers |-> {}]
    /\ shard = [g \in Groups |-> [s \in Shards |-> "none"]]
    /\ isReady = [g \in Groups |-> [s \in Shards |-> FALSE]]
    /\ reconnects = 0
    /\ everReady = [g \in Groups |-> {}]
    /\ closeBegun = {}
    /\ closeDone = {}

-----------------------------------------------------------------------------
(* Opening a group.                                                        *)

\* Manager.Scale: the group is in the manager's map before Open is called.
Scale(ids) ==
    LET g == shardGroupCounter + 1 IN
    /\ g <= MaxGroups
    /\ Cardinality({h \in Groups : Opening(h)}) < MaxConcurrentOpens
    /\ shardGroupCounter' = g
    /\ groups' = groups \cup {g}
    /\ shardIDs' = [shardIDs EXCEPT ![g] = ids]
    /\ opener' = [opener EXCEPT ![g] = "scaled"]
    /\ UNCHANGED <<isClosing, stops, marking, connecting, retries, readyVars,
                   closeVars, shardVars, status, toVisit>>

\* Open starts to range over the manager's groups.
BeginOpen(g) ==
    /\ opener[g] = "scaled"
    /\ opener' = [opener EXCEPT ![g] = "marking"]
    /\ toVisit' = [toVisit EXCEPT ![g] = groups \ {g}]
    /\ UNCHANGED <<managerVars, shardIDs, marking, connecting, retries,
                   readyVars, closeVars, shardVars, status>>

\* One group of the range: the status test of the callback...
VisitGroup(g, h) ==
    /\ opener[g] = "marking"
    /\ marking[g] = None
    /\ h \in toVisit[g]
    /\ toVisit' = [toVisit EXCEPT ![g] = @ \ {h}]
    /\ marking' = [marking EXCEPT
                     ![g] = IF status[h] # "Erroring" THEN h ELSE None]
    /\ UNCHANGED <<managerVars, shardIDs, opener, connecting, retries,
                   readyVars, closeVars, shardVars, status>>

\* ...and, the lock released and taken again, the status it sets.
MarkForClosure(g) ==
    /\ marking[g] # None
    /\ SetStatus(marking[g], "MarkedForClosure")
    /\ marking' = [marking EXCEPT ![g] = None]
    /\ UNCHANGED <<managerVars, shardIDs, opener, connecting, retries,
                   readyVars, closeVars, shardVars, toVisit>>

\* The range is over: the shards are made.
CreateShards(g) ==
    /\ opener[g] = "marking"
    /\ marking[g] = None
    /\ toVisit[g] = {}
    /\ shard' = [shard EXCEPT ![g] =
                   [s \in Shards |-> IF s \in IDs(g) THEN "down" ELSE @[s]]]
    /\ opener' = [opener EXCEPT ![g] = "created"]
    /\ UNCHANGED <<managerVars, shardIDs, marking, connecting, retries,
                   readyVars, closeVars, isReady, reconnects, everReady,
                   status, toVisit>>

\* ErrMissingShards.
MissingShards(g) ==
    /\ opener[g] = "created"
    /\ shardIDs[g] = <<>>
    /\ opener' = [opener EXCEPT ![g] = "error"]
    /\ UNCHANGED <<managerVars, shardIDs, marking, connecting, retries,
                   readyVars, closeVars, shardVars, status, toVisit>>

StartConnecting(g) ==
    /\ opener[g] = "created"
    /\ shardIDs[g] # <<>>
    /\ SetStatus(g, "Connecting")
    /\ opener' = [opener EXCEPT ![g] = "connectFirst"]
    /\ connecting' = [connecting EXCEPT ![g] = {FirstShard(g)}]
    /\ UNCHANGED <<managerVars, shardIDs, marking, retries, readyVars,
                   closeVars, shardVars, toVisit>>

\* Shard.Connect makes a new context: an earlier Close no longer reaches it.
BeginConnect(g, s) ==
    /\ s \in connecting[g]
    /\ shard[g][s] \notin {"dialing", "aborted"}
    /\ SetShard(g, s, "dialing")
    /\ UNCHANGED <<managerVars, openVars, readyVars, closeVars, isReady,
                   reconnects, everReady, status, toVisit>>

\* Mutant: the listener is never started on the connected shard.
EndConnectDeaf(g, s) ==
    /\ s \in connecting[g]
    /\ shard[g][s] \in {"dialing", "aborted"}
    /\ SetShard(g, s, "down")
    /\ connecting' = [connecting EXCEPT ![g] = @ \ {s}]
    /\ UNCHANGED <<managerVars, shardIDs, opener, marking, retries, readyVars,
                   closeVars, isReady, reconnects, everReady, status, toVisit>>

\* Mutant: the connect loop goes on after a Connect that succeeded.
EndConnectUnbroken(g, s) ==
    /\ s \in connecting[g]
    /\ shard[g][s] \in {"dialing", "aborted"}
    /\ SetShard(g, s, IF shard[g][s] = "dialing" THEN "live" ELSE "closed")
    /\ UNCHANGED <<managerVars, openVars, readyVars, closeVars, isReady,
                   reconnects, everReady, status, toVisit>>

\* Connect returned nil, or an error that wraps context.Canceled, which Open
\* takes for success: shard.Open listens, or finds its context done.
EndConnect(g, s) ==
    /\ s \in connecting[g]
    /\ shard[g][s] \in {"dialing", "aborted"}
    /\ SetShard(g, s, IF shard[g][s] = "dialing" THEN "live" ELSE "closed")
    /\ connecting' = [connecting EXCEPT ![g] = @ \ {s}]
    /\ UNCHANGED <<managerVars, shardIDs, opener, marking, retries, readyVars,
                   closeVars, isReady, reconnects, everReady, status, toVisit>>

\* Mutant: the retries left are not looked at.
FailFirstUnchecked(g) ==
    LET s == FirstShard(g) IN
    /\ opener[g] = "connectFirst"
    /\ s \in connecting[g]
    /\ shard[g][s] \in {"dialing", "aborted"}
    /\ SetShard(g, s, "down")
    /\ retries' = [retries EXCEPT ![g] = @ - 1]
    /\ UNCHANGED <<managerVars, shardIDs, opener, marking, connecting,
                   readyVars, closeVars, isReady, reconnects, everReady,
                   status, toVisit>>

\* Any other error of the first shard uses up a retry, or ends the open.
FailFirst(g) ==
    LET s == FirstShard(g) IN
    /\ opener[g] = "connectFirst"
    /\ s \in connecting[g]
    /\ shard[g][s] \in {"dialing", "aborted"}
    /\ SetShard(g, s, "down")
    /\ \/ /\ retries[g] > 0
          /\ retries' = [retries EXCEPT ![g] = @ - 1]
          /\ UNCHANGED <<opener, connecting, status>>
       \/ /\ retries[g] = 0
          /\ SetStatus(g, "Erroring")
          /\ opener' = [opener EXCEPT ![g] = "failing"]
          /\ connecting' = [connecting EXCEPT ![g] = {}]
          /\ UNCHANGED retries
    /\ UNCHANGED <<managerVars, shardIDs, marking, readyVars, closeVars,
                   isReady, reconnects, everReady, toVisit>>

\* The other shards' goroutines retry for ever.
FailOther(g, s) ==
    /\ opener[g] = "connectRest"
    /\ s \in connecting[g]
    /\ shard[g][s] \in {"dialing", "aborted"}
    /\ SetShard(g, s, "down")
    /\ UNCHANGED <<managerVars, openVars, readyVars, closeVars, isReady,
                   reconnects, everReady, status, toVisit>>

\* Mutant: the goroutines are started for all of ShardIDs, not ShardIDs[1:].
ConnectRestAll(g) ==
    /\ opener[g] = "connectFirst"
    /\ connecting[g] = {}
    /\ opener' = [opener EXCEPT ![g] = "connectRest"]
    /\ connecting' = [connecting EXCEPT ![g] = IDs(g)]
    /\ UNCHANGED <<managerVars, shardIDs, marking, retries, readyVars,
                   closeVars, shardVars, status, toVisit>>

\* The first shard is up: the others connect concurrently.
ConnectRest(g) ==
    /\ opener[g] = "connectFirst"
    /\ connecting[g] = {}
    /\ opener' = [opener EXCEPT ![g] = "connectRest"]
    /\ connecting' = [connecting EXCEPT
                        ![g] = {shardIDs[g][i] : i \in 2..Len(shardIDs[g])}]
    /\ UNCHANGED <<managerVars, shardIDs, marking, retries, readyVars,
                   closeVars, shardVars, status, toVisit>>

\* connectGroup.Wait returned: Open starts its goroutine and returns.
ReturnOpen(g) ==
    /\ opener[g] = "connectRest"
    /\ connecting[g] = {}
    /\ SetStatus(g, "Connected")
    /\ opener' = [opener EXCEPT ![g] = "returned"]
    /\ waiter' = [waiter EXCEPT ![g] = "wait"]
    /\ UNCHANGED <<managerVars, shardIDs, marking, connecting, retries,
                   floodgate, allShardsReady, foundReady, closeVars, shardVars,
                   toVisit>>

\* The caller gets the error: ShardGroupCreateEndpoint deletes the group from
\* the map, Manager.Open leaves it there.
ReturnError(g) ==
    /\ opener[g] = "error"
    /\ opener' = [opener EXCEPT ![g] = "failed"]
    /\ groups' = IF AutoStart /\ g = 1 THEN groups ELSE groups \ {g}
    /\ UNCHANGED <<shardGroupCounter, isClosing, stops, shardIDs, marking,
                   connecting, retries, readyVars, closeVars, shardVars,
                   status, toVisit>>

-----------------------------------------------------------------------------
(* The goroutine Open leaves behind.                                       *)

\* Mutant: WaitForReady returns after its timeout.
WaitForReadyOnce(g) ==
    /\ waiter[g] = "wait"
    /\ foundReady[g] < Len(shardIDs[g])
    /\ foundReady' = [foundReady EXCEPT ![g] = @ + 1]
    /\ UNCHANGED <<managerVars, openVars, floodgate, allShardsReady, waiter,
                   closeVars, shardVars, status, toVisit>>

\* WaitForReady returns once it reads IsReady set.
WaitForReady(g) ==
    /\ waiter[g] = "wait"
    /\ foundReady[g] < Len(shardIDs[g])
    /\ isReady[g][shardIDs[g][foundReady[g] + 1]]
    /\ foundReady' = [foundReady EXCEPT ![g] = @ + 1]
    /\ UNCHANGED <<managerVars, openVars, floodgate, allShardsReady, waiter,
                   closeVars, shardVars, status, toVisit>>

\* Mutant: the range does not leave out the group itself.
BeginTakeoverOfSelf(g) ==
    /\ waiter[g] = "wait"
    /\ foundReady[g] = Len(shardIDs[g])
    /\ waiter' = [waiter EXCEPT ![g] = "takeover"]
    /\ allShardsReady' = [allShardsReady EXCEPT ![g] = TRUE]
    /\ toVisit' = [toVisit EXCEPT ![g] = groups]
    /\ UNCHANGED <<managerVars, openVars, floodgate, foundReady, closeVars,
                   shardVars, status>>

\* Mutant: allShardsReady is not stored.
BeginTakeoverUnmarked(g) ==
    /\ waiter[g] = "wait"
    /\ foundReady[g] = Len(shardIDs[g])
    /\ waiter' = [waiter EXCEPT ![g] = "takeover"]
    /\ toVisit' = [toVisit EXCEPT ![g] = groups \ {g}]
    /\ UNCHANGED <<managerVars, openVars, floodgate, allShardsReady,
                   foundReady, closeVars, shardVars, status>>

\* Every shard was found ready: range over the manager's groups.
BeginTakeover(g) ==
    /\ waiter[g] = "wait"
    /\ foundReady[g] = Len(shardIDs[g])
    /\ waiter' = [waiter EXCEPT ![g] = "takeover"]
    /\ allShardsReady' = [allShardsReady EXCEPT ![g] = TRUE]
    /\ toVisit' = [toVisit EXCEPT ![g] = groups \ {g}]
    /\ UNCHANGED <<managerVars, openVars, floodgate, foundReady, closeVars,
                   shardVars, status>>

\* Mutant: the floodgate is opened while others are still being closed.
OpenFloodgateEarly(g) ==
    /\ waiter[g] = "takeover"
    /\ closing[g] = None
    /\ floodgate' = [floodgate EXCEPT ![g] = TRUE]
    /\ waiter' = [waiter EXCEPT ![g] = "done"]
    /\ UNCHANGED <<managerVars, openVars, allShardsReady, foundReady,
                   closeVars, shardVars, status, toVisit>>

\* The range is over: the group's own events may pass; ready is closed.
OpenFloodgate(g) ==
    /\ waiter[g] = "takeover"
    /\ toVisit[g] = {}
    /\ closing[g] = None
    /\ floodgate' = [floodgate EXCEPT ![g] = TRUE]
    /\ waiter' = [waiter EXCEPT ![g] = "done"]
    /\ UNCHANGED <<managerVars, openVars, allShardsReady, foundReady, closeVars,
                   shardVars, status, toVisit>>

-----------------------------------------------------------------------------
(* Closing a group: by its own failed Open, by another group's goroutine,  *)
(* or by the stop endpoint.                                                *)

EnterClose(c, h) ==
    /\ SetStatus(h, "Closing")
    /\ closing' = [closing EXCEPT ![c] = h]
    /\ pending' = [pending EXCEPT ![c] = {s \in Shards : shard[h][s] # "none"}]
    /\ closeBegun' = closeBegun \cup {h}
    /\ UNCHANGED <<cleared, closeDone>>

CloseFailed(g) ==
    /\ opener[g] = "failing"
    /\ closing[g] = None
    /\ EnterClose(g, g)
    /\ UNCHANGED <<managerVars, openVars, readyVars, shardVars, toVisit>>

\* The callback lowers sg's own floodgate, not the visited group's.
CloseOther(g, h) ==
    /\ waiter[g] = "takeover"
    /\ closing[g] = None
    /\ h \in toVisit[g]
    /\ toVisit' = [toVisit EXCEPT ![g] = @ \ {h}]
    /\ floodgate' = [floodgate EXCEPT ![g] = FALSE]
    /\ EnterClose(g, h)
    /\ UNCHANGED <<managerVars, openVars, allShardsReady, waiter, foundReady,
                   shardVars>>

\* ShardGroupStopEndpoint: Manager.Close closes the groups one after another.
Stop ==
    /\ stops < MaxStops
    /\ toVisit[Endpoint] = {}
    /\ closing[Endpoint] = None
    /\ stops' = stops + 1
    /\ isClosing' = TRUE
    /\ toVisit' = [toVisit EXCEPT ![Endpoint] = groups]
    /\ UNCHANGED <<shardGroupCounter, groups, openVars, readyVars, closeVars,
                   shardVars, status>>

CloseStopped(h) ==
    /\ h \in toVisit[Endpoint]
    /\ closing[Endpoint] = None
    /\ toVisit' = [toVisit EXCEPT ![Endpoint] = @ \ {h}]
    /\ EnterClose(Endpoint, h)
    /\ UNCHANGED <<managerVars, openVars, readyVars, shardVars>>

\* Shard.Close on one shard clears IsReady and cancels the context...
ClearToClose(c, s) ==
    LET h == closing[c] IN
    /\ h # None
    /\ s \in pending[c] \ cleared[c]
    /\ cleared' = [cleared EXCEPT ![c] = @ \cup {s}]
    /\ isReady' = [isReady EXCEPT ![h][s] = FALSE]
    /\ UNCHANGED <<managerVars, openVars, readyVars, closing, pending,
                   closeBegun, closeDone, shard, reconnects, everReady, status,
                   toVisit>>

\* ...and closes the connection.  A Connect called by Open may have made a new
\* context in between and not yet a connection, and then goes on; Reconnect
\* goes on in any case.
CloseShard(c, s) ==
    LET h == closing[c] IN
    /\ h # None
    /\ s \in pending[c] \cap cleared[c]
    /\ pending' = [pending EXCEPT ![c] = @ \ {s}]
    /\ cleared' = [cleared EXCEPT ![c] = @ \ {s}]
    /\ \/ shard[h][s] = "live" /\ SetShard(h, s, "closed")
       \/ shard[h][s] = "dialing" /\ SetShard(h, s, "aborted")
       \/ shard[h][s] # "live" /\ UNCHANGED shard
    /\ UNCHANGED <<managerVars, openVars, readyVars, closing, closeBegun,
                   closeDone, isReady, reconnects, everReady, status, toVisit>>

LeaveClose(c) ==
    LET h == closing[c] IN
    /\ h # None
    /\ pending[c] = {}
    /\ SetStatus(h, "Closed")
    /\ closing' = [closing EXCEPT ![c] = None]
    /\ closeDone' = closeDone \cup {h}
    /\ opener' = IF c = h THEN [opener EXCEPT ![h] = "error"] ELSE opener
    /\ UNCHANGED <<managerVars, shardIDs, marking, connecting, retries,
                   readyVars, pending, cleared, closeBegun, shardVars,
                   toVisit>>

-----------------------------------------------------------------------------
(* A shard and Discord, as in ShardLife.                                   *)

\* OnReady or OnResumed, on a connected shard or for a message it had read when
\* it was closed.
BecomeReady(g, s) ==
    /\ shard[g][s] \in {"live", "closed"}
    /\ ~isReady[g][s]
    /\ isReady' = [isReady EXCEPT ![g][s] = TRUE]
    /\ everReady' = [everReady EXCEPT ![g] = @ \cup {s}]
    /\ UNCHANGED <<managerVars, openVars, readyVars, closeVars, shard,
                   reconnects, status, toVisit>>

\* The connection breaks, or Discord asks to reconnect.
LoseConnection(g, s) ==
    /\ shard[g][s] = "live"
    /\ reconnects < MaxReconnects
    /\ reconnects' = reconnects + 1
    /\ SetShard(g, s, "lost")
    /\ UNCHANGED <<managerVars, openVars, readyVars, closeVars, isReady,
                   everReady, status, toVisit>>

\* Reconnect, by the listener or by the heartbeat, closes the shard's own side
\* first...
ClearReady(g, s) ==
    /\ shard[g][s] \in {"lost", "redialing", "closed"}
    /\ isReady[g][s]
    /\ isReady' = [isReady EXCEPT ![g][s] = FALSE]
    /\ UNCHANGED <<managerVars, openVars, readyVars, closeVars, shard,
                   reconnects, everReady, status, toVisit>>

\* ...and a READY whose token is still in the ready channel is drained by
\* Connect, which sets IsReady again.
StaleReady(g, s) ==
    /\ shard[g][s] = "lost"
    /\ s \in everReady[g]
    /\ ~isReady[g][s]
    /\ isReady' = [isReady EXCEPT ![g][s] = TRUE]
    /\ UNCHANGED <<managerVars, openVars, readyVars, closeVars, shard,
                   reconnects, everReady, status, toVisit>>

BeginReconnect(g, s) ==
    /\ shard[g][s] = "lost"
    /\ SetShard(g, s, "redialing")
    /\ UNCHANGED <<managerVars, openVars, readyVars, closeVars, isReady,
                   reconnects, everReady, status, toVisit>>

EndReconnect(g, s) ==
    /\ shard[g][s] = "redialing"
    /\ SetShard(g, s, "live")
    /\ UNCHANGED <<managerVars, openVars, readyVars, closeVars, isReady,
                   reconnects, everReady, status, toVisit>>

FailReconnect(g, s) ==
    /\ shard[g][s] = "redialing"
    /\ SetShard(g, s, "lost")
    /\ UNCHANGED <<managerVars, openVars, readyVars, closeVars, isReady,
                   reconnects, everReady, status, toVisit>>

-----------------------------------------------------------------------------
OpenStep(g) ==
    \/ BeginOpen(g)
    \/ \E h \in Groups : VisitGroup(g, h)
    \/ MarkForClosure(g)
    \/ CreateShards(g)
    \/ MissingShards(g)
    \/ StartConnecting(g)
    \/ ConnectRest(g)
    \/ ReturnOpen(g)
    \/ CloseFailed(g)
    \/ ReturnError(g)

WaiterStep(g) ==
    \/ WaitForReady(g)
    \/ BeginTakeover(g)
    \/ \E h \in Groups : CloseOther(g, h)
    \/ OpenFloodgate(g)

CloseStep(c) ==
    \/ \E s \in Shards : ClearToClose(c, s) \/ CloseShard(c, s)
    \/ LeaveClose(c)

ConnectFailure(g) ==
    \/ FailFirst(g)
    \/ \E s \in Shards : FailOther(g, s) \/ FailReconnect(g, s)
                           \/ LoseConnection(g, s)

Next ==
    \/ \E ids \in Layouts : Scale(ids)
    \/ Stop
    \/ \E h \in Groups : CloseStopped(h)
    \/ \E g \in Groups : OpenStep(g) \/ WaiterStep(g) \/ ConnectFailure(g)
    \/ \E c \in Closers : CloseStep(c)
    \/ \E g \in Groups, s \in Shards :
          \/ BeginConnect(g, s)
          \/ EndConnect(g, s)
          \/ BecomeReady(g, s)
          \/ ClearReady(g, s)
          \/ StaleReady(g, s)
          \/ BeginReconnect(g, s)
          \/ EndReconnect(g, s)

Spec == Init /\ [][Next]_vars

(* Every goroutine that can run does; Discord accepts a connection that is *)
(* attempted again and again, and answers an identify or a resume.  Nobody *)
(* has to scale or to stop, and no failure has to happen.                  *)
Fairness ==
    /\ \A g \in Groups :
          /\ WF_vars(OpenStep(g))
          /\ WF_vars(WaiterStep(g))
    /\ \A c \in Closers : WF_vars(CloseStep(c))
    /\ WF_vars(\E h \in Groups : CloseStopped(h))
    /\ \A g \in Groups, s \in Shards :
          /\ WF_vars(BeginConnect(g, s))
          /\ SF_vars(EndConnect(g, s))
          /\ SF_vars(shard[g][s] = "live" /\ BecomeReady(g, s))
          /\ WF_vars(BeginReconnect(g, s))
          /\ SF_vars(EndReconnect(g, s))

FairSpec == Spec /\ Fairness
-----------------------------------------------------------------------------
\* Every variable stays within the values the code gives it.
TypeOK ==
    /\ shardGroupCounter \in 0..MaxGroups
    /\ groups \subseteq Groups
    /\ isClosing \in BOOLEAN
    /\ stops \in 0..MaxStops
    /\ shardIDs \in [Groups -> Seq(Shards)]
    /\ status \in [Groups -> ShardGroupStatus]
    /\ floodgate \in [Groups -> BOOLEAN]
    /\ allShardsReady \in [Groups -> BOOLEAN]
    /\ retries \in [Groups -> 0..ShardConnectRetries]
    /\ opener \in [Groups -> OpenerPC]
    /\ marking \in [Groups -> Groups \cup {None}]
    /\ connecting \in [Groups -> SUBSET Shards]
    /\ waiter \in [Groups -> WaiterPC]
    /\ foundReady \in [Groups -> Nat]
    /\ toVisit \in [Closers -> SUBSET Groups]
    /\ closing \in [Closers -> Groups \cup {None}]
    /\ pending \in [Closers -> SUBSET Shards]
    /\ cleared \in [Closers -> SUBSET Shards]
    /\ shard \in [Groups -> [Shards -> Connection]]
    /\ isReady \in [Groups -> [Shards -> BOOLEAN]]
    /\ reconnects \in 0..MaxReconnects
    /\ everReady \in [Groups -> SUBSET Shards]
    /\ closeBegun \subseteq Groups
    /\ closeDone \subseteq Groups

Failed(g) == opener[g] \in {"failing", "error", "failed"}

\* Close is entered on a group only when its own open failed, when the manager
\* is being stopped, or when another group has found all its shards ready:
\* scaling never takes a group down before there is one to replace it.
TeardownHasReplacement ==
    \A h \in closeBegun :
        \/ isClosing
        \/ Failed(h)
        \/ \E g \in Groups \ {h} : allShardsReady[g]

\* A group's events pass only when each of its shards has received a READY and
\* Close has returned for every older group the manager still holds, so a
\* consumer is never handed over to a group that is not complete, nor before
\* the shutdown of those it replaces.
FloodgateOpensLast ==
    \A g \in Groups : floodgate[g] =>
        /\ IDs(g) \subseteq everReady[g]
        /\ \A h \in groups : h < g => h \in closeDone

\* The groups of one manager are a rolling restart: seen from its consumers,
\* every step of the code is one of RollingRestart, or changes nothing.
Restart == INSTANCE RollingRestart WITH
    members <- groups,
    failed  <- {g \in Groups : Failed(g)},
    ready   <- {g \in Groups : allShardsReady[g]},
    torn    <- closeBegun,
    retired <- closeDone,
    serving <- {g \in Groups : floodgate[g]},
    stopped <- isClosing

ImplementsRollingRestart == Restart!Spec

\* One shard of a group, in the terms of ShardLife, which module Shard implements.
Life(g, s) == INSTANCE ShardLife WITH
    shard     <- IF shard[g][s] = "none" THEN "down" ELSE shard[g][s],
    isReady   <- isReady[g][s],
    everReady <- s \in everReady[g],
    closing   <- \E c \in Closers : closing[c] = g /\ s \in pending[c]

\* What openers, connect loops and closers of all groups do to a shard together
\* is what a shard is proved to permit: none of them connects one that is live
\* or reconnecting, and one that is closed stays so.
LifeStep(g, s) == UNCHANGED Life(g, s)!vars \/ Life(g, s)!Next

ShardsFollowLife == [][\A g \in Groups, s \in Shards : LifeStep(g, s)]_vars

\* With one open at a time, and no stop, a manager that had a ready group
\* always has one that nobody has begun to close.
ManagerKeepsReadyGroup ==
    (~isClosing /\ \E g \in Groups : allShardsReady[g]) =>
        \E g \in groups : allShardsReady[g] /\ g \notin closeBegun

\* Open always comes back, with or without an error, even when other groups
\* or the stop endpoint close it meanwhile.
OpenReturns ==
    \A g \in Groups :
        opener[g] = "scaled" ~> opener[g] \in {"returned", "failed"}

\* With one open at a time, an Open that returned no error ends with its ready
\* channel closed, on which Manager.Open blocks, unless the manager is stopped.
ReadyIsSignalled ==
    \A g \in Groups :
        opener[g] = "returned" ~> (waiter[g] = "done" \/ isClosing)

\* With one open at a time, consumers are admitted again after a scale, unless
\* a group that failed was left in the map or the manager is stopped.
ConsumersReadmitted ==
    \A g \in Groups :
        opener[g] = "returned" ~>
            (AllReady \/ isClosing \/ \E h \in groups : opener[h] = "failed")

\* shardgroup.go: "Close closes all shards in a shardgroup", so none of them
\* listens while the group's status says that Close has returned.
CloseClosesAllShards ==
    \A g \in Groups : status[g] = "Closed" =>
        \A s \in Shards : shard[g][s] # "live"

-----------------------------------------------------------------------------
(* The inductive invariant behind TeardownHasReplacement and               *)
(* FloodgateOpensLast: what the goroutines of Open rely on while others    *)
(* run.                                                                    *)

\* Groups are numbered as they are created, and stay in the map until their
\* open has failed.
MapInv ==
    /\ groups \subseteq 1..shardGroupCounter
    /\ \A g \in Groups :
          /\ opener[g] # "none" => g <= shardGroupCounter
          /\ opener[g] \notin {"none", "failed"} => g \in groups

\* The goroutine exists exactly when Open returned without an error; it sets
\* allShardsReady before it closes anyone and the floodgate after.
WaiterInv ==
    \A g \in Groups :
        /\ waiter[g] # "none" <=> opener[g] = "returned"
        /\ allShardsReady[g] <=> waiter[g] \in {"takeover", "done"}
        /\ floodgate[g] => waiter[g] = "done"

\* The shards it has passed did receive READY.
ReadyInv ==
    \A g \in Groups :
        /\ \A s \in Shards : isReady[g][s] => s \in everReady[g]
        /\ foundReady[g] <= Len(shardIDs[g])
        /\ \A i \in 1..foundReady[g] : shardIDs[g][i] \in everReady[g]
        /\ opener[g] = "none" => foundReady[g] = 0
        /\ allShardsReady[g] => foundReady[g] = Len(shardIDs[g])

\* Whom it has still to close, while ranging and when done.
TakeoverInv ==
    \A g \in Groups : allShardsReady[g] =>
        \A h \in groups : h < g =>
            \/ h \in closeDone
            \/ waiter[g] = "takeover" /\ (h \in toVisit[g] \/ h = closing[g])

\* Who may be inside Close, and of which group.
CloserInv ==
    /\ \A g \in Groups : g \notin toVisit[g]
    /\ \A g \in Groups : closing[g] = g => opener[g] = "failing"
    /\ \A c \in Closers : closing[c] # None => closing[c] \in closeBegun
    /\ toVisit[Endpoint] # {} => isClosing

\* A shard being connected has no connection but that of its Connect call, and
\* the others of a group are not begun with before the first one's is made:
\* behind ShardsFollowLife.
ConnectPart(g) ==
    /\ \A s \in connecting[g] : shard[g][s] \in {"down", "dialing", "aborted"}
    /\ connecting[g] # {} => opener[g] \in {"connectFirst", "connectRest"}
    /\ opener[g] \in {"none", "scaled", "marking"} =>
          \A s \in Shards : shard[g][s] = "none"
    /\ opener[g] = "created" => \A s \in IDs(g) : shard[g][s] = "down"
    /\ opener[g] = "connectFirst" =>
          /\ connecting[g] \subseteq {FirstShard(g)}
          /\ \A i \in 2..Len(shardIDs[g]) : shard[g][shardIDs[g][i]] = "down"
    /\ \A i, j \in DOMAIN shardIDs[g] : shardIDs[g][i] = shardIDs[g][j] => i = j

ConnectInv == \A g \in Groups : ConnectPart(g)

IInv ==
    /\ TypeOK
    /\ MapInv
    /\ WaiterInv
    /\ ReadyInv
    /\ TakeoverInv
    /\ CloserInv
    /\ TeardownHasReplacement
=============================================================================
