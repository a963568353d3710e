--------------------------------- MODULE Shard ---------------------------------
(***************************************************************************)
(* One shard's gateway session: the goroutine of Shard.Open that connects, *)
(* listens and reconnects, the heartbeat goroutine, a ShardGroup.Close     *)
(* that may come at any time, and Discord.                                 *)
(*                                                                         *)
(* No one else sends on the shard here, so that only the listener makes a  *)
(* context or a connection: of the contexts and connections ever made, the *)
(* latest is the only one that can be live, and a Boolean says if it is.   *)
(* The shard is not the first of its group, whose retries Open counts.     *)
(***************************************************************************)
EXTENDS Integers

CONSTANTS MaxEvents,            \* bound: events Discord makes in a session
          MaxDisturbances,      \* bound: failed dials, broken connections,
                                \* reconnect requests, invalid sessions
          MaxSilences,          \* bound: connections Discord stops answering
          MaxCloses,            \* bound: calls of ShardGroup.Close, 0 or 1
          ShardConnectRetries   \* RetriesRemaining of a new shard

ASSUME ConstantsAssumption ==
    /\ MaxEvents \in Nat \ {0}
    /\ MaxDisturbances \in Nat
    /\ MaxSilences \in Nat
    /\ MaxCloses \in 0..1
    /\ ShardConnectRetries \in Nat

VARIABLES
    pc,            \* where each goroutine stands
    depth,         \* Connect calls whose Identify is inside a Reconnect
    opening,       \* whether the shard is still being connected by its group
    waiting,       \* whether the group has not found it ready yet
    inbox,         \* message the listener has read and not handled
    status,        \* Shard.Status
    isReady,       \* Shard.IsReady
    ready,         \* whether a token is in Shard.ready
    cancelled,     \* whether Shard.ctx is done
    hasWsConn,     \* Shard.wsConn # nil
    retries,       \* Shard.RetriesRemaining
    dead,          \* whether HeartbeatDeadSignal is closed
    sessionID,     \* whether Shard.SessionID is set
    sequence,      \* Shard.Sequence
    link,          \* the latest connection as Discord has it
    sent,          \* events of the latest session, READY being the first
    next,          \* the event Discord sends next on the connection
    top,           \* history: the latest event of the session dispatched
    disturbances,  \* how often Discord failed the shard so far
    silences       \* how often it stopped to answer

shardVars   == <<status, isReady, ready, cancelled, hasWsConn, retries, dead>>
sessionVars == <<sessionID, sequence>>
frameVars   == <<depth, opening, waiting>>
discordVars == <<link, sent, next>>
boundVars   == <<disturbances, silences>>
vars == <<pc, inbox, shardVars, sessionVars, frameVars, discordVars, top,
          boundVars>>

Listener == "listener"
Heart    == "heart"
Closer   == "closer"
Threads  == {Listener, Heart, Closer}

-----------------------------------------------------------------------------
ShardStatus == {"Idle", "Connecting", "Connected", "Ready", "Reconnecting",
                "Closing", "Closed", "Erroring"}

\* The stages of Reconnect, Close and Connect, which any goroutine may be in.
ReconnectPC == {"reconnect", "close", "closeWS", "connect", "awaitHeart",
                "dial", "dialed", "hello", "identify", "connected"}

PC == ReconnectPC \cup
      {"idle", "done",                               \* closer, listener
       "opened", "beforeRead", "read", "handle", "ready", "crashed",
       "beat", "failed", "exit"}                     \* heartbeat

\* "fatal": closed with a code Listen takes as the end; "silent": Discord
\* neither answers nor closes.
Link == {"broken", "hello", "greeted", "identified", "resumed", "rejected",
         "up", "silent", "fatal"}

Dropped == {"broken", "fatal"}

MessageType == {"none", "READY", "RESUMED", "EVENT", "RECONNECT",
                "INVALID", "INVALID_RESUMABLE"}

Goto(t, l) == pc' = [pc EXCEPT ![t] = l]

NoMessage == [type |-> "none", n |-> 0]

HeartStopped == pc[Heart] \in {"exit", "failed"}

Reconnecting(t) == pc[t] \in ReconnectPC

\* Discord may fail the shard once more.
Disturb == /\ disturbances < MaxDisturbances
           /\ disturbances' = disturbances + 1
           /\ UNCHANGED silences

\* A dispatched event of the session.
Dispatch(n) == top' = IF n > top THEN n ELSE top

-----------------------------------------------------------------------------
Init ==
    /\ pc = [t \in Threads |-> CASE t = Listener -> "connect"
                                 [] t = Heart    -> "exit"
                                 [] t = Closer   -> "idle"]
    /\ depth = 0 /\ opening = TRUE /\ waiting = TRUE
    /\ inbox = NoMessage
    /\ status = "Idle" /\ isReady = FALSE /\ ready = FALSE
    /\ cancelled = FALSE /\ hasWsConn = FALSE /\ dead = FALSE
    /\ retries = ShardConnectRetries
    /\ sessionID = FALSE /\ sequence = 0
    /\ link = "broken" /\ sent = 0 /\ next = 0
    /\ top = 0
    /\ disturbances = 0 /\ silences = 0

-----------------------------------------------------------------------------
(* Reconnect and Close, by whichever goroutine is in them.                 *)

BeginClose ==
    /\ pc[Closer] = "idle"
    /\ MaxCloses > 0
    /\ Goto(Closer, "close")
    /\ UNCHANGED <<inbox, shardVars, sessionVars, frameVars, discordVars, top,
                   boundVars>>

BeginReconnect(t) ==
    /\ pc[t] = "reconnect"
    /\ status' = "Reconnecting"
    /\ Goto(t, "close")
    /\ UNCHANGED <<inbox, isReady, ready, cancelled, hasWsConn, retries, dead,
                   sessionVars, frameVars, discordVars, top, boundVars>>

Close(t) ==
    /\ pc[t] = "close"
    /\ isReady' = FALSE
    /\ status' = "Closing"
    /\ cancelled' = TRUE
    /\ Goto(t, "closeWS")
    /\ UNCHANGED <<inbox, ready, hasWsConn, retries, dead, sessionVars,
                   frameVars, discordVars, top, boundVars>>

\* CloseWS, the producer's CloseShard and the last status of Close.
CloseWS(t) ==
    /\ pc[t] = "closeWS"
    /\ hasWsConn' = FALSE
    /\ link' = "broken"
    /\ status' = "Closed"
    /\ Goto(t, IF t = Closer THEN "done" ELSE "connect")
    /\ UNCHANGED <<inbox, isReady, ready, cancelled, retries, dead,
                   sessionVars, frameVars, sent, next, top, boundVars>>

-----------------------------------------------------------------------------
(* Connect.                                                                *)

\* A token left in the ready channel is drained, which sets IsReady; the
\* context is cancelled and the heartbeat told to end.
BeginConnect(t) ==
    /\ pc[t] = "connect"
    /\ status' = IF status = "Reconnecting" THEN status ELSE "Connecting"
    /\ isReady' = (isReady \/ ready)
    /\ ready' = FALSE
    /\ cancelled' = TRUE
    /\ dead' = TRUE
    /\ Goto(t, "awaitHeart")
    /\ UNCHANGED <<inbox, hasWsConn, retries, sessionVars, frameVars,
                   discordVars, top, boundVars>>

\* HeartbeatDeadSignal.Close waits for the heartbeat goroutine: one that came
\* here itself stays for ever, and so does who waits for it.
NewContext ==
    /\ pc[Listener] = "awaitHeart"
    /\ HeartStopped
    /\ dead' = FALSE
    /\ cancelled' = FALSE
    /\ Goto(Listener, "dial")
    /\ UNCHANGED <<inbox, status, isReady, ready, hasWsConn, retries,
                   sessionVars, frameVars, discordVars, top, boundVars>>

Dial ==
    /\ pc[Listener] = "dial"
    /\ ~cancelled
    /\ hasWsConn' = TRUE
    /\ link' = "hello"
    /\ Goto(Listener, "dialed")
    /\ UNCHANGED <<inbox, status, isReady, ready, cancelled, retries, dead,
                   sessionVars, frameVars, sent, next, top, boundVars>>

\* Mutant: retries are counted down, and nobody looks at them.
ConnectFailedCountingDown(isCanceled) ==
    IF opening /\ depth = 0
    THEN /\ Goto(Listener, IF isCanceled THEN "opened" ELSE "connect")
         /\ opening' = ~isCanceled
         /\ UNCHANGED <<retries, depth, waiting>>
    ELSE /\ Goto(Listener, "connect")
         /\ retries' = retries - 1
         /\ UNCHANGED frameVars

\* Connect returned an error: Open tries again unless the error is that of a
\* cancelled context, Reconnect always does, and counts its retries up.
ConnectFailed(isCanceled) ==
    IF opening /\ depth = 0
    THEN /\ Goto(Listener, IF isCanceled THEN "opened" ELSE "connect")
         /\ opening' = ~isCanceled
         /\ UNCHANGED <<retries, depth, waiting>>
    ELSE /\ Goto(Listener, "connect")
         /\ retries' = retries + 1
         /\ UNCHANGED frameVars

\* The dial error is returned from an inner scope: Connect's deferred
\* functions see none.
FailDial ==
    /\ pc[Listener] = "dial"
    /\ Disturb
    /\ ConnectFailed(FALSE)
    /\ UNCHANGED <<inbox, status, isReady, ready, cancelled, hasWsConn, dead,
                   sessionVars, discordVars, top>>

CancelDial ==
    /\ pc[Listener] = "dial"
    /\ cancelled
    /\ ConnectFailed(TRUE)
    /\ UNCHANGED <<inbox, status, isReady, ready, cancelled, hasWsConn, dead,
                   sessionVars, discordVars, top, boundVars>>

\* readMessage dereferences the connection, which Close may have set to nil.
AwaitHello ==
    /\ pc[Listener] = "dialed"
    /\ Goto(Listener, IF hasWsConn THEN "hello" ELSE "crashed")
    /\ UNCHANGED <<inbox, shardVars, sessionVars, frameVars, discordVars, top,
                   boundVars>>

ReadHello ==
    /\ pc[Listener] = "hello"
    /\ link = "hello"
    /\ link' = "greeted"
    /\ pc' = [pc EXCEPT ![Listener] = "identify", ![Heart] = "beat"]
    /\ UNCHANGED <<inbox, shardVars, sessionVars, frameVars, sent, next, top,
                   boundVars>>

\* An error after the dial: the deferred CloseWS clears it, so that Erroring
\* is set only when the connection is gone already.
FailConnect ==
    /\ pc[Listener] \in {"hello", "identify"}
    /\ pc[Listener] = "identify" => hasWsConn
    /\ \/ cancelled /\ ConnectFailed(TRUE)
       \/ link \in Dropped /\ ConnectFailed(FALSE)
    /\ hasWsConn' = FALSE
    /\ link' = "broken"
    /\ status' = IF hasWsConn THEN status ELSE "Erroring"
    /\ UNCHANGED <<inbox, isReady, ready, cancelled, dead, sessionVars, sent,
                   next, top, boundVars>>

CanResume == sessionID /\ sequence # 0

\* Identify starts a session, whose first event is READY.
Identify ==
    /\ pc[Listener] = "identify"
    /\ hasWsConn /\ ~cancelled
    /\ link = "greeted"
    /\ ~CanResume
    /\ link' = "identified"
    /\ sent' = 1 /\ next' = 1 /\ top' = 0
    /\ status' = "Connected"
    /\ Goto(Listener, "connected")
    /\ UNCHANGED <<inbox, isReady, ready, cancelled, hasWsConn, retries, dead,
                   sessionVars, frameVars, boundVars>>

\* Resume asks for what follows the sequence; Discord may refuse.
Resume ==
    /\ pc[Listener] = "identify"
    /\ hasWsConn /\ ~cancelled
    /\ link = "greeted"
    /\ CanResume
    /\ link' \in {"resumed", "rejected"}
    /\ next' = sequence + 1
    /\ status' = "Connected"
    /\ Goto(Listener, "connected")
    /\ UNCHANGED <<inbox, isReady, ready, cancelled, hasWsConn, retries, dead,
                   sessionVars, frameVars, sent, top, boundVars>>

\* WriteJSON without a connection reconnects, inside Connect.
ReconnectToIdentify ==
    /\ pc[Listener] = "identify"
    /\ ~hasWsConn
    /\ depth' = depth + 1
    /\ Goto(Listener, "reconnect")
    /\ UNCHANGED <<inbox, opening, waiting, shardVars, sessionVars,
                   discordVars, top, boundVars>>

\* Mutant: the goroutine ends with the first call of Listen.
ReturnConnectOnce ==
    /\ pc[Listener] = "connected"
    /\ depth = 0
    /\ retries' = IF opening THEN retries ELSE ShardConnectRetries
    /\ opening' = FALSE
    /\ Goto(Listener, IF opening THEN "opened" ELSE "done")
    /\ UNCHANGED <<inbox, depth, waiting, status, isReady, ready, cancelled,
                   hasWsConn, dead, sessionVars, discordVars, top, boundVars>>

\* Back to Open or to Listen...
ReturnConnect ==
    /\ pc[Listener] = "connected"
    /\ depth = 0
    /\ retries' = IF opening THEN retries ELSE ShardConnectRetries
    /\ opening' = FALSE
    /\ Goto(Listener, "opened")
    /\ UNCHANGED <<inbox, depth, waiting, status, isReady, ready, cancelled,
                   hasWsConn, dead, sessionVars, discordVars, top, boundVars>>

\* ...or to WriteJSON, which is an error whatever Reconnect gave it: the
\* Connect it is in closes the connection just made, and is called again.
ReturnToIdentify ==
    /\ pc[Listener] = "connected"
    /\ depth > 0
    /\ depth' = depth - 1
    /\ retries' = IF opening /\ depth = 1 THEN ShardConnectRetries
                                          ELSE ShardConnectRetries + 1
    /\ hasWsConn' = FALSE
    /\ link' = "broken"
    /\ status' = IF hasWsConn THEN status ELSE "Erroring"
    /\ Goto(Listener, "connect")
    /\ UNCHANGED <<inbox, opening, waiting, isReady, ready, cancelled, dead,
                   sessionVars, sent, next, top, boundVars>>

-----------------------------------------------------------------------------
(* Open and Listen.                                                        *)

\* The loops of Open and Listen both end when the context is done.
Listen ==
    /\ pc[Listener] = "opened"
    /\ Goto(Listener, IF cancelled THEN "done" ELSE "beforeRead")
    /\ UNCHANGED <<inbox, shardVars, sessionVars, frameVars, discordVars, top,
                   boundVars>>

BeginRead ==
    /\ pc[Listener] = "beforeRead"
    /\ Goto(Listener, IF hasWsConn THEN "read" ELSE "crashed")
    /\ UNCHANGED <<inbox, shardVars, sessionVars, frameVars, discordVars, top,
                   boundVars>>

Receive(type, n) ==
    /\ pc[Listener] = "read"
    /\ inbox' = [type |-> type, n |-> n]
    /\ Goto(Listener, "handle")
    /\ UNCHANGED <<shardVars, sessionVars, frameVars, top>>

ReceiveReady ==
    /\ link = "identified"
    /\ Receive("READY", 1)
    /\ link' = "up" /\ next' = 2
    /\ UNCHANGED <<sent, boundVars>>

ReceiveEvent ==
    /\ link \in {"resumed", "up"}
    /\ next <= sent
    /\ Receive("EVENT", next)
    /\ next' = next + 1
    /\ UNCHANGED <<link, sent, boundVars>>

\* RESUMED follows the events that were missed, and is an event itself.
ReceiveResumed ==
    /\ link = "resumed"
    /\ next > sent
    /\ Receive("RESUMED", next)
    /\ link' = "up" /\ sent' = next /\ next' = next + 1
    /\ UNCHANGED boundVars

ReceiveRejection ==
    /\ link = "rejected"
    /\ Receive("INVALID", 0)
    /\ UNCHANGED <<discordVars, boundVars>>

\* Discord may ask for a new connection, or end the session, at any time.
ReceiveRequest ==
    /\ link \in {"identified", "resumed", "up"}
    /\ \E type \in {"RECONNECT", "INVALID", "INVALID_RESUMABLE"} :
           Receive(type, 0)
    /\ Disturb
    /\ UNCHANGED discordVars

\* Mutant: whose connection broke is not looked at.
ReadErrorReconnecting ==
    /\ pc[Listener] = "read"
    /\ \/ cancelled /\ Goto(Listener, "opened")
       \/ link = "fatal" /\ Goto(Listener, "opened")
       \/ link \in Dropped /\ Goto(Listener, "reconnect")
    /\ UNCHANGED <<inbox, shardVars, sessionVars, frameVars, discordVars, top,
                   boundVars>>

\* The read failed: the listener reconnects if it is its connection that
\* broke, and otherwise looks at its context.  On a fatal code it only listens
\* again.
ReadError ==
    /\ pc[Listener] = "read"
    /\ \/ cancelled /\ Goto(Listener, "opened")
       \/ link \in Dropped /\ ~hasWsConn /\ Goto(Listener, "opened")
       \/ link = "fatal" /\ Goto(Listener, "opened")
       \/ link = "broken" /\ hasWsConn /\ Goto(Listener, "reconnect")
    /\ UNCHANGED <<inbox, shardVars, sessionVars, frameVars, discordVars, top,
                   boundVars>>

Handle(type) ==
    /\ pc[Listener] = "handle"
    /\ inbox.type = type
    /\ inbox' = NoMessage

HandleEvent ==
    /\ Handle("EVENT")
    /\ sequence' = inbox.n
    /\ Dispatch(inbox.n)
    /\ Goto(Listener, "opened")
    /\ UNCHANGED <<shardVars, sessionID, frameVars, discordVars, boundVars>>

\* OnReady, up to its loop.
HandleReady ==
    /\ Handle("READY")
    /\ sequence' = inbox.n
    /\ sessionID' = TRUE
    /\ isReady' = TRUE
    /\ Dispatch(inbox.n)
    /\ Goto(Listener, "ready")
    /\ UNCHANGED <<status, ready, cancelled, hasWsConn, retries, dead,
                   frameVars, discordVars, boundVars>>

HandleResumed ==
    /\ Handle("RESUMED")
    /\ sequence' = inbox.n
    /\ isReady' = TRUE
    /\ ready' = TRUE
    /\ status' = "Ready"
    /\ Dispatch(inbox.n)
    /\ Goto(Listener, "opened")
    /\ UNCHANGED <<cancelled, hasWsConn, retries, dead, sessionID, frameVars,
                   discordVars, boundVars>>

HandleReconnect ==
    /\ Handle("RECONNECT") \/ Handle("INVALID_RESUMABLE")
    /\ Goto(Listener, "reconnect")
    /\ UNCHANGED <<shardVars, sessionVars, frameVars, discordVars, top,
                   boundVars>>

\* Mutant: the session is kept.
HandleInvalidSessionKept ==
    /\ Handle("INVALID")
    /\ Goto(Listener, "reconnect")
    /\ UNCHANGED <<shardVars, sessionVars, frameVars, discordVars, top,
                   boundVars>>

HandleInvalidSession ==
    /\ Handle("INVALID")
    /\ sessionID' = FALSE
    /\ sequence' = 0
    /\ Goto(Listener, "reconnect")
    /\ UNCHANGED <<shardVars, frameVars, discordVars, top, boundVars>>

\* Mutant: what the loop reads is not dispatched.
ReadInReadyUndispatched ==
    /\ pc[Listener] = "ready"
    /\ hasWsConn
    /\ link = "up"
    /\ next <= sent
    /\ next' = next + 1
    /\ UNCHANGED <<pc, inbox, shardVars, sessionVars, frameVars, link, sent,
                   top, boundVars>>

\* The loop of OnReady reads from the connection itself: an event it
\* dispatches does not move the sequence, anything else is dropped.
ReadInReady ==
    /\ pc[Listener] = "ready"
    /\ hasWsConn
    /\ link = "up"
    /\ next <= sent
    /\ Dispatch(next)
    /\ next' = next + 1
    /\ UNCHANGED <<pc, inbox, shardVars, sessionVars, frameVars, link, sent,
                   boundVars>>

\* ReadyTimeout, or an error of the read.
EndReady ==
    /\ pc[Listener] = "ready"
    /\ ready' = TRUE
    /\ status' = "Ready"
    /\ Goto(Listener, "opened")
    /\ UNCHANGED <<inbox, isReady, cancelled, hasWsConn, retries, dead,
                   sessionVars, frameVars, discordVars, top, boundVars>>

\* A read of the nil connection: OnDispatch recovers from the panic.
RecoverReady ==
    /\ pc[Listener] = "ready"
    /\ ~hasWsConn
    /\ Goto(Listener, "opened")
    /\ UNCHANGED <<inbox, shardVars, sessionVars, frameVars, discordVars, top,
                   boundVars>>

-----------------------------------------------------------------------------
(* WaitForReady, called by the group's goroutine.                          *)

\* It returns once it reads IsReady set...
WaitForReady ==
    /\ waiting
    /\ isReady
    /\ waiting' = FALSE
    /\ UNCHANGED <<pc, inbox, shardVars, sessionVars, depth, opening,
                   discordVars, top, boundVars>>

\* ...and else takes a token from the ready channel, or times out, to read it
\* again.
TakeToken ==
    /\ waiting
    /\ ready
    /\ ready' = FALSE
    /\ UNCHANGED <<pc, inbox, status, isReady, cancelled, hasWsConn, retries,
                   dead, sessionVars, frameVars, discordVars, top, boundVars>>

-----------------------------------------------------------------------------
(* Heartbeat.                                                              *)

StopHeart ==
    /\ pc[Heart] = "beat"
    /\ dead \/ cancelled
    /\ Goto(Heart, "exit")
    /\ UNCHANGED <<inbox, shardVars, sessionVars, frameVars, discordVars, top,
                   boundVars>>

\* The write failed, or no acknowledgement came: the goroutine returns.
FailHeart ==
    /\ pc[Heart] = "beat"
    /\ hasWsConn
    /\ link \in Dropped \cup {"silent"}
    /\ Goto(Heart, "failed")
    /\ UNCHANGED <<inbox, shardVars, sessionVars, frameVars, discordVars, top,
                   boundVars>>

\* WriteJSON finds no connection.
ReconnectToBeat ==
    /\ pc[Heart] = "beat"
    /\ ~hasWsConn
    /\ Goto(Heart, "reconnect")
    /\ UNCHANGED <<inbox, shardVars, sessionVars, frameVars, discordVars, top,
                   boundVars>>

-----------------------------------------------------------------------------
(* Discord.                                                                *)

Emit ==
    /\ sent \in 1..(MaxEvents - 1)
    /\ sent' = sent + 1
    /\ UNCHANGED <<pc, inbox, shardVars, sessionVars, frameVars, link, next,
                   top, boundVars>>

Drop ==
    /\ hasWsConn
    /\ link \notin Dropped
    /\ link' \in Dropped
    /\ Disturb
    /\ UNCHANGED <<pc, inbox, shardVars, sessionVars, frameVars, sent, next,
                   top>>

FallSilent ==
    /\ link = "up"
    /\ silences < MaxSilences
    /\ silences' = silences + 1
    /\ link' = "silent"
    /\ UNCHANGED <<pc, inbox, shardVars, sessionVars, frameVars, sent, next,
                   top, disturbances>>

-----------------------------------------------------------------------------
Reconnect(t) == BeginReconnect(t) \/ Close(t) \/ CloseWS(t) \/ BeginConnect(t)

\* What the listener does by itself.
ListenerStep ==
    \/ Reconnect(Listener)
    \/ NewContext \/ AwaitHello \/ CancelDial \/ FailConnect
    \/ ReconnectToIdentify \/ ReturnConnect \/ ReturnToIdentify
    \/ Listen \/ BeginRead \/ ReadError
    \/ HandleEvent \/ HandleReady \/ HandleResumed
    \/ HandleReconnect \/ HandleInvalidSession
    \/ EndReady \/ RecoverReady

\* What it does because Discord answers.
DiscordStep ==
    \/ Dial \/ ReadHello \/ Identify \/ Resume
    \/ ReceiveReady \/ ReceiveEvent \/ ReceiveResumed \/ ReceiveRejection

Running == pc[Listener] # "crashed"

HeartStep == Running /\ (StopHeart \/ FailHeart \/ Reconnect(Heart))

CloserStep == Running /\ (Close(Closer) \/ CloseWS(Closer))

Next ==
    \/ ListenerStep \/ DiscordStep \/ HeartStep \/ CloserStep
    \/ ReadInReady \/ FailDial \/ ReceiveRequest
    \/ Running /\ (\/ ReconnectToBeat \/ BeginClose \/ WaitForReady \/ TakeToken
                   \/ Emit \/ Drop \/ FallSilent)

Spec == Init /\ [][Next]_vars

\* Goroutines run, and ReadyTimeout passes; Discord answers.
Fairness ==
    /\ WF_vars(ListenerStep)
    /\ WF_vars(DiscordStep)
    /\ WF_vars(HeartStep)
    /\ WF_vars(CloserStep)

FairSpec == Spec /\ Fairness

-----------------------------------------------------------------------------
\* Every variable stays within the values the code gives it.
TypeOK ==
    /\ pc \in [Threads -> PC]
    /\ depth \in Nat /\ opening \in BOOLEAN /\ waiting \in BOOLEAN
    /\ inbox \in [type : MessageType, n : Nat]
    /\ status \in ShardStatus
    /\ isReady \in BOOLEAN /\ ready \in BOOLEAN
    /\ cancelled \in BOOLEAN /\ hasWsConn \in BOOLEAN /\ dead \in BOOLEAN
    /\ retries \in Nat
    /\ sessionID \in BOOLEAN /\ sequence \in Nat
    /\ link \in Link /\ sent \in Nat /\ next \in Nat
    /\ top \in Nat
    /\ disturbances \in 0..MaxDisturbances
    /\ silences \in 0..MaxSilences

\* Within a session, no event is passed over, whatever breaks and is resumed in
\* between: the next one dispatched is the next one or one dispatched before.
NoEventSkipped ==
    [][top' \in {top, top + 1} \/ (sent' = 1 /\ top' = 0)]_<<top, sent>>

\* A connection Discord has greeted, and not being closed, is attended: there is
\* a listener on it and a heartbeat, unless that has given up or is in Reconnect.
UpIsAttended ==
    link \notin Dropped \cup {"hello"} /\ ~cancelled =>
        /\ hasWsConn
        /\ pc[Listener] \notin {"done", "crashed"}
        /\ pc[Heart] # "exit"

InSession == isReady /\ hasWsConn /\ ~cancelled /\ link = "up"

\* Whatever Discord drops, refuses or invalidates, the shard gets back into a
\* session, unless it was closed, Discord went silent or closed it for good, or
\* the heartbeat goroutine has itself started to reconnect.
Recovers ==
    []<>(\/ InSession
         \/ pc[Closer] # "idle"
         \/ link \in {"silent", "fatal"}
         \/ Reconnecting(Heart))

-----------------------------------------------------------------------------
(* The inductive invariant behind UpIsAttended and NoEventSkipped.         *)

\* The context of a heartbeat told to end is done; who connects has no
\* connection; a connection Discord holds is the shard's.
ContextInv ==
    /\ dead => cancelled
    /\ pc[Listener] = "done" => cancelled
    /\ pc[Listener] \in {"connect", "awaitHeart", "dial", "crashed"} =>
          ~hasWsConn
    /\ link \notin Dropped => hasWsConn

\* The heartbeat starts with the first message.
HeartInv ==
    pc[Heart] = "exit" /\ ~cancelled => link \in Dropped \cup {"hello"}

Delivering == {"identified", "resumed", "up"}

IsEvent == inbox.type \in {"READY", "EVENT", "RESUMED"}

\* Where an invalid session, or a READY not yet handled, may leave a connection
\* up that belongs to no session of the shard.
Unsettled == {"handle", "reconnect", "close", "closeWS"}

\* The session and the sequence go together; the sequence is that of an event
\* dispatched, and what is delivered follows one.
SessionInv ==
    /\ sessionID <=> sequence # 0
    /\ sequence <= top
    /\ inbox.type \in {"EVENT", "RESUMED"} => sessionID
    /\ link \in {"resumed", "up"} /\ pc[Listener] \notin Unsettled => sessionID
    /\ pc[Listener] # "handle" => inbox = NoMessage
    /\ IsEvent => inbox.n \in 1..(top + 1) /\ next = inbox.n + 1
    /\ ~IsEvent /\ link \in Delivering => next \in 1..(top + 1)

IInv == TypeOK /\ ContextInv /\ HeartInv /\ SessionInv
=============================================================================
