------------------------------ MODULE ChatServer ------------------------------
(***************************************************************************)
(* The websocket producer: sessions of consumers that identify, are        *)
(* registered and are sent the events published for their shard; a shard's *)
(* dispatch that publishes; and a CloseShard or StopSession.               *)
(*                                                                         *)
(* All sessions identify for the consumer shard the events are for.  A     *)
(* session is one websocket connection.                                    *)
(***************************************************************************)
EXTENDS Integers, Sequences, SequencesExt

CONSTANTS Sessions,     \* the connections consumers make
          None,         \* no session
          Buffer,       \* subscriberMessageBuffer
          MaxEvents,    \* bound: events published
          MaxCloses     \* bound: calls of CloseShard or StopSession, 0 or 1

ASSUME ConstantsAssumption ==
    /\ None \notin Sessions
    /\ Buffer \in Nat \ {0}
    /\ MaxEvents \in Nat
    /\ MaxCloses \in 0..1

VARIABLES
    main,          \* where the goroutine of subscribe stands
    writer,        \* where writeMessages stands
    wants,         \* the session whose ID the consumer sends to resume
    identified,    \* whether the session has an ID, and a shard if accepted
    up,            \* whether the websocket connection is
    cancelled,     \* whether subscriber.context is done
    closed,        \* whether the subscriber's channels are closed
    queue,         \* subscriber.writeNormal
    toldInvalid,   \* whether writeCloseMessage has a message
    subscribers,   \* chatServer.subscribers, in the order of addition
    received,      \* events the consumer was sent
    publisher,     \* where publish stands
    kind,          \* the event as a subscriber without a shard gets it
    shardFirst,    \* whether the map gives the shard's subscribers first
    todo,          \* subscribers publish has still to go to
    event,         \* events published so far; an event is its number
    closer,        \* where CloseShard stands
    aborted        \* history: events whose publish panicked

sessionVars == <<main, writer, wants, identified>>
channelVars == <<closed, queue, toldInvalid, received>>
publishVars == <<publisher, kind, shardFirst, todo, event, aborted>>
vars == <<sessionVars, up, cancelled, channelVars, subscribers, publishVars,
          closer>>

READY == 0

-----------------------------------------------------------------------------
MainPC == {"absent", "identifying", "refused", "adding", "initial", "serving",
           "deleting", "gone"}

WriterPC == {"off", "select", "deleting", "stopped"}

\* How publish treats a subscriber registered without a shard: it ends the
\* session for an event of a guild, sends another event if its shard is 0.
Kind == {"reject", "send", "skip"}

Registered == {subscribers[i] : i \in DOMAIN subscribers}

\* subscribersMu: readers exclude writers, and a waiting writer new readers.
ReadLocked == publisher = "sending" \/ closer \in {"closing", "deleting"}

CanRLock ==
    /\ closer # "deleting"
    /\ \A c \in Sessions :
           main[c] \notin {"adding", "deleting"} /\ writer[c] # "deleting"

CanLock == ~ReadLocked

\* deleteSubscriber removes who has the session's ID.  Sessions that never
\* identified share the empty one: of up to three of them the first goes.
\* Whoever it removes has a cancelled context already.
Same(c) ==
    {i \in DOMAIN subscribers :
        \/ subscribers[i] = c
        \/ ~identified[c] /\ ~identified[subscribers[i]]}

DeleteSubscriber(c) ==
    /\ CanLock
    /\ \/ Same(c) = {} /\ UNCHANGED subscribers
       \/ \E i \in Same(c) :
              /\ \A j \in Same(c) : i <= j
              /\ subscribers' = RemoveAt(subscribers, i)

Main(c, from, to) ==
    /\ main[c] = from
    /\ main' = [main EXCEPT ![c] = to]

Writer(c, from, to) ==
    /\ writer[c] = from
    /\ writer' = [writer EXCEPT ![c] = to]

Cancel(c) == cancelled' = [cancelled EXCEPT ![c] = TRUE]

Disconnect(c) == up' = [up EXCEPT ![c] = FALSE]

Enqueue(c, msg) == queue' = [queue EXCEPT ![c] = Append(@, msg)]

HasRoom(c) == Len(queue[c]) < Buffer

-----------------------------------------------------------------------------
Init ==
    /\ main = [c \in Sessions |-> "absent"]
    /\ writer = [c \in Sessions |-> "off"]
    /\ wants = [c \in Sessions |-> None]
    /\ identified = [c \in Sessions |-> FALSE]
    /\ up = [c \in Sessions |-> FALSE]
    /\ cancelled = [c \in Sessions |-> FALSE]
    /\ closed = [c \in Sessions |-> FALSE]
    /\ queue = [c \in Sessions |-> <<>>]
    /\ toldInvalid = [c \in Sessions |-> FALSE]
    /\ received = [c \in Sessions |-> <<>>]
    /\ subscribers = <<>>
    /\ publisher = "idle" /\ kind = "skip" /\ shardFirst = TRUE
    /\ todo = {} /\ event = 0 /\ aborted = {}
    /\ closer = "idle"

-----------------------------------------------------------------------------
(* subscribe.                                                              *)

\* A consumer connects, to identify or to resume a session it had.
Connect(c, o) ==
    /\ Main(c, "absent", "identifying")
    /\ Writer(c, "off", "select")
    /\ up' = [up EXCEPT ![c] = TRUE]
    /\ o # None =>
           ~up[o] /\ \E i \in DOMAIN received[o] : received[o][i] = READY
    /\ wants' = [wants EXCEPT ![c] = o]
    /\ UNCHANGED <<identified, cancelled, channelVars, subscribers,
                   publishVars, closer>>

Identify(c) ==
    /\ Main(c, "identifying", "adding")
    /\ wants[c] = None
    /\ identified' = [identified EXCEPT ![c] = TRUE]
    /\ UNCHANGED <<writer, wants, up, cancelled, channelVars,
                   subscribers, publishVars, closer>>

\* identifyClient returns without an error when the context is done: subscribe
\* goes on, with no ID and no shard.
IdentifyCancelled(c) ==
    /\ Main(c, "identifying", "adding")
    /\ cancelled[c]
    /\ UNCHANGED <<writer, wants, identified, up, cancelled,
                   channelVars, subscribers, publishVars, closer>>

\* A wrong token, no identify within five seconds, or a wrong shard count,
\* which is noticed once the session has its ID.
RefuseIdentify(c) ==
    /\ Main(c, "identifying", "refused")
    /\ wants[c] = None
    /\ toldInvalid' = [toldInvalid EXCEPT ![c] = TRUE]
    /\ \/ UNCHANGED identified
       \/ identified' = [identified EXCEPT ![c] = TRUE]
    /\ UNCHANGED <<writer, wants, up, cancelled, closed, queue, received,
                   subscribers, publishVars, closer>>

\* The ID to resume is compared with the new session's own, which is empty.
RefuseResume(c) ==
    /\ Main(c, "identifying", "refused")
    /\ wants[c] # None
    /\ CanRLock
    /\ toldInvalid' = [toldInvalid EXCEPT ![c] = TRUE]
    /\ UNCHANGED <<writer, wants, identified, up, cancelled, closed,
                   queue, received, subscribers, publishVars, closer>>

\* The handler returns, which closes the connection and ends its context.
ReturnRefused(c) ==
    /\ Main(c, "refused", "gone")
    /\ wants' = [wants EXCEPT ![c] = None]
    /\ Disconnect(c)
    /\ Cancel(c)
    /\ UNCHANGED <<writer, identified, channelVars, subscribers, publishVars,
                   closer>>

AddSubscriber(c) ==
    /\ Main(c, "adding", "initial")
    /\ CanLock
    /\ subscribers' = Append(subscribers, c)
    /\ UNCHANGED <<writer, wants, identified, up, cancelled, channelVars,
                   publishVars, closer>>

\* READY, unless the context is done, waits for room in the channel.
DispatchInitial(c) ==
    /\ Main(c, "initial", "serving")
    /\ \/ cancelled[c] /\ UNCHANGED queue
       \/ ~cancelled[c] /\ HasRoom(c) /\ Enqueue(c, READY)
    /\ UNCHANGED <<writer, wants, identified, up, cancelled, closed,
                   toldInvalid, received, subscribers, publishVars, closer>>

\* Mutant: the subscriber is deleted first and its channels closed after that.
ExpireDeletingFirst(c) ==
    /\ Main(c, "serving", "deleting")
    /\ cancelled[c]
    /\ UNCHANGED <<writer, wants, identified, up, cancelled, closed,
                   queue, toldInvalid, received, subscribers, publishVars,
                   closer>>

\* resumeTimeout after the context is done the channels are closed, and
\* deleteSubscriber called.
Expire(c) ==
    /\ Main(c, "serving", "deleting")
    /\ cancelled[c]
    /\ closed' = [closed EXCEPT ![c] = TRUE]
    /\ UNCHANGED <<writer, wants, identified, up, cancelled, queue,
                   toldInvalid, received, subscribers, publishVars, closer>>

Delete(c) ==
    /\ Main(c, "deleting", "gone")
    /\ DeleteSubscriber(c)
    /\ Disconnect(c)
    /\ UNCHANGED <<writer, wants, identified, cancelled, channelVars,
                   publishVars, closer>>

-----------------------------------------------------------------------------
(* The reader, the watchdog and the writer.                                *)

LoseConnection(c) ==
    /\ up[c]
    /\ Disconnect(c)
    /\ UNCHANGED <<sessionVars, cancelled, channelVars, subscribers,
                   publishVars, closer>>

\* Mutant: the reader leaves the context alone.
StopReadingOnly(c) ==
    /\ main[c] # "absent" /\ ~up[c]
    /\ ~cancelled[c]
    /\ UNCHANGED vars

\* The reader fails on the connection and cancels the context.
StopReading(c) ==
    /\ main[c] # "absent" /\ ~up[c]
    /\ ~cancelled[c]
    /\ Cancel(c)
    /\ UNCHANGED <<sessionVars, up, channelVars, subscribers, publishVars,
                   closer>>

\* No heartbeat for too long, or still sending the initial state when the
\* watchdog looks.
TimeOut(c) ==
    /\ writer[c] # "off" /\ ~cancelled[c]
    /\ Cancel(c)
    /\ UNCHANGED <<sessionVars, up, channelVars, subscribers, publishVars,
                   closer>>

WriteNormal(c) ==
    /\ writer[c] = "select"
    /\ up[c] /\ ~cancelled[c]
    /\ queue[c] # <<>>
    /\ queue' = [queue EXCEPT ![c] = Tail(@)]
    /\ received' = [received EXCEPT ![c] = Append(@, Head(queue[c]))]
    /\ UNCHANGED <<sessionVars, up, cancelled, closed, toldInvalid,
                   subscribers, publishVars, closer>>

\* A message taken when the write cannot succeed is lost.
FailWrite(c) ==
    /\ Writer(c, "select", "stopped")
    /\ ~up[c] \/ cancelled[c]
    /\ queue[c] # <<>>
    /\ queue' = [queue EXCEPT ![c] = Tail(@)]
    /\ Disconnect(c)
    /\ Cancel(c)
    /\ UNCHANGED <<main, wants, identified, closed, toldInvalid,
                   received, subscribers, publishVars, closer>>

StopWriting(c) ==
    /\ Writer(c, "select", "stopped")
    /\ cancelled[c]
    /\ Disconnect(c)
    /\ UNCHANGED <<main, wants, identified, cancelled, channelVars,
                   subscribers, publishVars, closer>>

\* A closed writeCloseMessage gives a message as well.
WriteClose(c) ==
    /\ Writer(c, "select", "deleting")
    /\ toldInvalid[c] \/ closed[c]
    /\ toldInvalid' = [toldInvalid EXCEPT ![c] = FALSE]
    /\ Cancel(c)
    /\ Disconnect(c)
    /\ UNCHANGED <<main, wants, identified, closed, queue, received,
                   subscribers, publishVars, closer>>

\* Mutant: the writer deletes the subscriber without the lock.
WriterDeleteUnlocked(c) ==
    /\ Writer(c, "deleting", "stopped")
    /\ subscribers' = SelectSeq(subscribers, LAMBDA d : d # c)
    /\ UNCHANGED <<main, wants, identified, up, cancelled, channelVars,
                   publishVars, closer>>

WriterDelete(c) ==
    /\ Writer(c, "deleting", "stopped")
    /\ DeleteSubscriber(c)
    /\ UNCHANGED <<main, wants, identified, up, cancelled, channelVars,
                   publishVars, closer>>

-----------------------------------------------------------------------------
(* publish.                                                                *)

\* The map's two keys, the shard's and the empty one, come in either order.
BeginPublish ==
    /\ publisher = "idle"
    /\ event < MaxEvents
    /\ CanRLock
    /\ publisher' = "sending"
    /\ event' = event + 1
    /\ LET nowhere == {c \in Registered : ~identified[c]}
       IN  \/ /\ todo' = Registered \ nowhere
              /\ UNCHANGED <<kind, shardFirst>>
           \/ /\ nowhere # {}
              /\ todo' = Registered
              /\ kind' \in {"reject", "send"}
              /\ shardFirst' \in BOOLEAN
    /\ UNCHANGED <<sessionVars, up, cancelled, channelVars, subscribers,
                   aborted, closer>>

\* Subscribers of one key go in the order they were added.
Before(c, d) ==
    IF identified[c] = identified[d]
    THEN \E i, j \in DOMAIN subscribers :
             i < j /\ subscribers[i] = c /\ subscribers[j] = d
    ELSE identified[c] = shardFirst

SendTo(c) ==
    /\ publisher = "sending"
    /\ c \in todo /\ \A d \in todo \ {c} : Before(c, d)

Rejects(c) == ~identified[c] /\ kind = "reject"

\* Mutant: the message is dropped when the buffer is full.
SendDropping(c) ==
    /\ SendTo(c) /\ ~closed[c] /\ ~Rejects(c)
    /\ IF HasRoom(c) THEN Enqueue(c, event) ELSE UNCHANGED queue
    /\ todo' = todo \ {c}
    /\ UNCHANGED <<sessionVars, up, cancelled, closed, toldInvalid, received,
                   subscribers, publisher, kind, shardFirst, event, aborted,
                   closer>>

\* Mutant: the buffer has no bound.
SendUnbounded(c) ==
    /\ SendTo(c) /\ ~closed[c] /\ ~Rejects(c)
    /\ Enqueue(c, event)
    /\ todo' = todo \ {c}
    /\ UNCHANGED <<sessionVars, up, cancelled, closed, toldInvalid, received,
                   subscribers, publisher, kind, shardFirst, event, aborted,
                   closer>>

\* The send waits for room.
Send(c) ==
    /\ SendTo(c) /\ ~closed[c] /\ ~Rejects(c)
    /\ HasRoom(c)
    /\ Enqueue(c, event)
    /\ todo' = todo \ {c}
    /\ UNCHANGED <<sessionVars, up, cancelled, closed, toldInvalid, received,
                   subscribers, publisher, kind, shardFirst, event, aborted,
                   closer>>

Reject(c) ==
    /\ SendTo(c) /\ ~closed[c] /\ Rejects(c)
    /\ toldInvalid' = [toldInvalid EXCEPT ![c] = TRUE]
    /\ todo' = todo \ {c}
    /\ UNCHANGED <<sessionVars, up, cancelled, closed, queue, received,
                   subscribers, publisher, kind, shardFirst, event, aborted,
                   closer>>

\* A send on a closed channel panics: the lock is released, OnDispatch
\* recovers, and who comes later in the list does not get the event.
AbortPublish(c) ==
    /\ SendTo(c) /\ closed[c]
    /\ publisher' = "idle" /\ kind' = "skip" /\ shardFirst' = TRUE
    /\ todo' = {}
    /\ aborted' = aborted \cup {event}
    /\ UNCHANGED <<sessionVars, up, cancelled, channelVars, subscribers, event,
                   closer>>

EndPublish ==
    /\ publisher = "sending" /\ todo = {}
    /\ publisher' = "idle" /\ kind' = "skip" /\ shardFirst' = TRUE
    /\ UNCHANGED <<sessionVars, up, cancelled, channelVars, subscribers, todo,
                   event, aborted, closer>>

-----------------------------------------------------------------------------
(* CloseShard and StopSession.                                             *)

BeginCloseShard ==
    /\ closer = "idle"
    /\ MaxCloses > 0
    /\ CanRLock
    /\ closer' = "closing"
    /\ UNCHANGED <<sessionVars, up, cancelled, channelVars, subscribers,
                   publishVars>>

\* invalidSession, then deleteSubscriber while the read lock is held: it waits
\* for this very call to return.
CloseSession(c) ==
    /\ closer = "closing"
    /\ c \in Registered /\ ~closed[c]
    /\ toldInvalid' = [toldInvalid EXCEPT ![c] = TRUE]
    /\ closer' = "deleting"
    /\ UNCHANGED <<sessionVars, up, cancelled, closed, queue, received,
                   subscribers, publishVars>>

\* A send on a closed channel ends the process: nothing recovers here.
CrashClosing(c) ==
    /\ closer = "closing"
    /\ c \in Registered /\ closed[c]
    /\ closer' = "crashed"
    /\ UNCHANGED <<sessionVars, up, cancelled, channelVars, subscribers,
                   publishVars>>

EndCloseShard ==
    /\ closer = "closing"
    /\ Registered = {}
    /\ closer' = "done"
    /\ UNCHANGED <<sessionVars, up, cancelled, channelVars, subscribers,
                   publishVars>>

-----------------------------------------------------------------------------
Running == closer # "crashed"

ConsumerStep(c) ==
    /\ Running
    /\ \/ \E o \in Sessions \cup {None} : Connect(c, o)
       \/ Identify(c) \/ LoseConnection(c) \/ TimeOut(c)

MainStep(c) ==
    /\ Running
    /\ \/ IdentifyCancelled(c) \/ RefuseIdentify(c) \/ RefuseResume(c)
       \/ ReturnRefused(c) \/ AddSubscriber(c) \/ DispatchInitial(c)
       \/ Expire(c) \/ Delete(c)

ReaderStep(c) == Running /\ StopReading(c)

WriterStep(c) ==
    /\ Running
    /\ \/ WriteNormal(c) \/ FailWrite(c) \/ StopWriting(c) \/ WriteClose(c)
       \/ WriterDelete(c)

PublisherStep ==
    /\ Running
    /\ \/ EndPublish
       \/ \E c \in Sessions : Send(c) \/ Reject(c) \/ AbortPublish(c)

CloserStep ==
    /\ Running
    /\ \/ EndCloseShard
       \/ \E c \in Sessions : CloseSession(c) \/ CrashClosing(c)

BeginStep == Running /\ (BeginPublish \/ BeginCloseShard)

Next ==
    \/ \E c \in Sessions :
           ConsumerStep(c) \/ MainStep(c) \/ ReaderStep(c) \/ WriterStep(c)
    \/ BeginStep \/ PublisherStep \/ CloserStep

Spec == Init /\ [][Next]_vars

\* Every goroutine runs; resumeTimeout and the time to identify pass.
Fairness ==
    /\ \A c \in Sessions :
           /\ WF_vars(MainStep(c))
           /\ WF_vars(WriterStep(c))
           /\ WF_vars(ReaderStep(c))
    /\ WF_vars(PublisherStep)
    /\ WF_vars(CloserStep)

FairSpec == Spec /\ Fairness

-----------------------------------------------------------------------------
\* Every variable stays within the values the code gives it, and a channel
\* within its buffer.
TypeOK ==
    /\ main \in [Sessions -> MainPC]
    /\ writer \in [Sessions -> WriterPC]
    /\ wants \in [Sessions -> Sessions \cup {None}]
    /\ identified \in [Sessions -> BOOLEAN] /\ up \in [Sessions -> BOOLEAN]
    /\ cancelled \in [Sessions -> BOOLEAN] /\ closed \in [Sessions -> BOOLEAN]
    /\ toldInvalid \in [Sessions -> BOOLEAN]
    /\ queue \in [Sessions -> Seq(0..MaxEvents)]
    /\ \A c \in Sessions : Len(queue[c]) <= Buffer
    /\ received \in [Sessions -> Seq(0..MaxEvents)]
    /\ subscribers \in Seq(Sessions) /\ todo \subseteq Sessions
    /\ publisher \in {"idle", "sending"} /\ kind \in Kind
    /\ shardFirst \in BOOLEAN
    /\ event \in 0..MaxEvents /\ aborted \subseteq 0..MaxEvents
    /\ closer \in {"idle", "closing", "deleting", "done", "crashed"}

\* Events come in the order of their publication, and none is left out in
\* between but the lost ones.
Gapless(s, lost) ==
    \A i, j \in 1..Len(s) :
        i < j /\ s[i] # READY /\ s[j] # READY =>
            /\ s[i] < s[j]
            /\ \A n \in (s[i] + 1)..(s[j] - 1) :
                   n \in lost \/ \E k \in 1..Len(s) : s[k] = n

\* What a consumer is sent has no gap, except for an event whose publish
\* panicked on another session, however it connects, breaks and is removed
\* while shards publish.
NoEventMissed == \A c \in Sessions : Gapless(received[c], aborted)

\* The subscribers a publish ranges over stay registered until it is done with
\* them: who adds or deletes waits for the lock.
PublishIsUndisturbed == todo \subseteq Registered

\* subscribe waits to send READY to a channel nobody empties any more.
StuckInitial ==
    \E c \in Sessions :
        main[c] = "initial" /\ writer[c] = "stopped" /\ ~HasRoom(c)

ClosedOnce == closer \in {"closing", "deleting", "crashed"}

\* Publishing ends, although it waits for room with the read lock held, and
\* although sessions come, break and go meanwhile.
PublishReturns ==
    publisher = "sending" ~> publisher = "idle" \/ StuckInitial \/ ClosedOnce

\* A session whose connection broke is eventually removed.
DisconnectedIsForgotten ==
    \A c \in Sessions :
        (c \in Registered /\ ~up[c]) ~>
            (c \notin Registered \/ StuckInitial \/ ClosedOnce)

\* CloseShard is there to "Close all connections for a specific shard".
CloseShardClosesAll ==
    \A c \in Sessions :
        (closer = "closing" /\ c \in Registered) ~> (~up[c] \/ ~Running)
=============================================================================
