------------------------------ MODULE ShardInGroup ------------------------------
(***************************************************************************)
(* Shard as its group sees it: what a shard does, whatever Discord and its *)
(* goroutines do, is what ShardLife permits.                               *)
(***************************************************************************)
EXTENDS Shard

VARIABLE everReady   \* history: whether OnReady or OnResumed has run

seenVars == <<vars, everReady>>

SeenInit == Init /\ everReady = FALSE

SeenNext == /\ Next
            /\ everReady' = (everReady \/ HandleReady \/ HandleResumed)

SeenSpec == SeenInit /\ [][SeenNext]_seenVars

SeenFairSpec == SeenSpec /\ Fairness

-----------------------------------------------------------------------------
\* On the way from one Connect to the next.
BetweenConnects ==
    pc[Listener] \in {"reconnect", "close", "closeWS", "connect", "awaitHeart"}

\* There, or about to go there: it has read a message that makes it reconnect.
Leaving ==
    \/ BetweenConnects
    \/ /\ pc[Listener] = "handle"
       /\ inbox.type \in {"RECONNECT", "INVALID", "INVALID_RESUMABLE"}

\* Inside a Connect that has its context, or back in one whose connection was
\* gone.
InConnect ==
    \/ pc[Listener] \in {"dial", "dialed", "hello", "identify"}
    \/ pc[Listener] = "connected" /\ depth > 0

\* What a Close that is over has taken away: the context or the connection.
Taken == /\ pc[Closer] = "done"
         /\ cancelled \/ (~hasWsConn /\ pc[Listener] # "dial")

Connection ==
    CASE opening /\ BetweenConnects          -> "down"
      [] opening /\ ~BetweenConnects         -> IF Taken THEN "aborted"
                                                         ELSE "dialing"
      [] ~opening /\ Leaving                 -> "lost"
      [] ~opening /\ InConnect               -> "redialing"
      [] ~opening /\ ~Leaving /\ ~InConnect  -> IF Taken THEN "closed"
                                                         ELSE "live"

Life == INSTANCE ShardLife WITH
    shard   <- Connection,
    closing <- pc[Closer] \in {"close", "closeWS"}

\* What its group sees of a shard follows ShardLife: once live it is never again
\* being connected by the group, it is ready only after it was live, and a Close
\* is the end of it unless it is on its way to a new connection.
ImplementsShardLife == Life!Spec

-----------------------------------------------------------------------------
(* The inductive invariant behind ImplementsShardLife.                     *)

\* A shard that is still being connected was never ready; an IsReady that is
\* set, or a token, comes from a READY or RESUMED, and no token outlives the
\* beginning of a Connect.
ReadyInv ==
    /\ opening => ~everReady /\ pc[Listener] \in ReconnectPC \cup {"crashed"}
    /\ isReady \/ ready \/ pc[Listener] = "ready" => everReady
    /\ ready => pc[Listener] \notin {"awaitHeart", "dial", "dialed", "hello",
                                     "identify", "connected"}

\* While the shard has a connection of its own, a heartbeat that reconnects has
\* found it gone, and only a Close of the group takes it or its context away.
TakenInv ==
    /\ pc[Listener] \in {"dial", "dialed", "hello"} => HeartStopped
    /\ Reconnecting(Heart) => BetweenConnects \/ ~hasWsConn
    /\ ~hasWsConn => \/ BetweenConnects
                     \/ pc[Listener] \in {"dial", "crashed"}
                     \/ pc[Closer] = "done"
                     \/ pc[Listener] \in {"opened", "done"} /\ cancelled
    /\ cancelled => \/ BetweenConnects
                    \/ pc[Listener] = "crashed"
                    \/ pc[Closer] = "closeWS"
                    \/ pc[Closer] = "done" /\ ~hasWsConn

SeenInv == IInv /\ everReady \in BOOLEAN /\ ReadyInv /\ TakenInv
=============================================================================
