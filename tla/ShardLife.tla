------------------------------- MODULE ShardLife -------------------------------
(***************************************************************************)
(* The life of one shard as its group sees it: its connection, Shard.      *)
(* IsReady, and the Close that a group may call at any time.  Shard        *)
(* implements it, and the shards of ShardGroup do nothing else.            *)
(***************************************************************************)
VARIABLES shard,       \* its connection
          isReady,     \* Shard.IsReady
          everReady,   \* whether it ever received a READY or RESUMED
          closing      \* whether it is being closed by a group

vars == <<shard, isReady, everReady, closing>>

Init ==
    /\ shard = "down"
    /\ isReady = FALSE /\ everReady = FALSE
    /\ closing = FALSE

-----------------------------------------------------------------------------
(* Its connection.                                                         *)

Move(from, to) ==
    /\ shard \in from
    /\ shard' = to
    /\ UNCHANGED <<isReady, everReady, closing>>

\* The group connects it, again and again.
BeginConnect == Move({"down"}, "dialing")

EndConnect == Move({"dialing"}, "live") \/ Move({"aborted"}, "closed")

FailConnect == Move({"dialing", "aborted"}, "down")

\* Once it was connected it connects itself.
LoseConnection == Move({"live"}, "lost")

BeginReconnect == Move({"lost"}, "redialing")

EndReconnect == Move({"redialing"}, "live")

FailReconnect == Move({"redialing"}, "lost")

\* The process has ended.
Crash == Move({"redialing"}, "closed")

-----------------------------------------------------------------------------
(* Its readiness.                                                          *)

BecomeReady ==
    /\ shard \in {"live", "closed"}
    /\ isReady' = TRUE
    /\ everReady' = TRUE
    /\ UNCHANGED <<shard, closing>>

StaleReady ==
    /\ shard = "lost"
    /\ everReady
    /\ isReady' = TRUE
    /\ UNCHANGED <<shard, everReady, closing>>

ClearReady ==
    /\ closing \/ shard \in {"lost", "redialing", "closed"}
    /\ isReady' = FALSE
    /\ UNCHANGED <<shard, everReady, closing>>

-----------------------------------------------------------------------------
(* A group closes it.                                                      *)

BeginClose ==
    /\ closing' = TRUE
    /\ UNCHANGED <<shard, isReady, everReady>>

\* Who reconnects is not stopped, and who is being connected may not be.
CloseShard ==
    /\ closing
    /\ closing' \in BOOLEAN
    /\ \/ shard = "live" /\ shard' = "closed"
       \/ shard = "dialing" /\ shard' = "aborted"
       \/ shard # "live" /\ UNCHANGED shard
    /\ UNCHANGED <<isReady, everReady>>

Next ==
    \/ BeginConnect \/ EndConnect \/ FailConnect
    \/ LoseConnection \/ BeginReconnect \/ EndReconnect \/ FailReconnect
    \/ Crash
    \/ BecomeReady \/ StaleReady \/ ClearReady
    \/ BeginClose \/ CloseShard

Spec == Init /\ [][Next]_vars
=============================================================================
