---------------------------- MODULE RollingRestart ----------------------------
(***************************************************************************)
(* What scaling a manager promises its consumers: a group of shards goes   *)
(* down only when it failed to start, when the manager is stopped, or when *)
(* a replacement is complete; and a replacement hands events over only     *)
(* after the groups before it are gone.  ShardGroup implements it.         *)
(***************************************************************************)
EXTENDS Integers

CONSTANT Groups      \* group IDs, in the order the groups are created

VARIABLES members,   \* groups the manager holds
          failed,    \* groups whose start failed
          ready,     \* groups that were complete
          torn,      \* groups whose shutdown has begun
          retired,   \* groups whose shutdown has ended
          serving,   \* groups whose events are handed over
          stopped    \* whether the manager was stopped

vars == <<members, failed, ready, torn, retired, serving, stopped>>

Init ==
    /\ members = {} /\ failed = {} /\ ready = {}
    /\ torn = {} /\ retired = {} /\ serving = {}
    /\ stopped = FALSE

Join(g) ==
    /\ \A h \in members : h < g
    /\ members' = members \cup {g}
    /\ UNCHANGED <<failed, ready, torn, retired, serving, stopped>>

Fail(g) ==
    /\ g \in members \ ready
    /\ failed' = failed \cup {g}
    /\ UNCHANGED <<members, ready, torn, retired, serving, stopped>>

Leave(g) ==
    /\ g \in failed
    /\ members' = members \ {g}
    /\ UNCHANGED <<failed, ready, torn, retired, serving, stopped>>

Complete(g) ==
    /\ g \in members \ failed
    /\ ready' = ready \cup {g}
    /\ UNCHANGED <<members, failed, torn, retired, serving, stopped>>

TearDown(g) ==
    /\ stopped \/ g \in failed \/ ready \ {g} # {}
    /\ torn' = torn \cup {g}
    /\ UNCHANGED <<members, failed, ready, retired, serving, stopped>>

Retire(g) ==
    /\ g \in torn
    /\ retired' = retired \cup {g}
    /\ UNCHANGED <<members, failed, ready, torn, serving, stopped>>

Serve(g) ==
    /\ g \in ready
    /\ \A h \in members : h < g => h \in retired
    /\ serving' = serving \cup {g}
    /\ UNCHANGED <<members, failed, ready, torn, retired, stopped>>

Stop ==
    /\ stopped' = TRUE
    /\ UNCHANGED <<members, failed, ready, torn, retired, serving>>

Next ==
    \/ Stop
    \/ \E g \in Groups :
          \/ Join(g) \/ Fail(g) \/ Leave(g) \/ Complete(g)
          \/ TearDown(g) \/ Retire(g) \/ Serve(g)

Spec == Init /\ [][Next]_vars
=============================================================================
