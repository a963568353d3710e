------------------------------- MODULE MCManagers -------------------------------
(* Managers with one manager configured at first. *)
EXTENDS Managers

CONSTANTS m1, m2

OneManager == <<m1>>
=============================================================================
