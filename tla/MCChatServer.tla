----------------------------- MODULE MCChatServer -----------------------------
(***************************************************************************)
(* Instances of ChatServer for TLC.                                        *)
(***************************************************************************)
EXTENDS ChatServer, TLC

\* Sessions are alike: no property of the safety run names one.
MCSymmetry == Permutations(Sessions)
=============================================================================
