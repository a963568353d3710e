------------------------------- MODULE MCChunking -------------------------------
(* Chunking with two managers that share one of their guilds. *)
EXTENDS Chunking, TLC

CONSTANTS s1, s2, g1, g2

SharedGuild == s1 :> {g1, g2} @@ s2 :> {g1}
=============================================================================
