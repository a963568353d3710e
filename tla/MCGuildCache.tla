------------------------------ MODULE MCGuildCache ------------------------------
(* GuildCache with interchangeable managers. *)
EXTENDS GuildCache, TLC

Symmetry == Permutations(Managers)
=============================================================================
