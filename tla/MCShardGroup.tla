----------------------------- MODULE MCShardGroup -----------------------------
(* Instances of ShardGroup for TLC.                                        *)
EXTENDS ShardGroup

\* Groups without shards, of one shard and of two.
MCLayouts == {<<>>, <<0>>, <<0, 1>>}

OneShard == {<<0>>}
=============================================================================
