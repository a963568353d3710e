------------------------------ MODULE MCRouting ------------------------------
EXTENDS Routing, TLC

Config(real, virtual, dm, ranges, quickStart) ==
    [real |-> real, virtual |-> virtual, dm |-> dm, ranges |-> ranges,
     quickStart |-> quickStart]

\* Two Discord shards: with virtual shards off, with more virtual shards than
\* Discord has, with fewer, and with only one of the shards run here.
MCConfigs == {Config(2, 0, 0, {}, FALSE), Config(2, 3, 2, {}, FALSE),
              Config(3, 2, 1, {}, TRUE), Config(2, 3, 0, {<<1, 4>>}, FALSE)}

VirtualConfigs == {Config(2, 3, 2, {}, TRUE)}

\* Full counts, a count left out, a smaller count, an id that is the count.
MCClients == {<<0, 0>>, <<1, 2>>, <<1, 3>>, <<0, 1>>, <<2, 2>>}

MCSymmetry == Permutations(Consumers)
=============================================================================
