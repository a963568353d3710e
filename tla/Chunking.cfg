SPECIFICATION FairSpec
CONSTANTS
    s1 = s1
    s2 = s2
    g1 = g1
    g2 = g2
    Shards = {s1, s2}
    Guilds = {g1, g2}
    GuildsOf <- SharedGuild
    ChunkCount = 2
    Ghosts = {g2}
    None = none
    MaxRequests = 1
INVARIANTS
    TypeOK
    OnlyTimeoutsEndRequests
PROPERTIES
    StartEnds
    MembersComplete
CHECK_DEADLOCK FALSE
