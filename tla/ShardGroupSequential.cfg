SPECIFICATION Spec
CONSTANTS
    MaxGroups = 2
    Shards = {0, 1}
    Layouts <- MCLayouts
    ShardConnectRetries = 1
    MaxReconnects = 1
    MaxStops = 1
    MaxConcurrentOpens = 1
    AutoStart = TRUE
INVARIANTS
    TypeOK
    FloodgateOpensLast
    ManagerKeepsReadyGroup
PROPERTIES
    ShardsFollowLife
CHECK_DEADLOCK FALSE
