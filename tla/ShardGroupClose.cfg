SPECIFICATION Spec
CONSTANTS
    MaxGroups = 2
    Shards = {0}
    Layouts <- OneShard
    ShardConnectRetries = 0
    MaxReconnects = 1
    MaxStops = 0
    MaxConcurrentOpens = 1
    AutoStart = TRUE
INVARIANTS
    CloseClosesAllShards
CHECK_DEADLOCK FALSE
