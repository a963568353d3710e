SPECIFICATION FairSpec
CONSTANTS
    MaxGroups = 2
    Shards = {0}
    Layouts <- OneShard
    ShardConnectRetries = 0
    MaxReconnects = 0
    MaxStops = 1
    MaxConcurrentOpens = 2
    AutoStart = TRUE
INVARIANTS
    TeardownHasReplacement
PROPERTIES
    ImplementsRollingRestart
    
CHECK_DEADLOCK FALSE
