SPECIFICATION SeenFairSpec
CONSTANTS
    MaxEvents = 3
    MaxDisturbances = 2
    MaxSilences = 1
    MaxCloses = 1
    ShardConnectRetries = 1
INVARIANTS
    TypeOK
    UpIsAttended
PROPERTIES
    NoEventSkipped
    Recovers
    ImplementsShardLife
CHECK_DEADLOCK FALSE
