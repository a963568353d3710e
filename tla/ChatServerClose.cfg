SPECIFICATION FairSpec
CONSTANTS
    Sessions = {c1, c2}
    None = none
    Buffer = 1
    MaxEvents = 0
    MaxCloses = 1
PROPERTIES
    CloseShardClosesAll
CHECK_DEADLOCK FALSE
