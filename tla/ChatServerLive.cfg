SPECIFICATION FairSpec
CONSTANTS
    Sessions = {c1, c2}
    None = none
    Buffer = 1
    MaxEvents = 1
    MaxCloses = 0
PROPERTIES
    PublishReturns
    DisconnectedIsForgotten
CHECK_DEADLOCK FALSE
