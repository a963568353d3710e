SPECIFICATION Spec
CONSTANTS
    Sessions = {c1, c2}
    None = none
    Buffer = 1
    MaxEvents = 3
    MaxCloses = 1
INVARIANTS
    TypeOK
    NoEventMissed
    PublishIsUndisturbed
SYMMETRY MCSymmetry
CHECK_DEADLOCK FALSE
