SPECIFICATION Spec
CONSTANTS
    Managers = {m1, m2}
    Guilds = {g1}
    Roles = {r1}
    Channels = {ch1}
    Users = {u1}
    Everyone = everyone
    Self = self
    None = none
    CacheMembers = TRUE
    StoreMutuals = TRUE
    MaxChanges = 3
INVARIANTS
    TypeOK
    TheUsedStay
    PlainPartsMatch
    MembersMatch
SYMMETRY Symmetry
CHECK_DEADLOCK FALSE
