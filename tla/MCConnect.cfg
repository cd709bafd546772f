SPECIFICATION Spec
CONSTANTS
    Keys = {k1, k2}
    NoKey = NoKey
    MaxPolls = 1
    MaxConnects = 2
    MaxPn = 1
    MayRejoin = TRUE
    MayAddKey = TRUE
    MayUnplug = TRUE
INVARIANTS
    TypeOK
    PollerArmed
    ChipKeyUnraced
PROPERTIES
    NoChipNonceReuse
    EveryConnectEnds
CHECK_DEADLOCK FALSE
