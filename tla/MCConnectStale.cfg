SPECIFICATION Spec
CONSTANTS
    Keys = {k1, k2}
    NoKey = NoKey
    MaxPolls = 1
    MaxConnects = 2
    MaxPn = 0
    MayRejoin = FALSE
    MayAddKey = FALSE
    MayUnplug = FALSE
INVARIANTS ChipKeyOfThisConnect
CHECK_DEADLOCK FALSE
