SPECIFICATION Spec
CONSTANTS
    Good = Good
    Bad = Bad
    Pmks = {Good}
    ApPmk = Good
    StaPmfModes = {"OPTIONAL", "REQUIRED"}
    ApPmfModes = {"DISABLED"}
    Tids = {0}
    MaxFresh = 4
    MaxInits = 1
    MaxPn = 0
    MaxIpn = 0
INVARIANTS RequiredMfp
CHECK_DEADLOCK FALSE
