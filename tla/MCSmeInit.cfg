SPECIFICATION Spec
CONSTANTS
    Good = Good
    Bad = Bad
    Pmks = {Good, Bad}
    ApPmk = Good
    StaPmfModes = {"DISABLED"}
    ApPmfModes = {"DISABLED", "REQUIRED"}
    Tids = {0}
    MaxFresh = 5
    MaxInits = 1
    MaxPn = 0
    MaxIpn = 0
INVARIANTS KeyAgreement RequiredMfp
PROPERTIES ImplementsView
CHECK_DEADLOCK FALSE
