SPECIFICATION Spec
CONSTANTS
    Good = Good
    Bad = Bad
    Pmks = {Good}
    ApPmk = Good
    StaPmfModes = {"OPTIONAL"}
    ApPmfModes = {"DISABLED", "REQUIRED"}
    Tids = {0}
    MaxFresh = 6
    MaxInits = 0
    MaxPn = 1
    MaxIpn = 1
INVARIANTS SmeInv GroupAgreement
PROPERTIES ProtectedTeardown M4ConfirmsM3 NoReplayedDelivery NoNonceReuse ImplementsLink
CHECK_DEADLOCK FALSE
