SPECIFICATION MCSpec
CONSTANTS
    Keys = {k1, k2, k3}
    NoKey = NoKey
    Entities = {e1, e2, e3}
    RecoveryTimelock = 1
    MaxEntities = 3
    KeyWrap = 3
    MaxBatch = 2
    MaxTime = 2
INVARIANTS WalletTypeOK PausedHasWayOut BitsAgree VetoCanBeGiven LockoutNeedsKeyless
PROPERTIES PolicySpec RecoverySpec
SYMMETRY Symmetry
CHECK_DEADLOCK FALSE
