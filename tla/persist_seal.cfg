SPECIFICATION Spec
CONSTANTS
    RotateAt = 2
    MaxEvents = 3
    FaultKinds = {"stop"}
    MaxFaults = 1
INVARIANT NothingIsLost
CHECK_DEADLOCK FALSE
