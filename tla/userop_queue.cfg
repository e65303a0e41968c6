SPECIFICATION FairSpec
CONSTANTS
    Bundlers = {b1, b2}
    Nobody = Nobody
    FaultKinds = {"rpc", "lost", "busy", "crash", "lease"}
    MaxFaults = 3
    MaxAsks = 3
INVARIANT TypeOK
PROPERTIES OperationSpec OpIsDecided
CHECK_DEADLOCK FALSE
