SPECIFICATION Spec
CONSTANTS
    w1 = w1
    w2 = w2
    Workers <- BothWorkers
    Keyed <- BothWorkers
    NoWorker = NoWorker
    AllowPartial = FALSE
    Rails = {"evm"}
    Amounts = {1}
    MaxReceived = 2
    MaxTx = 2
    MaxRetries = 2
    FaultKinds = {}
    MaxFaults = 0
INVARIANT OneSweepInFlight
CHECK_DEADLOCK FALSE
