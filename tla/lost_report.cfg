SPECIFICATION FairSpec
CONSTANTS
    w1 = w1
    w2 = w2
    Workers <- BothWorkers
    Keyed <- OneKey
    NoWorker = NoWorker
    AllowPartial = FALSE
    Rails = {"evm"}
    Amounts = {1}
    MaxReceived = 1
    MaxTx = 2
    MaxRetries = 2
    FaultKinds = {"lost"}
    MaxFaults = 1
PROPERTY PayoutIsReported
CHECK_DEADLOCK FALSE
