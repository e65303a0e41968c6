SPECIFICATION FairSpec
CONSTANTS
    w1 = w1
    w2 = w2
    Workers <- BothWorkers
    Keyed <- OneKey
    NoWorker = NoWorker
    AllowPartial = FALSE
    Rails = {"evm", "tron", "solana"}
    Amounts = {1}
    MaxReceived = 2
    MaxTx = 3
    MaxRetries = 5
    FaultKinds = {"rpc", "busy"}
    MaxFaults = 2
PROPERTY PaidIsSwept
CHECK_DEADLOCK FALSE
