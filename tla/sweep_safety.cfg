SPECIFICATION Spec
CONSTANTS
    w1 = w1
    w2 = w2
    Workers <- BothWorkers
    Keyed <- BothWorkers
    NoWorker = NoWorker
    AllowPartial = FALSE
    Rails = {"evm", "solana"}
    Amounts = {1}
    MaxReceived = 2
    MaxTx = 2
    MaxRetries = 2
    FaultKinds = {"rpc", "receipt", "lost", "busy", "crash", "restore"}
    MaxFaults = 1
SYMMETRY Swap
INVARIANTS TypeOK SweptTxConfirmed PaidIsBacked ReplayMatchesRow NotifyOnce
PROPERTIES SettledIsFinal LifecycleSpec
CHECK_DEADLOCK FALSE
