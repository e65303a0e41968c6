SPECIFICATION MCSpec
CONSTANTS
    i1 = i1
    i2 = i2
    t1 = t1
    t2 = t2
    Invoices = {i1, i2}
    NoInvoice = NoInvoice
    Ticks = {t1, t2}
    Price = 1
    Confirmations = 1
    Overlap = 1
    Chunk = 1
    MaxHeight = 3
    MaxDeposits = 2
    MaxFaults = 1
INVARIANTS LegacyTypeOK NodeFollowsChain ScanComplete
PROPERTY PaymentsArrive
CHECK_DEADLOCK FALSE
