SPECIFICATION MCSpec
CONSTANTS
    Workers = {w1, w2}
    Requests = {r1}
    Client = client
    Room = 1
    MaxJobs = 2
    MaxStarts = 1
    MaxFaults = 1
INVARIANTS JobsTypeOK RequestFollowsChain ClaimedIsHeld
PROPERTIES QueueSpec RecoverySpec JobDecided DueIsExecuted
CHECK_DEADLOCK FALSE
