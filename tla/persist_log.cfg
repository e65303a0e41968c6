SPECIFICATION Spec
CONSTANTS
    RotateAt = 2
    MaxEvents = 6
    FaultKinds = {"stop", "tear"}
    MaxFaults = 3
INVARIANTS TypeOK ReplayIsHistory AckedSurvive
CHECK_DEADLOCK FALSE
