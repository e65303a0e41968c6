SPECIFICATION Spec
CONSTANTS
    Passkeys = {p1}
    YubiKeys = {y1}
    Eoas = {e1}
    NoMethod = NoMethod
    Operators = {op}
    NoOperator = NoOperator
    Delays = {0, 2}
    TimelockDelay = 1
    MaxMethods = 2
    MaxTime = 3
INVARIANT ReadyCanExecute
