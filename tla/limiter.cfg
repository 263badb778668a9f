SPECIFICATION Spec
CONSTANTS
    x1 = x1
    x2 = x2
    x3 = x3
    Call = {x1, x2, x3}
    Minute = 1
    RpmRate = 1
    TpmRate = 2
    Needs = {1, 2}
    Debits = {0, 1}
    RetryAfters = {2}
    GateBudget = 1
    FailOpen = FALSE
    Promptness = {TRUE}
    MaxClock = 3
SYMMETRY Calls
INVARIANTS
    TypeOK
    WindowRespected
PROPERTIES
    DebtObserved
    BackoffRespected
CHECK_DEADLOCK FALSE
