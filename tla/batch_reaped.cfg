SPECIFICATION Spec
CONSTANTS
    r1 = r1
    w1 = w1
    w2 = w2
    Run = {r1}
    Worker = {w1, w2}
    MaxRetries = 1
    MaxAttempts = 1
    MaxCrashes = 1
    MaxCopies = 1
    NoRun = NoRun
    NoMessage = NoMessage
    Environments <- JustReaper
PROPERTIES
    SuccessIsKept
CHECK_DEADLOCK FALSE
