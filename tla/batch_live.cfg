SPECIFICATION FairSpec
CONSTANTS
    r1 = r1
    w1 = w1
    w2 = w2
    Run = {r1}
    Worker = {w1}
    MaxRetries = 1
    MaxAttempts = 1
    MaxCrashes = 1
    MaxCopies = 2
    NoRun = NoRun
    NoMessage = NoMessage
    Environments <- LivenessMixes
PROPERTIES
    AcceptedConverges
    SettlesForGood
CHECK_DEADLOCK FALSE
