SPECIFICATION FairSpec
CONSTANTS
    r1 = r1
    r2 = r2
    k1 = k1
    p1 = p1
    p2 = p2
    Run = {r1, r2}
    Process = {p1}
    Key = {k1}
    KeyOf <- KeyOfTwo
    MaxConcurrency = 2
    NoRun = NoRun
    NoProcess = NoProcess
    Environments <- LivenessMixes
PROPERTIES
    ResourcesReturned
    RunningConverges
CHECK_DEADLOCK FALSE
