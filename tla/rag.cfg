SPECIFICATION Spec
CONSTANTS
    r1 = r1
    r2 = r2
    w1 = w1
    w2 = w2
    LongestText = 5
    LargestChunk = 3
    Request = {r1, r2}
    Worker = {w1, w2}
    MaxRetries = 3
    TopK = 2
    MaxContext = 3
    Settings <- Instances
    NoRequest = NoRequest
    NoMessage = NoMessage
SYMMETRY Interchangeable
INVARIANTS
    TypeOK
    IndexCoversDocument
    OneIngestion
    SettledAsParsed
    QueryAccounted
CHECK_DEADLOCK FALSE
