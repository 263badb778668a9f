SPECIFICATION FairSpec
CONSTANTS
    r1 = r1
    r2 = r2
    w1 = w1
    w2 = w2
    LongestText = 5
    LargestChunk = 3
    Request = {r1, r2}
    Worker = {w1}
    MaxRetries = 1
    TopK = 2
    MaxContext = 3
    Settings <- Contended
    NoRequest = NoRequest
    NoMessage = NoMessage
PROPERTIES
    AcceptedIsIngested
CHECK_DEADLOCK FALSE
