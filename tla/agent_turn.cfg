SPECIFICATION Spec
CONSTANTS
    MaxTurns = 2
    MaxTokens = 2
    MaxRetries = 1
    LongestText = 4
    Response <- Responses
INVARIANTS
    TypeOK
    NoTokenLost
    CallsAccounted
    ProviderAccounted
CHECK_DEADLOCK FALSE
