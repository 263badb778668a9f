SPECIFICATION Spec
CONSTANTS
    r1 = r1
    r2 = r2
    k1 = k1
    p1 = p1
    p2 = p2
    Run = {r1, r2}
    Process = {p1, p2}
    Key = {k1}
    KeyOf <- KeyOfTwo
    MaxConcurrency = 1
    NoRun = NoRun
    NoProcess = NoProcess
    Environments <- SafetyMixes
SYMMETRY Interchangeable
INVARIANTS
    TypeOK
    SlotsAccounted
    ConversationExclusive
    ReaperSparesLive
    AnnouncedSuccessIsStored
PROPERTIES
    OnlyOwnerReleases
    KeepsLifecycle
CHECK_DEADLOCK FALSE
