SPECIFICATION Spec
CONSTANTS
    r1 = r1
    r2 = r2
    r3 = r3
    u1 = u1
    u2 = u2
    k1 = k1
    c1 = c1
    c2 = c2
    Request = {r1, r2, r3}
    User = {u1, u2}
    Key = {k1}
    Conversation = {c1, c2}
    Owner <- OwnerOfOne
    Body <- SomeBodies
    Input <- SomeInput
    RuntimeMode = "auto"
    MockProvider = FALSE
    DegradeToBatch = TRUE
    NoRequest = NoRequest
    NoKey = NoKey
    NotAsked = NotAsked
    NoConversation = NoConversation
SYMMETRY Interchangeable
INVARIANTS
    TypeOK
    NothingLeftBehind
PROPERTIES
    BusyMeansAnother
    OncePerKey
CHECK_DEADLOCK FALSE
