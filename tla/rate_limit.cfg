SPECIFICATION Spec
CONSTANTS
    Request = {r1, r2, r3, r4}
    User = {u1, u2}
    NoUser = NoUser
    Limit = 2
    Window = 2
    Promptness = {TRUE, FALSE}
    MaxClock = 5
SYMMETRY Interchangeable
INVARIANTS
    TypeOK
    WindowLimit
    RefusalJustified
CHECK_DEADLOCK FALSE
