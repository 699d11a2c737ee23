SPECIFICATION Spec
CONSTANTS
    Handlers = {p1, p2}
    Users = {u1}
    MaxSid = 2
    MaxTime = 6
    MaxRequests = 3
    MaxErrors = 0
    Second = 2
    IdleTtl = 2
    AbsoluteTtl = 2
    ClockSkew = 0
    GracePeriod = 1
    Methods = {"read", "write", "signout", "signoutAll", "keepAlive", "badCsrf"}
    Bindings = {"same", "ua"}
    NoSession = NoSession
SYMMETRY Symmetry
INVARIANTS
    TypeOK
    KeyEndsWithSession
