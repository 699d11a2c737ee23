SPECIFICATION Spec
CONSTANTS
    Handlers = {p1, p2}
    Users = {u1}
    MaxSid = 2
    MaxTime = 1
    MaxRequests = 3
    MaxErrors = 0
    Second = 1
    IdleTtl = 2
    AbsoluteTtl = 3
    ClockSkew = 0
    GracePeriod = 1
    Methods = {"signoutAll", "keepAlive"}
    Bindings = {"same"}
    NoSession = NoSession
SYMMETRY Symmetry
INVARIANT IndexCoversLive
