SPECIFICATION Spec
CONSTANTS
    Handlers = {p1, p2}
    Users = {u1}
    MaxSid = 3
    MaxTime = 3
    MaxRequests = 3
    MaxErrors = 1
    Second = 1
    IdleTtl = 2
    AbsoluteTtl = 3
    ClockSkew = 0
    GracePeriod = 1
    Methods = {"read", "write", "signout", "signoutAll", "keepAlive"}
    Bindings = {"same", "ip"}
    NoSession = NoSession
SYMMETRY Symmetry
INVARIANTS
    AbsoluteCap
    SuccessorFirst
    MetricCountsSessions
    DestroyedStaysDestroyed
PROPERTIES
    ValidEndsByUser
