SPECIFICATION Spec
CONSTANTS
    Handlers = {p1}
    Users = {u1}
    MaxSid = 3
    MaxTime = 1
    MaxRequests = 2
    MaxErrors = 0
    Second = 1
    IdleTtl = 2
    AbsoluteTtl = 3
    ClockSkew = 0
    GracePeriod = 1
    Methods = {"signout"}
    Bindings = {"same", "ip"}
    NoSession = NoSession
PROPERTY SignedOutIsOut
