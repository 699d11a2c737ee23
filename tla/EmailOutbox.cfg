SPECIFICATION Spec

CONSTANTS
    Rows <- MCRows
    MaxAttempts = 2
    Batch = 2
    MaxErrors = 1
    MaxCalls = 2
    MaxStops = 1
    MaxSwitches = 1

INVARIANTS
    TypeOK
    OneSender
    SendingIsHeld
    SentOnce
    AttemptsBounded
    TimerKept

PROPERTIES
    Settles
