SPECIFICATION Spec

CONSTANTS
    q1 = q1
    q2 = q2
    q3 = q3
    q4 = q4
    Calls <- MCCalls
    Concurrency = 1
    QueueSize = 1
    Kinds <- MCForbidden

PROPERTIES
    DrainWaits
