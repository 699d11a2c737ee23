SPECIFICATION Spec

CONSTANTS
    i1 = i1
    i2 = i2
    i3 = i3
    i4 = i4
    w1 = w1
    w2 = w2
    NoItem = NoItem
    MaxSize = 1
    MaxAttempts = 2
    Items <- MCItems
    Workers <- MCWorkers

INVARIANTS
    TypeOK
    SinglePlace
    NoIdleWorker
    

PROPERTIES
    
    Implements
    WaiterLetIn
    Settled
