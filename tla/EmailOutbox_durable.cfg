SPECIFICATION Spec

CONSTANTS
    Rows <- MCRows
    MaxAttempts = 2
    Batch = 2
    MaxErrors = 0
    MaxCalls = 0
    MaxStops = 1
    MaxSwitches = 0

PROPERTIES
    Durable
