SPECIFICATION FairSpec
CONSTANTS
    w1 = w1
    w2 = w2
    c1 = c1
    c2 = c2
    Workspaces = {w1, w2}
    Callers = {c1, c2}
    MaxBufferSize = 2
    MaxRetained = 2
    MaxBatch = 2
    MaxEvents = 3
INVARIANTS SingleFlight Pipeline RetentionKept RequeuedHasTimer ShutdownFlushesIdle
PROPERTIES ImplementsEventLog Progress
CHECK_DEADLOCK FALSE
