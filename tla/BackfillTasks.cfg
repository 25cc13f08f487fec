SPECIFICATION FairSpec
CONSTANTS
    t1 = t1
    t2 = t2
    w1 = w1
    None = None
    Tasks = {t1, t2}
    Workspaces = {w1}
    Lookback = 3
    ChunkSize = 2
    MaxRestarts = 1
INVARIANTS  LockWorks
PROPERTIES TerminalOverwrites TasksSettle
CHECK_DEADLOCK FALSE
