SPECIFICATION FairSpec
CONSTANTS
    e1 = e1
    e2 = e2
    p1 = p1
    f1 = f1
    x1 = x1
    None = None
    Editors = {e1, e2}
    Payloads = {p1}
    Filters = {f1}
    Widgets = {x1}
    Updates <- SomeUpdates
    TTL = 2
    MaxNow = 1
    MaxEdits = 2
    MaxFaults = 1
INVARIANTS JudgementIsFresh
PROPERTIES LayoutKept UncontendedWriteIsSeen ReactivatedByOverlap Activated
CHECK_DEADLOCK FALSE
