SPECIFICATION FairSpec
CONSTANTS
    d1 = d1
    d2 = d2
    h1 = h1
    h2 = h2
    None = None
    Deliveries = {d1, d2}
    Hooks = {h1, h2}
    MaxAttempts = 2
    Limit = 2
    Unreadable = {h2}
    MaxUpsets = 1
INVARIANTS SuccessWasAccepted AttemptsAccounted
PROPERTY Settles
CHECK_DEADLOCK FALSE
