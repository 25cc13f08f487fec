SPECIFICATION FairSpec
CONSTANTS
    Requests = {r1, r2}
    Emails = {m1, m2}
    Names = {n1}
    MaxAttempts = 2
    MaxFaults = 2
    None = None
INVARIANTS
    RolledBackIsClean
    ProvisionedIsWhole
    TwinsOverlapped
PROPERTIES
    Answers
CHECK_DEADLOCK FALSE
