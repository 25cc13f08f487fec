SPECIFICATION FairSpec
CONSTANTS
    s1 = s1
    s2 = s2
    r1 = r1
    r2 = r2
    q1 = q1
    Subs = {s1}
    Runners = {r1, r2}
    Requests = {q1}
    Enabled = TRUE
    FailLimit = 2
    MaxNow = 1
    MaxThrown = 2
    MaxAborts = 1
    MaxEdits = 1
INVARIANTS ServedBelowLimit ActiveIsScheduled FailuresExplain
PROPERTY DueIsHandled
CHECK_DEADLOCK FALSE
