SPECIFICATION Spec
CONSTANTS
    None = None
    Interval <- TwoTiers
    MaxDuration = 3
    MaxPages = 2
    MaxNow = 4
    MaxEvents = 4
INVARIANTS DurationWithinStay HeartbeatSound
CHECK_DEADLOCK FALSE
