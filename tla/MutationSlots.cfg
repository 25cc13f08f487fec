SPECIFICATION SlotsFairSpec
CONSTANTS
    p1 = p1
    p2 = p2
    p3 = p3
    Gone = Gone
    Procs = {p1, p2, p3}
    Permits = 2
    HardLimit = 2
    MaxAcquires = 6
INVARIANTS PermitsAccounted OvershootBounded
PROPERTY ServedUnlessLeaked
CHECK_DEADLOCK FALSE
