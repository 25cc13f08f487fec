SPECIFICATION SenderSpec
CONSTANTS
    Tabs = {t1, t2}
    MaxQueue = 2
    TTL = 0
    MaxMade = 3
    MaxClock = 1
    MaxFlips = 3
    Nil = Nil
INVARIANTS
    NothingVanishes
    RepeatsAreExplained
SYMMETRY
    TabSymmetry
CHECK_DEADLOCK FALSE
