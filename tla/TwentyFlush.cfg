SPECIFICATION TwentyFairSpec
CONSTANTS
    d1 = d1
    d3 = d3
    d4 = d4
    p1 = p1
    TwentyDeliveries = {d1, d3, d4}
    Persons = {p1}
    Who <- WhoOne
    Milestones <- MilestonesUpToTwo
    Signups = {d1}
    BatchSize = 2
    Budget = 2
    MaxMinutes = 1
    TwentyMaxAttempts = 2
    MaxFaults = 1
INVARIANTS  DrainWithinBudget
PROPERTY TwentySettles
CHECK_DEADLOCK FALSE
