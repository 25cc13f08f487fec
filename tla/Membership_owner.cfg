SPECIFICATION Spec
CONSTANTS
    Users = {u1, u2}
    Emails = {"founder", "other"}
    Address <- FounderAddress
    Founder = u1
    Requests = {r1}
    Invites = {i1, i2}
    MaxOps = 7
    None = None
INVARIANTS
    AlwaysOwned
CHECK_DEADLOCK FALSE
