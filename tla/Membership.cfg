SPECIFICATION Spec
CONSTANTS
    Users = {u1, u2, u3}
    Emails = {"founder", "other"}
    Address <- FounderAddress
    Founder = u1
    Requests = {r1, r2}
    Invites = {i1}
    MaxOps = 4
    None = None
INVARIANTS
    OwnerKept
    RemovalSticks
    RevocationHolds
SYMMETRY
    Interchangeable
CHECK_DEADLOCK FALSE
