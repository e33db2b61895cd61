CONSTANTS
    Call = {r1, r2, r3}
    Nobody = Nobody
    REUSE_GRACE = 3
    ACCESS_TTL = 1
    REFRESH_TTL = 4
    MaxTime = 5
    MaxStatusChanges = 2
    MaxLatency = 1
    Faults = {"unreachable", "serverError", "lost"}
SPECIFICATION Spec
SYMMETRY RequestSymmetry
INVARIANTS
    SessionEndsForCause
    SiblingsWithinGrace
PROPERTIES
    UsedOnce
    EndedStaysEnded
