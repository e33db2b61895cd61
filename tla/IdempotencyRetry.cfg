CONSTANTS
    Attempt = {a1, a2, a3}
    Key = {k1}
    NoKey = NoKey
    Nobody = Nobody
    Fingerprint = {transfer, adjust}
    Optional = {adjust}
    Faults = {"completeFails"}
SPECIFICATION Spec
INVARIANTS
    MovedOnce
