CONSTANTS
    Attempt = {a1, a2, a3}
    Key = {k1, k2}
    NoKey = NoKey
    Nobody = Nobody
    Fingerprint = {transfer, adjust}
    Optional = {adjust}
    Faults = {"crash", "lateFailure", "completeFails", "releaseFails", "expiry"}
SPECIFICATION FairSpec
INVARIANTS
    OneHandlerPerKey
    ReplayIsOfTheSameRequest
    FailureFreesKey
    GuardedKeyMovesOnce
PROPERTIES
    ImplementsAtomicKeys
    EveryAttemptAnswered
