CONSTANTS
    Event = {e1}
    Api = {i1, i2}
    First = i1
    Worker = Worker
    Copy = {c1, c2, c3}
    None = None
    Prefetch = 2
    MaxRetries = 1
    Budget = 1
    Lossy = {Worker}
    Faults = {"apiCrash", "apiDisconnect", "relayFails", "markFails", "backpressure", "workerCrash", "redisDown", "pushFails"}
SPECIFICATION EitherSpec
SYMMETRY CopySymmetry
INVARIANTS
    NothingLost
    DuplicatesFew
