CONSTANTS
    Event = {e1}
    Api = {i1}
    Worker = Worker
    Copy = {c1, c2}
    None = None
    Prefetch = 2
    MaxRetries = 1
    Budget = 1
    Lossy = {Worker}
    Faults = {"apiCrash", "apiDisconnect", "relayFails", "markFails", "workerCrash", "redisDown", "pushFails"}
SPECIFICATION FairSpec
PROPERTIES
    Delivered
