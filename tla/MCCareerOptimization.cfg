SPECIFICATION FairSpec
CONSTANTS
    r1 = r1
    r2 = r2
    r3 = r3
    k1 = k1
    k2 = k2
    None = None
    Requests = {r1, r2}
    Keys = {k1, k2}
    TTL = 1
    MaxEntries = 1
    MaxTime = 1
    MaxBatches = 3
INVARIANTS
    FlightsOwned
    WaitsForSomeone
PROPERTIES
    AnswersAreRecent
    NewestKept
    EveryRequestAnswered
CHECK_DEADLOCK FALSE
