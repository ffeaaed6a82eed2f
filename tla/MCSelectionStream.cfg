SPECIFICATION FairSpec
CONSTANTS
    Workers = {w1, w2}
    N = 3
    Scenarios <- MCScenarios
    BatchSize = 2
    MaxFaults = 2
INVARIANTS
    NothingLost
    OnlyFaultyDeadLettered
PROPERTIES
    EventuallySettled
