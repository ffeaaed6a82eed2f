SPECIFICATION FairSpec
CONSTANTS
    Workers = {w1}
    N = 2
    Scenarios <- MCDuplicate
    BatchSize = 2
    MaxFaults = 0
PROPERTIES
    PlainEventuallySaved
