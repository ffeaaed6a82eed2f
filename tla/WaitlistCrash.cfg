SPECIFICATION FairSpec
CONSTANTS
    Students = {s0, s1}
    Enrolled = {s0}
    Requests = {r1}
    Workers = {w1, w2}
    BatchSize = 2
    Capacity = 1
    MaxEntries = 2
    MaxFailures = 1
INVARIANT CrashedPromotionReused
