SPECIFICATION FairSpec
CONSTANTS
    Classes = {c1}
    Seats = 2
    Capacity <- MCCapacity
    Projectors = {p1, p2}
    MaxRows = 5
    Limit = 2
    MaxFaults = 1
CHECK_DEADLOCK FALSE
INVARIANTS
    CountConservation
    NextBatchFits
PROPERTIES
    ProjectedUnlessOverlap
