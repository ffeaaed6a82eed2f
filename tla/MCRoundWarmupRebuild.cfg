SPECIFICATION FairSpec
CONSTANTS
    c1 = c1
    c2 = c2
    Classes = {c1, c2}
    Students <- MCStudents
    Workers = {w1, w2}
    Versions = {1, 2, 3}
    NoVersion = 0
    Capacity <- MCCapacity
    Profile <- MCProfile
    Rule <- MCRule
    PageSize = 1
    MaxFailures = 2
CHECK_DEADLOCK FALSE
INVARIANT UsedVersionKept
