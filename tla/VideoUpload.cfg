SPECIFICATION FairSpec
CONSTANTS
    MaxUploads = 2
    Parts = {p1}
    Completers = {c1, c2}
    Cleaners = {k1, k2}
    Limit = 1
    MaxFailures = 1
CHECK_DEADLOCK FALSE
INVARIANTS ReadyHasObject CleanedHasNothing UploadingIsUnderWay
PROPERTIES LeftoversRemoved
