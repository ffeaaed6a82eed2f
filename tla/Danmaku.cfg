SPECIFICATION FairSpec
CONSTANTS
    Messages = {m1}
    Publishers = {p1, p2}
    Readers = {r1}
    Clients = {c1}
    QueueSize = 1
    SendSize = 1
    MaxAttempts = 2
    RetryAttempts = 3
    MaxFailures = 1
CHECK_DEADLOCK FALSE
INVARIANTS StoppedIsDrained GoneIsForgotten PushedOncePerPublish
PROPERTIES ConnectionsEnd HistoryConverges
