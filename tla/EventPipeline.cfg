SPECIFICATION PipelineFairSpec
CONSTANTS
    Events = {1}
    Relays = {r1, r2}
    BatchSize = 1
    MaxFaults = 1
    Consumers = {w1, w2}
    MaxRetries = 1
    MaxSent = 8
    QueueFaults = 2
    NoMessage = NoMessage
CHECK_DEADLOCK FALSE
INVARIANTS
    PublishedIsUnderWay
    DeadOnlyWhenExhausted
PROPERTIES
    EventuallyPublished
    ImplementsNotification
