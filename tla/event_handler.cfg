\* Events of one transfer on three topics, a fault, a signal, and each of the services.
SPECIFICATION FairSpec
CONSTANTS
    t1 = t1
    Ids <- OneId
    Inputs <- SomeEvents
    BatchSize = 2
    MaxEvents = 2
    MaxSignals = 1
    MaxFaults = 1
INVARIANTS
    EventHandlerTypeOK
    ServesOnlyWhenReady
    CommandsFollowEvents
    OneCommandEach
PROPERTIES
    LostOnlyWithItsBatch
    EveryMessageAcknowledged
CHECK_DEADLOCK FALSE
