\* One transfer, every command, a fault or a crash anywhere in the batch.
SPECIFICATION Spec
CONSTANTS
    t1 = t1
    t2 = t2
    Transfers <- OneTransfer
    Inputs <- AllCommands
    BatchSize = 2
    MaxCommands = 3
    MaxFaults = 1
    CountsNoops = FALSE
    AckOnFailure = TRUE
    EarlyReminders = TRUE
INVARIANTS
    TypeOK
    StateIsBacked
    NotificationsBacked
    ContinueFindsTransfer
    ReservesOnceUntilStored
PROPERTIES
    ImplementsLifecycle
    FinalStatesLeftOnlyByPayee
CHECK_DEADLOCK FALSE
