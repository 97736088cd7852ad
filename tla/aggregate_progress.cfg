\* What is answered and released when nothing fails, and acknowledged when something does.
SPECIFICATION FairSpec
CONSTANTS
    t1 = t1
    t2 = t2
    Transfers <- OneTransfer
    Inputs <- LifecycleCommands
    BatchSize = 3
    MaxCommands = 3
    MaxFaults = 1
    CountsNoops = TRUE
    AckOnFailure = FALSE
    EarlyReminders = FALSE
INVARIANTS
    NoSilentLeak
    AcknowledgedPrepareAnswered
PROPERTIES
    EveryCommandAcknowledged
CHECK_DEADLOCK FALSE
