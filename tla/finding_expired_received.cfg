\* An expired transfer whose reservation was never answered.
SPECIFICATION Spec
CONSTANTS
    t1 = t1
    t2 = t2
    Transfers <- OneTransfer
    Inputs <- PrepareAndTimeout
    BatchSize = 1
    MaxCommands = 3
    MaxFaults = 1
    CountsNoops = TRUE
    AckOnFailure = FALSE
    EarlyReminders = FALSE
INVARIANTS
    ExpiredNotLeftReceived
CHECK_DEADLOCK FALSE
