\* A Fulfil and a Timeout of the same transfer in one batch.
SPECIFICATION Spec
CONSTANTS
    t1 = t1
    t2 = t2
    Transfers <- OneTransfer
    Inputs <- PrepareFulfilTimeout
    BatchSize = 2
    MaxCommands = 3
    MaxFaults = 0
    CountsNoops = TRUE
    AckOnFailure = FALSE
    EarlyReminders = FALSE
INVARIANTS
    OneOutcome
CHECK_DEADLOCK FALSE
