\* A Query in the batch of the Prepare it asks about.
SPECIFICATION Spec
CONSTANTS
    t1 = t1
    t2 = t2
    Transfers <- OneTransfer
    Inputs <- PrepareAndQuery
    BatchSize = 2
    MaxCommands = 2
    MaxFaults = 0
    CountsNoops = TRUE
    AckOnFailure = FALSE
    EarlyReminders = FALSE
INVARIANTS
    OriginalCommandKept
CHECK_DEADLOCK FALSE
