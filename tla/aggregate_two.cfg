\* Two transfers in one batch: what one transfer's commands do to the other.
SPECIFICATION Spec
CONSTANTS
    t1 = t1
    t2 = t2
    Transfers <- TwoTransfers
    Inputs <- PrepareAndFulfil
    BatchSize = 2
    MaxCommands = 3
    MaxFaults = 1
    CountsNoops = TRUE
    AckOnFailure = TRUE
    EarlyReminders = FALSE
SYMMETRY Symmetry
INVARIANTS
    StateIsBacked
    NotificationsBacked
CHECK_DEADLOCK FALSE
