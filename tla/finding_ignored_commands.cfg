\* Ignored commands end in a store that changes nothing.
SPECIFICATION FairSpec
CONSTANTS
    t1 = t1
    t2 = t2
    Transfers <- OneTransfer
    Inputs <- PrepareFulfilTimeout
    BatchSize = 1
    MaxCommands = 3
    MaxFaults = 0
    CountsNoops = FALSE
    AckOnFailure = FALSE
    EarlyReminders = FALSE
PROPERTIES
    EveryCommandAcknowledged
CHECK_DEADLOCK FALSE
