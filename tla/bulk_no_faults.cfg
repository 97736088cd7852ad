\* Nothing fails: a bulk transfer of two transfers and one of one transfer.
SPECIFICATION BulkFairSpec
CONSTANTS
    t1 = t1
    t2 = t2
    t3 = t3
    b1 = b1
    b2 = b2
    Transfers <- ThreeTransfers
    Bulks <- TwoBulks
    Members <- TwoAndOne
    Inputs <- NoInputs
    BulkInputs <- PreparesFulfilsRejects
    PayeeWaits <- Rejects
    PayerOnce = TRUE
    BatchSize = 2
    MaxCommands = 3
    MaxFaults = 0
    CountsNoops = TRUE
    AckOnFailure = FALSE
    EarlyReminders = FALSE
INVARIANTS
    BulkPreparedBacked
    BulkRejectAccounted
    BulkFulfilAnswered
    CommitsRecorded
PROPERTIES
    EveryCommandAcknowledged
CHECK_DEADLOCK FALSE
