\* The second Fulfil of a bulk transfer counts its first transfer again.
SPECIFICATION BulkSpec
CONSTANTS
    t1 = t1
    t2 = t2
    t3 = t3
    b1 = b1
    b2 = b2
    Transfers <- TwoTransfers
    Bulks <- OneBulk
    Members <- TwoMembers
    Inputs <- NoInputs
    BulkInputs <- PreparesAndFulfils
    PayeeWaits <- Answers
    PayerOnce = TRUE
    BatchSize = 1
    MaxCommands = 3
    MaxFaults = 0
    CountsNoops = TRUE
    AckOnFailure = FALSE
    EarlyReminders = FALSE
INVARIANTS
    CompletedMeansAllProcessed
CHECK_DEADLOCK FALSE
