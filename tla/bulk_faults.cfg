\* A bulk transfer of one transfer: every command, a fault or a crash anywhere.
SPECIFICATION BulkSpec
CONSTANTS
    t1 = t1
    t2 = t2
    t3 = t3
    b1 = b1
    b2 = b2
    Transfers <- OneTransfer
    Bulks <- OneBulk
    Members <- OneMember
    Inputs <- Queries
    BulkInputs <- AllBulkCommands
    PayeeWaits <- Answers
    PayerOnce = FALSE
    BatchSize = 2
    MaxCommands = 3
    MaxFaults = 1
    CountsNoops = TRUE
    AckOnFailure = TRUE
    EarlyReminders = FALSE
INVARIANTS
    BulkTypeOK
    PreparedCountedOnce
    BulkPreparedBacked
    BulkFulfilledBacked
    StateIsBacked
CHECK_DEADLOCK FALSE
