------------------------ MODULE MCTransfersAggregate ------------------------
(***************************************************************************)
(* Values for the constants of TransfersAggregate, for TLC.                *)
(***************************************************************************)
EXTENDS TransfersAggregate, TLC

CONSTANTS t1, t2

OneTransfer  == {t1}
TwoTransfers == {t1, t2}

Symmetry == Permutations(TwoTransfers)

AllCommands == CommandNames
LifecycleCommands ==
    {"PrepareTransferCmd", "CommitTransferFulfilCmd", "RejectTransferCmd", "TimeoutTransferCmd"}
PrepareAndQuery == {"PrepareTransferCmd", "QueryTransferCmd"}
PrepareAndTimeout == {"PrepareTransferCmd", "TimeoutTransferCmd"}
PrepareAndFulfil == {"PrepareTransferCmd", "CommitTransferFulfilCmd"}
PrepareFulfilTimeout ==
    {"PrepareTransferCmd", "CommitTransferFulfilCmd", "TimeoutTransferCmd"}
=============================================================================
