---------------------------- MODULE MCBulkTransfers ----------------------------
(***************************************************************************)
(* Values for the constants of BulkTransfers, for TLC.                     *)
(***************************************************************************)
EXTENDS BulkTransfers, TLC

CONSTANTS t1, t2, t3, b1, b2

OneTransfer    == {t1}
TwoTransfers   == {t1, t2}
ThreeTransfers == {t1, t2, t3}

OneBulk    == {b1}
TwoBulks   == {b1, b2}
OneMember  == b1 :> <<t1>>
TwoMembers == b1 :> <<t1, t2>>
TwoAndOne  == b1 :> <<t1, t2>> @@ b2 :> <<t3>>

Rejects == {"RejectBulkTransferCmd"}
Answers == {"CommitBulkTransferFulfilCmd", "RejectBulkTransferCmd"}

NoInputs               == {}
Queries                == {"QueryTransferCmd"}
AllBulkCommands        == BulkCommandNames
PreparesAndFulfils     == {"PrepareBulkTransferCmd", "CommitBulkTransferFulfilCmd"}
PreparesFulfilsRejects == PreparesAndFulfils \cup {"RejectBulkTransferCmd"}
=============================================================================
