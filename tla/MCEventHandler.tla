---------------------------- MODULE MCEventHandler ----------------------------
(***************************************************************************)
(* Values for the constants of EventHandler, for TLC.                      *)
(***************************************************************************)
EXTENDS EventHandler

CONSTANTS t1

OneId == {t1}
SomeEvents ==
    {"TransferPrepareRequestedEvt", "TransferFulfilRequestedEvt", "TransferTimeoutEvt",
     "TransferPreparedEvt"}
=============================================================================
