--------------------------- MODULE TransferLifecycle ---------------------------
(***************************************************************************)
(* What the command handler promises about transfers, whatever batches,    *)
(* caches, retries and crashes are behind it: how the stored state of a    *)
(* transfer moves (TransferState in public-types-lib/src/enums.ts), what   *)
(* A&B must have accepted before it moves there, and when the other        *)
(* services are told.  TransfersAggregate implements it.                   *)
(***************************************************************************)
CONSTANT Transfers

VARIABLES
    state,      \* the stored state of each transfer
    reserved,   \* transfers whose reservation A&B accepted
    posted,     \* transfers whose commit A&B accepted
    prepared,   \* transfers announced by TransferPreparedEvt
    fulfilled   \* transfers announced by TransferFulfiledEvt

lifecycleVars == <<state, reserved, posted, prepared, fulfilled>>

LifecycleStates == {"ABSENT", "RECEIVED", "RESERVED", "COMMITTED", "ABORTED"}

\* Nothing is deleted, nothing goes back to RECEIVED, and a transfer stored as RECEIVED
\* is never reserved.  A final state may be replaced by the other one.
LifecycleSteps ==
    {<<"ABSENT", "RECEIVED">>, <<"ABSENT", "RESERVED">>, <<"ABSENT", "COMMITTED">>,
     <<"ABSENT", "ABORTED">>, <<"RECEIVED", "COMMITTED">>, <<"RECEIVED", "ABORTED">>,
     <<"RESERVED", "COMMITTED">>, <<"RESERVED", "ABORTED">>,
     <<"COMMITTED", "ABORTED">>, <<"ABORTED", "COMMITTED">>}

LifecycleInit ==
    /\ state = [t \in Transfers |-> "ABSENT"]
    /\ reserved = {}
    /\ posted = {}
    /\ prepared = {}
    /\ fulfilled = {}

\* A&B accepts reservations, of transfers that are not stored yet, and commits.
Account ==
    /\ \E new \in SUBSET {t \in Transfers : state[t] = "ABSENT"} : reserved' = reserved \cup new
    /\ \E new \in SUBSET Transfers : posted' = posted \cup new
    /\ UNCHANGED <<state, prepared, fulfilled>>

Backed(t, s) ==
    /\ s = "RESERVED" => t \in reserved
    /\ s = "COMMITTED" => t \in posted

\* Some transfers are stored in a new state.
Record ==
    /\ state' \in [Transfers -> LifecycleStates]
    /\ \A t \in Transfers :
          state'[t] # state[t] =>
              <<state[t], state'[t]>> \in LifecycleSteps /\ Backed(t, state'[t])
    /\ UNCHANGED <<reserved, posted, prepared, fulfilled>>

\* The other services are told of what is accepted and stored.
Announce ==
    /\ \E new \in SUBSET {t \in reserved : state[t] \notin {"ABSENT", "RECEIVED"}} :
          prepared' = prepared \cup new
    /\ \E new \in SUBSET {t \in posted : state[t] \in {"COMMITTED", "ABORTED"}} :
          fulfilled' = fulfilled \cup new
    /\ UNCHANGED <<state, reserved, posted>>

LifecycleNext == Account \/ Record \/ Announce

LifecycleSpec == LifecycleInit /\ [][LifecycleNext]_lifecycleVars
=============================================================================
