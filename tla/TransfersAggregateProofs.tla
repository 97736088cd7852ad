---------------------- MODULE TransfersAggregateProofs ----------------------
(***************************************************************************)
(* Theorems about TransfersAggregate for every set of transfers, batch     *)
(* size, number of commands and number of faults.                          *)
(***************************************************************************)
EXTENDS TransfersAggregate, SequenceTheorems, TLAPS

-----------------------------------------------------------------------------
(* Documents.                                                               *)

\* What the aggregate and the repository do to a document yields a document.
LEMMA DocTypes ==
    ASSUME NEW d \in Doc, NEW code \in ErrorCodes, NEW s \in States
    PROVE  /\ Mapped(d) \in Doc
           /\ InState(d, s) \in Doc
           /\ Aborted(d, code) \in Doc
           /\ Saved(d) \in Doc
           /\ [d EXCEPT !.errorCode = code] \in Doc
           /\ [d EXCEPT !.touched = TRUE] \in Doc
           /\ NewTransfer(code) \in Doc
           /\ NoDoc \in Doc
BY DEF Doc, Mapped, InState, Aborted, Saved, NewTransfer, NoDoc, States, ErrorCodes, Present

\* What they do to its state.
LEMMA DocStates ==
    ASSUME NEW d \in Doc, NEW code \in ErrorCodes, NEW s \in States
    PROVE  /\ Mapped(d).state = d.state
           /\ InState(d, s).state = s
           /\ Aborted(d, code).state = "ABORTED"
           /\ Saved(d).state = d.state
           /\ [d EXCEPT !.errorCode = code].state = d.state
           /\ [d EXCEPT !.touched = TRUE].state = d.state
           /\ NewTransfer(code).state = "RECEIVED"
           /\ NoDoc.state = "ABSENT"
BY DEF Doc, Mapped, InState, Aborted, Saved, NewTransfer, NoDoc, States, ErrorCodes, Present

\* _getTransfer returns a document, in the state of the cached or the stored one.
LEMMA FoundTypes ==
    ASSUME TypeOK, NEW t \in Transfers
    PROVE  /\ Found(t) \in Doc
           /\ Found(t).state \in {cache[t].state, transfers[t].state}
<1>1. cache[t] \in Doc /\ transfers[t] \in Doc
  BY DEF TypeOK
<1>2. "none" \in ErrorCodes /\ "ABORTED" \in States
  BY DEF ErrorCodes, States
<1>3. Mapped(transfers[t]) \in Doc /\ Mapped(transfers[t]).state = transfers[t].state
  BY <1>1, <1>2, DocTypes, DocStates
<1> QED
  BY <1>1, <1>3 DEF Found

\* updateTransfer stores a document in the state of the one it is given.
LEMMA UpdatedTypes ==
    ASSUME TypeOK, NEW t \in Transfers, NEW d \in Doc
    PROVE  Updated(d, t) \in Doc /\ Updated(d, t).state = d.state
<1>1. transfers[t] \in Doc
  BY DEF TypeOK
<1> QED
  BY <1>1 DEF Updated, Saved, Doc

-----------------------------------------------------------------------------
(* The handlers.                                                            *)

\* The types of what Handling leaves to the handler.
HandlerTypes ==
    /\ cache \in [Transfers -> Doc]
    /\ transfers \in [Transfers -> Doc]
    /\ reminders \in SUBSET Transfers
    /\ faults \in 0..MaxFaults
    /\ abRequests \in Seq(Request)
    /\ cancelRequests \in Seq(Transfers)
    /\ outputEvents \in SUBSET Event

\* A handler never makes a transfer RESERVED or COMMITTED: it keeps the state that is
\* cached or stored, creates a RECEIVED transfer or aborts one.
HandlerStates ==
    \A u \in Transfers :
        /\ cache'[u].state \in {cache[u].state, transfers[u].state,
                                "RECEIVED", "ABORTED", "ABSENT"}
        /\ transfers'[u].state \in {transfers[u].state, "ABORTED"}

LEMMA HandlingTypes ==
    ASSUME TypeOK, NEW t \in Transfers, NEW name \in CommandNames,
           Handling(name, t), HandlerTypes'
    PROVE  TypeOK'
<1>1. batchCommands' \in [Transfers -> CommandNames \cup {"none"}]
  BY DEF TypeOK, Handling, Remembered
<1>2. cursor' \in 0..batchEnd
  BY DEF TypeOK, Handling, InBatch
<1> QED
  BY <1>1, <1>2 DEF TypeOK, Handling, HandlerTypes, input, ledger

LEMMA KeepTypes ==
    ASSUME TypeOK, NEW t \in Transfers, NEW d \in Doc, Keep(t, d),
           d.state \in {cache[t].state, transfers[t].state, "RECEIVED", "ABORTED", "ABSENT"}
    PROVE  /\ cache' \in [Transfers -> Doc]
           /\ \A u \in Transfers :
                 cache'[u].state \in {cache[u].state, transfers[u].state,
                                      "RECEIVED", "ABORTED", "ABSENT"}
BY DEF TypeOK, Keep

LEMMA EmitTypes ==
    ASSUME TypeOK, NEW t \in Transfers, NEW name \in EventNames, Emit(name, t)
    PROVE  outputEvents' \in SUBSET Event
BY DEF TypeOK, Emit, Event

LEMMA FaultTypes ==
    ASSUME TypeOK, Fault \/ NoFault
    PROVE  faults' \in 0..MaxFaults
BY ConstantsAssumption DEF TypeOK, Fault, NoFault

LEMMA AnswerTypes ==
    ASSUME TypeOK, NEW t \in Transfers, NEW d \in Doc, NEW name \in EventNames,
           Answer(t, d, name),
           d.state \in {cache[t].state, transfers[t].state, "RECEIVED", "ABORTED", "ABSENT"}
    PROVE  HandlerTypes' /\ HandlerStates
<1>1. Keep(t, d) /\ Emit(name, t)
  BY DEF Answer
<1>2. outputEvents' \in SUBSET Event
  BY <1>1, EmitTypes
<1> QED
  BY <1>1, <1>2, KeepTypes DEF Answer, TypeOK, HandlerTypes, HandlerStates

LEMMA IgnoreTypes ==
    ASSUME TypeOK, NEW t \in Transfers, Ignore(t)
    PROVE  HandlerTypes' /\ HandlerStates
<1>1. Keep(t, Found(t))
  BY DEF Ignore
<1> QED
  BY <1>1, KeepTypes, FoundTypes DEF Ignore, TypeOK, HandlerTypes, HandlerStates

LEMMA ReadFailsTypes ==
    ASSUME TypeOK, NEW t \in Transfers, ReadFails(t)
    PROVE  HandlerTypes' /\ HandlerStates
<1>1. outputEvents' \in SUBSET Event
  BY EmitTypes DEF ReadFails, EventNames
<1>2. faults' \in 0..MaxFaults
  BY FaultTypes DEF ReadFails
<1> QED
  BY <1>1, <1>2 DEF ReadFails, TypeOK, HandlerTypes, HandlerStates

LEMMA QueueTypes ==
    ASSUME TypeOK, NEW t \in Transfers, QueueCancellation(t)
    PROVE  cancelRequests' \in Seq(Transfers)
BY DEF TypeOK, QueueCancellation

LEMMA CancelFailsTypes ==
    ASSUME TypeOK, NEW t \in Transfers, NEW d \in Doc, NEW code \in ErrorCodes,
           CancelFails(t, d, code), UNCHANGED <<reminders, abRequests>>,
           d.state \in {cache[t].state, transfers[t].state, "RECEIVED", "ABORTED", "ABSENT"}
    PROVE  HandlerTypes' /\ HandlerStates
<1>1. outputEvents' \in SUBSET Event
  BY EmitTypes DEF CancelFails, EventNames
<1>2. CASE CancelRefused(t, d)
  BY <1>1, <1>2, KeepTypes DEF CancelRefused, TypeOK, HandlerTypes, HandlerStates
<1>3. CASE CancelUnsaved(t, d, code)
  <2>1. Aborted(d, code) \in Doc /\ Aborted(d, code).state = "ABORTED"
    BY DocTypes, DocStates DEF States
  <2>2. faults' \in 0..MaxFaults
    BY <1>3, FaultTypes DEF CancelUnsaved
  <2>3. cancelRequests' \in Seq(Transfers)
    BY <1>3, QueueTypes DEF CancelUnsaved
  <2> QED
    BY <1>1, <1>3, <2>1, <2>2, <2>3, KeepTypes
    DEF CancelUnsaved, TypeOK, HandlerTypes, HandlerStates
<1> QED
  BY <1>2, <1>3 DEF CancelFails

LEMMA CancelSavedTypes ==
    ASSUME TypeOK, NEW t \in Transfers, NEW d \in Doc, NEW code \in ErrorCodes,
           NEW name \in EventNames,
           CancelSaved(t, d, code), Emit(name, t), UNCHANGED <<reminders, abRequests>>
    PROVE  HandlerTypes' /\ HandlerStates
<1> DEFINE a == Aborted(d, code)
<1>1. a \in Doc /\ a.state = "ABORTED"
  BY DocTypes, DocStates DEF States
<1>2. Saved(a) \in Doc /\ Saved(a).state = "ABORTED"
  BY <1>1, DocTypes, DocStates DEF States, ErrorCodes
<1>3. Updated(a, t) \in Doc /\ Updated(a, t).state = "ABORTED"
  BY <1>1, UpdatedTypes
<1>4. outputEvents' \in SUBSET Event
  BY EmitTypes
<1>5. faults' \in 0..MaxFaults
  BY FaultTypes DEF CancelSaved
<1>6. cancelRequests' \in Seq(Transfers)
  BY QueueTypes DEF CancelSaved
<1>7. Keep(t, Saved(a)) /\ transfers' = [transfers EXCEPT ![t] = Updated(a, t)]
  BY DEF CancelSaved
<1> HIDE DEF a
<1> QED
  BY <1>2, <1>3, <1>4, <1>5, <1>6, <1>7, KeepTypes DEF TypeOK, HandlerTypes, HandlerStates

LEMMA CancelBecauseTypes ==
    ASSUME TypeOK, NEW t \in Transfers, NEW d \in Doc, NEW code \in ErrorCodes,
           NEW name \in EventNames,
           CancelBecause(t, d, code, name), UNCHANGED <<reminders, abRequests>>,
           d.state \in {cache[t].state, transfers[t].state, "RECEIVED", "ABORTED", "ABSENT"}
    PROVE  HandlerTypes' /\ HandlerStates
BY CancelFailsTypes, CancelSavedTypes DEF CancelBecause

LEMMA CancelAndUpdateTypes ==
    ASSUME TypeOK, NEW t \in Transfers, NEW code \in ErrorCodes, NEW name \in EventNames,
           CancelAndUpdate(t, code, name), UNCHANGED <<reminders, abRequests>>
    PROVE  HandlerTypes' /\ HandlerStates
<1> DEFINE d == Found(t)
           a == Aborted(d, code)
<1>1. d \in Doc /\ d.state \in {cache[t].state, transfers[t].state}
  BY FoundTypes
<1>2. CASE CancelFails(t, d, code)
  BY <1>1, <1>2, CancelFailsTypes
<1>3. CASE CancelSaved(t, d, code) /\ Emit(name, t)
  BY <1>1, <1>3, CancelSavedTypes
<1>4. CASE /\ Keep(t, a)
           /\ QueueCancellation(t)
           /\ transfers' = [transfers EXCEPT ![t] = Updated(a, t)]
           /\ Fault
           /\ Emit("TransferUnableToUpdateEvt", t)
  <2>1. a \in Doc /\ a.state = "ABORTED"
    BY <1>1, DocTypes, DocStates DEF States
  <2>2. Updated(a, t) \in Doc /\ Updated(a, t).state = "ABORTED"
    BY <2>1, UpdatedTypes
  <2>3. outputEvents' \in SUBSET Event
    BY <1>4, EmitTypes DEF EventNames
  <2>4. faults' \in 0..MaxFaults
    BY <1>4, FaultTypes
  <2>5. cancelRequests' \in Seq(Transfers)
    BY <1>4, QueueTypes
  <2> HIDE DEF a
  <2> QED
    BY <1>4, <2>1, <2>2, <2>3, <2>4, <2>5, KeepTypes DEF TypeOK, HandlerTypes, HandlerStates
<1> QED
  BY <1>2, <1>3, <1>4 DEF CancelAndUpdate

LEMMA PrepareTypes ==
    ASSUME TypeOK, NEW t \in Transfers, PrepareStart(t)
    PROVE  TypeOK' /\ HandlerStates
<1>1. "PrepareTransferCmd" \in CommandNames
  BY DEF CommandNames
<1>2. Handling("PrepareTransferCmd", t)
  BY DEF PrepareStart, PrepareUnread, PrepareDuplicate, PrepareRefusedByParticipants,
         PrepareRefusedByAccounts, PrepareAccepted
<1>3. /\ NewTransfer("none") \in Doc /\ NewTransfer("none").state = "RECEIVED"
      /\ NewTransfer("participants") \in Doc /\ NewTransfer("participants").state = "RECEIVED"
      /\ NoDoc \in Doc /\ NoDoc.state = "ABSENT"
  BY DEF NewTransfer, NoDoc, Doc, States, ErrorCodes
<1>4. CASE PrepareUnread(t)
  BY <1>1, <1>2, <1>4, ReadFailsTypes, HandlingTypes DEF PrepareUnread
<1>5. CASE PrepareDuplicate(t)
  <2>1. HandlerTypes' /\ HandlerStates
    BY <1>5, AnswerTypes, IgnoreTypes, FoundTypes DEF PrepareDuplicate, EventNames
  <2> QED
    BY <1>1, <1>2, <2>1, HandlingTypes
<1>6. CASE PrepareRefusedByParticipants(t)
  <2>1. HandlerTypes' /\ HandlerStates
    BY <1>3, <1>6, AnswerTypes DEF PrepareRefusedByParticipants, EventNames
  <2> QED
    BY <1>1, <1>2, <2>1, HandlingTypes
<1>7. CASE PrepareRefusedByAccounts(t)
  <2>1. HandlerTypes' /\ HandlerStates
    BY <1>3, <1>7, AnswerTypes DEF PrepareRefusedByAccounts, EventNames
  <2> QED
    BY <1>1, <1>2, <2>1, HandlingTypes
<1>8. CASE PrepareAccepted(t)
  <2>1. faults' \in 0..MaxFaults /\ reminders' \in SUBSET Transfers
    BY <1>8, FaultTypes DEF PrepareAccepted, TypeOK
  <2>2. abRequests' \in Seq(Request)
    BY <1>8 DEF PrepareAccepted, AskAccounts, TypeOK, Request
  <2>3. HandlerTypes' /\ HandlerStates
    BY <1>3, <1>8, <2>1, <2>2, KeepTypes
    DEF PrepareAccepted, TypeOK, HandlerTypes, HandlerStates
  <2> QED
    BY <1>1, <1>2, <2>3, HandlingTypes
<1> QED
  BY <1>4, <1>5, <1>6, <1>7, <1>8 DEF PrepareStart

LEMMA MergedTypes ==
    ASSUME TypeOK, NEW t \in Transfers, NEW d \in MergedOpaqueState(t)
    PROVE  d \in Doc /\ d.state \in {cache[t].state, transfers[t].state}
<1>1. Found(t) \in Doc /\ Found(t).state \in {cache[t].state, transfers[t].state}
  BY FoundTypes
<1>2. /\ [Found(t) EXCEPT !.touched = TRUE] \in Doc
      /\ [Found(t) EXCEPT !.touched = TRUE].state = Found(t).state
  BY <1>1 DEF Doc
<1> QED
  BY <1>1, <1>2 DEF MergedOpaqueState

LEMMA FulfilTypes ==
    ASSUME TypeOK, NEW t \in Transfers, FulfilStart(t)
    PROVE  TypeOK' /\ HandlerStates
<1>1. "CommitTransferFulfilCmd" \in CommandNames
  BY DEF CommandNames
<1>2. Handling("CommitTransferFulfilCmd", t)
  BY DEF FulfilStart, FulfilUnread, FulfilNotFound, FulfilInvalid, FulfilRefused, FulfilAccepted
<1>3. NoDoc \in Doc /\ NoDoc.state = "ABSENT"
  BY DEF NoDoc, Doc, States, ErrorCodes
<1>4. CASE FulfilUnread(t)
  BY <1>1, <1>2, <1>4, ReadFailsTypes, HandlingTypes DEF FulfilUnread
<1>5. CASE FulfilNotFound(t)
  <2>1. HandlerTypes' /\ HandlerStates
    BY <1>3, <1>5, AnswerTypes DEF FulfilNotFound, EventNames
  <2> QED
    BY <1>1, <1>2, <2>1, HandlingTypes
<1>6. CASE FulfilInvalid(t)
  <2>1. PICK d \in MergedOpaqueState(t) :
          CancelBecause(t, d, "validation", "TransferFulfilmentValidationFailedEvt")
    BY <1>6 DEF FulfilInvalid
  <2>2. HandlerTypes' /\ HandlerStates
    BY <1>6, <2>1, MergedTypes, CancelBecauseTypes DEF FulfilInvalid, EventNames, ErrorCodes
  <2> QED
    BY <1>1, <1>2, <2>2, HandlingTypes
<1>7. CASE FulfilRefused(t)
  <2>1. PICK d \in MergedOpaqueState(t) :
          CancelBecause(t, [d EXCEPT !.errorCode = "participants"],
                        "participants", "ParticipantCheckFailedEvt")
    BY <1>7 DEF FulfilRefused
  <2> DEFINE e == [d EXCEPT !.errorCode = "participants"]
  <2>2. e \in Doc /\ e.state \in {cache[t].state, transfers[t].state}
    <3>1. d \in Doc /\ d.state \in {cache[t].state, transfers[t].state}
      BY MergedTypes
    <3> QED
      BY <3>1 DEF Doc, ErrorCodes
  <2> HIDE DEF e
  <2>3. HandlerTypes' /\ HandlerStates
    BY <1>7, <2>1, <2>2, CancelBecauseTypes DEF FulfilRefused, EventNames, ErrorCodes, e
  <2> QED
    BY <1>1, <1>2, <2>3, HandlingTypes
<1>8. CASE FulfilAccepted(t)
  <2>1. PICK d \in MergedOpaqueState(t) : Keep(t, d)
    BY <1>8 DEF FulfilAccepted
  <2>2. abRequests' \in Seq(Request)
    BY <1>8 DEF FulfilAccepted, AskAccounts, TypeOK, Request
  <2>3. HandlerTypes' /\ HandlerStates
    BY <1>8, <2>1, <2>2, MergedTypes, KeepTypes
    DEF FulfilAccepted, TypeOK, HandlerTypes, HandlerStates
  <2> QED
    BY <1>1, <1>2, <2>3, HandlingTypes
<1> QED
  BY <1>4, <1>5, <1>6, <1>7, <1>8 DEF FulfilStart

LEMMA RejectTypes ==
    ASSUME TypeOK, NEW t \in Transfers, Reject(t)
    PROVE  TypeOK' /\ HandlerStates
<1>1. "RejectTransferCmd" \in CommandNames
  BY DEF CommandNames
<1>2. Handling("RejectTransferCmd", t)
  BY DEF Reject, RejectUnread, RejectNotFound, RejectRefused, RejectAccepted
<1>3. NoDoc \in Doc /\ NoDoc.state = "ABSENT"
  BY DEF NoDoc, Doc, States, ErrorCodes
<1>4. CASE RejectUnread(t)
  BY <1>1, <1>2, <1>4, ReadFailsTypes, HandlingTypes DEF RejectUnread
<1>5. CASE RejectNotFound(t)
  <2>1. HandlerTypes' /\ HandlerStates
    BY <1>3, <1>5, AnswerTypes DEF RejectNotFound, EventNames
  <2> QED
    BY <1>1, <1>2, <2>1, HandlingTypes
<1>6. CASE RejectRefused(t)
  <2> DEFINE e == [Found(t) EXCEPT !.errorCode = "participants"]
  <2>1. e \in Doc /\ e.state \in {cache[t].state, transfers[t].state}
    <3>1. Found(t) \in Doc /\ Found(t).state \in {cache[t].state, transfers[t].state}
      BY FoundTypes
    <3> QED
      BY <3>1 DEF Doc, ErrorCodes
  <2> HIDE DEF e
  <2>2. HandlerTypes' /\ HandlerStates
    BY <1>6, <2>1, AnswerTypes DEF RejectRefused, EventNames, e
  <2> QED
    BY <1>1, <1>2, <2>2, HandlingTypes
<1>7. CASE RejectAccepted(t)
  <2>1. HandlerTypes' /\ HandlerStates
    BY <1>7, CancelAndUpdateTypes DEF RejectAccepted, EventNames, ErrorCodes
  <2> QED
    BY <1>1, <1>2, <2>1, HandlingTypes
<1> QED
  BY <1>4, <1>5, <1>6, <1>7 DEF Reject

LEMMA TimeoutTypes ==
    ASSUME TypeOK, NEW t \in Transfers, Timeout(t)
    PROVE  TypeOK' /\ HandlerStates
<1>1. "TimeoutTransferCmd" \in CommandNames
  BY DEF CommandNames
<1>2. Handling("TimeoutTransferCmd", t)
  BY DEF Timeout, TimeoutUnread, TimeoutIgnored, TimeoutReceived, TimeoutReserved
<1>3. CASE TimeoutUnread(t)
  BY <1>1, <1>2, <1>3, ReadFailsTypes, HandlingTypes DEF TimeoutUnread
<1>4. CASE TimeoutIgnored(t)
  BY <1>1, <1>2, <1>4, IgnoreTypes, HandlingTypes DEF TimeoutIgnored
<1>5. CASE TimeoutReceived(t)
  <2> DEFINE a == Aborted(Found(t), "expired")
  <2>1. a \in Doc /\ a.state = "ABORTED"
    BY FoundTypes, DocTypes, DocStates DEF States, ErrorCodes
  <2>2. Saved(a) \in Doc /\ Saved(a).state = "ABORTED"
    BY <2>1, DocTypes, DocStates DEF States, ErrorCodes
  <2>3. Updated(a, t) \in Doc /\ Updated(a, t).state = "ABORTED"
    BY <2>1, UpdatedTypes
  <2>4. outputEvents' \in SUBSET Event
    BY <1>5, EmitTypes DEF TimeoutReceived, EventNames
  <2>5. faults' \in 0..MaxFaults
    BY <1>5, FaultTypes DEF TimeoutReceived
  <2>6. /\ Keep(t, a) \/ Keep(t, Saved(a))
        /\ UNCHANGED transfers \/ transfers' = [transfers EXCEPT ![t] = Updated(a, t)]
    BY <1>5 DEF TimeoutReceived
  <2> HIDE DEF a
  <2>7. HandlerTypes' /\ HandlerStates
    BY <1>5, <2>1, <2>2, <2>3, <2>4, <2>5, <2>6, KeepTypes
    DEF TimeoutReceived, TypeOK, HandlerTypes, HandlerStates
  <2> QED
    BY <1>1, <1>2, <2>7, HandlingTypes
<1>6. CASE TimeoutReserved(t)
  <2>1. HandlerTypes' /\ HandlerStates
    BY <1>6, CancelAndUpdateTypes DEF TimeoutReserved, EventNames, ErrorCodes
  <2> QED
    BY <1>1, <1>2, <2>1, HandlingTypes
<1> QED
  BY <1>3, <1>4, <1>5, <1>6 DEF Timeout

LEMMA QueryTypes ==
    ASSUME TypeOK, NEW t \in Transfers, Query(t) \/ UnknownCommand(t)
    PROVE  TypeOK' /\ HandlerStates
<1>1. /\ "QueryTransferCmd" \in CommandNames
      /\ "UnknownCmd" \in CommandNames
  BY DEF CommandNames
<1>2. cache[t] \in Doc
  BY DEF TypeOK
<1>3. CASE QueryUnread(t)
  <2>1. outputEvents' \in SUBSET Event /\ faults' \in 0..MaxFaults
    BY <1>3, EmitTypes, FaultTypes DEF QueryUnread, EventNames
  <2>2. HandlerTypes' /\ HandlerStates
    BY <1>3, <2>1 DEF QueryUnread, TypeOK, HandlerTypes, HandlerStates
  <2> QED
    BY <1>1, <1>3, <2>2, HandlingTypes DEF QueryUnread
<1>4. CASE QueryRefused(t)
  <2>1. HandlerTypes' /\ HandlerStates
    BY <1>2, <1>4, AnswerTypes DEF QueryRefused, EventNames
  <2> QED
    BY <1>1, <1>4, <2>1, HandlingTypes DEF QueryRefused
<1>5. CASE QueryAnswered(t)
  <2>1. HandlerTypes' /\ HandlerStates
    BY <1>2, <1>5, AnswerTypes DEF QueryAnswered, EventNames
  <2> QED
    BY <1>1, <1>5, <2>1, HandlingTypes DEF QueryAnswered
<1>6. CASE UnknownCommand(t)
  <2>1. HandlerTypes' /\ HandlerStates
    BY <1>2, <1>6, AnswerTypes DEF UnknownCommand, EventNames
  <2> QED
    BY <1>1, <1>6, <2>1, HandlingTypes DEF UnknownCommand
<1> QED
  BY <1>3, <1>4, <1>5, <1>6 DEF Query

-----------------------------------------------------------------------------
(* The phases of a batch.                                                   *)

\* A success A&B reported is one it accepted.
ResponsesBacked ==
    \A i \in DOMAIN abResponses :
        abResponses[i].success =>
            /\ abResponses[i].type = "reserve" => abResponses[i].id \in reserved
            /\ abResponses[i].type = "commit" => abResponses[i].id \in posted

\* The inductive invariant.
IInv == TypeOK /\ StateIsBacked /\ ResponsesBacked

\* A command handled in the commands phase keeps the invariant.
LEMMA HandlersBacked ==
    ASSUME IInv, TypeOK', HandlerStates, UNCHANGED <<ledger, abResponses>>
    PROVE  IInv'
BY DEF IInv, HandlerStates, StateIsBacked, ResponsesBacked, ledger

\* So does a step that leaves all the invariant speaks of alone, or forgets it.
LEMMA OthersBacked ==
    ASSUME IInv, TypeOK', UNCHANGED <<transfers, ledger>>,
           cache' = cache \/ cache' = EmptyCache,
           abResponses' = abResponses \/ abResponses' = <<>>
    PROVE  IInv'
<1>1. \A t \in Transfers : EmptyCache[t].state = "ABSENT"
  BY DEF EmptyCache, NoDoc
<1>2. StateIsBacked'
  BY <1>1 DEF IInv, StateIsBacked, ledger
<1>3. ResponsesBacked'
  BY DEF IInv, ResponsesBacked, ledger
<1> QED
  BY <1>2, <1>3 DEF IInv

LEMMA ProcessCommandInv ==
    ASSUME IInv, NEW t \in Transfers, ProcessCommand(t)
    PROVE  IInv'
<1>1. CASE PrepareStart(t)
  <2>1. UNCHANGED <<ledger, abResponses>>
    BY <1>1 DEF PrepareStart, PrepareUnread, PrepareDuplicate, PrepareRefusedByParticipants,
                PrepareRefusedByAccounts, PrepareAccepted, Handling, ledger
  <2> QED
    BY <1>1, <2>1, PrepareTypes, HandlersBacked DEF IInv
<1>2. CASE FulfilStart(t)
  <2>1. UNCHANGED <<ledger, abResponses>>
    BY <1>2 DEF FulfilStart, FulfilUnread, FulfilNotFound, FulfilInvalid, FulfilRefused,
                FulfilAccepted, Handling, ledger
  <2> QED
    BY <1>2, <2>1, FulfilTypes, HandlersBacked DEF IInv
<1>3. CASE Reject(t)
  <2>1. UNCHANGED <<ledger, abResponses>>
    BY <1>3 DEF Reject, RejectUnread, RejectNotFound, RejectRefused, RejectAccepted,
                Handling, ledger
  <2> QED
    BY <1>3, <2>1, RejectTypes, HandlersBacked DEF IInv
<1>4. CASE Timeout(t)
  <2>1. UNCHANGED <<ledger, abResponses>>
    BY <1>4 DEF Timeout, TimeoutUnread, TimeoutIgnored, TimeoutReceived, TimeoutReserved,
                Handling, ledger
  <2> QED
    BY <1>4, <2>1, TimeoutTypes, HandlersBacked DEF IInv
<1>5. CASE Query(t) \/ UnknownCommand(t)
  <2>1. UNCHANGED <<ledger, abResponses>>
    BY <1>5 DEF Query, QueryUnread, QueryRefused, QueryAnswered, UnknownCommand,
                Handling, ledger
  <2> QED
    BY <1>5, <2>1, QueryTypes, HandlersBacked DEF IInv
<1>6. CASE MalformedCommand(t)
  <2>1. TypeOK'
    BY <1>6 DEF IInv, TypeOK, MalformedCommand, Phases, input, memory, queues, world, ledger
  <2>2. UNCHANGED <<transfers, ledger, cache, abResponses>>
    BY <1>6 DEF MalformedCommand, memory, queues, world
  <2> QED
    BY <2>1, <2>2, OthersBacked
<1> QED
  BY <1>1, <1>2, <1>3, <1>4, <1>5, <1>6 DEF ProcessCommand

LEMMA StartBatchInv ==
    ASSUME IInv, NEW n \in 1..BatchSize, StartBatch(n)
    PROVE  IInv'
<1>1. offset + n \in 0..Len(topic)
  <2>1. BatchSize \in Nat /\ offset \in Nat /\ Len(topic) \in Nat
    BY ConstantsAssumption, LenProperties DEF IInv, TypeOK
  <2> QED
    BY <2>1 DEF StartBatch
<1>2. batchEnd' \in 0..Len(topic)' /\ cursor' \in 0..batchEnd'
  BY <1>1, LenProperties, ConstantsAssumption DEF StartBatch, IInv, TypeOK, input
<1>3. TypeOK'
  BY <1>2 DEF IInv, TypeOK, StartBatch, Phases, input, world, ledger
<1>4. /\ UNCHANGED <<transfers, ledger, cache>>
      /\ abResponses' = <<>>
  BY DEF StartBatch, world
<1> QED
  BY <1>3, <1>4, OthersBacked

LEMMA EndOfPhaseInv ==
    ASSUME IInv, EndOfCommands \/ EndOfResponses
    PROVE  IInv'
<1>1. TypeOK'
  BY DEF IInv, TypeOK, EndOfCommands, EndOfResponses, AfterResponses, Phases,
         input, memory, queues, world, ledger
<1>2. UNCHANGED <<transfers, ledger, cache, abResponses>>
  BY DEF EndOfCommands, EndOfResponses, memory, queues, world
<1> QED
  BY <1>1, <1>2, OthersBacked

LEMMA AccountsAnswerInv ==
    ASSUME IInv, NEW accepted \in SUBSET (DOMAIN abRequests), AccountsAnswer(accepted)
    PROVE  IInv'
<1> DEFINE done == [i \in accepted |-> abRequests[i]]
<1>1. DOMAIN abRequests = 1..Len(abRequests) /\ Len(abRequests) \in Nat
  BY LenProperties DEF IInv, TypeOK
<1>2. \A i \in DOMAIN abRequests : abRequests[i] \in Request
  BY <1>1, ElementOfSeq DEF IInv, TypeOK
<1>3. /\ reserved' = reserved \cup Ids(done, "reserve")
      /\ posted' = posted \cup Ids(done, "commit")
  BY DEF AccountsAnswer
<1>4. /\ Ids(done, "reserve") \subseteq Transfers
      /\ Ids(done, "commit") \subseteq Transfers
  BY <1>2 DEF Ids, Request
<1>5. \A i \in accepted :
         /\ abRequests[i].type = "reserve" => abRequests[i].id \in Ids(done, "reserve")
         /\ abRequests[i].type = "commit" => abRequests[i].id \in Ids(done, "commit")
  BY DEF Ids
<1>6. reserved' \in SUBSET Transfers /\ posted' \in SUBSET Transfers
  BY <1>3, <1>4 DEF IInv, TypeOK
<1> HIDE DEF done
<1>7. StateIsBacked'
  BY <1>3 DEF AccountsAnswer, IInv, StateIsBacked
<1>8. CASE abResponses' = [i \in DOMAIN abRequests |-> ResponseTo(i, accepted)]
           /\ pc' = "responses" /\ UNCHANGED <<failed, faults>>
  <2>1. \A i \in DOMAIN abRequests : ResponseTo(i, accepted) \in Response
    BY <1>2 DEF ResponseTo, Request, Response
  <2>2. abResponses' \in Seq(Response)
    BY <1>1, <1>8, <2>1, IsASeq
  <2>3. TypeOK'
    BY <1>6, <1>8, <2>2 DEF AccountsAnswer, IInv, TypeOK, Phases, input
  <2>4. ResponsesBacked'
    BY <1>3, <1>5, <1>8 DEF ResponsesBacked, ResponseTo
  <2> QED
    BY <1>7, <2>3, <2>4 DEF IInv
<1>9. CASE UNCHANGED abResponses /\ pc' = "flush" /\ failed' = TRUE /\ Fault
  <2>1. faults' \in 0..MaxFaults
    BY <1>9, FaultTypes DEF IInv
  <2>2. TypeOK'
    BY <1>6, <1>9, <2>1 DEF AccountsAnswer, IInv, TypeOK, Phases, input
  <2>3. ResponsesBacked'
    BY <1>3, <1>9 DEF IInv, ResponsesBacked
  <2> QED
    BY <1>7, <2>2, <2>3 DEF IInv
<1> QED
  BY <1>8, <1>9 DEF AccountsAnswer

\* Continuing takes the first response, which is backed, off the queue.
LEMMA ContinuingBacked ==
    ASSUME IInv, NEW type, NEW success, Continuing(type, success)
    PROVE  /\ abResponses' \in Seq(Response)
           /\ ResponsesBacked'
           /\ Head(abResponses).id \in Transfers
           /\ success = TRUE /\ type = "reserve" => Head(abResponses).id \in reserved
           /\ success = TRUE /\ type = "commit" => Head(abResponses).id \in posted
<1>1. abResponses \in Seq(Response) /\ abResponses # <<>>
  BY DEF IInv, TypeOK, Continuing
<1>2. /\ Head(abResponses) \in Response
      /\ Tail(abResponses) \in Seq(Response)
      /\ Head(abResponses) = abResponses[1]
      /\ DOMAIN abResponses = 1..Len(abResponses)
      /\ Len(abResponses) \in Nat \ {0}
      /\ DOMAIN Tail(abResponses) = 1..(Len(abResponses) - 1)
      /\ \A i \in 1..(Len(abResponses) - 1) : Tail(abResponses)[i] = abResponses[i + 1]
  BY <1>1
<1>3. 1 \in DOMAIN abResponses /\ \A i \in 1..(Len(abResponses) - 1) : i + 1 \in DOMAIN abResponses
  BY <1>2
<1>4. abResponses' \in Seq(Response)
  BY <1>2 DEF Continuing
<1>5. ResponsesBacked'
  BY <1>2, <1>3 DEF IInv, ResponsesBacked, Continuing, ledger
<1>6. Head(abResponses).id \in Transfers
  BY <1>2 DEF Response
<1>7. /\ success = TRUE /\ type = "reserve" => Head(abResponses).id \in reserved
      /\ success = TRUE /\ type = "commit" => Head(abResponses).id \in posted
  BY <1>2, <1>3 DEF IInv, ResponsesBacked, Continuing, Succeeded
<1> QED
  BY <1>4, <1>5, <1>6, <1>7

LEMMA ContinuingTypes ==
    ASSUME IInv, NEW type, NEW success, Continuing(type, success), HandlerTypes'
    PROVE  TypeOK'
<1>1. abResponses' \in Seq(Response)
  BY ContinuingBacked
<1> QED
  BY <1>1 DEF IInv, TypeOK, HandlerTypes, Continuing, input, control, ledger

\* A continue method that keeps a document d whose state A&B backs, or which is
\* aborted, and emits an event.
LEMMA ContinueWith ==
    ASSUME IInv, NEW type, NEW success, Continuing(type, success),
           NEW d \in Doc, NEW name \in EventNames,
           Keep(Head(abResponses).id, d), Emit(name, Head(abResponses).id),
           UNCHANGED <<transfers, faults, cancelRequests>>,
           d.state = "RESERVED" => Head(abResponses).id \in reserved,
           d.state = "COMMITTED" => Head(abResponses).id \in posted
    PROVE  IInv'
<1> DEFINE t == Head(abResponses).id
<1>1. t \in Transfers /\ ResponsesBacked'
  BY ContinuingBacked
<1>2. UNCHANGED <<reminders, abRequests, ledger>>
  BY DEF Continuing
<1> HIDE DEF t
<1>3. Keep(t, d) /\ Emit(name, t)
  BY DEF t
<1>4. outputEvents' \in SUBSET Event
  BY <1>1, <1>3, EmitTypes DEF IInv
<1>5. HandlerTypes'
  BY <1>1, <1>2, <1>3, <1>4 DEF IInv, TypeOK, HandlerTypes, Keep
<1>6. TypeOK'
  BY <1>5, ContinuingTypes
<1>7. cache' = [cache EXCEPT ![t] = d]
  BY <1>3 DEF Keep
<1>8. /\ d.state = "RESERVED" => t \in reserved
      /\ d.state = "COMMITTED" => t \in posted
  BY DEF t
<1>9. StateIsBacked'
  BY <1>1, <1>2, <1>7, <1>8 DEF IInv, TypeOK, StateIsBacked, ledger
<1> QED
  BY <1>1, <1>6, <1>9 DEF IInv

LEMMA ContinueInv ==
    ASSUME IInv, Continue
    PROVE  IInv'
<1> DEFINE t == Head(abResponses).id
<1>1. t \in Transfers
  BY ContinuingBacked DEF Continue, PrepareContinue, PrepareContinueFailed, FulfilContinue,
                          FulfilContinueFailed
<1>2. Found(t) \in Doc
  BY <1>1, FoundTypes DEF IInv
<1>3. CASE PrepareContinue
  <2>1. InState(Found(t), "RESERVED") \in Doc /\ InState(Found(t), "RESERVED").state = "RESERVED"
    BY <1>2, DocTypes, DocStates DEF States, ErrorCodes
  <2>2. t \in reserved
    BY <1>3, ContinuingBacked DEF PrepareContinue
  <2> QED
    BY <1>3, <2>1, <2>2, ContinueWith DEF PrepareContinue, TransferOf, EventNames
<1>4. CASE PrepareContinueFailed
  <2>1. Aborted(Found(t), "liquidity") \in Doc /\ Aborted(Found(t), "liquidity").state = "ABORTED"
    BY <1>2, DocTypes, DocStates DEF States, ErrorCodes
  <2> QED
    BY <1>4, <2>1, ContinueWith DEF PrepareContinueFailed, TransferOf, EventNames
<1>5. CASE FulfilContinue
  <2>1. InState(Found(t), "COMMITTED") \in Doc /\ InState(Found(t), "COMMITTED").state = "COMMITTED"
    BY <1>2, DocTypes, DocStates DEF States, ErrorCodes
  <2>2. t \in posted
    BY <1>5, ContinuingBacked DEF FulfilContinue
  <2> QED
    BY <1>5, <2>1, <2>2, ContinueWith DEF FulfilContinue, TransferOf, EventNames
<1>6. CASE FulfilContinueFailed
  <2> DEFINE d == Aborted(Found(t), "commit")
  <2>1. d \in Doc /\ d.state = "ABORTED"
    BY <1>2, DocTypes, DocStates DEF States, ErrorCodes
  <2>2. /\ Continuing("commit", FALSE)
        /\ CancelBecause(t, d, "commit", "TransferCancelReservationAndCommitFailedEvt")
    BY <1>6 DEF FulfilContinueFailed, TransferOf
  <2>3. UNCHANGED <<reminders, abRequests, ledger>>
    BY <2>2 DEF Continuing
  <2> HIDE DEF d, t
  <2>4. HandlerTypes' /\ HandlerStates
    BY <1>1, <2>1, <2>2, <2>3, CancelBecauseTypes DEF IInv, EventNames, ErrorCodes
  <2>5. TypeOK' /\ ResponsesBacked'
    BY <2>2, <2>4, ContinuingTypes, ContinuingBacked
  <2>6. StateIsBacked'
    BY <2>3, <2>4 DEF IInv, HandlerStates, StateIsBacked, ledger
  <2> QED
    BY <2>5, <2>6 DEF IInv
<1> QED
  BY <1>3, <1>4, <1>5, <1>6 DEF Continue

LEMMA CancellationsInv ==
    ASSUME IInv, Cancellations
    PROVE  IInv'
<1> DEFINE sent == {cancelRequests[i] : i \in DOMAIN cancelRequests}
<1>1. sent \subseteq Transfers
  BY ElementOfSeq, LenProperties DEF IInv, TypeOK
<1>2. /\ cancelled' \in SUBSET Transfers
      /\ faults' \in 0..MaxFaults
      /\ failed' \in BOOLEAN
  BY <1>1, FaultTypes DEF IInv, TypeOK, Cancellations
<1>3. TypeOK'
  BY <1>2 DEF IInv, TypeOK, Cancellations, Phases, input, memory, queues
<1>4. StateIsBacked' /\ ResponsesBacked'
  BY DEF IInv, StateIsBacked, ResponsesBacked, Cancellations, memory, queues
<1> QED
  BY <1>3, <1>4 DEF IInv

LEMMA FlushInv ==
    ASSUME IInv, Flush
    PROVE  IInv'
<1>1. PICK ids \in SUBSET Cached : transfers' = Stored(ids) \/ UNCHANGED transfers
  BY DEF Flush
<1>2. \A t \in Transfers :
         /\ Saved(cache[t]) \in Doc
         /\ Saved(cache[t]).state = cache[t].state
  <2>1. \A t \in Transfers : cache[t] \in Doc
    BY DEF IInv, TypeOK
  <2> QED
    BY <2>1, DocTypes, DocStates DEF States, ErrorCodes
<1>3. /\ transfers' \in [Transfers -> Doc]
      /\ \A t \in Transfers : transfers'[t].state \in {cache[t].state, transfers[t].state}
  BY <1>1, <1>2 DEF Stored, IInv, TypeOK
<1>4. NoDoc \in Doc /\ NoDoc.state = "ABSENT"
  BY DEF NoDoc, Doc, States, ErrorCodes
<1>5. /\ cache' \in [Transfers -> Doc]
      /\ \A t \in Transfers : cache'[t].state \in {cache[t].state, "ABSENT"}
  BY <1>4 DEF Flush, EmptyCache, IInv, TypeOK
<1>6. pc' \in Phases /\ faults' \in 0..MaxFaults
  BY FaultTypes DEF Flush, Phases, NoFault, IInv
<1>7. TypeOK'
  BY <1>3, <1>5, <1>6 DEF IInv, TypeOK, Flush, input, queues, ledger
<1>8. StateIsBacked'
  BY <1>3, <1>5 DEF IInv, StateIsBacked, Flush, ledger
<1>9. ResponsesBacked'
  BY DEF IInv, ResponsesBacked, Flush, queues, ledger
<1> QED
  BY <1>7, <1>8, <1>9 DEF IInv

LEMMA SendInv ==
    ASSUME IInv, Send
    PROVE  IInv'
<1>1. published' \in SUBSET Event /\ pc' \in Phases /\ faults' \in 0..MaxFaults
  BY FaultTypes DEF Send, IInv, TypeOK, Phases
<1>2. TypeOK'
  BY <1>1 DEF IInv, TypeOK, Send, input, memory, queues, ledger
<1>3. UNCHANGED <<transfers, ledger, cache, abResponses>>
  BY DEF Send, memory, queues
<1> QED
  BY <1>2, <1>3, OthersBacked

LEMMA AcknowledgeInv ==
    ASSUME IInv, Acknowledge \/ FailedAcknowledge
    PROVE  IInv'
<1>1. TypeOK'
  BY DEF IInv, TypeOK, Acknowledge, FailedAcknowledge, Phases, control, memory, queues,
         world, ledger
<1>2. UNCHANGED <<transfers, ledger, cache, abResponses>>
  BY DEF Acknowledge, FailedAcknowledge, memory, queues, world
<1> QED
  BY <1>1, <1>2, OthersBacked

LEMMA RestartInv ==
    ASSUME IInv, Exit \/ Crash
    PROVE  IInv'
<1>1. Restart /\ faults' \in 0..MaxFaults
  BY FaultTypes DEF Exit, Crash, IInv
<1>2. EmptyCache \in [Transfers -> Doc]
  BY DEF EmptyCache, NoDoc, Doc, States, ErrorCodes
<1>3. /\ topic' \in Seq(Command) /\ offset' \in 0..Len(topic')
      /\ batchEnd' \in 0..Len(topic') /\ cursor' \in 0..batchEnd'
  BY <1>1, LenProperties DEF Restart, Exit, Crash, IInv, TypeOK
<1>4. /\ abRequests' \in Seq(Request)
      /\ abResponses' \in Seq(Response)
      /\ cancelRequests' \in Seq(Transfers)
      /\ outputEvents' \in SUBSET Event
      /\ batchCommands' \in [Transfers -> CommandNames \cup {"none"}]
  BY <1>1, EmptySeq DEF Restart
<1>5. TypeOK'
  BY <1>1, <1>2, <1>3, <1>4 DEF IInv, TypeOK, Restart, Phases, world, ledger
<1>6. /\ UNCHANGED <<transfers, ledger>>
      /\ cache' = EmptyCache
      /\ abResponses' = <<>>
  BY <1>1 DEF Restart, world
<1> QED
  BY <1>5, <1>6, OthersBacked

-----------------------------------------------------------------------------
(* The environment, and the theorems.                                       *)

LEMMA ProduceInv ==
    ASSUME IInv, NEW name \in Inputs, NEW t \in Transfers, Produce(name, t)
    PROVE  IInv'
<1>1. [name |-> name, id |-> t] \in Command
  BY ConstantsAssumption DEF Command
<1>2. /\ topic' \in Seq(Command)
      /\ Len(topic') = Len(topic) + 1
  BY <1>1, AppendProperties DEF Produce, IInv, TypeOK
<1>3. Len(topic) \in Nat
  BY LenProperties DEF IInv, TypeOK
<1>4. /\ offset \in 0..Len(topic')
      /\ batchEnd \in 0..Len(topic')
  BY <1>2, <1>3 DEF IInv, TypeOK
<1>5. TypeOK'
  BY <1>2, <1>4 DEF IInv, TypeOK, Produce, control, memory, queues, world, ledger
<1>6. UNCHANGED <<transfers, ledger, cache, abResponses>>
  BY DEF Produce, memory, queues, world
<1> QED
  BY <1>5, <1>6, OthersBacked

LEMMA ExpireInv ==
    ASSUME IInv, NEW t \in Transfers, Expire(t)
    PROVE  IInv'
<1>1. TypeOK'
  BY DEF IInv, TypeOK, Expire, input, control, memory, queues, ledger
<1>2. UNCHANGED <<transfers, ledger, cache, abResponses>>
  BY DEF Expire, memory, queues
<1> QED
  BY <1>1, <1>2, OthersBacked

LEMMA InitInv == Init => IInv
<1> SUFFICES ASSUME Init PROVE IInv
  OBVIOUS
<1>1. NoDoc \in Doc /\ NoDoc.state = "ABSENT"
  BY DEF NoDoc, Doc, States, ErrorCodes
<1>2. /\ cache \in [Transfers -> Doc]
      /\ transfers \in [Transfers -> Doc]
  BY <1>1 DEF Init, EmptyCache
<1>3. /\ topic \in Seq(Command) /\ Len(topic) = 0
      /\ abRequests \in Seq(Request)
      /\ abResponses \in Seq(Response)
      /\ cancelRequests \in Seq(Transfers)
  BY EmptySeq DEF Init
<1>4. /\ faults \in 0..MaxFaults
      /\ offset \in 0..Len(topic)
      /\ batchEnd \in 0..Len(topic)
      /\ cursor \in 0..batchEnd
  BY <1>3, ConstantsAssumption DEF Init
<1>5. TypeOK
  BY <1>2, <1>3, <1>4 DEF Init, TypeOK, Phases
<1>6. StateIsBacked /\ ResponsesBacked
  BY <1>1 DEF Init, EmptyCache, StateIsBacked, ResponsesBacked
<1> QED
  BY <1>5, <1>6 DEF IInv

LEMMA NextInv == IInv /\ [Next]_vars => IInv'
<1> SUFFICES ASSUME IInv, [Next]_vars PROVE IInv'
  OBVIOUS
<1>1. CASE \E n \in 1..BatchSize : StartBatch(n)
  BY <1>1, StartBatchInv
<1>2. CASE \E t \in Transfers : ProcessCommand(t)
  BY <1>2, ProcessCommandInv
<1>3. CASE EndOfCommands \/ EndOfResponses
  BY <1>3, EndOfPhaseInv
<1>4. CASE \E accepted \in SUBSET (DOMAIN abRequests) : AccountsAnswer(accepted)
  BY <1>4, AccountsAnswerInv
<1>5. CASE Continue
  BY <1>5, ContinueInv
<1>6. CASE Cancellations
  BY <1>6, CancellationsInv
<1>7. CASE Flush
  BY <1>7, FlushInv
<1>8. CASE Send
  BY <1>8, SendInv
<1>9. CASE Acknowledge \/ FailedAcknowledge
  BY <1>9, AcknowledgeInv
<1>10. CASE Exit \/ Crash
  BY <1>10, RestartInv
<1>11. CASE \E name \in Inputs, t \in Transfers : Produce(name, t)
  BY <1>11, ProduceInv
<1>12. CASE \E t \in Transfers : Expire(t)
  BY <1>12, ExpireInv
<1>13. CASE UNCHANGED vars
  <2>1. UNCHANGED <<topic, offset, pc, failed, batchEnd, cursor, cache, batchCommands,
                    abRequests, abResponses, cancelRequests, outputEvents, transfers,
                    reserved, posted, cancelled, reminders, expired, published, faults>>
    BY <1>13 DEF vars, input, control, memory, queues, world, ledger
  <2>2. TypeOK'
    BY <2>1 DEF IInv, TypeOK
  <2> QED
    BY <2>1, <2>2, OthersBacked DEF ledger
<1> QED
  BY <1>1, <1>2, <1>3, <1>4, <1>5, <1>6, <1>7, <1>8, <1>9, <1>10, <1>11, <1>12, <1>13
  DEF Next, Process, Environment

\* The inductive invariant holds in every reachable state.
THEOREM InductiveInvariant == Spec => []IInv
BY InitInv, NextInv, PTL DEF Spec

\* Every variable of the aggregate keeps its type, and the cursor, the batch and the
\* committed offset stay within the topic, also across crashes and redeliveries.
THEOREM TypeCorrect == Spec => []TypeOK
<1>1. IInv => TypeOK
  BY DEF IInv
<1> QED
  BY <1>1, InductiveInvariant, PTL

\* Whatever is retried, lost or crashes, the cache and the collection have a transfer
\* as RESERVED only if A&B accepted its reservation, and as COMMITTED only if A&B
\* accepted its commit (_prepareTransferContinue, _fulfilTTransferContinue, _flush).
THEOREM StatesAreBacked == Spec => []StateIsBacked
<1>1. IInv => StateIsBacked
  BY DEF IInv
<1> QED
  BY <1>1, InductiveInvariant, PTL

=============================================================================
