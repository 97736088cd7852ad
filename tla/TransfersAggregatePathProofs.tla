-------------------- MODULE TransfersAggregatePathProofs --------------------
(***************************************************************************)
(* The way of a transfer through a batch, for every set of transfers,      *)
(* batch size, number of commands and number of faults: what is asked of   *)
(* A&B, what is cached, stored and announced, and in which order.  From    *)
(* it, the handler implements the lifecycle of TransferLifecycle; and only *)
(* the payee's commands undo a final state.                                *)
(***************************************************************************)
EXTENDS TransfersAggregateProofs

-----------------------------------------------------------------------------
(* The inductive invariant, on top of IInv.                                 *)

\* A state the stored one may move to, or stays in.
Follows(a, b) == a = b \/ <<a, b>> \in Lifecycle!LifecycleSteps

\* What is cached is the stored state or a next one.
CacheFollowsStore ==
    \A t \in Transfers :
        Present(cache[t]) => Follows(transfers[t].state, cache[t].state)

\* In a batch, the reservation of a transfer is asked for before its commit: the
\* commit needs the transfer, and the reservation that there is none.
ReserveBefore(requests) ==
    \A i, j \in DOMAIN requests :
        /\ requests[i].id = requests[j].id
        /\ requests[i].type = "reserve"
        /\ requests[j].type = "commit"
        => i < j

RequestsInOrder == pc \in {"commands", "accounts", "responses"} => ReserveBefore(abRequests)

InOutput(name, t) == [name |-> name, id |-> t] \in outputEvents

\* No response would make a transfer RESERVED that a commit was reported for.
ReservesUnreported ==
    \A i \in DOMAIN abResponses :
        abResponses[i].type = "reserve" =>
            ~InOutput("TransferFulfiledEvt", abResponses[i].id)

\* The responses not yet continued answer requests of the batch, in their order.
ResponsesInOrder ==
    pc = "responses" =>
        /\ ReserveBefore(abResponses)
        /\ ReservesUnreported
        /\ \A i \in DOMAIN abResponses :
              \E j \in DOMAIN abRequests :
                  /\ abRequests[j].id = abResponses[i].id
                  /\ abRequests[j].type = abResponses[i].type

\* The events of the batch that report an outcome report what A&B accepted, and what
\* the cache, and after the flush the collection, holds.
OutcomesBacked ==
    \A t \in Transfers :
        /\ pc \in {"commands", "accounts"} =>
              ~InOutput("TransferPreparedEvt", t) /\ ~InOutput("TransferFulfiledEvt", t)
        /\ pc \in {"responses", "cancellations", "flush"} =>
              /\ InOutput("TransferPreparedEvt", t) =>
                    t \in reserved /\ cache[t].state \in {"RESERVED", "COMMITTED", "ABORTED"}
              /\ InOutput("TransferFulfiledEvt", t) =>
                    t \in posted /\ cache[t].state \in FinalStates
        /\ pc = "send" =>
              /\ InOutput("TransferPreparedEvt", t) =>
                    t \in reserved /\ transfers[t].state \notin {"ABSENT", "RECEIVED"}
              /\ InOutput("TransferFulfiledEvt", t) =>
                    t \in posted /\ transfers[t].state \in FinalStates

\* The inductive invariant, on top of IInv.
PathInv ==
    /\ ContinueFindsTransfer
    /\ ReservesOnceUntilStored
    /\ CacheFollowsStore
    /\ RequestsInOrder
    /\ ResponsesInOrder
    /\ OutcomesBacked
    /\ NotificationsBacked

-----------------------------------------------------------------------------
(* What a handler does to the documents and events.                         *)

\* A handler stores nothing but the abort of a stored transfer, and what it caches is
\* what was cached or stored, an aborted transfer, or a new one where there was none.
DocSteps ==
    \A u \in Transfers :
        /\ \/ transfers'[u].state = transfers[u].state
           \/ /\ Present(transfers[u])
              /\ transfers'[u].state = "ABORTED"
              /\ cache'[u].state = "ABORTED"
        /\ \/ cache'[u].state \in {cache[u].state, "ABORTED"}
           \/ ~Present(cache[u]) /\ cache'[u].state = transfers[u].state
           \/ ~Present(cache[u]) /\ ~Present(transfers[u]) /\ cache'[u].state = "RECEIVED"

\* It reports no reservation and no commit.
NoOutcome ==
    \A u \in Transfers : \A name \in {"TransferPreparedEvt", "TransferFulfiledEvt"} :
        InOutput(name, u)' => InOutput(name, u)

\* It asks A&B for a reservation only when there is no such transfer, for a commit
\* only when there is one, and the transfer is cached then.
RequestStep(t) ==
    \/ UNCHANGED abRequests
    \/ AskAccounts("reserve", t) /\ ~Present(Found(t)) /\ Present(cache'[t])
    \/ AskAccounts("commit", t) /\ Present(Found(t)) /\ Present(cache'[t])

LEMMA FoundState ==
    ASSUME TypeOK, NEW t \in Transfers
    PROVE  /\ Found(t) \in Doc
           /\ Present(cache[t]) => Found(t).state = cache[t].state
           /\ ~Present(cache[t]) => Found(t).state = transfers[t].state
<1>1. transfers[t] \in Doc
  BY DEF TypeOK
<1>2. Mapped(transfers[t]).state = transfers[t].state
  BY <1>1, DocStates DEF States, ErrorCodes
<1> QED
  BY <1>2, FoundTypes DEF Found, Cached

\* The cache holds for t what _getTransfer found, an aborted or a new transfer.
LEMMA KeepSteps ==
    ASSUME TypeOK, NEW t \in Transfers, NEW d \in Doc, Keep(t, d), UNCHANGED transfers,
           \/ d.state \in {Found(t).state, cache[t].state, "ABORTED"}
           \/ ~Present(Found(t)) /\ d.state \in {"RECEIVED", "ABSENT"}
    PROVE  DocSteps
<1>1. \A u \in Transfers : cache'[u] = IF u = t THEN d ELSE cache[u]
  BY DEF TypeOK, Keep
<1> QED
  BY <1>1, FoundState DEF DocSteps, Present

\* An aborted transfer is cached and stored.
LEMMA SaveSteps ==
    ASSUME TypeOK, NEW t \in Transfers, NEW d \in Doc, NEW e \in Doc,
           d.state = "ABORTED", e.state = "ABORTED", Present(transfers[t]),
           Keep(t, d), transfers' = [transfers EXCEPT ![t] = e]
    PROVE  DocSteps
<1>1. \A u \in Transfers : /\ cache'[u] = IF u = t THEN d ELSE cache[u]
                           /\ transfers'[u] = IF u = t THEN e ELSE transfers[u]
  BY DEF TypeOK, Keep
<1> QED
  BY <1>1 DEF DocSteps

LEMMA EmitSteps ==
    ASSUME TypeOK, NEW t, NEW name,
           name \notin {"TransferPreparedEvt", "TransferFulfiledEvt"},
           Emit(name, t) \/ UNCHANGED outputEvents
    PROVE  NoOutcome
BY DEF Emit, NoOutcome, InOutput

LEMMA ReadFailsSteps ==
    ASSUME TypeOK, NEW t \in Transfers, ReadFails(t)
    PROVE  DocSteps /\ NoOutcome /\ RequestStep(t)
<1>1. NoOutcome
  BY EmitSteps DEF ReadFails
<1> QED
  BY <1>1 DEF ReadFails, DocSteps, RequestStep

LEMMA AnswerSteps ==
    ASSUME TypeOK, NEW t \in Transfers, NEW d \in Doc, NEW name, Answer(t, d, name),
           name \notin {"TransferPreparedEvt", "TransferFulfiledEvt"},
           \/ d.state \in {Found(t).state, cache[t].state}
           \/ ~Present(Found(t)) /\ d.state \in {"RECEIVED", "ABSENT"}
    PROVE  DocSteps /\ NoOutcome /\ RequestStep(t)
<1>1. NoOutcome
  BY EmitSteps DEF Answer
<1>2. DocSteps
  BY KeepSteps DEF Answer
<1> QED
  BY <1>1, <1>2 DEF Answer, RequestStep

LEMMA IgnoreSteps ==
    ASSUME TypeOK, NEW t \in Transfers, Ignore(t)
    PROVE  DocSteps /\ NoOutcome /\ RequestStep(t)
<1>1. Found(t) \in Doc
  BY FoundState
<1>2. DocSteps
  BY <1>1, KeepSteps DEF Ignore
<1> QED
  BY <1>2 DEF Ignore, NoOutcome, InOutput, RequestStep

LEMMA CancelFailsSteps ==
    ASSUME TypeOK, NEW t \in Transfers, NEW d \in Doc, NEW code \in ErrorCodes,
           d.state \in {Found(t).state, "ABORTED"}, CancelFails(t, d, code)
    PROVE  DocSteps /\ NoOutcome
<1>1. NoOutcome
  BY EmitSteps DEF CancelFails
<1>2. CASE CancelRefused(t, d)
  BY <1>1, <1>2, KeepSteps DEF CancelRefused
<1>3. CASE CancelUnsaved(t, d, code)
  <2>1. Aborted(d, code) \in Doc /\ Aborted(d, code).state = "ABORTED"
    BY DocTypes, DocStates DEF States
  <2> QED
    BY <1>1, <1>3, <2>1, KeepSteps DEF CancelUnsaved
<1> QED
  BY <1>2, <1>3 DEF CancelFails

LEMMA CancelSavedSteps ==
    ASSUME TypeOK, NEW t \in Transfers, NEW d \in Doc, NEW code \in ErrorCodes,
           CancelSaved(t, d, code)
    PROVE  DocSteps
<1> DEFINE a == Aborted(d, code)
<1>1. a \in Doc /\ a.state = "ABORTED"
  BY DocTypes, DocStates DEF States
<1>2. Saved(a) \in Doc /\ Saved(a).state = "ABORTED"
  BY <1>1, DocTypes, DocStates DEF States, ErrorCodes
<1>3. Updated(a, t) \in Doc /\ Updated(a, t).state = "ABORTED"
  BY <1>1, UpdatedTypes
<1>4. /\ Keep(t, Saved(a))
      /\ transfers' = [transfers EXCEPT ![t] = Updated(a, t)]
      /\ Present(transfers[t])
  BY DEF CancelSaved
<1> HIDE DEF a
<1> QED
  BY <1>2, <1>3, <1>4, SaveSteps

LEMMA CancelBecauseSteps ==
    ASSUME TypeOK, NEW t \in Transfers, NEW d \in Doc, NEW code \in ErrorCodes, NEW name,
           name \notin {"TransferPreparedEvt", "TransferFulfiledEvt"},
           d.state \in {Found(t).state, "ABORTED"}, CancelBecause(t, d, code, name)
    PROVE  DocSteps /\ NoOutcome
<1>1. CASE CancelFails(t, d, code)
  BY <1>1, CancelFailsSteps
<1>2. CASE CancelSaved(t, d, code) /\ Emit(name, t)
  BY <1>2, CancelSavedSteps, EmitSteps
<1> QED
  BY <1>1, <1>2 DEF CancelBecause

LEMMA CancelAndUpdateSteps ==
    ASSUME TypeOK, NEW t \in Transfers, NEW code \in ErrorCodes, NEW name,
           name \notin {"TransferPreparedEvt", "TransferFulfiledEvt"},
           CancelAndUpdate(t, code, name), UNCHANGED abRequests
    PROVE  DocSteps /\ NoOutcome /\ RequestStep(t)
<1> DEFINE d == Found(t)
           a == Aborted(d, code)
<1>1. d \in Doc /\ d.state = Found(t).state
  BY FoundState
<1>2. CASE CancelFails(t, d, code)
  BY <1>1, <1>2, CancelFailsSteps DEF RequestStep
<1>3. CASE CancelSaved(t, d, code) /\ Emit(name, t)
  BY <1>1, <1>3, CancelSavedSteps, EmitSteps DEF RequestStep
<1>4. CASE /\ Present(transfers[t])
           /\ Keep(t, a)
           /\ transfers' = [transfers EXCEPT ![t] = Updated(a, t)]
           /\ Emit("TransferUnableToUpdateEvt", t)
  <2>1. a \in Doc /\ a.state = "ABORTED"
    BY <1>1, DocTypes, DocStates DEF States
  <2>2. Updated(a, t) \in Doc /\ Updated(a, t).state = "ABORTED"
    BY <2>1, UpdatedTypes
  <2>3. NoOutcome
    BY <1>4, EmitSteps
  <2> HIDE DEF a
  <2>4. DocSteps
    BY <1>4, <2>1, <2>2, SaveSteps
  <2> QED
    BY <2>3, <2>4 DEF RequestStep
<1> QED
  BY <1>2, <1>3, <1>4 DEF CancelAndUpdate

-----------------------------------------------------------------------------
(* The handlers.                                                            *)

LEMMA PrepareSteps ==
    ASSUME TypeOK, NEW t \in Transfers, PrepareStart(t)
    PROVE  DocSteps /\ NoOutcome /\ RequestStep(t)
<1>1. /\ NewTransfer("none") \in Doc /\ NewTransfer("none").state = "RECEIVED"
      /\ NewTransfer("participants") \in Doc /\ NewTransfer("participants").state = "RECEIVED"
      /\ NoDoc \in Doc /\ NoDoc.state = "ABSENT"
  BY DEF NewTransfer, NoDoc, Doc, States, ErrorCodes
<1>2. CASE PrepareUnread(t)
  BY <1>2, ReadFailsSteps DEF PrepareUnread
<1>3. CASE PrepareDuplicate(t)
  BY <1>3, AnswerSteps, IgnoreSteps, FoundState DEF PrepareDuplicate
<1>4. CASE PrepareRefusedByParticipants(t)
  BY <1>1, <1>4, AnswerSteps DEF PrepareRefusedByParticipants
<1>5. CASE PrepareRefusedByAccounts(t)
  BY <1>1, <1>5, AnswerSteps DEF PrepareRefusedByAccounts
<1>6. CASE PrepareAccepted(t)
  <2>1. DocSteps
    BY <1>1, <1>6, KeepSteps DEF PrepareAccepted
  <2>2. NoOutcome
    BY <1>6 DEF PrepareAccepted, NoOutcome, InOutput
  <2>3. cache'[t] = NewTransfer("none")
    BY <1>6 DEF PrepareAccepted, Keep, TypeOK
  <2> QED
    BY <1>1, <1>6, <2>1, <2>2, <2>3 DEF PrepareAccepted, RequestStep, Present
<1> QED
  BY <1>2, <1>3, <1>4, <1>5, <1>6 DEF PrepareStart

LEMMA MergedSteps ==
    ASSUME TypeOK, NEW t \in Transfers, NEW d \in MergedOpaqueState(t)
    PROVE  d \in Doc /\ d.state = Found(t).state
<1>1. Found(t) \in Doc
  BY FoundState
<1>2. /\ [Found(t) EXCEPT !.touched = TRUE] \in Doc
      /\ [Found(t) EXCEPT !.touched = TRUE].state = Found(t).state
  BY <1>1 DEF Doc
<1> QED
  BY <1>1, <1>2 DEF MergedOpaqueState

LEMMA FulfilSteps ==
    ASSUME TypeOK, NEW t \in Transfers, FulfilStart(t)
    PROVE  DocSteps /\ NoOutcome /\ RequestStep(t)
<1>1. NoDoc \in Doc /\ NoDoc.state = "ABSENT"
  BY DEF NoDoc, Doc, States, ErrorCodes
<1>2. CASE FulfilUnread(t)
  BY <1>2, ReadFailsSteps DEF FulfilUnread
<1>3. CASE FulfilNotFound(t)
  BY <1>1, <1>3, AnswerSteps DEF FulfilNotFound
<1>4. CASE FulfilInvalid(t)
  <2>1. PICK d \in MergedOpaqueState(t) :
          CancelBecause(t, d, "validation", "TransferFulfilmentValidationFailedEvt")
    BY <1>4 DEF FulfilInvalid
  <2>2. "validation" \in ErrorCodes
    BY DEF ErrorCodes
  <2>3. DocSteps /\ NoOutcome
    BY <2>1, <2>2, MergedSteps, CancelBecauseSteps
  <2> QED
    BY <1>4, <2>3 DEF FulfilInvalid, RequestStep
<1>5. CASE FulfilRefused(t)
  <2>1. PICK d \in MergedOpaqueState(t) :
          CancelBecause(t, [d EXCEPT !.errorCode = "participants"],
                        "participants", "ParticipantCheckFailedEvt")
    BY <1>5 DEF FulfilRefused
  <2> DEFINE e == [d EXCEPT !.errorCode = "participants"]
  <2>2. e \in Doc /\ e.state = Found(t).state
    <3>1. d \in Doc /\ d.state = Found(t).state
      BY MergedSteps
    <3> QED
      BY <3>1 DEF Doc, ErrorCodes
  <2>3. "participants" \in ErrorCodes
    BY DEF ErrorCodes
  <2>4. CancelBecause(t, e, "participants", "ParticipantCheckFailedEvt")
    BY <2>1
  <2> HIDE DEF e
  <2>5. DocSteps /\ NoOutcome
    BY <2>2, <2>3, <2>4, CancelBecauseSteps
  <2> QED
    BY <1>5, <2>5 DEF FulfilRefused, RequestStep
<1>6. CASE FulfilAccepted(t)
  <2>1. PICK d \in MergedOpaqueState(t) : Keep(t, d)
    BY <1>6 DEF FulfilAccepted
  <2>2. d \in Doc /\ d.state = Found(t).state
    BY MergedSteps
  <2>3. DocSteps
    BY <1>6, <2>1, <2>2, KeepSteps DEF FulfilAccepted
  <2>4. NoOutcome
    BY <1>6 DEF FulfilAccepted, NoOutcome, InOutput
  <2>5. cache'[t] = d
    BY <2>1 DEF Keep, TypeOK
  <2> QED
    BY <1>6, <2>2, <2>3, <2>4, <2>5 DEF FulfilAccepted, RequestStep, Present
<1> QED
  BY <1>2, <1>3, <1>4, <1>5, <1>6 DEF FulfilStart

LEMMA RejectSteps ==
    ASSUME TypeOK, NEW t \in Transfers, Reject(t)
    PROVE  DocSteps /\ NoOutcome /\ RequestStep(t)
<1>1. NoDoc \in Doc /\ NoDoc.state = "ABSENT"
  BY DEF NoDoc, Doc, States, ErrorCodes
<1>2. CASE RejectUnread(t)
  BY <1>2, ReadFailsSteps DEF RejectUnread
<1>3. CASE RejectNotFound(t)
  BY <1>1, <1>3, AnswerSteps DEF RejectNotFound
<1>4. CASE RejectRefused(t)
  <2> DEFINE e == [Found(t) EXCEPT !.errorCode = "participants"]
  <2>1. e \in Doc /\ e.state = Found(t).state
    <3>1. Found(t) \in Doc
      BY FoundState
    <3> QED
      BY <3>1 DEF Doc, ErrorCodes
  <2>2. Answer(t, e, "ParticipantCheckFailedEvt")
    BY <1>4 DEF RejectRefused
  <2> HIDE DEF e
  <2> QED
    BY <2>1, <2>2, AnswerSteps
<1>5. CASE RejectAccepted(t)
  BY <1>5, CancelAndUpdateSteps DEF RejectAccepted, ErrorCodes
<1> QED
  BY <1>2, <1>3, <1>4, <1>5 DEF Reject

LEMMA TimeoutSteps ==
    ASSUME TypeOK, NEW t \in Transfers, Timeout(t)
    PROVE  DocSteps /\ NoOutcome /\ RequestStep(t)
<1>1. CASE TimeoutUnread(t)
  BY <1>1, ReadFailsSteps DEF TimeoutUnread
<1>2. CASE TimeoutIgnored(t)
  BY <1>2, IgnoreSteps DEF TimeoutIgnored
<1>3. CASE TimeoutReceived(t)
  <2> DEFINE a == Aborted(Found(t), "expired")
  <2>1. a \in Doc /\ a.state = "ABORTED"
    BY FoundState, DocTypes, DocStates DEF States, ErrorCodes
  <2>2. Saved(a) \in Doc /\ Saved(a).state = "ABORTED"
    BY <2>1, DocTypes, DocStates DEF States, ErrorCodes
  <2>3. Updated(a, t) \in Doc /\ Updated(a, t).state = "ABORTED"
    BY <2>1, UpdatedTypes
  <2>4. \/ /\ Present(transfers[t])
           /\ Keep(t, Saved(a))
           /\ transfers' = [transfers EXCEPT ![t] = Updated(a, t)]
        \/ Keep(t, a) /\ UNCHANGED transfers
    BY <1>3 DEF TimeoutReceived
  <2>5. NoOutcome
    BY <1>3, EmitSteps DEF TimeoutReceived
  <2> HIDE DEF a
  <2>6. DocSteps
    BY <2>1, <2>2, <2>3, <2>4, KeepSteps, SaveSteps
  <2> QED
    BY <1>3, <2>5, <2>6 DEF TimeoutReceived, RequestStep
<1>4. CASE TimeoutReserved(t)
  BY <1>4, CancelAndUpdateSteps DEF TimeoutReserved, ErrorCodes
<1> QED
  BY <1>1, <1>2, <1>3, <1>4 DEF Timeout

LEMMA QuerySteps ==
    ASSUME TypeOK, NEW t \in Transfers, Query(t) \/ UnknownCommand(t)
    PROVE  DocSteps /\ NoOutcome /\ RequestStep(t)
<1>1. cache[t] \in Doc
  BY DEF TypeOK
<1>2. CASE QueryUnread(t)
  <2>1. NoOutcome
    BY <1>2, EmitSteps DEF QueryUnread
  <2> QED
    BY <1>2, <2>1 DEF QueryUnread, DocSteps, RequestStep
<1>3. CASE QueryRefused(t)
  BY <1>1, <1>3, AnswerSteps DEF QueryRefused
<1>4. CASE QueryAnswered(t)
  BY <1>1, <1>4, AnswerSteps DEF QueryAnswered
<1>5. CASE UnknownCommand(t)
  BY <1>1, <1>5, AnswerSteps DEF UnknownCommand
<1> QED
  BY <1>2, <1>3, <1>4, <1>5 DEF Query

\* Every command but the malformed one is kept and handled like this.
LEMMA HandlerSteps ==
    ASSUME TypeOK, NEW t \in Transfers, ProcessCommand(t), ~MalformedCommand(t)
    PROVE  /\ \E name \in CommandNames : Handling(name, t)
           /\ DocSteps
           /\ NoOutcome
           /\ RequestStep(t)
<1>1. \E name \in CommandNames : Handling(name, t)
  <2>1. CASE PrepareStart(t)
    BY <2>1 DEF PrepareStart, PrepareUnread, PrepareDuplicate, PrepareRefusedByParticipants,
                PrepareRefusedByAccounts, PrepareAccepted, CommandNames
  <2>2. CASE FulfilStart(t)
    BY <2>2 DEF FulfilStart, FulfilUnread, FulfilNotFound, FulfilInvalid, FulfilRefused,
                FulfilAccepted, CommandNames
  <2>3. CASE Reject(t)
    BY <2>3 DEF Reject, RejectUnread, RejectNotFound, RejectRefused, RejectAccepted,
                CommandNames
  <2>4. CASE Timeout(t)
    BY <2>4 DEF Timeout, TimeoutUnread, TimeoutIgnored, TimeoutReceived, TimeoutReserved,
                CommandNames
  <2>5. CASE Query(t) \/ UnknownCommand(t)
    BY <2>5 DEF Query, QueryUnread, QueryRefused, QueryAnswered, UnknownCommand,
                CommandNames
  <2> QED
    BY <2>1, <2>2, <2>3, <2>4, <2>5 DEF ProcessCommand
<1>2. DocSteps /\ NoOutcome /\ RequestStep(t)
  BY PrepareSteps, FulfilSteps, RejectSteps, TimeoutSteps, QuerySteps DEF ProcessCommand
<1> QED
  BY <1>1, <1>2

-----------------------------------------------------------------------------
(* The lifecycle.                                                           *)

\* What the steps of the lifecycle allow, and what they never undo.
LEMMA FollowsStates ==
    ASSUME NEW a \in States \cup {"ABSENT"}, NEW b \in States \cup {"ABSENT"}
    PROVE  /\ Follows(a, a)
           /\ Follows(a, "ABORTED")
           /\ Follows(a, "COMMITTED")
           /\ Follows("ABSENT", a)
           /\ Follows(a, b) /\ a \notin {"ABSENT", "RECEIVED"} => b \notin {"ABSENT", "RECEIVED"}
           /\ Follows(a, b) /\ a \in FinalStates => b \in FinalStates
BY DEF Follows, Lifecycle!LifecycleSteps, States, FinalStates

\* The states of the cached and the stored documents.
LEMMA DocumentStates ==
    ASSUME TypeOK, NEW t \in Transfers
    PROVE  /\ cache[t].state \in States \cup {"ABSENT"}
           /\ transfers[t].state \in States \cup {"ABSENT"}
BY DEF TypeOK, Doc

\* The handlers keep what they find along the lifecycle: nothing cached is lost,
\* nothing appears in the collection, and the cache stays a step ahead of it.
LEMMA DocStepsFollow ==
    ASSUME TypeOK, DocSteps, CacheFollowsStore, NEW t \in Transfers
    PROVE  /\ Present(cache'[t]) => Follows(transfers'[t].state, cache'[t].state)
           /\ Present(cache[t]) => Present(cache'[t])
           /\ ~Present(transfers[t]) => ~Present(transfers'[t])
           /\ Follows(transfers[t].state, transfers'[t].state)
           /\ cache[t].state \in {"RESERVED", "COMMITTED", "ABORTED"} =>
                 cache'[t].state \in {"RESERVED", "COMMITTED", "ABORTED"}
           /\ cache[t].state \in FinalStates => cache'[t].state \in FinalStates
<1>1. /\ cache[t].state \in States \cup {"ABSENT"}
      /\ transfers[t].state \in States \cup {"ABSENT"}
  BY DocumentStates
<1>2. /\ Follows(transfers[t].state, transfers[t].state)
      /\ Follows(transfers[t].state, "ABORTED")
      /\ Follows("ABORTED", "ABORTED")
      /\ Follows("ABSENT", "RECEIVED")
  BY <1>1, FollowsStates DEF States
<1>3. Present(cache[t]) => Follows(transfers[t].state, cache[t].state)
  BY DEF CacheFollowsStore
<1>4. \/ transfers'[t].state = transfers[t].state
      \/ /\ Present(transfers[t])
         /\ transfers'[t].state = "ABORTED"
         /\ cache'[t].state = "ABORTED"
  BY DEF DocSteps
<1>5. \/ cache'[t].state \in {cache[t].state, "ABORTED"}
      \/ ~Present(cache[t]) /\ cache'[t].state = transfers[t].state
      \/ ~Present(cache[t]) /\ ~Present(transfers[t]) /\ cache'[t].state = "RECEIVED"
  BY DEF DocSteps
<1> QED
  BY <1>2, <1>3, <1>4, <1>5 DEF Present, FinalStates

\* An announcement stays true while the collection follows the lifecycle.
LEMMA NotificationsFollow ==
    ASSUME TypeOK, TypeOK', NotificationsBacked, UNCHANGED <<ledger, published>>,
           \A t \in Transfers : Follows(transfers[t].state, transfers'[t].state)
    PROVE  NotificationsBacked'
<1>1. /\ \A t \in Transfers : transfers[t].state \in States \cup {"ABSENT"}
      /\ \A t \in Transfers : transfers'[t].state \in States \cup {"ABSENT"}
  BY DEF TypeOK, Doc
<1>2. \A t \in Transfers :
         /\ transfers[t].state \notin {"ABSENT", "RECEIVED"} =>
               transfers'[t].state \notin {"ABSENT", "RECEIVED"}
         /\ transfers[t].state \in FinalStates => transfers'[t].state \in FinalStates
  BY <1>1, FollowsStates
<1> QED
  BY <1>2 DEF NotificationsBacked, Published, ledger

-----------------------------------------------------------------------------
(* The requests of a batch.                                                 *)

LEMMA RequestElements ==
    ASSUME TypeOK
    PROVE  /\ DOMAIN abRequests = 1..Len(abRequests) /\ Len(abRequests) \in Nat
           /\ \A i \in DOMAIN abRequests : abRequests[i] \in Request
<1>1. DOMAIN abRequests = 1..Len(abRequests) /\ Len(abRequests) \in Nat
  BY LenProperties DEF TypeOK
<1> QED
  BY <1>1, ElementOfSeq DEF TypeOK

LEMMA AskAccountsElements ==
    ASSUME TypeOK, NEW t \in Transfers, NEW type \in {"reserve", "commit"},
           AskAccounts(type, t)
    PROVE  /\ DOMAIN abRequests' = DOMAIN abRequests \cup {Len(abRequests) + 1}
           /\ \A i \in DOMAIN abRequests : abRequests'[i] = abRequests[i] /\ i < Len(abRequests) + 1
           /\ abRequests'[Len(abRequests) + 1] = [type |-> type, id |-> t]
<1> DEFINE r == [type |-> type, id |-> t]
           n == Len(abRequests)
<1>1. r \in Request /\ abRequests \in Seq(Request) /\ abRequests' = Append(abRequests, r)
  BY DEF Request, TypeOK, AskAccounts
<1>2. DOMAIN abRequests = 1..n /\ n \in Nat
  BY RequestElements
<1> HIDE DEF r
<1>3. /\ DOMAIN abRequests' = 1..(n + 1)
      /\ \A i \in 1..n : abRequests'[i] = abRequests[i]
      /\ abRequests'[n + 1] = r
  BY <1>1, <1>2
<1> QED
  BY <1>2, <1>3 DEF r

\* A command keeps what PathInv says of the requests.
LEMMA RequestsPath ==
    ASSUME TypeOK, NEW t \in Transfers, NEW name \in CommandNames,
           Handling(name, t), RequestStep(t), DocSteps,
           ContinueFindsTransfer, ReservesOnceUntilStored, CacheFollowsStore, RequestsInOrder
    PROVE  ContinueFindsTransfer' /\ ReservesOnceUntilStored' /\ RequestsInOrder'
<1>1. pc = "commands" /\ pc' = "commands"
  BY DEF Handling
<1>2. \A u \in Transfers : /\ Present(cache[u]) => Present(cache'[u])
                           /\ ~Present(transfers[u]) => ~Present(transfers'[u])
  BY DocStepsFollow
<1>3. batchCommands' = [batchCommands EXCEPT ![t] = name] /\ name # "none"
  BY DEF Handling, Remembered, CommandNames
<1>4. \A u \in Transfers : batchCommands[u] # "none" \/ u = t => batchCommands'[u] # "none"
  BY <1>3 DEF TypeOK
<1>5. \A i \in DOMAIN abRequests : abRequests[i].id \in Transfers
  BY RequestElements DEF Request
<1>6. \A i \in DOMAIN abRequests :
         Present(cache[abRequests[i].id]) /\ batchCommands[abRequests[i].id] # "none"
  BY <1>1 DEF ContinueFindsTransfer
<1>7. \A i, j \in DOMAIN abRequests :
         abRequests[i].type = "reserve" /\ abRequests[j].type = "reserve" =>
            /\ ~Present(transfers[abRequests[i].id])
            /\ abRequests[i].id = abRequests[j].id => i = j
  BY <1>1 DEF ReservesOnceUntilStored, Reserving
<1>8. ReserveBefore(abRequests)
  BY <1>1 DEF RequestsInOrder
<1>9. CASE UNCHANGED abRequests
  <2>1. ContinueFindsTransfer'
    BY <1>2, <1>4, <1>5, <1>6, <1>9 DEF ContinueFindsTransfer
  <2>2. ReservesOnceUntilStored'
    BY <1>2, <1>5, <1>7, <1>9 DEF ReservesOnceUntilStored, Reserving
  <2>3. RequestsInOrder'
    BY <1>8, <1>9 DEF RequestsInOrder, ReserveBefore
  <2> QED
    BY <2>1, <2>2, <2>3
<1>10. ASSUME NEW type \in {"reserve", "commit"}, AskAccounts(type, t), Present(cache'[t]),
              type = "reserve" => ~Present(Found(t)), type = "commit" => Present(Found(t))
       PROVE  ContinueFindsTransfer' /\ ReservesOnceUntilStored' /\ RequestsInOrder'
  <2> DEFINE n == Len(abRequests) + 1
  <2>1. /\ DOMAIN abRequests' = DOMAIN abRequests \cup {n}
        /\ \A i \in DOMAIN abRequests : abRequests'[i] = abRequests[i] /\ i < n
        /\ abRequests'[n] = [type |-> type, id |-> t]
    BY <1>10, AskAccountsElements
  <2>2. n \notin DOMAIN abRequests
    BY RequestElements
  <2> HIDE DEF n
  <2>3. type = "reserve" => ~Present(cache[t]) /\ ~Present(transfers[t])
    BY <1>10, FoundState DEF Present
  <2>4. ContinueFindsTransfer'
    BY <1>2, <1>4, <1>5, <1>6, <1>10, <2>1 DEF ContinueFindsTransfer
  <2>5. \A i \in DOMAIN abRequests : type = "reserve" => abRequests[i].id # t
    BY <1>6, <2>3
  <2>6. ReservesOnceUntilStored'
    <3>1. \A i \in DOMAIN abRequests' : abRequests'[i].type = "reserve" =>
             ~Present(transfers'[abRequests'[i].id])
      BY <1>2, <1>5, <1>7, <2>1, <2>3
    <3>2. \A i, j \in DOMAIN abRequests' :
             /\ abRequests'[i].type = "reserve"
             /\ abRequests'[j].type = "reserve"
             /\ abRequests'[i].id = abRequests'[j].id
             => i = j
      BY <1>7, <2>1, <2>2, <2>5
    <3> QED
      BY <3>1, <3>2 DEF ReservesOnceUntilStored, Reserving
  <2>7. ReserveBefore(abRequests)'
    BY <1>8, <2>1, <2>2, <2>5 DEF ReserveBefore
  <2> QED
    BY <2>4, <2>6, <2>7 DEF RequestsInOrder
<1> QED
  BY <1>9, <1>10 DEF RequestStep

-----------------------------------------------------------------------------
(* The commands phase and the steps between the phases.                     *)

LEMMA ProcessCommandPath ==
    ASSUME IInv, IInv', PathInv, NEW t \in Transfers, ProcessCommand(t), ~MalformedCommand(t)
    PROVE  PathInv'
<1>1. PICK name \in CommandNames : Handling(name, t)
  BY HandlerSteps DEF IInv
<1>2. TypeOK /\ TypeOK' /\ DocSteps /\ NoOutcome /\ RequestStep(t)
  BY HandlerSteps DEF IInv
<1>3. pc = "commands" /\ pc' = "commands" /\ UNCHANGED <<ledger, published>>
  BY <1>1 DEF Handling
<1>4. ContinueFindsTransfer' /\ ReservesOnceUntilStored' /\ RequestsInOrder'
  BY <1>1, <1>2, RequestsPath DEF PathInv
<1>5. CacheFollowsStore'
  BY <1>2, DocStepsFollow DEF PathInv, CacheFollowsStore
<1>6. ResponsesInOrder'
  BY <1>3 DEF ResponsesInOrder
<1>7. OutcomesBacked'
  BY <1>2, <1>3 DEF PathInv, OutcomesBacked, NoOutcome
<1>8. NotificationsBacked'
  BY <1>2, <1>3, DocStepsFollow, NotificationsFollow DEF PathInv
<1> QED
  BY <1>4, <1>5, <1>6, <1>7, <1>8 DEF PathInv

\* The step to the flush from any phase before it.
LEMMA ToFlushPath ==
    ASSUME PathInv, pc \in {"commands", "accounts", "responses", "cancellations"},
           pc' \in {"flush", "cancellations"}, UNCHANGED <<cache, transfers, published>>,
           UNCHANGED <<abRequests, outputEvents>>,
           reserved \subseteq reserved', posted \subseteq posted'
    PROVE  PathInv'
<1>1. ContinueFindsTransfer' /\ RequestsInOrder' /\ ResponsesInOrder'
  BY DEF ContinueFindsTransfer, RequestsInOrder, ResponsesInOrder
<1>2. ReservesOnceUntilStored'
  BY DEF PathInv, ReservesOnceUntilStored, Reserving
<1>3. CacheFollowsStore'
  BY DEF PathInv, CacheFollowsStore
<1>4. OutcomesBacked'
  BY DEF PathInv, OutcomesBacked, InOutput
<1>5. NotificationsBacked'
  BY DEF PathInv, NotificationsBacked, Published
<1> QED
  BY <1>1, <1>2, <1>3, <1>4, <1>5 DEF PathInv

LEMMA EndOfCommandsPath ==
    ASSUME IInv, PathInv, EndOfCommands
    PROVE  PathInv'
<1>1. /\ pc = "commands"
      /\ UNCHANGED <<cache, batchCommands, abRequests, abResponses, outputEvents, transfers,
                     reserved, posted, published>>
  BY DEF EndOfCommands, memory, queues, world, ledger
<1>2. CASE abRequests = <<>>
  <2>1. pc' \in {"flush", "cancellations"}
    BY <1>2 DEF EndOfCommands, AfterResponses
  <2> QED
    BY <1>1, <2>1, ToFlushPath
<1>3. CASE abRequests # <<>>
  <2>1. pc' = "accounts"
    BY <1>3 DEF EndOfCommands
  <2>2. ContinueFindsTransfer' /\ RequestsInOrder' /\ ReservesOnceUntilStored'
    BY <1>1, <2>1 DEF PathInv, ContinueFindsTransfer, RequestsInOrder, ReserveBefore,
                      ReservesOnceUntilStored, Reserving
  <2>3. CacheFollowsStore' /\ ResponsesInOrder' /\ OutcomesBacked' /\ NotificationsBacked'
    BY <1>1, <2>1 DEF PathInv, CacheFollowsStore, ResponsesInOrder, OutcomesBacked, InOutput,
                      NotificationsBacked, Published
  <2> QED
    BY <2>2, <2>3 DEF PathInv
<1> QED
  BY <1>2, <1>3

LEMMA MalformedPath ==
    ASSUME PathInv, NEW t \in Transfers, MalformedCommand(t)
    PROVE  PathInv'
<1>1. /\ pc = "commands" /\ pc' = "flush"
      /\ UNCHANGED <<cache, abRequests, outputEvents, transfers, reserved, posted, published>>
  BY DEF MalformedCommand, memory, queues, world, ledger
<1> QED
  BY <1>1, ToFlushPath

LEMMA EndOfResponsesPath ==
    ASSUME PathInv, EndOfResponses
    PROVE  PathInv'
<1>1. /\ pc = "responses" /\ pc' \in {"flush", "cancellations"}
      /\ UNCHANGED <<cache, abRequests, outputEvents, transfers, reserved, posted, published>>
  BY DEF EndOfResponses, AfterResponses, memory, queues, world, ledger
<1> QED
  BY <1>1, ToFlushPath

LEMMA CancellationsPath ==
    ASSUME PathInv, Cancellations
    PROVE  PathInv'
<1>1. /\ pc = "cancellations" /\ pc' = "flush"
      /\ UNCHANGED <<cache, abRequests, outputEvents, transfers, reserved, posted, published>>
  BY DEF Cancellations, memory, queues
<1> QED
  BY <1>1, ToFlushPath

\* Outside the phases of a batch only the cache and the announcements matter.
LEMMA OutsidePath ==
    ASSUME PathInv, UNCHANGED <<transfers, reserved, posted, published>>,
           cache' \in {cache, EmptyCache}, pc' \in {"idle", "acknowledge", "dying"}
    PROVE  PathInv'
<1>1. \A t \in Transfers : ~Present(EmptyCache[t])
  BY DEF EmptyCache, NoDoc, Present
<1>2. CacheFollowsStore'
  BY <1>1 DEF PathInv, CacheFollowsStore
<1>3. NotificationsBacked'
  BY DEF PathInv, NotificationsBacked, Published
<1>4. ContinueFindsTransfer' /\ RequestsInOrder' /\ ResponsesInOrder'
      /\ ReservesOnceUntilStored' /\ OutcomesBacked'
  BY DEF ContinueFindsTransfer, RequestsInOrder, ResponsesInOrder, ReservesOnceUntilStored,
         OutcomesBacked
<1> QED
  BY <1>2, <1>3, <1>4 DEF PathInv

LEMMA StartBatchPath ==
    ASSUME PathInv, NEW n \in 1..BatchSize, StartBatch(n)
    PROVE  PathInv'
<1>1. /\ pc' = "commands" /\ abRequests' = <<>> /\ outputEvents' = {}
      /\ UNCHANGED <<cache, transfers, reserved, posted, published>>
  BY DEF StartBatch, world, ledger
<1>2. ContinueFindsTransfer' /\ RequestsInOrder' /\ ReservesOnceUntilStored'
  BY <1>1 DEF ContinueFindsTransfer, RequestsInOrder, ReserveBefore,
              ReservesOnceUntilStored, Reserving
<1>3. ResponsesInOrder' /\ OutcomesBacked'
  BY <1>1 DEF ResponsesInOrder, OutcomesBacked, InOutput
<1>4. CacheFollowsStore' /\ NotificationsBacked'
  BY <1>1 DEF PathInv, CacheFollowsStore, NotificationsBacked, Published
<1> QED
  BY <1>2, <1>3, <1>4 DEF PathInv

LEMMA UnchangedPath ==
    ASSUME PathInv, UNCHANGED <<pc, memory, transfers, reserved, posted, published>>
    PROVE  PathInv'
<1>1. UNCHANGED <<cache, batchCommands, abRequests, abResponses, outputEvents>>
  BY DEF memory, queues
<1>2. ContinueFindsTransfer' /\ ReservesOnceUntilStored' /\ RequestsInOrder'
  BY <1>1 DEF PathInv, ContinueFindsTransfer, ReservesOnceUntilStored, Reserving,
              RequestsInOrder, ReserveBefore
<1>3. ResponsesInOrder'
  BY <1>1 DEF PathInv, ResponsesInOrder, ReserveBefore, ReservesUnreported, InOutput
<1>4. CacheFollowsStore' /\ OutcomesBacked' /\ NotificationsBacked'
  BY <1>1 DEF PathInv, CacheFollowsStore, OutcomesBacked, InOutput, NotificationsBacked,
              Published
<1> QED
  BY <1>2, <1>3, <1>4 DEF PathInv

-----------------------------------------------------------------------------
(* The answer of A&B.                                                       *)

LEMMA AccountsAnswerPath ==
    ASSUME IInv, PathInv, NEW accepted \in SUBSET (DOMAIN abRequests), AccountsAnswer(accepted)
    PROVE  PathInv'
<1>1. /\ pc = "accounts"
      /\ reserved \subseteq reserved' /\ posted \subseteq posted'
      /\ UNCHANGED <<cache, batchCommands, abRequests, outputEvents, transfers, published>>
  BY DEF AccountsAnswer
<1>2. CASE pc' = "flush"
  BY <1>1, <1>2, ToFlushPath
<1>3. CASE /\ pc' = "responses"
           /\ abResponses' = [i \in DOMAIN abRequests |-> ResponseTo(i, accepted)]
  <2>1. /\ DOMAIN abResponses' = DOMAIN abRequests
        /\ \A i \in DOMAIN abRequests :
              /\ abResponses'[i].id = abRequests[i].id
              /\ abResponses'[i].type = abRequests[i].type
    BY <1>3 DEF ResponseTo
  <2>2. ContinueFindsTransfer' /\ RequestsInOrder' /\ ReservesOnceUntilStored'
    BY <1>1, <1>3 DEF PathInv, ContinueFindsTransfer, RequestsInOrder, ReserveBefore,
                      ReservesOnceUntilStored, Reserving
  <2>3. \A t \in Transfers :
           ~InOutput("TransferPreparedEvt", t) /\ ~InOutput("TransferFulfiledEvt", t)
    BY <1>1 DEF PathInv, OutcomesBacked
  <2>4. OutcomesBacked'
    BY <1>1, <1>3, <2>3 DEF OutcomesBacked, InOutput
  <2>5. ReserveBefore(abResponses)'
    BY <1>1, <2>1 DEF PathInv, RequestsInOrder, ReserveBefore
  <2>6. \A i \in DOMAIN abRequests : ~InOutput("TransferFulfiledEvt", abRequests[i].id)
    BY <2>3, RequestElements DEF IInv, Request
  <2>7. ResponsesInOrder'
    BY <1>1, <2>1, <2>5, <2>6 DEF ResponsesInOrder, ReservesUnreported, InOutput
  <2>8. CacheFollowsStore' /\ NotificationsBacked'
    BY <1>1 DEF PathInv, CacheFollowsStore, NotificationsBacked, Published
  <2> QED
    BY <2>2, <2>4, <2>7, <2>8 DEF PathInv
<1> QED
  BY <1>2, <1>3 DEF AccountsAnswer

LEMMA ResponseElements ==
    ASSUME TypeOK, abResponses # <<>>
    PROVE  /\ 1 \in DOMAIN abResponses
           /\ Head(abResponses) = abResponses[1]
           /\ abResponses[1] \in Response
           /\ \A i \in DOMAIN Tail(abResponses) :
                 /\ i \in Nat \ {0}
                 /\ i + 1 \in DOMAIN abResponses
                 /\ Tail(abResponses)[i] = abResponses[i + 1]
                 /\ abResponses[i + 1] \in Response
<1>1. abResponses \in Seq(Response)
  BY DEF TypeOK
<1>2. /\ Head(abResponses) = abResponses[1]
      /\ DOMAIN abResponses = 1..Len(abResponses)
      /\ Len(abResponses) \in Nat \ {0}
      /\ DOMAIN Tail(abResponses) = 1..(Len(abResponses) - 1)
      /\ \A i \in 1..(Len(abResponses) - 1) : Tail(abResponses)[i] = abResponses[i + 1]
  BY <1>1
<1>3. 1 \in DOMAIN abResponses
  BY <1>2
<1>4. \A i \in DOMAIN abResponses : abResponses[i] \in Response
  BY <1>1, <1>2, ElementOfSeq
<1> QED
  BY <1>2, <1>3, <1>4

\* A reserve response is about a transfer that is not stored.
LEMMA ReserveUnstored ==
    ASSUME TypeOK, PathInv, pc = "responses",
           NEW i \in DOMAIN abResponses, abResponses[i].type = "reserve"
    PROVE  ~Present(transfers[abResponses[i].id])
<1>1. PICK j \in DOMAIN abRequests : /\ abRequests[j].id = abResponses[i].id
                                     /\ abRequests[j].type = abResponses[i].type
  BY DEF PathInv, ResponsesInOrder
<1> QED
  BY <1>1 DEF PathInv, ReservesOnceUntilStored, Reserving

\* What a continue method has to keep for the invariant.
LEMMA ContinuingPath ==
    ASSUME IInv, IInv', PathInv, NEW type, NEW success, Continuing(type, success),
           \A u \in Transfers :
              /\ Present(cache[u]) => Present(cache'[u])
              /\ ~Present(transfers[u]) => ~Present(transfers'[u])
              /\ Follows(transfers[u].state, transfers'[u].state),
           CacheFollowsStore', OutcomesBacked',
           ReservesUnreported'
    PROVE  PathInv'
<1>1. /\ pc = "responses" /\ pc' = "responses" /\ abResponses # <<>>
      /\ abResponses' = Tail(abResponses)
      /\ UNCHANGED <<batchCommands, abRequests, ledger, published>>
  BY DEF Continuing, control
<1>2. \A i \in DOMAIN abRequests : abRequests[i].id \in Transfers
  BY RequestElements DEF IInv, Request
<1>3. ContinueFindsTransfer'
  BY <1>1, <1>2 DEF PathInv, ContinueFindsTransfer
<1>4. ReservesOnceUntilStored'
  BY <1>1, <1>2 DEF PathInv, ReservesOnceUntilStored, Reserving
<1>5. RequestsInOrder'
  BY <1>1 DEF PathInv, RequestsInOrder, ReserveBefore
<1>6. \A i \in DOMAIN abResponses' :
         i \in Nat /\ i + 1 \in DOMAIN abResponses /\ abResponses'[i] = abResponses[i + 1]
  BY <1>1, ResponseElements DEF IInv
<1>7. ResponsesInOrder'
  <2>1. ReserveBefore(abResponses)'
    BY <1>1, <1>6 DEF PathInv, ResponsesInOrder, ReserveBefore
  <2>2. \A i \in DOMAIN abResponses' : \E j \in DOMAIN abRequests' :
           /\ abRequests'[j].id = abResponses'[i].id
           /\ abRequests'[j].type = abResponses'[i].type
    BY <1>1, <1>6 DEF PathInv, ResponsesInOrder
  <2> QED
    BY <2>1, <2>2 DEF ResponsesInOrder
<1>8. NotificationsBacked'
  BY <1>1, NotificationsFollow DEF IInv, PathInv
<1> QED
  BY <1>3, <1>4, <1>5, <1>7, <1>8 DEF PathInv

\* The continue methods of a refused request.
LEMMA ContinueFailedPath ==
    ASSUME IInv, IInv', PathInv, NEW type, NEW success, Continuing(type, success),
           DocSteps, NoOutcome
    PROVE  PathInv'
<1>1. /\ pc = "responses" /\ pc' = "responses" /\ abResponses # <<>>
      /\ abResponses' = Tail(abResponses) /\ UNCHANGED ledger
  BY DEF Continuing, control
<1>2. \A u \in Transfers :
         /\ Present(cache'[u]) => Follows(transfers'[u].state, cache'[u].state)
         /\ Present(cache[u]) => Present(cache'[u])
         /\ ~Present(transfers[u]) => ~Present(transfers'[u])
         /\ Follows(transfers[u].state, transfers'[u].state)
         /\ cache[u].state \in {"RESERVED", "COMMITTED", "ABORTED"} =>
               cache'[u].state \in {"RESERVED", "COMMITTED", "ABORTED"}
         /\ cache[u].state \in FinalStates => cache'[u].state \in FinalStates
  BY DocStepsFollow DEF IInv, PathInv
<1>3. CacheFollowsStore'
  BY <1>2 DEF CacheFollowsStore
<1>4. OutcomesBacked'
  BY <1>1, <1>2 DEF PathInv, OutcomesBacked, NoOutcome, ledger
<1>5. ReservesUnreported'
  <2>1. SUFFICES ASSUME NEW i \in DOMAIN abResponses', abResponses'[i].type = "reserve"
                 PROVE  [name |-> "TransferFulfiledEvt", id |-> abResponses'[i].id] \notin outputEvents'
    BY DEF ReservesUnreported, InOutput
  <2>2. /\ i + 1 \in DOMAIN abResponses
        /\ abResponses'[i] = abResponses[i + 1]
        /\ abResponses[i + 1] \in Response
    BY <1>1, ResponseElements DEF IInv
  <2>3. ~InOutput("TransferFulfiledEvt", abResponses[i + 1].id)
    BY <1>1, <2>1, <2>2 DEF PathInv, ResponsesInOrder, ReservesUnreported
  <2>4. abResponses[i + 1].id \in Transfers
    BY <2>2 DEF Response
  <2> QED
    BY <2>2, <2>3, <2>4 DEF NoOutcome, InOutput
<1> QED
  BY <1>2, <1>3, <1>4, <1>5, ContinuingPath

\* The continue methods of an accepted request.
LEMMA ContinueAcceptedPath ==
    ASSUME IInv, IInv', PathInv, PrepareContinue \/ FulfilContinue
    PROVE  PathInv'
<1> DEFINE t == Head(abResponses).id
           s == IF PrepareContinue THEN "RESERVED" ELSE "COMMITTED"
<1>1. /\ pc = "responses" /\ pc' = "responses" /\ abResponses # <<>>
      /\ abResponses' = Tail(abResponses) /\ UNCHANGED <<ledger, transfers>>
  BY DEF PrepareContinue, FulfilContinue, Continuing, control
<1>2. /\ 1 \in DOMAIN abResponses /\ Head(abResponses) = abResponses[1]
      /\ t \in Transfers
  BY <1>1, ResponseElements DEF IInv, Response
<1>3. \E d \in Doc : d.state = s /\ Keep(t, d)
  <2>1. Found(t) \in Doc
    BY <1>2, FoundState DEF IInv
  <2>2. /\ InState(Found(t), "RESERVED") \in Doc
        /\ InState(Found(t), "RESERVED").state = "RESERVED"
        /\ InState(Found(t), "COMMITTED") \in Doc
        /\ InState(Found(t), "COMMITTED").state = "COMMITTED"
    BY <2>1, DocTypes, DocStates DEF States, ErrorCodes
  <2> QED
    BY <2>2 DEF PrepareContinue, FulfilContinue, TransferOf
<1>4. /\ \A u \in Transfers \ {t} : cache'[u] = cache[u]
      /\ cache'[t].state = s
  BY <1>2, <1>3 DEF Keep, IInv, TypeOK
<1>5. Follows(transfers[t].state, s)
  <2>1. PrepareContinue => Head(abResponses).type = "reserve"
    BY DEF PrepareContinue, Continuing
  <2>2. PrepareContinue => transfers[t].state = "ABSENT"
    BY <1>1, <1>2, <2>1, ReserveUnstored DEF IInv, Present
  <2>3. /\ transfers[t].state \in States \cup {"ABSENT"}
        /\ "RESERVED" \in States \cup {"ABSENT"}
    BY <1>2, DocumentStates DEF IInv, States
  <2> QED
    BY <2>2, <2>3, FollowsStates
<1>6. \A u \in Transfers : Follows(transfers[u].state, transfers'[u].state)
  BY <1>1 DEF Follows
<1>7. CacheFollowsStore'
  BY <1>1, <1>4, <1>5 DEF PathInv, CacheFollowsStore
<1>8. \A u \in Transfers : Present(cache[u]) => Present(cache'[u])
  BY <1>4 DEF Present
<1>9. CASE PrepareContinue
  <2>1. t \in reserved /\ ~InOutput("TransferFulfiledEvt", t) /\ s = "RESERVED"
    <3>1. Head(abResponses).type = "reserve"
      BY <1>9 DEF PrepareContinue, Continuing
    <3>2. t \in reserved
      BY <1>9, ContinuingBacked DEF PrepareContinue
    <3> QED
      BY <1>1, <1>2, <1>9, <3>1, <3>2 DEF PathInv, ResponsesInOrder, ReservesUnreported
  <2>2. outputEvents' = outputEvents \cup {[name |-> "TransferPreparedEvt", id |-> t]}
    BY <1>9 DEF PrepareContinue, TransferOf, Emit
  <2> HIDE DEF t, s
  <2>3. \A u : /\ InOutput("TransferFulfiledEvt", u)' => InOutput("TransferFulfiledEvt", u)
               /\ InOutput("TransferPreparedEvt", u)' => InOutput("TransferPreparedEvt", u) \/ u = t
    BY <2>2 DEF InOutput
  <2>4. OutcomesBacked'
    BY <1>1, <1>2, <1>4, <2>1, <2>3 DEF PathInv, OutcomesBacked, ledger
  <2>5. ReservesUnreported'
    BY <1>1, <2>2, ResponseElements DEF IInv, PathInv, ResponsesInOrder,
                                           ReservesUnreported, InOutput
  <2>6. Continuing("reserve", TRUE)
    BY <1>9 DEF PrepareContinue
  <2> QED
    BY <1>1, <1>6, <1>7, <1>8, <2>4, <2>5, <2>6, ContinuingPath
<1>10. CASE FulfilContinue /\ ~PrepareContinue
  <2>1. t \in posted /\ s = "COMMITTED"
    BY <1>10, ContinuingBacked DEF FulfilContinue
  <2>2. outputEvents' = outputEvents \cup {[name |-> "TransferFulfiledEvt", id |-> t]}
    BY <1>10 DEF FulfilContinue, TransferOf, Emit
  <2>3. abResponses[1].type = "commit" /\ abResponses[1].id = t
    BY <1>2, <1>10 DEF FulfilContinue, Continuing
  <2> HIDE DEF t, s
  <2>4. \A u : /\ InOutput("TransferPreparedEvt", u)' => InOutput("TransferPreparedEvt", u)
               /\ InOutput("TransferFulfiledEvt", u)' => InOutput("TransferFulfiledEvt", u) \/ u = t
    BY <2>2 DEF InOutput
  <2>5. OutcomesBacked'
    BY <1>1, <1>2, <1>4, <2>1, <2>4 DEF PathInv, OutcomesBacked, FinalStates, ledger
  <2>6. ReservesUnreported'
    <3>1. SUFFICES ASSUME NEW i \in DOMAIN abResponses', abResponses'[i].type = "reserve"
                   PROVE  [name |-> "TransferFulfiledEvt", id |-> abResponses'[i].id] \notin outputEvents'
      BY DEF ReservesUnreported, InOutput
    <3>2. /\ i \in Nat \ {0} /\ i + 1 \in DOMAIN abResponses
          /\ abResponses'[i] = abResponses[i + 1]
      BY <1>1, ResponseElements DEF IInv
    <3>3. ~InOutput("TransferFulfiledEvt", abResponses[i + 1].id)
      BY <1>1, <3>1, <3>2 DEF PathInv, ResponsesInOrder, ReservesUnreported
    <3>4. abResponses[i + 1].id # t
      BY <1>1, <1>2, <2>3, <3>1, <3>2 DEF PathInv, ResponsesInOrder, ReserveBefore
    <3> QED
      BY <2>2, <3>2, <3>3, <3>4 DEF InOutput
  <2>7. Continuing("commit", TRUE)
    BY <1>10 DEF FulfilContinue
  <2> QED
    BY <1>1, <1>6, <1>7, <1>8, <2>5, <2>6, <2>7, ContinuingPath
<1> QED
  BY <1>9, <1>10

LEMMA ContinuePath ==
    ASSUME IInv, IInv', PathInv, Continue
    PROVE  PathInv' /\ \A u \in Transfers : transfers'[u].state \in {transfers[u].state, "ABORTED"}
<1> DEFINE t == Head(abResponses).id
<1>1. t \in Transfers
  BY ContinuingBacked DEF Continue, PrepareContinue, PrepareContinueFailed, FulfilContinue,
                          FulfilContinueFailed
<1>2. Found(t) \in Doc
  BY <1>1, FoundState DEF IInv
<1>3. CASE PrepareContinue \/ FulfilContinue
  BY <1>3, ContinueAcceptedPath DEF PrepareContinue, FulfilContinue
<1>4. CASE PrepareContinueFailed
  <2> DEFINE d == Aborted(Found(t), "liquidity")
  <2>1. d \in Doc /\ d.state = "ABORTED"
    BY <1>2, DocTypes, DocStates DEF States, ErrorCodes
  <2>2. /\ Continuing("reserve", FALSE) /\ Keep(t, d) /\ UNCHANGED transfers
        /\ Emit("TransferPrepareLiquidityCheckFailedEvt", t)
    BY <1>4 DEF PrepareContinueFailed, TransferOf
  <2> HIDE DEF d, t
  <2>3. DocSteps /\ NoOutcome
    BY <1>1, <2>1, <2>2, KeepSteps, EmitSteps DEF IInv
  <2> QED
    BY <2>2, <2>3, ContinueFailedPath
<1>5. CASE FulfilContinueFailed
  <2> DEFINE d == Aborted(Found(t), "commit")
  <2>1. d \in Doc /\ d.state = "ABORTED" /\ "commit" \in ErrorCodes
    BY <1>2, DocTypes, DocStates DEF States, ErrorCodes
  <2>2. /\ Continuing("commit", FALSE)
        /\ CancelBecause(t, d, "commit", "TransferCancelReservationAndCommitFailedEvt")
    BY <1>5 DEF FulfilContinueFailed, TransferOf
  <2> HIDE DEF d, t
  <2>3. DocSteps /\ NoOutcome
    BY <1>1, <2>1, <2>2, CancelBecauseSteps DEF IInv
  <2> QED
    BY <2>2, <2>3, ContinueFailedPath DEF DocSteps
<1> QED
  BY <1>3, <1>4, <1>5 DEF Continue

-----------------------------------------------------------------------------
(* The flush and the send.                                                  *)

\* The flush moves the collection along the lifecycle, to what is cached.
LEMMA FlushStates ==
    ASSUME IInv, PathInv, Flush
    PROVE  /\ \A t \in Transfers :
                 /\ transfers'[t].state \in {transfers[t].state, cache[t].state}
                 /\ Follows(transfers[t].state, transfers'[t].state)
           /\ pc' = "send" =>
                 /\ \A t \in Transfers : Present(cache[t]) => transfers'[t].state = cache[t].state
                 /\ cache' = EmptyCache
           /\ pc' \in {"send", "dying"}
           /\ pc' = "dying" => UNCHANGED cache
<1>1. \A t \in Transfers : Saved(cache[t]).state = cache[t].state
  BY DocStates DEF States, ErrorCodes, IInv, TypeOK
<1>2. \A t \in Transfers : Follows(transfers[t].state, transfers[t].state)
  BY DEF Follows
<1>3. \A t \in Transfers : Present(cache[t]) => Follows(transfers[t].state, cache[t].state)
  BY DEF PathInv, CacheFollowsStore
<1>4. PICK ids \in SUBSET Cached : transfers' = Stored(ids)
  BY DEF Flush
<1>5. \A t \in Transfers :
         transfers'[t].state = IF t \in ids THEN cache[t].state ELSE transfers[t].state
  BY <1>1, <1>4 DEF Stored
<1>6. \A t \in ids : Present(cache[t])
  BY DEF Cached
<1>7. \A t \in Transfers :
         /\ transfers'[t].state \in {transfers[t].state, cache[t].state}
         /\ Follows(transfers[t].state, transfers'[t].state)
  BY <1>2, <1>3, <1>5, <1>6
<1>8. pc' = "send" => transfers' = Stored(Cached) /\ cache' = EmptyCache
  BY DEF Flush
<1>9. pc' = "send" =>
         \A t \in Transfers : Present(cache[t]) => transfers'[t].state = cache[t].state
  BY <1>1, <1>8 DEF Stored, Cached
<1>10. pc' \in {"send", "dying"} /\ (pc' = "dying" => UNCHANGED cache)
  BY DEF Flush
<1> QED
  BY <1>7, <1>8, <1>9, <1>10

LEMMA FlushPath ==
    ASSUME IInv, IInv', PathInv, Flush
    PROVE  PathInv'
<1>1. /\ pc = "flush"
      /\ UNCHANGED <<ledger, published, outputEvents>>
  BY DEF Flush, queues
<1>2. \A t \in Transfers :
         /\ transfers'[t].state \in {transfers[t].state, cache[t].state}
         /\ Follows(transfers[t].state, transfers'[t].state)
  BY FlushStates
<1>3. NotificationsBacked'
  BY <1>1, <1>2, NotificationsFollow DEF IInv, PathInv
<1>4. pc' \in {"send", "dying"}
  BY FlushStates
<1>5. /\ ContinueFindsTransfer' /\ RequestsInOrder' /\ ResponsesInOrder'
      /\ ReservesOnceUntilStored'
  BY <1>4 DEF ContinueFindsTransfer, RequestsInOrder, ResponsesInOrder,
              ReservesOnceUntilStored
<1>6. CASE pc' = "send"
  <2>1. /\ \A t \in Transfers : Present(cache[t]) => transfers'[t].state = cache[t].state
        /\ cache' = EmptyCache
    BY <1>6, FlushStates
  <2>2. CacheFollowsStore'
    BY <2>1 DEF CacheFollowsStore, EmptyCache, NoDoc, Present
  <2>3. \A t \in Transfers :
           /\ InOutput("TransferPreparedEvt", t) =>
                 t \in reserved /\ cache[t].state \in {"RESERVED", "COMMITTED", "ABORTED"}
           /\ InOutput("TransferFulfiledEvt", t) =>
                 t \in posted /\ cache[t].state \in FinalStates
    BY <1>1 DEF PathInv, OutcomesBacked
  <2>4. OutcomesBacked'
    BY <1>1, <1>6, <2>1, <2>3 DEF OutcomesBacked, InOutput, FinalStates, Present, ledger
  <2> QED
    BY <1>3, <1>5, <2>2, <2>4 DEF PathInv
<1>7. CASE pc' = "dying"
  <2>1. UNCHANGED cache
    BY <1>7, FlushStates
  <2>2. CacheFollowsStore'
    BY <1>2, <2>1 DEF PathInv, CacheFollowsStore, Follows
  <2>3. OutcomesBacked'
    BY <1>7 DEF OutcomesBacked
  <2> QED
    BY <1>3, <1>5, <2>2, <2>3 DEF PathInv
<1> QED
  BY <1>4, <1>6, <1>7

LEMMA SendPath ==
    ASSUME PathInv, Send
    PROVE  PathInv'
<1>1. /\ pc = "send" /\ pc' \in {"dying", "acknowledge"}
      /\ UNCHANGED <<cache, transfers, ledger>>
  BY DEF Send, memory
<1>2. PICK sent \in SUBSET outputEvents : published' = published \cup sent
  BY DEF Send
<1>3. \A name : \A t : Published(name, t)' => Published(name, t) \/ InOutput(name, t)
  BY <1>2 DEF Published, InOutput
<1>4. NotificationsBacked'
  BY <1>1, <1>3 DEF PathInv, OutcomesBacked, NotificationsBacked, ledger
<1>5. CacheFollowsStore'
  BY <1>1 DEF PathInv, CacheFollowsStore
<1>6. /\ ContinueFindsTransfer' /\ RequestsInOrder' /\ ResponsesInOrder'
      /\ ReservesOnceUntilStored' /\ OutcomesBacked'
  BY <1>1 DEF ContinueFindsTransfer, RequestsInOrder, ResponsesInOrder,
              ReservesOnceUntilStored, OutcomesBacked
<1> QED
  BY <1>4, <1>5, <1>6 DEF PathInv

-----------------------------------------------------------------------------
(* The invariant.                                                           *)

LEMMA InitPath == Init => PathInv
<1> SUFFICES ASSUME Init PROVE PathInv
  OBVIOUS
<1>1. /\ pc = "idle" /\ published = {} /\ cache = EmptyCache
  BY DEF Init
<1>2. CacheFollowsStore /\ NotificationsBacked
  BY <1>1 DEF CacheFollowsStore, NotificationsBacked, Published, EmptyCache, NoDoc, Present
<1>3. /\ ContinueFindsTransfer /\ RequestsInOrder /\ ResponsesInOrder
      /\ ReservesOnceUntilStored /\ OutcomesBacked
  BY <1>1 DEF ContinueFindsTransfer, RequestsInOrder, ResponsesInOrder,
              ReservesOnceUntilStored, OutcomesBacked
<1> QED
  BY <1>2, <1>3 DEF PathInv

\* The steps that leave the collection, the ledger and the announcements alone.
QuietStep ==
    \/ \E n \in 1..BatchSize : StartBatch(n)
    \/ \E t \in Transfers : MalformedCommand(t)
    \/ EndOfCommands
    \/ EndOfResponses
    \/ Cancellations
    \/ Acknowledge
    \/ FailedAcknowledge
    \/ Exit
    \/ Crash
    \/ \E name \in Inputs, t \in Transfers : Produce(name, t)
    \/ \E t \in Transfers : Expire(t)
    \/ UNCHANGED vars

LEMMA QuietPath ==
    ASSUME IInv, PathInv, QuietStep
    PROVE  PathInv' /\ UNCHANGED <<transfers, reserved, posted, published>>
<1>1. CASE \E n \in 1..BatchSize : StartBatch(n)
  BY <1>1, StartBatchPath DEF StartBatch, world, ledger
<1>2. CASE \E t \in Transfers : MalformedCommand(t)
  BY <1>2, MalformedPath DEF MalformedCommand, world, ledger
<1>3. CASE EndOfCommands
  BY <1>3, EndOfCommandsPath DEF EndOfCommands, world, ledger
<1>4. CASE EndOfResponses
  BY <1>4, EndOfResponsesPath DEF EndOfResponses, world, ledger
<1>5. CASE Cancellations
  BY <1>5, CancellationsPath DEF Cancellations
<1>6. CASE Acknowledge
  BY <1>6, OutsidePath DEF Acknowledge, memory, world, ledger
<1>7. CASE FailedAcknowledge
  BY <1>7, UnchangedPath DEF FailedAcknowledge, control, world, ledger
<1>8. CASE Exit \/ Crash
  BY <1>8, OutsidePath DEF Exit, Crash, Restart, world, ledger
<1>9. CASE \E name \in Inputs, t \in Transfers : Produce(name, t)
  BY <1>9, UnchangedPath DEF Produce, control, world, ledger
<1>10. CASE \E t \in Transfers : Expire(t)
  BY <1>10, UnchangedPath DEF Expire, control, ledger
<1>11. CASE UNCHANGED vars
  BY <1>11, UnchangedPath DEF vars, control, world, ledger
<1> QED
  BY <1>1, <1>2, <1>3, <1>4, <1>5, <1>6, <1>7, <1>8, <1>9, <1>10, <1>11 DEF QuietStep

\* The kinds of step.
LEMMA StepKinds ==
    ASSUME [Next]_vars
    PROVE  \/ QuietStep
           \/ \E t \in Transfers : ProcessCommand(t) /\ ~MalformedCommand(t)
           \/ \E accepted \in SUBSET (DOMAIN abRequests) : AccountsAnswer(accepted)
           \/ Continue
           \/ Flush
           \/ Send
BY DEF Next, Process, Environment, QuietStep

LEMMA NextPath ==
    ASSUME IInv, IInv', PathInv, [Next]_vars
    PROVE  PathInv'
<1>1. CASE QuietStep
  BY <1>1, QuietPath
<1>2. CASE \E t \in Transfers : ProcessCommand(t) /\ ~MalformedCommand(t)
  BY <1>2, ProcessCommandPath
<1>3. CASE \E accepted \in SUBSET (DOMAIN abRequests) : AccountsAnswer(accepted)
  BY <1>3, AccountsAnswerPath
<1>4. CASE Continue
  BY <1>4, ContinuePath
<1>5. CASE Flush
  BY <1>5, FlushPath
<1>6. CASE Send
  BY <1>6, SendPath
<1> QED
  BY <1>1, <1>2, <1>3, <1>4, <1>5, <1>6, StepKinds

LEMMA PathInvariant == Spec => [](IInv /\ PathInv)
<1>1. Init => IInv /\ PathInv
  BY InitInv, InitPath
<1>2. IInv /\ PathInv /\ [Next]_vars => (IInv /\ PathInv)'
  BY NextInv, NextPath
<1> QED
  BY <1>1, <1>2, PTL DEF Spec

\* The "null transfer" branches of the continue methods (aggregate.ts) are never taken:
\* whatever else is in the batch, a transfer with a request to A&B stays cached, and a
\* command kept for it, until all responses have been continued.
THEOREM ContinueAlwaysFindsTransfer == Spec => []ContinueFindsTransfer
<1>1. IInv /\ PathInv => ContinueFindsTransfer
  BY DEF PathInv
<1> QED
  BY <1>1, PathInvariant, PTL

\* The payer's liquidity is asked for once in a batch, and never for a transfer that is
\* stored: neither a duplicate, nor the redelivery of a batch that had been stored,
\* reserves it again (_prepareTransferStart).
THEOREM NeverReservesStored == Spec => []ReservesOnceUntilStored
<1>1. IInv /\ PathInv => ReservesOnceUntilStored
  BY DEF PathInv
<1> QED
  BY <1>1, PathInvariant, PTL

\* The other services are told of a prepared or fulfilled transfer only when A&B has
\* accepted it and the collection has it: _flush comes before the send, and nothing
\* after the send, no crash or retry either, takes the stored state back.
THEOREM NotificationsAlwaysBacked == Spec => []NotificationsBacked
<1>1. IInv /\ PathInv => NotificationsBacked
  BY DEF PathInv
<1> QED
  BY <1>1, PathInvariant, PTL

-----------------------------------------------------------------------------
(* The refinement.                                                          *)

LEMMA RecordStep ==
    ASSUME TypeOK', StateIsBacked', UNCHANGED <<ledger, published>>,
           \A t \in Transfers : Follows(transfers[t].state, transfers'[t].state)
    PROVE  Lifecycle!Record
<1>1. \A t \in Transfers : transfers'[t].state \in Lifecycle!LifecycleStates
  BY DEF TypeOK, Doc, States, Lifecycle!LifecycleStates
<1>2. \A t \in Transfers :
         /\ transfers'[t].state = "RESERVED" => t \in reserved
         /\ transfers'[t].state = "COMMITTED" => t \in posted
  BY DEF StateIsBacked, ledger
<1>3. \A t \in Transfers :
         transfers'[t].state # transfers[t].state =>
             <<transfers[t].state, transfers'[t].state>> \in Lifecycle!LifecycleSteps
  BY DEF Follows
<1> QED
  BY <1>1, <1>2, <1>3 DEF Lifecycle!Record, Lifecycle!Backed, Published, ledger

LEMMA AccountStep ==
    ASSUME IInv, PathInv, NEW accepted \in SUBSET (DOMAIN abRequests), AccountsAnswer(accepted)
    PROVE  Lifecycle!Account
<1> DEFINE done == [i \in accepted |-> abRequests[i]]
<1>1. /\ pc = "accounts" /\ UNCHANGED <<transfers, published>>
      /\ reserved' = reserved \cup Ids(done, "reserve")
      /\ posted' = posted \cup Ids(done, "commit")
  BY DEF AccountsAnswer
<1>2. \A i \in accepted : i \in DOMAIN abRequests /\ abRequests[i].id \in Transfers
  BY RequestElements DEF IInv, Request
<1>3. \A i \in accepted :
         abRequests[i].type = "reserve" => transfers[abRequests[i].id].state = "ABSENT"
  BY <1>1, <1>2 DEF PathInv, ReservesOnceUntilStored, Reserving, Present
<1>4. /\ Ids(done, "reserve") \subseteq {t \in Transfers : transfers[t].state = "ABSENT"}
      /\ Ids(done, "commit") \subseteq Transfers
  BY <1>2, <1>3 DEF Ids
<1> HIDE DEF done
<1>5. Ids(done, "reserve") \subseteq
          {t \in Transfers : [u \in Transfers |-> transfers[u].state][t] = "ABSENT"}
  BY <1>4
<1> QED
  BY <1>1, <1>4, <1>5 DEF Lifecycle!Account, Published

LEMMA AnnounceStep ==
    ASSUME PathInv, Send
    PROVE  Lifecycle!Announce
<1>1. pc = "send" /\ UNCHANGED <<transfers, reserved, posted>>
  BY DEF Send, ledger
<1>2. PICK sent \in SUBSET outputEvents : published' = published \cup sent
  BY DEF Send
<1> DEFINE sentAbout(name) == {t \in Transfers : [name |-> name, id |-> t] \in sent}
<1>3. \A name : {t \in Transfers : Published(name, t)}' =
                    {t \in Transfers : Published(name, t)} \cup sentAbout(name)
  BY <1>2 DEF Published
<1>4. \A t \in sentAbout("TransferPreparedEvt") :
         t \in reserved /\ transfers[t].state \notin {"ABSENT", "RECEIVED"}
  BY <1>1, <1>2 DEF PathInv, OutcomesBacked, InOutput
<1>5. \A t \in sentAbout("TransferFulfiledEvt") :
         t \in posted /\ transfers[t].state \in {"COMMITTED", "ABORTED"}
  BY <1>1, <1>2 DEF PathInv, OutcomesBacked, InOutput, FinalStates
<1>6. /\ sentAbout("TransferPreparedEvt") \subseteq Transfers
      /\ sentAbout("TransferFulfiledEvt") \subseteq Transfers
  OBVIOUS
<1> HIDE DEF sentAbout
<1> DEFINE state == [t \in Transfers |-> transfers[t].state]
<1>7. sentAbout("TransferPreparedEvt") \subseteq
          {t \in reserved : state[t] \notin {"ABSENT", "RECEIVED"}}
  BY <1>4, <1>6
<1>8. sentAbout("TransferFulfiledEvt") \subseteq
          {t \in posted : state[t] \in {"COMMITTED", "ABORTED"}}
  BY <1>5, <1>6
<1> QED
  BY <1>1, <1>3, <1>7, <1>8 DEF Lifecycle!Announce

LEMMA LifecycleStep ==
    ASSUME IInv, IInv', PathInv, [Next]_vars
    PROVE  [Lifecycle!LifecycleNext]_(Lifecycle!lifecycleVars)
<1>1. CASE QuietStep
  BY <1>1, QuietPath DEF Lifecycle!lifecycleVars, Published
<1>2. CASE \E t \in Transfers : ProcessCommand(t) /\ ~MalformedCommand(t)
  <2>1. PICK t \in Transfers : ProcessCommand(t) /\ ~MalformedCommand(t)
    BY <1>2
  <2>2. DocSteps /\ UNCHANGED <<ledger, published>>
    BY <2>1, HandlerSteps DEF IInv, Handling
  <2>3. Lifecycle!Record
    BY <2>2, DocStepsFollow, RecordStep DEF IInv, PathInv
  <2> QED
    BY <2>3 DEF Lifecycle!LifecycleNext
<1>3. CASE \E accepted \in SUBSET (DOMAIN abRequests) : AccountsAnswer(accepted)
  BY <1>3, AccountStep DEF Lifecycle!LifecycleNext
<1>4. CASE Continue
  <2>1. UNCHANGED <<ledger, published>>
    BY <1>4 DEF Continue, PrepareContinue, PrepareContinueFailed, FulfilContinue,
                FulfilContinueFailed, Continuing
  <2>2. \A t \in Transfers : transfers'[t].state \in {transfers[t].state, "ABORTED"}
    BY <1>4, ContinuePath
  <2>3. \A t \in Transfers : transfers[t].state \in States \cup {"ABSENT"}
    BY DocumentStates DEF IInv
  <2>4. \A t \in Transfers : Follows(transfers[t].state, transfers'[t].state)
    BY <2>2, <2>3, FollowsStates
  <2>5. Lifecycle!Record
    BY <2>1, <2>4, RecordStep DEF IInv
  <2> QED
    BY <2>5 DEF Lifecycle!LifecycleNext
<1>5. CASE Flush
  <2>1. UNCHANGED <<ledger, published>>
    BY <1>5 DEF Flush
  <2>2. Lifecycle!Record
    BY <1>5, <2>1, FlushStates, RecordStep DEF IInv
  <2> QED
    BY <2>2 DEF Lifecycle!LifecycleNext
<1>6. CASE Send
  BY <1>6, AnnounceStep DEF Lifecycle!LifecycleNext
<1> QED
  BY <1>1, <1>2, <1>3, <1>4, <1>5, <1>6, StepKinds

\* The command handler implements the lifecycle: behind all batches, caches, retries and
\* crashes, the stored state of a transfer moves along TransferLifecycle's steps only,
\* backed by what A&B accepted, and the announcements follow it.
THEOREM HandlerImplementsLifecycle == Spec => ImplementsLifecycle
<1>1. Init => Lifecycle!LifecycleInit
  BY DEF Init, NoDoc, Published, Lifecycle!LifecycleInit
<1>2. (IInv /\ PathInv) /\ (IInv /\ PathInv)' /\ [Next]_vars
        => [Lifecycle!LifecycleNext]_(Lifecycle!lifecycleVars)
  BY LifecycleStep
<1> QED
  BY <1>1, <1>2, PathInvariant, PTL DEF Spec, ImplementsLifecycle, Lifecycle!LifecycleSpec

-----------------------------------------------------------------------------
(* What may undo a final state: only the commands of the payee.             *)

\* A command of the batch in which the payee changes its mind about t.
PayeeCommand(t) ==
    \E c \in Batch : c.id = t /\ c.name \in {"CommitTransferFulfilCmd", "RejectTransferCmd"}

CacheOfBatch == pc \in {"idle", "send", "acknowledge"} => \A t \in Transfers : ~Present(cache[t])

\* Until the batch is acknowledged, its commands are not behind the offset, a cached
\* state that differs from a final stored one comes from a command of the payee, and
\* so does each request for a commit.
ChangesByPayee ==
    offset < batchEnd =>
        /\ offset =< cursor
        /\ \A t \in Transfers :
              /\ transfers[t].state \in FinalStates
              /\ Present(cache[t])
              /\ cache[t].state # transfers[t].state
              => PayeeCommand(t)
        /\ pc \in {"commands", "accounts", "responses"} =>
              \A i \in DOMAIN abRequests :
                  abRequests[i].type = "commit" => PayeeCommand(abRequests[i].id)

FinalsInv == CacheOfBatch /\ ChangesByPayee

\* A command does nothing to the other transfers.
Untouched(t) ==
    \A u \in Transfers \ {t} : cache'[u] = cache[u] /\ transfers'[u] = transfers[u]

\* A final stored state stays, and what is cached is what was, or what is stored.
FinalKept(t) ==
    transfers[t].state \in FinalStates =>
        /\ transfers'[t].state = transfers[t].state
        /\ cache'[t].state \in {cache[t].state, transfers[t].state}

-----------------------------------------------------------------------------
(* The commands.                                                            *)

LEMMA PrepareFinal ==
    ASSUME TypeOK, NEW t \in Transfers, PrepareStart(t)
    PROVE  Untouched(t) /\ FinalKept(t)
<1>1. CASE PrepareUnread(t)
  BY <1>1 DEF PrepareUnread, ReadFails, Untouched, FinalKept
<1>2. CASE PrepareDuplicate(t)
  <2>1. Keep(t, Found(t)) /\ UNCHANGED transfers
    BY <1>2 DEF PrepareDuplicate, Answer, Ignore
  <2> QED
    BY <2>1, FoundTypes DEF Keep, TypeOK, Untouched, FinalKept
<1>3. ASSUME ~Present(Found(t)), NEW d \in Doc, Keep(t, d), UNCHANGED transfers
      PROVE  Untouched(t) /\ FinalKept(t)
  <2>1. transfers[t].state = "ABSENT" \/ Present(cache[t])
    BY <1>3, FoundState DEF Present
  <2>2. transfers[t].state \notin FinalStates
    BY <1>3, <2>1, FoundState DEF FinalStates, Present
  <2> QED
    BY <1>3, <2>2 DEF Keep, TypeOK, Untouched, FinalKept
<1>4. /\ NewTransfer("none") \in Doc
      /\ NewTransfer("participants") \in Doc
      /\ NoDoc \in Doc
  BY DEF NewTransfer, NoDoc, Doc, States, ErrorCodes
<1>5. CASE PrepareRefusedByParticipants(t)
  BY <1>3, <1>4, <1>5 DEF PrepareRefusedByParticipants, Answer
<1>6. CASE PrepareRefusedByAccounts(t)
  BY <1>3, <1>4, <1>6 DEF PrepareRefusedByAccounts, Answer
<1>7. CASE PrepareAccepted(t)
  BY <1>3, <1>4, <1>7 DEF PrepareAccepted
<1> QED
  BY <1>1, <1>2, <1>5, <1>6, <1>7 DEF PrepareStart

LEMMA CancelUntouched ==
    ASSUME TypeOK, NEW t \in Transfers, NEW d, NEW code, NEW name,
           CancelBecause(t, d, code, name) \/ CancelAndUpdate(t, code, name)
    PROVE  Untouched(t)
BY DEF CancelBecause, CancelAndUpdate, CancelFails, CancelRefused, CancelUnsaved,
       CancelSaved, Keep, TypeOK, Untouched

LEMMA FulfilUntouched ==
    ASSUME TypeOK, NEW t \in Transfers, FulfilStart(t)
    PROVE  Untouched(t)
<1>1. CASE FulfilUnread(t)
  BY <1>1 DEF FulfilUnread, ReadFails, Untouched
<1>2. CASE FulfilNotFound(t)
  BY <1>2 DEF FulfilNotFound, Answer, Keep, TypeOK, Untouched
<1>3. CASE FulfilInvalid(t)
  BY <1>3, CancelUntouched DEF FulfilInvalid
<1>4. CASE FulfilRefused(t)
  BY <1>4, CancelUntouched DEF FulfilRefused
<1>5. CASE FulfilAccepted(t)
  BY <1>5 DEF FulfilAccepted, Keep, TypeOK, Untouched
<1> QED
  BY <1>1, <1>2, <1>3, <1>4, <1>5 DEF FulfilStart

LEMMA RejectUntouched ==
    ASSUME TypeOK, NEW t \in Transfers, Reject(t)
    PROVE  Untouched(t) /\ UNCHANGED abRequests
<1>1. CASE RejectUnread(t)
  BY <1>1 DEF RejectUnread, ReadFails, Untouched
<1>2. CASE RejectNotFound(t)
  BY <1>2 DEF RejectNotFound, Answer, Keep, TypeOK, Untouched
<1>3. CASE RejectRefused(t)
  BY <1>3 DEF RejectRefused, Answer, Keep, TypeOK, Untouched
<1>4. CASE RejectAccepted(t)
  BY <1>4, CancelUntouched DEF RejectAccepted
<1> QED
  BY <1>1, <1>2, <1>3, <1>4 DEF Reject

\* A transfer found as RECEIVED or RESERVED, in the cache or not, is not final in the
\* collection: this is what keeps a Timeout from undoing a final state.
LEMMA FoundUnfinished ==
    ASSUME TypeOK, CacheFollowsStore, NEW t \in Transfers,
           Found(t).state \in {"RECEIVED", "RESERVED"}
    PROVE  transfers[t].state \notin FinalStates
<1>1. CASE Present(cache[t])
  <2>1. Found(t).state = cache[t].state /\ Follows(transfers[t].state, cache[t].state)
    BY <1>1, FoundState DEF CacheFollowsStore
  <2>2. /\ cache[t].state \in States \cup {"ABSENT"}
        /\ transfers[t].state \in States \cup {"ABSENT"}
    BY DocumentStates
  <2>3. cache[t].state \notin FinalStates
    BY <2>1 DEF FinalStates
  <2> QED
    BY <2>1, <2>2, <2>3, FollowsStates
<1>2. CASE ~Present(cache[t])
  BY <1>2, FoundState DEF FinalStates
<1> QED
  BY <1>1, <1>2

LEMMA TimeoutFinal ==
    ASSUME TypeOK, CacheFollowsStore, NEW t \in Transfers, Timeout(t)
    PROVE  Untouched(t) /\ FinalKept(t) /\ UNCHANGED abRequests
<1>1. CASE TimeoutUnread(t)
  BY <1>1 DEF TimeoutUnread, ReadFails, Untouched, FinalKept
<1>2. CASE TimeoutIgnored(t)
  <2>1. Keep(t, Found(t)) /\ UNCHANGED <<transfers, abRequests>>
    BY <1>2 DEF TimeoutIgnored, Ignore
  <2> QED
    BY <2>1, FoundTypes DEF Keep, TypeOK, Untouched, FinalKept
<1>3. CASE TimeoutReceived(t)
  <2>1. transfers[t].state \notin FinalStates
    BY <1>3, FoundUnfinished DEF TimeoutReceived, ReceivedTimesOut
  <2>2. Untouched(t)
    BY <1>3 DEF TimeoutReceived, Keep, TypeOK, Untouched
  <2> QED
    BY <1>3, <2>1, <2>2 DEF TimeoutReceived, FinalKept
<1>4. CASE TimeoutReserved(t)
  <2>1. transfers[t].state \notin FinalStates
    BY <1>4, FoundUnfinished DEF TimeoutReserved, ReservedTimesOut
  <2>2. Untouched(t)
    BY <1>4, CancelUntouched DEF TimeoutReserved
  <2> QED
    BY <1>4, <2>1, <2>2 DEF TimeoutReserved, FinalKept
<1> QED
  BY <1>1, <1>2, <1>3, <1>4 DEF Timeout

LEMMA QueryFinal ==
    ASSUME TypeOK, NEW t \in Transfers, Query(t) \/ UnknownCommand(t)
    PROVE  Untouched(t) /\ FinalKept(t) /\ UNCHANGED abRequests
BY DEF Query, QueryUnread, QueryRefused, QueryAnswered, UnknownCommand, Answer, Keep, TypeOK,
       Untouched, FinalKept

\* A Fulfil or Reject being handled is a command of the batch.
LEMMA HandledByPayee ==
    ASSUME TypeOK, NEW t \in Transfers, offset =< cursor, FulfilStart(t) \/ Reject(t)
    PROVE  PayeeCommand(t)
<1>1. \E name \in {"CommitTransferFulfilCmd", "RejectTransferCmd"} : Handling(name, t)
  BY DEF FulfilStart, FulfilUnread, FulfilNotFound, FulfilInvalid, FulfilRefused, FulfilAccepted,
         Reject, RejectUnread, RejectNotFound, RejectRefused, RejectAccepted
<1>2. PICK name \in {"CommitTransferFulfilCmd", "RejectTransferCmd"} : Handling(name, t)
  BY <1>1
<1>3. topic[cursor + 1] = [name |-> name, id |-> t] /\ cursor < batchEnd
  BY <1>2 DEF Handling, InBatch
<1>4. cursor + 1 \in (offset + 1)..batchEnd
  BY <1>3, LenProperties DEF TypeOK
<1>5. [name |-> name, id |-> t] \in Batch
  BY <1>3, <1>4 DEF Batch
<1> QED
  BY <1>5 DEF PayeeCommand

\* What a command does to a final state, and which of them ask for a commit.
LEMMA CommandFinal ==
    ASSUME TypeOK, CacheFollowsStore, NEW t \in Transfers, offset =< cursor,
           ProcessCommand(t), ~MalformedCommand(t)
    PROVE  /\ Untouched(t)
           /\ FinalKept(t) \/ PayeeCommand(t)
           /\ UNCHANGED abRequests \/ AskAccounts("reserve", t) \/ PayeeCommand(t)
<1>1. CASE PrepareStart(t)
  <2>1. UNCHANGED abRequests \/ AskAccounts("reserve", t)
    BY <1>1 DEF PrepareStart, PrepareUnread, ReadFails, PrepareDuplicate,
                PrepareRefusedByParticipants, PrepareRefusedByAccounts, PrepareAccepted,
                Answer, Ignore
  <2> QED
    BY <1>1, <2>1, PrepareFinal
<1>2. CASE FulfilStart(t) \/ Reject(t)
  BY <1>2, FulfilUntouched, RejectUntouched, HandledByPayee
<1>3. CASE Timeout(t)
  BY <1>3, TimeoutFinal
<1>4. CASE Query(t) \/ UnknownCommand(t)
  BY <1>4, QueryFinal
<1> QED
  BY <1>1, <1>2, <1>3, <1>4 DEF ProcessCommand

-----------------------------------------------------------------------------
(* The steps.                                                               *)

LEMMA ProcessCommandFinals ==
    ASSUME IInv, IInv', PathInv, FinalsInv, NEW t \in Transfers,
           ProcessCommand(t), ~MalformedCommand(t)
    PROVE  FinalsInv'
<1>1. TypeOK /\ CacheFollowsStore /\ DocSteps /\ RequestStep(t)
  BY HandlerSteps DEF IInv, PathInv
<1>2. /\ pc = "commands" /\ pc' = "commands"
      /\ cursor' = cursor + 1
      /\ UNCHANGED <<topic, offset, batchEnd>>
  BY <1>1, HandlerSteps DEF Handling, input
<1>3. CacheOfBatch'
  BY <1>2 DEF CacheOfBatch
<1>4. ASSUME offset < batchEnd
      PROVE  ChangesByPayee'
  <2>1. /\ offset =< cursor
        /\ \A u \in Transfers :
              /\ transfers[u].state \in FinalStates
              /\ Present(cache[u])
              /\ cache[u].state # transfers[u].state
              => PayeeCommand(u)
        /\ \A i \in DOMAIN abRequests :
              abRequests[i].type = "commit" => PayeeCommand(abRequests[i].id)
    BY <1>2, <1>4 DEF FinalsInv, ChangesByPayee
  <2>2. /\ Untouched(t)
        /\ FinalKept(t) \/ PayeeCommand(t)
        /\ UNCHANGED abRequests \/ AskAccounts("reserve", t) \/ PayeeCommand(t)
    BY <1>1, <2>1, CommandFinal
  <2>3. \A u : PayeeCommand(u)' <=> PayeeCommand(u)
    BY <1>2 DEF PayeeCommand, Batch
  <2>4. offset' =< cursor'
    BY <1>2, <2>1, LenProperties DEF IInv, TypeOK
  <2>5. ASSUME NEW u \in Transfers, transfers'[u].state \in FinalStates,
               Present(cache'[u]), cache'[u].state # transfers'[u].state
        PROVE  PayeeCommand(u)
    <3>1. CASE u # t
      BY <2>1, <2>2, <2>5, <3>1 DEF Untouched
    <3>2. CASE u = t /\ FinalKept(t)
      <4>1. transfers'[u].state = transfers[u].state
        BY <1>1, <2>5 DEF DocSteps
      <4> QED
        BY <2>1, <2>5, <3>2, <4>1 DEF FinalKept, Present
    <3> QED
      BY <2>2, <3>1, <3>2
  <2>6. ASSUME NEW i \in DOMAIN abRequests', abRequests'[i].type = "commit"
        PROVE  PayeeCommand(abRequests'[i].id)
    <3>1. CASE UNCHANGED abRequests
      BY <2>1, <2>6, <3>1
    <3>2. ASSUME NEW type \in {"reserve", "commit"}, AskAccounts(type, t),
                 type = "reserve" \/ PayeeCommand(t)
          PROVE  PayeeCommand(abRequests'[i].id)
      <4>1. /\ i \in DOMAIN abRequests \cup {Len(abRequests) + 1}
            /\ \A j \in DOMAIN abRequests : abRequests'[j] = abRequests[j]
            /\ abRequests'[Len(abRequests) + 1] = [type |-> type, id |-> t]
        BY <1>1, <2>6, <3>2, AskAccountsElements
      <4>2. CASE i \in DOMAIN abRequests
        BY <2>1, <2>6, <4>1, <4>2
      <4>3. CASE i = Len(abRequests) + 1
        BY <2>6, <3>2, <4>1, <4>3
      <4> QED
        BY <4>1, <4>2, <4>3
    <3> QED
      BY <1>1, <2>2, <3>1, <3>2 DEF RequestStep
  <2> QED
    BY <2>3, <2>4, <2>5, <2>6 DEF ChangesByPayee
<1>5. ASSUME ~(offset < batchEnd)
      PROVE  ChangesByPayee'
  BY <1>2, <1>5 DEF ChangesByPayee
<1> QED
  BY <1>3, <1>4, <1>5 DEF FinalsInv

\* A continue method changes the transfer of its response: one that is not stored, for
\* a reservation, or one of which the batch has a Fulfil.
LEMMA ContinueTouches ==
    ASSUME IInv, IInv', PathInv, FinalsInv, Continue
    PROVE  /\ pc = "responses" /\ pc' = "responses"
           /\ UNCHANGED <<topic, offset, batchEnd, cursor, abRequests>>
           /\ \E t \in Transfers :
                 /\ Untouched(t)
                 /\ \/ transfers'[t].state = "ABSENT" /\ transfers[t].state = "ABSENT"
                    \/ offset < batchEnd => PayeeCommand(t)
<1> DEFINE t == Head(abResponses).id
<1>1. /\ pc = "responses" /\ pc' = "responses" /\ abResponses # <<>>
      /\ UNCHANGED <<topic, offset, batchEnd, cursor, abRequests>>
  BY DEF Continue, PrepareContinue, PrepareContinueFailed, FulfilContinue,
         FulfilContinueFailed, Continuing, control, input
<1>2. /\ 1 \in DOMAIN abResponses /\ Head(abResponses) = abResponses[1]
      /\ t \in Transfers
  BY <1>1, ResponseElements DEF IInv, Response
<1>3. CASE PrepareContinue \/ PrepareContinueFailed
  <2>1. abResponses[1].type = "reserve" /\ UNCHANGED transfers
    BY <1>2, <1>3 DEF PrepareContinue, PrepareContinueFailed, Continuing
  <2>2. transfers[t].state = "ABSENT"
    BY <1>1, <1>2, <2>1, ReserveUnstored DEF IInv, Present
  <2>3. Untouched(t)
    BY <1>3, <2>1 DEF PrepareContinue, PrepareContinueFailed, TransferOf, Keep, IInv, TypeOK,
                      Untouched
  <2> QED
    BY <1>1, <1>2, <2>1, <2>2, <2>3
<1>4. CASE FulfilContinue \/ FulfilContinueFailed
  <2>1. abResponses[1].type = "commit"
    BY <1>2, <1>4 DEF FulfilContinue, FulfilContinueFailed, Continuing
  <2>2. PICK j \in DOMAIN abRequests : /\ abRequests[j].id = abResponses[1].id
                                       /\ abRequests[j].type = abResponses[1].type
    BY <1>1, <1>2 DEF PathInv, ResponsesInOrder
  <2>3. offset < batchEnd => PayeeCommand(t)
    BY <1>1, <1>2, <2>1, <2>2 DEF FinalsInv, ChangesByPayee
  <2>4. Untouched(t)
    <3>1. CASE FulfilContinue
      BY <3>1 DEF FulfilContinue, TransferOf, Keep, IInv, TypeOK, Untouched
    <3>2. CASE FulfilContinueFailed
      BY <1>2, <3>2, CancelUntouched DEF FulfilContinueFailed, TransferOf, IInv
    <3> QED
      BY <1>4, <3>1, <3>2
  <2> QED
    BY <1>1, <1>2, <2>3, <2>4
<1> QED
  BY <1>3, <1>4 DEF Continue

LEMMA ContinueFinals ==
    ASSUME IInv, IInv', PathInv, FinalsInv, Continue
    PROVE  FinalsInv'
<1>1. /\ pc = "responses" /\ pc' = "responses"
      /\ UNCHANGED <<topic, offset, batchEnd, cursor, abRequests>>
  BY ContinueTouches
<1>2. PICK t \in Transfers :
         /\ Untouched(t)
         /\ \/ transfers'[t].state = "ABSENT" /\ transfers[t].state = "ABSENT"
            \/ offset < batchEnd => PayeeCommand(t)
  BY ContinueTouches
<1>3. \A u : PayeeCommand(u)' <=> PayeeCommand(u)
  BY <1>1 DEF PayeeCommand, Batch
<1>4. CacheOfBatch'
  BY <1>1 DEF CacheOfBatch
<1>5. ASSUME offset < batchEnd, NEW u \in Transfers, transfers'[u].state \in FinalStates,
             Present(cache'[u]), cache'[u].state # transfers'[u].state
      PROVE  PayeeCommand(u)
  <2>1. CASE u = t
    BY <1>2, <1>5, <2>1 DEF FinalStates
  <2>2. CASE u # t
    BY <1>2, <1>5, <2>2 DEF Untouched, FinalsInv, ChangesByPayee
  <2> QED
    BY <2>1, <2>2
<1>6. ChangesByPayee'
  BY <1>1, <1>3, <1>5 DEF FinalsInv, ChangesByPayee
<1> QED
  BY <1>4, <1>6 DEF FinalsInv

LEMMA FlushFinals ==
    ASSUME IInv, PathInv, FinalsInv, Flush
    PROVE  FinalsInv'
<1>1. UNCHANGED <<topic, offset, batchEnd, cursor>>
  BY DEF Flush, input
<1>2. \A u : PayeeCommand(u)' <=> PayeeCommand(u)
  BY <1>1 DEF PayeeCommand, Batch
<1>3. /\ pc' \in {"send", "dying"}
      /\ pc' = "send" => cache' = EmptyCache
      /\ pc' = "dying" => UNCHANGED cache
      /\ \A t \in Transfers : transfers'[t].state \in {transfers[t].state, cache[t].state}
  BY FlushStates
<1>4. pc' = "send" => \A t \in Transfers : ~Present(cache'[t])
  BY <1>3 DEF EmptyCache, NoDoc, Present
<1>5. CacheOfBatch'
  BY <1>3, <1>4 DEF CacheOfBatch
<1>6. ChangesByPayee'
  BY <1>1, <1>2, <1>3, <1>4 DEF FinalsInv, ChangesByPayee
<1> QED
  BY <1>5, <1>6 DEF FinalsInv

\* The steps that change neither the transfers nor the batch.
LEMMA SameBatchFinals ==
    ASSUME FinalsInv, UNCHANGED <<topic, offset, batchEnd, cursor, cache, transfers, abRequests>>,
           pc' \in {"idle", "send", "acknowledge"} => pc \in {"idle", "send", "acknowledge"},
           pc' \in {"commands", "accounts", "responses"} =>
               pc \in {"commands", "accounts", "responses"}
    PROVE  FinalsInv'
<1>1. \A u : PayeeCommand(u)' <=> PayeeCommand(u)
  BY DEF PayeeCommand, Batch
<1>2. CacheOfBatch'
  BY DEF FinalsInv, CacheOfBatch
<1>3. ChangesByPayee'
  BY <1>1 DEF FinalsInv, ChangesByPayee
<1> QED
  BY <1>2, <1>3 DEF FinalsInv

LEMMA QuietFinals ==
    ASSUME IInv, IInv', FinalsInv, QuietStep
    PROVE  FinalsInv'
<1>1. CASE \E n \in 1..BatchSize : StartBatch(n)
  <2>1. /\ pc = "idle" /\ pc' = "commands" /\ cursor' = offset' /\ abRequests' = <<>>
        /\ UNCHANGED cache
    BY <1>1 DEF StartBatch, input
  <2>2. \A t \in Transfers : ~Present(cache'[t])
    BY <2>1 DEF FinalsInv, CacheOfBatch
  <2>3. offset' =< cursor'
    BY <2>1, LenProperties DEF IInv, TypeOK
  <2> QED
    BY <2>1, <2>2, <2>3 DEF FinalsInv, CacheOfBatch, ChangesByPayee
<1>2. CASE \E t \in Transfers : MalformedCommand(t)
  BY <1>2, SameBatchFinals DEF MalformedCommand, input, memory, queues, world
<1>3. CASE EndOfCommands \/ EndOfResponses
  BY <1>3, SameBatchFinals DEF EndOfCommands, EndOfResponses, AfterResponses, input, memory,
                               queues, world
<1>4. CASE Cancellations
  BY <1>4, SameBatchFinals DEF Cancellations, input, memory, queues
<1>5. CASE Acknowledge
  <2>1. /\ pc = "acknowledge" /\ offset' = batchEnd' /\ UNCHANGED cache
    BY <1>5 DEF Acknowledge, memory
  <2>2. ~(offset' < batchEnd')
    BY <2>1, LenProperties DEF IInv, TypeOK
  <2> QED
    BY <2>1, <2>2 DEF FinalsInv, CacheOfBatch, ChangesByPayee
<1>6. CASE FailedAcknowledge
  <2>1. /\ offset' = batchEnd' /\ UNCHANGED <<pc, cache>>
    BY <1>6 DEF FailedAcknowledge, control, memory
  <2>2. ~(offset' < batchEnd')
    BY <2>1, LenProperties DEF IInv, TypeOK
  <2> QED
    BY <2>1, <2>2 DEF FinalsInv, CacheOfBatch, ChangesByPayee
<1>7. CASE Exit \/ Crash
  <2>1. batchEnd' = offset' /\ cache' = EmptyCache
    BY <1>7 DEF Exit, Crash, Restart
  <2>2. ~(offset' < batchEnd')
    BY <2>1, LenProperties DEF IInv, TypeOK
  <2> QED
    BY <2>1, <2>2 DEF FinalsInv, CacheOfBatch, ChangesByPayee, EmptyCache, NoDoc, Present
<1>8. CASE \E name \in Inputs, t \in Transfers : Produce(name, t)
  <2>1. pc = "idle" /\ UNCHANGED <<offset, pc, batchEnd, cursor, cache>>
    BY <1>8 DEF Produce, control, memory
  <2> QED
    BY <2>1 DEF FinalsInv, CacheOfBatch, ChangesByPayee
<1>9. CASE \E t \in Transfers : Expire(t)
  BY <1>9, SameBatchFinals DEF Expire, input, control, memory, queues
<1>10. CASE UNCHANGED vars
  BY <1>10, SameBatchFinals DEF vars, input, control, memory, queues, world
<1> QED
  BY <1>1, <1>2, <1>3, <1>4, <1>5, <1>6, <1>7, <1>8, <1>9, <1>10 DEF QuietStep

LEMMA NextFinals ==
    ASSUME IInv, IInv', PathInv, FinalsInv, [Next]_vars
    PROVE  FinalsInv'
<1>1. CASE QuietStep
  BY <1>1, QuietFinals
<1>2. CASE \E t \in Transfers : ProcessCommand(t) /\ ~MalformedCommand(t)
  BY <1>2, ProcessCommandFinals
<1>3. CASE \E accepted \in SUBSET (DOMAIN abRequests) : AccountsAnswer(accepted)
  BY <1>3, SameBatchFinals DEF AccountsAnswer, input
<1>4. CASE Continue
  BY <1>4, ContinueFinals
<1>5. CASE Flush
  BY <1>5, FlushFinals
<1>6. CASE Send
  BY <1>6, SameBatchFinals DEF Send, input, memory, queues
<1> QED
  BY <1>1, <1>2, <1>3, <1>4, <1>5, <1>6, StepKinds

\* A step changes a final stored state only in a batch with a command of the payee.
LEMMA StepLeavesFinal ==
    ASSUME IInv, IInv', PathInv, FinalsInv, [Next]_vars, NEW t \in Transfers,
           transfers[t].state \in FinalStates, transfers'[t].state # transfers[t].state,
           offset < batchEnd
    PROVE  PayeeCommand(t)
<1>1. CASE QuietStep
  BY <1>1, QuietPath
<1>2. CASE \E u \in Transfers : ProcessCommand(u) /\ ~MalformedCommand(u)
  <2>1. PICK u \in Transfers : ProcessCommand(u) /\ ~MalformedCommand(u)
    BY <1>2
  <2>2. offset =< cursor
    BY DEF FinalsInv, ChangesByPayee
  <2>3. Untouched(u) /\ (FinalKept(u) \/ PayeeCommand(u))
    BY <2>1, <2>2, CommandFinal DEF IInv, PathInv
  <2> QED
    BY <2>3 DEF Untouched, FinalKept
<1>3. CASE \E accepted \in SUBSET (DOMAIN abRequests) : AccountsAnswer(accepted)
  BY <1>3 DEF AccountsAnswer
<1>4. CASE Continue
  <2>1. PICK u \in Transfers :
           /\ Untouched(u)
           /\ \/ transfers'[u].state = "ABSENT" /\ transfers[u].state = "ABSENT"
              \/ offset < batchEnd => PayeeCommand(u)
    BY <1>4, ContinueTouches
  <2> QED
    BY <2>1 DEF Untouched
<1>5. CASE Flush
  <2>1. transfers'[t].state = cache[t].state /\ transfers'[t].state \in FinalStates
    <3>1. transfers'[t].state = cache[t].state /\ Follows(transfers[t].state, transfers'[t].state)
      BY <1>5, FlushStates
    <3>2. /\ transfers[t].state \in States \cup {"ABSENT"}
          /\ transfers'[t].state \in States \cup {"ABSENT"}
      BY DocumentStates, <3>1 DEF IInv
    <3> QED
      BY <3>1, <3>2, FollowsStates
  <2> QED
    BY <2>1 DEF FinalsInv, ChangesByPayee, FinalStates, Present
<1>6. CASE Send
  BY <1>6 DEF Send
<1> QED
  BY <1>1, <1>2, <1>3, <1>4, <1>5, <1>6, StepKinds

LEMMA FinalsInvariant == Spec => []FinalsInv
<1>1. Init => FinalsInv
  BY DEF Init, FinalsInv, CacheOfBatch, ChangesByPayee, EmptyCache, NoDoc, Present
<1>2. (IInv /\ PathInv) /\ (IInv /\ PathInv)' /\ FinalsInv /\ [Next]_vars => FinalsInv'
  BY NextFinals
<1> QED
  BY <1>1, <1>2, PathInvariant, PTL DEF Spec

\* While the batch is not acknowledged, a stored final state is left only in a batch
\* with a Fulfil or a Reject of the same transfer: no timeout, retried prepare, query,
\* other transfer's command or answer of A&B undoes it (_timeoutTransfer looks at the
\* state, _fulfilTransferStart and _rejectTransfer do not).
THEOREM OnlyPayeeLeavesFinalStates == Spec => FinalStatesLeftOnlyByPayee
<1>1. (IInv /\ PathInv) /\ (IInv /\ PathInv)' /\ FinalsInv /\ [Next]_vars =>
        [\A t \in Transfers :
            /\ transfers[t].state \in FinalStates
            /\ transfers'[t].state # transfers[t].state
            /\ offset < batchEnd
            => \E c \in Batch :
                  c.id = t /\ c.name \in {"CommitTransferFulfilCmd", "RejectTransferCmd"}]_vars
  BY StepLeavesFinal DEF PayeeCommand
<1> QED
  BY <1>1, PathInvariant, FinalsInvariant, PTL DEF Spec, FinalStatesLeftOnlyByPayee
=============================================================================
