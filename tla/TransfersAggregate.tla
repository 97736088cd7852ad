------------------------- MODULE TransfersAggregate -------------------------
(***************************************************************************)
(* The command handler of the Transfers bounded context: one process that  *)
(* consumes one partition of the DomainRequests topic in batches           *)
(* (command-handler-svc/src/handler.ts) and runs each batch through        *)
(* TransfersAggregate.processCommandBatch (domain-lib/src/aggregate.ts):   *)
(*                                                                         *)
(*    commands -> accounts -> responses -> cancellations -> flush -> send  *)
(*                                                                         *)
(* over an in-memory cache of transfers, the MongoDB collection, the       *)
(* Accounts & Balances service (A&B), the Scheduling service and the       *)
(* DomainEvents topic.                                                     *)
(*                                                                         *)
(* Individual transfers only; bulk transfers are not part of this module.  *)
(*                                                                         *)
(* Limits of the model.                                                    *)
(*  - The topic holds at most MaxCommands commands and at most MaxFaults   *)
(*    things go wrong: a failed read, write, call or send, a lost          *)
(*    reminder, a crash, a stop with a batch in hand.  A step that follows *)
(*    from the code alone (the death of a process whose batch was          *)
(*    rejected) is not a fault.                                            *)
(*  - The Kafka client is not in the repository.  A command is read again  *)
(*    after a restart unless its offset was committed; destroy(true) may   *)
(*    commit the batch in hand, and nothing is committed after that.       *)
(*  - A&B answers as it likes: which requests it accepts is free.          *)
(*  - Payloads are reduced to the transfer they name, error codes to       *)
(*    their origin, time to whether a transfer's expiration has passed.    *)
(***************************************************************************)
EXTENDS Integers, Sequences, FiniteSets

CONSTANTS
    Transfers,      \* ids of individual transfers
    Inputs,         \* the kinds of command this instance receives
    BatchSize,      \* CONSUMER_BATCH_SIZE: most commands in one batch
    MaxCommands,    \* bound on the length of the topic
    MaxFaults,      \* bound on the number of faults
    CountsNoops,    \* a replaceOne that changes nothing counts as modified
    AckOnFailure,   \* the consumer may commit the offset of a rejected batch
    EarlyReminders  \* the scheduler's clock may run ahead of the handler's

CommandNames ==
    {"PrepareTransferCmd", "CommitTransferFulfilCmd", "RejectTransferCmd",
     "QueryTransferCmd", "TimeoutTransferCmd",
     "UnknownCmd",      \* a command whose msgName no handler is for
     "MalformedCmd"}    \* a command without payload

ASSUME ConstantsAssumption ==
    /\ Inputs \subseteq CommandNames
    /\ BatchSize \in Nat \ {0}
    /\ MaxCommands \in Nat
    /\ MaxFaults \in Nat
    /\ CountsNoops \in BOOLEAN
    /\ AckOnFailure \in BOOLEAN
    /\ EarlyReminders \in BOOLEAN

VARIABLES
    topic,          \* the commands of the partition, oldest first
    offset,         \* committed consumer offset: commands acknowledged
    pc,             \* the phase of processCommandBatch
    failed,         \* reject(err) was called for the current batch
    batchEnd,       \* the batch is topic[offset + 1 .. batchEnd]
    cursor,         \* commands of the topic handled so far
    cache,          \* _transfersCache
    batchCommands,  \* _batchCommands: the command kept for each transfer
    abRequests,     \* _abBatchRequests
    abResponses,    \* the part of _abBatchResponses not yet continued
    cancelRequests, \* _abCancelationBatchRequests
    outputEvents,   \* _outputEvents
    transfers,      \* the MongoDB collection
    reserved,       \* A&B: transfers with an accepted checkLiquidAndReserve
    posted,         \* A&B: transfers with an accepted cancelReservationAndCommit
    cancelled,      \* A&B: transfers whose cancelReservation was delivered
    reminders,      \* Scheduling: transfers with a reminder
    expired,        \* transfers whose expirationTimestamp has passed
    published,      \* events the producer sent
    faults          \* faults so far

input   == <<topic, offset>>
control == <<pc, failed, batchEnd, cursor>>
queues  == <<abRequests, abResponses, cancelRequests, outputEvents>>
memory  == <<cache, batchCommands, queues>>
ledger  == <<reserved, posted, cancelled>>
world   == <<transfers, ledger, reminders, expired, published>>
vars    == <<input, control, memory, world, faults>>

-----------------------------------------------------------------------------
(* Transfers.  The layout of a document is the order of its fields: the one *)
(* of the entity built by Prepare or the one of _mapToTransfer; touched     *)
(* says that updatedAt, or another field the model has no name for, differs *)
(* from what is stored.                                                     *)

States      == {"RECEIVED", "RESERVED", "COMMITTED", "ABORTED"}
FinalStates == {"COMMITTED", "ABORTED"}
ErrorCodes  == {"none", "participants", "liquidity", "validation", "commit",
                "rejected", "expired"}

Doc == [state : States \cup {"ABSENT"}, errorCode : ErrorCodes,
        layout : {"entity", "mapped"}, touched : BOOLEAN]

NoDoc == [state |-> "ABSENT", errorCode |-> "none",
          layout |-> "mapped", touched |-> FALSE]

Present(d) == d.state # "ABSENT"

\* The entity _prepareTransferStart builds.
NewTransfer(code) == [state |-> "RECEIVED", errorCode |-> code,
                      layout |-> "entity", touched |-> TRUE]

\* A stored document as _mapToTransfer returns it: the error code is read from
\* errorInformation, which nothing writes, so it is lost.
Mapped(d) == IF Present(d) THEN [d EXCEPT !.errorCode = "none", !.layout = "mapped"]
                           ELSE NoDoc

InState(d, s)     == [d EXCEPT !.state = s, !.touched = TRUE]
Aborted(d, code)  == [InState(d, "ABORTED") EXCEPT !.errorCode = code]
Saved(d)          == [d EXCEPT !.touched = FALSE]

\* updateTransfer sets the fields of the stored document in place.
Updated(d, t) == [Saved(d) EXCEPT !.layout = transfers[t].layout]

EmptyCache == [t \in Transfers |-> NoDoc]
Cached     == {t \in Transfers : Present(cache[t])}

\* Mutants of Found: only the collection, or only the cache, is searched.
FoundInRepository(t) == Mapped(transfers[t])
FoundInCache(t)      == cache[t]

\* What _getTransfer(t) returns.
Found(t) == IF t \in Cached THEN cache[t] ELSE Mapped(transfers[t])

-----------------------------------------------------------------------------
(* Commands, requests and events.                                          *)

Command == [name : CommandNames, id : Transfers]

EventNames ==
    {"TransferPreparedEvt", "TransferPrepareLiquidityCheckFailedEvt",
     "TransferFulfiledEvt", "TransferCancelReservationAndCommitFailedEvt",
     "TransferFulfilmentValidationFailedEvt",
     "TransferRejectRequestProcessedEvt", "TransferQueryResponseEvt",
     "TransferPrepareRequestTimedoutEvt",
     "TransferFulfilCommittedRequestedTimedoutEvt",
     "TransferCancelReservationFailedEvt", "TransferUnableToUpdateEvt",
     "TransferUnableToGetTransferByIdEvt", "TransferNotFoundEvt",
     "TransferInvalidMessageTypeEvt",
     "ParticipantCheckFailedEvt"}  \* the 12 participant and 5 account events

Event    == [name : EventNames, id : Transfers]
Request  == [type : {"reserve", "commit"}, id : Transfers]
Response == [type : {"reserve", "commit"}, id : Transfers, success : BOOLEAN]

Emit(name, t) == outputEvents' = outputEvents \cup {[name |-> name, id |-> t]}

AskAccounts(type, t) == abRequests' = Append(abRequests, [type |-> type, id |-> t])

NoFault == UNCHANGED faults
Fault   == faults < MaxFaults /\ faults' = faults + 1

-----------------------------------------------------------------------------
(* Parts the handlers share.  Handling leaves cache, transfers, reminders,  *)
(* faults, abRequests, cancelRequests and outputEvents to the handler.      *)

\* Mutant of Remembered: the command is not kept.
Forgotten(name, t) == batchCommands

Remembered(name, t) == [batchCommands EXCEPT ![t] = name]

\* Mutant of InBatch: the loop runs on into the commands after the batch.
InTopic == cursor < Len(topic)

InBatch == cursor < batchEnd

\* The loop of processCommandBatch takes the next command and _processCommand
\* keeps it for the continue methods.
Handling(name, t) ==
    /\ pc = "commands"
    /\ InBatch
    /\ topic[cursor + 1] = [name |-> name, id |-> t]
    /\ cursor' = cursor + 1
    /\ batchCommands' = Remembered(name, t)
    /\ UNCHANGED <<input, pc, failed, batchEnd, abResponses, ledger, expired, published>>

Keep(t, d) == cache' = [cache EXCEPT ![t] = d]

\* The repository fails the read of a transfer that is not cached.
ReadFails(t) ==
    /\ t \notin Cached
    /\ Fault
    /\ Emit("TransferUnableToGetTransferByIdEvt", t)
    /\ UNCHANGED <<cache, transfers, reminders, abRequests, cancelRequests>>

\* Mutant of Answer: the event is not pushed.
AnswerSilently(t, d, name) ==
    /\ Keep(t, d)
    /\ UNCHANGED <<transfers, reminders, faults, abRequests, cancelRequests, outputEvents>>

\* The command ends with an event, and d is what the cache holds for t.
Answer(t, d, name) ==
    /\ Keep(t, d)
    /\ Emit(name, t)
    /\ UNCHANGED <<transfers, reminders, faults, abRequests, cancelRequests>>

\* The command ends without an event; _getTransfer has cached what it read.
Ignore(t) ==
    /\ Keep(t, Found(t))
    /\ UNCHANGED <<transfers, reminders, faults, abRequests, cancelRequests, outputEvents>>

\* Mutant of QueueCancellation: the push is missing.
NoCancellation(t) == UNCHANGED cancelRequests

QueueCancellation(t) == cancelRequests' = Append(cancelRequests, t)

\* The outcomes of _cancelTransfer for a transfer d that was found: a participant
\* or an account is refused before anything happens, ...
CancelRefused(t, d) ==
    /\ Keep(t, d)
    /\ UNCHANGED <<transfers, cancelRequests, faults>>

\* ... or the cancellation is queued and the transfer aborted in memory, but
\* updateTransfer throws: the transfer is not stored yet, or the write fails, ...
CancelUnsaved(t, d, code) ==
    /\ Keep(t, Aborted(d, code))
    /\ QueueCancellation(t)
    /\ UNCHANGED transfers
    /\ IF Present(transfers[t]) THEN Fault ELSE NoFault

\* ... or all of it succeeds.
CancelSaved(t, d, code) ==
    /\ Present(transfers[t])
    /\ Keep(t, Saved(Aborted(d, code)))
    /\ QueueCancellation(t)
    /\ transfers' = [transfers EXCEPT ![t] = Updated(Aborted(d, code), t)]
    /\ NoFault

CancelFails(t, d, code) ==
    /\ CancelRefused(t, d) \/ CancelUnsaved(t, d, code)
    /\ Emit("TransferCancelReservationFailedEvt", t)

\* _cancelTransfer in the error paths of Fulfil: name is the event of the error.
CancelBecause(t, d, code, name) ==
    \/ CancelFails(t, d, code)
    \/ CancelSaved(t, d, code) /\ Emit(name, t)

\* _cancelTransfer followed by an updateTransfer of its own, in Reject and Timeout.
CancelAndUpdate(t, code, name) ==
    LET d == Found(t) IN
    \/ CancelFails(t, d, code)
    \/ CancelSaved(t, d, code) /\ Emit(name, t)
    \/ /\ Present(transfers[t])         \* the second update fails
       /\ Keep(t, Aborted(d, code))
       /\ QueueCancellation(t)
       /\ transfers' = [transfers EXCEPT ![t] = Updated(Aborted(d, code), t)]
       /\ Fault
       /\ Emit("TransferUnableToUpdateEvt", t)

-----------------------------------------------------------------------------
(* Prepare.                                                                 *)

PrepareUnread(t) == Handling("PrepareTransferCmd", t) /\ ReadFails(t)

PrepareDuplicate(t) ==
    /\ Handling("PrepareTransferCmd", t)
    /\ Present(Found(t))
    /\ IF Found(t).state \in FinalStates
          THEN Answer(t, Found(t), "TransferQueryResponseEvt")
          ELSE Ignore(t)

\* A participant is missing, not the one asked for, not approved or not active.
\* The transfer is kept as RECEIVED, without a reminder.
PrepareRefusedByParticipants(t) ==
    /\ Handling("PrepareTransferCmd", t)
    /\ ~Present(Found(t))
    /\ Answer(t, NewTransfer("participants"), "ParticipantCheckFailedEvt")

\* One of the five accounts is missing.  The transfer is not kept.
PrepareRefusedByAccounts(t) ==
    /\ Handling("PrepareTransferCmd", t)
    /\ ~Present(Found(t))
    /\ Answer(t, NoDoc, "ParticipantCheckFailedEvt")

\* The scheduling adapter swallows its errors, so a reminder may be lost.
PrepareAccepted(t) ==
    /\ Handling("PrepareTransferCmd", t)
    /\ ~Present(Found(t))
    /\ Keep(t, NewTransfer("none"))
    /\ \/ reminders' = reminders \cup {t} /\ NoFault
       \/ reminders' = reminders /\ Fault
    /\ AskAccounts("reserve", t)
    /\ UNCHANGED <<transfers, cancelRequests, outputEvents>>

-----------------------------------------------------------------------------
(* Fulfil.  None of it looks at the state of the transfer.                  *)

\* The transfer with the message's protocol state merged in, which may change it.
MergedOpaqueState(t) == {Found(t), [Found(t) EXCEPT !.touched = TRUE]}

FulfilUnread(t) == Handling("CommitTransferFulfilCmd", t) /\ ReadFails(t)

\* _cancelTransfer cannot find the transfer either, and throws.
FulfilNotFound(t) ==
    /\ Handling("CommitTransferFulfilCmd", t)
    /\ ~Present(Found(t))
    /\ Answer(t, NoDoc, "TransferCancelReservationFailedEvt")

FulfilInvalid(t) ==
    /\ Handling("CommitTransferFulfilCmd", t)
    /\ Present(Found(t))
    /\ \E d \in MergedOpaqueState(t) :
           CancelBecause(t, d, "validation", "TransferFulfilmentValidationFailedEvt")
    /\ UNCHANGED <<reminders, abRequests>>

FulfilRefused(t) ==
    /\ Handling("CommitTransferFulfilCmd", t)
    /\ Present(Found(t))
    /\ \E d \in MergedOpaqueState(t) :
           CancelBecause(t, [d EXCEPT !.errorCode = "participants"],
                         "participants", "ParticipantCheckFailedEvt")
    /\ UNCHANGED <<reminders, abRequests>>

FulfilAccepted(t) ==
    /\ Handling("CommitTransferFulfilCmd", t)
    /\ Present(Found(t))
    /\ \E d \in MergedOpaqueState(t) : Keep(t, d)
    /\ AskAccounts("commit", t)
    /\ UNCHANGED <<transfers, reminders, faults, cancelRequests, outputEvents>>

-----------------------------------------------------------------------------
(* Reject.  It does not look at the state of the transfer either.           *)

RejectUnread(t) == Handling("RejectTransferCmd", t) /\ ReadFails(t)

RejectNotFound(t) ==
    /\ Handling("RejectTransferCmd", t)
    /\ ~Present(Found(t))
    /\ Answer(t, NoDoc, "TransferNotFoundEvt")

RejectRefused(t) ==
    /\ Handling("RejectTransferCmd", t)
    /\ Present(Found(t))
    /\ Answer(t, [Found(t) EXCEPT !.errorCode = "participants"],
              "ParticipantCheckFailedEvt")

RejectAccepted(t) ==
    /\ Handling("RejectTransferCmd", t)
    /\ Present(Found(t))
    /\ CancelAndUpdate(t, "rejected", "TransferRejectRequestProcessedEvt")
    /\ UNCHANGED <<reminders, abRequests>>

-----------------------------------------------------------------------------
(* Timeout.                                                                 *)

\* The comparison of the RECEIVED case is the wrong way round in the code.
ReceivedTimesOut(t) == Found(t).state = "RECEIVED" /\ t \notin expired

\* Mutant of ReservedTimesOut: a final state is not left alone.
StoredTimesOut(t) == Found(t).state \notin {"ABSENT", "RECEIVED"} /\ t \in expired

ReservedTimesOut(t) == Found(t).state = "RESERVED" /\ t \in expired

TimeoutUnread(t) == Handling("TimeoutTransferCmd", t) /\ ReadFails(t)

TimeoutIgnored(t) ==
    /\ Handling("TimeoutTransferCmd", t)
    /\ ~ReceivedTimesOut(t)
    /\ ~ReservedTimesOut(t)
    /\ Ignore(t)

TimeoutReceived(t) ==
    /\ Handling("TimeoutTransferCmd", t)
    /\ ReceivedTimesOut(t)
    /\ LET d == Aborted(Found(t), "expired") IN
       \/ /\ Present(transfers[t])
          /\ Keep(t, Saved(d))
          /\ transfers' = [transfers EXCEPT ![t] = Updated(d, t)]
          /\ NoFault
          /\ Emit("TransferPrepareRequestTimedoutEvt", t)
       \/ /\ Keep(t, d)
          /\ UNCHANGED transfers
          /\ IF Present(transfers[t]) THEN Fault ELSE NoFault
          /\ Emit("TransferUnableToUpdateEvt", t)
    /\ UNCHANGED <<reminders, abRequests, cancelRequests>>

TimeoutReserved(t) ==
    /\ Handling("TimeoutTransferCmd", t)
    /\ ReservedTimesOut(t)
    /\ CancelAndUpdate(t, "expired", "TransferFulfilCommittedRequestedTimedoutEvt")
    /\ UNCHANGED <<reminders, abRequests>>

-----------------------------------------------------------------------------
(* Query reads the collection, never the cache.  The remaining commands.    *)

QueryUnread(t) ==
    /\ Handling("QueryTransferCmd", t)
    /\ Fault
    /\ Emit("TransferUnableToGetTransferByIdEvt", t)
    /\ UNCHANGED <<cache, transfers, reminders, abRequests, cancelRequests>>

QueryRefused(t) ==
    /\ Handling("QueryTransferCmd", t)
    /\ Answer(t, cache[t], "ParticipantCheckFailedEvt")

QueryAnswered(t) ==
    /\ Handling("QueryTransferCmd", t)
    /\ Answer(t, cache[t], IF Present(transfers[t]) THEN "TransferQueryResponseEvt"
                                                    ELSE "TransferNotFoundEvt")

UnknownCommand(t) ==
    /\ Handling("UnknownCmd", t)
    /\ Answer(t, cache[t], "TransferInvalidMessageTypeEvt")

\* _ensureValidMessage throws: the batch is rejected, and then flushed.
MalformedCommand(t) ==
    /\ pc = "commands"
    /\ InBatch
    /\ topic[cursor + 1] = [name |-> "MalformedCmd", id |-> t]
    /\ failed' = TRUE
    /\ pc' = "flush"
    /\ UNCHANGED <<input, batchEnd, cursor, memory, world, faults>>

-----------------------------------------------------------------------------
(* The phases of processCommandBatch around the commands.                   *)

\* The consumer delivers a batch, and the arrays of the batch are reset; the
\* cache is not.
StartBatch(n) ==
    /\ pc = "idle"
    /\ offset + n <= Len(topic)
    /\ pc' = "commands"
    /\ batchEnd' = offset + n
    /\ cursor' = offset
    /\ batchCommands' = [t \in Transfers |-> "none"]
    /\ abRequests' = <<>>
    /\ abResponses' = <<>>
    /\ cancelRequests' = <<>>
    /\ outputEvents' = {}
    /\ UNCHANGED <<input, failed, cache, world, faults>>

\* Mutant of AfterResponses: the flush is left out.
AfterResponsesUnflushed == IF cancelRequests = <<>> THEN "send" ELSE "cancellations"

AfterResponses == IF cancelRequests = <<>> THEN "flush" ELSE "cancellations"

EndOfCommands ==
    /\ pc = "commands"
    /\ cursor = batchEnd
    /\ pc' = IF abRequests = <<>> THEN AfterResponses ELSE "accounts"
    /\ UNCHANGED <<input, failed, batchEnd, cursor, memory, world, faults>>

Ids(requests, type) == {requests[i].id : i \in {j \in DOMAIN requests : requests[j].type = type}}

ResponseTo(i, accepted) ==
    [type |-> abRequests[i].type, id |-> abRequests[i].id, success |-> i \in accepted]

\* processHighLevelBatch: A&B accepts the requests numbered in accepted.  The call
\* returns one response per request, or throws when A&B may have done its part.
AccountsAnswer(accepted) ==
    LET done == [i \in accepted |-> abRequests[i]] IN
    /\ pc = "accounts"
    /\ accepted \subseteq DOMAIN abRequests
    /\ reserved' = reserved \cup Ids(done, "reserve")
    /\ posted' = posted \cup Ids(done, "commit")
    /\ \/ /\ pc' = "responses"
          /\ abResponses' = [i \in DOMAIN abRequests |-> ResponseTo(i, accepted)]
          /\ UNCHANGED <<failed, faults>>
       \/ /\ pc' = "flush"
          /\ failed' = TRUE
          /\ Fault
          /\ UNCHANGED abResponses
    /\ UNCHANGED <<input, batchEnd, cursor, cache, batchCommands, abRequests,
                   cancelRequests, outputEvents, transfers, cancelled, reminders,
                   expired, published>>

\* Mutant of TransferOf: requests are paired with responses by their type.
TransferOfType(response) ==
    abRequests[CHOOSE i \in DOMAIN abRequests : abRequests[i].type = response.type].id

\* The transfer of the request with the requestId of the response.
TransferOf(response) == response.id

\* Mutant of Succeeded: the success of the response is not looked at.
SucceededAnyway(response, success) == TRUE

Succeeded(response, success) == response.success = success

\* _processAccountsAndBalancesResponse for the next response.
Continuing(type, success) ==
    /\ pc = "responses"
    /\ abResponses # <<>>
    /\ Head(abResponses).type = type
    /\ Succeeded(Head(abResponses), success)
    /\ abResponses' = Tail(abResponses)
    /\ UNCHANGED <<input, control, batchCommands, abRequests, ledger, reminders,
                   expired, published>>

PrepareContinue ==
    LET t == TransferOf(Head(abResponses)) IN
    /\ Continuing("reserve", TRUE)
    /\ Keep(t, InState(Found(t), "RESERVED"))
    /\ Emit("TransferPreparedEvt", t)
    /\ UNCHANGED <<transfers, faults, cancelRequests>>

PrepareContinueFailed ==
    LET t == TransferOf(Head(abResponses)) IN
    /\ Continuing("reserve", FALSE)
    /\ Keep(t, Aborted(Found(t), "liquidity"))
    /\ Emit("TransferPrepareLiquidityCheckFailedEvt", t)
    /\ UNCHANGED <<transfers, faults, cancelRequests>>

FulfilContinue ==
    LET t == TransferOf(Head(abResponses)) IN
    /\ Continuing("commit", TRUE)
    /\ Keep(t, InState(Found(t), "COMMITTED"))
    /\ Emit("TransferFulfiledEvt", t)
    /\ UNCHANGED <<transfers, faults, cancelRequests>>

FulfilContinueFailed ==
    LET t == TransferOf(Head(abResponses)) IN
    /\ Continuing("commit", FALSE)
    /\ CancelBecause(t, Aborted(Found(t), "commit"), "commit",
                     "TransferCancelReservationAndCommitFailedEvt")

EndOfResponses ==
    /\ pc = "responses"
    /\ abResponses = <<>>
    /\ pc' = AfterResponses
    /\ UNCHANGED <<input, failed, batchEnd, cursor, memory, world, faults>>

\* processHighLevelBatch with the cancellations.  Its responses are not looked at.
Cancellations ==
    LET sent == {cancelRequests[i] : i \in DOMAIN cancelRequests} IN
    /\ pc = "cancellations"
    /\ pc' = "flush"
    /\ \/ cancelled' = cancelled \cup sent /\ UNCHANGED <<failed, faults>>
       \/ \E delivered \in SUBSET sent :
             cancelled' = cancelled \cup delivered /\ failed' = TRUE /\ Fault
    /\ UNCHANGED <<input, batchEnd, cursor, memory, transfers, reserved, posted,
                   reminders, expired, published>>

\* storeTransfers(ids): replaceOne with upsert for each of them.
Stored(ids) == [t \in Transfers |-> IF t \in ids THEN Saved(cache[t]) ELSE transfers[t]]

\* A replacement that changes nothing: MongoDB does not count it as modified, and
\* storeTransfers throws when not every replacement was counted.
NoopStore == ~CountsNoops /\ \E t \in Cached : cache[t] = transfers[t]

Flush ==
    /\ pc = "flush"
    /\ \/ /\ ~NoopStore
          /\ transfers' = Stored(Cached)
          /\ cache' = EmptyCache
          /\ pc' = "send"
          /\ NoFault
       \/ /\ NoopStore
          /\ transfers' = Stored(Cached)
          /\ pc' = "dying"
          /\ UNCHANGED <<cache, faults>>
       \/ /\ Cached # {}
          /\ \E ids \in SUBSET Cached : transfers' = Stored(ids)
          /\ pc' = "dying"
          /\ Fault
          /\ UNCHANGED cache
    /\ UNCHANGED <<input, failed, batchEnd, cursor, batchCommands, queues, ledger,
                   reminders, expired, published>>

Send ==
    /\ pc = "send"
    /\ \/ /\ published' = published \cup outputEvents
          /\ pc' = IF failed THEN "dying" ELSE "acknowledge"
          /\ NoFault
       \/ /\ \E sent \in SUBSET outputEvents : published' = published \cup sent
          /\ pc' = "dying"
          /\ Fault
    /\ UNCHANGED <<input, failed, batchEnd, cursor, memory, transfers, ledger,
                   reminders, expired>>

\* Mutant of Acknowledge: the offset is not committed.
AcknowledgeUncommitted ==
    /\ pc = "acknowledge"
    /\ pc' = "idle"
    /\ UNCHANGED <<input, failed, batchEnd, cursor, memory, world, faults>>

Acknowledge ==
    /\ pc = "acknowledge"
    /\ pc' = "idle"
    /\ offset' = batchEnd
    /\ UNCHANGED <<topic, failed, batchEnd, cursor, memory, world, faults>>

\* The batch handler resolves its promise in a finally block, so the consumer may
\* commit the offset of a rejected batch before the process dies.
FailedAcknowledge ==
    /\ AckOnFailure
    /\ failed
    /\ offset < batchEnd
    /\ offset' = batchEnd
    /\ UNCHANGED <<topic, control, memory, world, faults>>

\* The process ends and is started again: it reads on from the committed offset.
Restart ==
    /\ pc' = "idle"
    /\ failed' = FALSE
    /\ batchEnd' = offset'
    /\ cursor' = offset'
    /\ cache' = EmptyCache
    /\ batchCommands' = [t \in Transfers |-> "none"]
    /\ abRequests' = <<>>
    /\ abResponses' = <<>>
    /\ cancelRequests' = <<>>
    /\ outputEvents' = {}
    /\ UNCHANGED <<topic, world>>

\* Mutant of MustExit: a flush or send that throws leaves the process waiting.
ExitsWhenRejected == failed

MustExit == failed \/ pc = "dying"

\* A rejected batch becomes an unhandled rejection and ends the process, at any
\* moment of the flush and the send; a flush or send that throws ends it too.
Exit == MustExit /\ UNCHANGED offset /\ Restart /\ NoFault

\* The process is killed, or it is stopped: messageConsumer.destroy(true) may then commit
\* the batch in hand, which is neither finished nor delivered again.
Crash == pc # "idle" /\ offset' \in {offset, batchEnd} /\ Restart /\ Fault

-----------------------------------------------------------------------------
(* The environment.  A command produced, or an expiration that passes, while *)
(* nothing can see it is the same as one that comes when the process is idle.*)

\* A reminder is delivered at least once, and only for a transfer that has one.
ReminderDue(t) == t \in reminders /\ (EarlyReminders \/ t \in expired)

Produce(name, t) ==
    /\ pc = "idle"
    /\ Len(topic) < MaxCommands
    /\ name = "TimeoutTransferCmd" => ReminderDue(t)
    /\ topic' = Append(topic, [name |-> name, id |-> t])
    /\ UNCHANGED <<offset, control, memory, world, faults>>

Expire(t) ==
    /\ pc \in {"idle", "commands"}
    /\ t \notin expired
    /\ expired' = expired \cup {t}
    /\ UNCHANGED <<input, control, memory, transfers, ledger, reminders, published, faults>>

-----------------------------------------------------------------------------
Init ==
    /\ topic = <<>>
    /\ offset = 0
    /\ pc = "idle"
    /\ failed = FALSE
    /\ batchEnd = 0
    /\ cursor = 0
    /\ cache = EmptyCache
    /\ batchCommands = [t \in Transfers |-> "none"]
    /\ abRequests = <<>>
    /\ abResponses = <<>>
    /\ cancelRequests = <<>>
    /\ outputEvents = {}
    /\ transfers = [t \in Transfers |-> NoDoc]
    /\ reserved = {}
    /\ posted = {}
    /\ cancelled = {}
    /\ reminders = {}
    /\ expired = {}
    /\ published = {}
    /\ faults = 0

PrepareStart(t) ==
    \/ PrepareUnread(t)
    \/ PrepareDuplicate(t)
    \/ PrepareRefusedByParticipants(t)
    \/ PrepareRefusedByAccounts(t)
    \/ PrepareAccepted(t)

FulfilStart(t) ==
    \/ FulfilUnread(t)
    \/ FulfilNotFound(t)
    \/ FulfilInvalid(t)
    \/ FulfilRefused(t)
    \/ FulfilAccepted(t)

Reject(t) == RejectUnread(t) \/ RejectNotFound(t) \/ RejectRefused(t) \/ RejectAccepted(t)

Timeout(t) == TimeoutUnread(t) \/ TimeoutIgnored(t) \/ TimeoutReceived(t) \/ TimeoutReserved(t)

Query(t) == QueryUnread(t) \/ QueryRefused(t) \/ QueryAnswered(t)

ProcessCommand(t) ==
    PrepareStart(t) \/ FulfilStart(t) \/ Reject(t) \/ Timeout(t) \/ Query(t)
    \/ UnknownCommand(t) \/ MalformedCommand(t)

Continue == PrepareContinue \/ PrepareContinueFailed \/ FulfilContinue \/ FulfilContinueFailed

\* The steps the process takes by itself: its event loop runs as long as it lives,
\* and Kubernetes starts it again when it has exited.
Process ==
    \/ \E n \in 1..BatchSize : StartBatch(n)
    \/ \E t \in Transfers : ProcessCommand(t)
    \/ EndOfCommands
    \/ \E accepted \in SUBSET (DOMAIN abRequests) : AccountsAnswer(accepted)
    \/ Continue
    \/ EndOfResponses
    \/ Cancellations
    \/ Flush
    \/ Send
    \/ Acknowledge
    \/ Exit

Environment ==
    \/ \E name \in Inputs, t \in Transfers : Produce(name, t)
    \/ \E t \in Transfers : Expire(t)
    \/ FailedAcknowledge
    \/ Crash

Next == Process \/ Environment

Spec     == Init /\ [][Next]_vars
FairSpec == Spec /\ WF_vars(Process)

-----------------------------------------------------------------------------
(* Properties.                                                              *)

Phases == {"idle", "commands", "accounts", "responses", "cancellations",
           "flush", "send", "acknowledge", "dying"}

\* Type correctness: every variable keeps the shape the aggregate gives it, and the
\* batch never reaches beyond the commands the consumer was handed.
TypeOK ==
    /\ topic \in Seq(Command)
    /\ offset \in 0..Len(topic)
    /\ pc \in Phases
    /\ failed \in BOOLEAN
    /\ batchEnd \in 0..Len(topic)
    /\ cursor \in 0..batchEnd
    /\ cache \in [Transfers -> Doc]
    /\ batchCommands \in [Transfers -> CommandNames \cup {"none"}]
    /\ abRequests \in Seq(Request)
    /\ abResponses \in Seq(Response)
    /\ cancelRequests \in Seq(Transfers)
    /\ outputEvents \in SUBSET Event
    /\ transfers \in [Transfers -> Doc]
    /\ reserved \in SUBSET Transfers
    /\ posted \in SUBSET Transfers
    /\ cancelled \in SUBSET Transfers
    /\ reminders \in SUBSET Transfers
    /\ expired \in SUBSET Transfers
    /\ published \in SUBSET Event
    /\ faults \in 0..MaxFaults

Published(name, t) == [name |-> name, id |-> t] \in published

\* Whatever is retried, lost or crashes, a transfer is RESERVED, in memory or in the
\* collection, only if A&B accepted a reservation for it, and COMMITTED only if A&B
\* accepted the commit.
StateIsBacked ==
    \A t \in Transfers : \A d \in {cache[t], transfers[t]} :
        /\ d.state = "RESERVED" => t \in reserved
        /\ d.state = "COMMITTED" => t \in posted

\* The other services are told of an outcome only when it has been stored: a prepared
\* transfer is stored as RESERVED or has moved on, a fulfilled one has a final state,
\* and A&B accepted what the event reports.
NotificationsBacked ==
    \A t \in Transfers :
        /\ Published("TransferPreparedEvt", t) =>
              t \in reserved /\ transfers[t].state \notin {"ABSENT", "RECEIVED"}
        /\ Published("TransferFulfiledEvt", t) =>
              t \in posted /\ transfers[t].state \in FinalStates

\* The "null transfer" branches of the continue methods are never taken: a transfer
\* with a request to A&B stays cached, and its command kept, until the flush.
ContinueFindsTransfer ==
    pc \in {"commands", "accounts", "responses"} =>
        \A i \in DOMAIN abRequests :
            /\ Present(cache[abRequests[i].id])
            /\ batchCommands[abRequests[i].id] # "none"

Reserving == {i \in DOMAIN abRequests : abRequests[i].type = "reserve"}

\* Duplicates within a batch, and retries of a batch, never ask for the reservation of
\* a transfer that is stored already or is asked for in the same batch.
ReservesOnceUntilStored ==
    pc \in {"commands", "accounts", "responses", "cancellations"} =>
        \A i, j \in Reserving :
            /\ ~Present(transfers[abRequests[i].id])
            /\ abRequests[i].id = abRequests[j].id => i = j

Batch == {topic[i] : i \in (offset + 1)..batchEnd}

\* A stored final state is left only in a batch with a Fulfil or Reject of the same
\* transfer: no timeout, retried prepare, query or other transfer's command undoes it.
\* (While the batch is not acknowledged: the flush of a rejected one may come later.)
FinalStatesLeftOnlyByPayee ==
    [][\A t \in Transfers :
          /\ transfers[t].state \in FinalStates
          /\ transfers'[t].state # transfers[t].state
          /\ offset < batchEnd
          => \E c \in Batch : c.id = t /\ c.name \in {"CommitTransferFulfilCmd", "RejectTransferCmd"}]_vars

\* The handler implements the lifecycle of TransferLifecycle: the stored state of each
\* transfer moves along its steps only, backed by what A&B accepted; no reservation is
\* asked for a transfer that is stored; prepared and fulfilled transfers are announced
\* after they are stored.
Lifecycle == INSTANCE TransferLifecycle WITH
    state     <- [t \in Transfers |-> transfers[t].state],
    prepared  <- {t \in Transfers : Published("TransferPreparedEvt", t)},
    fulfilled <- {t \in Transfers : Published("TransferFulfiledEvt", t)}

ImplementsLifecycle == Lifecycle!LifecycleSpec

\* Without faults, an aborted transfer does not hold on to the payer's liquidity
\* silently: its reservation was used by a commit, or a cancellation reached A&B, or
\* TransferCancelReservationFailedEvt was published.
NoSilentLeak ==
    pc = "idle" /\ faults = 0 =>
        \A t \in reserved :
            transfers[t].state = "ABORTED" =>
                \/ t \in posted
                \/ t \in cancelled
                \/ Published("TransferCancelReservationFailedEvt", t)

\* Without faults, every acknowledged prepare has been answered by some event about its
\* transfer, also when it was ignored as a duplicate.
AcknowledgedPrepareAnswered ==
    faults = 0 => \A i \in 1..offset :
        topic[i].name = "PrepareTransferCmd" =>
            \E e \in published : e.id = topic[i].id

\* Every command is acknowledged in the end.  (At most MaxCommands come, so there is a
\* last one.)
EveryCommandAcknowledged == []<>(offset = Len(topic))

(* What the documentation and the tests say, and the code does not do.      *)

\* A transfer that was announced as fulfilled is not announced as timed out, and the
\* other way round: ABORTED is "failed to perform the transfer or expired" and
\* COMMITTED the final state of a successful one (public-types-lib/src/enums.ts:38-39).
OneOutcome ==
    \A t \in Transfers :
        ~ /\ Published("TransferFulfiledEvt", t)
          /\ Published("TransferFulfilCommittedRequestedTimedoutEvt", t)

\* aggregate.ts:315: "cache command for later retrieval in continue methods": the
\* command found by a continue method is the one that made the request.
OriginalCommandKept ==
    pc = "responses" =>
        \A i \in DOMAIN abRequests :
            batchCommands[abRequests[i].id] =
                IF abRequests[i].type = "reserve" THEN "PrepareTransferCmd"
                                                  ELSE "CommitTransferFulfilCmd"

\* enums.ts:39: ABORTED is for a transfer that expired.  When a batch is done, no
\* transfer whose timeout was in it is still RECEIVED.  (Batches of one command, and
\* timeouts that are never early.)
ExpiredNotLeftReceived ==
    pc = "acknowledge" =>
        \A c \in Batch : c.name = "TimeoutTransferCmd" => transfers[c.id].state # "RECEIVED"

=============================================================================
