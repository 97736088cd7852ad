---------------------------- MODULE BulkTransfers ----------------------------
(***************************************************************************)
(* Bulk transfers in the command handler (domain-lib/src/aggregate.ts).    *)
(*                                                                         *)
(* A bulk command runs the handler of the individual command for each of   *)
(* its individual transfers, in the same batch, cache and queues as        *)
(* TransfersAggregate, which this module extends: reading the batch,       *)
(* calling A&B, cancelling, flushing and sending are the actions of that   *)
(* module.  What bulk transfers add is a collection and a cache of their   *)
(* own, a count of the individual transfers done, and an insertion that    *)
(* nobody waits for.                                                       *)
(*                                                                         *)
(* Limits of the model.                                                    *)
(*  - A bulk transfer always has the same individual transfers, and an     *)
(*    individual transfer belongs to one bulk transfer and is prepared     *)
(*    with it.  Of the individual commands only the Query may still name   *)
(*    it.                                                                  *)
(*  - The commands a bulk command makes of its individual transfers carry  *)
(*    no protocol type and no opaque state, so their fulfilment is never   *)
(*    validated, and no TimeoutTransferCmd ever comes for them: the event  *)
(*    handler cannot map their reminder (see EventHandler).                *)
(***************************************************************************)
EXTENDS TransfersAggregate

CONSTANTS
    Bulks,          \* ids of bulk transfers
    Members,        \* the individual transfers of each, in their order
    BulkInputs,     \* the kinds of bulk command this instance receives
    PayeeWaits,     \* the commands that come only for a bulk announced as prepared
    PayerOnce       \* a bulk transfer is prepared only once

BulkCommandNames ==
    {"PrepareBulkTransferCmd", "CommitBulkTransferFulfilCmd",
     "RejectBulkTransferCmd", "QueryBulkTransferCmd"}

MembersOf(b) == {Members[b][i] : i \in DOMAIN Members[b]}

ASSUME BulkConstantsAssumption ==
    /\ Members \in [Bulks -> Seq(Transfers)]
    /\ \A b \in Bulks : \A i, j \in DOMAIN Members[b] : Members[b][i] = Members[b][j] => i = j
    /\ \A b, c \in Bulks : MembersOf(b) \cap MembersOf(c) # {} => b = c
    /\ BulkInputs \subseteq BulkCommandNames
    /\ Inputs \subseteq {"QueryTransferCmd"}
    /\ PayeeWaits \subseteq BulkCommandNames
    /\ PayerOnce \in BOOLEAN

VARIABLES
    bulks,      \* the MongoDB collection of bulk transfers
    bulkCache,  \* _bulkTransfersCache
    adding,     \* calls of addBulkTransfer in flight: before and after their check
    rest,       \* individual transfers the loop of a bulk command has yet to do
    current     \* the bulk transfer a loop or an update is about

bulkState == <<bulks, bulkCache, adding>>
bulkVars  == <<bulkState, rest, current>>
allVars   == <<vars, bulkVars>>

-----------------------------------------------------------------------------
(* Bulk transfers.                                                          *)

BulkStates == {"RECEIVED", "PENDING", "ACCEPTED", "PROCESSING", "COMPLETED", "REJECTED"}

\* prepared and fulfilled are transfersPreparedProcessedIds and
\* transfersFulfiledProcessedIds.  transfersNotProcessedIds is always empty.
BulkDoc == [status : BulkStates \cup {"ABSENT"},
            prepared : Seq(Transfers), fulfilled : Seq(Transfers)]

NoBulk  == [status |-> "ABSENT", prepared |-> <<>>, fulfilled |-> <<>>]
NewBulk == [NoBulk EXCEPT !.status = "RECEIVED"]

Exists(d)   == d.status # "ABSENT"
BulkCached  == {b \in Bulks : Exists(bulkCache[b])}
NoBulkCache == [b \in Bulks |-> NoBulk]
NoAdding    == [b \in Bulks |-> [checks |-> 0, inserts |-> 0]]

\* What _getBulkTransfer(b) returns, and caches.
FoundBulk(b) == IF b \in BulkCached THEN bulkCache[b] ELSE bulks[b]

KeepBulk(b, d) == bulkCache' = [bulkCache EXCEPT ![b] = d]

BulkReadFails(b) == b \notin BulkCached /\ Fault

-----------------------------------------------------------------------------
(* Bulk commands.                                                           *)

\* A command with individual transfers is kept for each of them.
KeptCommands(name, b) ==
    IF name \in {"PrepareBulkTransferCmd", "CommitBulkTransferFulfilCmd"}
       THEN [t \in Transfers |-> IF t \in MembersOf(b) THEN name ELSE batchCommands[t]]
       ELSE batchCommands

BulkHandling(name, b) ==
    /\ pc = "commands"
    /\ InBatch
    /\ topic[cursor + 1] = [name |-> name, id |-> b]
    /\ cursor' = cursor + 1
    /\ batchCommands' = KeptCommands(name, b)
    /\ UNCHANGED <<input, batchEnd, cache, abRequests, abResponses, cancelRequests,
                   world, bulks>>

\* The command ends here: d is cached for b and one event emitted.
BulkAnswer(b, d, name) ==
    /\ KeepBulk(b, d)
    /\ Emit(name, b)
    /\ UNCHANGED <<pc, failed, adding, rest, current>>

BulkUnread(name, b) ==
    /\ BulkHandling(name, b)
    /\ BulkReadFails(b)
    /\ BulkAnswer(b, NoBulk, "TransferUnableToGetBulkTransferByIdEvt")

BulkNotFound(name, b) ==
    /\ BulkHandling(name, b)
    /\ ~Exists(FoundBulk(b))
    /\ NoFault
    /\ BulkAnswer(b, NoBulk, "BulkTransferNotFoundEvt")

\* The loop over the individual transfers begins.
Loop(b, transferIds) ==
    /\ pc' = "members"
    /\ rest' = transferIds
    /\ current' = b
    /\ UNCHANGED <<failed, outputEvents>>

\* addBulkTransfer is called and not awaited.
BulkPrepareStart(b) ==
    /\ BulkHandling("PrepareBulkTransferCmd", b)
    /\ adding' = [adding EXCEPT ![b].checks = @ + 1]
    /\ Loop(b, Members[b])
    /\ NoFault
    /\ UNCHANGED bulkCache

BulkFulfilStart(b) ==
    /\ BulkHandling("CommitBulkTransferFulfilCmd", b)
    /\ Exists(FoundBulk(b))
    /\ KeepBulk(b, [FoundBulk(b) EXCEPT !.status = "ACCEPTED"])
    /\ Loop(b, Members[b])
    /\ NoFault
    /\ UNCHANGED adding

BulkRejectUnlisted(b) ==
    /\ BulkHandling("RejectBulkTransferCmd", b)
    /\ Exists(FoundBulk(b))
    /\ Fault
    /\ BulkAnswer(b, FoundBulk(b), "TransferUnableToGetBulkTransferByIdEvt")

\* getTransfersByBulkId reads the collection: what is only cached is not rejected.
StoredMembers(b) == {t \in MembersOf(b) : Present(transfers[t])}

\* The find asks for no order.
Listings(b) ==
    {ids \in [1..Cardinality(StoredMembers(b)) -> StoredMembers(b)] :
        \A i, j \in DOMAIN ids : ids[i] = ids[j] => i = j}

BulkRejectStart(b) ==
    /\ BulkHandling("RejectBulkTransferCmd", b)
    /\ Exists(FoundBulk(b))
    /\ KeepBulk(b, FoundBulk(b))
    /\ \E ids \in Listings(b) : Loop(b, ids)
    /\ NoFault
    /\ UNCHANGED adding

BulkQueryRefused(b) ==
    /\ BulkHandling("QueryBulkTransferCmd", b)
    /\ Exists(FoundBulk(b))
    /\ NoFault
    /\ BulkAnswer(b, FoundBulk(b), "ParticipantCheckFailedEvt")

BulkQueryUnlisted(b) ==
    /\ BulkHandling("QueryBulkTransferCmd", b)
    /\ Exists(FoundBulk(b))
    /\ Fault
    /\ BulkAnswer(b, FoundBulk(b), "TransferUnableToGetBulkTransferByIdEvt")

BulkQueryAnswered(b) ==
    /\ BulkHandling("QueryBulkTransferCmd", b)
    /\ Exists(FoundBulk(b))
    /\ NoFault
    /\ BulkAnswer(b, FoundBulk(b), IF StoredMembers(b) = {}
                                      THEN "TransferNotFoundEvt"
                                      ELSE "BulkTransferQueryResponseEvt")

-----------------------------------------------------------------------------
(* The insertion that runs beside everything else.                          *)

AddChecked(b) ==
    /\ adding[b].checks > 0
    /\ ~Exists(bulks[b])
    /\ adding' = [adding EXCEPT ![b].checks = @ - 1, ![b].inserts = @ + 1]
    /\ UNCHANGED <<vars, bulks, bulkCache, rest, current>>

\* The collection has no unique index; every access finds the first document.
AddInserted(b) ==
    /\ adding[b].inserts > 0
    /\ adding' = [adding EXCEPT ![b].inserts = @ - 1]
    /\ bulks' = [bulks EXCEPT ![b] = IF Exists(@) THEN @ ELSE NewBulk]
    /\ UNCHANGED <<vars, bulkCache, rest, current>>

\* The process is gone; an insertion on its way to the database may still arrive.
BulkMemoryLost ==
    /\ \E landed \in SUBSET {b \in Bulks : adding[b].inserts > 0 /\ ~Exists(bulks[b])} :
          bulks' = [b \in Bulks |-> IF b \in landed THEN NewBulk ELSE bulks[b]]
    /\ bulkCache' = NoBulkCache
    /\ adding' = NoAdding
    /\ rest' = <<>>
    /\ UNCHANGED current

\* A promise nobody awaits rejects: an uncaught exception, and the process exits.
AddRejected(b) ==
    /\ \/ adding[b].checks > 0 /\ Exists(bulks[b]) /\ NoFault
       \/ adding[b].checks + adding[b].inserts > 0 /\ Fault
    /\ UNCHANGED offset
    /\ Restart
    /\ BulkMemoryLost

-----------------------------------------------------------------------------
(* The loop of a bulk command: the handlers of the individual commands.     *)

Member(name, t) ==
    /\ pc = "members"
    /\ rest # <<>>
    /\ Head(rest) = t
    /\ topic[cursor].name = name
    /\ rest' = Tail(rest)
    /\ UNCHANGED <<input, control, batchCommands, abResponses, ledger, expired,
                   published, bulkState, current>>

MemberUnread(t) == \E name \in BulkCommandNames : Member(name, t) /\ ReadFails(t)

MemberDuplicate(t) ==
    /\ Member("PrepareBulkTransferCmd", t)
    /\ Present(Found(t))
    /\ IF Found(t).state \in FinalStates
          THEN Answer(t, Found(t), "TransferQueryResponseEvt")
          ELSE Ignore(t)

\* A participant is refused: the transfer is kept; an account is missing: it is not.
MemberPrepareRefused(t) ==
    /\ Member("PrepareBulkTransferCmd", t)
    /\ ~Present(Found(t))
    /\ \E d \in {NewTransfer("participants"), NoDoc} :
          Answer(t, d, "ParticipantCheckFailedEvt")

MemberPrepareAccepted(t) ==
    /\ Member("PrepareBulkTransferCmd", t)
    /\ ~Present(Found(t))
    /\ Keep(t, NewTransfer("none"))
    /\ \/ reminders' = reminders \cup {t} /\ NoFault
       \/ reminders' = reminders /\ Fault
    /\ AskAccounts("reserve", t)
    /\ UNCHANGED <<transfers, cancelRequests, outputEvents>>

MemberFulfilNotFound(t) ==
    /\ Member("CommitBulkTransferFulfilCmd", t)
    /\ ~Present(Found(t))
    /\ Answer(t, NoDoc, "TransferCancelReservationFailedEvt")

MemberFulfilRefused(t) ==
    /\ Member("CommitBulkTransferFulfilCmd", t)
    /\ Present(Found(t))
    /\ CancelBecause(t, [Found(t) EXCEPT !.errorCode = "participants"],
                     "participants", "ParticipantCheckFailedEvt")
    /\ UNCHANGED <<reminders, abRequests>>

MemberFulfilAccepted(t) ==
    /\ Member("CommitBulkTransferFulfilCmd", t)
    /\ Present(Found(t))
    /\ Keep(t, Found(t))
    /\ AskAccounts("commit", t)
    /\ UNCHANGED <<transfers, reminders, faults, cancelRequests, outputEvents>>

MemberRejectRefused(t) ==
    /\ Member("RejectBulkTransferCmd", t)
    /\ Answer(t, [Found(t) EXCEPT !.errorCode = "participants"], "ParticipantCheckFailedEvt")

\* Mutant of MemberRejected: a failure is left without an event.
MemberRejectedSilently(t) ==
    /\ Member("RejectBulkTransferCmd", t)
    /\ CancelRefused(t, Found(t))
    /\ UNCHANGED <<reminders, abRequests, outputEvents>>

\* As in RejectAccepted, without the event of an individual transfer.
MemberRejected(t) ==
    LET d == Aborted(Found(t), "rejected") IN
    /\ Member("RejectBulkTransferCmd", t)
    /\ \/ CancelFails(t, Found(t), "rejected")
       \/ CancelSaved(t, Found(t), "rejected") /\ UNCHANGED outputEvents
       \/ /\ Keep(t, d)                     \* the second update fails
          /\ QueueCancellation(t)
          /\ transfers' = [transfers EXCEPT ![t] = Updated(d, t)]
          /\ Fault
          /\ Emit("TransferUnableToUpdateEvt", t)
    /\ UNCHANGED <<reminders, abRequests>>

EndOfMembers ==
    /\ pc = "members"
    /\ rest = <<>>
    /\ topic[cursor].name # "RejectBulkTransferCmd"
    /\ pc' = "commands"
    /\ UNCHANGED <<input, failed, batchEnd, cursor, memory, world, faults, bulkVars>>

\* updateBulkTransfer(d), which throws when the write fails or there is nothing to
\* update; the batch is rejected then.
BulkUpdated(b, d) ==
    /\ Exists(bulks[b])
    /\ bulks' = [bulks EXCEPT ![b] = d]
    /\ NoFault

BulkUpdateThrows(b) ==
    /\ IF Exists(bulks[b]) THEN Fault ELSE NoFault
    /\ failed' = TRUE
    /\ pc' = "flush"
    /\ UNCHANGED bulks

\* Whatever became of its individual transfers, the bulk transfer is rejected.
BulkRejectDone ==
    LET d == [bulkCache[current] EXCEPT !.status = "REJECTED"] IN
    /\ pc = "members"
    /\ rest = <<>>
    /\ topic[cursor].name = "RejectBulkTransferCmd"
    /\ KeepBulk(current, d)
    /\ \/ /\ BulkUpdated(current, d)
          /\ Emit("BulkTransferRejectRequestProcessedEvt", current)
          /\ pc' = "commands"
          /\ UNCHANGED failed
       \/ BulkUpdateThrows(current) /\ UNCHANGED outputEvents
    /\ UNCHANGED <<input, batchEnd, cursor, cache, batchCommands, abRequests,
                   abResponses, cancelRequests, world, adding, rest, current>>

-----------------------------------------------------------------------------
(* Continuing with the responses of A&B.                                    *)

BulkOf(t) == CHOOSE b \in Bulks : t \in MembersOf(b)

Responding == TransferOf(Head(abResponses))

\* The route is the bulkTransferId of the command kept for the transfer, not the one
\* of the transfer.
RoutedToBulk(t) == batchCommands[t] \in BulkCommandNames

BulkResponse(type, success) ==
    /\ pc = "responses"
    /\ abResponses # <<>>
    /\ Head(abResponses).type = type
    /\ Succeeded(Head(abResponses), success)
    /\ RoutedToBulk(Responding)
    /\ abResponses' = Tail(abResponses)
    /\ UNCHANGED <<input, failed, batchEnd, cursor, batchCommands, abRequests, ledger,
                   reminders, expired, published, bulks, adding, rest>>

\* _prepareTransferContinue for a transfer with a bulkTransferId.
MemberPrepared(t, success, bulkEvents) ==
    /\ Keep(t, IF success THEN InState(Found(t), "RESERVED")
                          ELSE Aborted(Found(t), "liquidity"))
    /\ outputEvents' = outputEvents \cup bulkEvents \cup
          IF success THEN {}
          ELSE {[name |-> "TransferPrepareLiquidityCheckFailedEvt", id |-> t]}
    /\ UNCHANGED <<transfers, cancelRequests>>

\* The bulk transfer cannot be read, or is not there yet: t is never counted.
BulkMissing(b, t, name) ==
    /\ UNCHANGED bulkCache
    /\ \/ BulkReadFails(b) /\ name = "TransferUnableToGetBulkTransferByIdEvt"
       \/ ~Exists(FoundBulk(b)) /\ NoFault /\ name = "BulkTransferNotFoundEvt"

BulkPrepareUncounted(success) ==
    LET t == Responding
        b == BulkOf(t) IN
    /\ BulkResponse("reserve", success)
    /\ UNCHANGED <<pc, current>>
    /\ \E name \in {"TransferUnableToGetBulkTransferByIdEvt", "BulkTransferNotFoundEvt"} :
          /\ BulkMissing(b, t, name)
          /\ MemberPrepared(t, success, {[name |-> name, id |-> b]})

\* Mutant of AllPrepared: one transfer too few.
AllButOnePrepared(b, d) == Len(d.prepared) + 1 >= Len(Members[b])

\* The identifiers are counted, not compared.
AllPrepared(b, d) == Len(d.prepared) = Len(Members[b])

\* Mutant of AllFulfilled: one individual transfer too many.
MoreThanFulfilled(b, d) == Len(d.fulfilled) > Len(Members[b])

AllFulfilled(b, d) == Len(d.fulfilled) = Len(Members[b])

BulkPrepareContinue(success) ==
    LET t == Responding
        b == BulkOf(t)
        d == [FoundBulk(b) EXCEPT !.prepared = Append(@, t)] IN
    /\ BulkResponse("reserve", success)
    /\ UNCHANGED <<pc, current>>
    /\ Exists(FoundBulk(b))
    /\ NoFault
    /\ IF AllPrepared(b, d)
          THEN /\ KeepBulk(b, [d EXCEPT !.status = "PENDING"])
               /\ MemberPrepared(t, success, {[name |-> "BulkTransferPreparedEvt", id |-> b]})
          ELSE KeepBulk(b, d) /\ MemberPrepared(t, success, {})

\* The individual transfer is not continued either: what A&B committed stays as it is.
BulkFulfilUncounted(success) ==
    LET t == Responding
        b == BulkOf(t) IN
    /\ BulkResponse("commit", success)
    /\ UNCHANGED <<pc, current>>
    /\ \E name \in {"TransferUnableToGetBulkTransferByIdEvt", "BulkTransferNotFoundEvt"} :
          BulkMissing(b, t, name) /\ Emit(name, b)
    /\ Keep(t, Found(t))
    /\ UNCHANGED <<transfers, cancelRequests>>

\* _fulfilTTransferContinue for a transfer with a bulkTransferId.
MemberFulfilled(t, success, bulkEvents) ==
    LET failure == Aborted(Found(t), "commit")
        EmitAll(names) ==
            outputEvents' = outputEvents \cup bulkEvents \cup {[name |-> n, id |-> t] : n \in names}
    IN
    \/ /\ success
       /\ Keep(t, InState(Found(t), "COMMITTED"))
       /\ EmitAll({})
       /\ UNCHANGED <<transfers, cancelRequests, faults>>
    \/ /\ ~success
       /\ CancelRefused(t, failure) \/ CancelUnsaved(t, failure, "commit")
       /\ EmitAll({"TransferCancelReservationFailedEvt"})
    \/ /\ ~success
       /\ CancelSaved(t, failure, "commit")
       /\ EmitAll({"TransferCancelReservationAndCommitFailedEvt"})

\* Mutant of Fulfilled: the id of the bulk transfer is counted.
FulfilledById(d, t, success) ==
    [d EXCEPT !.status = "PROCESSING", !.fulfilled = Append(@, BulkOf(t))]

\* A failed commit is counted as well.
Fulfilled(d, t, success) ==
    [d EXCEPT !.status = "PROCESSING", !.fulfilled = Append(@, t)]

BulkFulfilContinue(success) ==
    LET t == Responding
        b == BulkOf(t)
        d == Fulfilled(FoundBulk(b), t, success) IN
    /\ BulkResponse("commit", success)
    /\ Exists(FoundBulk(b))
    /\ IF AllFulfilled(b, d)
          THEN /\ KeepBulk(b, [d EXCEPT !.status = "COMPLETED"])
               /\ MemberFulfilled(t, success, {[name |-> "BulkTransferFulfiledEvt", id |-> b]})
               /\ pc' = "completing"
               /\ current' = b
          ELSE /\ KeepBulk(b, d)
               /\ MemberFulfilled(t, success, {})
               /\ UNCHANGED <<pc, current>>

\* The completed bulk transfer is stored, and the cache forgets every bulk transfer.
BulkCompleted ==
    /\ pc = "completing"
    /\ \/ /\ BulkUpdated(current, bulkCache[current])
          /\ bulkCache' = NoBulkCache
          /\ pc' = "responses"
          /\ UNCHANGED failed
       \/ BulkUpdateThrows(current) /\ UNCHANGED bulkCache
    /\ UNCHANGED <<input, batchEnd, cursor, memory, world, adding, rest, current>>

\* The command kept for an individual transfer is an individual one: no bulk transfer
\* is touched, nor is there an event, because the transfer has a bulkTransferId.
SinglePrepareContinue(success) ==
    /\ Continuing("reserve", success)
    /\ ~RoutedToBulk(Responding)
    /\ MemberPrepared(Responding, success, {})
    /\ NoFault
    /\ UNCHANGED bulkVars

SingleFulfilContinue(success) ==
    /\ Continuing("commit", success)
    /\ ~RoutedToBulk(Responding)
    /\ MemberFulfilled(Responding, success, {})
    /\ UNCHANGED bulkVars

-----------------------------------------------------------------------------
(* The whole handler and its environment.                                   *)

BulkPublished(name, b) == [name |-> name, id |-> b] \in published

Ordered(name, b) == \E i \in DOMAIN topic : topic[i] = [name |-> name, id |-> b]

BulkProduce(name, b) ==
    /\ pc = "idle"
    /\ Len(topic) < MaxCommands
    /\ name \in PayeeWaits => BulkPublished("BulkTransferPreparedEvt", b)
    /\ PayerOnce /\ name = "PrepareBulkTransferCmd" => ~Ordered(name, b)
    /\ topic' = Append(topic, [name |-> name, id |-> b])
    /\ UNCHANGED <<offset, control, memory, world, faults, bulkVars>>

\* Unlike the cache of transfers, the one of bulk transfers outlives a batch, so a
\* crash matters also while the process is idle.
BulkCrash == offset' \in {offset, batchEnd} /\ Restart /\ BulkMemoryLost /\ Fault

BulkExit == Exit /\ BulkMemoryLost

BulkInit ==
    /\ Init
    /\ bulks = [b \in Bulks |-> NoBulk]
    /\ bulkCache = NoBulkCache
    /\ adding = NoAdding
    /\ rest = <<>>
    /\ current \in Bulks

\* The steps of the batch that do not look at bulk transfers.
Shared ==
    /\ \/ \E n \in 1..BatchSize : StartBatch(n)
       \/ \E t \in Transfers : Query(t)
       \/ EndOfCommands
       \/ \E accepted \in SUBSET (DOMAIN abRequests) : AccountsAnswer(accepted)
       \/ EndOfResponses
       \/ Cancellations
       \/ Flush
       \/ Send
       \/ Acknowledge
    /\ UNCHANGED bulkVars

BulkCommand(b) ==
    \/ \E name \in BulkCommandNames \ {"PrepareBulkTransferCmd"} :
          BulkUnread(name, b) \/ BulkNotFound(name, b)
    \/ BulkPrepareStart(b)
    \/ BulkFulfilStart(b)
    \/ BulkRejectUnlisted(b)
    \/ BulkRejectStart(b)
    \/ BulkQueryRefused(b)
    \/ BulkQueryUnlisted(b)
    \/ BulkQueryAnswered(b)

MemberCommand(t) ==
    \/ MemberUnread(t)
    \/ MemberDuplicate(t)
    \/ MemberPrepareRefused(t)
    \/ MemberPrepareAccepted(t)
    \/ MemberFulfilNotFound(t)
    \/ MemberFulfilRefused(t)
    \/ MemberFulfilAccepted(t)
    \/ MemberRejectRefused(t)
    \/ MemberRejected(t)

BulkContinue(success) ==
    \/ BulkPrepareUncounted(success)
    \/ BulkPrepareContinue(success)
    \/ BulkFulfilUncounted(success)
    \/ BulkFulfilContinue(success)
    \/ SinglePrepareContinue(success)
    \/ SingleFulfilContinue(success)

Adding == \E b \in Bulks : AddChecked(b) \/ AddInserted(b)

BulkProcess ==
    \/ Shared
    \/ \E b \in Bulks : BulkCommand(b)
    \/ \E t \in Transfers : MemberCommand(t)
    \/ EndOfMembers
    \/ BulkRejectDone
    \/ \E success \in BOOLEAN : BulkContinue(success)
    \/ BulkCompleted
    \/ BulkExit

BulkEnvironment ==
    \/ \E name \in Inputs, t \in Transfers : Produce(name, t) /\ UNCHANGED bulkVars
    \/ \E name \in BulkInputs, b \in Bulks : BulkProduce(name, b)
    \/ FailedAcknowledge /\ UNCHANGED bulkVars
    \/ BulkCrash

BulkNext ==
    \/ BulkProcess
    \/ Adding
    \/ \E b \in Bulks : AddRejected(b)
    \/ BulkEnvironment

BulkSpec     == BulkInit /\ [][BulkNext]_allVars
BulkFairSpec == BulkSpec /\ WF_allVars(BulkProcess) /\ WF_allVars(Adding)

-----------------------------------------------------------------------------
(* Properties.                                                              *)

\* Type correctness: the bulk transfers, the insertions nobody waits for and the loop
\* over individual transfers keep the shape the aggregate gives them.
BulkTypeOK ==
    /\ bulks \in [Bulks -> BulkDoc]
    /\ bulkCache \in [Bulks -> BulkDoc]
    /\ adding \in [Bulks -> [checks : Nat, inserts : Nat]]
    /\ rest \in Seq(Transfers)
    /\ current \in Bulks
    /\ pc \in Phases \cup {"members", "completing"}

NoRepeats(s) == \A i, j \in DOMAIN s : s[i] = s[j] => i = j

\* No individual transfer is counted twice as prepared, in memory or in the collection,
\* however often the prepare of its bulk transfer is delivered and the process dies:
\* comparing the length of the list with the number of transfers relies on it.  (With a
\* payee that waits for the bulk transfer to be announced as prepared.)
PreparedCountedOnce ==
    \A b \in Bulks : NoRepeats(bulkCache[b].prepared) /\ NoRepeats(bulks[b].prepared)

\* The payee is told of a prepared bulk transfer only when each of its individual
\* transfers was answered by A&B and is stored with the outcome.
BulkPreparedBacked ==
    \A b \in Bulks : BulkPublished("BulkTransferPreparedEvt", b) =>
        \A t \in MembersOf(b) : transfers[t].state \notin {"ABSENT", "RECEIVED"}

\* Whenever a bulk transfer is announced as fulfilled, each individual transfer counted in
\* the stored bulk transfer is stored in a final state: the bulk transfer is stored before
\* they are, the announcement is sent after both.  (A later fulfil may count one again
\* that is not stored yet.)
BulkFulfilledBacked ==
    pc = "send" =>
        \A b \in Bulks : [name |-> "BulkTransferFulfiledEvt", id |-> b] \in outputEvents =>
            \A i \in DOMAIN bulks[b].fulfilled :
                transfers[bulks[b].fulfilled[i]].state \in FinalStates

MemberFailures ==
    {"ParticipantCheckFailedEvt", "TransferCancelReservationFailedEvt",
     "TransferUnableToUpdateEvt", "TransferCancelReservationAndCommitFailedEvt"}

MemberFailed(t) == \E name \in MemberFailures : Published(name, t)

\* Without faults, when a bulk transfer is announced as rejected each of its individual
\* transfers is stored as ABORTED, or an event said what went wrong with it, or it was
\* committed by a fulfil that came as well.
BulkRejectAccounted ==
    pc = "idle" =>
        \A b \in Bulks : BulkPublished("BulkTransferRejectRequestProcessedEvt", b) =>
            \A t \in MembersOf(b) : transfers[t].state = "ABORTED" \/ t \in posted \/ MemberFailed(t)

\* Without faults, a fulfil of a bulk transfer that was acknowledged has been answered:
\* the bulk transfer was announced as fulfilled, or an event said what went wrong with
\* it or with one of its individual transfers.
BulkFulfilAnswered ==
    \A i \in 1..offset : \A b \in Bulks :
        topic[i] = [name |-> "CommitBulkTransferFulfilCmd", id |-> b] =>
            \/ BulkPublished("BulkTransferFulfiledEvt", b)
            \/ BulkPublished("BulkTransferNotFoundEvt", b)
            \/ \E t \in MembersOf(b) : MemberFailed(t)

\* Without faults, and with each bulk transfer prepared once, what A&B committed is
\* stored in a final state when the batch is acknowledged.  (A second prepare may end
\* the process, through AddRejected, between A&B's answer and the flush.)
CommitsRecorded ==
    pc \in {"acknowledge", "idle"} =>
        \A t \in posted : transfers[t].state \in FinalStates

(* What the documentation and the tests say, and the code does not do.      *)

\* public-types-lib/src/enums.ts:47: COMPLETED is the "final state of processing all individual transfers".
CompletedMeansAllProcessed ==
    \A b \in Bulks : BulkPublished("BulkTransferFulfiledEvt", b) =>
        \A t \in MembersOf(b) : transfers[t].state \in FinalStates
=============================================================================
