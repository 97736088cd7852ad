------------------- MODULE TransfersAggregateAnswersProofs -------------------
(***************************************************************************)
(* What the command handler owes the payer when nothing fails, for every   *)
(* set of transfers, batch size and number of commands: an answer to each  *)
(* prepare, and the release of what was reserved for an aborted transfer.  *)
(*                                                                         *)
(* "Nothing fails" is faults = 0, and no batch is rejected by the code     *)
(* itself (NothingRejects).  Three invariants: the process goes through    *)
(* its batches without dying (SmoothInv); a transfer that is cached or     *)
(* stored was answered for, or will be (AnswersInv); a reservation is      *)
(* used, released or reported as not released (ReleasesInv).               *)
(***************************************************************************)
EXTENDS TransfersAggregatePathProofs

\* No command without payload is received, and a flush does not throw because of
\* a transfer the batch left as it was.
NothingRejects == CountsNoops /\ "MalformedCmd" \notin Inputs

-----------------------------------------------------------------------------
(* The invariants.                                                          *)

\* The commands behind the cursor have been handled, those behind the offset
\* acknowledged.
SmoothInv ==
    /\ NothingRejects
    /\ faults = 0 =>
          /\ ~failed /\ pc # "dying"
          /\ offset =< cursor
          /\ pc \notin {"idle", "commands"} => cursor = batchEnd
          /\ \A i \in DOMAIN topic : topic[i].name # "MalformedCmd"

\* The events in outputEvents will still be sent.
Unsent == pc \in {"commands", "accounts", "responses", "cancellations", "flush", "send"}

\* The transfers some event was published about, or will be when the batch ends, ...
Told == {t \in Transfers : \E e \in published : e.id = t}

ToTell == {t \in Transfers : Unsent /\ \E e \in outputEvents : e.id = t}

\* ... and those A&B is asked about: the continue method of each response has an event.
Awaited ==
    {t \in Transfers :
        \/ pc \in {"commands", "accounts"} /\ \E i \in DOMAIN abRequests : abRequests[i].id = t
        \/ pc = "responses" /\ \E i \in DOMAIN abResponses : abResponses[i].id = t}

Answered == Told \cup ToTell \cup Awaited

\* Transfers are not created in silence, and a prepare is ignored only for a transfer
\* that was created before.
AnswersInv ==
    faults = 0 =>
        /\ \A t \in Transfers :
              Present(cache[t]) \/ Present(transfers[t]) => t \in Answered
        /\ \A i \in 1..cursor :
              topic[i].name = "PrepareTransferCmd" => topic[i].id \in Answered
        /\ \A i \in 1..offset :
              topic[i].name = "PrepareTransferCmd" => topic[i].id \in Told

\* The cancellations that will still be sent.
Queued == {cancelRequests[i] : i \in DOMAIN cancelRequests}

ToCancel ==
    {t \in Queued : pc \in {"commands", "accounts", "responses", "cancellations"}}

\* The transfers for which TransferCancelReservationFailedEvt was or will be published.
Reported ==
    {t \in Transfers :
        \/ Published("TransferCancelReservationFailedEvt", t)
        \/ Unsent /\ InOutput("TransferCancelReservationFailedEvt", t)}

Released == posted \cup cancelled \cup ToCancel \cup Reported

\* The transfers that will become RESERVED, whatever their state is now: the next
\* response about their reservation says so.
Granted ==
    {t \in Transfers :
        /\ pc = "responses"
        /\ \E i \in DOMAIN abResponses :
              /\ abResponses[i].type = "reserve"
              /\ abResponses[i].id = t
              /\ abResponses[i].success = TRUE}

\* A&B has reserved for t: t is stored, or cached until it is; it is not RECEIVED, so
\* that its timeout cannot abort it without a cancellation; if it is ABORTED, the
\* reservation is dealt with.
ReservationHeld(t) ==
    /\ transfers[t].state # "RECEIVED"
    /\ transfers[t].state = "ABORTED" => t \in Released
    /\ cache[t].state = "RECEIVED" => t \in Granted
    /\ cache[t].state = "ABORTED" => t \in Released \cup Granted
    /\ \/ Present(transfers[t])
       \/ pc \in {"responses", "cancellations", "flush"} /\ Present(cache[t])

ReleasesInv ==
    faults = 0 =>
        /\ \A t \in reserved : ReservationHeld(t)
        /\ pc = "responses" =>
              \A i \in DOMAIN abResponses :
                  abResponses[i].type = "reserve" /\ abResponses[i].id \in reserved =>
                      abResponses[i].success = TRUE

-----------------------------------------------------------------------------
(* The commands of the topic.                                               *)

LEMMA ProducedElements ==
    ASSUME TypeOK, NEW name \in Inputs, NEW t \in Transfers, Produce(name, t)
    PROVE  /\ \A i \in DOMAIN topic' : i \in DOMAIN topic \/ i = Len(topic) + 1
           /\ \A i \in DOMAIN topic : topic'[i] = topic[i]
           /\ topic'[Len(topic) + 1] = [name |-> name, id |-> t]
<1> DEFINE c == [name |-> name, id |-> t]
<1>1. c \in Command /\ topic \in Seq(Command)
  BY ConstantsAssumption DEF Command, TypeOK
<1>2. topic' = Append(topic, c)
  BY DEF Produce
<1> HIDE DEF c
<1>3. /\ Len(topic) \in Nat
      /\ DOMAIN topic = 1..Len(topic)
      /\ DOMAIN topic' = 1..(Len(topic) + 1)
      /\ \A i \in 1..Len(topic) : topic'[i] = topic[i]
      /\ topic'[Len(topic) + 1] = c
  BY <1>1, <1>2
<1> QED
  BY <1>3 DEF c

-----------------------------------------------------------------------------
(* The steps of a process that nothing disturbs.                            *)

\* Faults are only counted up.
LEMMA CommandFaults ==
    ASSUME NEW t \in Transfers, ProcessCommand(t)
    PROVE  UNCHANGED faults \/ Fault
<1>1. ASSUME NEW d, NEW code, NEW name, CancelBecause(t, d, code, name)
      PROVE  UNCHANGED faults \/ Fault
  BY <1>1 DEF CancelBecause, CancelFails, CancelRefused, CancelUnsaved, CancelSaved, NoFault
<1>2. ASSUME NEW code, NEW name, CancelAndUpdate(t, code, name)
      PROVE  UNCHANGED faults \/ Fault
  BY <1>2 DEF CancelAndUpdate, CancelFails, CancelRefused, CancelUnsaved, CancelSaved, NoFault
<1>3. CASE PrepareStart(t)
  BY <1>3 DEF PrepareStart, PrepareUnread, ReadFails, PrepareDuplicate, Answer, Ignore,
              PrepareRefusedByParticipants, PrepareRefusedByAccounts, PrepareAccepted, NoFault
<1>4. CASE FulfilStart(t)
  BY <1>1, <1>4 DEF FulfilStart, FulfilUnread, ReadFails, FulfilNotFound, Answer, FulfilInvalid,
                    FulfilRefused, FulfilAccepted
<1>5. CASE Reject(t)
  BY <1>2, <1>5 DEF Reject, RejectUnread, ReadFails, RejectNotFound, RejectRefused, Answer,
                    RejectAccepted
<1>6. CASE Timeout(t)
  BY <1>2, <1>6 DEF Timeout, TimeoutUnread, ReadFails, TimeoutIgnored, Ignore, TimeoutReceived,
                    TimeoutReserved, NoFault
<1>7. CASE Query(t) \/ UnknownCommand(t) \/ MalformedCommand(t)
  BY <1>7 DEF Query, QueryUnread, QueryRefused, QueryAnswered, UnknownCommand, Answer,
              MalformedCommand
<1> QED
  BY <1>3, <1>4, <1>5, <1>6, <1>7 DEF ProcessCommand

LEMMA StepFaults ==
    ASSUME TypeOK, [Next]_vars
    PROVE  UNCHANGED faults \/ Fault
<1>1. CASE QuietStep
  BY <1>1 DEF QuietStep, StartBatch, MalformedCommand, EndOfCommands, EndOfResponses,
              Cancellations, Acknowledge, FailedAcknowledge, Exit, Crash, NoFault, Produce,
              Expire, vars
<1>2. CASE \E t \in Transfers : ProcessCommand(t) /\ ~MalformedCommand(t)
  BY <1>2, CommandFaults
<1>3. CASE Continue
  BY <1>3 DEF Continue, PrepareContinue, PrepareContinueFailed, FulfilContinue,
              FulfilContinueFailed, CancelBecause, CancelFails, CancelRefused, CancelUnsaved,
              CancelSaved, NoFault
<1>4. CASE \/ \E accepted \in SUBSET (DOMAIN abRequests) : AccountsAnswer(accepted)
           \/ Flush \/ Send
  BY <1>4 DEF AccountsAnswer, Flush, Send, NoFault
<1> QED
  BY <1>1, <1>2, <1>3, <1>4, StepKinds

\* The steps the process takes when nothing fails, each with its one outcome.
SmoothStep ==
    \/ \E n \in 1..BatchSize : StartBatch(n)
    \/ \E t \in Transfers : ProcessCommand(t) /\ ~MalformedCommand(t)
    \/ EndOfCommands
    \/ \E accepted \in SUBSET (DOMAIN abRequests) : AccountsAnswer(accepted) /\ pc' = "responses"
    \/ Continue
    \/ EndOfResponses
    \/ Cancellations /\ cancelled' = cancelled \cup Queued
    \/ Flush /\ pc' = "send"
    \/ Send /\ pc' = "acknowledge" /\ published' = published \cup outputEvents
    \/ Acknowledge
    \/ \E name \in Inputs, t \in Transfers : Produce(name, t)
    \/ \E t \in Transfers : Expire(t)
    \/ UNCHANGED vars

LEMMA SmoothSteps ==
    ASSUME IInv, SmoothInv, [Next]_vars, faults' = 0
    PROVE  faults = 0 /\ UNCHANGED faults /\ SmoothStep
<1>1. faults = 0 /\ UNCHANGED faults /\ ~Fault
  BY StepFaults DEF IInv, TypeOK, Fault
<1>2. /\ NothingRejects /\ ~failed /\ pc # "dying"
      /\ \A i \in DOMAIN topic : topic[i].name # "MalformedCmd"
  BY <1>1 DEF SmoothInv
<1>3. ~Exit /\ ~Crash /\ ~FailedAcknowledge
  BY <1>1, <1>2 DEF Exit, MustExit, Crash, FailedAcknowledge
<1>4. ASSUME NEW t \in Transfers, MalformedCommand(t)
      PROVE  FALSE
  <2>1. cursor + 1 \in DOMAIN topic
    BY <1>4, LenProperties DEF MalformedCommand, InBatch, IInv, TypeOK
  <2> QED
    BY <1>2, <1>4, <2>1 DEF MalformedCommand
<1>5. Cancellations => cancelled' = cancelled \cup Queued
  BY <1>1 DEF Cancellations, Queued
<1>6. Flush => pc' = "send"
  BY <1>1, <1>2 DEF Flush, NoopStore, NothingRejects
<1>7. Send => pc' = "acknowledge" /\ published' = published \cup outputEvents
  BY <1>1, <1>2 DEF Send
<1>8. \A accepted \in SUBSET (DOMAIN abRequests) : AccountsAnswer(accepted) => pc' = "responses"
  BY <1>1 DEF AccountsAnswer
<1>9. CASE QuietStep
  BY <1>1, <1>3, <1>4, <1>5, <1>9 DEF QuietStep, SmoothStep
<1>10. CASE \E accepted \in SUBSET (DOMAIN abRequests) : AccountsAnswer(accepted)
  BY <1>1, <1>8, <1>10 DEF SmoothStep
<1>11. CASE \E t \in Transfers : ProcessCommand(t) /\ ~MalformedCommand(t)
  BY <1>1, <1>11 DEF SmoothStep
<1>12. CASE Continue \/ Flush \/ Send
  BY <1>1, <1>6, <1>7, <1>12 DEF SmoothStep
<1> QED
  BY <1>1, <1>9, <1>10, <1>11, <1>12, StepKinds

LEMMA SmoothInit == NothingRejects /\ Init => SmoothInv
<1> SUFFICES ASSUME NothingRejects, Init PROVE SmoothInv
  OBVIOUS
<1>1. DOMAIN topic = {}
  BY DEF Init
<1> QED
  BY <1>1 DEF Init, SmoothInv

LEMMA SmoothNext ==
    ASSUME IInv, IInv', SmoothInv, [Next]_vars
    PROVE  SmoothInv'
<1>1. NothingRejects
  BY DEF SmoothInv
<1> SUFFICES ASSUME faults' = 0
             PROVE  /\ ~failed' /\ pc' # "dying"
                    /\ offset' =< cursor'
                    /\ pc' \notin {"idle", "commands"} => cursor' = batchEnd'
                    /\ \A i \in DOMAIN topic' : topic'[i].name # "MalformedCmd"
  BY <1>1 DEF SmoothInv, NothingRejects
<1>2. SmoothStep /\ faults = 0
  BY SmoothSteps
<1>3. /\ ~failed /\ pc # "dying" /\ offset =< cursor
      /\ pc \notin {"idle", "commands"} => cursor = batchEnd
      /\ \A i \in DOMAIN topic : topic[i].name # "MalformedCmd"
      /\ offset \in Nat /\ cursor \in Nat /\ batchEnd \in Nat
  BY <1>2, LenProperties DEF SmoothInv, IInv, TypeOK
<1>4. CASE \E n \in 1..BatchSize : StartBatch(n)
  BY <1>3, <1>4 DEF StartBatch, input
<1>5. CASE \E t \in Transfers : ProcessCommand(t) /\ ~MalformedCommand(t)
  <2>1. /\ pc' = "commands" /\ cursor' = cursor + 1 /\ UNCHANGED <<topic, offset, failed>>
    BY <1>5, HandlerSteps DEF Handling, input, IInv
  <2> QED
    BY <1>3, <2>1
<1>6. CASE EndOfCommands \/ EndOfResponses
  BY <1>3, <1>6 DEF EndOfCommands, EndOfResponses, AfterResponses, input
<1>7. CASE \E accepted \in SUBSET (DOMAIN abRequests) : AccountsAnswer(accepted) /\ pc' = "responses"
  BY <1>3, <1>7 DEF AccountsAnswer, input
<1>8. CASE Continue
  <2>1. UNCHANGED <<topic, offset, failed, pc, batchEnd, cursor>>
    BY <1>8 DEF Continue, PrepareContinue, PrepareContinueFailed, FulfilContinue,
                FulfilContinueFailed, Continuing, input, control
  <2> QED
    BY <1>3, <2>1
<1>9. CASE Cancellations
  BY <1>2, <1>3, <1>9, SmoothSteps DEF Cancellations, Fault, input
<1>10. CASE (Flush /\ pc' = "send") \/ (Send /\ pc' = "acknowledge")
  BY <1>3, <1>10 DEF Flush, Send, input
<1>11. CASE Acknowledge
  BY <1>3, <1>11 DEF Acknowledge
<1>12. CASE \E name \in Inputs, t \in Transfers : Produce(name, t)
  <2>1. PICK name \in Inputs, t \in Transfers : Produce(name, t)
    BY <1>12
  <2>2. /\ \A i \in DOMAIN topic' : i \in DOMAIN topic \/ i = Len(topic) + 1
        /\ \A i \in DOMAIN topic : topic'[i] = topic[i]
        /\ topic'[Len(topic) + 1] = [name |-> name, id |-> t]
    BY <2>1, ProducedElements DEF IInv
  <2>3. name # "MalformedCmd"
    BY <1>1 DEF NothingRejects
  <2> QED
    BY <1>3, <2>1, <2>2, <2>3 DEF Produce, control
<1>13. CASE (\E t \in Transfers : Expire(t)) \/ UNCHANGED vars
  BY <1>3, <1>13 DEF Expire, vars, input, control
<1> QED
  BY <1>2, <1>4, <1>5, <1>6, <1>7, <1>8, <1>9, <1>10, <1>11, <1>12, <1>13 DEF SmoothStep

LEMMA CommandUntouched ==
    ASSUME TypeOK, NEW t \in Transfers, ProcessCommand(t), ~MalformedCommand(t)
    PROVE  Untouched(t)
<1>1. CASE Timeout(t)
  <2>1. CASE TimeoutReserved(t)
    BY <2>1, CancelUntouched DEF TimeoutReserved
  <2> QED
    BY <1>1, <2>1 DEF Timeout, TimeoutUnread, ReadFails, TimeoutIgnored, Ignore,
                      TimeoutReceived, Keep, TypeOK, Untouched
<1>2. CASE PrepareStart(t)
  BY <1>2, PrepareFinal
<1>3. CASE FulfilStart(t) \/ Reject(t) \/ Query(t) \/ UnknownCommand(t)
  BY <1>3, FulfilUntouched, RejectUntouched, QueryFinal
<1> QED
  BY <1>1, <1>2, <1>3 DEF ProcessCommand

LEMMA TailElements ==
    ASSUME TypeOK, abResponses # <<>>
    PROVE  \A i \in DOMAIN abResponses :
              \/ i = 1
              \/ i - 1 \in DOMAIN Tail(abResponses) /\ Tail(abResponses)[i - 1] = abResponses[i]
<1>1. abResponses \in Seq(Response)
  BY DEF TypeOK
<1>2. /\ DOMAIN abResponses = 1..Len(abResponses)
      /\ Len(abResponses) \in Nat \ {0}
      /\ DOMAIN Tail(abResponses) = 1..(Len(abResponses) - 1)
      /\ \A i \in 1..(Len(abResponses) - 1) : Tail(abResponses)[i] = abResponses[i + 1]
  BY <1>1
<1> QED
  BY <1>2

-----------------------------------------------------------------------------
(* Each command is answered.                                                *)

\* A command ends with an event, asks A&B, or finds its transfer and leaves it; only
\* the timeout of an unknown transfer does none of it.
CommandEnds(t) ==
    \/ \E name \in EventNames : Emit(name, t)
    \/ \E type \in {"reserve", "commit"} : AskAccounts(type, t)
    \/ Present(cache[t]) \/ Present(transfers[t])
    \/ /\ ~Present(cache'[t]) /\ ~Present(transfers'[t])
       /\ topic[cursor + 1].name # "PrepareTransferCmd"

OutputGrows ==
    \/ UNCHANGED outputEvents
    \/ \E name \in EventNames : \E t \in Transfers : Emit(name, t)

LEMMA CancelEmits ==
    ASSUME NEW t \in Transfers, NEW d, NEW code, NEW name \in EventNames,
           CancelBecause(t, d, code, name) \/ CancelAndUpdate(t, code, name)
    PROVE  \E n \in EventNames : Emit(n, t)
BY DEF CancelBecause, CancelAndUpdate, CancelFails, EventNames

LEMMA FoundPresent ==
    ASSUME TypeOK, NEW t \in Transfers
    PROVE  Present(Found(t)) <=> Present(cache[t]) \/ Present(transfers[t])
BY FoundState DEF Present

LEMMA CommandSpeaks ==
    ASSUME TypeOK, NEW t \in Transfers, ProcessCommand(t), ~MalformedCommand(t)
    PROVE  CommandEnds(t) /\ OutputGrows
<1>1. CASE PrepareStart(t)
  BY <1>1, FoundPresent
  DEF PrepareStart, PrepareUnread, ReadFails, PrepareDuplicate, PrepareRefusedByParticipants,
      PrepareRefusedByAccounts, PrepareAccepted, Answer, Ignore, CommandEnds, OutputGrows,
      EventNames
<1>2. CASE FulfilStart(t)
  <2>1. CASE FulfilUnread(t) \/ FulfilNotFound(t)
    BY <2>1 DEF FulfilUnread, ReadFails, FulfilNotFound, Answer, CommandEnds, OutputGrows,
                EventNames
  <2>2. CASE FulfilInvalid(t)
    <3>1. "TransferFulfilmentValidationFailedEvt" \in EventNames
      BY DEF EventNames
    <3> QED
      BY <2>2, <3>1, CancelEmits DEF FulfilInvalid, CommandEnds, OutputGrows
  <2>3. CASE FulfilRefused(t)
    <3>1. "ParticipantCheckFailedEvt" \in EventNames
      BY DEF EventNames
    <3> QED
      BY <2>3, <3>1, CancelEmits DEF FulfilRefused, CommandEnds, OutputGrows
  <2>4. CASE FulfilAccepted(t)
    BY <2>4 DEF FulfilAccepted, CommandEnds, OutputGrows
  <2> QED
    BY <1>2, <2>1, <2>2, <2>3, <2>4 DEF FulfilStart
<1>3. CASE Reject(t)
  <2>1. CASE RejectAccepted(t)
    <3>1. "TransferRejectRequestProcessedEvt" \in EventNames
      BY DEF EventNames
    <3> QED
      BY <2>1, <3>1, CancelEmits DEF RejectAccepted, CommandEnds, OutputGrows
  <2> QED
    BY <1>3, <2>1 DEF Reject, RejectUnread, ReadFails, RejectNotFound, RejectRefused, Answer,
                      CommandEnds, OutputGrows, EventNames
<1>4. CASE Timeout(t)
  <2>1. CASE TimeoutIgnored(t)
    <3>1. /\ UNCHANGED <<transfers, outputEvents>> /\ cache'[t] = Found(t)
          /\ topic[cursor + 1].name = "TimeoutTransferCmd"
      BY <2>1 DEF TimeoutIgnored, Ignore, Keep, Handling, TypeOK
    <3> QED
      BY <3>1, FoundPresent DEF CommandEnds, OutputGrows
  <2>2. CASE TimeoutReserved(t)
    <3>1. "TransferFulfilCommittedRequestedTimedoutEvt" \in EventNames
      BY DEF EventNames
    <3> QED
      BY <2>2, <3>1, CancelEmits DEF TimeoutReserved, CommandEnds, OutputGrows
  <2>3. CASE TimeoutUnread(t) \/ TimeoutReceived(t)
    BY <2>3 DEF TimeoutUnread, ReadFails, TimeoutReceived, CommandEnds, OutputGrows, EventNames
  <2> QED
    BY <1>4, <2>1, <2>2, <2>3 DEF Timeout
<1>5. CASE Query(t) \/ UnknownCommand(t)
  BY <1>5 DEF Query, QueryUnread, QueryRefused, QueryAnswered, UnknownCommand, Answer,
              CommandEnds, OutputGrows, EventNames
<1> QED
  BY <1>1, <1>2, <1>3, <1>4, <1>5 DEF ProcessCommand

\* A step that forgets no answer, and acknowledges nothing.
LEMMA AnswersFrame ==
    ASSUME AnswersInv, faults = 0, Told \subseteq Told', Answered \subseteq Answered',
           UNCHANGED offset,
           \A i \in 1..offset : topic'[i] = topic[i],
           \A u \in Transfers :
               Present(cache'[u]) \/ Present(transfers'[u]) =>
                   u \in Answered' \/ Present(cache[u]) \/ Present(transfers[u]),
           \A i \in 1..cursor' :
               topic'[i].name = "PrepareTransferCmd" =>
                   topic'[i].id \in Answered' \/ (i \in 1..cursor /\ topic'[i] = topic[i])
    PROVE  AnswersInv'
<1>1. \A t \in Transfers : Present(cache'[t]) \/ Present(transfers'[t]) => t \in Answered'
  BY DEF AnswersInv
<1>2. \A i \in 1..cursor' : topic'[i].name = "PrepareTransferCmd" => topic'[i].id \in Answered'
  BY DEF AnswersInv
<1>3. \A i \in 1..offset' : topic'[i].name = "PrepareTransferCmd" => topic'[i].id \in Told'
  BY DEF AnswersInv
<1> QED
  BY <1>1, <1>2, <1>3 DEF AnswersInv

LEMMA CommandAnswers ==
    ASSUME IInv, AnswersInv, faults = 0, NEW t \in Transfers,
           ProcessCommand(t), ~MalformedCommand(t)
    PROVE  AnswersInv'
<1>1. /\ pc = "commands" /\ pc' = "commands" /\ cursor' = cursor + 1
      /\ UNCHANGED <<topic, offset, published, abResponses>>
      /\ topic[cursor + 1].id = t
      /\ cursor \in Nat
  <2>1. PICK name \in CommandNames : Handling(name, t)
    BY HandlerSteps DEF IInv
  <2>2. cursor \in Nat
    BY DEF IInv, TypeOK
  <2> QED
    BY <2>1, <2>2 DEF Handling, input
<1>2. CommandEnds(t) /\ OutputGrows /\ Untouched(t) /\ RequestStep(t)
  BY CommandSpeaks, CommandUntouched, HandlerSteps DEF IInv
<1>3. Told' = Told /\ ToTell \subseteq ToTell'
  BY <1>1, <1>2 DEF Told, ToTell, Unsent, OutputGrows, Emit
<1>4. /\ Awaited \subseteq Awaited'
      /\ (\E type \in {"reserve", "commit"} : AskAccounts(type, t)) => t \in Awaited'
  <2>1. UNCHANGED abRequests => Awaited \subseteq Awaited'
    BY <1>1 DEF Awaited
  <2>2. ASSUME NEW type \in {"reserve", "commit"}, AskAccounts(type, t)
        PROVE  Awaited \subseteq Awaited' /\ t \in Awaited'
    <3>1. /\ \A i \in DOMAIN abRequests : i \in DOMAIN abRequests' /\ abRequests'[i] = abRequests[i]
          /\ \E i \in DOMAIN abRequests' : abRequests'[i].id = t
      <4>1. TypeOK
        BY DEF IInv
      <4>2. /\ DOMAIN abRequests' = DOMAIN abRequests \cup {Len(abRequests) + 1}
            /\ \A i \in DOMAIN abRequests : abRequests'[i] = abRequests[i]
            /\ abRequests'[Len(abRequests) + 1] = [type |-> type, id |-> t]
        BY <2>2, <4>1, AskAccountsElements
      <4> QED
        BY <4>2
    <3> QED
      BY <1>1, <3>1 DEF Awaited
  <2> QED
    BY <1>2, <2>1, <2>2 DEF RequestStep
<1>5. (\E name \in EventNames : Emit(name, t)) => t \in ToTell'
  BY <1>1 DEF ToTell, Unsent, Emit
<1>6. Answered \subseteq Answered'
  BY <1>3, <1>4 DEF Answered
<1>7. Present(cache[t]) \/ Present(transfers[t]) => t \in Answered'
  BY <1>6 DEF AnswersInv
<1>8. \/ t \in Answered'
      \/ /\ ~Present(cache'[t]) /\ ~Present(transfers'[t])
         /\ topic[cursor + 1].name # "PrepareTransferCmd"
  BY <1>2, <1>4, <1>5, <1>7 DEF CommandEnds, Answered
<1>9. \A u \in Transfers :
         Present(cache'[u]) \/ Present(transfers'[u]) =>
             u \in Answered' \/ Present(cache[u]) \/ Present(transfers[u])
  BY <1>2, <1>8 DEF Untouched
<1>10. \A i \in 1..cursor' : i \in 1..cursor \/ i = cursor + 1
  BY <1>1
<1> QED
  BY <1>1, <1>3, <1>6, <1>8, <1>9, <1>10, AnswersFrame

\* The steps between the commands and the end of the batch that touch no transfer.
LEMMA PhaseAnswers ==
    ASSUME IInv, AnswersInv, faults = 0,
           \/ EndOfCommands
           \/ \E accepted \in SUBSET (DOMAIN abRequests) : AccountsAnswer(accepted) /\ pc' = "responses"
           \/ EndOfResponses
           \/ Cancellations
           \/ Send /\ pc' = "acknowledge" /\ published' = published \cup outputEvents
           \/ \E t \in Transfers : Expire(t)
           \/ UNCHANGED vars
    PROVE  AnswersInv'
<1>1. UNCHANGED <<topic, offset, cursor, cache, transfers>>
  BY DEF EndOfCommands, AccountsAnswer, EndOfResponses, Cancellations, Send, Expire, vars,
         input, control, memory, world
<1>2. Told \subseteq Told' /\ Answered \subseteq Answered'
  <2>1. CASE EndOfCommands
    <3>1. DOMAIN <<>> = {}
      OBVIOUS
    <3>2. /\ pc = "commands" /\ UNCHANGED <<abRequests, outputEvents, published>>
          /\ pc' = "accounts" \/ (abRequests = <<>> /\ pc' \in {"flush", "cancellations"})
      BY <2>1 DEF EndOfCommands, AfterResponses, memory, queues, world
    <3> QED
      BY <3>1, <3>2 DEF Told, ToTell, Awaited, Answered, Unsent
  <2>2. CASE \E accepted \in SUBSET (DOMAIN abRequests) : AccountsAnswer(accepted) /\ pc' = "responses"
    <3>1. PICK accepted \in SUBSET (DOMAIN abRequests) : AccountsAnswer(accepted) /\ pc' = "responses"
      BY <2>2
    <3>2. /\ pc = "accounts" /\ pc' = "responses"
          /\ UNCHANGED <<abRequests, outputEvents, published>>
          /\ abResponses' = [i \in DOMAIN abRequests |-> ResponseTo(i, accepted)]
      BY <3>1 DEF AccountsAnswer
    <3>3. DOMAIN abResponses' = DOMAIN abRequests /\ \A i \in DOMAIN abRequests : abResponses'[i].id = abRequests[i].id
      BY <3>2 DEF ResponseTo
    <3>4. Awaited \subseteq Awaited'
      BY <3>2, <3>3 DEF Awaited
    <3> QED
      BY <3>2, <3>4 DEF Told, ToTell, Answered, Unsent
  <2>3. CASE EndOfResponses
    <3>1. DOMAIN <<>> = {}
      OBVIOUS
    <3>2. /\ pc = "responses" /\ UNCHANGED <<outputEvents, published>>
          /\ abResponses = <<>> /\ pc' \in {"flush", "cancellations"}
      BY <2>3 DEF EndOfResponses, AfterResponses, memory, queues, world
    <3> QED
      BY <3>1, <3>2 DEF Told, ToTell, Awaited, Answered, Unsent
  <2>4. CASE Cancellations
    BY <2>4 DEF Cancellations, memory, queues, Told, ToTell, Awaited, Answered, Unsent
  <2>5. CASE Send /\ pc' = "acknowledge" /\ published' = published \cup outputEvents
    BY <2>5 DEF Send, Told, ToTell, Awaited, Answered
  <2>6. CASE (\E t \in Transfers : Expire(t)) \/ UNCHANGED vars
    BY <2>6 DEF Expire, vars, control, memory, queues, world, Told, ToTell, Awaited, Answered,
                Unsent
  <2> QED
    BY <2>1, <2>2, <2>3, <2>4, <2>5, <2>6
<1> QED
  BY <1>1, <1>2, AnswersFrame

LEMMA ContinueAnswers ==
    ASSUME IInv, IInv', PathInv, FinalsInv, AnswersInv, faults = 0, Continue
    PROVE  AnswersInv'
<1> DEFINE subject == Head(abResponses).id
<1>1. /\ pc = "responses" /\ pc' = "responses" /\ abResponses # <<>>
      /\ abResponses' = Tail(abResponses)
      /\ UNCHANGED <<topic, offset, cursor, abRequests, published>>
  BY DEF Continue, PrepareContinue, PrepareContinueFailed, FulfilContinue,
         FulfilContinueFailed, Continuing, control, input
<1>2. subject \in Transfers
  BY ContinuingBacked DEF Continue, PrepareContinue, PrepareContinueFailed, FulfilContinue,
                          FulfilContinueFailed
<1>3. PICK name \in EventNames : Emit(name, subject)
  <2>1. "TransferCancelReservationAndCommitFailedEvt" \in EventNames
    BY DEF EventNames
  <2>2. CASE FulfilContinueFailed
    BY <1>2, <2>1, <2>2, CancelEmits DEF FulfilContinueFailed, TransferOf
  <2> QED
    BY <2>2 DEF Continue, PrepareContinue, PrepareContinueFailed, FulfilContinue, TransferOf,
                EventNames
<1> HIDE DEF subject
<1>4. Told' = Told /\ ToTell \subseteq ToTell' /\ subject \in ToTell'
  <2>1. outputEvents' = outputEvents \cup {[name |-> name, id |-> subject]}
    BY <1>3 DEF Emit
  <2>2. Unsent /\ Unsent'
    BY <1>1 DEF Unsent
  <2>3. ToTell \subseteq ToTell'
    BY <2>1, <2>2 DEF ToTell
  <2>4. subject \in ToTell'
    <3>1. [name |-> name, id |-> subject].id = subject
      OBVIOUS
    <3>2. \E e \in outputEvents' : e.id = subject
      BY <2>1, <3>1
    <3> QED
      BY <1>2, <2>2, <3>2 DEF ToTell
  <2> QED
    BY <1>1, <2>3, <2>4 DEF Told
<1>5. \A i \in DOMAIN abResponses :
         \/ i = 1
         \/ i - 1 \in DOMAIN Tail(abResponses) /\ Tail(abResponses)[i - 1] = abResponses[i]
  BY <1>1, TailElements DEF IInv
<1>6. Awaited \subseteq Awaited' \cup {subject}
  <2>1. abResponses[1].id = subject
    BY <1>1, ResponseElements DEF IInv, subject
  <2> QED
    BY <1>1, <1>5, <2>1 DEF Awaited
<1>7. Answered \subseteq Answered' /\ subject \in Answered'
  BY <1>4, <1>6 DEF Answered
<1>8. Untouched(subject)
  <2>1. CASE FulfilContinueFailed
    BY <1>2, <2>1, CancelUntouched DEF FulfilContinueFailed, TransferOf, IInv, subject
  <2> QED
    BY <2>1 DEF Continue, PrepareContinue, PrepareContinueFailed, FulfilContinue, TransferOf,
                Keep, IInv, TypeOK, Untouched, subject
<1> QED
  BY <1>1, <1>4, <1>7, <1>8, AnswersFrame DEF Untouched

LEMMA FlushAnswers ==
    ASSUME IInv, PathInv, AnswersInv, faults = 0, Flush, pc' = "send"
    PROVE  AnswersInv'
<1>1. /\ pc = "flush" /\ UNCHANGED <<topic, offset, cursor, outputEvents, published>>
      /\ cache' = EmptyCache
  BY DEF Flush, input, queues
<1>2. Told' = Told /\ Answered' = Answered
  BY <1>1 DEF Told, ToTell, Awaited, Answered, Unsent
<1>3. \A u \in Transfers : transfers'[u].state \in {transfers[u].state, cache[u].state}
  BY FlushStates
<1>4. \A u \in Transfers : ~Present(cache'[u])
  BY <1>1 DEF EmptyCache, NoDoc, Present
<1> QED
  BY <1>1, <1>2, <1>3, <1>4, AnswersFrame DEF Present

\* The batches begin and end, and commands come.
LEMMA BatchAnswers ==
    ASSUME IInv, SmoothInv, AnswersInv, faults = 0, UNCHANGED faults,
           \/ \E n \in 1..BatchSize : StartBatch(n)
           \/ Acknowledge
           \/ \E name \in Inputs, t \in Transfers : Produce(name, t)
    PROVE  AnswersInv'
<1>1. /\ offset =< cursor /\ offset \in Nat /\ cursor \in Nat /\ Len(topic) \in Nat
      /\ DOMAIN topic = 1..Len(topic) /\ cursor =< Len(topic)
  BY LenProperties DEF SmoothInv, IInv, TypeOK
<1>2. pc \in {"idle", "acknowledge"} => Answered = Told
  BY DEF Answered, ToTell, Awaited, Unsent
<1>3. CASE \E n \in 1..BatchSize : StartBatch(n)
  <2>1. /\ pc = "idle" /\ cursor' = offset
        /\ UNCHANGED <<topic, offset, cache, transfers, published>>
    BY <1>3 DEF StartBatch, input, world
  <2>2. Told' = Told
    BY <2>1 DEF Told
  <2>3. Answered \subseteq Answered'
    BY <1>2, <2>1, <2>2 DEF Answered
  <2>4. \A i \in 1..cursor' : i \in 1..cursor
    BY <1>1, <2>1
  <2> QED
    BY <2>1, <2>2, <2>3, <2>4, AnswersFrame
<1>4. CASE Acknowledge
  <2>1. /\ pc = "acknowledge" /\ pc' = "idle" /\ offset' = cursor
        /\ UNCHANGED <<topic, cursor, cache, transfers, published>>
    BY <1>4 DEF Acknowledge, SmoothInv, memory, world
  <2>2. Told' = Told
    BY <2>1 DEF Told
  <2>3. Answered' = Told'
    BY <2>1 DEF Answered, ToTell, Awaited, Unsent
  <2> QED
    BY <1>2, <2>1, <2>2, <2>3 DEF AnswersInv
<1>5. CASE \E name \in Inputs, t \in Transfers : Produce(name, t)
  <2>1. PICK name \in Inputs, t \in Transfers : Produce(name, t)
    BY <1>5
  <2>2. UNCHANGED <<offset, pc, cursor, cache, transfers, published, outputEvents, abRequests,
                    abResponses>>
    BY <2>1 DEF Produce, control, memory, queues, world
  <2>3. Told' = Told /\ Answered' = Answered
    BY <2>2 DEF Told, ToTell, Awaited, Answered, Unsent
  <2>4. \A i \in 1..cursor : topic'[i] = topic[i]
    <3>1. TypeOK
      BY DEF IInv
    <3>2. \A i \in DOMAIN topic : topic'[i] = topic[i]
      BY <2>1, <3>1, ProducedElements
    <3> QED
      BY <1>1, <3>2
  <2>5. \A i \in 1..offset : topic'[i] = topic[i]
    BY <1>1, <2>4
  <2> QED
    BY <2>2, <2>3, <2>4, <2>5, AnswersFrame
<1> QED
  BY <1>3, <1>4, <1>5

LEMMA AnswersInit == Init => AnswersInv
<1> SUFFICES ASSUME Init PROVE AnswersInv
  OBVIOUS
<1>1. \A t \in Transfers : ~Present(cache[t]) /\ ~Present(transfers[t])
  BY DEF Init, EmptyCache, NoDoc, Present
<1>2. 1..cursor = {} /\ 1..offset = {}
  BY DEF Init
<1> QED
  BY <1>1, <1>2 DEF AnswersInv

LEMMA AnswersNext ==
    ASSUME IInv, IInv', PathInv, FinalsInv, SmoothInv, AnswersInv, [Next]_vars
    PROVE  AnswersInv'
<1> SUFFICES ASSUME faults' = 0 PROVE AnswersInv'
  BY DEF AnswersInv
<1>1. faults = 0 /\ UNCHANGED faults /\ SmoothStep
  BY SmoothSteps
<1>2. CASE \E t \in Transfers : ProcessCommand(t) /\ ~MalformedCommand(t)
  BY <1>1, <1>2, CommandAnswers
<1>3. CASE Continue
  BY <1>1, <1>3, ContinueAnswers
<1>4. CASE Flush /\ pc' = "send"
  BY <1>1, <1>4, FlushAnswers
<1>5. CASE \/ \E n \in 1..BatchSize : StartBatch(n)
           \/ Acknowledge
           \/ \E name \in Inputs, t \in Transfers : Produce(name, t)
  BY <1>1, <1>5, BatchAnswers
<1> QED
  BY <1>1, <1>2, <1>3, <1>4, <1>5, PhaseAnswers DEF SmoothStep

-----------------------------------------------------------------------------
(* No reservation is kept in silence.                                       *)

\* A command aborts a transfer only if it was not reserved, or with a cancellation,
\* or with a report.
AbortExplained(t) ==
    cache'[t].state = "ABORTED" =>
        \/ "ABORTED" \in {Found(t).state, cache[t].state}
        \/ Found(t).state = "RECEIVED"
        \/ ~Present(Found(t))
        \/ QueueCancellation(t)
        \/ Emit("TransferCancelReservationFailedEvt", t)

QueueGrows(t) == UNCHANGED cancelRequests \/ QueueCancellation(t)

LEMMA QueueElements ==
    ASSUME TypeOK, NEW t \in Transfers
    PROVE  /\ QueueGrows(t) => Queued \subseteq Queued'
           /\ QueueCancellation(t) => t \in Queued'
<1>1. ASSUME QueueCancellation(t)
      PROVE  Queued \subseteq Queued' /\ t \in Queued'
  <2>1. cancelRequests \in Seq(Transfers) /\ cancelRequests' = Append(cancelRequests, t)
    BY <1>1 DEF TypeOK, QueueCancellation
  <2>2. /\ Len(cancelRequests) \in Nat
        /\ DOMAIN cancelRequests = 1..Len(cancelRequests)
        /\ DOMAIN cancelRequests' = 1..(Len(cancelRequests) + 1)
        /\ \A i \in 1..Len(cancelRequests) : cancelRequests'[i] = cancelRequests[i]
        /\ cancelRequests'[Len(cancelRequests) + 1] = t
    BY <2>1
  <2>3. \A i \in DOMAIN cancelRequests : i \in DOMAIN cancelRequests'
    BY <2>2
  <2>4. Len(cancelRequests) + 1 \in DOMAIN cancelRequests'
    BY <2>2
  <2> QED
    BY <2>2, <2>3, <2>4 DEF Queued
<1> QED
  BY <1>1 DEF QueueGrows, Queued

LEMMA CancelExplained ==
    ASSUME NEW t \in Transfers, NEW d, NEW code, NEW name,
           CancelBecause(t, d, code, name) \/ CancelAndUpdate(t, code, name)
    PROVE  /\ QueueGrows(t)
           /\ QueueCancellation(t) \/ Emit("TransferCancelReservationFailedEvt", t)
BY DEF CancelBecause, CancelAndUpdate, CancelFails, CancelRefused, CancelUnsaved, CancelSaved,
       QueueGrows

LEMMA CommandExplained ==
    ASSUME TypeOK, NEW t \in Transfers, ProcessCommand(t), ~MalformedCommand(t)
    PROVE  AbortExplained(t) /\ QueueGrows(t)
<1>1. ASSUME NEW d, Keep(t, d)
      PROVE  cache'[t] = d
  BY <1>1 DEF Keep, TypeOK
<1>2. CASE PrepareStart(t)
  <2>1. CASE PrepareUnread(t)
    BY <2>1 DEF PrepareUnread, ReadFails, AbortExplained, QueueGrows
  <2>2. CASE PrepareDuplicate(t)
    <3>1. Keep(t, Found(t)) /\ UNCHANGED cancelRequests
      BY <2>2 DEF PrepareDuplicate, Answer, Ignore
    <3> QED
      BY <1>1, <3>1 DEF AbortExplained, QueueGrows
  <2>3. CASE PrepareRefusedByParticipants(t) \/ PrepareRefusedByAccounts(t) \/ PrepareAccepted(t)
    BY <2>3 DEF PrepareRefusedByParticipants, PrepareRefusedByAccounts, PrepareAccepted, Answer,
                AbortExplained, QueueGrows
  <2> QED
    BY <1>2, <2>1, <2>2, <2>3 DEF PrepareStart
<1>3. CASE FulfilStart(t)
  <2>1. CASE FulfilUnread(t)
    BY <2>1 DEF FulfilUnread, ReadFails, AbortExplained, QueueGrows
  <2>2. CASE FulfilNotFound(t)
    BY <2>2 DEF FulfilNotFound, Answer, AbortExplained, QueueGrows
  <2>3. CASE FulfilInvalid(t)
    BY <2>3, CancelExplained DEF FulfilInvalid, AbortExplained
  <2>4. CASE FulfilRefused(t)
    BY <2>4, CancelExplained DEF FulfilRefused, AbortExplained
  <2>5. CASE FulfilAccepted(t)
    <3>1. PICK d \in MergedOpaqueState(t) : Keep(t, d)
      BY <2>5 DEF FulfilAccepted
    <3>2. cache'[t].state = Found(t).state
      BY <1>1, <3>1, MergedSteps
    <3> QED
      BY <2>5, <3>2 DEF FulfilAccepted, AbortExplained, QueueGrows
  <2> QED
    BY <1>3, <2>1, <2>2, <2>3, <2>4, <2>5 DEF FulfilStart
<1>4. CASE Reject(t)
  <2>1. CASE RejectUnread(t)
    BY <2>1 DEF RejectUnread, ReadFails, AbortExplained, QueueGrows
  <2>2. CASE RejectNotFound(t)
    BY <2>2 DEF RejectNotFound, Answer, AbortExplained, QueueGrows
  <2>3. CASE RejectRefused(t)
    <3>1. cache'[t] = [Found(t) EXCEPT !.errorCode = "participants"] /\ UNCHANGED cancelRequests
      BY <1>1, <2>3 DEF RejectRefused, Answer
    <3>2. cache'[t].state = Found(t).state
      BY <3>1, FoundState DEF Doc
    <3> QED
      BY <3>1, <3>2 DEF AbortExplained, QueueGrows
  <2>4. CASE RejectAccepted(t)
    BY <2>4, CancelExplained DEF RejectAccepted, AbortExplained
  <2> QED
    BY <1>4, <2>1, <2>2, <2>3, <2>4 DEF Reject
<1>5. CASE Timeout(t)
  <2>1. CASE TimeoutUnread(t)
    BY <2>1 DEF TimeoutUnread, ReadFails, AbortExplained, QueueGrows
  <2>2. CASE TimeoutIgnored(t)
    BY <1>1, <2>2 DEF TimeoutIgnored, Ignore, AbortExplained, QueueGrows
  <2>3. CASE TimeoutReceived(t)
    BY <2>3 DEF TimeoutReceived, ReceivedTimesOut, AbortExplained, QueueGrows
  <2>4. CASE TimeoutReserved(t)
    BY <2>4, CancelExplained DEF TimeoutReserved, AbortExplained
  <2> QED
    BY <1>5, <2>1, <2>2, <2>3, <2>4 DEF Timeout
<1>6. CASE Query(t) \/ UnknownCommand(t)
  <2>1. (UNCHANGED cache \/ Keep(t, cache[t])) /\ UNCHANGED cancelRequests
    BY <1>6 DEF Query, QueryUnread, QueryRefused, QueryAnswered, UnknownCommand, Answer
  <2> QED
    BY <1>1, <2>1 DEF AbortExplained, QueueGrows
<1> QED
  BY <1>2, <1>3, <1>4, <1>5, <1>6 DEF ProcessCommand

\* What was released stays released, what was reported stays reported.
LEMMA StayReleased ==
    ASSUME posted \subseteq posted', cancelled \subseteq cancelled', published \subseteq published',
           ToCancel \subseteq ToCancel' \cup cancelled',
           \/ UNCHANGED outputEvents
           \/ \E t \in Transfers, name \in EventNames : Emit(name, t)
           \/ ~Unsent
           \/ published' = published \cup outputEvents,
           \/ Unsent => Unsent'
           \/ published' = published \cup outputEvents
    PROVE  Released \subseteq Released'
<1>1. Reported \subseteq Reported'
  BY DEF Reported, Published, InOutput, Emit
<1> QED
  BY <1>1 DEF Released

LEMMA CommandReleases ==
    ASSUME IInv, PathInv, ReleasesInv, faults = 0, NEW t \in Transfers,
           ProcessCommand(t), ~MalformedCommand(t)
    PROVE  ReleasesInv'
<1>0. TypeOK /\ CacheFollowsStore
  BY DEF IInv, PathInv
<1>1. /\ pc = "commands" /\ pc' = "commands" /\ UNCHANGED <<ledger, published>>
      /\ DocSteps
  <2>1. PICK name \in CommandNames : Handling(name, t)
    BY <1>0, HandlerSteps
  <2> QED
    BY <1>0, <2>1, HandlerSteps DEF Handling
<1>2. AbortExplained(t) /\ QueueGrows(t) /\ OutputGrows /\ Untouched(t)
  BY <1>0, CommandExplained, CommandSpeaks, CommandUntouched
<1>3. ToCancel \subseteq ToCancel'
  BY <1>0, <1>1, <1>2, QueueElements DEF ToCancel
<1>4. Released \subseteq Released'
  BY <1>1, <1>2, <1>3, StayReleased DEF OutputGrows, Unsent, ledger
<1>5. QueueCancellation(t) \/ Emit("TransferCancelReservationFailedEvt", t) => t \in Released'
  <2>1. QueueCancellation(t) => t \in ToCancel'
    BY <1>0, <1>1, QueueElements DEF ToCancel
  <2>2. Emit("TransferCancelReservationFailedEvt", t) => t \in Reported'
    BY <1>1 DEF Reported, Emit, InOutput, Unsent
  <2> QED
    BY <2>1, <2>2 DEF Released
<1>6. \A u \in reserved :
         /\ u \in Transfers
         /\ transfers[u].state # "RECEIVED"
         /\ transfers[u].state = "ABORTED" => u \in Released
         /\ cache[u].state # "RECEIVED"
         /\ cache[u].state = "ABORTED" => u \in Released
         /\ Present(transfers[u])
  BY <1>0, <1>1 DEF ReleasesInv, ReservationHeld, Granted, TypeOK
<1>7. ASSUME NEW u \in reserved
      PROVE  ReservationHeld(u)'
  <2>1. /\ transfers'[u].state \in {transfers[u].state, "ABORTED"}
        /\ transfers'[u].state # transfers[u].state => cache'[u].state = "ABORTED"
        /\ cache'[u].state \in {cache[u].state, transfers[u].state, "ABORTED"}
    BY <1>1, <1>6 DEF DocSteps
  <2>2. cache'[u].state = "ABORTED" => u \in Released'
    <3>1. CASE u # t
      BY <1>2, <1>4, <1>6, <3>1 DEF Untouched
    <3>2. CASE u = t
      <4>1. Present(Found(t)) /\ Found(t).state \in {cache[t].state, transfers[t].state}
        BY <1>0, <1>6, <3>2, FoundPresent, FoundTypes
      <4> QED
        BY <1>2, <1>4, <1>5, <1>6, <3>2, <4>1 DEF AbortExplained
    <3> QED
      BY <3>1, <3>2
  <2> QED
    BY <1>4, <1>6, <2>1, <2>2 DEF ReservationHeld, Present
<1> QED
  BY <1>1, <1>7 DEF ReleasesInv, ledger

\* A step that leaves the transfers and what is reserved for them alone.
LEMMA ReleasesFrame ==
    ASSUME ReleasesInv, faults = 0, UNCHANGED <<cache, transfers, reserved>>,
           Released \subseteq Released', Granted \subseteq Granted',
           pc \in {"responses", "cancellations", "flush"} =>
               pc' \in {"responses", "cancellations", "flush"},
           pc' = "responses" => pc = "responses" /\ UNCHANGED abResponses
    PROVE  ReleasesInv'
<1>1. \A t \in reserved : ReservationHeld(t)'
  BY DEF ReleasesInv, ReservationHeld
<1> QED
  BY <1>1 DEF ReleasesInv

LEMMA PhaseReleases ==
    ASSUME IInv, ReleasesInv, faults = 0,
           \/ \E n \in 1..BatchSize : StartBatch(n)
           \/ EndOfCommands
           \/ EndOfResponses
           \/ Cancellations /\ cancelled' = cancelled \cup Queued
           \/ Send /\ pc' = "acknowledge" /\ published' = published \cup outputEvents
           \/ Acknowledge
           \/ \E name \in Inputs, t \in Transfers : Produce(name, t)
           \/ \E t \in Transfers : Expire(t)
           \/ UNCHANGED vars
    PROVE  ReleasesInv'
<1>0. DOMAIN <<>> = {}
  OBVIOUS
<1>1. CASE \E n \in 1..BatchSize : StartBatch(n)
  <2>1. /\ pc = "idle" /\ pc' = "commands"
        /\ UNCHANGED <<cache, transfers, reserved, posted, cancelled, published>>
    BY <1>1 DEF StartBatch, world, ledger
  <2>2. Released \subseteq Released' /\ Granted \subseteq Granted'
    BY <2>1, StayReleased DEF Unsent, ToCancel, Granted
  <2> QED
    BY <2>1, <2>2, ReleasesFrame
<1>2. CASE EndOfCommands \/ EndOfResponses
  <2>1. /\ UNCHANGED <<cache, transfers, reserved, posted, cancelled, published, outputEvents,
                       cancelRequests, abResponses>>
        /\ \/ pc = "commands" /\ pc' = "accounts"
           \/ /\ pc = "commands" \/ (pc = "responses" /\ abResponses = <<>>)
              /\ pc' = "cancellations" \/ (pc' = "flush" /\ cancelRequests = <<>>)
    BY <1>2 DEF EndOfCommands, EndOfResponses, AfterResponses, memory, queues, world, ledger
  <2>2. ToCancel \subseteq ToCancel'
    BY <1>0, <2>1 DEF ToCancel, Queued
  <2>3. Granted \subseteq Granted'
    BY <1>0, <2>1 DEF Granted
  <2>4. Released \subseteq Released'
    BY <2>1, <2>2, StayReleased DEF Unsent
  <2> QED
    BY <2>1, <2>3, <2>4, ReleasesFrame
<1>3. CASE Cancellations /\ cancelled' = cancelled \cup Queued
  <2>1. /\ pc = "cancellations" /\ pc' = "flush" /\ cancelled' = cancelled \cup Queued
        /\ UNCHANGED <<cache, transfers, reserved, posted, published, outputEvents>>
    BY <1>3 DEF Cancellations, memory, queues
  <2>2. ToCancel \subseteq cancelled' /\ Granted \subseteq Granted'
    BY <2>1 DEF ToCancel, Granted
  <2>3. Released \subseteq Released'
    BY <2>1, <2>2, StayReleased DEF Unsent
  <2> QED
    BY <2>1, <2>2, <2>3, ReleasesFrame
<1>4. CASE Send /\ pc' = "acknowledge" /\ published' = published \cup outputEvents
  <2>1. /\ pc = "send" /\ pc' = "acknowledge" /\ published' = published \cup outputEvents
        /\ UNCHANGED <<cache, transfers, reserved, posted, cancelled>>
    BY <1>4 DEF Send, memory, ledger
  <2>2. Released \subseteq Released' /\ Granted \subseteq Granted'
    BY <2>1, StayReleased DEF ToCancel, Granted
  <2> QED
    BY <2>1, <2>2, ReleasesFrame
<1>5. CASE \/ Acknowledge
           \/ \E name \in Inputs, t \in Transfers : Produce(name, t)
           \/ \E t \in Transfers : Expire(t)
           \/ UNCHANGED vars
  <2>1. /\ UNCHANGED <<cache, transfers, reserved, posted, cancelled, published, outputEvents,
                       cancelRequests, abResponses>>
        /\ pc' = pc \/ (pc = "acknowledge" /\ pc' = "idle")
    BY <1>5 DEF Acknowledge, Produce, Expire, vars, memory, queues, world, ledger, control
  <2>2. Released \subseteq Released' /\ Granted \subseteq Granted'
    BY <2>1, StayReleased DEF Unsent, ToCancel, Queued, Granted
  <2> QED
    BY <2>1, <2>2, ReleasesFrame
<1> QED
  BY <1>1, <1>2, <1>3, <1>4, <1>5

\* A&B accepts reservations for transfers that are not stored, each in one request.
LEMMA AccountsReleases ==
    ASSUME IInv, PathInv, ReleasesInv, faults = 0,
           NEW accepted \in SUBSET (DOMAIN abRequests), AccountsAnswer(accepted), pc' = "responses"
    PROVE  ReleasesInv'
<1>1. /\ pc = "accounts" /\ pc' = "responses"
      /\ UNCHANGED <<cache, transfers, cancelled, published, outputEvents, cancelRequests,
                     abRequests>>
      /\ posted \subseteq posted'
      /\ abResponses' = [i \in DOMAIN abRequests |-> ResponseTo(i, accepted)]
      /\ reserved' = reserved \cup Ids([i \in accepted |-> abRequests[i]], "reserve")
  BY DEF AccountsAnswer
<1>2. /\ DOMAIN abResponses' = DOMAIN abRequests
      /\ \A i \in DOMAIN abRequests :
            /\ abResponses'[i].type = abRequests[i].type
            /\ abResponses'[i].id = abRequests[i].id
            /\ i \in accepted => abResponses'[i].success = TRUE
  BY <1>1 DEF ResponseTo
<1>3. \A t \in reserved' \ reserved :
         \E i \in accepted : abRequests[i].type = "reserve" /\ abRequests[i].id = t
  BY <1>1 DEF Ids
<1>4. \A i, j \in DOMAIN abRequests :
         abRequests[i].type = "reserve" /\ abRequests[j].type = "reserve" =>
            /\ ~Present(transfers[abRequests[i].id])
            /\ Present(cache[abRequests[i].id])
            /\ abRequests[i].id = abRequests[j].id => i = j
  BY <1>1 DEF PathInv, ReservesOnceUntilStored, Reserving, ContinueFindsTransfer
<1>5. \A t \in reserved :
         /\ transfers[t].state # "RECEIVED" /\ cache[t].state # "RECEIVED"
         /\ "ABORTED" \in {transfers[t].state, cache[t].state} => t \in Released
         /\ Present(transfers[t])
  BY <1>1 DEF ReleasesInv, ReservationHeld, Granted
<1>6. Released \subseteq Released'
  BY <1>1, StayReleased DEF Unsent, ToCancel, Queued
<1>7. ASSUME NEW t \in reserved'
      PROVE  ReservationHeld(t)'
  <2>1. CASE t \in reserved
    BY <1>1, <1>5, <1>6, <2>1 DEF ReservationHeld
  <2>2. CASE t \notin reserved
    <3>1. PICK i \in accepted : abRequests[i].type = "reserve" /\ abRequests[i].id = t
      BY <1>3, <2>2
    <3>2. t \in Transfers
      BY <3>1, RequestElements DEF IInv, Request
    <3>3. t \in Granted'
      BY <1>1, <1>2, <3>1, <3>2 DEF Granted
    <3>4. ~Present(transfers[t]) /\ Present(cache[t])
      BY <1>4, <3>1
    <3> QED
      BY <1>1, <3>3, <3>4 DEF ReservationHeld, Present
  <2> QED
    BY <2>1, <2>2
<1>8. ASSUME NEW i \in DOMAIN abResponses', abResponses'[i].type = "reserve",
             abResponses'[i].id \in reserved'
      PROVE  abResponses'[i].success = TRUE
  <2>1. abRequests[i].type = "reserve" /\ abRequests[i].id \in reserved' \ reserved
    BY <1>2, <1>4, <1>5, <1>8
  <2>2. PICK j \in accepted : abRequests[j].type = "reserve" /\ abRequests[j].id = abRequests[i].id
    BY <1>3, <2>1
  <2>3. i = j
    BY <1>2, <1>4, <1>8, <2>1, <2>2
  <2> QED
    BY <1>2, <1>8, <2>3
<1> QED
  BY <1>7, <1>8 DEF ReleasesInv

\* A response is continued: the transfer of an accepted reservation becomes RESERVED, a
\* refused reservation is not one of those A&B holds, and a refused commit ends with a
\* cancellation or a report.
LEMMA ContinueReleases ==
    ASSUME IInv, IInv', PathInv, FinalsInv, ReleasesInv, faults = 0, Continue
    PROVE  ReleasesInv'
<1> DEFINE subject == Head(abResponses).id
<1>0. TypeOK
  BY DEF IInv
<1>1. /\ pc = "responses" /\ pc' = "responses" /\ abResponses # <<>>
      /\ abResponses' = Tail(abResponses)
      /\ UNCHANGED <<reserved, posted, cancelled, published>>
  BY DEF Continue, PrepareContinue, PrepareContinueFailed, FulfilContinue,
         FulfilContinueFailed, Continuing, control, ledger
<1>2. subject \in Transfers /\ abResponses[1].id = subject /\ 1 \in DOMAIN abResponses
  <2>1. subject \in Transfers
    BY ContinuingBacked DEF Continue, PrepareContinue, PrepareContinueFailed, FulfilContinue,
                            FulfilContinueFailed
  <2> QED
    BY <1>0, <1>1, <2>1, ResponseElements
<1>3. Untouched(subject) /\ OutputGrows /\ QueueGrows(subject)
  <2>1. CASE FulfilContinueFailed
    <3>1. "TransferCancelReservationAndCommitFailedEvt" \in EventNames
      BY DEF EventNames
    <3> QED
      BY <1>0, <1>2, <2>1, <3>1, CancelUntouched, CancelExplained, CancelEmits
      DEF FulfilContinueFailed, TransferOf, OutputGrows
  <2>2. CASE PrepareContinue \/ PrepareContinueFailed \/ FulfilContinue
    <3>1. UNCHANGED <<transfers, cancelRequests>> /\ \E d : Keep(subject, d)
      BY <2>2 DEF PrepareContinue, PrepareContinueFailed, FulfilContinue, TransferOf
    <3>2. \E name \in EventNames : Emit(name, subject)
      BY <2>2 DEF PrepareContinue, PrepareContinueFailed, FulfilContinue, TransferOf, EventNames
    <3> QED
      BY <1>0, <1>2, <3>1, <3>2 DEF Keep, TypeOK, Untouched, OutputGrows, QueueGrows
  <2> QED
    BY <2>1, <2>2 DEF Continue
<1>4. /\ \A u \in Transfers : transfers'[u].state \in {transfers[u].state, "ABORTED"}
      /\ \A u \in Transfers : Present(transfers[u]) => Present(transfers'[u])
  BY ContinuePath DEF Present
<1>5. \A i \in DOMAIN abResponses :
         \/ i = 1
         \/ i - 1 \in DOMAIN Tail(abResponses) /\ Tail(abResponses)[i - 1] = abResponses[i]
  BY <1>0, <1>1, TailElements
<1>6. \A i \in DOMAIN abResponses' :
         i + 1 \in DOMAIN abResponses /\ abResponses'[i] = abResponses[i + 1]
  BY <1>0, <1>1, ResponseElements
<1>7. Granted \subseteq Granted' \cup {subject}
  BY <1>1, <1>2, <1>5 DEF Granted
<1>8. Released \subseteq Released'
  <2>1. ToCancel \subseteq ToCancel'
    BY <1>0, <1>1, <1>2, <1>3, QueueElements DEF ToCancel
  <2> QED
    BY <1>1, <1>3, <2>1, StayReleased DEF OutputGrows, Unsent
<1>9. /\ \A u \in reserved : u \in Transfers /\ ReservationHeld(u)
      /\ \A i \in DOMAIN abResponses :
            abResponses[i].type = "reserve" /\ abResponses[i].id \in reserved =>
                abResponses[i].success = TRUE
  BY <1>0, <1>1 DEF ReleasesInv, TypeOK
<1>10. \A i \in DOMAIN abResponses' :
          abResponses'[i].type = "reserve" /\ abResponses'[i].id \in reserved' =>
              abResponses'[i].success = TRUE
  BY <1>1, <1>6, <1>9
<1>11. ASSUME NEW u \in reserved, u # subject
       PROVE  ReservationHeld(u)'
  <2>1. cache'[u] = cache[u] /\ transfers'[u] = transfers[u]
    BY <1>3, <1>9, <1>11 DEF Untouched
  <2>2. u \in Granted => u \in Granted'
    BY <1>7, <1>11
  <2> QED
    BY <1>1, <1>8, <1>9, <2>1, <2>2 DEF ReservationHeld
<1>12. ASSUME NEW u \in reserved, u = subject
       PROVE  ReservationHeld(u)'
  <2>1. Found(u) \in Doc
    BY <1>0, <1>2, <1>12, FoundState
  <2>2. /\ transfers[u].state # "RECEIVED"
        /\ transfers[u].state = "ABORTED" => u \in Released
    BY <1>9, <1>12 DEF ReservationHeld
  <2>3. CASE PrepareContinue \/ FulfilContinue
    <3>1. \E s \in {"RESERVED", "COMMITTED"} : Keep(u, InState(Found(u), s))
      BY <1>12, <2>3 DEF PrepareContinue, FulfilContinue, TransferOf
    <3>2. \A s \in {"RESERVED", "COMMITTED"} : InState(Found(u), s).state = s
      BY <2>1, DocStates DEF States, ErrorCodes
    <3>3. cache'[u].state \in {"RESERVED", "COMMITTED"}
      BY <1>0, <1>2, <1>12, <3>1, <3>2 DEF Keep, TypeOK
    <3>4. UNCHANGED transfers
      BY <2>3 DEF PrepareContinue, FulfilContinue
    <3> QED
      BY <1>1, <1>8, <2>2, <3>3, <3>4 DEF ReservationHeld, Present
  <2>4. CASE PrepareContinueFailed
    <3>1. abResponses[1].type = "reserve" /\ abResponses[1].success = FALSE
      BY <1>0, <1>1, <2>4, ResponseElements DEF PrepareContinueFailed, Continuing, Succeeded
    <3> QED
      BY <1>2, <1>9, <1>12, <3>1
  <2>5. CASE FulfilContinueFailed
    <3> DEFINE d == Aborted(Found(u), "commit")
    <3>1. d \in Doc /\ d.state = "ABORTED"
      BY <2>1, DocTypes, DocStates DEF States, ErrorCodes
    <3>2. CancelBecause(u, d, "commit", "TransferCancelReservationAndCommitFailedEvt")
      BY <1>12, <2>5 DEF FulfilContinueFailed, TransferOf
    <3>3. Aborted(d, "commit").state = "ABORTED" /\ Saved(Aborted(d, "commit")).state = "ABORTED"
      BY <3>1 DEF Aborted, InState, Saved, Doc
    <3> HIDE DEF d
    <3>4. cache'[u].state = "ABORTED"
      BY <1>0, <1>2, <1>12, <3>1, <3>2, <3>3
      DEF CancelBecause, CancelFails, CancelRefused, CancelUnsaved, CancelSaved, Keep, TypeOK
    <3>5. QueueCancellation(u) \/ Emit("TransferCancelReservationFailedEvt", u)
      BY <1>2, <1>12, <3>2, CancelExplained
    <3>6. u \in Released'
      <4>1. QueueCancellation(u) => u \in ToCancel'
        BY <1>0, <1>1, <1>2, <1>12, QueueElements DEF ToCancel
      <4>2. Emit("TransferCancelReservationFailedEvt", u) => u \in Reported'
        BY <1>1, <1>2, <1>12 DEF Reported, Emit, InOutput, Unsent
      <4> QED
        BY <3>5, <4>1, <4>2 DEF Released
    <3>7. transfers'[u].state \in {transfers[u].state, "ABORTED"}
      BY <1>2, <1>4, <1>12
    <3> QED
      BY <1>1, <2>2, <3>4, <3>6, <3>7 DEF ReservationHeld, Present
  <2> QED
    BY <2>3, <2>4, <2>5 DEF Continue
<1> HIDE DEF subject
<1>13. \A u \in reserved' : ReservationHeld(u)'
  BY <1>1, <1>11, <1>12
<1> QED
  BY <1>10, <1>13 DEF ReleasesInv

LEMMA FlushReleases ==
    ASSUME IInv, PathInv, ReleasesInv, faults = 0, Flush, pc' = "send"
    PROVE  ReleasesInv'
<1>1. /\ pc = "flush" /\ UNCHANGED <<reserved, posted, cancelled, published, outputEvents>>
  BY DEF Flush, queues, ledger
<1>2. /\ \A t \in Transfers : transfers'[t].state \in {transfers[t].state, cache[t].state}
      /\ \A t \in Transfers : Present(cache[t]) => transfers'[t].state = cache[t].state
      /\ cache' = EmptyCache
  BY FlushStates
<1>3. Released \subseteq Released'
  BY <1>1, StayReleased DEF Unsent, ToCancel
<1>4. \A t \in reserved : t \in Transfers /\ t \notin Granted /\ ReservationHeld(t)
  BY <1>1 DEF IInv, TypeOK, ReleasesInv, Granted
<1>5. \A t \in Transfers : cache'[t].state = "ABSENT"
  BY <1>2 DEF EmptyCache, NoDoc
<1>6. ASSUME NEW t \in reserved
      PROVE  ReservationHeld(t)'
  <2>1. Present(transfers'[t])
    <3>1. Follows(transfers[t].state, transfers'[t].state)
      BY <1>4, FlushStates
    <3> QED
      BY <1>2, <1>4, <3>1 DEF ReservationHeld, Present, Follows, Lifecycle!LifecycleSteps
  <2>2. transfers'[t].state # "RECEIVED" /\ (transfers'[t].state = "ABORTED" => t \in Released')
    BY <1>2, <1>3, <1>4 DEF ReservationHeld
  <2> QED
    BY <1>4, <1>5, <2>1, <2>2 DEF ReservationHeld
<1> QED
  BY <1>1, <1>6 DEF ReleasesInv

LEMMA ReleasesInit == Init => ReleasesInv
BY DEF Init, ReleasesInv

LEMMA ReleasesNext ==
    ASSUME IInv, IInv', PathInv, FinalsInv, SmoothInv, ReleasesInv, [Next]_vars
    PROVE  ReleasesInv'
<1> SUFFICES ASSUME faults' = 0 PROVE ReleasesInv'
  BY DEF ReleasesInv
<1>1. faults = 0 /\ SmoothStep
  BY SmoothSteps
<1>2. CASE \E t \in Transfers : ProcessCommand(t) /\ ~MalformedCommand(t)
  BY <1>1, <1>2, CommandReleases
<1>3. CASE \E accepted \in SUBSET (DOMAIN abRequests) : AccountsAnswer(accepted) /\ pc' = "responses"
  BY <1>1, <1>3, AccountsReleases
<1>4. CASE Continue
  BY <1>1, <1>4, ContinueReleases
<1>5. CASE Flush /\ pc' = "send"
  BY <1>1, <1>5, FlushReleases
<1> QED
  BY <1>1, <1>2, <1>3, <1>4, <1>5, PhaseReleases DEF SmoothStep

-----------------------------------------------------------------------------
(* The theorems.                                                            *)

LEMMA FinalsInit == Init => FinalsInv
BY DEF Init, FinalsInv, CacheOfBatch, ChangesByPayee, EmptyCache, NoDoc, Present

LEMMA OwedInvariant ==
    NothingRejects /\ Spec => [](IInv /\ PathInv /\ FinalsInv /\ SmoothInv /\ AnswersInv /\ ReleasesInv)
<1> DEFINE Inv == IInv /\ PathInv /\ FinalsInv /\ SmoothInv /\ AnswersInv /\ ReleasesInv
<1>1. NothingRejects /\ Init => Inv
  BY InitInv, InitPath, FinalsInit, SmoothInit, AnswersInit, ReleasesInit
<1>2. Inv /\ [Next]_vars => Inv'
  BY NextInv, NextPath, NextFinals, SmoothNext, AnswersNext, ReleasesNext
<1> QED
  BY <1>1, <1>2, PTL DEF Spec

\* Without faults every acknowledged prepare has been answered: one that is ignored is
\* for a transfer some event was published about before, or is being published about now.
THEOREM PreparesAnswered == NothingRejects /\ Spec => []AcknowledgedPrepareAnswered
<1>1. AnswersInv => AcknowledgedPrepareAnswered
  BY DEF AnswersInv, Told, AcknowledgedPrepareAnswered
<1> QED
  BY <1>1, OwedInvariant, PTL

\* Without faults no reservation stays behind an aborted transfer in silence, however
\* prepares, fulfils, rejects and timeouts meet in one batch.
THEOREM NoLeakInSilence == NothingRejects /\ Spec => []NoSilentLeak
<1>1. IInv /\ ReleasesInv => NoSilentLeak
  <2> SUFFICES ASSUME IInv, ReleasesInv, pc = "idle", faults = 0,
                      NEW t \in reserved, transfers[t].state = "ABORTED"
               PROVE  \/ t \in posted
                      \/ t \in cancelled
                      \/ Published("TransferCancelReservationFailedEvt", t)
    BY DEF NoSilentLeak
  <2>1. t \in Released
    BY DEF ReleasesInv, ReservationHeld
  <2> QED
    BY <2>1 DEF Released, ToCancel, Reported, Unsent
<1> QED
  BY <1>1, OwedInvariant, PTL
=============================================================================
