---------------------- MODULE BulkTransfersAnnouncedProofs ----------------------
(***************************************************************************)
(* Theorems about what BulkTransfers counts and announces, for every set   *)
(* of bulk transfers and any number of commands: with faults and crashes,  *)
(* when the payee fulfils and rejects only what was announced as prepared; *)
(* for the prepared ones also with any payee, when nothing fails.          *)
(*                                                                         *)
(* Four invariants: what the payee sends is about bulk transfers it was    *)
(* told of (ToldInv); when nothing fails, the process goes through its     *)
(* batches and adds each bulk transfer once (UnfailingInv); what is        *)
(* counted as prepared was answered, and is stored before it is announced  *)
(* (PreparedInv); what is counted as fulfilled is final, and is stored     *)
(* before it is announced (FulfilledInv).                                  *)
(***************************************************************************)
EXTENDS BulkTransfersProofs

\* The payee learns of a bulk transfer by its announcement.
PayeeWaitsToBeTold ==
    {"CommitBulkTransferFulfilCmd", "RejectBulkTransferCmd"} \subseteq PayeeWaits

-----------------------------------------------------------------------------
(* What the payee was told.                                                 *)

\* The bulk transfers announced as prepared.
Told == {b \in Bulks : BulkPublished("BulkTransferPreparedEvt", b)}

\* The batch lies in the topic.
Positions ==
    /\ topic \in Seq([name : CommandNames \cup BulkCommandNames, id : Transfers \cup Bulks])
    /\ offset \in 0..Len(topic)
    /\ batchEnd \in 0..Len(topic)
    /\ cursor \in 0..batchEnd

\* What a payee who waits sends, and what comes of it, is about announced bulk transfers.
AnswersTold(c, told) == c.name \in PayeeWaits => c.id \in told

FulfilsWait == "CommitBulkTransferFulfilCmd" \in PayeeWaits

CommitsTold(r, told) ==
    FulfilsWait /\ r.type = "commit" => \E b \in told : r.id \in MembersOf(b)

PayeeWasTold ==
    /\ \A i \in DOMAIN topic : AnswersTold(topic[i], Told)
    /\ \A i \in DOMAIN abRequests : CommitsTold(abRequests[i], Told)
    /\ \A i \in DOMAIN abResponses : CommitsTold(abResponses[i], Told)

\* The loop is over transfers of the bulk transfer of its command, that of a Reject over
\* stored ones.
LoopOverMembers ==
    pc = "members" =>
        /\ cursor \in DOMAIN topic
        /\ topic[cursor].id = current
        /\ topic[cursor].name # "PrepareBulkTransferCmd" => Exists(bulkCache[current])
        /\ \A i \in DOMAIN rest :
              /\ rest[i] \in MembersOf(current)
              /\ topic[cursor].name = "RejectBulkTransferCmd" => Present(transfers[rest[i]])

ToldInv ==
    /\ Positions
    /\ PayeeWasTold
    /\ LoopOverMembers
    /\ FulfilsWait /\ pc = "completing" => current \in Told

-----------------------------------------------------------------------------
(* How ToldInv is preserved.                                                *)

\* Told stays told.
LEMMA StayTold ==
    ASSUME published \subseteq published'
    PROVE  /\ Told \subseteq Told'
           /\ \A c : AnswersTold(c, Told) => AnswersTold(c, Told')
           /\ \A r : CommitsTold(r, Told) => CommitsTold(r, Told')
BY DEF Told, BulkPublished, AnswersTold, CommitsTold

\* A step that adds neither commands nor requests.
LEMMA ToldFrame ==
    ASSUME ToldInv, published \subseteq published', UNCHANGED topic, Positions',
           abRequests' = abRequests \/ abRequests' = <<>>,
           abResponses' = abResponses \/ abResponses' = <<>>,
           LoopOverMembers', pc' # "completing" \/ UNCHANGED <<pc, current>>
    PROVE  ToldInv'
<1>1. PayeeWasTold'
  BY StayTold DEF ToldInv, PayeeWasTold
<1>2. FulfilsWait /\ pc' = "completing" => (current \in Told)'
  BY StayTold DEF ToldInv
<1> QED
  BY <1>1, <1>2 DEF ToldInv, FulfilsWait

\* Handlers take the next command.
LEMMA NextPosition ==
    ASSUME Positions, pc = "commands", InBatch, cursor' = cursor + 1,
           UNCHANGED <<topic, offset, batchEnd>>
    PROVE  Positions' /\ cursor' \in DOMAIN topic
<1>1. DOMAIN topic = 1..Len(topic) /\ Len(topic) \in Nat
  BY LenProperties DEF Positions
<1> QED
  BY <1>1 DEF Positions, InBatch

LEMMA SharedTold ==
    ASSUME BulkInv, ToldInv, Shared
    PROVE  ToldInv'
<1>0. UNCHANGED <<bulkCache, rest, current>>
  BY DEF Shared, bulkVars, bulkState
<1>1. Positions /\ Len(topic) \in Nat
  BY LenProperties DEF ToldInv, Positions
<1>2. CASE \E n \in 1..BatchSize : StartBatch(n)
  <2>1. PICK n \in 1..BatchSize : StartBatch(n)
    BY <1>2
  <2>2. BatchSize \in Nat
    BY ConstantsAssumption
  <2>3. Positions'
    BY <1>1, <2>1, <2>2 DEF Positions, StartBatch, input
  <2> QED
    BY <2>1, <2>3, ToldFrame DEF StartBatch, LoopOverMembers, input, world
<1>3. CASE \E t \in Transfers : Query(t)
  <2>1. PICK t \in Transfers : Query(t)
    BY <1>3
  <2>2. Handling("QueryTransferCmd", t) /\ UNCHANGED abRequests
    BY <2>1 DEF Query, QueryUnread, QueryRefused, QueryAnswered, Answer
  <2>3. Positions'
    BY <1>1, <2>2, NextPosition DEF Handling, input
  <2> QED
    BY <2>2, <2>3, ToldFrame DEF Handling, LoopOverMembers, input
<1>4. CASE \E accepted \in SUBSET (DOMAIN abRequests) : AccountsAnswer(accepted)
  <2>1. PICK accepted \in SUBSET (DOMAIN abRequests) : AccountsAnswer(accepted)
    BY <1>4
  <2>2. UNCHANGED <<topic, offset, batchEnd, cursor, published, abRequests>> /\ pc' \in {"responses", "flush"}
    BY <2>1 DEF AccountsAnswer, input
  <2>3. \/ UNCHANGED abResponses
        \/ abResponses' = [i \in DOMAIN abRequests |-> ResponseTo(i, accepted)]
    BY <2>1 DEF AccountsAnswer
  <2>4. Positions' /\ LoopOverMembers'
    BY <1>1, <2>2 DEF Positions, LoopOverMembers
  <2>5. CASE UNCHANGED abResponses
    BY <2>2, <2>4, <2>5, ToldFrame
  <2>6. CASE abResponses' = [i \in DOMAIN abRequests |-> ResponseTo(i, accepted)]
    <3>1. \A i \in DOMAIN abResponses' : CommitsTold(abResponses'[i], Told)
      BY <2>6 DEF ToldInv, PayeeWasTold, CommitsTold, ResponseTo
    <3>2. PayeeWasTold'
      BY <2>2, <3>1, StayTold DEF ToldInv, PayeeWasTold
    <3> QED
      BY <2>2, <2>4, <3>2 DEF ToldInv, FulfilsWait
  <2> QED
    BY <2>3, <2>5, <2>6
<1>5. CASE EndOfCommands \/ EndOfResponses \/ Cancellations \/ Flush \/ Send \/ Acknowledge
  <2>1. /\ published \subseteq published'
        /\ UNCHANGED <<topic, batchEnd, cursor, abRequests, abResponses>>
        /\ offset' \in {offset, batchEnd}
        /\ pc' \notin {"members", "completing"}
    BY <1>5 DEF EndOfCommands, EndOfResponses, AfterResponses, Cancellations, Flush, Send,
                Acknowledge, memory, queues, input, world
  <2>2. Positions' /\ LoopOverMembers'
    BY <1>1, <2>1 DEF Positions, LoopOverMembers
  <2> QED
    BY <2>1, <2>2, ToldFrame
<1> QED
  BY <1>2, <1>3, <1>4, <1>5 DEF Shared

\* A bulk command ends, or its loop begins.
LEMMA BulkCommandTold ==
    ASSUME BulkInv, ToldInv, NEW b \in Bulks, BulkCommand(b)
    PROVE  ToldInv'
<1>1. PICK name \in BulkCommandNames :
        /\ BulkHandling(name, b)
        /\ \/ pc' = "commands"
           \/ /\ pc' = "members"
              /\ current' = b
              /\ \A i \in DOMAIN rest' :
                    /\ rest'[i] \in MembersOf(b)
                    /\ name = "RejectBulkTransferCmd" => Present(transfers[rest'[i]])
              /\ name # "PrepareBulkTransferCmd" => Exists(bulkCache'[b])
  <2>1. CASE BulkPrepareStart(b)
    BY <2>1 DEF BulkPrepareStart, Loop, MembersOf, BulkCommandNames
  <2>2. CASE BulkFulfilStart(b)
    <3>1. bulkCache' = [bulkCache EXCEPT ![b] = [FoundBulk(b) EXCEPT !.status = "ACCEPTED"]]
      BY <2>2 DEF BulkFulfilStart, KeepBulk
    <3>2. Exists(bulkCache'[b])
      BY <3>1, BulkDocuments DEF Exists, BulkInv, BulkTypeOK, BulkDoc
    <3> QED
      BY <2>2, <3>2 DEF BulkFulfilStart, Loop, MembersOf, BulkCommandNames
  <2>3. CASE BulkRejectStart(b)
    <3>1. PICK ids \in Listings(b) : Loop(b, ids)
      BY <2>3 DEF BulkRejectStart
    <3>2. \A i \in DOMAIN ids : ids[i] \in MembersOf(b) /\ Present(transfers[ids[i]])
      BY DEF Listings, StoredMembers
    <3>3. Exists(bulkCache'[b])
      BY <2>3 DEF BulkRejectStart, KeepBulk, BulkInv, BulkTypeOK
    <3> QED
      BY <2>3, <3>1, <3>2, <3>3 DEF BulkRejectStart, Loop, BulkCommandNames
  <2>4. CASE \E name \in BulkCommandNames : \E d, event : BulkHandling(name, b) /\ BulkAnswer(b, d, event)
    BY <2>4 DEF BulkAnswer, BulkHandling
  <2> QED
    BY <2>1, <2>2, <2>3, <2>4
    DEF BulkCommand, BulkUnread, BulkNotFound, BulkRejectUnlisted, BulkQueryRefused,
        BulkQueryUnlisted, BulkQueryAnswered, BulkCommandNames
<1>2. /\ UNCHANGED <<topic, offset, batchEnd, abRequests, abResponses, published, transfers>>
      /\ pc = "commands" /\ InBatch /\ cursor' = cursor + 1
      /\ topic[cursor + 1] = [name |-> name, id |-> b]
  BY <1>1 DEF BulkHandling, input, world
<1>3. Positions' /\ cursor' \in DOMAIN topic
  BY <1>2, NextPosition DEF ToldInv
<1>4. LoopOverMembers'
  BY <1>1, <1>2, <1>3 DEF LoopOverMembers
<1> QED
  BY <1>1, <1>2, <1>3, <1>4, ToldFrame

\* The loop takes a transfer of a bulk transfer, announced if the payee waited for that.
LEMMA MemberOfTold ==
    ASSUME BulkInv, ToldInv, NEW name, NEW t \in Transfers, Member(name, t)
    PROVE  /\ t \in MembersOf(current)
           /\ \A i \in DOMAIN rest' :
                 /\ rest'[i] \in MembersOf(current)
                 /\ name = "RejectBulkTransferCmd" => Present(transfers[rest'[i]])
           /\ name = "RejectBulkTransferCmd" => Present(transfers[t])
           /\ name \in PayeeWaits => current \in Told
           /\ t = rest[1] /\ rest' = Tail(rest) /\ Len(rest) \in Nat \ {0}
           /\ \A i \in 1..(Len(rest) - 1) : rest'[i] = rest[i + 1]
           /\ DOMAIN rest' = 1..(Len(rest) - 1) /\ DOMAIN rest = 1..Len(rest)
<1>1. rest \in Seq(Transfers) /\ rest # <<>> /\ pc = "members" /\ topic[cursor].name = name
  BY DEF BulkInv, BulkTypeOK, Member
<1>2. /\ DOMAIN rest = 1..Len(rest) /\ Len(rest) \in Nat \ {0}
      /\ DOMAIN Tail(rest) = 1..(Len(rest) - 1)
      /\ \A i \in 1..(Len(rest) - 1) : Tail(rest)[i] = rest[i + 1]
      /\ Head(rest) = rest[1]
  BY <1>1
<1>3. t = rest[1] /\ rest' = Tail(rest)
  BY <1>2 DEF Member
<1>4. \A i \in DOMAIN rest :
        /\ rest[i] \in MembersOf(current)
        /\ name = "RejectBulkTransferCmd" => Present(transfers[rest[i]])
  BY <1>1 DEF ToldInv, LoopOverMembers
<1>5. AnswersTold(topic[cursor], Told) /\ topic[cursor].id = current
  BY <1>1 DEF ToldInv, LoopOverMembers, PayeeWasTold
<1> QED
  BY <1>1, <1>2, <1>3, <1>4, <1>5 DEF AnswersTold

\* What is stored is only replaced.
LEMMA MembersStay ==
    ASSUME BulkInv, NEW t \in Transfers, MemberCommand(t)
    PROVE  \A u \in Transfers : Present(transfers[u]) => Present(transfers'[u])
<1>1. Documents /\ Found(t) \in Doc
  BY FoundDocument DEF BulkInv, MembersInv
<1> DEFINE Aborts == \E d \in Doc : \E code \in ErrorCodes :
                        transfers' = [transfers EXCEPT ![t] = Updated(Aborted(d, code), t)]
<1>2. [Found(t) EXCEPT !.errorCode = "participants"] \in Doc
  BY <1>1 DEF Doc, ErrorCodes
<1>3. UNCHANGED transfers \/ Aborts
  <2>1. CASE MemberRejected(t)
    BY <1>1, <2>1 DEF MemberRejected, CancelFails, CancelRefused, CancelUnsaved, CancelSaved, ErrorCodes
  <2>2. CASE MemberFulfilRefused(t)
    <3> DEFINE r == [Found(t) EXCEPT !.errorCode = "participants"]
    <3>1. r \in Doc /\ CancelBecause(t, r, "participants", "ParticipantCheckFailedEvt")
      BY <1>2, <2>2 DEF MemberFulfilRefused
    <3> HIDE DEF r
    <3> QED
      BY <3>1 DEF CancelBecause, CancelFails, CancelRefused, CancelUnsaved, CancelSaved, ErrorCodes
  <2> QED
    BY <2>1, <2>2 DEF MemberCommand, MemberUnread, MemberDuplicate, MemberPrepareRefused,
         MemberPrepareAccepted, MemberFulfilNotFound, MemberFulfilAccepted, MemberRejectRefused,
         ReadFails, Answer, Ignore
<1>4. ASSUME NEW d \in Doc, NEW code \in ErrorCodes
      PROVE  Present(Updated(Aborted(d, code), t))
  <2>1. Aborted(d, code) \in Doc /\ Aborted(d, code).state = "ABORTED"
    BY DocTypes, DocStates DEF States
  <2>2. Saved(Aborted(d, code)) \in Doc /\ Saved(Aborted(d, code)).state = "ABORTED"
    BY <2>1, DocTypes, DocStates DEF States, ErrorCodes
  <2>3. transfers[t] \in Doc
    BY <1>1 DEF Documents
  <2> QED
    BY <2>2, <2>3 DEF Updated, Doc, Present
<1>5. CASE Aborts
  <2>1. PICK d \in Doc : \E code \in ErrorCodes :
                        transfers' = [transfers EXCEPT ![t] = Updated(Aborted(d, code), t)]
    BY <1>5
  <2>2. PICK code \in ErrorCodes :
                        transfers' = [transfers EXCEPT ![t] = Updated(Aborted(d, code), t)]
    BY <2>1
  <2>3. Present(Updated(Aborted(d, code), t))
    BY <1>4
  <2> QED
    BY <1>1, <2>2, <2>3 DEF Documents
<1> QED
  BY <1>3, <1>5

LEMMA MemberTold ==
    ASSUME BulkInv, ToldInv, NEW t \in Transfers, MemberCommand(t)
    PROVE  ToldInv'
<1>1. PICK name \in BulkCommandNames :
        /\ Member(name, t)
        /\ \/ UNCHANGED abRequests
           \/ AskAccounts("reserve", t)
           \/ AskAccounts("commit", t) /\ name = "CommitBulkTransferFulfilCmd"
  BY DEF MemberCommand, MemberUnread, MemberDuplicate, MemberPrepareRefused,
         MemberPrepareAccepted, MemberFulfilNotFound, MemberFulfilRefused,
         MemberFulfilAccepted, MemberRejectRefused, MemberRejected, ReadFails, Answer, Ignore,
         BulkCommandNames
<1>2. /\ UNCHANGED <<topic, offset, batchEnd, cursor, pc, abResponses, published, bulkCache, current>>
      /\ pc = "members"
  BY <1>1 DEF Member, input, control, bulkState
<1>3. /\ t \in MembersOf(current)
      /\ \A i \in DOMAIN rest' :
            /\ rest'[i] \in MembersOf(current)
            /\ name = "RejectBulkTransferCmd" => Present(transfers[rest'[i]])
      /\ FulfilsWait /\ name = "CommitBulkTransferFulfilCmd" => current \in Told
  BY <1>1, MemberOfTold DEF FulfilsWait
<1>4. Positions' /\ LoopOverMembers'
  <2>1. topic[cursor].name = name
    BY <1>1 DEF Member
  <2>2. \A i \in DOMAIN rest' : rest'[i] \in Transfers
    BY <1>3, BulkConstantsAssumption DEF BulkInv, BulkTypeOK, MembersOf
  <2>3. \A i \in DOMAIN rest' :
           name = "RejectBulkTransferCmd" => Present(transfers'[rest'[i]])
    BY <1>3, <2>2, MembersStay
  <2> QED
    BY <1>2, <1>3, <2>1, <2>3 DEF ToldInv, Positions, LoopOverMembers
<1>5. \A i \in DOMAIN abRequests' : CommitsTold(abRequests'[i], Told)
  <2>1. abRequests \in Seq(Request) /\ \A i \in DOMAIN abRequests : CommitsTold(abRequests[i], Told)
    BY DEF BulkInv, MembersInv, Documents, ToldInv, PayeeWasTold
  <2>2. CASE UNCHANGED abRequests
    BY <2>1, <2>2
  <2>3. CASE \E type \in {"reserve", "commit"} :
                /\ AskAccounts(type, t)
                /\ FulfilsWait /\ type = "commit" => current \in Told
    <3>1. PICK type \in {"reserve", "commit"} :
            AskAccounts(type, t) /\ (FulfilsWait /\ type = "commit" => current \in Told)
      BY <2>3
    <3> DEFINE r == [type |-> type, id |-> t]
    <3>2. abRequests' = Append(abRequests, r) /\ r \in Request
      BY <3>1 DEF AskAccounts, Request
    <3>3. CommitsTold(r, Told)
      BY <1>3, <3>1 DEF CommitsTold
    <3> HIDE DEF r
    <3>4. /\ DOMAIN abRequests' = 1..(Len(abRequests) + 1)
          /\ DOMAIN abRequests = 1..Len(abRequests)
          /\ Len(abRequests) \in Nat
          /\ \A i \in 1..Len(abRequests) : abRequests'[i] = abRequests[i]
          /\ abRequests'[Len(abRequests) + 1] = r
      BY <2>1, <3>2
    <3> QED
      BY <2>1, <3>3, <3>4
  <2> QED
    BY <1>1, <1>3, <2>2, <2>3
<1>6. PayeeWasTold'
  BY <1>2, <1>5, StayTold DEF ToldInv, PayeeWasTold
<1> QED
  BY <1>2, <1>4, <1>6 DEF ToldInv, FulfilsWait

\* The bulk transfer of a commit that is continued was announced.
LEMMA ResponderTold ==
    ASSUME BulkInv, ToldInv, abResponses # <<>>, abResponses' = Tail(abResponses)
    PROVE  /\ \A i \in DOMAIN abResponses' : CommitsTold(abResponses'[i], Told)
           /\ FulfilsWait /\ Head(abResponses).type = "commit" =>
                 \E b \in Told : Responding \in MembersOf(b) /\ BulkOf(Responding) = b
<1>1. abResponses \in Seq(Response)
  BY DEF BulkInv, MembersInv, Documents
<1>2. /\ Head(abResponses) = abResponses[1]
      /\ DOMAIN abResponses = 1..Len(abResponses)
      /\ Len(abResponses) \in Nat \ {0}
      /\ DOMAIN Tail(abResponses) = 1..(Len(abResponses) - 1)
      /\ \A i \in 1..(Len(abResponses) - 1) : Tail(abResponses)[i] = abResponses[i + 1]
  BY <1>1
<1>3. \A i \in DOMAIN abResponses : CommitsTold(abResponses[i], Told)
  BY DEF ToldInv, PayeeWasTold
<1>4. ASSUME FulfilsWait, Head(abResponses).type = "commit"
      PROVE  \E b \in Told : Responding \in MembersOf(b) /\ BulkOf(Responding) = b
  <2>1. PICK b \in Told : Responding \in MembersOf(b)
    BY <1>2, <1>3, <1>4 DEF CommitsTold, Responding, TransferOf
  <2>2. BulkOf(Responding) \in Bulks /\ Responding \in MembersOf(BulkOf(Responding))
    BY <2>1 DEF BulkOf, Told
  <2>3. BulkOf(Responding) = b
    BY <2>1, <2>2, BulkConstantsAssumption DEF Told
  <2> QED
    BY <2>1, <2>3
<1> QED
  BY <1>2, <1>3, <1>4

LEMMA BulkContinueTold ==
    ASSUME BulkInv, ToldInv, NEW success \in BOOLEAN, BulkContinue(success)
    PROVE  ToldInv'
<1>1. /\ pc = "responses" /\ abResponses # <<>> /\ abResponses' = Tail(abResponses)
      /\ UNCHANGED <<topic, offset, batchEnd, cursor, abRequests, published>>
      /\ pc' = "completing" =>
            current' = BulkOf(Responding) /\ Head(abResponses).type = "commit"
      /\ pc' # "members"
  BY DEF BulkContinue, BulkPrepareUncounted, BulkPrepareContinue, BulkFulfilUncounted,
         BulkFulfilContinue, SinglePrepareContinue, SingleFulfilContinue, BulkResponse,
         Continuing, input, control
<1>2. /\ \A i \in DOMAIN abResponses' : CommitsTold(abResponses'[i], Told)
      /\ FulfilsWait /\ pc' = "completing" => current' \in Told
  BY <1>1, ResponderTold
<1>3. PayeeWasTold'
  BY <1>1, <1>2, StayTold DEF ToldInv, PayeeWasTold
<1>4. Positions' /\ LoopOverMembers'
  BY <1>1 DEF ToldInv, Positions, LoopOverMembers
<1>5. FulfilsWait /\ pc' = "completing" => (current \in Told)'
  BY <1>1, <1>2, StayTold
<1> QED
  BY <1>3, <1>4, <1>5 DEF ToldInv, FulfilsWait

\* The end of a loop, the update of a bulk transfer, an insertion beside.
LEMMA RestTold ==
    ASSUME BulkInv, ToldInv,
           \/ EndOfMembers
           \/ BulkRejectDone
           \/ BulkCompleted
           \/ Adding
    PROVE  ToldInv'
<1>1. UNCHANGED <<topic, offset, batchEnd, cursor, abRequests, abResponses, published, transfers>>
  BY DEF EndOfMembers, BulkRejectDone, BulkCompleted, BulkUpdated, BulkUpdateThrows, Adding,
         AddChecked, AddInserted, vars, memory, queues, input, control, world
<1>2. \/ pc' \notin {"members", "completing"}
      \/ UNCHANGED <<pc, current, rest, bulkCache>>
  BY DEF EndOfMembers, BulkRejectDone, BulkCompleted, BulkUpdated, BulkUpdateThrows, Adding,
         AddChecked, AddInserted, vars, control
<1>3. Positions' /\ LoopOverMembers'
  BY <1>1, <1>2 DEF ToldInv, Positions, LoopOverMembers
<1> QED
  BY <1>1, <1>2, <1>3, ToldFrame

LEMMA RestartTold ==
    ASSUME ToldInv, Restart, offset' \in {offset, batchEnd}
    PROVE  ToldInv'
<1>1. Len(topic) \in Nat
  BY LenProperties DEF ToldInv, Positions
<1>2. Positions' /\ LoopOverMembers'
  BY <1>1 DEF ToldInv, Positions, LoopOverMembers, Restart, input
<1> QED
  BY <1>2, ToldFrame DEF Restart, input, world

LEMMA EnvironmentTold ==
    ASSUME BulkInv, ToldInv, BulkEnvironment
    PROVE  ToldInv'
<1> DEFINE C == [name : CommandNames \cup BulkCommandNames, id : Transfers \cup Bulks]
<1>1. topic \in Seq(C) /\ DOMAIN topic = 1..Len(topic) /\ Len(topic) \in Nat
  BY LenProperties DEF ToldInv, Positions
<1>2. CASE BulkCrash
  BY <1>2, RestartTold DEF BulkCrash
<1>3. CASE FailedAcknowledge /\ UNCHANGED bulkVars
  <2>1. UNCHANGED <<topic, batchEnd, cursor, pc, abRequests, abResponses, published, transfers, bulkVars>>
        /\ offset' = batchEnd
    BY <1>3 DEF FailedAcknowledge, control, memory, queues, world
  <2>2. Positions' /\ LoopOverMembers'
    BY <1>1, <2>1 DEF ToldInv, Positions, LoopOverMembers, bulkVars, bulkState
  <2> QED
    BY <2>1, <2>2, ToldFrame DEF bulkVars
<1>4. CASE \/ \E name \in Inputs, t \in Transfers : Produce(name, t) /\ UNCHANGED bulkVars
           \/ \E name \in BulkInputs, b \in Bulks : BulkProduce(name, b)
  <2>1. PICK c \in C :
          /\ topic' = Append(topic, c)
          /\ UNCHANGED <<offset, batchEnd, cursor, pc, abRequests, abResponses, published>>
          /\ pc = "idle"
          /\ AnswersTold(c, Told)
    <3>1. CASE \E name \in Inputs, t \in Transfers : Produce(name, t)
      <4>1. PICK name \in Inputs, t \in Transfers : Produce(name, t)
        BY <3>1
      <4>2. name \in CommandNames
        BY ConstantsAssumption
      <4>3. [name |-> name, id |-> t] \in C /\ AnswersTold([name |-> name, id |-> t], Told)
        BY <4>2, BulkConstantsAssumption DEF AnswersTold, CommandNames, BulkCommandNames
      <4> QED
        BY <4>1, <4>3 DEF Produce, control, memory, queues, world
    <3>2. CASE \E name \in BulkInputs, b \in Bulks : BulkProduce(name, b)
      <4>1. PICK name \in BulkInputs, b \in Bulks : BulkProduce(name, b)
        BY <3>2
      <4>2. name \in BulkCommandNames
        BY BulkConstantsAssumption
      <4>3. [name |-> name, id |-> b] \in C
        BY <4>2
      <4>4. AnswersTold([name |-> name, id |-> b], Told)
        BY <4>1 DEF AnswersTold, BulkProduce, Told
      <4> QED
        BY <4>1, <4>3, <4>4 DEF BulkProduce, control, memory, queues, world
    <3> QED
      BY <1>4, <3>1, <3>2
  <2> HIDE DEF C
  <2>2. /\ topic' \in Seq(C) /\ Len(topic') = Len(topic) + 1
        /\ DOMAIN topic' = 1..(Len(topic) + 1)
        /\ \A i \in 1..Len(topic) : topic'[i] = topic[i]
        /\ topic'[Len(topic) + 1] = c
    BY <1>1, <2>1
  <2>3. \A i \in DOMAIN topic' : AnswersTold(topic'[i], Told)
    BY <1>1, <2>1, <2>2 DEF ToldInv, PayeeWasTold
  <2>4. PayeeWasTold'
    BY <2>1, <2>3, StayTold DEF ToldInv, PayeeWasTold
  <2>5. offset' \in 0..Len(topic') /\ batchEnd' \in 0..Len(topic') /\ cursor' \in 0..batchEnd'
    BY <1>1, <2>1, <2>2 DEF ToldInv, Positions
  <2>6. Positions'
    BY <2>2, <2>5 DEF Positions, C
  <2> QED
    BY <2>1, <2>4, <2>6 DEF ToldInv, LoopOverMembers
<1> QED
  BY <1>2, <1>3, <1>4 DEF BulkEnvironment

LEMMA ToldInit == BulkInit => ToldInv
<1> SUFFICES ASSUME BulkInit PROVE ToldInv
  OBVIOUS
<1>1. topic = <<>> /\ abRequests = <<>> /\ abResponses = <<>> /\ pc = "idle"
  BY DEF BulkInit, Init
<1>2. Positions
  BY EmptySeq DEF BulkInit, Init, Positions
<1> QED
  BY <1>1, <1>2 DEF ToldInv, PayeeWasTold, LoopOverMembers

LEMMA ToldNext == BulkInv /\ ToldInv /\ [BulkNext]_allVars => ToldInv'
<1> SUFFICES ASSUME BulkInv, ToldInv, [BulkNext]_allVars PROVE ToldInv'
  OBVIOUS
<1>1. CASE UNCHANGED allVars
  <2>1. UNCHANGED <<topic, offset, batchEnd, cursor, pc, abRequests, abResponses, published,
                    transfers, bulkCache, rest, current>>
    BY <1>1 DEF allVars, vars, input, control, memory, queues, world, bulkVars, bulkState
  <2>2. Positions' /\ LoopOverMembers'
    BY <2>1 DEF ToldInv, Positions, LoopOverMembers
  <2> QED
    BY <2>1, <2>2, ToldFrame
<1>2. CASE \/ BulkExit
           \/ \E b \in Bulks : AddRejected(b)
  BY <1>2, RestartTold DEF BulkExit, Exit, AddRejected
<1> QED
  BY <1>1, <1>2, SharedTold, BulkCommandTold, MemberTold, BulkContinueTold, RestTold,
     EnvironmentTold DEF BulkNext, BulkProcess

\* A payee who waits fulfils and rejects only what it was told of: so do the requests to
\* A&B and the updates of bulk transfers that come of it.
LEMMA ToldInvariant == BulkSpec => []ToldInv
BY ToldInit, ToldNext, BulkInductiveInvariant, PTL DEF BulkSpec

-----------------------------------------------------------------------------
(* When nothing fails.                                                      *)

\* No faults, no store that counts too little, and no second prepare of a bulk transfer,
\* which would end the process (AddRejected).
NothingFails == MaxFaults = 0 /\ CountsNoops /\ PayerOnce

PrepareOf(b) == [name |-> "PrepareBulkTransferCmd", id |-> b]

\* The prepare of b was taken from the topic.
Taken(b) == \E i \in 1..cursor : topic[i] = PrepareOf(b)

PreparesOnce == \A b \in Bulks : \A i, j \in DOMAIN topic :
                    topic[i] = PrepareOf(b) /\ topic[j] = PrepareOf(b) => i = j

\* A bulk transfer is added once, by its prepare, and only what is stored is cached.
AddedOnce ==
    \A b \in Bulks :
        /\ adding[b].checks + adding[b].inserts <= 1
        /\ adding[b].checks + adding[b].inserts > 0 => ~Exists(bulks[b]) /\ Taken(b)
        /\ Exists(bulks[b]) => Taken(b)
        /\ Exists(bulkCache[b]) => Exists(bulks[b])

Continuous == {"responses", "completing"}

\* The process takes each batch to its end.
Uninterrupted ==
    /\ faults = 0 /\ failed = FALSE /\ pc # "dying"
    /\ pc = "idle" => cursor = offset
    /\ pc \notin {"idle", "commands", "members"} => cursor = batchEnd
    /\ pc \in {"send", "acknowledge", "idle"} => cache = EmptyCache
    /\ pc \notin Continuous => abResponses = <<>>
    /\ pc = "completing" => Exists(bulkCache[current])

UnfailingInv == NothingFails /\ PreparesOnce /\ AddedOnce /\ Uninterrupted

-----------------------------------------------------------------------------
(* How UnfailingInv is preserved.                                           *)

LEMMA NoFaultComes == UnfailingInv => ~Fault
BY DEF UnfailingInv, NothingFails, Uninterrupted, Fault

\* Nor does the process end.
LEMMA NoRestart ==
    ASSUME BulkInv, UnfailingInv
    PROVE  /\ ~BulkExit /\ ~BulkCrash /\ ~FailedAcknowledge
           /\ \A b \in Bulks : ~AddRejected(b)
<1>1. ~BulkExit /\ ~BulkCrash /\ ~FailedAcknowledge
  BY NoFaultComes DEF UnfailingInv, Uninterrupted, BulkExit, Exit, MustExit, BulkCrash,
                      FailedAcknowledge
<1>2. ASSUME NEW b \in Bulks, AddRejected(b) PROVE FALSE
  <2>1. adding[b].checks > 0 /\ Exists(bulks[b])
    BY <1>2, NoFaultComes DEF AddRejected
  <2>2. adding[b].checks \in Nat /\ adding[b].inserts \in Nat
    BY DEF BulkInv, BulkTypeOK
  <2> QED
    BY <2>1, <2>2 DEF UnfailingInv, AddedOnce
<1> QED
  BY <1>1, <1>2

\* A step that adds no bulk transfer.
LEMMA AddedFrame ==
    ASSUME Positions, AddedOnce, UNCHANGED <<topic, adding, bulks>>,
           cursor' \in Nat, cursor <= cursor',
           \A b \in Bulks : Exists(bulkCache'[b]) => Exists(bulkCache[b]) \/ Exists(bulks[b])
    PROVE  AddedOnce'
<1>1. \A b \in Bulks : Taken(b) => Taken(b)'
  BY DEF Positions, Taken, PrepareOf
<1> QED
  BY <1>1 DEF AddedOnce

\* A step of a batch that only moves on.
LEMMA UnfailingKept ==
    ASSUME BulkInv, ToldInv, UnfailingInv, UNCHANGED <<topic, adding, bulks, faults, failed>>,
           cursor' \in Nat, cursor <= cursor',
           \A b \in Bulks : Exists(bulkCache'[b]) => Exists(bulkCache[b]) \/ Exists(bulks[b]),
           Uninterrupted'
    PROVE  UnfailingInv'
<1>1. AddedOnce'
  BY AddedFrame DEF ToldInv, UnfailingInv
<1>2. PreparesOnce'
  BY DEF UnfailingInv, PreparesOnce, PrepareOf
<1> QED
  BY <1>1, <1>2 DEF UnfailingInv, NothingFails

LEMMA SharedUnfailing ==
    ASSUME BulkInv, ToldInv, UnfailingInv, Shared
    PROVE  UnfailingInv'
<1>1. UNCHANGED <<bulks, bulkCache, adding, current>>
  BY DEF Shared, bulkVars, bulkState
<1>2. /\ faults = 0 /\ failed = FALSE /\ ~Fault
      /\ pc = "idle" => cursor = offset
      /\ pc \notin {"idle", "commands", "members"} => cursor = batchEnd
      /\ pc \in {"send", "acknowledge", "idle"} => cache = EmptyCache
      /\ pc \notin Continuous => abResponses = <<>>
      /\ cursor \in Nat /\ CountsNoops
  BY NoFaultComes DEF UnfailingInv, Uninterrupted, ToldInv, Positions, NothingFails
<1>3. CASE \E n \in 1..BatchSize : StartBatch(n)
  <2>1. PICK n \in 1..BatchSize : StartBatch(n)
    BY <1>3
  <2>2. Uninterrupted' /\ UNCHANGED <<topic, faults, failed, cursor>>
    BY <1>2, <2>1 DEF StartBatch, Uninterrupted, Continuous, input
  <2> QED
    BY <1>1, <1>2, <2>2, UnfailingKept
<1>4. CASE \E t \in Transfers : Query(t)
  <2>1. PICK t \in Transfers : Query(t)
    BY <1>4
  <2>2. Handling("QueryTransferCmd", t) /\ UNCHANGED faults
    BY <1>2, <2>1 DEF Query, QueryUnread, QueryRefused, QueryAnswered, Answer
  <2>3. /\ Uninterrupted' /\ UNCHANGED <<topic, faults, failed>>
        /\ cursor' = cursor + 1
    BY <1>2, <2>2 DEF Handling, Uninterrupted, Continuous, input
  <2> QED
    BY <1>1, <1>2, <2>3, UnfailingKept
<1>5. CASE \E accepted \in SUBSET (DOMAIN abRequests) : AccountsAnswer(accepted)
  <2>1. PICK accepted \in SUBSET (DOMAIN abRequests) : AccountsAnswer(accepted)
    BY <1>5
  <2>2. Uninterrupted' /\ UNCHANGED <<topic, faults, failed, cursor>>
    BY <1>2, <2>1 DEF AccountsAnswer, Uninterrupted, Continuous, input
  <2> QED
    BY <1>1, <1>2, <2>2, UnfailingKept
<1>6. CASE EndOfCommands \/ EndOfResponses \/ Cancellations
  <2>1. /\ UNCHANGED <<topic, faults, failed, cursor, batchEnd, abResponses>>
        /\ pc' \in {"accounts", "cancellations", "flush"}
        /\ abResponses = <<>> /\ cursor = batchEnd
    BY <1>2, <1>6 DEF EndOfCommands, EndOfResponses, AfterResponses, Cancellations, Continuous,
                      input, memory, queues
  <2>2. Uninterrupted'
    BY <1>2, <2>1 DEF Uninterrupted, Continuous
  <2> QED
    BY <1>1, <1>2, <2>1, <2>2, UnfailingKept
<1>7. CASE Flush
  <2>1. /\ UNCHANGED <<topic, faults, failed, cursor, batchEnd, abResponses>>
        /\ pc = "flush" /\ pc' = "send" /\ cache' = EmptyCache
    BY <1>2, <1>7 DEF Flush, NoopStore, NoFault, input, queues
  <2>2. Uninterrupted'
    BY <1>2, <2>1 DEF Uninterrupted, Continuous, EmptyCache
  <2> QED
    BY <1>1, <1>2, <2>1, <2>2, UnfailingKept
<1>8. CASE Send \/ Acknowledge
  <2>1. /\ UNCHANGED <<topic, faults, failed, cursor, batchEnd, abResponses, cache>>
        /\ \/ pc = "send" /\ pc' = "acknowledge"
           \/ pc = "acknowledge" /\ pc' = "idle" /\ offset' = batchEnd
    BY <1>2, <1>8 DEF Send, Acknowledge, NoFault, input, memory, queues
  <2>2. Uninterrupted'
    BY <1>2, <2>1 DEF Uninterrupted, Continuous, EmptyCache
  <2> QED
    BY <1>1, <1>2, <2>1, <2>2, UnfailingKept
<1> QED
  BY <1>3, <1>4, <1>5, <1>6, <1>7, <1>8 DEF Shared

\* The insertion of a bulk transfer begins with its only prepare.
LEMMA BulkCommandUnfailing ==
    ASSUME BulkInv, ToldInv, UnfailingInv, NEW b \in Bulks, BulkCommand(b)
    PROVE  UnfailingInv'
<1>1. PICK name \in BulkCommandNames :
        BulkHandling(name, b) /\ pc' \in {"commands", "members"} /\ (BulkPrepareStart(b) => name = "PrepareBulkTransferCmd")
  BY DEF BulkCommand, BulkUnread, BulkNotFound, BulkPrepareStart, BulkFulfilStart,
         BulkRejectUnlisted, BulkRejectStart, BulkQueryRefused, BulkQueryUnlisted,
         BulkQueryAnswered, BulkCommandNames, BulkAnswer, Loop, BulkHandling
<1>2. /\ UNCHANGED <<topic, abResponses, batchEnd, bulks>> /\ pc = "commands"
      /\ topic[cursor + 1] = [name |-> name, id |-> b]
      /\ cursor' = cursor + 1
  BY <1>1 DEF BulkHandling, input, world
<1>3. UNCHANGED <<faults, failed>>
  BY NoFaultComes
  DEF NoFault, BulkCommand, BulkUnread, BulkNotFound, BulkPrepareStart, BulkFulfilStart, BulkReadFails,
      BulkRejectUnlisted, BulkRejectStart, BulkQueryRefused, BulkQueryUnlisted,
      BulkQueryAnswered, BulkAnswer, Loop
<1>4. Uninterrupted'
  BY <1>1, <1>2, <1>3 DEF UnfailingInv, Uninterrupted, Continuous
<1>5. cursor \in Nat /\ cursor' \in Nat /\ cursor <= cursor'
  BY <1>2 DEF ToldInv, Positions
<1>6. CASE BulkPrepareStart(b)
  <2>1. /\ adding' = [adding EXCEPT ![b].checks = @ + 1] /\ UNCHANGED bulkCache
        /\ topic[cursor + 1] = PrepareOf(b)
    BY <1>1, <1>2, <1>6 DEF BulkPrepareStart, PrepareOf
  <2>2. adding \in [Bulks -> [checks : Nat, inserts : Nat]]
    BY DEF BulkInv, BulkTypeOK
  <2>3. ~Taken(b)
    <3>1. cursor + 1 \in DOMAIN topic /\ 1..cursor \subseteq DOMAIN topic
      <4>1. cursor < batchEnd
        BY <1>1 DEF BulkHandling, InBatch
      <4> QED
        BY <1>5, <4>1, LenProperties DEF ToldInv, Positions
    <3>2. \A i, j \in DOMAIN topic : topic[i] = PrepareOf(b) /\ topic[j] = PrepareOf(b) => i = j
      BY DEF UnfailingInv, PreparesOnce
    <3> QED
      BY <1>5, <2>1, <3>1, <3>2 DEF Taken
  <2>4. Taken(b)'
    BY <1>2, <1>5, <2>1 DEF Taken, PrepareOf
  <2>5. \A c \in Bulks : Taken(c) => Taken(c)'
    BY <1>2, <1>5 DEF Taken, PrepareOf
  <2>6. AddedOnce'
    <3>1. ASSUME NEW c \in Bulks
          PROVE  /\ adding'[c].checks + adding'[c].inserts <= 1
                 /\ adding'[c].checks + adding'[c].inserts > 0 => ~Exists(bulks'[c]) /\ Taken(c)'
                 /\ Exists(bulks'[c]) => Taken(c)'
                 /\ Exists(bulkCache'[c]) => Exists(bulks'[c])
      <4>1. /\ adding[c].checks + adding[c].inserts <= 1
            /\ adding[c].checks + adding[c].inserts > 0 => ~Exists(bulks[c]) /\ Taken(c)
            /\ Exists(bulks[c]) => Taken(c)
            /\ Exists(bulkCache[c]) => Exists(bulks[c])
            /\ adding[c].checks \in Nat /\ adding[c].inserts \in Nat
        BY <2>2 DEF UnfailingInv, AddedOnce
      <4>2. CASE c # b
        BY <1>2, <2>1, <2>2, <2>5, <4>1, <4>2
      <4>3. CASE c = b
        <5>1. adding'[b].checks = adding[b].checks + 1 /\ adding'[b].inserts = adding[b].inserts
          BY <2>1, <2>2
        <5> QED
          BY <1>2, <2>1, <2>3, <2>4, <4>1, <4>3, <5>1
      <4> QED
        BY <4>2, <4>3
    <3> QED
      BY <3>1 DEF AddedOnce
  <2>7. PreparesOnce'
    BY <1>2 DEF UnfailingInv, PreparesOnce, PrepareOf
  <2> QED
    BY <1>4, <2>6, <2>7 DEF UnfailingInv, NothingFails
<1>7. CASE ~BulkPrepareStart(b)
  <2>1. /\ UNCHANGED adding
        /\ \E d \in {FoundBulk(b), NoBulk, [FoundBulk(b) EXCEPT !.status = "ACCEPTED"]} :
              KeepBulk(b, d) /\ (d = NoBulk \/ Exists(FoundBulk(b)))
    BY <1>7 DEF BulkCommand, BulkUnread, BulkNotFound, BulkPrepareStart, BulkFulfilStart,
         BulkRejectUnlisted, BulkRejectStart, BulkQueryRefused, BulkQueryUnlisted,
         BulkQueryAnswered, BulkAnswer
  <2>2. ~Exists(NoBulk) /\ FoundBulk(b) \in {bulks[b], bulkCache[b]}
    BY DEF Exists, NoBulk, FoundBulk
  <2>3. \A c \in Bulks : Exists(bulkCache'[c]) => Exists(bulkCache[c]) \/ Exists(bulks[c])
    BY <2>1, <2>2 DEF KeepBulk, BulkInv, BulkTypeOK
  <2> QED
    BY <1>2, <1>3, <1>4, <1>5, <2>1, <2>3, UnfailingKept
<1> QED
  BY <1>6, <1>7

\* The bulk transfer of a response is the one of its transfer.
LEMMA RoutedBulk ==
    ASSUME BulkInv, NEW t \in Transfers, RoutedToBulk(t)
    PROVE  BulkOf(t) \in Bulks /\ t \in MembersOf(BulkOf(t))
BY DEF BulkInv, KeptForMembers, BulkOf

LEMMA MemberUnfailing ==
    ASSUME BulkInv, ToldInv, UnfailingInv, NEW t \in Transfers, MemberCommand(t)
    PROVE  UnfailingInv'
<1>1. PICK name \in BulkCommandNames : Member(name, t)
  BY DEF MemberCommand, MemberUnread, MemberDuplicate, MemberPrepareRefused,
         MemberPrepareAccepted, MemberFulfilNotFound, MemberFulfilRefused,
         MemberFulfilAccepted, MemberRejectRefused, MemberRejected, BulkCommandNames
<1>2. UNCHANGED faults
  BY NoFaultComes
  DEF NoFault, MemberCommand, MemberUnread, MemberDuplicate, MemberPrepareRefused,
      MemberPrepareAccepted, MemberFulfilNotFound, MemberFulfilRefused,
      MemberFulfilAccepted, MemberRejectRefused, MemberRejected, ReadFails, Answer, Ignore,
      CancelBecause, CancelFails, CancelRefused, CancelUnsaved, CancelSaved
<1>3. /\ UNCHANGED <<topic, cursor, batchEnd, pc, failed, abResponses, bulks, bulkCache, adding>>
      /\ pc = "members"
  BY <1>1 DEF Member, input, control, bulkState
<1>4. Uninterrupted'
  BY <1>2, <1>3 DEF UnfailingInv, Uninterrupted, Continuous
<1> QED
  BY <1>2, <1>3, <1>4, UnfailingKept DEF ToldInv, Positions

LEMMA BulkContinueUnfailing ==
    ASSUME BulkInv, ToldInv, UnfailingInv, NEW success \in BOOLEAN, BulkContinue(success)
    PROVE  UnfailingInv'
<1> DEFINE t == Responding
           b == BulkOf(t)
<1>1. /\ UNCHANGED <<topic, cursor, batchEnd, failed, bulks, adding>>
      /\ pc = "responses" /\ pc' \in Continuous
      /\ abResponses # <<>> /\ abResponses' = Tail(abResponses)
      /\ pc' = "completing" => BulkFulfilContinue(success)
  BY DEF BulkContinue, BulkPrepareUncounted, BulkPrepareContinue, BulkFulfilUncounted,
         BulkFulfilContinue, SinglePrepareContinue, SingleFulfilContinue, BulkResponse,
         Continuing, input, control, bulkVars, bulkState, Continuous
<1>2. UNCHANGED faults
  BY NoFaultComes
  DEF NoFault, BulkContinue, BulkPrepareUncounted, BulkPrepareContinue, BulkFulfilUncounted, BulkMissing,
      BulkFulfilContinue, SinglePrepareContinue, SingleFulfilContinue, BulkReadFails,
      MemberFulfilled, CancelRefused, CancelUnsaved, CancelSaved
<1>3. t \in Transfers
  <2>1. abResponses \in Seq(Response)
    BY DEF BulkInv, MembersInv, Documents
  <2>2. Head(abResponses) \in Response
    BY <1>1, <2>1
  <2> QED
    BY <2>2 DEF Responding, TransferOf, Response
<1>4. \/ UNCHANGED bulkCache /\ ~BulkFulfilContinue(success)
      \/ /\ b \in Bulks /\ Exists(FoundBulk(b))
         /\ \E d \in BulkDoc : KeepBulk(b, d) /\ (BulkFulfilContinue(success) => Exists(d))
         /\ pc' = "completing" => current' = b
  <2>1. CASE BulkPrepareContinue(success)
    <3> DEFINE d == [FoundBulk(b) EXCEPT !.prepared = Append(@, t)]
    <3>1. b \in Bulks /\ FoundBulk(b) \in BulkDoc /\ Exists(FoundBulk(b))
      BY <1>3, <2>1, RoutedBulk, BulkDocuments DEF BulkPrepareContinue, BulkResponse, BulkInv
    <3>2. Append(FoundBulk(b).prepared, t) \in Seq(Transfers)
      BY <1>3, <3>1 DEF BulkDoc
    <3>3. d \in BulkDoc /\ [d EXCEPT !.status = "PENDING"] \in BulkDoc
      BY <3>1, <3>2 DEF BulkDoc, BulkStates
    <3>4. KeepBulk(b, d) \/ KeepBulk(b, [d EXCEPT !.status = "PENDING"])
      BY <2>1 DEF BulkPrepareContinue
    <3>5. pc' = "responses" /\ ~BulkFulfilContinue(success)
      BY <1>1, <2>1 DEF BulkPrepareContinue, BulkFulfilContinue, BulkResponse
    <3> HIDE DEF d, b
    <3> QED
      BY <3>1, <3>3, <3>4, <3>5
  <2>2. CASE BulkFulfilContinue(success)
    <3> DEFINE d == Fulfilled(FoundBulk(b), t, success)
    <3>1. b \in Bulks /\ FoundBulk(b) \in BulkDoc /\ Exists(FoundBulk(b))
      BY <1>3, <2>2, RoutedBulk, BulkDocuments DEF BulkFulfilContinue, BulkResponse, BulkInv
    <3>2. Append(FoundBulk(b).fulfilled, t) \in Seq(Transfers)
      BY <1>3, <3>1 DEF BulkDoc
    <3>3. /\ d \in BulkDoc /\ [d EXCEPT !.status = "COMPLETED"] \in BulkDoc
          /\ Exists(d) /\ Exists([d EXCEPT !.status = "COMPLETED"])
      BY <3>1, <3>2 DEF BulkDoc, BulkStates, Fulfilled, Exists
    <3>4. \/ KeepBulk(b, d) /\ pc' = pc
          \/ KeepBulk(b, [d EXCEPT !.status = "COMPLETED"]) /\ current' = b
      BY <2>2 DEF BulkFulfilContinue
    <3> HIDE DEF d, b
    <3> QED
      BY <1>1, <3>1, <3>3, <3>4
  <2>3. CASE \/ BulkPrepareUncounted(success) \/ BulkFulfilUncounted(success)
             \/ SinglePrepareContinue(success) \/ SingleFulfilContinue(success)
    <3>1. UNCHANGED <<bulkCache, pc>>
      BY <2>3 DEF BulkPrepareUncounted, BulkFulfilUncounted, SinglePrepareContinue,
                  SingleFulfilContinue, BulkMissing, Continuing, control, bulkVars, bulkState
    <3>2. ~BulkFulfilContinue(success) \/ BulkFulfilUncounted(success) \/ SingleFulfilContinue(success)
      BY <2>3 DEF BulkPrepareUncounted, SinglePrepareContinue, BulkFulfilContinue, BulkResponse,
                  Continuing
    <3>3. ~BulkFulfilContinue(success)
      BY <2>3, <3>2, NoFaultComes
      DEF BulkFulfilContinue, BulkFulfilUncounted, SingleFulfilContinue, BulkResponse, BulkMissing,
          BulkReadFails, Continuing
    <3> QED
      BY <3>1, <3>3
  <2> QED
    BY <2>1, <2>2, <2>3 DEF BulkContinue
<1> HIDE DEF b, t
<1>5. FoundBulk(b) \in {bulks[b], bulkCache[b]}
  BY DEF FoundBulk
<1>6. \A c \in Bulks : Exists(bulkCache'[c]) => Exists(bulkCache[c]) \/ Exists(bulks[c])
  BY <1>4, <1>5 DEF KeepBulk, BulkInv, BulkTypeOK
<1>7. pc' = "completing" => Exists(bulkCache'[current'])
  BY <1>1, <1>4 DEF KeepBulk, BulkInv, BulkTypeOK
<1>8. Uninterrupted'
  BY <1>1, <1>2, <1>7 DEF UnfailingInv, Uninterrupted, Continuous
<1> QED
  BY <1>1, <1>2, <1>6, <1>8, UnfailingKept DEF ToldInv, Positions

\* What a loop or a response is about is stored, so its update does not throw.
LEMMA UpdatesSucceed ==
    ASSUME BulkInv, ToldInv, UnfailingInv
    PROVE  /\ BulkRejectDone =>
                /\ BulkUpdated(current, [bulkCache[current] EXCEPT !.status = "REJECTED"])
                /\ UNCHANGED failed /\ pc' = "commands"
                /\ Emit("BulkTransferRejectRequestProcessedEvt", current)
           /\ BulkCompleted =>
                /\ BulkUpdated(current, bulkCache[current]) /\ bulkCache' = NoBulkCache
                /\ UNCHANGED failed /\ pc' = "responses"
<1>1. current \in Bulks
  BY DEF BulkInv, BulkTypeOK
<1>2. Exists(bulkCache[current]) => Exists(bulks[current])
  BY <1>1 DEF UnfailingInv, AddedOnce
<1>3. BulkRejectDone => Exists(bulkCache[current])
  BY DEF BulkRejectDone, ToldInv, LoopOverMembers
<1>4. BulkCompleted => Exists(bulkCache[current])
  BY DEF BulkCompleted, UnfailingInv, Uninterrupted
<1> QED
  BY <1>2, <1>3, <1>4, NoFaultComes DEF BulkRejectDone, BulkCompleted, BulkUpdateThrows

LEMMA RestUnfailing ==
    ASSUME BulkInv, ToldInv, UnfailingInv, EndOfMembers \/ BulkRejectDone \/ BulkCompleted
    PROVE  UnfailingInv'
<1>1. /\ UNCHANGED <<topic, cursor, batchEnd, adding, abResponses, current>>
      /\ \/ pc = "members" /\ pc' = "commands"
         \/ pc = "completing" /\ pc' = "responses"
      /\ UNCHANGED <<faults, failed>>
  BY UpdatesSucceed DEF EndOfMembers, BulkRejectDone, BulkCompleted, BulkUpdated, NoFault, input,
                        memory, queues, bulkVars, bulkState
<1>2. /\ \A b \in Bulks : Exists(bulks'[b]) <=> Exists(bulks[b])
      /\ \A b \in Bulks : Exists(bulkCache'[b]) => Exists(bulks[b])
  <2>1. \A b \in Bulks : Exists(bulkCache[b]) => Exists(bulks[b])
    BY DEF UnfailingInv, AddedOnce
  <2>2. current \in Bulks /\ bulkCache[current] \in BulkDoc
    BY DEF BulkInv, BulkTypeOK
  <2>3. CASE EndOfMembers
    BY <2>1, <2>3 DEF EndOfMembers, bulkVars, bulkState
  <2>4. CASE BulkRejectDone
    <3> DEFINE d == [bulkCache[current] EXCEPT !.status = "REJECTED"]
    <3>1. Exists(d)
      BY <2>2 DEF BulkDoc, Exists
    <3>2. BulkUpdated(current, d) /\ KeepBulk(current, d)
      BY <2>4, UpdatesSucceed DEF BulkRejectDone
    <3> HIDE DEF d
    <3> QED
      BY <2>1, <2>2, <3>1, <3>2 DEF BulkUpdated, KeepBulk, BulkInv, BulkTypeOK
  <2>5. CASE BulkCompleted
    <3>1. /\ BulkUpdated(current, bulkCache[current]) /\ bulkCache' = NoBulkCache
          /\ Exists(bulkCache[current])
      BY <2>5, UpdatesSucceed DEF BulkCompleted, UnfailingInv, Uninterrupted
    <3>2. \A b \in Bulks : ~Exists(NoBulkCache[b])
      BY DEF NoBulkCache, NoBulk, Exists
    <3> QED
      BY <2>2, <3>1, <3>2 DEF BulkUpdated, BulkInv, BulkTypeOK
  <2> QED
    BY <2>3, <2>4, <2>5
<1>3. \A b \in Bulks : Taken(b)' = Taken(b)
  BY <1>1 DEF Taken, PrepareOf
<1>4. AddedOnce'
  BY <1>1, <1>2, <1>3 DEF UnfailingInv, AddedOnce
<1>5. PreparesOnce'
  BY <1>1 DEF UnfailingInv, PreparesOnce, PrepareOf
<1>6. Uninterrupted'
  BY <1>1 DEF UnfailingInv, Uninterrupted, Continuous
<1> QED
  BY <1>4, <1>5, <1>6 DEF UnfailingInv, NothingFails

LEMMA AddingUnfailing ==
    ASSUME BulkInv, ToldInv, UnfailingInv, Adding
    PROVE  UnfailingInv'
<1>1. PICK b \in Bulks : AddChecked(b) \/ AddInserted(b)
  BY DEF Adding
<1>2. UNCHANGED <<topic, cursor, offset, batchEnd, pc, failed, faults, cache, abResponses, bulkCache, current>>
  BY <1>1 DEF AddChecked, AddInserted, vars, input, control, memory, queues
<1>3. \A c \in Bulks : Taken(c)' = Taken(c)
  BY <1>2 DEF Taken, PrepareOf
<1>4. /\ adding \in [Bulks -> [checks : Nat, inserts : Nat]] /\ bulks \in [Bulks -> BulkDoc]
      /\ Exists(NewBulk)
  BY DEF BulkInv, BulkTypeOK, NewBulk, NoBulk, Exists
<1>5. ASSUME NEW c \in Bulks
      PROVE  /\ adding'[c].checks + adding'[c].inserts <= 1
             /\ adding'[c].checks + adding'[c].inserts > 0 => ~Exists(bulks'[c]) /\ Taken(c)
             /\ Exists(bulks'[c]) => Taken(c)
             /\ Exists(bulkCache[c]) => Exists(bulks'[c])
  <2>1. /\ adding[c].checks + adding[c].inserts <= 1
        /\ adding[c].checks + adding[c].inserts > 0 => ~Exists(bulks[c]) /\ Taken(c)
        /\ Exists(bulks[c]) => Taken(c)
        /\ Exists(bulkCache[c]) => Exists(bulks[c])
        /\ adding[c].checks \in Nat /\ adding[c].inserts \in Nat
    BY <1>4 DEF UnfailingInv, AddedOnce
  <2>2. CASE c # b
    <3>1. adding'[c] = adding[c] /\ bulks'[c] = bulks[c]
      BY <1>1, <1>4, <2>2 DEF AddChecked, AddInserted
    <3> QED
      BY <2>1, <3>1
  <2>3. CASE c = b /\ AddChecked(b)
    <3>1. /\ adding'[c].checks = adding[c].checks - 1 /\ adding'[c].inserts = adding[c].inserts + 1
          /\ bulks' = bulks /\ adding[c].checks > 0
      BY <1>4, <2>3 DEF AddChecked
    <3> QED
      BY <2>1, <3>1
  <2>4. CASE c = b /\ AddInserted(b)
    <3>1. /\ adding'[c].checks = adding[c].checks /\ adding'[c].inserts = adding[c].inserts - 1
          /\ Exists(bulks'[c]) /\ adding[c].inserts > 0
      BY <1>4, <2>4 DEF AddInserted
    <3> QED
      BY <2>1, <3>1
  <2> QED
    BY <1>1, <2>2, <2>3, <2>4
<1>6. AddedOnce'
  BY <1>2, <1>3, <1>5 DEF AddedOnce
<1>7. PreparesOnce' /\ Uninterrupted'
  BY <1>2 DEF UnfailingInv, PreparesOnce, Uninterrupted, PrepareOf, EmptyCache
<1> QED
  BY <1>6, <1>7 DEF UnfailingInv, NothingFails

LEMMA EnvironmentUnfailing ==
    ASSUME BulkInv, ToldInv, UnfailingInv, BulkEnvironment
    PROVE  UnfailingInv'
<1> DEFINE C == [name : CommandNames \cup BulkCommandNames, id : Transfers \cup Bulks]
<1>1. PICK c \in C :
        /\ topic' = Append(topic, c)
        /\ UNCHANGED <<offset, batchEnd, cursor, pc, failed, faults, cache, abResponses, adding,
                       bulks, bulkCache, current>>
        /\ \A b \in Bulks : c = PrepareOf(b) => \A i \in DOMAIN topic : topic[i] # c
  <2>1. CASE \E name \in Inputs, t \in Transfers : Produce(name, t) /\ UNCHANGED bulkVars
    <3>1. PICK name \in Inputs, t \in Transfers : Produce(name, t) /\ UNCHANGED bulkVars
      BY <2>1
    <3>2. name \in CommandNames
      BY ConstantsAssumption
    <3>3. /\ [name |-> name, id |-> t] \in C
          /\ \A b \in Bulks : [name |-> name, id |-> t] # PrepareOf(b)
      BY <3>2 DEF CommandNames, PrepareOf
    <3> HIDE DEF C
    <3> QED
      BY <3>1, <3>3 DEF Produce, control, memory, queues, world, bulkVars, bulkState
  <2>2. CASE \E name \in BulkInputs, b \in Bulks : BulkProduce(name, b)
    <3>1. PICK name \in BulkInputs, b \in Bulks : BulkProduce(name, b)
      BY <2>2
    <3>2. name \in BulkCommandNames /\ PayerOnce
      BY BulkConstantsAssumption DEF UnfailingInv, NothingFails
    <3> DEFINE c == [name |-> name, id |-> b]
    <3>3. c \in C /\ \A d \in Bulks : c = PrepareOf(d) => name = "PrepareBulkTransferCmd"
      BY <3>2 DEF PrepareOf
    <3>4. name = "PrepareBulkTransferCmd" => \A i \in DOMAIN topic : topic[i] # c
      BY <3>1, <3>2 DEF BulkProduce, Ordered
    <3>5. topic' = Append(topic, c)
      BY <3>1 DEF BulkProduce
    <3> HIDE DEF C, c
    <3> QED
      BY <3>1, <3>3, <3>4, <3>5 DEF BulkProduce, control, memory, queues, world, bulkVars, bulkState
  <2> QED
    BY <2>1, <2>2, NoRestart DEF BulkEnvironment
<1>2. topic \in Seq(C) /\ cursor \in Nat /\ cursor <= Len(topic)
  BY LenProperties DEF ToldInv, Positions
<1> HIDE DEF C
<1>3. /\ DOMAIN topic = 1..Len(topic) /\ Len(topic) \in Nat
      /\ DOMAIN topic' = 1..(Len(topic) + 1)
      /\ \A i \in 1..Len(topic) : topic'[i] = topic[i]
      /\ topic'[Len(topic) + 1] = c
  BY <1>1, <1>2
<1>4. \A b \in Bulks : Taken(b)' = Taken(b)
  <2>1. \A i \in 1..cursor : topic'[i] = topic[i]
    BY <1>2, <1>3
  <2> QED
    BY <1>1, <2>1 DEF Taken, PrepareOf
<1>5. AddedOnce'
  BY <1>1, <1>4 DEF UnfailingInv, AddedOnce
<1>6. PreparesOnce'
  <2>1. ASSUME NEW b \in Bulks, NEW i \in 1..(Len(topic) + 1), NEW j \in 1..(Len(topic) + 1),
               topic'[i] = PrepareOf(b), topic'[j] = PrepareOf(b)
        PROVE  i = j
    <3>1. \A k \in 1..Len(topic) : \A l \in 1..Len(topic) :
            topic[k] = PrepareOf(b) /\ topic[l] = PrepareOf(b) => k = l
      BY <1>3 DEF UnfailingInv, PreparesOnce
    <3>2. c = PrepareOf(b) => \A k \in 1..Len(topic) : topic[k] # PrepareOf(b)
      BY <1>1, <1>3
    <3> QED
      BY <1>3, <2>1, <3>1, <3>2
  <2> QED
    BY <1>3, <2>1 DEF PreparesOnce, PrepareOf
<1>7. Uninterrupted'
  BY <1>1 DEF UnfailingInv, Uninterrupted, EmptyCache
<1> QED
  BY <1>5, <1>6, <1>7 DEF UnfailingInv, NothingFails

LEMMA UnfailingInit == NothingFails /\ BulkInit => UnfailingInv
<1> SUFFICES ASSUME NothingFails, BulkInit PROVE UnfailingInv
  OBVIOUS
<1>1. PreparesOnce /\ Uninterrupted
  BY DEF BulkInit, Init, PreparesOnce, Uninterrupted
<1>2. AddedOnce
  BY DEF BulkInit, AddedOnce, NoAdding, NoBulkCache, NoBulk, Exists
<1> QED
  BY <1>1, <1>2 DEF UnfailingInv

LEMMA UnfailingNext == BulkInv /\ ToldInv /\ UnfailingInv /\ [BulkNext]_allVars => UnfailingInv'
<1> SUFFICES ASSUME BulkInv, ToldInv, UnfailingInv, [BulkNext]_allVars PROVE UnfailingInv'
  OBVIOUS
<1>1. CASE UNCHANGED allVars
  <2>1. UNCHANGED <<topic, cursor, offset, batchEnd, pc, failed, faults, cache, abResponses,
                    adding, bulks, bulkCache, current>>
    BY <1>1 DEF allVars, vars, input, control, memory, queues, bulkVars, bulkState
  <2>2. Uninterrupted'
    BY <2>1 DEF UnfailingInv, Uninterrupted, EmptyCache
  <2> QED
    BY <2>1, <2>2, UnfailingKept DEF ToldInv, Positions
<1> QED
  BY <1>1, NoRestart, SharedUnfailing, BulkCommandUnfailing, MemberUnfailing,
     BulkContinueUnfailing, RestUnfailing, AddingUnfailing, EnvironmentUnfailing
  DEF BulkNext, BulkProcess

\* Without faults each batch is taken to its end, and each bulk transfer is added once.
LEMMA UnfailingInvariant == NothingFails /\ BulkSpec => []UnfailingInv
BY UnfailingInit, UnfailingNext, ToldInvariant, BulkInductiveInvariant, PTL DEF BulkSpec

\* The payee waits, or nothing fails.
OrderlyInv == PayeeWaitsToBeTold \/ UnfailingInv

LEMMA OrderlyInvariant == (PayeeWaitsToBeTold \/ NothingFails) /\ BulkSpec => []OrderlyInv
<1>1. (PayeeWaitsToBeTold \/ NothingFails) /\ BulkInit => OrderlyInv
  BY UnfailingInit DEF OrderlyInv
<1>2. BulkInv /\ ToldInv /\ OrderlyInv /\ [BulkNext]_allVars => OrderlyInv'
  BY UnfailingNext DEF OrderlyInv, PayeeWaitsToBeTold
<1> QED
  BY <1>1, <1>2, ToldInvariant, BulkInductiveInvariant, PTL DEF BulkSpec

-----------------------------------------------------------------------------
(* What is counted as prepared.                                             *)

Outcomes == {"RESERVED", "COMMITTED", "ABORTED"}

StoredOutcomes == {t \in Transfers : transfers[t].state \in Outcomes}
StoredFinals   == {t \in Transfers : transfers[t].state \in FinalStates}

\* What t is, or will be when the cache is flushed.
Coming(t) == IF Present(cache[t]) THEN cache[t] ELSE transfers[t]

ComingOutcomes == {t \in Transfers : Coming(t).state \in Outcomes}
ComingFinals   == {t \in Transfers : Coming(t).state \in FinalStates}

\* What is cached does not undo what is stored.
OutcomesStay ==
    /\ StoredOutcomes \subseteq ComingOutcomes
    /\ StoredFinals \subseteq ComingFinals

Listed(s) == {s[i] : i \in DOMAIN s}

\* Transfers that are kept, but neither stored nor counted yet.
Fresh ==
    {t \in Transfers :
        /\ ~Present(transfers[t])
        /\ Present(cache[t])
        /\ \A b \in Bulks : t \notin Listed(bulkCache[b].prepared) \cup Listed(bulks[b].prepared)}

\* The reservations asked for are of such transfers, each asked for once.
ReservesOf(requests, fresh) ==
    \A i \in DOMAIN requests : requests[i].type = "reserve" =>
        /\ requests[i].id \in fresh
        /\ \A j \in DOMAIN requests :
              requests[j].type = "reserve" /\ requests[j].id = requests[i].id => i = j

Asking     == {"commands", "members", "accounts"}
Continued  == Continuous \cup {"cancellations", "flush"}

ReservesNew ==
    /\ pc \in Asking => ReservesOf(abRequests, Fresh)
    /\ pc \in Continuous => ReservesOf(abResponses, Fresh)

\* What is counted as prepared was answered by A&B; when the payee waits, what is counted
\* in the collection is stored.
CountedPrepared ==
    \A b \in Bulks :
        /\ NoRepeats(bulkCache[b].prepared) /\ NoRepeats(bulks[b].prepared)
        /\ Listed(bulkCache[b].prepared) \subseteq MembersOf(b) \cap ComingOutcomes
        /\ Listed(bulks[b].prepared) \subseteq MembersOf(b) \cap ComingOutcomes
        /\ PayeeWaitsToBeTold => Listed(bulks[b].prepared) \subseteq StoredOutcomes

\* A bulk transfer announced as prepared has all its transfers stored.
ToldStored == \A b \in Told : MembersOf(b) \subseteq StoredOutcomes

\* The bulk transfers that are announced as prepared when the batch is sent.
ToTell == {b \in Bulks : [name |-> "BulkTransferPreparedEvt", id |-> b] \in outputEvents}

\* None before the responses are continued; then those whose transfers are all answered,
\* and are stored by the flush.
ToTellStored ==
    /\ pc \in Asking => ToTell = {}
    /\ pc \in Continued => \A b \in ToTell : MembersOf(b) \subseteq ComingOutcomes
    /\ pc = "send" => \A b \in ToTell : MembersOf(b) \subseteq StoredOutcomes

PreparedInv ==
    /\ OutcomesStay
    /\ ReservesNew
    /\ CountedPrepared
    /\ ToldStored
    /\ ToTellStored

-----------------------------------------------------------------------------
(* What the steps before the flush do to individual transfers.              *)

Advance ==
    /\ OutcomesStay'
    /\ StoredOutcomes \subseteq StoredOutcomes'
    /\ StoredFinals \subseteq StoredFinals'
    /\ ComingOutcomes \subseteq ComingOutcomes'
    /\ \A t \in Transfers :
          /\ Present(transfers'[t]) <=> Present(transfers[t])
          /\ Present(cache[t]) => Present(cache'[t])
          /\ Present(transfers[t]) /\ t \in ComingFinals => t \in ComingFinals'

\* A document a handler may keep for t: as found, final, new, or an outcome of a transfer
\* that is not stored.
Fits(t, d) ==
    \/ d.state = Found(t).state
    \/ d.state \in FinalStates
    \/ d.state \in Outcomes /\ ~Present(transfers[t])
    \/ ~Present(Found(t))

LEMMA IdleAdvances ==
    ASSUME OutcomesStay, UNCHANGED <<cache, transfers>>
    PROVE  Advance
BY DEF Advance, OutcomesStay, StoredOutcomes, StoredFinals, ComingOutcomes, ComingFinals, Coming

\* _getTransfer, as far as states go.
LEMMA FoundState ==
    ASSUME Documents, NEW t \in Transfers
    PROVE  /\ Found(t).state = Coming(t).state
           /\ Found(t) \in Doc
           /\ Present(transfers[t]) => Present(Found(t))
<1>1. cache[t] \in Doc /\ transfers[t] \in Doc /\ Found(t) \in Doc
  BY FoundDocument DEF Documents
<1>2. Mapped(transfers[t]).state = transfers[t].state
  BY <1>1, DocStates DEF States, ErrorCodes
<1>3. t \in Cached <=> Present(cache[t])
  BY DEF Cached
<1>4. CASE Present(cache[t])
  BY <1>1, <1>3, <1>4 DEF Found, Coming
<1>5. CASE ~Present(cache[t])
  <2>1. Found(t) = Mapped(transfers[t]) /\ Coming(t) = transfers[t]
    BY <1>3, <1>5 DEF Found, Coming
  <2> QED
    BY <1>1, <1>2, <2>1 DEF Present
<1> QED
  BY <1>4, <1>5

\* A handler that keeps such a document, and at most stores an aborted transfer that is
\* stored already.
LEMMA KeepAdvances ==
    ASSUME Documents, OutcomesStay, NEW t \in Transfers, NEW d \in Doc, Keep(t, d), Fits(t, d),
           NEW e \in Doc, e.state = "ABORTED",
           \/ UNCHANGED transfers
           \/ /\ Present(transfers[t])
              /\ d.state = "ABORTED"
              /\ transfers' = [transfers EXCEPT ![t] = e]
    PROVE  Advance
<1>1. /\ cache'[t] = d
      /\ \A u \in Transfers \ {t} : cache'[u] = cache[u]
  BY DEF Keep, Documents
<1>2. /\ \/ transfers'[t] = transfers[t]
         \/ Present(transfers[t]) /\ d.state = "ABORTED" /\ transfers'[t].state = "ABORTED"
      /\ \A u \in Transfers \ {t} : transfers'[u] = transfers[u]
  BY DEF Documents
<1>3. /\ Found(t).state = Coming(t).state
      /\ Present(transfers[t]) => Present(Found(t))
      /\ Coming(t).state \in Outcomes => Present(Found(t))
      /\ Present(cache[t]) => Present(Found(t))
  BY FoundState DEF Coming, Present, Outcomes
<1>4. /\ transfers[t].state \in Outcomes => Coming(t).state \in Outcomes
      /\ transfers[t].state \in FinalStates => Coming(t).state \in FinalStates
  BY DEF OutcomesStay, StoredOutcomes, StoredFinals, ComingOutcomes, ComingFinals
<1>5. /\ Coming(t).state \in Outcomes => d.state \in Outcomes
      /\ Present(transfers[t]) /\ Coming(t).state \in FinalStates => d.state \in FinalStates
      /\ Present(cache[t]) => Present(d)
  BY <1>3 DEF Fits, Present, Outcomes, FinalStates
<1>6. /\ transfers[t].state \in Outcomes => transfers'[t].state \in Outcomes
      /\ transfers[t].state \in FinalStates => transfers'[t].state \in FinalStates
      /\ Present(transfers'[t]) <=> Present(transfers[t])
  BY <1>2 DEF Outcomes, FinalStates, Present
<1>7. /\ Coming(t).state \in Outcomes => Coming(t)'.state \in Outcomes
      /\ Present(transfers[t]) /\ Coming(t).state \in FinalStates => Coming(t)'.state \in FinalStates
      /\ transfers'[t].state \in Outcomes => Coming(t)'.state \in Outcomes
      /\ transfers'[t].state \in FinalStates => Coming(t)'.state \in FinalStates
  <2>1. CASE Present(d)
    <3>1. Coming(t)' = d
      BY <1>1, <2>1 DEF Coming
    <3> QED
      BY <1>2, <1>4, <1>5, <3>1 DEF Outcomes, FinalStates, Present
  <2>2. CASE ~Present(d)
    <3>1. Coming(t)' = transfers'[t]
      BY <1>1, <2>2 DEF Coming
    <3>2. ~Present(cache[t])
      BY <1>5, <2>2
    <3> QED
      BY <1>5, <1>6, <2>2, <3>1, <3>2 DEF Coming, Outcomes, FinalStates, Present
  <2> QED
    BY <2>1, <2>2
<1>8. \A u \in Transfers \ {t} :
        cache'[u] = cache[u] /\ transfers'[u] = transfers[u] /\ Coming(u)' = Coming(u)
  BY <1>1, <1>2 DEF Coming
<1>9. OutcomesStay'
  BY <1>7, <1>8 DEF OutcomesStay, StoredOutcomes, StoredFinals, ComingOutcomes, ComingFinals
<1> QED
  BY <1>1, <1>5, <1>6, <1>7, <1>8, <1>9
  DEF Advance, StoredOutcomes, StoredFinals, ComingOutcomes, ComingFinals

\* One that stores nothing.
LEMMA KeepOnlyAdvances ==
    ASSUME Documents, OutcomesStay, NEW t \in Transfers, NEW d \in Doc, Keep(t, d), Fits(t, d),
           UNCHANGED transfers
    PROVE  Advance
<1>1. PICK e \in Doc : e.state = "ABORTED"
  <2>1. Aborted(NoDoc, "none") \in Doc /\ Aborted(NoDoc, "none").state = "ABORTED"
    BY DEF Aborted, InState, NoDoc, Doc, States, ErrorCodes
  <2> QED
    BY <2>1
<1> QED
  BY <1>1, KeepAdvances

\* Each outcome of _cancelTransfer.
LEMMA CancelAdvances ==
    ASSUME Documents, OutcomesStay, NEW t \in Transfers, NEW d \in Doc, NEW code \in ErrorCodes,
           Fits(t, d),
           CancelRefused(t, d) \/ CancelUnsaved(t, d, code) \/ CancelSaved(t, d, code)
    PROVE  Advance
<1> DEFINE a == Aborted(d, code)
<1>1. a \in Doc /\ a.state = "ABORTED"
  BY DocTypes, DocStates DEF States
<1>2. Saved(a) \in Doc /\ Saved(a).state = "ABORTED"
  BY <1>1, DocTypes, DocStates DEF States, ErrorCodes
<1>3. transfers[t] \in Doc
  BY DEF Documents
<1>4. Updated(a, t) \in Doc /\ Updated(a, t).state = "ABORTED"
  BY <1>2, <1>3 DEF Updated, Doc
<1>5. CASE CancelRefused(t, d)
  BY <1>5, KeepOnlyAdvances DEF CancelRefused
<1>6. CASE CancelUnsaved(t, d, code)
  <2>1. Keep(t, a) /\ UNCHANGED transfers
    BY <1>6 DEF CancelUnsaved
  <2> HIDE DEF a
  <2>2. Fits(t, a)
    BY <1>1 DEF Fits, FinalStates
  <2> QED
    BY <1>1, <2>1, <2>2, KeepOnlyAdvances
<1>7. CASE CancelSaved(t, d, code)
  <2>1. /\ Keep(t, Saved(a)) /\ transfers' = [transfers EXCEPT ![t] = Updated(a, t)]
        /\ Present(transfers[t])
    BY <1>7 DEF CancelSaved
  <2> HIDE DEF a
  <2>2. Fits(t, Saved(a))
    BY <1>2 DEF Fits, FinalStates
  <2> QED
    BY <1>2, <1>4, <2>1, <2>2, KeepAdvances
<1> QED
  BY <1>5, <1>6, <1>7

-----------------------------------------------------------------------------
(* The handlers of a bulk command's individual transfers.                   *)

LEMMA MemberAdvances ==
    ASSUME BulkInv, ToldInv, OutcomesStay, NEW t \in Transfers, MemberCommand(t)
    PROVE  Advance
<1>1. Documents /\ OutcomesStay
  BY DEF BulkInv, MembersInv
<1>2. Found(t) \in Doc /\ Fits(t, Found(t))
  BY <1>1, FoundState DEF Fits
<1> DEFINE r == [Found(t) EXCEPT !.errorCode = "participants"]
<1>3. r \in Doc /\ Fits(t, r) /\ "participants" \in ErrorCodes /\ "rejected" \in ErrorCodes
  BY <1>2 DEF Doc, ErrorCodes, Fits
<1>4. CASE MemberUnread(t)
  BY <1>1, <1>4, IdleAdvances DEF MemberUnread, ReadFails
<1>5. CASE MemberDuplicate(t)
  BY <1>1, <1>2, <1>5, KeepOnlyAdvances DEF MemberDuplicate, Answer, Ignore
<1>6. CASE MemberPrepareRefused(t) \/ MemberPrepareAccepted(t) \/ MemberFulfilNotFound(t)
  <2>1. PICK d \in {NewTransfer("participants"), NewTransfer("none"), NoDoc} :
          Keep(t, d) /\ UNCHANGED transfers /\ ~Present(Found(t))
    BY <1>6 DEF MemberPrepareRefused, MemberPrepareAccepted, MemberFulfilNotFound, Answer
  <2>2. NewTransfer("participants") \in Doc /\ NewTransfer("none") \in Doc /\ NoDoc \in Doc
    BY DEF NewTransfer, NoDoc, Doc, States, ErrorCodes
  <2>3. d \in Doc
    BY <2>2
  <2> QED
    BY <1>1, <2>1, <2>3, KeepOnlyAdvances DEF Fits
<1>7. CASE MemberFulfilRefused(t)
  <2>1. CancelBecause(t, r, "participants", "ParticipantCheckFailedEvt")
    BY <1>7 DEF MemberFulfilRefused
  <2> HIDE DEF r
  <2> QED
    BY <1>1, <1>3, <2>1, CancelAdvances DEF CancelBecause, CancelFails
<1>8. CASE MemberFulfilAccepted(t)
  BY <1>1, <1>2, <1>8, KeepOnlyAdvances DEF MemberFulfilAccepted
<1>9. CASE MemberRejectRefused(t)
  <2>1. Keep(t, r) /\ UNCHANGED transfers
    BY <1>9 DEF MemberRejectRefused, Answer
  <2> HIDE DEF r
  <2> QED
    BY <1>1, <1>3, <2>1, KeepOnlyAdvances
<1>10. CASE MemberRejected(t)
  <2> DEFINE d == Aborted(Found(t), "rejected")
  <2>1. d \in Doc /\ d.state = "ABORTED"
    BY <1>2, <1>3, DocTypes, DocStates DEF States
  <2>2. Updated(d, t) \in Doc /\ Updated(d, t).state = "ABORTED"
    <3>1. transfers[t] \in Doc /\ Saved(d) \in Doc /\ Saved(d).state = "ABORTED"
      BY <1>1, <1>3, <2>1, DocTypes, DocStates DEF Documents, States
    <3> QED
      BY <3>1 DEF Updated, Doc
  <2>3. Present(transfers[t])
    <3>1. Member("RejectBulkTransferCmd", t)
      BY <1>10 DEF MemberRejected
    <3> QED
      BY <3>1, MemberOfTold
  <2>4. CASE CancelFails(t, Found(t), "rejected") \/ CancelSaved(t, Found(t), "rejected")
    BY <1>1, <1>2, <1>3, <2>4, CancelAdvances DEF CancelFails
  <2>5. CASE Keep(t, d) /\ transfers' = [transfers EXCEPT ![t] = Updated(d, t)]
    <3> HIDE DEF d
    <3>1. Fits(t, d)
      BY <2>1 DEF Fits, FinalStates
    <3> QED
      BY <1>1, <2>1, <2>2, <2>3, <2>5, <3>1, KeepAdvances
  <2> QED
    BY <1>10, <2>4, <2>5 DEF MemberRejected
<1> QED
  BY <1>4, <1>5, <1>6, <1>7, <1>8, <1>9, <1>10 DEF MemberCommand

-----------------------------------------------------------------------------
(* How PreparedInv is preserved.                                            *)

\* The lists a step leaves behind: those of the cache or the collection, or none; what is
\* newly stored is the list of a bulk transfer a waiting payee was told of.
PreparedFrom ==
    \A b \in Bulks :
        /\ bulkCache'[b].prepared \in {bulkCache[b].prepared, bulks[b].prepared, <<>>}
        /\ \/ bulks'[b].prepared \in {bulks[b].prepared, <<>>}
           \/ /\ bulks'[b].prepared = bulkCache[b].prepared
              /\ PayeeWaitsToBeTold => b \in Told

LEMMA PreparedFrame ==
    ASSUME PreparedInv, Advance, PreparedFrom
    PROVE  /\ CountedPrepared'
           /\ \A b \in Told : MembersOf(b) \subseteq StoredOutcomes'
           /\ Fresh \subseteq Fresh'
<1>1. /\ StoredOutcomes \subseteq ComingOutcomes
      /\ StoredOutcomes \subseteq StoredOutcomes'
      /\ ComingOutcomes \subseteq ComingOutcomes'
  BY DEF PreparedInv, OutcomesStay, Advance
<1>2. \A b \in Told : MembersOf(b) \subseteq StoredOutcomes
  BY DEF PreparedInv, ToldStored
<1>3. NoRepeats(<<>>) /\ Listed(<<>>) = {}
  BY DEF NoRepeats, Listed
<1>4. CountedPrepared'
  <2>1. ASSUME NEW b \in Bulks
        PROVE  /\ NoRepeats(bulkCache'[b].prepared) /\ NoRepeats(bulks'[b].prepared)
               /\ Listed(bulkCache'[b].prepared) \subseteq MembersOf(b) \cap ComingOutcomes'
               /\ Listed(bulks'[b].prepared) \subseteq MembersOf(b) \cap ComingOutcomes'
               /\ PayeeWaitsToBeTold => Listed(bulks'[b].prepared) \subseteq StoredOutcomes'
    <3>1. /\ NoRepeats(bulkCache[b].prepared) /\ NoRepeats(bulks[b].prepared)
          /\ Listed(bulkCache[b].prepared) \subseteq MembersOf(b) \cap ComingOutcomes
          /\ Listed(bulks[b].prepared) \subseteq MembersOf(b) \cap ComingOutcomes
          /\ PayeeWaitsToBeTold => Listed(bulks[b].prepared) \subseteq StoredOutcomes
      BY DEF PreparedInv, CountedPrepared
    <3>2. NoRepeats(bulkCache'[b].prepared) /\ NoRepeats(bulks'[b].prepared)
      BY <1>3, <3>1 DEF PreparedFrom
    <3>3. Listed(bulkCache'[b].prepared) \subseteq MembersOf(b) \cap ComingOutcomes'
      <4>1. Listed(bulkCache'[b].prepared) \in
              {Listed(bulkCache[b].prepared), Listed(bulks[b].prepared), {}}
        BY <1>3 DEF PreparedFrom
      <4> QED
        BY <1>1, <3>1, <4>1
    <3>4. /\ Listed(bulks'[b].prepared) \subseteq MembersOf(b) \cap ComingOutcomes'
          /\ PayeeWaitsToBeTold => Listed(bulks'[b].prepared) \subseteq StoredOutcomes'
      <4>1. \/ Listed(bulks'[b].prepared) \in {Listed(bulks[b].prepared), {}}
            \/ /\ Listed(bulks'[b].prepared) = Listed(bulkCache[b].prepared)
               /\ PayeeWaitsToBeTold => b \in Told
        BY <1>3 DEF PreparedFrom
      <4> QED
        BY <1>1, <1>2, <3>1, <4>1
    <3> QED
      BY <3>2, <3>3, <3>4
  <2> QED
    BY <2>1 DEF CountedPrepared, PayeeWaitsToBeTold
<1>5. Fresh \subseteq Fresh'
  <2>1. ASSUME NEW t \in Fresh, NEW b \in Bulks
        PROVE  t \notin Listed(bulkCache'[b].prepared) \cup Listed(bulks'[b].prepared)
    <3>1. t \notin Listed(bulkCache[b].prepared) \cup Listed(bulks[b].prepared)
      BY <2>1 DEF Fresh
    <3>2. /\ Listed(bulkCache'[b].prepared) \in
              {Listed(bulkCache[b].prepared), Listed(bulks[b].prepared), {}}
          /\ Listed(bulks'[b].prepared) \in
              {Listed(bulkCache[b].prepared), Listed(bulks[b].prepared), {}}
      BY <1>3 DEF PreparedFrom
    <3> QED
      BY <3>1, <3>2
  <2>2. \A t \in Fresh : ~Present(transfers'[t]) /\ Present(cache'[t]) /\ t \in Transfers
    BY DEF Fresh, Advance
  <2> QED
    BY <2>1, <2>2 DEF Fresh
<1> QED
  BY <1>1, <1>2, <1>4, <1>5

\* A step that asks A&B nothing, announces nothing and goes on within its part of the batch.
LEMMA PreparedKept ==
    ASSUME PreparedInv, Advance, PreparedFrom, UNCHANGED published,
           ToTell' \subseteq ToTell,
           pc' \in Asking => pc \in Asking /\ UNCHANGED abRequests,
           pc' \in Continuous => pc \in Continuous /\ UNCHANGED abResponses,
           pc' \in Continued => pc \in Asking \cup Continued,
           pc' = "send" => pc = "send"
    PROVE  PreparedInv'
<1>1. /\ CountedPrepared'
      /\ \A b \in Told : MembersOf(b) \subseteq StoredOutcomes'
      /\ Fresh \subseteq Fresh'
  BY PreparedFrame
<1>2. UNCHANGED Told
  BY DEF Told, BulkPublished
<1>3. ReservesNew'
  BY <1>1 DEF PreparedInv, ReservesNew, ReservesOf
<1>4. ToTellStored'
  BY DEF PreparedInv, ToTellStored, Advance
<1> QED
  BY <1>1, <1>2, <1>3, <1>4 DEF PreparedInv, ToldStored, Advance

\* The counts of a step that leaves bulk transfers alone.
LEMMA IdlePrepared ==
    ASSUME UNCHANGED <<bulks, bulkCache>>
    PROVE  PreparedFrom
BY DEF PreparedFrom

\* An event about something else.
LEMMA OtherEvent ==
    ASSUME NEW name, NEW id, Emit(name, id), name # "BulkTransferPreparedEvt"
    PROVE  ToTell' = ToTell
BY DEF Emit, ToTell

\* The flush stores what was cached, all of it, or a part of it before the process dies.
LEMMA FlushStores ==
    ASSUME BulkInv, OutcomesStay, Flush, UNCHANGED bulkVars
    PROVE  /\ UNCHANGED <<bulks, bulkCache, published, outputEvents>> /\ pc = "flush"
           /\ StoredOutcomes \subseteq StoredOutcomes' /\ StoredFinals \subseteq StoredFinals'
           /\ \A t \in Transfers : Present(transfers[t]) => Present(transfers'[t])
           /\ OutcomesStay'
           /\ ComingOutcomes' = ComingOutcomes /\ ComingFinals' = ComingFinals
           /\ \/ pc' = "dying"
              \/ /\ pc' = "send"
                 /\ StoredOutcomes' = ComingOutcomes /\ StoredFinals' = ComingFinals
<1>1. PICK ids \in SUBSET Cached :
        /\ transfers' = Stored(ids)
        /\ \/ UNCHANGED cache /\ pc' = "dying"
           \/ cache' = EmptyCache /\ pc' = "send" /\ ids = Cached
  BY DEF Flush
<1>2. UNCHANGED <<bulks, bulkCache, published, outputEvents>> /\ pc = "flush"
  BY DEF Flush, bulkVars, bulkState, queues
<1>3. \A t \in Transfers :
        /\ t \in ids => Present(cache[t]) /\ transfers'[t].state = cache[t].state
        /\ t \notin ids => transfers'[t] = transfers[t]
  <2>1. \A t \in Transfers : Saved(cache[t]).state = cache[t].state
    BY DocStates DEF BulkInv, MembersInv, Documents, States, ErrorCodes
  <2> QED
    BY <1>1, <2>1 DEF Stored, Cached
<1>4. /\ StoredOutcomes \subseteq StoredOutcomes'
      /\ StoredFinals \subseteq StoredFinals'
      /\ \A t \in Transfers : Present(transfers[t]) => Present(transfers'[t])
  BY <1>3 DEF OutcomesStay, StoredOutcomes, StoredFinals, ComingOutcomes,
              ComingFinals, Coming, Present
<1>5. CASE UNCHANGED cache /\ pc' = "dying"
  <2>1. \A t \in Transfers : Coming(t)'.state = Coming(t).state
    BY <1>3, <1>5 DEF Coming
  <2>2. ComingOutcomes' = ComingOutcomes /\ ComingFinals' = ComingFinals
    BY <2>1 DEF ComingOutcomes, ComingFinals
  <2>3. OutcomesStay'
    BY <1>3, <1>5 DEF OutcomesStay, StoredOutcomes, StoredFinals, ComingOutcomes,
                      ComingFinals, Coming
  <2> QED
    BY <1>2, <1>4, <1>5, <2>2, <2>3
<1>6. CASE cache' = EmptyCache /\ pc' = "send" /\ ids = Cached
  <2>1. \A t \in Transfers : ~Present(cache'[t]) /\ Coming(t)' = transfers'[t]
    BY <1>6 DEF EmptyCache, Present, NoDoc, Coming
  <2>2. \A t \in Transfers : transfers'[t].state = Coming(t).state
    BY <1>3, <1>6 DEF Cached, Coming
  <2>3. /\ ComingOutcomes' = ComingOutcomes /\ StoredOutcomes' = ComingOutcomes
        /\ ComingFinals' = ComingFinals /\ StoredFinals' = ComingFinals
    BY <2>1, <2>2 DEF StoredOutcomes, StoredFinals, ComingOutcomes, ComingFinals
  <2>4. OutcomesStay'
    BY <2>3 DEF OutcomesStay
  <2> QED
    BY <1>2, <1>4, <1>6, <2>3, <2>4
<1> QED
  BY <1>1, <1>5, <1>6

LEMMA FlushPrepared ==
    ASSUME BulkInv, ToldInv, PreparedInv, Flush, UNCHANGED bulkVars
    PROVE  PreparedInv'
<1>1. OutcomesStay
  BY DEF PreparedInv
<1>2. CountedPrepared' /\ ToldStored'
  BY <1>1, FlushStores DEF PreparedInv, CountedPrepared, ToldStored, Told, BulkPublished,
                           PayeeWaitsToBeTold
<1>3. ReservesNew'
  BY <1>1, FlushStores DEF ReservesNew, Asking, Continuous
<1>4. ToTellStored'
  BY <1>1, FlushStores DEF PreparedInv, ToTellStored, ToTell, Asking, Continuous, Continued
<1> QED
  BY <1>1, <1>2, <1>3, <1>4, FlushStores DEF PreparedInv

\* What is announced is stored.
LEMMA SendPrepared ==
    ASSUME PreparedInv, Send, UNCHANGED bulkVars
    PROVE  PreparedInv'
<1>1. /\ UNCHANGED <<bulks, bulkCache, cache, transfers>>
      /\ published' \subseteq published \cup outputEvents
      /\ pc = "send" /\ pc' \in {"dying", "acknowledge"}
  BY DEF Send, bulkVars, bulkState, memory
<1>2. Told' \subseteq Told \cup ToTell
  BY <1>1 DEF Told, ToTell, BulkPublished
<1>3. \A b \in ToTell : MembersOf(b) \subseteq StoredOutcomes
  BY <1>1 DEF PreparedInv, ToTellStored
<1>4. UNCHANGED <<StoredOutcomes, StoredFinals, ComingOutcomes, ComingFinals>>
  BY <1>1 DEF StoredOutcomes, StoredFinals, ComingOutcomes, ComingFinals, Coming
<1>5. ToldStored'
  BY <1>2, <1>3, <1>4 DEF PreparedInv, ToldStored
<1>6. OutcomesStay' /\ CountedPrepared'
  BY <1>1, <1>4 DEF PreparedInv, OutcomesStay, CountedPrepared, PayeeWaitsToBeTold
<1>7. ReservesNew' /\ ToTellStored'
  BY <1>1 DEF ReservesNew, ToTellStored, Asking, Continuous, Continued
<1> QED
  BY <1>5, <1>6, <1>7 DEF PreparedInv

LEMMA SharedPrepared ==
    ASSUME BulkInv, ToldInv, PreparedInv, Shared
    PROVE  PreparedInv'
<1>0. UNCHANGED bulkVars /\ PreparedFrom /\ OutcomesStay
  BY IdlePrepared DEF Shared, bulkVars, bulkState, PreparedInv
<1>1. CASE \E n \in 1..BatchSize : StartBatch(n)
  <2>1. /\ UNCHANGED <<cache, transfers, published>>
        /\ pc' = "commands" /\ abRequests' = <<>> /\ outputEvents' = {}
    BY <1>1 DEF StartBatch, world
  <2>2. Advance
    BY <1>0, <2>1, IdleAdvances
  <2>3. CountedPrepared' /\ ToldStored'
    BY <1>0, <2>1, <2>2, PreparedFrame DEF ToldStored, Told, BulkPublished
  <2>4. ReservesNew' /\ ToTellStored'
    BY <2>1 DEF ReservesNew, ReservesOf, ToTellStored, ToTell, Asking, Continuous, Continued
  <2> QED
    BY <2>2, <2>3, <2>4 DEF PreparedInv, Advance
<1>2. CASE \E t \in Transfers : Query(t)
  <2>1. PICK t \in Transfers : Query(t)
    BY <1>2
  <2>2. Handling("QueryTransferCmd", t) /\ UNCHANGED abRequests
    BY <2>1 DEF Query, QueryUnread, QueryRefused, QueryAnswered, Answer
  <2>3. /\ UNCHANGED transfers /\ (UNCHANGED cache \/ Keep(t, cache[t]))
        /\ \E name \in EventNames : Emit(name, t)
    BY <2>1 DEF Query, QueryUnread, QueryRefused, QueryAnswered, Answer, EventNames
  <2>4. UNCHANGED cache
    BY <2>3 DEF Keep, BulkInv, MembersInv, Documents
  <2>5. Advance
    BY <1>0, <2>3, <2>4, IdleAdvances
  <2>6. ToTell' = ToTell
    BY <2>3, OtherEvent DEF EventNames
  <2> QED
    BY <1>0, <2>2, <2>5, <2>6, PreparedKept DEF Handling, Asking, Continuous, Continued
<1>3. CASE EndOfCommands \/ EndOfResponses \/ Cancellations \/ Acknowledge
  <2>1. UNCHANGED <<cache, transfers, published, abRequests, abResponses, outputEvents>>
    BY <1>3 DEF EndOfCommands, EndOfResponses, Cancellations, Acknowledge, memory, queues, world
  <2>2. \/ pc \in Asking /\ pc' \in {"accounts", "cancellations", "flush"}
        \/ pc \in Continued /\ pc' \in {"cancellations", "flush"}
        \/ pc' = "idle"
    BY <1>3 DEF EndOfCommands, EndOfResponses, AfterResponses, Cancellations, Acknowledge,
                Asking, Continuous, Continued
  <2>3. Advance /\ ToTell' = ToTell
    BY <1>0, <2>1, IdleAdvances DEF ToTell
  <2> QED
    BY <1>0, <2>1, <2>2, <2>3, PreparedKept DEF Asking, Continuous, Continued
<1>4. CASE \E accepted \in SUBSET (DOMAIN abRequests) : AccountsAnswer(accepted)
  <2>1. PICK accepted \in SUBSET (DOMAIN abRequests) : AccountsAnswer(accepted)
    BY <1>4
  <2>2. /\ UNCHANGED <<cache, transfers, published, outputEvents>> /\ pc = "accounts"
        /\ \/ pc' = "flush"
           \/ /\ pc' = "responses"
              /\ abResponses' = [i \in DOMAIN abRequests |-> ResponseTo(i, accepted)]
    BY <2>1 DEF AccountsAnswer
  <2>3. Advance /\ ToTell' = ToTell
    BY <1>0, <2>2, IdleAdvances DEF ToTell
  <2>4. CASE pc' = "flush"
    BY <1>0, <2>2, <2>3, <2>4, PreparedKept DEF Asking, Continuous, Continued
  <2>5. CASE /\ pc' = "responses"
             /\ abResponses' = [i \in DOMAIN abRequests |-> ResponseTo(i, accepted)]
    <3>1. CountedPrepared' /\ ToldStored' /\ Fresh \subseteq Fresh'
      BY <1>0, <2>2, <2>3, PreparedFrame DEF ToldStored, Told, BulkPublished
    <3>2. ReservesOf(abRequests, Fresh) /\ ToTell = {}
      BY <2>2 DEF PreparedInv, ReservesNew, ToTellStored, Asking
    <3>3. ReservesOf(abResponses', Fresh')
      BY <2>5, <3>1, <3>2 DEF ReservesOf, ResponseTo
    <3>4. ReservesNew' /\ ToTellStored'
      BY <2>3, <2>5, <3>2, <3>3 DEF ReservesNew, ToTellStored, Asking, Continuous
    <3> QED
      BY <2>3, <3>1, <3>4 DEF PreparedInv, Advance
  <2> QED
    BY <2>2, <2>4, <2>5
<1> QED
  BY <1>0, <1>1, <1>2, <1>3, <1>4, FlushPrepared, SendPrepared DEF Shared

\* A bulk command only reads the lists.
LEMMA BulkCommandPrepared ==
    ASSUME BulkInv, ToldInv, PreparedInv, NEW b \in Bulks, BulkCommand(b)
    PROVE  PreparedInv'
<1>1. PICK name \in BulkCommandNames : BulkHandling(name, b) /\ pc' \in {"commands", "members"}
  BY DEF BulkCommand, BulkUnread, BulkNotFound, BulkPrepareStart, BulkFulfilStart,
         BulkRejectUnlisted, BulkRejectStart, BulkQueryRefused, BulkQueryUnlisted,
         BulkQueryAnswered, BulkCommandNames, BulkAnswer, Loop, BulkHandling
<1>2. UNCHANGED outputEvents \/ \E event \in {"TransferUnableToGetBulkTransferByIdEvt",
            "BulkTransferNotFoundEvt", "ParticipantCheckFailedEvt", "TransferNotFoundEvt",
            "BulkTransferQueryResponseEvt"} : Emit(event, b)
  BY DEF BulkCommand, BulkUnread, BulkNotFound, BulkPrepareStart, BulkFulfilStart,
         BulkRejectUnlisted, BulkRejectStart, BulkQueryRefused, BulkQueryUnlisted,
         BulkQueryAnswered, BulkAnswer, Loop
<1>3. UNCHANGED bulkCache \/ \E d \in {FoundBulk(b), NoBulk,
                                       [FoundBulk(b) EXCEPT !.status = "ACCEPTED"]} : KeepBulk(b, d)
  BY DEF BulkCommand, BulkUnread, BulkNotFound, BulkPrepareStart, BulkFulfilStart,
         BulkRejectUnlisted, BulkRejectStart, BulkQueryRefused, BulkQueryUnlisted,
         BulkQueryAnswered, BulkAnswer
<1>4. /\ UNCHANGED <<cache, transfers, published, abRequests, bulks>>
      /\ pc = "commands"
  BY <1>1 DEF BulkHandling, world
<1>5. PreparedFrom
  <2>1. \A d \in {FoundBulk(b), NoBulk, [FoundBulk(b) EXCEPT !.status = "ACCEPTED"]} :
           d.prepared \in {bulkCache[b].prepared, bulks[b].prepared, <<>>}
    BY BulkDocuments DEF BulkInv, BulkDoc, FoundBulk, NoBulk
  <2> QED
    BY <1>3, <1>4, <2>1 DEF PreparedFrom, KeepBulk, BulkInv, BulkTypeOK
<1>6. Advance
  BY <1>4, IdleAdvances DEF PreparedInv
<1>7. ToTell' = ToTell
  BY <1>2, OtherEvent DEF ToTell
<1> QED
  BY <1>1, <1>4, <1>5, <1>6, <1>7, PreparedKept DEF Asking, Continuous, Continued

\* A reservation is asked for a transfer that is neither stored nor cached.
LEMMA MemberCommandPrepared ==
    ASSUME BulkInv, ToldInv, PreparedInv, NEW t \in Transfers, MemberCommand(t)
    PROVE  PreparedInv'
<1>1. PICK name \in BulkCommandNames : Member(name, t)
  BY DEF MemberCommand, MemberUnread, MemberDuplicate, MemberPrepareRefused,
         MemberPrepareAccepted, MemberFulfilNotFound, MemberFulfilRefused,
         MemberFulfilAccepted, MemberRejectRefused, MemberRejected, BulkCommandNames
<1>2. UNCHANGED <<bulks, bulkCache, pc, published>> /\ pc = "members"
  BY <1>1 DEF Member, control, bulkState
<1>3. Advance /\ PreparedFrom
  BY <1>2, MemberAdvances, IdlePrepared DEF PreparedInv
<1>4. ToTell' = ToTell
  <2>1. UNCHANGED outputEvents \/ \E event \in EventNames : Emit(event, t)
    BY DEF MemberCommand, MemberUnread, MemberDuplicate, MemberPrepareRefused,
           MemberPrepareAccepted, MemberFulfilNotFound, MemberFulfilRefused,
           MemberFulfilAccepted, MemberRejectRefused, MemberRejected, ReadFails, Answer,
           Ignore, CancelBecause, CancelFails, EventNames
  <2> QED
    BY <2>1, OtherEvent DEF EventNames, ToTell
<1>5. CASE UNCHANGED abRequests
  BY <1>2, <1>3, <1>4, <1>5, PreparedKept DEF Asking, Continuous, Continued
<1>6. CASE \E type \in {"reserve", "commit"} :
              AskAccounts(type, t) /\ (type = "reserve" => MemberPrepareAccepted(t))
  <2>1. PICK type \in {"reserve", "commit"} :
          AskAccounts(type, t) /\ (type = "reserve" => MemberPrepareAccepted(t))
    BY <1>6
  <2>2. CountedPrepared' /\ ToldStored' /\ Fresh \subseteq Fresh'
    BY <1>2, <1>3, PreparedFrame DEF ToldStored, Told, BulkPublished
  <2>3. /\ ReservesOf(abRequests, Fresh)
        /\ abRequests \in Seq(Request)
    BY <1>2 DEF PreparedInv, ReservesNew, Asking, BulkInv, MembersInv, Documents
  <2>4. /\ DOMAIN abRequests' = 1..(Len(abRequests) + 1)
        /\ DOMAIN abRequests = 1..Len(abRequests)
        /\ Len(abRequests) \in Nat
        /\ \A i \in 1..Len(abRequests) : abRequests'[i] = abRequests[i]
        /\ abRequests'[Len(abRequests) + 1] = [type |-> type, id |-> t]
    <3>1. [type |-> type, id |-> t] \in Request
      BY DEF Request
    <3> QED
      BY <2>1, <2>3, <3>1 DEF AskAccounts
  <2>5. ASSUME type = "reserve"
        PROVE  t \notin Fresh /\ t \in Fresh'
    <3>1. /\ ~Present(Found(t)) /\ Keep(t, NewTransfer("none")) /\ UNCHANGED transfers
      BY <2>1, <2>5 DEF MemberPrepareAccepted
    <3>2. ~Present(transfers[t]) /\ ~Present(Coming(t)) /\ ~Present(cache[t])
      BY <3>1, FoundState DEF BulkInv, MembersInv, Present, Coming
    <3>3. Present(cache'[t])
      BY <3>1 DEF Keep, NewTransfer, Present, BulkInv, MembersInv, Documents
    <3>4. t \notin ComingOutcomes /\ t \notin StoredOutcomes
      BY <3>2 DEF ComingOutcomes, StoredOutcomes, Outcomes, Present
    <3>5. \A b \in Bulks : t \notin Listed(bulkCache[b].prepared) \cup Listed(bulks[b].prepared)
      BY <3>4 DEF PreparedInv, CountedPrepared
    <3> QED
      BY <1>2, <3>1, <3>2, <3>3, <3>5 DEF Fresh
  <2>6. ReservesOf(abRequests', Fresh')
    <3>1. ASSUME NEW i \in 1..(Len(abRequests) + 1), abRequests'[i].type = "reserve"
          PROVE  abRequests'[i].id \in Fresh'
      BY <2>2, <2>3, <2>4, <2>5, <3>1 DEF ReservesOf
    <3>2. ASSUME NEW i \in 1..(Len(abRequests) + 1), abRequests'[i].type = "reserve",
                 NEW j \in 1..(Len(abRequests) + 1), abRequests'[j].type = "reserve",
                 abRequests'[j].id = abRequests'[i].id
          PROVE  i = j
      <4>1. CASE i \in 1..Len(abRequests) /\ j \in 1..Len(abRequests)
        BY <2>3, <2>4, <3>2, <4>1 DEF ReservesOf
      <4>2. CASE i = Len(abRequests) + 1 /\ j \in 1..Len(abRequests)
        BY <2>3, <2>4, <2>5, <3>2, <4>2 DEF ReservesOf
      <4>3. CASE j = Len(abRequests) + 1 /\ i \in 1..Len(abRequests)
        BY <2>3, <2>4, <2>5, <3>2, <4>3 DEF ReservesOf
      <4> QED
        BY <2>4, <4>1, <4>2, <4>3
    <3> QED
      BY <2>4, <3>1, <3>2 DEF ReservesOf
  <2>7. ReservesNew' /\ ToTellStored'
    BY <1>2, <1>4, <2>6 DEF ReservesNew, PreparedInv, ToTellStored, Asking, Continuous, Continued
  <2> QED
    BY <1>3, <2>2, <2>7 DEF PreparedInv, Advance
<1>7. \/ UNCHANGED abRequests
      \/ \E type \in {"reserve", "commit"} :
              AskAccounts(type, t) /\ (type = "reserve" => MemberPrepareAccepted(t))
  BY DEF MemberCommand, MemberUnread, MemberDuplicate, MemberPrepareRefused,
         MemberPrepareAccepted, MemberFulfilNotFound, MemberFulfilRefused,
         MemberFulfilAccepted, MemberRejectRefused, MemberRejected, ReadFails, Answer, Ignore
<1> QED
  BY <1>5, <1>6, <1>7

-----------------------------------------------------------------------------
(* Continuing with the responses.                                           *)

\* What becomes of the transfer of the first response, and of the other responses.
LEMMA NextResponse ==
    ASSUME BulkInv, PreparedInv, pc = "responses", abResponses # <<>>,
           abResponses' = Tail(abResponses)
    PROVE  /\ Responding \in Transfers
           /\ Head(abResponses).type = "reserve" =>
                 Responding \in Fresh /\ ReservesOf(abResponses', Fresh \ {Responding})
           /\ ReservesOf(abResponses', Fresh)
<1>1. abResponses \in Seq(Response)
  BY DEF BulkInv, MembersInv, Documents
<1>2. /\ Head(abResponses) = abResponses[1]
      /\ Head(abResponses) \in Response
      /\ DOMAIN abResponses = 1..Len(abResponses)
      /\ Len(abResponses) \in Nat \ {0}
      /\ DOMAIN Tail(abResponses) = 1..(Len(abResponses) - 1)
      /\ \A i \in 1..(Len(abResponses) - 1) : Tail(abResponses)[i] = abResponses[i + 1]
  BY <1>1
<1>3. ReservesOf(abResponses, Fresh)
  BY DEF PreparedInv, ReservesNew, Continuous
<1>4. Responding = abResponses[1].id /\ Responding \in Transfers
  BY <1>2 DEF Responding, TransferOf, Response
<1>5. ReservesOf(abResponses', Fresh)
  BY <1>2, <1>3 DEF ReservesOf
<1>6. ASSUME Head(abResponses).type = "reserve"
      PROVE  Responding \in Fresh /\ ReservesOf(abResponses', Fresh \ {Responding})
  <2>1. Responding \in Fresh
    BY <1>2, <1>3, <1>4, <1>6 DEF ReservesOf
  <2>2. ASSUME NEW i \in 1..(Len(abResponses) - 1), abResponses[i + 1].type = "reserve"
        PROVE  abResponses[i + 1].id # Responding
    BY <1>2, <1>3, <1>4, <1>6, <2>2 DEF ReservesOf
  <2> QED
    BY <1>2, <1>5, <2>1, <2>2 DEF ReservesOf
<1> QED
  BY <1>4, <1>5, <1>6

\* _prepareTransferContinue, for a transfer that is not stored yet.
LEMMA MemberPreparedAdvances ==
    ASSUME BulkInv, OutcomesStay, NEW t \in Transfers, NEW success \in BOOLEAN, NEW events,
           ~Present(transfers[t]), MemberPrepared(t, success, events)
    PROVE  Advance /\ t \in ComingOutcomes'
<1>1. Documents /\ OutcomesStay /\ Found(t) \in Doc
  BY FoundDocument DEF BulkInv, MembersInv
<1>2. /\ InState(Found(t), "RESERVED") \in Doc
      /\ InState(Found(t), "RESERVED").state = "RESERVED"
      /\ Aborted(Found(t), "liquidity") \in Doc
      /\ Aborted(Found(t), "liquidity").state = "ABORTED"
  BY <1>1, DocTypes, DocStates DEF States, ErrorCodes
<1>3. PICK d \in Doc : Keep(t, d) /\ d.state \in {"RESERVED", "ABORTED"} /\ UNCHANGED transfers
  BY <1>2 DEF MemberPrepared
<1>4. Fits(t, d)
  BY <1>3 DEF Fits, Outcomes
<1>5. Advance
  BY <1>1, <1>3, <1>4, KeepOnlyAdvances
<1>6. cache'[t] = d /\ Present(d) /\ d.state \in Outcomes
  BY <1>1, <1>3 DEF Keep, Documents, Present, Outcomes
<1>7. t \in ComingOutcomes'
  BY <1>6 DEF ComingOutcomes, Coming
<1> QED
  BY <1>5, <1>7

\* _fulfilTTransferContinue: whatever A&B answered, the transfer becomes final.
LEMMA MemberFulfilledAdvances ==
    ASSUME BulkInv, OutcomesStay, NEW t \in Transfers, NEW success \in BOOLEAN, NEW events,
           MemberFulfilled(t, success, events)
    PROVE  Advance /\ t \in ComingFinals'
<1> DEFINE failure == Aborted(Found(t), "commit")
<1>1. Documents /\ OutcomesStay /\ Found(t) \in Doc
  BY FoundDocument DEF BulkInv, MembersInv
<1>2. /\ InState(Found(t), "COMMITTED") \in Doc
      /\ InState(Found(t), "COMMITTED").state = "COMMITTED"
      /\ failure \in Doc /\ failure.state = "ABORTED"
      /\ "commit" \in ErrorCodes
  BY <1>1, DocTypes, DocStates DEF States, ErrorCodes
<1>3. Fits(t, failure) /\ Fits(t, InState(Found(t), "COMMITTED"))
  BY <1>2 DEF Fits, FinalStates
<1>4. Advance
  <2>1. CASE Keep(t, InState(Found(t), "COMMITTED")) /\ UNCHANGED transfers
    BY <1>1, <1>2, <1>3, <2>1, KeepOnlyAdvances
  <2>2. CASE CancelRefused(t, failure) \/ CancelUnsaved(t, failure, "commit")
             \/ CancelSaved(t, failure, "commit")
    <3> HIDE DEF failure
    <3> QED
      BY <1>1, <1>2, <1>3, <2>2, CancelAdvances
  <2> QED
    BY <2>1, <2>2 DEF MemberFulfilled
<1>5. Aborted(failure, "commit") \in Doc /\ Aborted(failure, "commit").state = "ABORTED"
  BY <1>2, DocTypes, DocStates DEF States
<1>6. /\ Saved(Aborted(failure, "commit")) \in Doc
      /\ Saved(Aborted(failure, "commit")).state = "ABORTED"
  BY <1>2, <1>5, DocTypes, DocStates DEF States
<1>7. cache'[t].state \in FinalStates
  <2> HIDE DEF failure
  <2>1. \/ Keep(t, InState(Found(t), "COMMITTED"))
        \/ Keep(t, failure)
        \/ Keep(t, Aborted(failure, "commit"))
        \/ Keep(t, Saved(Aborted(failure, "commit")))
    BY DEF MemberFulfilled, CancelRefused, CancelUnsaved, CancelSaved, failure
  <2>2. cache'[t] \in {InState(Found(t), "COMMITTED"), failure, Aborted(failure, "commit"),
                       Saved(Aborted(failure, "commit"))}
    BY <1>1, <2>1 DEF Keep, Documents
  <2> QED
    BY <1>2, <1>5, <1>6, <2>2 DEF FinalStates
<1>8. t \in ComingFinals'
  BY <1>7 DEF ComingFinals, Coming, FinalStates, Present
<1> QED
  BY <1>4, <1>8

\* What a continue method does to the transfer of its response.
LEMMA ContinueAdvances ==
    ASSUME BulkInv, PreparedInv, NEW success \in BOOLEAN, BulkContinue(success)
    PROVE  Advance
<1> DEFINE t == Responding
<1>1. pc = "responses" /\ abResponses # <<>> /\ abResponses' = Tail(abResponses)
  BY DEF BulkContinue, BulkPrepareUncounted, BulkPrepareContinue, BulkFulfilUncounted,
         BulkFulfilContinue, SinglePrepareContinue, SingleFulfilContinue, BulkResponse, Continuing
<1>2. t \in Transfers /\ (Head(abResponses).type = "reserve" => t \in Fresh)
  BY <1>1, NextResponse
<1>3. CASE BulkPrepareUncounted(success) \/ BulkPrepareContinue(success)
           \/ SinglePrepareContinue(success)
  <2>1. Head(abResponses).type = "reserve" /\ \E events : MemberPrepared(t, success, events)
    BY <1>3 DEF BulkPrepareUncounted, BulkPrepareContinue, SinglePrepareContinue, BulkResponse,
                Continuing
  <2>2. ~Present(transfers[t])
    BY <1>2, <2>1 DEF Fresh
  <2> QED
    BY <1>2, <2>1, <2>2, MemberPreparedAdvances DEF PreparedInv
<1>4. CASE BulkFulfilContinue(success) \/ SingleFulfilContinue(success)
  <2>1. \E events : MemberFulfilled(t, success, events)
    BY <1>4 DEF BulkFulfilContinue, SingleFulfilContinue
  <2> QED
    BY <1>2, <2>1, MemberFulfilledAdvances DEF PreparedInv
<1>5. CASE BulkFulfilUncounted(success)
  <2>1. Keep(t, Found(t)) /\ UNCHANGED transfers
    BY <1>5 DEF BulkFulfilUncounted
  <2>2. Found(t) \in Doc /\ Fits(t, Found(t))
    BY <1>2, FoundDocument DEF Fits, BulkInv, MembersInv
  <2> QED
    BY <1>2, <2>1, <2>2, KeepOnlyAdvances DEF BulkInv, MembersInv, PreparedInv
<1> QED
  BY <1>3, <1>4, <1>5 DEF BulkContinue

\* A list with one transfer more.
LEMMA CountOne ==
    ASSUME NEW s \in Seq(Transfers), NEW t \in Transfers
    PROVE  /\ Append(s, t) \in Seq(Transfers)
           /\ Len(Append(s, t)) = Len(s) + 1 /\ Len(s) \in Nat
           /\ Listed(Append(s, t)) = Listed(s) \cup {t}
           /\ NoRepeats(s) /\ t \notin Listed(s) => NoRepeats(Append(s, t))
<1>1. /\ Append(s, t) \in Seq(Transfers)
      /\ DOMAIN Append(s, t) = 1..(Len(s) + 1)
      /\ DOMAIN s = 1..Len(s) /\ Len(s) \in Nat
      /\ Len(Append(s, t)) = Len(s) + 1
      /\ \A i \in 1..Len(s) : Append(s, t)[i] = s[i]
      /\ Append(s, t)[Len(s) + 1] = t
  OBVIOUS
<1> DEFINE u == Append(s, t)
<1> HIDE DEF u
<1>2. Listed(u) = Listed(s) \cup {t}
  BY <1>1 DEF Listed, u
<1>3. ASSUME NoRepeats(s), t \notin Listed(s)
      PROVE  NoRepeats(u)
  BY <1>1, <1>3 DEF Listed, NoRepeats, u
<1> QED
  BY <1>1, <1>2, <1>3 DEF u

\* As many different transfers of a bulk transfer as it has are all of them: the code
\* compares the numbers (aggregate.ts, _prepareBulkTransferContinue).
LEMMA AllListed ==
    ASSUME NEW b \in Bulks, NEW s \in Seq(Transfers), NoRepeats(s),
           Listed(s) \subseteq MembersOf(b), Len(s) = Len(Members[b])
    PROVE  Listed(s) = MembersOf(b)
<1> DEFINE n == Len(Members[b])
           I == 1..n
<1>1. /\ Members[b] \in Seq(Transfers) /\ n \in Nat
      /\ DOMAIN Members[b] = I /\ DOMAIN s = I
  BY BulkConstantsAssumption
<1>2. IsFiniteSet(I)
  BY <1>1, FS_Interval
<1>3. Members[b] \in Injection(I, MembersOf(b)) /\ Members[b] \in Surjection(I, MembersOf(b))
  <2>1. Members[b] \in [I -> MembersOf(b)]
    BY <1>1 DEF MembersOf
  <2>2. \A i, j \in I : Members[b][i] = Members[b][j] => i = j
    BY <1>1, BulkConstantsAssumption
  <2> HIDE DEF I
  <2> QED
    BY <1>1, <2>1, <2>2 DEF Injection, IsInjective, Surjection, MembersOf
<1>4. IsFiniteSet(MembersOf(b)) /\ Cardinality(I) = Cardinality(MembersOf(b))
  BY <1>2, <1>3, FS_Surjection
<1>5. s \in Injection(I, MembersOf(b))
  <2>1. s \in [I -> MembersOf(b)]
    <3>1. \A i \in I : s[i] \in MembersOf(b)
      BY <1>1 DEF Listed
    <3>2. s \in [I -> Transfers]
      BY <1>1
    <3> QED
      BY <3>1, <3>2
  <2> HIDE DEF I
  <2> QED
    BY <1>1, <2>1 DEF Injection, IsInjective, NoRepeats
<1>6. s \in Surjection(I, MembersOf(b))
  BY <1>4, <1>5, FS_Injection
<1> QED
  BY <1>1, <1>6 DEF Surjection, Listed

\* A prepare that is counted.
LEMMA CountPrepared ==
    ASSUME BulkInv, ToldInv, PreparedInv, NEW success \in BOOLEAN, BulkPrepareContinue(success)
    PROVE  PreparedInv'
<1> DEFINE t == Responding
           b == BulkOf(t)
           s == FoundBulk(b).prepared
           d == [FoundBulk(b) EXCEPT !.prepared = Append(@, t)]
<1>1. /\ pc = "responses" /\ abResponses # <<>> /\ abResponses' = Tail(abResponses)
      /\ Head(abResponses).type = "reserve"
      /\ RoutedToBulk(t)
      /\ UNCHANGED <<published, pc, bulks>>
  BY DEF BulkPrepareContinue, BulkResponse
<1>2. t \in Transfers /\ t \in Fresh /\ ReservesOf(abResponses', Fresh \ {t})
  BY <1>1, NextResponse
<1>3. b \in Bulks /\ t \in MembersOf(b)
  BY <1>1, <1>2, RoutedBulk
<1>4. Advance /\ t \in ComingOutcomes'
  <2>1. \E events : MemberPrepared(t, success, events)
    BY DEF BulkPrepareContinue
  <2>2. ~Present(transfers[t])
    BY <1>2 DEF Fresh
  <2> QED
    BY <1>2, <2>1, <2>2, MemberPreparedAdvances DEF PreparedInv
<1>5. /\ FoundBulk(b) \in BulkDoc /\ s \in Seq(Transfers)
      /\ s \in {bulkCache[b].prepared, bulks[b].prepared}
  BY <1>3, BulkDocuments DEF BulkInv, BulkDoc, FoundBulk
<1>6. /\ NoRepeats(s) /\ t \notin Listed(s)
      /\ Listed(s) \subseteq MembersOf(b) \cap ComingOutcomes
  BY <1>2, <1>3, <1>5 DEF PreparedInv, CountedPrepared, OutcomesStay, Fresh
<1>7. d \in BulkDoc /\ d.prepared = Append(s, t)
  BY <1>2, <1>5, CountOne DEF BulkDoc
<1>8. /\ Append(s, t) \in Seq(Transfers)
      /\ NoRepeats(Append(s, t))
      /\ Listed(Append(s, t)) = Listed(s) \cup {t}
      /\ Listed(Append(s, t)) \subseteq MembersOf(b) \cap ComingOutcomes'
  BY <1>2, <1>3, <1>4, <1>5, <1>6, CountOne DEF Advance
<1>9. /\ bulkCache'[b].prepared = Append(s, t)
      /\ \A c \in Bulks \ {b} : bulkCache'[c] = bulkCache[c]
  <2>1. KeepBulk(b, d) \/ KeepBulk(b, [d EXCEPT !.status = "PENDING"])
    BY DEF BulkPrepareContinue
  <2>2. [d EXCEPT !.status = "PENDING"].prepared = Append(s, t)
    BY <1>7 DEF BulkDoc
  <2> HIDE DEF d, s, b
  <2> QED
    BY <1>3, <1>7, <2>1, <2>2 DEF KeepBulk, BulkInv, BulkTypeOK
<1>10. ToTell' \subseteq ToTell \/ (ToTell' \subseteq ToTell \cup {b} /\ AllPrepared(b, d))
  <2>1. \/ MemberPrepared(t, success, {})
        \/ /\ MemberPrepared(t, success, {[name |-> "BulkTransferPreparedEvt", id |-> b]})
           /\ AllPrepared(b, d)
    BY DEF BulkPrepareContinue
  <2> HIDE DEF d, s, b
  <2> QED
    BY <2>1 DEF MemberPrepared, ToTell
<1> HIDE DEF d, s, b, t
<1>11. CountedPrepared'
  <2>1. ASSUME NEW c \in Bulks
        PROVE  /\ NoRepeats(bulkCache'[c].prepared) /\ NoRepeats(bulks'[c].prepared)
               /\ Listed(bulkCache'[c].prepared) \subseteq MembersOf(c) \cap ComingOutcomes'
               /\ Listed(bulks'[c].prepared) \subseteq MembersOf(c) \cap ComingOutcomes'
               /\ PayeeWaitsToBeTold => Listed(bulks'[c].prepared) \subseteq StoredOutcomes'
    <3>1. /\ NoRepeats(bulkCache[c].prepared) /\ NoRepeats(bulks[c].prepared)
          /\ Listed(bulkCache[c].prepared) \subseteq MembersOf(c) \cap ComingOutcomes
          /\ Listed(bulks[c].prepared) \subseteq MembersOf(c) \cap ComingOutcomes
          /\ PayeeWaitsToBeTold => Listed(bulks[c].prepared) \subseteq StoredOutcomes
          /\ bulks'[c] = bulks[c]
          /\ ComingOutcomes \subseteq ComingOutcomes' /\ StoredOutcomes \subseteq StoredOutcomes'
      BY <1>1, <1>4 DEF PreparedInv, CountedPrepared, Advance
    <3> QED
      BY <1>8, <1>9, <3>1
  <2> QED
    BY <2>1 DEF CountedPrepared, PayeeWaitsToBeTold
<1>12. Fresh \ {t} \subseteq Fresh'
  <2>1. ASSUME NEW u \in Fresh \ {t}
        PROVE  u \in Fresh'
    <3>1. /\ ~Present(transfers[u]) /\ Present(cache[u]) /\ u \in Transfers
          /\ \A c \in Bulks : u \notin Listed(bulkCache[c].prepared) \cup Listed(bulks[c].prepared)
      BY <2>1 DEF Fresh
    <3>2. ~Present(transfers'[u]) /\ Present(cache'[u])
      BY <1>4, <3>1 DEF Advance
    <3>3. ASSUME NEW c \in Bulks
          PROVE  u \notin Listed(bulkCache'[c].prepared) \cup Listed(bulks'[c].prepared)
      <4>1. u \notin Listed(s)
        BY <1>3, <1>5, <3>1
      <4> QED
        BY <1>1, <1>8, <1>9, <2>1, <3>1, <4>1
    <3> QED
      BY <3>1, <3>2, <3>3 DEF Fresh
  <2> QED
    BY <2>1
<1>13. ReservesNew'
  BY <1>1, <1>2, <1>12 DEF ReservesNew, ReservesOf, Asking, Continuous
<1>14. ToTellStored'
  <2>1. AllPrepared(b, d) => MembersOf(b) \subseteq ComingOutcomes'
    BY <1>3, <1>7, <1>8, AllListed DEF AllPrepared
  <2>2. \A c \in ToTell : MembersOf(c) \subseteq ComingOutcomes'
    BY <1>1, <1>4 DEF PreparedInv, ToTellStored, Continued, Continuous, Advance
  <2> QED
    BY <1>1, <1>10, <2>1, <2>2 DEF ToTellStored, Asking, Continued, Continuous
<1>15. ToldStored'
  BY <1>1, <1>4 DEF PreparedInv, ToldStored, Told, BulkPublished, Advance
<1> QED
  BY <1>4, <1>11, <1>13, <1>14, <1>15 DEF PreparedInv, Advance

\* The other continue methods count no prepare.
LEMMA ContinuePrepared ==
    ASSUME BulkInv, ToldInv, PreparedInv, NEW success \in BOOLEAN,
           \/ BulkPrepareUncounted(success)
           \/ BulkFulfilUncounted(success)
           \/ BulkFulfilContinue(success)
           \/ SinglePrepareContinue(success)
           \/ SingleFulfilContinue(success)
    PROVE  PreparedInv'
<1> DEFINE t == Responding
<1>1. /\ pc = "responses" /\ abResponses # <<>> /\ abResponses' = Tail(abResponses)
      /\ UNCHANGED <<published, bulks>> /\ pc' \in {"responses", "completing"}
  BY DEF BulkPrepareUncounted, BulkFulfilUncounted, BulkFulfilContinue, SinglePrepareContinue,
         SingleFulfilContinue, BulkResponse, Continuing, control, bulkVars, bulkState
<1>2. /\ t \in Transfers
      /\ Head(abResponses).type = "reserve" => t \in Fresh
      /\ ReservesOf(abResponses', Fresh)
  BY <1>1, NextResponse
<1>3. Advance
  BY ContinueAdvances DEF BulkContinue
<1>4. ToTell' \subseteq ToTell
  BY DEF BulkPrepareUncounted, BulkFulfilUncounted, BulkFulfilContinue, SinglePrepareContinue,
         SingleFulfilContinue, MemberPrepared, MemberFulfilled, BulkMissing, Emit, ToTell
<1>5. PreparedFrom
  <2>1. CASE BulkFulfilContinue(success)
    <3> DEFINE b == BulkOf(t)
               d == Fulfilled(FoundBulk(b), t, success)
    <3>1. b \in Bulks /\ FoundBulk(b) \in BulkDoc
      BY <1>2, <2>1, RoutedBulk, BulkDocuments DEF BulkFulfilContinue, BulkResponse, BulkInv
    <3>2. d.prepared = FoundBulk(b).prepared /\ [d EXCEPT !.status = "COMPLETED"].prepared = d.prepared
      BY <3>1 DEF BulkDoc, Fulfilled
    <3>3. KeepBulk(b, d) \/ KeepBulk(b, [d EXCEPT !.status = "COMPLETED"])
      BY <2>1 DEF BulkFulfilContinue
    <3>4. d.prepared \in {bulkCache[b].prepared, bulks[b].prepared}
      BY <3>2 DEF FoundBulk
    <3> HIDE DEF d, b
    <3> QED
      BY <1>1, <3>1, <3>2, <3>3, <3>4 DEF KeepBulk, PreparedFrom, BulkInv, BulkTypeOK
  <2>2. CASE UNCHANGED bulkCache
    BY <1>1, <2>2 DEF PreparedFrom
  <2> QED
    BY <2>1, <2>2 DEF BulkPrepareUncounted, BulkFulfilUncounted, SinglePrepareContinue,
                      SingleFulfilContinue, BulkMissing, bulkVars, bulkState
<1>6. CountedPrepared' /\ Fresh \subseteq Fresh' /\ ToldStored'
  BY <1>1, <1>3, <1>5, PreparedFrame DEF ToldStored, Told, BulkPublished
<1>7. ReservesNew'
  BY <1>1, <1>2, <1>6 DEF ReservesNew, ReservesOf, Asking, Continuous
<1>8. ToTellStored'
  BY <1>1, <1>3, <1>4 DEF PreparedInv, ToTellStored, Asking, Continuous, Continued, Advance
<1> QED
  BY <1>3, <1>6, <1>7, <1>8 DEF PreparedInv, Advance

-----------------------------------------------------------------------------
(* The rest of the steps.                                                   *)

\* updateBulkTransfer stores the lists of a bulk transfer a waiting payee was told of.
LEMMA RestPrepared ==
    ASSUME BulkInv, ToldInv, PreparedInv,
           EndOfMembers \/ BulkRejectDone \/ BulkCompleted \/ Adding
    PROVE  PreparedInv'
<1>1. /\ UNCHANGED <<cache, transfers, published, abRequests, abResponses>>
      /\ \/ UNCHANGED pc
         \/ pc = "members" /\ pc' \in {"commands", "flush"}
         \/ pc = "completing" /\ pc' \in {"responses", "flush"}
  BY DEF EndOfMembers, BulkRejectDone, BulkCompleted, BulkUpdated, BulkUpdateThrows, Adding,
         AddChecked, AddInserted, vars, control, memory, queues, world
<1>2. Advance
  BY <1>1, IdleAdvances DEF PreparedInv
<1>3. ToTell' \subseteq ToTell
  BY DEF EndOfMembers, BulkRejectDone, BulkCompleted, BulkUpdated, BulkUpdateThrows, Adding,
         AddChecked, AddInserted, vars, memory, queues, Emit, ToTell
<1>4. current \in Bulks /\ bulkCache[current] \in BulkDoc
  BY DEF BulkInv, BulkTypeOK
<1>5. PreparedFrom
  <2>1. CASE EndOfMembers
    BY <2>1, IdlePrepared DEF EndOfMembers, bulkVars, bulkState
  <2>2. CASE BulkRejectDone
    <3> DEFINE d == [bulkCache[current] EXCEPT !.status = "REJECTED"]
    <3>1. PayeeWaitsToBeTold => current \in Told
      <4>1. pc = "members" /\ topic[cursor].name = "RejectBulkTransferCmd"
        BY <2>2 DEF BulkRejectDone
      <4>2. AnswersTold(topic[cursor], Told) /\ topic[cursor].id = current
        BY <4>1 DEF ToldInv, LoopOverMembers, PayeeWasTold
      <4> QED
        BY <4>1, <4>2 DEF AnswersTold, PayeeWaitsToBeTold
    <3>2. d.prepared = bulkCache[current].prepared
      BY <1>4 DEF BulkDoc
    <3>3. KeepBulk(current, d) /\ (BulkUpdated(current, d) \/ UNCHANGED bulks)
      BY <2>2 DEF BulkRejectDone, BulkUpdateThrows
    <3> HIDE DEF d
    <3> QED
      BY <1>4, <3>1, <3>2, <3>3 DEF KeepBulk, BulkUpdated, PreparedFrom, BulkInv, BulkTypeOK
  <2>3. CASE BulkCompleted
    <3>1. PayeeWaitsToBeTold => current \in Told
      BY <2>3 DEF BulkCompleted, ToldInv, FulfilsWait, PayeeWaitsToBeTold
    <3>2. \A b \in Bulks : NoBulkCache[b].prepared = <<>>
      BY DEF NoBulkCache, NoBulk
    <3>3. \/ BulkUpdated(current, bulkCache[current]) /\ bulkCache' = NoBulkCache
          \/ UNCHANGED <<bulks, bulkCache>>
      BY <2>3 DEF BulkCompleted, BulkUpdateThrows
    <3> QED
      BY <1>4, <3>1, <3>2, <3>3 DEF BulkUpdated, PreparedFrom, BulkInv, BulkTypeOK
  <2>4. CASE Adding
    <3>1. NewBulk.prepared = <<>>
      BY DEF NewBulk, NoBulk
    <3>2. /\ UNCHANGED bulkCache
          /\ \/ UNCHANGED bulks
             \/ \E b \in Bulks : bulks' = [bulks EXCEPT ![b] = IF Exists(@) THEN @ ELSE NewBulk]
      BY <2>4 DEF Adding, AddChecked, AddInserted
    <3> QED
      BY <3>1, <3>2 DEF PreparedFrom, BulkInv, BulkTypeOK
  <2> QED
    BY <2>1, <2>2, <2>3, <2>4
<1> QED
  BY <1>1, <1>2, <1>3, <1>5, PreparedKept DEF Asking, Continuous, Continued

\* The lists in memory are gone, those in the collection are stored.
LEMMA RestartPrepared ==
    ASSUME PreparedInv, BulkInv, PayeeWaitsToBeTold, Restart, BulkMemoryLost
    PROVE  PreparedInv'
<1>1. /\ UNCHANGED <<transfers, published>> /\ pc' = "idle"
      /\ cache' = EmptyCache /\ bulkCache' = NoBulkCache
  BY DEF Restart, BulkMemoryLost, world
<1>2. \A b \in Bulks : bulks'[b].prepared \in {bulks[b].prepared, <<>>} /\ bulkCache'[b].prepared = <<>>
  BY <1>1 DEF BulkMemoryLost, NewBulk, NoBulk, NoBulkCache
<1>3. NoRepeats(<<>>) /\ Listed(<<>>) = {}
  BY DEF NoRepeats, Listed
<1>4. \A t \in Transfers : Coming(t)' = transfers[t]
  BY <1>1 DEF Coming, EmptyCache, NoDoc, Present
<1>5. UNCHANGED <<StoredOutcomes, StoredFinals, Told>> /\ OutcomesStay'
  BY <1>1, <1>4 DEF StoredOutcomes, StoredFinals, Told, BulkPublished, OutcomesStay,
                    ComingOutcomes, ComingFinals
<1>6. CountedPrepared'
  <2>1. ASSUME NEW b \in Bulks
        PROVE  /\ NoRepeats(bulkCache'[b].prepared) /\ NoRepeats(bulks'[b].prepared)
               /\ Listed(bulkCache'[b].prepared) = {}
               /\ Listed(bulks'[b].prepared) \subseteq MembersOf(b) \cap ComingOutcomes'
               /\ Listed(bulks'[b].prepared) \subseteq StoredOutcomes'
    <3>1. Listed(bulks'[b].prepared) \in {Listed(bulks[b].prepared), {}}
      BY <1>2, <1>3
    <3> QED
      BY <1>2, <1>3, <1>5, <3>1 DEF PreparedInv, CountedPrepared, OutcomesStay
  <2> QED
    BY <2>1 DEF CountedPrepared
<1>7. ReservesNew' /\ ToTellStored' /\ ToldStored'
  BY <1>1, <1>5 DEF ReservesNew, ToTellStored, PreparedInv, ToldStored, Asking, Continuous,
                    Continued
<1> QED
  BY <1>5, <1>6, <1>7 DEF PreparedInv

LEMMA EnvironmentPrepared ==
    ASSUME BulkInv, ToldInv, OrderlyInv, PreparedInv, BulkEnvironment
    PROVE  PreparedInv'
<1>1. CASE BulkCrash
  BY <1>1, RestartPrepared, NoRestart DEF BulkCrash, OrderlyInv
<1>2. CASE \/ \E name \in Inputs, t \in Transfers : Produce(name, t) /\ UNCHANGED bulkVars
           \/ \E name \in BulkInputs, b \in Bulks : BulkProduce(name, b)
           \/ FailedAcknowledge /\ UNCHANGED bulkVars
  <2>1. UNCHANGED <<cache, transfers, published, abRequests, abResponses, outputEvents, pc,
                    bulks, bulkCache>>
    BY <1>2 DEF Produce, BulkProduce, FailedAcknowledge, control, memory, queues, world,
                bulkVars, bulkState
  <2>2. Advance /\ PreparedFrom /\ ToTell' = ToTell
    BY <2>1, IdleAdvances, IdlePrepared DEF PreparedInv, ToTell
  <2> QED
    BY <2>1, <2>2, PreparedKept DEF Asking, Continuous, Continued
<1> QED
  BY <1>1, <1>2 DEF BulkEnvironment

LEMMA PreparedInit == BulkInit => PreparedInv
<1> SUFFICES ASSUME BulkInit PROVE PreparedInv
  OBVIOUS
<1>1. /\ pc = "idle" /\ published = {}
      /\ cache = EmptyCache /\ transfers = [t \in Transfers |-> NoDoc]
      /\ bulks = [b \in Bulks |-> NoBulk] /\ bulkCache = NoBulkCache
  BY DEF BulkInit, Init
<1>2. NoRepeats(<<>>) /\ Listed(<<>>) = {}
  BY DEF NoRepeats, Listed
<1>3. CountedPrepared
  BY <1>1, <1>2 DEF CountedPrepared, NoBulkCache, NoBulk
<1>4. StoredOutcomes = {} /\ StoredFinals = {}
  BY <1>1 DEF StoredOutcomes, StoredFinals, NoDoc, Outcomes, FinalStates
<1>5. Told = {}
  BY <1>1 DEF Told, BulkPublished
<1> QED
  BY <1>1, <1>3, <1>4, <1>5
  DEF PreparedInv, OutcomesStay, ReservesNew, ToldStored, ToTellStored, Asking, Continuous,
      Continued

LEMMA PreparedNext ==
    BulkInv /\ ToldInv /\ OrderlyInv /\ PreparedInv /\ [BulkNext]_allVars => PreparedInv'
<1> SUFFICES ASSUME BulkInv, ToldInv, OrderlyInv, PreparedInv, [BulkNext]_allVars
             PROVE PreparedInv'
  OBVIOUS
<1>1. CASE UNCHANGED allVars
  <2>1. UNCHANGED <<cache, transfers, published, abRequests, abResponses, outputEvents, pc,
                    bulks, bulkCache>>
    BY <1>1 DEF allVars, vars, control, memory, queues, world, bulkVars, bulkState
  <2>2. Advance /\ PreparedFrom /\ ToTell' = ToTell
    BY <2>1, IdleAdvances, IdlePrepared DEF PreparedInv, ToTell
  <2> QED
    BY <2>1, <2>2, PreparedKept DEF Asking, Continuous, Continued
<1>2. CASE \/ BulkExit
           \/ \E b \in Bulks : AddRejected(b)
  BY <1>2, RestartPrepared, NoRestart DEF BulkExit, Exit, AddRejected, OrderlyInv
<1>3. CASE \E success \in BOOLEAN : BulkContinue(success)
  BY <1>3, CountPrepared, ContinuePrepared DEF BulkContinue
<1> QED
  BY <1>1, <1>2, <1>3, SharedPrepared, BulkCommandPrepared, MemberCommandPrepared, RestPrepared,
     EnvironmentPrepared DEF BulkNext, BulkProcess

\* What is counted as prepared was answered, and is stored before it is announced.
LEMMA PreparedInvariant == (PayeeWaitsToBeTold \/ NothingFails) /\ BulkSpec => []PreparedInv
BY PreparedInit, PreparedNext, OrderlyInvariant, ToldInvariant, BulkInductiveInvariant, PTL
DEF BulkSpec

\* No individual transfer is counted twice as prepared, however often the prepare of its
\* bulk transfer is delivered and the process dies.
THEOREM PreparedCountedOnceHolds ==
    (PayeeWaitsToBeTold \/ NothingFails) /\ BulkSpec => []PreparedCountedOnce
<1>1. PreparedInv => PreparedCountedOnce
  BY DEF PreparedInv, CountedPrepared, PreparedCountedOnce
<1> QED
  BY <1>1, PreparedInvariant, PTL

\* The payee is told of a prepared bulk transfer only when each of its individual
\* transfers was answered by A&B and is stored with the outcome.
THEOREM BulkPreparedIsBacked ==
    (PayeeWaitsToBeTold \/ NothingFails) /\ BulkSpec => []BulkPreparedBacked
<1>1. PreparedInv => BulkPreparedBacked
  BY DEF PreparedInv, ToldStored, Told, StoredOutcomes, Outcomes, BulkPreparedBacked
<1> QED
  BY <1>1, PreparedInvariant, PTL

-----------------------------------------------------------------------------
(* What is counted as fulfilled.                                            *)

StoredTransfers == {t \in Transfers : Present(transfers[t])}

\* The list of d is shorter than the one of the transfers of b.
Uncompleted(b, d) == Len(d.fulfilled) < Len(Members[b])

\* Phases with outcomes that are not stored yet, or never will be.
Unflushed == Continued \cup {"dying"}

CurrentFinals == IF pc \in Unflushed THEN ComingFinals ELSE StoredFinals

\* What is counted was stored before; unless the count is full it is final, in the
\* collection as soon as it is counted there.  The cached list is the longer one.
CountedFulfilled ==
    \A b \in Bulks :
        /\ Listed(bulkCache[b].fulfilled) \cup Listed(bulks[b].fulfilled) \subseteq StoredTransfers
        /\ Exists(bulkCache[b]) => Len(bulks[b].fulfilled) <= Len(bulkCache[b].fulfilled)
        /\ Uncompleted(b, bulks[b]) => Listed(bulks[b].fulfilled) \subseteq StoredFinals
        /\ Uncompleted(b, bulkCache[b]) => Listed(bulkCache[b].fulfilled) \subseteq CurrentFinals

\* The bulk transfers that are announced as fulfilled when the batch is sent.
ToClose == {b \in Bulks : [name |-> "BulkTransferFulfiledEvt", id |-> b] \in outputEvents}

\* All that is counted for them then is final, and stored by the flush.
ToCloseStored ==
    /\ pc \in Asking => ToClose = {}
    /\ pc \in Continued =>
          \A b \in ToClose :
             Listed(bulkCache[b].fulfilled) \cup Listed(bulks[b].fulfilled) \subseteq ComingFinals
    /\ pc = "send" => \A b \in ToClose : Listed(bulks[b].fulfilled) \subseteq StoredFinals

\* A bulk transfer is updated after it was announced, with a full count.
Completing ==
    pc = "completing" =>
        /\ current \in ToClose
        /\ ~Uncompleted(current, bulkCache[current])

FulfilledInv == PayeeWaitsToBeTold /\ CountedFulfilled /\ ToCloseStored /\ Completing

-----------------------------------------------------------------------------
(* How FulfilledInv is preserved.                                           *)

\* The lists a step leaves behind.  The cached one is kept, read, or forgotten with its
\* bulk transfer; the cached one is stored between batches' responses, or when full.
FulfilledFrom ==
    \A b \in Bulks :
        /\ \/ /\ bulkCache'[b].fulfilled = bulkCache[b].fulfilled
              /\ Exists(bulkCache'[b]) => Exists(bulkCache[b])
           \/ /\ bulkCache'[b].fulfilled = FoundBulk(b).fulfilled
              /\ bulks'[b] = bulks[b]
           \/ bulkCache'[b].fulfilled = <<>> /\ ~Exists(bulkCache'[b])
        /\ \/ bulks'[b].fulfilled \in {bulks[b].fulfilled, <<>>}
           \/ /\ bulks'[b].fulfilled = bulkCache[b].fulfilled
              /\ bulkCache'[b].fulfilled = bulkCache[b].fulfilled \/ ~Exists(bulkCache'[b])
              /\ pc \notin Unflushed \/ ~Uncompleted(b, bulkCache[b])

\* A step that leaves the bulk transfers alone.
LEMMA IdleFulfilled ==
    ASSUME UNCHANGED <<bulks, bulkCache>>
    PROVE  FulfilledFrom
BY DEF FulfilledFrom, Exists

\* The lists, and their lengths.
LEMMA FulfilledLists ==
    ASSUME BulkInv, NEW b \in Bulks
    PROVE  /\ Len(bulks[b].fulfilled) \in Nat /\ Len(bulkCache[b].fulfilled) \in Nat
           /\ Len(Members[b]) \in Nat /\ Len(<<>>) = 0 /\ Listed(<<>>) = {}
           /\ FoundBulk(b) \in {bulks[b], bulkCache[b]}
           /\ Exists(bulkCache[b]) <=> FoundBulk(b) = bulkCache[b] /\ b \in BulkCached
           /\ ~Exists(bulkCache[b]) => FoundBulk(b) = bulks[b]
<1>1. /\ bulks[b].fulfilled \in Seq(Transfers) /\ bulkCache[b].fulfilled \in Seq(Transfers)
      /\ Members[b] \in Seq(Transfers)
  BY BulkDocuments, BulkConstantsAssumption DEF BulkInv, BulkDoc
<1> QED
  BY <1>1 DEF Listed, FoundBulk, BulkCached

LEMMA FulfilledFrame ==
    ASSUME BulkInv, PreparedInv, FulfilledInv, Advance, FulfilledFrom,
           pc \in Unflushed => pc' \in Unflushed
    PROVE  CountedFulfilled'
<1>1. /\ StoredTransfers \subseteq StoredTransfers'
      /\ StoredFinals \subseteq StoredFinals'
      /\ StoredFinals' \subseteq ComingFinals'
      /\ ComingFinals \cap StoredTransfers \subseteq ComingFinals'
  BY DEF Advance, OutcomesStay, StoredTransfers, ComingFinals
<1>2. /\ CurrentFinals \cap StoredTransfers \subseteq CurrentFinals'
      /\ StoredFinals \subseteq CurrentFinals'
      /\ pc \notin Unflushed => CurrentFinals = StoredFinals
  BY <1>1 DEF CurrentFinals
<1>3. ASSUME NEW b \in Bulks
      PROVE  /\ Listed(bulkCache'[b].fulfilled) \cup Listed(bulks'[b].fulfilled) \subseteq StoredTransfers'
             /\ Exists(bulkCache'[b]) => Len(bulks'[b].fulfilled) <= Len(bulkCache'[b].fulfilled)
             /\ Uncompleted(b, bulks'[b]) => Listed(bulks'[b].fulfilled) \subseteq StoredFinals'
             /\ Uncompleted(b, bulkCache'[b]) => Listed(bulkCache'[b].fulfilled) \subseteq CurrentFinals'
  <2> DEFINE c == bulkCache[b].fulfilled
             s == bulks[b].fulfilled
             n == Len(Members[b])
  <2>1. /\ Listed(c) \cup Listed(s) \subseteq StoredTransfers
        /\ Exists(bulkCache[b]) => Len(s) <= Len(c)
        /\ Len(s) < n => Listed(s) \subseteq StoredFinals
        /\ Len(c) < n => Listed(c) \subseteq CurrentFinals
    BY DEF FulfilledInv, CountedFulfilled, Uncompleted
  <2>2. /\ Len(s) \in Nat /\ Len(c) \in Nat /\ n \in Nat /\ Len(<<>>) = 0 /\ Listed(<<>>) = {}
        /\ FoundBulk(b) \in {bulks[b], bulkCache[b]}
        /\ Exists(bulkCache[b]) => FoundBulk(b) = bulkCache[b]
        /\ ~Exists(bulkCache[b]) => FoundBulk(b) = bulks[b]
    BY FulfilledLists
  <2>3. \/ bulkCache'[b].fulfilled = c /\ (Exists(bulkCache'[b]) => Exists(bulkCache[b]))
        \/ bulkCache'[b].fulfilled = FoundBulk(b).fulfilled /\ bulks'[b].fulfilled = s
        \/ bulkCache'[b].fulfilled = <<>> /\ ~Exists(bulkCache'[b])
    BY DEF FulfilledFrom
  <2>4. \/ bulks'[b].fulfilled \in {s, <<>>}
        \/ /\ bulks'[b].fulfilled = c
           /\ bulkCache'[b].fulfilled = c \/ ~Exists(bulkCache'[b])
           /\ pc \notin Unflushed \/ ~(Len(c) < n)
    BY DEF FulfilledFrom, Uncompleted
  <2>5. FoundBulk(b).fulfilled \in {s, c}
    BY <2>2
  <2> DEFINE cc == bulkCache'[b].fulfilled
             ss == bulks'[b].fulfilled
  <2>6. cc \in {c, s, <<>>} /\ ss \in {c, s, <<>>}
    BY <2>3, <2>4, <2>5
  <2>7. Exists(bulkCache'[b]) => Len(ss) <= Len(cc)
    <3>1. CASE ss \in {s, <<>>}
      <4>1. ASSUME Exists(bulkCache[b]), Exists(bulkCache'[b]) PROVE cc = c
        BY <2>2, <2>3, <4>1
      <4>2. ASSUME ~Exists(bulkCache[b]), Exists(bulkCache'[b]) PROVE cc = s
        BY <2>2, <2>3, <4>2
      <4> QED
        BY <2>1, <2>2, <3>1, <4>1, <4>2
    <3>2. CASE ss = c /\ (cc = c \/ ~Exists(bulkCache'[b]))
      BY <2>2, <3>2
    <3> QED
      BY <2>4, <3>1, <3>2
  <2> HIDE DEF c, s, n, cc, ss
  <2>8. Listed(cc) \cup Listed(ss) \subseteq StoredTransfers'
    BY <1>1, <2>1, <2>2, <2>6
  <2>9. Len(ss) < n => Listed(ss) \subseteq StoredFinals'
    <3>1. CASE ss \in {s, <<>>}
      BY <1>1, <2>1, <2>2, <3>1
    <3>2. CASE ss = c /\ (pc \notin Unflushed \/ ~(Len(c) < n))
      BY <1>1, <1>2, <2>1, <3>2
    <3> QED
      BY <2>4, <3>1, <3>2 DEF ss
  <2>10. Len(cc) < n => Listed(cc) \subseteq CurrentFinals'
    BY <1>1, <1>2, <2>1, <2>2, <2>6
  <2> QED
    BY <2>7, <2>8, <2>9, <2>10 DEF ss, cc, n, Uncompleted
<1> QED
  BY <1>3 DEF CountedFulfilled

\* A step that announces nothing and goes on within its part of the batch.
LEMMA FulfilledKept ==
    ASSUME BulkInv, PreparedInv, FulfilledInv, Advance, FulfilledFrom,
           ToClose' \subseteq ToClose,
           pc \in Unflushed => pc' \in Unflushed,
           pc' \in Asking => pc \in Asking \/ ToClose' = {},
           pc' \in Continued => pc \in Asking \cup Continued,
           pc' = "send" => /\ pc = "send"
                           /\ \A b \in Bulks : bulks'[b].fulfilled \in {bulks[b].fulfilled, <<>>},
           pc' = "completing" => UNCHANGED <<pc, current, bulkCache, ToClose>>
    PROVE  FulfilledInv'
<1>1. CountedFulfilled'
  BY FulfilledFrame
<1>2. ToCloseStored'
  <2>1. /\ \A b \in Bulks :
             /\ Listed(bulkCache'[b].fulfilled) \in
                  {Listed(bulkCache[b].fulfilled), Listed(bulks[b].fulfilled), {}}
             /\ Listed(bulks'[b].fulfilled) \in
                  {Listed(bulkCache[b].fulfilled), Listed(bulks[b].fulfilled), {}}
        /\ pc' = "send" => \A b \in Bulks :
              Listed(bulks'[b].fulfilled) \in {Listed(bulks[b].fulfilled), {}}
    BY FulfilledLists DEF FulfilledFrom
  <2>2. ComingFinals \cap StoredTransfers \subseteq ComingFinals' /\ StoredFinals \subseteq StoredFinals'
    BY DEF Advance, StoredTransfers, ComingFinals
  <2>3. \A b \in Bulks :
          Listed(bulkCache[b].fulfilled) \cup Listed(bulks[b].fulfilled) \subseteq StoredTransfers
    BY DEF FulfilledInv, CountedFulfilled
  <2>4. ASSUME NEW b \in ToClose', pc' \in Continued
        PROVE  Listed(bulkCache'[b].fulfilled) \cup Listed(bulks'[b].fulfilled) \subseteq ComingFinals'
    <3>1. b \in Bulks
      BY DEF ToClose
    <3>2. Listed(bulkCache[b].fulfilled) \cup Listed(bulks[b].fulfilled) \subseteq ComingFinals
      BY <2>4 DEF FulfilledInv, ToCloseStored
    <3> QED
      BY <2>1, <2>2, <2>3, <3>1, <3>2
  <2>5. ASSUME NEW b \in ToClose', pc' = "send"
        PROVE  Listed(bulks'[b].fulfilled) \subseteq StoredFinals'
    <3>1. b \in Bulks
      BY DEF ToClose
    <3>2. Listed(bulks[b].fulfilled) \subseteq StoredFinals
      BY <2>5 DEF FulfilledInv, ToCloseStored
    <3> QED
      BY <2>1, <2>2, <2>5, <3>1, <3>2
  <2>6. pc' \in Asking => ToClose' = {}
    BY DEF FulfilledInv, ToCloseStored
  <2> QED
    BY <2>4, <2>5, <2>6 DEF ToCloseStored
<1>3. Completing'
  BY DEF FulfilledInv, Completing, Uncompleted
<1> QED
  BY <1>1, <1>2, <1>3 DEF FulfilledInv

\* An event about something else.
LEMMA OtherClosing ==
    ASSUME NEW name, NEW id, Emit(name, id), name # "BulkTransferFulfiledEvt"
    PROVE  ToClose' = ToClose
BY DEF Emit, ToClose

LEMMA FlushFulfilled ==
    ASSUME BulkInv, PreparedInv, FulfilledInv, Flush, UNCHANGED bulkVars
    PROVE  FulfilledInv'
<1>1. /\ UNCHANGED <<bulks, bulkCache, ToClose>>
      /\ StoredFinals \subseteq StoredFinals' /\ StoredTransfers \subseteq StoredTransfers'
      /\ CurrentFinals = ComingFinals /\ CurrentFinals' = ComingFinals
      /\ pc = "flush" /\ pc' \in {"dying", "send"}
      /\ pc' = "send" => StoredFinals' = ComingFinals
  BY FlushStores DEF PreparedInv, ToClose, StoredTransfers, CurrentFinals, Unflushed, Continued, Continuous
<1>2. CountedFulfilled'
  BY <1>1 DEF FulfilledInv, CountedFulfilled, Uncompleted
<1>3. ToCloseStored'
  BY <1>1 DEF FulfilledInv, ToCloseStored, Asking, Continued, Continuous
<1>4. Completing'
  BY <1>1 DEF Completing
<1> QED
  BY <1>2, <1>3, <1>4 DEF FulfilledInv

LEMMA SharedFulfilled ==
    ASSUME BulkInv, PreparedInv, FulfilledInv, Shared
    PROVE  FulfilledInv'
<1>1. UNCHANGED bulkVars /\ FulfilledFrom /\ OutcomesStay
      /\ \A b \in Bulks : bulks'[b].fulfilled = bulks[b].fulfilled
  BY IdleFulfilled DEF Shared, bulkVars, bulkState, PreparedInv
<1>2. CASE \E n \in 1..BatchSize : StartBatch(n)
  <2>1. /\ UNCHANGED <<cache, transfers>>
        /\ pc = "idle" /\ pc' = "commands" /\ ToClose' = {}
    BY <1>2 DEF StartBatch, world, ToClose
  <2> QED
    BY <1>1, <2>1, IdleAdvances, FulfilledKept DEF Asking, Unflushed, Continued, Continuous
<1>3. CASE \E t \in Transfers : Query(t)
  <2>1. PICK t \in Transfers : Query(t)
    BY <1>3
  <2>2. Handling("QueryTransferCmd", t)
    BY <2>1 DEF Query, QueryUnread, QueryRefused, QueryAnswered
  <2>3. /\ UNCHANGED transfers /\ (UNCHANGED cache \/ Keep(t, cache[t]))
        /\ \E name \in EventNames : Emit(name, t)
    BY <2>1 DEF Query, QueryUnread, QueryRefused, QueryAnswered, Answer, EventNames
  <2>4. UNCHANGED cache
    BY <2>3 DEF Keep, BulkInv, MembersInv, Documents
  <2>5. Advance
    BY <1>1, <2>3, <2>4, IdleAdvances
  <2>6. ToClose' = ToClose
    BY <2>3, OtherClosing DEF EventNames
  <2> QED
    BY <1>1, <2>2, <2>5, <2>6, FulfilledKept
    DEF Handling, Asking, Unflushed, Continued, Continuous
<1>4. CASE \/ EndOfCommands \/ EndOfResponses \/ Cancellations \/ Acknowledge \/ Send
           \/ \E accepted \in SUBSET (DOMAIN abRequests) : AccountsAnswer(accepted)
  <2>1. UNCHANGED <<cache, transfers, outputEvents>>
    BY <1>4 DEF EndOfCommands, EndOfResponses, Cancellations, Acknowledge, Send, AccountsAnswer,
                memory, queues, world
  <2>2. \/ pc \in Asking /\ pc' \in {"accounts", "responses", "cancellations", "flush"}
        \/ pc \in Continued /\ pc' \in {"cancellations", "flush"}
        \/ pc = "send" /\ pc' \in {"dying", "acknowledge"}
        \/ pc = "acknowledge" /\ pc' = "idle"
    BY <1>4 DEF EndOfCommands, EndOfResponses, AfterResponses, Cancellations, Acknowledge, Send,
                AccountsAnswer, Asking, Continuous, Continued
  <2>3. Advance /\ ToClose' = ToClose
    BY <1>1, <2>1, IdleAdvances DEF ToClose
  <2> QED
    BY <1>1, <2>2, <2>3, FulfilledKept DEF Asking, Unflushed, Continued, Continuous
<1> QED
  BY <1>1, <1>2, <1>3, <1>4, FlushFulfilled DEF Shared

\* A bulk command only reads the list.
LEMMA BulkCommandFulfilled ==
    ASSUME BulkInv, PreparedInv, FulfilledInv, NEW b \in Bulks, BulkCommand(b)
    PROVE  FulfilledInv'
<1>1. PICK name \in BulkCommandNames : BulkHandling(name, b) /\ pc' \in {"commands", "members"}
  BY DEF BulkCommand, BulkUnread, BulkNotFound, BulkPrepareStart, BulkFulfilStart,
         BulkRejectUnlisted, BulkRejectStart, BulkQueryRefused, BulkQueryUnlisted,
         BulkQueryAnswered, BulkCommandNames, BulkAnswer, Loop, BulkHandling
<1>2. UNCHANGED outputEvents \/ \E event \in {"TransferUnableToGetBulkTransferByIdEvt",
            "BulkTransferNotFoundEvt", "ParticipantCheckFailedEvt", "TransferNotFoundEvt",
            "BulkTransferQueryResponseEvt"} : Emit(event, b)
  BY DEF BulkCommand, BulkUnread, BulkNotFound, BulkPrepareStart, BulkFulfilStart,
         BulkRejectUnlisted, BulkRejectStart, BulkQueryRefused, BulkQueryUnlisted,
         BulkQueryAnswered, BulkAnswer, Loop
<1>3. UNCHANGED bulkCache \/ \E d \in {FoundBulk(b), NoBulk,
                                       [FoundBulk(b) EXCEPT !.status = "ACCEPTED"]} : KeepBulk(b, d)
  BY DEF BulkCommand, BulkUnread, BulkNotFound, BulkPrepareStart, BulkFulfilStart,
         BulkRejectUnlisted, BulkRejectStart, BulkQueryRefused, BulkQueryUnlisted,
         BulkQueryAnswered, BulkAnswer
<1>4. /\ UNCHANGED <<cache, transfers, bulks>>
      /\ pc = "commands"
  BY <1>1 DEF BulkHandling, world
<1>5. FulfilledFrom
  <2>1. /\ [FoundBulk(b) EXCEPT !.status = "ACCEPTED"].fulfilled = FoundBulk(b).fulfilled
        /\ NoBulk.fulfilled = <<>> /\ ~Exists(NoBulk)
    BY BulkDocuments DEF BulkInv, BulkDoc, NoBulk, Exists
  <2>2. CASE UNCHANGED bulkCache
    BY <1>4, <2>2, IdleFulfilled
  <2>3. CASE \E d \in {FoundBulk(b), NoBulk, [FoundBulk(b) EXCEPT !.status = "ACCEPTED"]} :
                 KeepBulk(b, d)
    BY <1>4, <2>1, <2>3 DEF FulfilledFrom, KeepBulk, BulkInv, BulkTypeOK
  <2> QED
    BY <1>3, <2>2, <2>3
<1>6. Advance
  BY <1>4, IdleAdvances DEF PreparedInv
<1>7. ToClose' = ToClose
  BY <1>2, OtherClosing DEF ToClose
<1> QED
  BY <1>1, <1>4, <1>5, <1>6, <1>7, FulfilledKept DEF Asking, Unflushed, Continued, Continuous

LEMMA MemberCommandFulfilled ==
    ASSUME BulkInv, ToldInv, PreparedInv, FulfilledInv, NEW t \in Transfers, MemberCommand(t)
    PROVE  FulfilledInv'
<1>1. PICK name \in BulkCommandNames : Member(name, t)
  BY DEF MemberCommand, MemberUnread, MemberDuplicate, MemberPrepareRefused,
         MemberPrepareAccepted, MemberFulfilNotFound, MemberFulfilRefused,
         MemberFulfilAccepted, MemberRejectRefused, MemberRejected, BulkCommandNames
<1>2. UNCHANGED <<bulks, bulkCache, pc>> /\ pc = "members"
  BY <1>1 DEF Member, control, bulkState
<1>3. Advance /\ FulfilledFrom
  BY <1>2, MemberAdvances, IdleFulfilled DEF PreparedInv
<1>4. ToClose' = ToClose
  <2>1. UNCHANGED outputEvents \/ \E event \in EventNames : Emit(event, t)
    BY DEF MemberCommand, MemberUnread, MemberDuplicate, MemberPrepareRefused,
           MemberPrepareAccepted, MemberFulfilNotFound, MemberFulfilRefused,
           MemberFulfilAccepted, MemberRejectRefused, MemberRejected, ReadFails, Answer,
           Ignore, CancelBecause, CancelFails, EventNames
  <2> QED
    BY <2>1, OtherClosing DEF EventNames, ToClose
<1> QED
  BY <1>2, <1>3, <1>4, FulfilledKept DEF Asking, Unflushed, Continued, Continuous

\* A fulfil that is counted.
LEMMA CountFulfilled ==
    ASSUME BulkInv, ToldInv, PreparedInv, FulfilledInv, NEW success \in BOOLEAN,
           BulkFulfilContinue(success)
    PROVE  FulfilledInv'
<1> DEFINE t == Responding
           b == BulkOf(t)
           f == FoundBulk(b)
           s == f.fulfilled
           d == Fulfilled(f, t, success)
           n == Len(Members[b])
<1>1. /\ pc = "responses" /\ abResponses # <<>> /\ abResponses' = Tail(abResponses)
      /\ Head(abResponses).type = "commit"
      /\ UNCHANGED bulks
  BY DEF BulkFulfilContinue, BulkResponse
<1>2. t \in Transfers /\ b \in Told /\ b \in Bulks /\ t \in MembersOf(b)
  BY <1>1, NextResponse, ResponderTold DEF Told, FulfilledInv, FulfilsWait, PayeeWaitsToBeTold
<1>3. Advance /\ t \in ComingFinals'
  <2>1. \E events : MemberFulfilled(t, success, events)
    BY DEF BulkFulfilContinue
  <2> QED
    BY <1>2, <2>1, MemberFulfilledAdvances DEF PreparedInv
<1>4. t \in StoredTransfers
  BY <1>2 DEF PreparedInv, ToldStored, StoredOutcomes, StoredTransfers, Outcomes, Present
<1>5. /\ f \in BulkDoc /\ s \in Seq(Transfers)
      /\ Exists(bulkCache[b]) => f = bulkCache[b]
      /\ ~Exists(bulkCache[b]) => f = bulks[b]
      /\ Len(bulks[b].fulfilled) \in Nat /\ Len(s) \in Nat /\ n \in Nat
  BY <1>2, BulkDocuments, FulfilledLists, LenProperties DEF BulkInv, BulkDoc
<1>6. /\ StoredTransfers \subseteq StoredTransfers'
      /\ StoredFinals \subseteq StoredFinals' /\ StoredFinals \subseteq ComingFinals
      /\ ComingFinals \cap StoredTransfers \subseteq ComingFinals'
      /\ CurrentFinals = ComingFinals /\ (pc' \in Continuous => CurrentFinals' = ComingFinals')
  BY <1>1, <1>3 DEF Advance, PreparedInv, OutcomesStay, StoredTransfers, ComingFinals,
                    CurrentFinals, Unflushed, Continued, Continuous
<1>7. /\ d \in BulkDoc /\ d.fulfilled = Append(s, t) /\ Exists(d)
      /\ Append(s, t) \in Seq(Transfers) /\ Len(Append(s, t)) = Len(s) + 1
      /\ Listed(Append(s, t)) = Listed(s) \cup {t}
  BY <1>2, <1>5, CountOne DEF Fulfilled, BulkDoc, BulkStates, Exists
<1>8. /\ \/ /\ Len(s) + 1 = n
            /\ KeepBulk(b, [d EXCEPT !.status = "COMPLETED"])
            /\ pc' = "completing" /\ current' = b
            /\ MemberFulfilled(t, success, {[name |-> "BulkTransferFulfiledEvt", id |-> b]})
         \/ /\ KeepBulk(b, d)
            /\ pc' = "responses"
            /\ MemberFulfilled(t, success, {})
  BY <1>1, <1>7 DEF BulkFulfilContinue, AllFulfilled
<1>9. /\ [d EXCEPT !.status = "COMPLETED"].fulfilled = Append(s, t)
      /\ Exists([d EXCEPT !.status = "COMPLETED"])
  BY <1>7 DEF BulkDoc, Exists
<1> HIDE DEF d
<1>10. /\ bulkCache'[b].fulfilled = Append(s, t) /\ Exists(bulkCache'[b])
       /\ \A c \in Bulks \ {b} : bulkCache'[c] = bulkCache[c]
  <2> HIDE DEF s, f, b, t
  <2> QED
    BY <1>2, <1>7, <1>8, <1>9 DEF KeepBulk, BulkInv, BulkTypeOK
<1>11. /\ pc' = "responses" => ToClose' = ToClose
       /\ pc' = "completing" => /\ ToClose' = ToClose \cup {b} /\ Len(s) + 1 = n /\ current' = b
       /\ pc' \in Continuous
  <2> HIDE DEF s, f, b, t
  <2> QED
    BY <1>2, <1>8 DEF MemberFulfilled, ToClose, Continuous
<1>12. /\ Listed(s) \cup Listed(bulks[b].fulfilled) \subseteq StoredTransfers
       /\ Len(bulks[b].fulfilled) <= Len(s)
       /\ Len(s) < n => Listed(s) \cup Listed(bulks[b].fulfilled) \subseteq ComingFinals
  <2>1. /\ Listed(bulkCache[b].fulfilled) \cup Listed(bulks[b].fulfilled) \subseteq StoredTransfers
        /\ Exists(bulkCache[b]) => Len(bulks[b].fulfilled) <= Len(bulkCache[b].fulfilled)
        /\ Len(bulks[b].fulfilled) < n => Listed(bulks[b].fulfilled) \subseteq StoredFinals
        /\ Len(bulkCache[b].fulfilled) < n => Listed(bulkCache[b].fulfilled) \subseteq CurrentFinals
    BY <1>2 DEF FulfilledInv, CountedFulfilled, Uncompleted
  <2> HIDE DEF n, b
  <2>2. CASE Exists(bulkCache[b])
    BY <1>5, <1>6, <2>1, <2>2
  <2>3. CASE ~Exists(bulkCache[b])
    BY <1>5, <1>6, <2>1, <2>3
  <2> QED
    BY <2>2, <2>3
<1> HIDE DEF s, f, b, t, n
<1>13. ASSUME NEW c \in Bulks
       PROVE  /\ Listed(bulkCache'[c].fulfilled) \cup Listed(bulks'[c].fulfilled) \subseteq StoredTransfers'
              /\ Exists(bulkCache'[c]) => Len(bulks'[c].fulfilled) <= Len(bulkCache'[c].fulfilled)
              /\ Uncompleted(c, bulks'[c]) => Listed(bulks'[c].fulfilled) \subseteq StoredFinals'
              /\ Uncompleted(c, bulkCache'[c]) => Listed(bulkCache'[c].fulfilled) \subseteq CurrentFinals'
  <2>1. /\ Listed(bulkCache[c].fulfilled) \cup Listed(bulks[c].fulfilled) \subseteq StoredTransfers
        /\ Exists(bulkCache[c]) => Len(bulks[c].fulfilled) <= Len(bulkCache[c].fulfilled)
        /\ Uncompleted(c, bulks[c]) => Listed(bulks[c].fulfilled) \subseteq StoredFinals
        /\ Uncompleted(c, bulkCache[c]) => Listed(bulkCache[c].fulfilled) \subseteq CurrentFinals
    BY DEF FulfilledInv, CountedFulfilled
  <2>2. CASE c # b
    BY <1>1, <1>6, <1>10, <1>11, <2>1, <2>2
  <2>3. CASE c = b
    <3>1. Listed(bulkCache'[b].fulfilled) = Listed(s) \cup {t}
      BY <1>7, <1>10
    <3>2. Len(bulks'[b].fulfilled) <= Len(bulkCache'[b].fulfilled)
      BY <1>1, <1>5, <1>7, <1>10, <1>12
    <3>3. ASSUME Uncompleted(b, bulkCache'[b])
          PROVE  Listed(bulkCache'[b].fulfilled) \subseteq CurrentFinals'
      <4>1. Len(s) < n
        BY <1>5, <1>7, <1>10, <3>3 DEF Uncompleted, n
      <4> QED
        BY <1>3, <1>6, <1>11, <1>12, <3>1, <4>1
    <3> QED
      BY <1>1, <1>4, <1>6, <1>12, <2>1, <2>3, <3>1, <3>2, <3>3
  <2> QED
    BY <2>2, <2>3
<1>14. CountedFulfilled'
  BY <1>13 DEF CountedFulfilled
<1>15. ToCloseStored'
  <2>1. ASSUME NEW c \in ToClose'
        PROVE  Listed(bulkCache'[c].fulfilled) \cup Listed(bulks'[c].fulfilled) \subseteq ComingFinals'
    <3>1. /\ Listed(bulkCache[c].fulfilled) \cup Listed(bulks[c].fulfilled) \subseteq StoredTransfers
          /\ c \in Bulks
      BY DEF FulfilledInv, CountedFulfilled, ToClose
    <3>2. c \in ToClose =>
             Listed(bulkCache[c].fulfilled) \cup Listed(bulks[c].fulfilled) \subseteq ComingFinals
      BY <1>1 DEF FulfilledInv, ToCloseStored, Continued, Continuous
    <3>3. CASE c # b
      BY <1>1, <1>6, <1>10, <1>11, <3>1, <3>2, <3>3 DEF Continuous
    <3>4. CASE c = b
      <4>1. Listed(s) \cup Listed(bulks[b].fulfilled) \subseteq ComingFinals
        <5>1. CASE b \in ToClose
          <6>1. Listed(s) \subseteq Listed(bulkCache[b].fulfilled) \cup Listed(bulks[b].fulfilled)
            BY <1>5 DEF s
          <6> QED
            BY <3>2, <3>4, <5>1, <6>1
        <5>2. CASE b \notin ToClose
          BY <1>5, <1>11, <1>12, <3>4, <5>2 DEF Continuous
        <5> QED
          BY <5>1, <5>2
      <4> QED
        BY <1>1, <1>3, <1>6, <1>7, <1>10, <1>12, <3>4, <4>1
    <3> QED
      BY <3>3, <3>4
  <2> QED
    BY <1>11, <2>1 DEF ToCloseStored, Asking, Continuous
<1>16. Completing'
  <2>1. ASSUME pc' = "completing"
        PROVE  (current \in ToClose)' /\ ~Uncompleted(current', bulkCache'[current'])
    BY <1>5, <1>7, <1>10, <1>11, <2>1 DEF Uncompleted, n
  <2> QED
    BY <2>1 DEF Completing, Uncompleted
<1> QED
  BY <1>14, <1>15, <1>16 DEF FulfilledInv

\* The other continue methods count no fulfil.
LEMMA ContinueFulfilled ==
    ASSUME BulkInv, ToldInv, PreparedInv, FulfilledInv, NEW success \in BOOLEAN,
           \/ BulkPrepareUncounted(success)
           \/ BulkPrepareContinue(success)
           \/ BulkFulfilUncounted(success)
           \/ SinglePrepareContinue(success)
           \/ SingleFulfilContinue(success)
    PROVE  FulfilledInv'
<1> DEFINE t == Responding
<1>1. /\ pc = "responses" /\ abResponses # <<>> /\ abResponses' = Tail(abResponses)
      /\ UNCHANGED <<bulks, pc>>
  BY DEF BulkPrepareUncounted, BulkFulfilUncounted, BulkPrepareContinue, SinglePrepareContinue,
         SingleFulfilContinue, BulkResponse, Continuing, control, bulkVars, bulkState
<1>2. /\ t \in Transfers
      /\ Head(abResponses).type = "reserve" => t \in Fresh
  BY <1>1, NextResponse
<1>3. Advance
  BY ContinueAdvances DEF BulkContinue
<1>4. ToClose' \subseteq ToClose
  BY DEF BulkPrepareUncounted, BulkFulfilUncounted, BulkPrepareContinue, SinglePrepareContinue,
         SingleFulfilContinue, MemberPrepared, MemberFulfilled, BulkMissing, Emit, ToClose
<1>5. FulfilledFrom
  <2>1. CASE BulkPrepareContinue(success)
    <3> DEFINE b == BulkOf(t)
               d == [FoundBulk(b) EXCEPT !.prepared = Append(@, t)]
    <3>1. b \in Bulks /\ FoundBulk(b) \in BulkDoc
      BY <1>2, <2>1, RoutedBulk, BulkDocuments DEF BulkPrepareContinue, BulkResponse, BulkInv
    <3>2. /\ d.fulfilled = FoundBulk(b).fulfilled
          /\ [d EXCEPT !.status = "PENDING"].fulfilled = FoundBulk(b).fulfilled
      BY <3>1 DEF BulkDoc
    <3>3. KeepBulk(b, d) \/ KeepBulk(b, [d EXCEPT !.status = "PENDING"])
      BY <2>1 DEF BulkPrepareContinue
    <3> HIDE DEF d, b
    <3> QED
      BY <1>1, <3>1, <3>2, <3>3 DEF KeepBulk, FulfilledFrom, BulkInv, BulkTypeOK
  <2>2. CASE UNCHANGED bulkCache
    BY <1>1, <2>2, IdleFulfilled
  <2> QED
    BY <2>1, <2>2 DEF BulkPrepareUncounted, BulkFulfilUncounted, SinglePrepareContinue,
                      SingleFulfilContinue, BulkMissing, bulkVars, bulkState
<1> QED
  BY <1>1, <1>3, <1>4, <1>5, FulfilledKept DEF Asking, Unflushed, Continued, Continuous

\* updateBulkTransfer stores the list that was announced, or the one of a bulk transfer
\* that is rejected.
LEMMA RestFulfilled ==
    ASSUME BulkInv, ToldInv, PreparedInv, FulfilledInv,
           EndOfMembers \/ BulkRejectDone \/ BulkCompleted \/ Adding
    PROVE  FulfilledInv'
<1>1. /\ UNCHANGED <<cache, transfers>>
      /\ \/ UNCHANGED pc
         \/ pc = "members" /\ pc' \in {"commands", "flush"}
         \/ pc = "completing" /\ pc' \in {"responses", "flush"}
  BY DEF EndOfMembers, BulkRejectDone, BulkCompleted, BulkUpdated, BulkUpdateThrows, Adding,
         AddChecked, AddInserted, vars, control, memory, queues, world
<1>2. Advance
  BY <1>1, IdleAdvances DEF PreparedInv
<1>3. ToClose' = ToClose
  BY DEF EndOfMembers, BulkRejectDone, BulkCompleted, BulkUpdated, BulkUpdateThrows, Adding,
         AddChecked, AddInserted, vars, memory, queues, Emit, ToClose
<1>4. current \in Bulks /\ bulkCache[current] \in BulkDoc
  BY DEF BulkInv, BulkTypeOK
<1>5. /\ FulfilledFrom
      /\ pc = "send" => \A b \in Bulks : bulks'[b].fulfilled \in {bulks[b].fulfilled, <<>>}
      /\ pc' = "completing" => UNCHANGED <<pc, current, bulkCache>>
  <2>1. CASE EndOfMembers
    BY <2>1, IdleFulfilled DEF EndOfMembers, bulkVars, bulkState
  <2>2. CASE BulkRejectDone
    <3> DEFINE d == [bulkCache[current] EXCEPT !.status = "REJECTED"]
    <3>1. pc = "members" /\ Exists(bulkCache[current])
      BY <2>2 DEF BulkRejectDone, ToldInv, LoopOverMembers
    <3>2. d.fulfilled = bulkCache[current].fulfilled
      BY <1>4 DEF BulkDoc
    <3>3. /\ KeepBulk(current, d) /\ (BulkUpdated(current, d) \/ UNCHANGED bulks)
          /\ pc' # "completing"
      BY <2>2 DEF BulkRejectDone, BulkUpdateThrows
    <3> HIDE DEF d
    <3> QED
      BY <1>4, <3>1, <3>2, <3>3 DEF KeepBulk, BulkUpdated, FulfilledFrom, BulkInv, BulkTypeOK,
                                    Unflushed, Continued, Continuous
  <2>3. CASE BulkCompleted
    <3>1. ~Uncompleted(current, bulkCache[current]) /\ pc = "completing" /\ pc' # "completing"
      BY <2>3 DEF BulkCompleted, BulkUpdateThrows, FulfilledInv, Completing
    <3>2. \A b \in Bulks : NoBulkCache[b].fulfilled = <<>> /\ ~Exists(NoBulkCache[b])
      BY DEF NoBulkCache, NoBulk, Exists
    <3>3. \/ BulkUpdated(current, bulkCache[current]) /\ bulkCache' = NoBulkCache
          \/ UNCHANGED <<bulks, bulkCache>>
      BY <2>3 DEF BulkCompleted, BulkUpdateThrows
    <3> QED
      BY <1>4, <3>1, <3>2, <3>3 DEF BulkUpdated, FulfilledFrom, BulkInv, BulkTypeOK
  <2>4. CASE Adding
    <3>1. NewBulk.fulfilled = <<>>
      BY DEF NewBulk, NoBulk
    <3>2. /\ UNCHANGED <<bulkCache, current, pc>>
          /\ \/ UNCHANGED bulks
             \/ \E b \in Bulks : bulks' = [bulks EXCEPT ![b] = IF Exists(@) THEN @ ELSE NewBulk]
      BY <2>4 DEF Adding, AddChecked, AddInserted, vars, control
    <3>3. \A b \in Bulks : bulks'[b].fulfilled \in {bulks[b].fulfilled, <<>>}
      BY <3>1, <3>2 DEF BulkInv, BulkTypeOK
    <3> QED
      BY <3>2, <3>3 DEF FulfilledFrom
  <2> QED
    BY <2>1, <2>2, <2>3, <2>4
<1> QED
  BY <1>1, <1>2, <1>3, <1>5, FulfilledKept DEF Asking, Unflushed, Continued, Continuous

\* The lists in memory are gone.
LEMMA RestartFulfilled ==
    ASSUME BulkInv, FulfilledInv, Restart, BulkMemoryLost
    PROVE  FulfilledInv'
<1>1. /\ UNCHANGED transfers /\ pc' = "idle" /\ bulkCache' = NoBulkCache
  BY DEF Restart, BulkMemoryLost, world
<1>2. \A b \in Bulks : /\ bulks'[b].fulfilled \in {bulks[b].fulfilled, <<>>}
                       /\ bulkCache'[b].fulfilled = <<>> /\ ~Exists(bulkCache'[b])
  BY <1>1 DEF BulkMemoryLost, NewBulk, NoBulk, NoBulkCache, Exists
<1>3. UNCHANGED <<StoredTransfers, StoredFinals>> /\ Listed(<<>>) = {}
  BY <1>1 DEF StoredTransfers, StoredFinals, Listed
<1>4. CountedFulfilled'
  <2>1. ASSUME NEW b \in Bulks
        PROVE  /\ Listed(bulkCache'[b].fulfilled) = {} /\ ~Exists(bulkCache'[b])
               /\ Listed(bulks'[b].fulfilled) \subseteq StoredTransfers'
               /\ Uncompleted(b, bulks'[b]) => Listed(bulks'[b].fulfilled) \subseteq StoredFinals'
    <3>1. \/ Listed(bulks'[b].fulfilled) = {}
          \/ bulks'[b].fulfilled = bulks[b].fulfilled
      BY <1>2, <1>3
    <3> QED
      BY <1>2, <1>3, <3>1 DEF FulfilledInv, CountedFulfilled, Uncompleted
  <2> QED
    BY <2>1 DEF CountedFulfilled
<1>5. ToCloseStored' /\ Completing'
  BY <1>1 DEF ToCloseStored, Completing, Asking, Continued, Continuous
<1> QED
  BY <1>4, <1>5 DEF FulfilledInv

LEMMA EnvironmentFulfilled ==
    ASSUME BulkInv, PreparedInv, FulfilledInv, BulkEnvironment \/ UNCHANGED allVars
    PROVE  FulfilledInv'
<1>1. CASE BulkCrash
  BY <1>1, RestartFulfilled DEF BulkCrash
<1>2. CASE \/ \E name \in Inputs, t \in Transfers : Produce(name, t) /\ UNCHANGED bulkVars
           \/ \E name \in BulkInputs, b \in Bulks : BulkProduce(name, b)
           \/ FailedAcknowledge /\ UNCHANGED bulkVars
           \/ UNCHANGED allVars
  <2>1. UNCHANGED <<cache, transfers, outputEvents, pc, bulks, bulkCache, current>>
    BY <1>2 DEF Produce, BulkProduce, FailedAcknowledge, control, memory, queues, world,
                bulkVars, bulkState, allVars, vars
  <2>2. Advance /\ FulfilledFrom /\ ToClose' = ToClose
    BY <2>1, IdleAdvances, IdleFulfilled DEF PreparedInv, ToClose
  <2> QED
    BY <2>1, <2>2, FulfilledKept DEF Asking, Unflushed, Continued, Continuous
<1> QED
  BY <1>1, <1>2 DEF BulkEnvironment

LEMMA FulfilledInit == PayeeWaitsToBeTold /\ BulkInit => FulfilledInv
<1> SUFFICES ASSUME PayeeWaitsToBeTold, BulkInit PROVE FulfilledInv
  OBVIOUS
<1>1. pc = "idle" /\ bulks = [b \in Bulks |-> NoBulk] /\ bulkCache = NoBulkCache
  BY DEF BulkInit, Init
<1>2. Listed(<<>>) = {}
  BY DEF Listed
<1>3. CountedFulfilled
  BY <1>1, <1>2 DEF CountedFulfilled, NoBulkCache, NoBulk, Exists
<1> QED
  BY <1>1, <1>3 DEF FulfilledInv, ToCloseStored, Completing, Asking, Continued, Continuous

LEMMA FulfilledNext ==
    BulkInv /\ ToldInv /\ PreparedInv /\ FulfilledInv /\ [BulkNext]_allVars => FulfilledInv'
<1> SUFFICES ASSUME BulkInv, ToldInv, PreparedInv, FulfilledInv, [BulkNext]_allVars
             PROVE FulfilledInv'
  OBVIOUS
<1>1. CASE \/ BulkExit
           \/ \E b \in Bulks : AddRejected(b)
  BY <1>1, RestartFulfilled DEF BulkExit, Exit, AddRejected
<1>2. CASE \E success \in BOOLEAN : BulkContinue(success)
  BY <1>2, CountFulfilled, ContinueFulfilled DEF BulkContinue
<1> QED
  BY <1>1, <1>2, SharedFulfilled, BulkCommandFulfilled, MemberCommandFulfilled, RestFulfilled,
     EnvironmentFulfilled DEF BulkNext, BulkProcess

\* What is counted as fulfilled is final, and is stored before it is announced.
LEMMA FulfilledInvariant == PayeeWaitsToBeTold /\ BulkSpec => []FulfilledInv
BY FulfilledInit, FulfilledNext, PreparedInvariant, ToldInvariant, BulkInductiveInvariant, PTL
DEF BulkSpec

\* Whenever a bulk transfer is announced as fulfilled, each individual transfer counted in
\* the stored bulk transfer is stored in a final state, whatever failed or crashed before.
THEOREM BulkFulfilledIsBacked == PayeeWaitsToBeTold /\ BulkSpec => []BulkFulfilledBacked
<1>1. BulkInv /\ FulfilledInv => BulkFulfilledBacked
  BY DEF FulfilledInv, ToCloseStored, ToClose, StoredFinals, Listed, BulkFulfilledBacked
<1> QED
  BY <1>1, FulfilledInvariant, BulkInductiveInvariant, PTL
=============================================================================
