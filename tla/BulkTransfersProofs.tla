-------------------------- MODULE BulkTransfersProofs --------------------------
(***************************************************************************)
(* Theorems about BulkTransfers for every set of transfers and of bulk     *)
(* transfers, and any number of commands, faults and crashes.              *)
(*                                                                         *)
(* Most of the handlers are those of TransfersAggregate.  Its proofs start *)
(* from TypeOK, which is not an invariant here: the topic and the events   *)
(* name bulk transfers too.  What the proofs below need of the types is    *)
(* Documents.                                                              *)
(***************************************************************************)
EXTENDS BulkTransfers, TransfersAggregateProofs, FiniteSetTheorems

-----------------------------------------------------------------------------
(* The inductive invariant.                                                 *)

\* The types of what individual and bulk commands share.
Documents ==
    /\ cache \in [Transfers -> Doc]
    /\ transfers \in [Transfers -> Doc]
    /\ abRequests \in Seq(Request)
    /\ abResponses \in Seq(Response)

\* What the state of an individual transfer relies on.
MembersInv == Documents /\ StateIsBacked /\ ResponsesBacked

\* A response is routed to a bulk transfer only if its transfer belongs to one.
KeptForMembers ==
    /\ batchCommands \in [Transfers -> CommandNames \cup BulkCommandNames \cup {"none"}]
    /\ \A t \in Transfers : RoutedToBulk(t) => \E b \in Bulks : t \in MembersOf(b)

BulkInv == MembersInv /\ BulkTypeOK /\ KeptForMembers

-----------------------------------------------------------------------------
(* What the steps do to individual transfers.                               *)

\* The documents of a step that keeps, makes or aborts them.
HandledDocuments ==
    /\ cache' \in [Transfers -> Doc]
    /\ transfers' \in [Transfers -> Doc]
    /\ HandlerStates

\* The states a handler may leave in the cache.
Allowed(t) == {cache[t].state, transfers[t].state, "RECEIVED", "ABORTED", "ABSENT"}

\* _getTransfer returns a document, in the state of the cached or the stored one.
LEMMA FoundDocument ==
    ASSUME Documents, NEW t \in Transfers
    PROVE  Found(t) \in Doc /\ Found(t).state \in {cache[t].state, transfers[t].state}
<1>1. cache[t] \in Doc /\ transfers[t] \in Doc
  BY DEF Documents
<1>2. Mapped(transfers[t]) \in Doc /\ Mapped(transfers[t]).state = transfers[t].state
  BY <1>1, DocTypes, DocStates DEF ErrorCodes, States
<1> QED
  BY <1>1, <1>2 DEF Found

\* A handler that caches d, and at most stores an aborted transfer.
LEMMA KeepDocument ==
    ASSUME Documents, NEW t \in Transfers, NEW d \in Doc, Keep(t, d), d.state \in Allowed(t),
           NEW e \in Doc, e.state = "ABORTED",
           UNCHANGED transfers \/ transfers' = [transfers EXCEPT ![t] = e]
    PROVE  HandledDocuments
<1>1. cache' = [cache EXCEPT ![t] = d]
  BY DEF Keep
<1>2. /\ cache' \in [Transfers -> Doc]
      /\ \A u \in Transfers : cache'[u].state \in Allowed(u)
  BY <1>1 DEF Documents, Allowed
<1>3. /\ transfers' \in [Transfers -> Doc]
      /\ \A u \in Transfers : transfers'[u].state \in {transfers[u].state, "ABORTED"}
  BY DEF Documents
<1> QED
  BY <1>2, <1>3 DEF HandledDocuments, HandlerStates, Allowed

\* A handler that caches d and stores nothing.
LEMMA KeepOnly ==
    ASSUME Documents, NEW t \in Transfers, NEW d \in Doc, Keep(t, d), d.state \in Allowed(t),
           UNCHANGED transfers
    PROVE  HandledDocuments
<1>1. PICK e \in Doc : e.state = "ABORTED"
  <2>1. Aborted(NoDoc, "none") \in Doc /\ Aborted(NoDoc, "none").state = "ABORTED"
    BY DEF Aborted, InState, NoDoc, Doc, States, ErrorCodes
  <2> QED
    BY <2>1
<1> QED
  BY <1>1, KeepDocument

\* Each outcome of _cancelTransfer.
LEMMA CancelDocument ==
    ASSUME Documents, NEW t \in Transfers, NEW d \in Doc, NEW code \in ErrorCodes,
           d.state \in Allowed(t),
           CancelRefused(t, d) \/ CancelUnsaved(t, d, code) \/ CancelSaved(t, d, code)
    PROVE  HandledDocuments
<1> DEFINE a == Aborted(d, code)
<1>1. a \in Doc /\ a.state = "ABORTED"
  BY DocTypes, DocStates DEF States
<1>2. Saved(a) \in Doc /\ Saved(a).state = "ABORTED"
  BY <1>1, DocTypes, DocStates DEF States, ErrorCodes
<1>3. transfers[t] \in Doc
  BY DEF Documents
<1>4. Updated(a, t) \in Doc /\ Updated(a, t).state = "ABORTED"
  BY <1>2, <1>3 DEF Updated, Doc
<1>5. CASE CancelRefused(t, d)
  BY <1>5, KeepOnly DEF CancelRefused
<1>6. CASE CancelUnsaved(t, d, code)
  <2>1. Keep(t, a) /\ UNCHANGED transfers
    BY <1>6 DEF CancelUnsaved
  <2> HIDE DEF a
  <2> QED
    BY <1>1, <2>1, KeepOnly DEF Allowed
<1>7. CASE CancelSaved(t, d, code)
  <2>1. Keep(t, Saved(a)) /\ transfers' = [transfers EXCEPT ![t] = Updated(a, t)]
    BY <1>7 DEF CancelSaved
  <2> HIDE DEF a
  <2> QED
    BY <1>2, <1>4, <2>1, KeepDocument DEF Allowed
<1> QED
  BY <1>5, <1>6, <1>7

LEMMA AskType ==
    ASSUME Documents, NEW t \in Transfers, NEW type \in {"reserve", "commit"},
           AskAccounts(type, t)
    PROVE  abRequests' \in Seq(Request)
BY DEF Documents, AskAccounts, Request

-----------------------------------------------------------------------------
(* How MembersInv is preserved.                                             *)

\* By a handler.
LEMMA HandledInv ==
    ASSUME MembersInv, HandledDocuments, abRequests' \in Seq(Request),
           UNCHANGED <<ledger, abResponses>>
    PROVE  MembersInv'
<1>1. StateIsBacked'
  BY DEF MembersInv, HandledDocuments, HandlerStates, StateIsBacked, ledger
<1>2. ResponsesBacked'
  BY DEF MembersInv, ResponsesBacked, ledger
<1> QED
  BY <1>1, <1>2 DEF MembersInv, Documents, HandledDocuments

\* By a step that leaves all of it alone, or forgets it.
LEMMA IdleInv ==
    ASSUME MembersInv, UNCHANGED <<transfers, ledger>>,
           cache' = cache \/ cache' = EmptyCache,
           abRequests' = abRequests \/ abRequests' = <<>>,
           abResponses' = abResponses \/ abResponses' = <<>>
    PROVE  MembersInv'
<1>1. /\ EmptyCache \in [Transfers -> Doc]
      /\ \A t \in Transfers : EmptyCache[t].state = "ABSENT"
  BY DEF EmptyCache, NoDoc, Doc, States, ErrorCodes
<1>2. <<>> \in Seq(Request) /\ <<>> \in Seq(Response)
  BY EmptySeq
<1>3. Documents'
  BY <1>1, <1>2 DEF MembersInv, Documents
<1>4. StateIsBacked'
  BY <1>1 DEF MembersInv, StateIsBacked, ledger
<1>5. ResponsesBacked'
  BY DEF MembersInv, ResponsesBacked, ledger
<1> QED
  BY <1>3, <1>4, <1>5 DEF MembersInv

\* The first response is taken off the queue.
LEMMA FirstResponse ==
    ASSUME MembersInv, NEW type, NEW success \in BOOLEAN,
           abResponses # <<>>,
           Head(abResponses).type = type, Succeeded(Head(abResponses), success),
           abResponses' = Tail(abResponses), UNCHANGED ledger
    PROVE  /\ abResponses' \in Seq(Response) /\ ResponsesBacked'
           /\ Responding \in Transfers
           /\ success = TRUE /\ type = "reserve" => Responding \in reserved
           /\ success = TRUE /\ type = "commit" => Responding \in posted
<1>1. abResponses \in Seq(Response)
  BY DEF MembersInv, Documents
<1>2. /\ Head(abResponses) \in Response
      /\ Tail(abResponses) \in Seq(Response)
      /\ Head(abResponses) = abResponses[1]
      /\ DOMAIN abResponses = 1..Len(abResponses)
      /\ Len(abResponses) \in Nat \ {0}
      /\ DOMAIN Tail(abResponses) = 1..(Len(abResponses) - 1)
      /\ \A i \in 1..(Len(abResponses) - 1) : Tail(abResponses)[i] = abResponses[i + 1]
  BY <1>1
<1>3. /\ 1 \in DOMAIN abResponses
      /\ \A i \in 1..(Len(abResponses) - 1) : i + 1 \in DOMAIN abResponses
  BY <1>2
<1>4. ResponsesBacked'
  BY <1>2, <1>3 DEF MembersInv, ResponsesBacked, ledger
<1>5. Responding \in Transfers
  BY <1>2 DEF Response, Responding, TransferOf
<1>6. /\ success = TRUE /\ type = "reserve" => Responding \in reserved
      /\ success = TRUE /\ type = "commit" => Responding \in posted
  BY <1>2, <1>3 DEF MembersInv, ResponsesBacked, Succeeded, Responding, TransferOf
<1> QED
  BY <1>2, <1>4, <1>5, <1>6

\* A continue method caches a document that A&B backs.
LEMMA KeepBacked ==
    ASSUME MembersInv, NEW t \in Transfers, NEW d \in Doc, Keep(t, d),
           d.state = "RESERVED" => t \in reserved,
           d.state = "COMMITTED" => t \in posted,
           UNCHANGED <<transfers, ledger, abRequests>>,
           abResponses' \in Seq(Response), ResponsesBacked'
    PROVE  MembersInv'
<1>1. cache' = [cache EXCEPT ![t] = d]
  BY DEF Keep
<1>2. Documents'
  BY <1>1 DEF MembersInv, Documents
<1>3. StateIsBacked'
  BY <1>1 DEF MembersInv, Documents, StateIsBacked, ledger
<1> QED
  BY <1>2, <1>3 DEF MembersInv

\* Or it cancels.
LEMMA CancelBacked ==
    ASSUME MembersInv, HandledDocuments, UNCHANGED <<ledger, abRequests>>,
           abResponses' \in Seq(Response), ResponsesBacked'
    PROVE  MembersInv'
<1>1. StateIsBacked'
  BY DEF MembersInv, HandledDocuments, HandlerStates, StateIsBacked, ledger
<1> QED
  BY <1>1 DEF MembersInv, Documents, HandledDocuments

-----------------------------------------------------------------------------
(* The rest of the invariant.                                               *)

BulkPhases == Phases \cup {"members", "completing"}

\* Steps that leave bulk transfers and the kept commands alone, ...
LEMMA AsideInv ==
    ASSUME BulkTypeOK, KeptForMembers, UNCHANGED <<batchCommands, bulkVars>>,
           pc' \in BulkPhases
    PROVE  BulkTypeOK' /\ KeptForMembers'
BY DEF BulkTypeOK, KeptForMembers, RoutedToBulk, BulkPhases, bulkVars, bulkState

\* ... that keep an individual command, ...
LEMMA RememberedInv ==
    ASSUME BulkTypeOK, KeptForMembers, UNCHANGED <<bulkVars, pc>>,
           NEW t \in Transfers, NEW name \in CommandNames \ BulkCommandNames,
           batchCommands' = Remembered(name, t)
    PROVE  BulkTypeOK' /\ KeptForMembers'
<1>1. BulkTypeOK'
  BY DEF BulkTypeOK, bulkVars, bulkState
<1>2. batchCommands' \in [Transfers -> CommandNames \cup BulkCommandNames \cup {"none"}]
  BY DEF KeptForMembers, Remembered
<1>3. \A u \in Transfers : RoutedToBulk(u)' => RoutedToBulk(u)
  BY DEF KeptForMembers, Remembered, RoutedToBulk
<1> QED
  BY <1>1, <1>2, <1>3 DEF KeptForMembers

\* ... or forget all of them.
LEMMA ForgottenInv ==
    ASSUME KeptForMembers, batchCommands' = [t \in Transfers |-> "none"]
    PROVE  KeptForMembers'
<1>1. "none" \notin BulkCommandNames
  BY DEF BulkCommandNames
<1> QED
  BY <1>1 DEF KeptForMembers, RoutedToBulk

-----------------------------------------------------------------------------
(* The steps shared with individual transfers.                              *)

LEMMA QueryBulkInv ==
    ASSUME BulkInv, NEW t \in Transfers, Query(t), UNCHANGED bulkVars
    PROVE  BulkInv'
<1>1. Handling("QueryTransferCmd", t)
  BY DEF Query, QueryUnread, QueryRefused, QueryAnswered
<1>2. Documents /\ cache[t] \in Doc
  BY DEF BulkInv, MembersInv, Documents
<1>3. UNCHANGED <<transfers, abRequests>> /\ (UNCHANGED cache \/ Keep(t, cache[t]))
  BY DEF Query, QueryUnread, QueryRefused, QueryAnswered, Answer
<1>4. UNCHANGED cache
  BY <1>2, <1>3 DEF Keep, Documents
<1>5. MembersInv'
  BY <1>1, <1>3, <1>4, IdleInv DEF BulkInv, Handling
<1>6. "QueryTransferCmd" \in CommandNames \ BulkCommandNames
  BY DEF CommandNames, BulkCommandNames
<1>7. BulkTypeOK' /\ KeptForMembers'
  BY <1>1, <1>6, RememberedInv DEF BulkInv, Handling
<1> QED
  BY <1>5, <1>7 DEF BulkInv

LEMMA AccountsAnswerBulkInv ==
    ASSUME BulkInv, NEW accepted \in SUBSET (DOMAIN abRequests), AccountsAnswer(accepted),
           UNCHANGED bulkVars
    PROVE  BulkInv'
<1> DEFINE done == [i \in accepted |-> abRequests[i]]
<1>1. DOMAIN abRequests = 1..Len(abRequests) /\ Len(abRequests) \in Nat
  BY LenProperties DEF BulkInv, MembersInv, Documents
<1>2. \A i \in DOMAIN abRequests : abRequests[i] \in Request
  BY <1>1, ElementOfSeq DEF BulkInv, MembersInv, Documents
<1>3. /\ reserved' = reserved \cup Ids(done, "reserve")
      /\ posted' = posted \cup Ids(done, "commit")
  BY DEF AccountsAnswer
<1>4. \A i \in accepted :
         /\ abRequests[i].type = "reserve" => abRequests[i].id \in Ids(done, "reserve")
         /\ abRequests[i].type = "commit" => abRequests[i].id \in Ids(done, "commit")
  BY DEF Ids
<1> HIDE DEF done
<1>5. StateIsBacked'
  BY <1>3 DEF AccountsAnswer, BulkInv, MembersInv, StateIsBacked
<1>6. ASSUME abResponses' = [i \in DOMAIN abRequests |-> ResponseTo(i, accepted)]
      PROVE  abResponses' \in Seq(Response) /\ ResponsesBacked'
  <2>1. \A i \in DOMAIN abRequests : ResponseTo(i, accepted) \in Response
    BY <1>2 DEF ResponseTo, Request, Response
  <2>2. abResponses' \in Seq(Response)
    BY <1>1, <1>6, <2>1, IsASeq
  <2>3. ResponsesBacked'
    BY <1>3, <1>4, <1>6 DEF ResponsesBacked, ResponseTo
  <2> QED
    BY <2>2, <2>3
<1>7. ASSUME UNCHANGED abResponses
      PROVE  abResponses' \in Seq(Response) /\ ResponsesBacked'
  <2>1. abResponses' \in Seq(Response)
    BY <1>7 DEF BulkInv, MembersInv, Documents
  <2>2. ResponsesBacked'
    BY <1>3, <1>7 DEF BulkInv, MembersInv, ResponsesBacked
  <2> QED
    BY <2>1, <2>2
<1>8. abResponses' \in Seq(Response) /\ ResponsesBacked'
  BY <1>6, <1>7 DEF AccountsAnswer
<1>9. MembersInv'
  BY <1>5, <1>8 DEF AccountsAnswer, BulkInv, MembersInv, Documents
<1>10. BulkTypeOK' /\ KeptForMembers'
  BY AsideInv DEF BulkInv, AccountsAnswer, BulkPhases, Phases
<1> QED
  BY <1>9, <1>10 DEF BulkInv

LEMMA FlushBulkInv ==
    ASSUME BulkInv, Flush, UNCHANGED bulkVars
    PROVE  BulkInv'
<1>1. PICK ids \in SUBSET Cached : transfers' = Stored(ids)
  BY DEF Flush
<1>2. \A t \in Transfers : Saved(cache[t]) \in Doc /\ Saved(cache[t]).state = cache[t].state
  <2>1. \A t \in Transfers : cache[t] \in Doc
    BY DEF BulkInv, MembersInv, Documents
  <2> QED
    BY <2>1, DocTypes, DocStates DEF States, ErrorCodes
<1>3. /\ transfers' \in [Transfers -> Doc]
      /\ \A t \in Transfers : transfers'[t].state \in {cache[t].state, transfers[t].state}
  BY <1>1, <1>2 DEF Stored, BulkInv, MembersInv, Documents
<1>4. NoDoc \in Doc /\ NoDoc.state = "ABSENT"
  BY DEF NoDoc, Doc, States, ErrorCodes
<1>5. /\ cache' \in [Transfers -> Doc]
      /\ \A t \in Transfers : cache'[t].state \in {cache[t].state, "ABSENT"}
  BY <1>4 DEF Flush, EmptyCache, BulkInv, MembersInv, Documents
<1>6. StateIsBacked'
  BY <1>3, <1>5 DEF BulkInv, MembersInv, StateIsBacked, Flush, ledger
<1>7. ResponsesBacked'
  BY DEF BulkInv, MembersInv, ResponsesBacked, Flush, queues, ledger
<1>8. MembersInv'
  BY <1>3, <1>5, <1>6, <1>7 DEF BulkInv, MembersInv, Documents, Flush, queues
<1>9. BulkTypeOK' /\ KeptForMembers'
  BY AsideInv DEF BulkInv, Flush, BulkPhases, Phases
<1> QED
  BY <1>8, <1>9 DEF BulkInv

LEMMA SharedInv ==
    ASSUME BulkInv, Shared
    PROVE  BulkInv'
<1>1. UNCHANGED bulkVars
  BY DEF Shared
<1>2. CASE \E n \in 1..BatchSize : StartBatch(n)
  <2>1. PICK n \in 1..BatchSize : StartBatch(n)
    BY <1>2
  <2>2. MembersInv'
    BY <2>1, IdleInv DEF BulkInv, StartBatch, world
  <2>3. KeptForMembers'
    BY <2>1, ForgottenInv DEF BulkInv, StartBatch
  <2>4. BulkTypeOK'
    BY <1>1, <2>1 DEF BulkInv, BulkTypeOK, StartBatch, Phases, bulkVars, bulkState
  <2> QED
    BY <2>2, <2>3, <2>4 DEF BulkInv
<1>3. CASE \E t \in Transfers : Query(t)
  BY <1>1, <1>3, QueryBulkInv
<1>4. CASE \E accepted \in SUBSET (DOMAIN abRequests) : AccountsAnswer(accepted)
  BY <1>1, <1>4, AccountsAnswerBulkInv
<1>5. CASE Flush
  BY <1>1, <1>5, FlushBulkInv
<1>6. CASE EndOfCommands \/ EndOfResponses \/ Send \/ Acknowledge
  <2>1. UNCHANGED <<transfers, ledger, cache, abRequests, abResponses, batchCommands>>
    BY <1>6 DEF EndOfCommands, EndOfResponses, Send, Acknowledge, memory, queues, world
  <2>2. pc' \in BulkPhases
    BY <1>6 DEF EndOfCommands, EndOfResponses, AfterResponses, Send, Acknowledge,
                BulkPhases, Phases
  <2> QED
    BY <1>1, <2>1, <2>2, IdleInv, AsideInv DEF BulkInv
<1>7. CASE Cancellations
  <2>1. MembersInv'
    BY <1>7 DEF Cancellations, BulkInv, MembersInv, Documents, StateIsBacked, ResponsesBacked,
                memory, queues
  <2>2. UNCHANGED batchCommands /\ pc' \in BulkPhases
    BY <1>7 DEF Cancellations, memory, BulkPhases, Phases
  <2> QED
    BY <1>1, <2>1, <2>2, AsideInv DEF BulkInv
<1> QED
  BY <1>2, <1>3, <1>4, <1>5, <1>6, <1>7 DEF Shared

-----------------------------------------------------------------------------
(* The handlers of a bulk command's individual transfers.                   *)

\* All of them keep the invariant by the documents they leave.
LEMMA MemberInv ==
    ASSUME BulkInv, NEW name, NEW t \in Transfers, Member(name, t),
           HandledDocuments, abRequests' \in Seq(Request)
    PROVE  BulkInv'
<1>1. MembersInv'
  BY HandledInv DEF BulkInv, Member
<1>2. rest \in Seq(Transfers) /\ rest # <<>>
  BY DEF BulkInv, BulkTypeOK, Member
<1>3. rest' \in Seq(Transfers)
  BY <1>2, HeadTailProperties DEF Member
<1>4. BulkTypeOK'
  BY <1>3 DEF BulkInv, BulkTypeOK, Member, control, bulkState
<1>5. KeptForMembers'
  BY DEF BulkInv, KeptForMembers, RoutedToBulk, Member
<1> QED
  BY <1>1, <1>4, <1>5 DEF BulkInv

\* A handler that answers and asks A&B nothing.
LEMMA AnswerDocument ==
    ASSUME Documents, NEW t \in Transfers, NEW d \in Doc, NEW name, d.state \in Allowed(t),
           Answer(t, d, name)
    PROVE  HandledDocuments /\ abRequests' \in Seq(Request)
BY KeepOnly DEF Answer, Documents

LEMMA MemberPrepareInv ==
    ASSUME BulkInv, NEW t \in Transfers,
           MemberDuplicate(t) \/ MemberPrepareRefused(t) \/ MemberPrepareAccepted(t)
    PROVE  BulkInv'
<1>1. Member("PrepareBulkTransferCmd", t) /\ Documents
  BY DEF MemberDuplicate, MemberPrepareRefused, MemberPrepareAccepted, BulkInv, MembersInv
<1>2. Found(t) \in Doc /\ Found(t).state \in Allowed(t)
  BY <1>1, FoundDocument DEF Allowed
<1>3. /\ NewTransfer("none") \in Doc /\ NewTransfer("none").state \in Allowed(t)
      /\ NewTransfer("participants") \in Doc /\ NewTransfer("participants").state \in Allowed(t)
      /\ NoDoc \in Doc /\ NoDoc.state \in Allowed(t)
  BY DEF NewTransfer, NoDoc, Doc, States, ErrorCodes, Allowed
<1>4. ASSUME MemberDuplicate(t)
      PROVE  HandledDocuments /\ abRequests' \in Seq(Request)
  <2>1. CASE Answer(t, Found(t), "TransferQueryResponseEvt")
    BY <1>1, <1>2, <2>1, AnswerDocument
  <2>2. CASE Ignore(t)
    BY <1>1, <1>2, <2>2, KeepOnly DEF Ignore, Documents
  <2> QED
    BY <1>4, <2>1, <2>2 DEF MemberDuplicate
<1>5. ASSUME MemberPrepareRefused(t)
      PROVE  HandledDocuments /\ abRequests' \in Seq(Request)
  BY <1>1, <1>3, <1>5, AnswerDocument DEF MemberPrepareRefused
<1>6. ASSUME MemberPrepareAccepted(t)
      PROVE  HandledDocuments /\ abRequests' \in Seq(Request)
  BY <1>1, <1>3, <1>6, KeepOnly, AskType DEF MemberPrepareAccepted
<1> QED
  BY <1>1, <1>4, <1>5, <1>6, MemberInv

LEMMA MemberFulfilInv ==
    ASSUME BulkInv, NEW t \in Transfers,
           MemberFulfilNotFound(t) \/ MemberFulfilRefused(t) \/ MemberFulfilAccepted(t)
    PROVE  BulkInv'
<1>1. Member("CommitBulkTransferFulfilCmd", t) /\ Documents
  BY DEF MemberFulfilNotFound, MemberFulfilRefused, MemberFulfilAccepted, BulkInv, MembersInv
<1>2. Found(t) \in Doc /\ Found(t).state \in Allowed(t)
  BY <1>1, FoundDocument DEF Allowed
<1>3. NoDoc \in Doc /\ NoDoc.state \in Allowed(t)
  BY DEF NoDoc, Doc, States, ErrorCodes, Allowed
<1>4. ASSUME MemberFulfilNotFound(t)
      PROVE  HandledDocuments /\ abRequests' \in Seq(Request)
  BY <1>1, <1>3, <1>4, AnswerDocument DEF MemberFulfilNotFound
<1>5. ASSUME MemberFulfilRefused(t)
      PROVE  HandledDocuments /\ abRequests' \in Seq(Request)
  <2> DEFINE d == [Found(t) EXCEPT !.errorCode = "participants"]
  <2>1. d \in Doc /\ d.state \in Allowed(t)
    BY <1>2 DEF Doc, ErrorCodes
  <2>2. CancelBecause(t, d, "participants", "ParticipantCheckFailedEvt")
    BY <1>5 DEF MemberFulfilRefused
  <2> HIDE DEF d
  <2>3. "participants" \in ErrorCodes
    BY DEF ErrorCodes
  <2>4. HandledDocuments
    BY <1>1, <2>1, <2>2, <2>3, CancelDocument DEF CancelBecause, CancelFails
  <2> QED
    BY <1>1, <1>5, <2>4 DEF MemberFulfilRefused, Documents
<1>6. ASSUME MemberFulfilAccepted(t)
      PROVE  HandledDocuments /\ abRequests' \in Seq(Request)
  BY <1>1, <1>2, <1>6, KeepOnly, AskType DEF MemberFulfilAccepted
<1> QED
  BY <1>1, <1>4, <1>5, <1>6, MemberInv

LEMMA MemberRejectInv ==
    ASSUME BulkInv, NEW t \in Transfers, MemberRejectRefused(t) \/ MemberRejected(t)
    PROVE  BulkInv'
<1>1. Member("RejectBulkTransferCmd", t) /\ Documents
  BY DEF MemberRejectRefused, MemberRejected, BulkInv, MembersInv
<1>2. Found(t) \in Doc /\ Found(t).state \in Allowed(t)
  BY <1>1, FoundDocument DEF Allowed
<1>3. ASSUME MemberRejectRefused(t)
      PROVE  HandledDocuments /\ abRequests' \in Seq(Request)
  <2> DEFINE d == [Found(t) EXCEPT !.errorCode = "participants"]
  <2>1. d \in Doc /\ d.state \in Allowed(t)
    BY <1>2 DEF Doc, ErrorCodes
  <2>2. Answer(t, d, "ParticipantCheckFailedEvt")
    BY <1>3 DEF MemberRejectRefused
  <2> HIDE DEF d
  <2> QED
    BY <1>1, <2>1, <2>2, AnswerDocument
<1>4. ASSUME MemberRejected(t)
      PROVE  HandledDocuments /\ abRequests' \in Seq(Request)
  <2> DEFINE d == Aborted(Found(t), "rejected")
  <2>1. "rejected" \in ErrorCodes
    BY DEF ErrorCodes
  <2>2. d \in Doc /\ d.state = "ABORTED"
    BY <1>2, <2>1, DocTypes, DocStates DEF States
  <2>3. Updated(d, t) \in Doc /\ Updated(d, t).state = "ABORTED"
    <3>1. transfers[t] \in Doc /\ Saved(d) \in Doc /\ Saved(d).state = "ABORTED"
      BY <1>1, <2>1, <2>2, DocTypes, DocStates DEF Documents, States
    <3> QED
      BY <3>1 DEF Updated, Doc
  <2>4. CASE CancelFails(t, Found(t), "rejected") \/ CancelSaved(t, Found(t), "rejected")
    BY <1>1, <1>2, <1>4, <2>1, <2>4, CancelDocument
    DEF CancelFails, MemberRejected, Documents
  <2>5. CASE Keep(t, d) /\ transfers' = [transfers EXCEPT ![t] = Updated(d, t)]
    <3> HIDE DEF d
    <3>1. HandledDocuments
      BY <1>1, <2>2, <2>3, <2>5, KeepDocument DEF Allowed
    <3> QED
      BY <1>1, <1>4, <3>1 DEF MemberRejected, Documents
  <2> QED
    BY <1>4, <2>4, <2>5 DEF MemberRejected
<1> QED
  BY <1>1, <1>3, <1>4, MemberInv

LEMMA MemberCommandInv ==
    ASSUME BulkInv, NEW t \in Transfers, MemberCommand(t)
    PROVE  BulkInv'
<1>1. CASE MemberUnread(t)
  <2>1. PICK name \in BulkCommandNames : Member(name, t) /\ ReadFails(t)
    BY <1>1 DEF MemberUnread
  <2>2. HandledDocuments /\ abRequests' \in Seq(Request)
    BY <2>1 DEF ReadFails, HandledDocuments, HandlerStates, BulkInv, MembersInv, Documents
  <2> QED
    BY <2>1, <2>2, MemberInv
<1> QED
  BY <1>1, MemberPrepareInv, MemberFulfilInv, MemberRejectInv DEF MemberCommand

-----------------------------------------------------------------------------
(* Bulk commands.                                                           *)

LEMMA BulkDocuments ==
    ASSUME BulkTypeOK, NEW b \in Bulks
    PROVE  /\ FoundBulk(b) \in BulkDoc
           /\ bulks[b] \in BulkDoc /\ bulkCache[b] \in BulkDoc
           /\ \A s \in BulkStates : [FoundBulk(b) EXCEPT !.status = s] \in BulkDoc
           /\ NoBulk \in BulkDoc /\ NewBulk \in BulkDoc
<1>1. /\ FoundBulk(b) \in BulkDoc
      /\ bulks[b] \in BulkDoc /\ bulkCache[b] \in BulkDoc
  BY DEF BulkTypeOK, FoundBulk
<1>2. \A s \in BulkStates : [FoundBulk(b) EXCEPT !.status = s] \in BulkDoc
  BY <1>1 DEF BulkDoc
<1>3. NoBulk \in BulkDoc /\ NewBulk \in BulkDoc
  BY EmptySeq DEF NoBulk, NewBulk, BulkDoc, BulkStates
<1> QED
  BY <1>1, <1>2, <1>3

\* The order in which the transfers of a bulk transfer are found is a sequence of them.
LEMMA ListingTypes ==
    ASSUME NEW b \in Bulks, NEW ids \in Listings(b)
    PROVE  ids \in Seq(Transfers)
<1>1. Members[b] \in Seq(Transfers)
  BY BulkConstantsAssumption
<1>2. /\ DOMAIN Members[b] = 1..Len(Members[b])
      /\ Len(Members[b]) \in Nat
      /\ \A i \in DOMAIN Members[b] : Members[b][i] \in Transfers
  BY <1>1, LenProperties, ElementOfSeq
<1>3. IsFiniteSet(1..Len(Members[b]))
  BY <1>2, FS_Interval
<1>4. IsFiniteSet(MembersOf(b))
  <2>1. Members[b] \in [1..Len(Members[b]) -> Transfers]
    BY <1>1, <1>2
  <2>2. Members[b] \in Surjection(1..Len(Members[b]), MembersOf(b))
    BY <1>2, <2>1 DEF Surjection, MembersOf
  <2> QED
    BY <1>3, <2>2, FS_Surjection
<1>5. StoredMembers(b) \subseteq MembersOf(b) /\ MembersOf(b) \subseteq Transfers
  BY <1>2 DEF StoredMembers, MembersOf
<1>6. Cardinality(StoredMembers(b)) \in Nat
  BY <1>4, <1>5, FS_Subset, FS_CardinalityType
<1>7. ids \in [1..Cardinality(StoredMembers(b)) -> StoredMembers(b)]
  BY DEF Listings
<1> QED
  BY <1>5, <1>6, <1>7

\* What all of them have in common.
LEMMA BulkHandlingInv ==
    ASSUME BulkInv, NEW name \in BulkCommandNames, NEW b \in Bulks, BulkHandling(name, b),
           bulkCache' \in [Bulks -> BulkDoc], adding' \in [Bulks -> [checks : Nat, inserts : Nat]],
           rest' \in Seq(Transfers), current' \in Bulks, pc' \in BulkPhases
    PROVE  BulkInv'
<1>1. UNCHANGED <<transfers, ledger, cache, abRequests, abResponses>>
  BY DEF BulkHandling, world
<1>2. MembersInv'
  BY <1>1, IdleInv DEF BulkInv
<1>3. BulkTypeOK'
  BY DEF BulkInv, BulkTypeOK, BulkHandling, BulkPhases
<1>4. /\ batchCommands' \in [Transfers -> CommandNames \cup BulkCommandNames \cup {"none"}]
      /\ \A t \in Transfers : batchCommands'[t] = batchCommands[t] \/ t \in MembersOf(b)
  BY DEF BulkInv, KeptForMembers, BulkHandling, KeptCommands
<1>5. KeptForMembers'
  BY <1>4 DEF BulkInv, KeptForMembers, RoutedToBulk
<1> QED
  BY <1>2, <1>3, <1>5 DEF BulkInv

LEMMA BulkAnswerInv ==
    ASSUME BulkInv, NEW name \in BulkCommandNames, NEW b \in Bulks, BulkHandling(name, b),
           NEW d \in BulkDoc, NEW event, BulkAnswer(b, d, event)
    PROVE  BulkInv'
<1>1. bulkCache' \in [Bulks -> BulkDoc]
  BY DEF BulkAnswer, KeepBulk, BulkInv, BulkTypeOK
<1> QED
  BY <1>1, BulkHandlingInv DEF BulkAnswer, BulkInv, BulkTypeOK, BulkPhases

LEMMA BulkLoopInv ==
    ASSUME BulkInv, NEW name \in BulkCommandNames, NEW b \in Bulks, BulkHandling(name, b),
           NEW ids \in Seq(Transfers), Loop(b, ids),
           bulkCache' \in [Bulks -> BulkDoc],
           adding' \in [Bulks -> [checks : Nat, inserts : Nat]]
    PROVE  BulkInv'
BY BulkHandlingInv DEF Loop, BulkPhases

LEMMA BulkCommandInv ==
    ASSUME BulkInv, NEW b \in Bulks, BulkCommand(b)
    PROVE  BulkInv'
<1> USE DEF BulkCommandNames
<1>1. BulkTypeOK /\ FoundBulk(b) \in BulkDoc /\ NoBulk \in BulkDoc
  BY BulkDocuments DEF BulkInv
<1>2. CASE \E name \in BulkCommandNames \ {"PrepareBulkTransferCmd"} :
              BulkUnread(name, b) \/ BulkNotFound(name, b)
  <2>1. PICK name \in BulkCommandNames : BulkUnread(name, b) \/ BulkNotFound(name, b)
    BY <1>2
  <2> QED
    BY <1>1, <2>1, BulkAnswerInv DEF BulkUnread, BulkNotFound
<1>3. CASE BulkPrepareStart(b)
  <2>1. Members[b] \in Seq(Transfers)
    BY BulkConstantsAssumption
  <2>2. adding' \in [Bulks -> [checks : Nat, inserts : Nat]]
    <3>1. adding[b].checks + 1 \in Nat /\ adding[b].inserts \in Nat
      BY <1>1 DEF BulkTypeOK
    <3>2. adding' = [adding EXCEPT ![b].checks = @ + 1]
      BY <1>3 DEF BulkPrepareStart
    <3> QED
      BY <1>1, <3>1, <3>2 DEF BulkTypeOK
  <2>3. bulkCache' \in [Bulks -> BulkDoc]
    BY <1>1, <1>3 DEF BulkPrepareStart, BulkTypeOK
  <2> QED
    BY <1>3, <2>1, <2>2, <2>3, BulkLoopInv DEF BulkPrepareStart
<1>4. CASE BulkFulfilStart(b)
  <2>1. Members[b] \in Seq(Transfers)
    BY BulkConstantsAssumption
  <2>2. [FoundBulk(b) EXCEPT !.status = "ACCEPTED"] \in BulkDoc
    BY <1>1 DEF BulkDoc, BulkStates
  <2>3. /\ bulkCache' \in [Bulks -> BulkDoc]
        /\ adding' \in [Bulks -> [checks : Nat, inserts : Nat]]
    BY <1>1, <1>4, <2>2 DEF BulkFulfilStart, KeepBulk, BulkTypeOK
  <2> QED
    BY <1>4, <2>1, <2>3, BulkLoopInv DEF BulkFulfilStart
<1>5. CASE BulkRejectStart(b)
  <2>1. PICK ids \in Listings(b) : Loop(b, ids)
    BY <1>5 DEF BulkRejectStart
  <2>2. ids \in Seq(Transfers)
    BY ListingTypes
  <2>3. /\ bulkCache' \in [Bulks -> BulkDoc]
        /\ adding' \in [Bulks -> [checks : Nat, inserts : Nat]]
    BY <1>1, <1>5 DEF BulkRejectStart, KeepBulk, BulkTypeOK
  <2> QED
    BY <1>5, <2>1, <2>2, <2>3, BulkLoopInv DEF BulkRejectStart
<1>6. CASE BulkRejectUnlisted(b)
  BY <1>1, <1>6, BulkAnswerInv DEF BulkRejectUnlisted
<1>7. CASE BulkQueryRefused(b) \/ BulkQueryUnlisted(b) \/ BulkQueryAnswered(b)
  BY <1>1, <1>7, BulkAnswerInv DEF BulkQueryRefused, BulkQueryUnlisted, BulkQueryAnswered
<1> QED
  BY <1>2, <1>3, <1>4, <1>5, <1>6, <1>7 DEF BulkCommand

LEMMA EndOfMembersInv ==
    ASSUME BulkInv, EndOfMembers
    PROVE  BulkInv'
<1>1. UNCHANGED <<transfers, ledger, cache, abRequests, abResponses, batchCommands>>
  BY DEF EndOfMembers, memory, queues, world
<1>2. UNCHANGED bulkVars /\ pc' \in BulkPhases
  BY DEF EndOfMembers, BulkPhases, Phases
<1> QED
  BY <1>1, <1>2, IdleInv, AsideInv DEF BulkInv

\* updateBulkTransfer, with the document d and whatever becomes of the cache.
LEMMA BulkUpdateInv ==
    ASSUME BulkInv, NEW b \in Bulks, NEW d \in BulkDoc, NEW phase \in BulkPhases,
           \/ BulkUpdated(b, d) /\ pc' = phase
           \/ BulkUpdateThrows(b),
           bulkCache' \in [Bulks -> BulkDoc],
           UNCHANGED <<cache, batchCommands, abRequests, abResponses, transfers, ledger,
                       adding, rest, current>>
    PROVE  BulkInv'
<1>1. bulks' \in [Bulks -> BulkDoc] /\ pc' \in BulkPhases
  BY DEF BulkUpdated, BulkUpdateThrows, BulkInv, BulkTypeOK, BulkPhases, Phases
<1>2. BulkTypeOK'
  BY <1>1 DEF BulkInv, BulkTypeOK, BulkPhases
<1>3. KeptForMembers'
  BY DEF BulkInv, KeptForMembers, RoutedToBulk
<1>4. MembersInv'
  BY IdleInv DEF BulkInv
<1> QED
  BY <1>2, <1>3, <1>4 DEF BulkInv

LEMMA BulkRejectDoneInv ==
    ASSUME BulkInv, BulkRejectDone
    PROVE  BulkInv'
<1> DEFINE d == [bulkCache[current] EXCEPT !.status = "REJECTED"]
<1>1. current \in Bulks /\ bulkCache[current] \in BulkDoc
  BY DEF BulkInv, BulkTypeOK
<1>2. d \in BulkDoc
  BY <1>1 DEF BulkDoc, BulkStates
<1>3. /\ KeepBulk(current, d)
      /\ \/ BulkUpdated(current, d) /\ pc' = "commands"
         \/ BulkUpdateThrows(current)
      /\ UNCHANGED <<cache, batchCommands, abRequests, abResponses, world, adding, rest, current>>
  BY DEF BulkRejectDone
<1> HIDE DEF d
<1>4. bulkCache' \in [Bulks -> BulkDoc]
  BY <1>1, <1>2, <1>3 DEF KeepBulk, BulkInv, BulkTypeOK
<1>5. "commands" \in BulkPhases
  BY DEF BulkPhases, Phases
<1> QED
  BY <1>1, <1>2, <1>3, <1>4, <1>5, BulkUpdateInv DEF world

LEMMA BulkCompletedInv ==
    ASSUME BulkInv, BulkCompleted
    PROVE  BulkInv'
<1>1. current \in Bulks /\ bulkCache[current] \in BulkDoc
  BY DEF BulkInv, BulkTypeOK
<1>2. NoBulkCache \in [Bulks -> BulkDoc]
  BY EmptySeq DEF NoBulkCache, NoBulk, BulkDoc, BulkStates
<1>3. bulkCache' \in [Bulks -> BulkDoc]
  BY <1>2 DEF BulkCompleted, BulkInv, BulkTypeOK
<1>4. "responses" \in BulkPhases
  BY DEF BulkPhases, Phases
<1>5. /\ \/ BulkUpdated(current, bulkCache[current]) /\ pc' = "responses"
         \/ BulkUpdateThrows(current)
      /\ UNCHANGED <<cache, batchCommands, abRequests, abResponses, world, adding, rest, current>>
  BY DEF BulkCompleted, memory, queues
<1> QED
  BY <1>1, <1>3, <1>4, <1>5, BulkUpdateInv DEF world

-----------------------------------------------------------------------------
(* Continuing.                                                              *)

\* A continued response is backed, and one routed to a bulk transfer has one.
LEMMA BulkResponseTypes ==
    ASSUME BulkInv, NEW type, NEW success \in BOOLEAN, BulkResponse(type, success)
    PROVE  /\ abResponses' \in Seq(Response) /\ ResponsesBacked'
           /\ Responding \in Transfers
           /\ success = TRUE /\ type = "reserve" => Responding \in reserved
           /\ success = TRUE /\ type = "commit" => Responding \in posted
           /\ BulkOf(Responding) \in Bulks
<1>1. /\ abResponses' \in Seq(Response) /\ ResponsesBacked'
      /\ Responding \in Transfers
      /\ success = TRUE /\ type = "reserve" => Responding \in reserved
      /\ success = TRUE /\ type = "commit" => Responding \in posted
  BY FirstResponse DEF BulkInv, BulkResponse
<1>2. \E b \in Bulks : Responding \in MembersOf(b)
  BY <1>1 DEF BulkInv, KeptForMembers, BulkResponse
<1>3. BulkOf(Responding) \in Bulks
  BY <1>2 DEF BulkOf
<1> QED
  BY <1>1, <1>3

\* _prepareTransferContinue.
LEMMA MemberPreparedInv ==
    ASSUME MembersInv, NEW t \in Transfers, NEW success \in BOOLEAN, NEW events,
           MemberPrepared(t, success, events),
           success = TRUE => t \in reserved,
           UNCHANGED <<ledger, abRequests>>,
           abResponses' \in Seq(Response), ResponsesBacked'
    PROVE  MembersInv'
<1>1. Found(t) \in Doc
  BY FoundDocument DEF MembersInv
<1>2. /\ InState(Found(t), "RESERVED") \in Doc
      /\ InState(Found(t), "RESERVED").state = "RESERVED"
      /\ Aborted(Found(t), "liquidity") \in Doc
      /\ Aborted(Found(t), "liquidity").state = "ABORTED"
  BY <1>1, DocTypes, DocStates DEF States, ErrorCodes
<1>3. UNCHANGED transfers
  BY DEF MemberPrepared
<1>4. CASE success = TRUE
  <2>1. Keep(t, InState(Found(t), "RESERVED"))
    BY <1>4 DEF MemberPrepared
  <2> QED
    BY <1>2, <1>3, <1>4, <2>1, KeepBacked
<1>5. CASE success = FALSE
  <2>1. Keep(t, Aborted(Found(t), "liquidity"))
    BY <1>5 DEF MemberPrepared
  <2> QED
    BY <1>2, <1>3, <2>1, KeepBacked
<1> QED
  BY <1>4, <1>5

\* _fulfilTTransferContinue.
LEMMA MemberFulfilledInv ==
    ASSUME MembersInv, NEW t \in Transfers, NEW success \in BOOLEAN, NEW events,
           MemberFulfilled(t, success, events),
           success = TRUE => t \in posted,
           UNCHANGED <<ledger, abRequests>>,
           abResponses' \in Seq(Response), ResponsesBacked'
    PROVE  MembersInv'
<1> DEFINE failure == Aborted(Found(t), "commit")
<1>1. Found(t) \in Doc
  BY FoundDocument DEF MembersInv
<1>2. /\ InState(Found(t), "COMMITTED") \in Doc
      /\ InState(Found(t), "COMMITTED").state = "COMMITTED"
      /\ failure \in Doc /\ failure.state = "ABORTED"
      /\ "commit" \in ErrorCodes
  BY <1>1, DocTypes, DocStates DEF States, ErrorCodes
<1>3. CASE success /\ Keep(t, InState(Found(t), "COMMITTED")) /\ UNCHANGED transfers
  BY <1>2, <1>3, KeepBacked
<1>4. CASE CancelRefused(t, failure) \/ CancelUnsaved(t, failure, "commit")
           \/ CancelSaved(t, failure, "commit")
  <2> HIDE DEF failure
  <2>1. HandledDocuments
    BY <1>2, <1>4, CancelDocument DEF MembersInv, Allowed
  <2> QED
    BY <2>1, CancelBacked
<1> QED
  BY <1>3, <1>4 DEF MemberFulfilled

\* A transfer that is only read.
LEMMA MemberReadInv ==
    ASSUME MembersInv, NEW t \in Transfers, Keep(t, Found(t)),
           UNCHANGED <<transfers, ledger, abRequests>>,
           abResponses' \in Seq(Response), ResponsesBacked'
    PROVE  MembersInv'
<1>1. Found(t) \in Doc /\ Found(t).state \in Allowed(t)
  BY FoundDocument DEF MembersInv, Allowed
<1>2. HandledDocuments
  BY <1>1, KeepOnly DEF MembersInv
<1> QED
  BY <1>2, CancelBacked

\* The bulk transfer of a response: a document, or left alone.
LEMMA ContinuedBulk ==
    ASSUME BulkInv, NEW type, NEW success \in BOOLEAN, BulkResponse(type, success),
           bulkCache' \in [Bulks -> BulkDoc], pc' \in BulkPhases, current' \in Bulks
    PROVE  BulkTypeOK' /\ KeptForMembers'
<1>1. BulkTypeOK'
  BY DEF BulkInv, BulkTypeOK, BulkResponse, BulkPhases
<1>2. KeptForMembers'
  BY DEF BulkInv, KeptForMembers, RoutedToBulk, BulkResponse
<1> QED
  BY <1>1, <1>2

LEMMA BulkPrepareContinueInv ==
    ASSUME BulkInv, NEW success \in BOOLEAN,
           BulkPrepareUncounted(success) \/ BulkPrepareContinue(success)
    PROVE  BulkInv'
<1> DEFINE t == Responding
           b == BulkOf(t)
           d == [FoundBulk(b) EXCEPT !.prepared = Append(@, t)]
<1>1. /\ BulkResponse("reserve", success)
      /\ UNCHANGED <<pc, current>>
      /\ \E events : MemberPrepared(t, success, events)
  BY DEF BulkPrepareUncounted, BulkPrepareContinue
<1>2. /\ abResponses' \in Seq(Response) /\ ResponsesBacked'
      /\ t \in Transfers /\ b \in Bulks
      /\ success = TRUE => t \in reserved
  BY <1>1, BulkResponseTypes
<1>3. MembersInv'
  BY <1>1, <1>2, MemberPreparedInv DEF BulkInv, BulkResponse
<1>4. FoundBulk(b) \in BulkDoc
  BY <1>2, BulkDocuments DEF BulkInv
<1>5. d \in BulkDoc /\ [d EXCEPT !.status = "PENDING"] \in BulkDoc
  <2>1. Append(FoundBulk(b).prepared, t) \in Seq(Transfers)
    BY <1>2, <1>4, AppendProperties DEF BulkDoc
  <2>2. d \in BulkDoc
    BY <1>4, <2>1 DEF BulkDoc
  <2> QED
    BY <2>2 DEF BulkDoc, BulkStates
<1>6. UNCHANGED bulkCache \/ KeepBulk(b, d) \/ KeepBulk(b, [d EXCEPT !.status = "PENDING"])
  BY DEF BulkPrepareUncounted, BulkPrepareContinue, BulkMissing
<1> HIDE DEF d, b
<1>7. bulkCache' \in [Bulks -> BulkDoc]
  BY <1>2, <1>5, <1>6 DEF BulkInv, BulkTypeOK, KeepBulk
<1>8. BulkTypeOK' /\ KeptForMembers'
  BY <1>1, <1>7, ContinuedBulk DEF BulkInv, BulkTypeOK, BulkPhases
<1> QED
  BY <1>3, <1>8 DEF BulkInv

LEMMA BulkFulfilContinueInv ==
    ASSUME BulkInv, NEW success \in BOOLEAN,
           BulkFulfilUncounted(success) \/ BulkFulfilContinue(success)
    PROVE  BulkInv'
<1> DEFINE t == Responding
           b == BulkOf(t)
           d == Fulfilled(FoundBulk(b), t, success)
<1>1. BulkResponse("commit", success)
  BY DEF BulkFulfilUncounted, BulkFulfilContinue
<1>2. /\ abResponses' \in Seq(Response) /\ ResponsesBacked'
      /\ t \in Transfers /\ b \in Bulks
      /\ success = TRUE => t \in posted
  BY <1>1, BulkResponseTypes
<1>3. UNCHANGED <<ledger, abRequests>>
  BY <1>1 DEF BulkResponse
<1>4. MembersInv'
  <2>1. CASE BulkFulfilUncounted(success)
    BY <1>2, <1>3, <2>1, MemberReadInv DEF BulkFulfilUncounted, BulkInv
  <2>2. CASE BulkFulfilContinue(success)
    <3>1. \E events : MemberFulfilled(t, success, events)
      BY <2>2 DEF BulkFulfilContinue
    <3> QED
      BY <1>2, <1>3, <3>1, MemberFulfilledInv DEF BulkInv
  <2> QED
    BY <2>1, <2>2
<1>5. FoundBulk(b) \in BulkDoc
  BY <1>2, BulkDocuments DEF BulkInv
<1>6. d \in BulkDoc /\ [d EXCEPT !.status = "COMPLETED"] \in BulkDoc
  <2>1. Append(FoundBulk(b).fulfilled, t) \in Seq(Transfers)
    BY <1>2, <1>5, AppendProperties DEF BulkDoc
  <2>2. d \in BulkDoc
    BY <1>5, <2>1 DEF BulkDoc, BulkStates, Fulfilled
  <2> QED
    BY <2>2 DEF BulkDoc, BulkStates
<1>7. /\ UNCHANGED bulkCache \/ KeepBulk(b, d) \/ KeepBulk(b, [d EXCEPT !.status = "COMPLETED"])
      /\ UNCHANGED pc \/ pc' = "completing"
      /\ UNCHANGED current \/ current' = b
  BY DEF BulkFulfilUncounted, BulkFulfilContinue, BulkMissing
<1> HIDE DEF d, b
<1>8. bulkCache' \in [Bulks -> BulkDoc]
  BY <1>2, <1>6, <1>7 DEF BulkInv, BulkTypeOK, KeepBulk
<1>9. pc' \in BulkPhases /\ current' \in Bulks
  BY <1>2, <1>7 DEF BulkInv, BulkTypeOK, BulkPhases
<1>10. BulkTypeOK' /\ KeptForMembers'
  BY <1>1, <1>8, <1>9, ContinuedBulk
<1> QED
  BY <1>4, <1>10 DEF BulkInv

LEMMA SingleContinueInv ==
    ASSUME BulkInv, NEW success \in BOOLEAN,
           SinglePrepareContinue(success) \/ SingleFulfilContinue(success)
    PROVE  BulkInv'
<1> DEFINE t == Responding
<1>1. PICK type \in {"reserve", "commit"} :
        /\ Continuing(type, success)
        /\ type = "reserve" => \E events : MemberPrepared(t, success, events)
        /\ type = "commit" => \E events : MemberFulfilled(t, success, events)
  BY DEF SinglePrepareContinue, SingleFulfilContinue
<1>2. /\ abResponses' \in Seq(Response) /\ ResponsesBacked'
      /\ t \in Transfers
      /\ success = TRUE /\ type = "reserve" => t \in reserved
      /\ success = TRUE /\ type = "commit" => t \in posted
  BY <1>1, FirstResponse DEF BulkInv, Continuing
<1>3. UNCHANGED <<ledger, abRequests, batchCommands, pc>>
  BY <1>1 DEF Continuing, control
<1>4. MembersInv'
  BY <1>1, <1>2, <1>3, MemberPreparedInv, MemberFulfilledInv DEF BulkInv
<1>5. UNCHANGED bulkVars /\ pc' \in BulkPhases
  BY <1>3 DEF SinglePrepareContinue, SingleFulfilContinue, BulkInv, BulkTypeOK, BulkPhases
<1>6. BulkTypeOK' /\ KeptForMembers'
  BY <1>3, <1>5, AsideInv DEF BulkInv
<1> QED
  BY <1>4, <1>6 DEF BulkInv

-----------------------------------------------------------------------------
(* Insertions, crashes and the environment.                                 *)

LEMMA AddingInv ==
    ASSUME BulkInv, NEW b \in Bulks, AddChecked(b) \/ AddInserted(b)
    PROVE  BulkInv'
<1>1. UNCHANGED <<transfers, ledger, cache, abRequests, abResponses, batchCommands, pc>>
  BY DEF AddChecked, AddInserted, vars, control, memory, queues, world
<1>2. /\ adding[b].checks \in Nat /\ adding[b].inserts \in Nat
      /\ adding \in [Bulks -> [checks : Nat, inserts : Nat]]
  BY DEF BulkInv, BulkTypeOK
<1>3. adding' \in [Bulks -> [checks : Nat, inserts : Nat]]
  <2>1. CASE AddChecked(b)
    <3>1. adding[b].checks - 1 \in Nat /\ adding[b].inserts + 1 \in Nat
      BY <1>2, <2>1 DEF AddChecked
    <3>2. adding' = [adding EXCEPT ![b].checks = @ - 1, ![b].inserts = @ + 1]
      BY <2>1 DEF AddChecked
    <3> QED
      BY <1>2, <3>1, <3>2
  <2>2. CASE AddInserted(b)
    <3>1. adding[b].inserts - 1 \in Nat
      BY <1>2, <2>2 DEF AddInserted
    <3>2. adding' = [adding EXCEPT ![b].inserts = @ - 1]
      BY <2>2 DEF AddInserted
    <3> QED
      BY <1>2, <3>1, <3>2
  <2> QED
    BY <2>1, <2>2
<1>4. bulks' \in [Bulks -> BulkDoc]
  BY BulkDocuments DEF AddChecked, AddInserted, BulkInv, BulkTypeOK
<1>5. UNCHANGED <<bulkCache, rest, current>>
  BY DEF AddChecked, AddInserted
<1>6. MembersInv'
  BY <1>1, IdleInv DEF BulkInv
<1>7. BulkTypeOK'
  BY <1>1, <1>3, <1>4, <1>5 DEF BulkInv, BulkTypeOK
<1>8. KeptForMembers'
  BY <1>1 DEF BulkInv, KeptForMembers, RoutedToBulk
<1> QED
  BY <1>6, <1>7, <1>8 DEF BulkInv

LEMMA BulkRestartInv ==
    ASSUME BulkInv, Restart, BulkMemoryLost
    PROVE  BulkInv'
<1>1. MembersInv'
  BY IdleInv DEF BulkInv, Restart, world
<1>2. KeptForMembers'
  BY ForgottenInv DEF BulkInv, Restart
<1>3. NoBulk \in BulkDoc /\ NewBulk \in BulkDoc /\ <<>> \in Seq(Transfers)
  BY EmptySeq DEF NoBulk, NewBulk, BulkDoc, BulkStates
<1>4. bulks' \in [Bulks -> BulkDoc]
  BY <1>3 DEF BulkMemoryLost, BulkInv, BulkTypeOK
<1>5. BulkTypeOK'
  BY <1>3, <1>4 DEF BulkMemoryLost, NoBulkCache, NoAdding, Restart, Phases, BulkInv, BulkTypeOK
<1> QED
  BY <1>1, <1>2, <1>5 DEF BulkInv

LEMMA BulkEnvironmentInv ==
    ASSUME BulkInv, BulkEnvironment
    PROVE  BulkInv'
<1>1. CASE BulkCrash
  BY <1>1, BulkRestartInv DEF BulkCrash
<1>2. CASE \/ \E name \in Inputs, t \in Transfers : Produce(name, t) /\ UNCHANGED bulkVars
           \/ \E name \in BulkInputs, b \in Bulks : BulkProduce(name, b)
           \/ FailedAcknowledge /\ UNCHANGED bulkVars
  <2>1. UNCHANGED <<transfers, ledger, cache, abRequests, abResponses, batchCommands, pc,
                    bulkVars>>
    BY <1>2 DEF Produce, BulkProduce, FailedAcknowledge, control, memory, queues, world
  <2>2. pc' \in BulkPhases
    BY <2>1 DEF BulkInv, BulkTypeOK, BulkPhases
  <2> QED
    BY <2>1, <2>2, IdleInv, AsideInv DEF BulkInv
<1> QED
  BY <1>1, <1>2 DEF BulkEnvironment

-----------------------------------------------------------------------------
(* The theorems.                                                            *)

LEMMA BulkInitInv == BulkInit => BulkInv
<1> SUFFICES ASSUME BulkInit PROVE BulkInv
  OBVIOUS
<1>1. NoDoc \in Doc /\ NoDoc.state = "ABSENT"
  BY DEF NoDoc, Doc, States, ErrorCodes
<1>2. MembersInv
  BY <1>1, EmptySeq DEF BulkInit, Init, EmptyCache, MembersInv, Documents, StateIsBacked,
                        ResponsesBacked
<1>3. NoBulk \in BulkDoc /\ <<>> \in Seq(Transfers)
  BY EmptySeq DEF NoBulk, BulkDoc
<1>4. BulkTypeOK
  BY <1>3 DEF BulkInit, Init, NoBulkCache, NoAdding, BulkTypeOK, Phases
<1>5. KeptForMembers
  BY DEF BulkInit, Init, KeptForMembers, RoutedToBulk, BulkCommandNames
<1> QED
  BY <1>2, <1>4, <1>5 DEF BulkInv

LEMMA BulkNextInv == BulkInv /\ [BulkNext]_allVars => BulkInv'
<1> SUFFICES ASSUME BulkInv, [BulkNext]_allVars PROVE BulkInv'
  OBVIOUS
<1>1. CASE Shared
  BY <1>1, SharedInv
<1>2. CASE \E b \in Bulks : BulkCommand(b)
  BY <1>2, BulkCommandInv
<1>3. CASE \E t \in Transfers : MemberCommand(t)
  BY <1>3, MemberCommandInv
<1>4. CASE EndOfMembers
  BY <1>4, EndOfMembersInv
<1>5. CASE BulkRejectDone
  BY <1>5, BulkRejectDoneInv
<1>6. CASE \E success \in BOOLEAN : BulkContinue(success)
  BY <1>6, BulkPrepareContinueInv, BulkFulfilContinueInv, SingleContinueInv DEF BulkContinue
<1>7. CASE BulkCompleted
  BY <1>7, BulkCompletedInv
<1>8. CASE BulkExit \/ \E b \in Bulks : AddRejected(b)
  BY <1>8, BulkRestartInv DEF BulkExit, Exit, AddRejected
<1>9. CASE Adding
  BY <1>9, AddingInv DEF Adding
<1>10. CASE BulkEnvironment
  BY <1>10, BulkEnvironmentInv
<1>11. CASE UNCHANGED allVars
  <2>1. UNCHANGED <<transfers, ledger, cache, abRequests, abResponses, batchCommands, pc,
                    bulkVars>>
    BY <1>11 DEF allVars, vars, control, memory, queues, world
  <2>2. pc' \in BulkPhases
    BY <2>1 DEF BulkInv, BulkTypeOK, BulkPhases
  <2> QED
    BY <2>1, <2>2, IdleInv, AsideInv DEF BulkInv
<1> QED
  BY <1>1, <1>2, <1>3, <1>4, <1>5, <1>6, <1>7, <1>8, <1>9, <1>10, <1>11
  DEF BulkNext, BulkProcess

\* The inductive invariant holds in every reachable state.
THEOREM BulkInductiveInvariant == BulkSpec => []BulkInv
BY BulkInitInv, BulkNextInv, PTL DEF BulkSpec

\* The collection and the cache of bulk transfers, the insertions nobody waits for and
\* the loop over the individual transfers keep their types, whatever fails.
THEOREM BulkTypeCorrect == BulkSpec => []BulkTypeOK
<1>1. BulkInv => BulkTypeOK
  BY DEF BulkInv
<1> QED
  BY <1>1, BulkInductiveInvariant, PTL

\* Also when bulk commands, individual queries, insertions nobody waits for and crashes
\* mix, an individual transfer is RESERVED, in memory or in the collection, only if A&B
\* accepted its reservation, and COMMITTED only if A&B accepted its commit
\* (_prepareBulkTransferContinue, _fulfilBulkTransferContinue, _flush).
THEOREM BulkStatesAreBacked == BulkSpec => []StateIsBacked
<1>1. BulkInv => StateIsBacked
  BY DEF BulkInv, MembersInv
<1> QED
  BY <1>1, BulkInductiveInvariant, PTL
=============================================================================
