---------------------- MODULE BulkTransfersUnfailingProofs ----------------------
(***************************************************************************)
(* What the command handler owes for bulk transfers when nothing fails,    *)
(* for every set of bulk transfers and any number of commands: what A&B    *)
(* committed is stored, the payee's reject of a bulk transfer accounts for *)
(* each of its individual transfers, and its fulfil is answered.           *)
(*                                                                         *)
(* "Nothing fails" is NothingFails: no faults, and a bulk transfer is      *)
(* prepared once.  The invariants rely on UnfailingInv, ToldInv and        *)
(* PreparedInv of BulkTransfersAnnouncedProofs: a commit of A&B is stored  *)
(* or still to be continued (RecordedInv); no event is forgotten before it *)
(* is sent (AllSent); a transfer of a rejected bulk transfer is aborted,   *)
(* committed, or reported (AccountedInv); a fulfil that was taken from the *)
(* topic is answered, or what it asked of A&B is still to be continued and *)
(* counted (AnsweredInv).                                                  *)
(***************************************************************************)
EXTENDS BulkTransfersAnnouncedProofs

-----------------------------------------------------------------------------
(* What A&B committed.                                                      *)

\* A transfer is reserved before anything else is asked for it.
ReservedFirst(requests) ==
    \A i, j \in DOMAIN requests :
        i < j /\ requests[j].type = "reserve" => requests[i].id # requests[j].id

\* A commit is asked for a transfer of a bulk transfer in the collection.
CommitsOfStored(requests) ==
    \A i \in DOMAIN requests : requests[i].type = "commit" =>
        \E b \in Bulks : requests[i].id \in MembersOf(b) /\ Exists(bulks[b])

AskedInOrder ==
    /\ pc \in Asking =>
          /\ ReservedFirst(abRequests)
          /\ CommitsOfStored(abRequests)
          /\ \A i \in DOMAIN abRequests : Present(cache[abRequests[i].id])
    /\ pc \in Continuous => ReservedFirst(abResponses) /\ CommitsOfStored(abResponses)

\* A commit of t is still to be continued.
CommitPending(t) ==
    \E i \in DOMAIN abResponses : abResponses[i].type = "commit" /\ abResponses[i].id = t

\* Nothing to come changes the final state of t.
Settled(t) ==
    /\ t \in ComingFinals
    /\ \A i \in DOMAIN abResponses : abResponses[i].type = "reserve" => abResponses[i].id # t

\* What A&B committed is stored, or will be.
PostedKept ==
    /\ pc \notin Continued => posted \subseteq StoredFinals
    /\ pc \in Continued => \A t \in posted : Settled(t) \/ CommitPending(t)

RecordedInv == AskedInOrder /\ PostedKept

-----------------------------------------------------------------------------
(* How RecordedInv is preserved.                                            *)

\* What is in the collection of bulk transfers stays there.
BulksStay == \A b \in Bulks : Exists(bulks[b]) => Exists(bulks'[b])

\* The end of a loop, the update of a bulk transfer, an insertion beside.
LEMMA RestKeepsBulks ==
    ASSUME BulkInv, UnfailingInv, EndOfMembers \/ BulkRejectDone \/ BulkCompleted \/ Adding
    PROVE  BulksStay
<1>1. current \in Bulks /\ bulkCache[current] \in BulkDoc /\ bulks \in [Bulks -> BulkDoc]
  BY DEF BulkInv, BulkTypeOK
<1>2. CASE EndOfMembers
  BY <1>2 DEF EndOfMembers, bulkVars, bulkState, BulksStay
<1>3. CASE BulkRejectDone
  <2> DEFINE d == [bulkCache[current] EXCEPT !.status = "REJECTED"]
  <2>1. Exists(d)
    BY <1>1 DEF BulkDoc, Exists
  <2>2. BulkUpdated(current, d) \/ UNCHANGED bulks
    BY <1>3 DEF BulkRejectDone, BulkUpdateThrows
  <2> HIDE DEF d
  <2> QED
    BY <1>1, <2>1, <2>2 DEF BulkUpdated, BulksStay
<1>4. CASE Adding
  <2>1. Exists(NewBulk)
    BY DEF NewBulk, NoBulk, Exists
  <2>2. \/ UNCHANGED bulks
        \/ \E b \in Bulks : bulks' = [bulks EXCEPT ![b] = IF Exists(@) THEN @ ELSE NewBulk]
    BY <1>4 DEF Adding, AddChecked, AddInserted
  <2> QED
    BY <1>1, <2>1, <2>2 DEF BulksStay
<1>5. CASE BulkCompleted
  <2>1. Exists(bulkCache[current])
    BY <1>5 DEF BulkCompleted, UnfailingInv, Uninterrupted
  <2>2. BulkUpdated(current, bulkCache[current]) \/ UNCHANGED bulks
    BY <1>5 DEF BulkCompleted, BulkUpdateThrows
  <2> QED
    BY <1>1, <2>1, <2>2 DEF BulkUpdated, BulksStay
<1> QED
  BY <1>2, <1>3, <1>4, <1>5

\* A step that commits nothing, asks A&B nothing, and goes on within its part of the batch.
LEMMA RecordedKept ==
    ASSUME BulkInv, UnfailingInv, RecordedInv, Advance, BulksStay, UNCHANGED posted,
           pc' \in Asking => abRequests' = <<>> \/ (pc \in Asking /\ UNCHANGED abRequests),
           pc' \in Continuous => pc \in Continuous /\ UNCHANGED <<abResponses, cache, transfers>>,
           pc' \in Continued =>
                 \/ pc \in Continued /\ UNCHANGED <<abResponses, cache, transfers>>
                 \/ pc \notin Continued /\ UNCHANGED abResponses,
           pc' \notin Continued => pc \notin Continued
    PROVE  RecordedInv'
<1>1. /\ StoredFinals \subseteq StoredFinals' /\ StoredFinals' \subseteq ComingFinals'
      /\ \A t \in Transfers : Present(cache[t]) => Present(cache'[t])
  BY DEF Advance, OutcomesStay
<1>2. AskedInOrder'
  <2>1. CASE pc' \in Asking /\ abRequests' = <<>>
    BY <2>1 DEF AskedInOrder, ReservedFirst, CommitsOfStored, Asking, Continuous
  <2>2. CASE pc' \in Asking /\ pc \in Asking /\ UNCHANGED abRequests
    <3>1. /\ ReservedFirst(abRequests) /\ CommitsOfStored(abRequests)
          /\ \A i \in DOMAIN abRequests : Present(cache[abRequests[i].id])
      BY <2>2 DEF RecordedInv, AskedInOrder
    <3>2. \A i \in DOMAIN abRequests : abRequests[i].id \in Transfers
      <4>1. abRequests \in Seq(Request)
        BY DEF BulkInv, MembersInv, Documents
      <4>2. \A i \in DOMAIN abRequests : abRequests[i] \in Request
        BY <4>1
      <4> QED
        BY <4>2 DEF Request
    <3>3. \A i \in DOMAIN abRequests : Present(cache'[abRequests[i].id])
      BY <1>1, <3>1, <3>2
    <3> QED
      BY <2>2, <3>1, <3>3 DEF AskedInOrder, ReservedFirst, CommitsOfStored, BulksStay, Asking,
                              Continuous
  <2>3. CASE pc' \in Continuous
    <3>1. ReservedFirst(abResponses) /\ CommitsOfStored(abResponses) /\ UNCHANGED abResponses
      BY <2>3 DEF RecordedInv, AskedInOrder
    <3> QED
      BY <2>3, <3>1 DEF AskedInOrder, ReservedFirst, CommitsOfStored, BulksStay, Asking, Continuous
  <2> QED
    BY <2>1, <2>2, <2>3 DEF AskedInOrder
<1>3. PostedKept'
  <2>1. CASE pc' \notin Continued
    BY <1>1, <2>1 DEF RecordedInv, PostedKept
  <2>2. CASE pc \in Continued /\ UNCHANGED <<abResponses, cache, transfers>>
    <3>1. \A t \in Transfers : Settled(t)' = Settled(t)
      BY <2>2 DEF Settled, ComingFinals, Coming
    <3> QED
      BY <2>2, <3>1 DEF RecordedInv, PostedKept, CommitPending, Settled, ComingFinals
  <2>3. CASE pc \notin Continued /\ UNCHANGED abResponses
    <3>1. abResponses' = <<>>
      BY <2>3 DEF UnfailingInv, Uninterrupted, Continued
    <3>2. posted \subseteq ComingFinals'
      BY <1>1, <2>3 DEF RecordedInv, PostedKept
    <3>3. \A t \in posted : Settled(t)'
      BY <3>1, <3>2 DEF Settled
    <3> QED
      BY <1>1, <2>3, <3>3 DEF PostedKept, RecordedInv
  <2> QED
    BY <2>1, <2>2, <2>3
<1> QED
  BY <1>2, <1>3 DEF RecordedInv

\* A&B commits what it was asked to; each commit has a response.
LEMMA AccountsRecorded ==
    ASSUME BulkInv, UnfailingInv, PreparedInv, RecordedInv, UNCHANGED bulkVars,
           NEW accepted \in SUBSET (DOMAIN abRequests), AccountsAnswer(accepted)
    PROVE  RecordedInv'
<1>1. /\ pc = "accounts" /\ pc' = "responses"
      /\ abResponses' = [i \in DOMAIN abRequests |-> ResponseTo(i, accepted)]
      /\ posted' = posted \cup Ids([i \in accepted |-> abRequests[i]], "commit")
      /\ UNCHANGED <<cache, transfers, bulks>>
  BY NoFaultComes DEF AccountsAnswer, bulkVars, bulkState
<1>2. /\ DOMAIN abResponses' = DOMAIN abRequests
      /\ \A i \in DOMAIN abRequests :
            abResponses'[i].type = abRequests[i].type /\ abResponses'[i].id = abRequests[i].id
  BY <1>1 DEF ResponseTo
<1>3. /\ ReservedFirst(abRequests) /\ CommitsOfStored(abRequests)
      /\ ReservesOf(abRequests, Fresh)
      /\ posted \subseteq StoredFinals
  BY <1>1 DEF RecordedInv, AskedInOrder, PostedKept, PreparedInv, ReservesNew, Asking, Continued,
              Continuous
<1>4. AskedInOrder'
  BY <1>1, <1>2, <1>3 DEF AskedInOrder, ReservedFirst, CommitsOfStored, Asking, Continuous
<1>5. ASSUME NEW t \in posted
      PROVE  Settled(t)'
  <2>1. t \in StoredFinals /\ t \in ComingFinals'
    BY <1>1, <1>3 DEF PreparedInv, OutcomesStay, ComingFinals, Coming
  <2>2. t \notin Fresh
    BY <2>1 DEF Fresh, StoredFinals, FinalStates, Present
  <2> QED
    BY <1>2, <1>3, <2>1, <2>2 DEF Settled, ReservesOf
<1>6. ASSUME NEW t \in Ids([i \in accepted |-> abRequests[i]], "commit")
      PROVE  CommitPending(t)'
  <2>1. PICK i \in accepted : abRequests[i].type = "commit" /\ abRequests[i].id = t
    BY <1>6 DEF Ids
  <2> QED
    BY <1>2, <2>1 DEF CommitPending
<1>7. PostedKept'
  BY <1>1, <1>5, <1>6 DEF PostedKept, Continued, Continuous
<1> QED
  BY <1>4, <1>7 DEF RecordedInv

\* The flush stores what is final.
LEMMA FlushRecorded ==
    ASSUME BulkInv, UnfailingInv, PreparedInv, RecordedInv, Flush, UNCHANGED bulkVars
    PROVE  RecordedInv'
<1>1. pc = "flush" /\ pc' = "send" /\ StoredFinals' = ComingFinals
  <2>1. pc' # "dying"
    BY NoFaultComes DEF Flush, NoopStore, UnfailingInv, NothingFails
  <2> QED
    BY <2>1, FlushStores DEF PreparedInv
<1>2. abResponses = <<>> /\ UNCHANGED posted
  BY <1>1 DEF UnfailingInv, Uninterrupted, Continuous, Flush, ledger
<1>3. posted \subseteq ComingFinals
  BY <1>1, <1>2 DEF RecordedInv, PostedKept, Settled, CommitPending, Continued
<1> QED
  BY <1>1, <1>2, <1>3 DEF RecordedInv, AskedInOrder, PostedKept, Asking, Continuous, Continued

LEMMA SharedRecorded ==
    ASSUME BulkInv, UnfailingInv, PreparedInv, RecordedInv, Shared
    PROVE  RecordedInv'
<1>1. UNCHANGED bulkVars /\ BulksStay /\ OutcomesStay
  BY DEF Shared, bulkVars, bulkState, BulksStay, PreparedInv
<1>2. CASE \E n \in 1..BatchSize : StartBatch(n)
  <2>1. /\ UNCHANGED <<cache, transfers, posted>>
        /\ pc = "idle" /\ pc' = "commands" /\ abRequests' = <<>>
    BY <1>2 DEF StartBatch, world, ledger
  <2>2. Advance
    BY <1>1, <2>1, IdleAdvances
  <2> QED
    BY <1>1, <2>1, <2>2, RecordedKept DEF Asking, Continuous, Continued
<1>3. CASE \E t \in Transfers : Query(t)
  <2>1. PICK t \in Transfers : Query(t)
    BY <1>3
  <2>2. Handling("QueryTransferCmd", t) /\ UNCHANGED <<abRequests, transfers>>
    BY <2>1 DEF Query, QueryUnread, QueryRefused, QueryAnswered, Answer
  <2>3. UNCHANGED cache
    BY <2>1 DEF Query, QueryUnread, QueryRefused, QueryAnswered, Answer, Keep, BulkInv,
                MembersInv, Documents
  <2>4. Advance
    BY <1>1, <2>2, <2>3, IdleAdvances
  <2> QED
    BY <1>1, <2>2, <2>4, RecordedKept DEF Handling, ledger, Asking, Continuous, Continued
<1>4. CASE EndOfCommands \/ EndOfResponses \/ Cancellations \/ Send \/ Acknowledge
  <2>1. UNCHANGED <<cache, transfers, posted, abRequests, abResponses>>
    BY <1>4 DEF EndOfCommands, EndOfResponses, Cancellations, Send, Acknowledge, memory, queues,
                world, ledger
  <2>2. \/ pc = "commands" /\ pc' \in {"accounts", "cancellations", "flush"}
        \/ pc \in Continued /\ pc' \in {"cancellations", "flush"}
        \/ pc \in {"send", "acknowledge"} /\ pc' \in {"dying", "acknowledge", "idle"}
    BY <1>4 DEF EndOfCommands, EndOfResponses, AfterResponses, Cancellations, Send, Acknowledge,
                Continuous, Continued
  <2>3. Advance
    BY <1>1, <2>1, IdleAdvances
  <2> QED
    BY <1>1, <2>1, <2>2, <2>3, RecordedKept DEF Asking, Continuous, Continued
<1> QED
  BY <1>1, <1>2, <1>3, <1>4, AccountsRecorded, FlushRecorded DEF Shared

\* A bulk command only reads.
LEMMA BulkCommandRecorded ==
    ASSUME BulkInv, UnfailingInv, PreparedInv, RecordedInv, NEW b \in Bulks, BulkCommand(b)
    PROVE  RecordedInv'
<1>1. PICK name \in BulkCommandNames : BulkHandling(name, b) /\ pc' \in {"commands", "members"}
  BY DEF BulkCommand, BulkUnread, BulkNotFound, BulkPrepareStart, BulkFulfilStart,
         BulkRejectUnlisted, BulkRejectStart, BulkQueryRefused, BulkQueryUnlisted,
         BulkQueryAnswered, BulkCommandNames, BulkAnswer, Loop, BulkHandling
<1>2. UNCHANGED <<cache, transfers, posted, abRequests, bulks>> /\ pc = "commands"
  BY <1>1 DEF BulkHandling, world, ledger
<1>3. Advance /\ BulksStay
  BY <1>2, IdleAdvances DEF PreparedInv, BulksStay
<1> QED
  BY <1>1, <1>2, <1>3, RecordedKept DEF Asking, Continuous, Continued

\* A reservation is asked for a transfer nothing was asked for yet.
LEMMA MemberCommandRecorded ==
    ASSUME BulkInv, ToldInv, UnfailingInv, PreparedInv, RecordedInv,
           NEW t \in Transfers, MemberCommand(t)
    PROVE  RecordedInv'
<1>1. PICK name \in BulkCommandNames : Member(name, t)
  BY DEF MemberCommand, MemberUnread, MemberDuplicate, MemberPrepareRefused,
         MemberPrepareAccepted, MemberFulfilNotFound, MemberFulfilRefused,
         MemberFulfilAccepted, MemberRejectRefused, MemberRejected, BulkCommandNames
<1>2. UNCHANGED <<bulks, bulkCache, pc, posted>> /\ pc = "members"
  BY <1>1 DEF Member, control, bulkState, ledger
<1>3. Advance /\ BulksStay
  BY <1>2, MemberAdvances DEF PreparedInv, BulksStay
<1>4. CASE UNCHANGED abRequests
  BY <1>2, <1>3, <1>4, RecordedKept DEF Asking, Continuous, Continued
<1>5. CASE MemberPrepareAccepted(t) \/ MemberFulfilAccepted(t)
  <2>1. PICK type \in {"reserve", "commit"} :
          /\ AskAccounts(type, t)
          /\ type = "reserve" => MemberPrepareAccepted(t)
          /\ type = "commit" => MemberFulfilAccepted(t)
    BY <1>5 DEF MemberPrepareAccepted, MemberFulfilAccepted
  <2>2. /\ ReservedFirst(abRequests) /\ CommitsOfStored(abRequests)
        /\ \A i \in DOMAIN abRequests : Present(cache[abRequests[i].id])
        /\ abRequests \in Seq(Request)
    BY <1>2 DEF RecordedInv, AskedInOrder, Asking, BulkInv, MembersInv, Documents
  <2>3. /\ DOMAIN abRequests' = 1..(Len(abRequests) + 1)
        /\ DOMAIN abRequests = 1..Len(abRequests)
        /\ Len(abRequests) \in Nat
        /\ \A i \in 1..Len(abRequests) : abRequests'[i] = abRequests[i]
        /\ abRequests'[Len(abRequests) + 1] = [type |-> type, id |-> t]
    <3>1. [type |-> type, id |-> t] \in Request
      BY DEF Request
    <3> QED
      BY <2>1, <2>2, <3>1 DEF AskAccounts
  <2>4. \A i \in 1..Len(abRequests) : abRequests[i].id \in Transfers
    <3>1. \A i \in 1..Len(abRequests) : abRequests[i] \in Request
      BY <2>2, <2>3
    <3> QED
      BY <3>1 DEF Request
  <2>5. Present(cache'[t])
    BY <2>1 DEF MemberPrepareAccepted, MemberFulfilAccepted, Keep, NewTransfer, Present, BulkInv,
                MembersInv, Documents
  <2>6. type = "reserve" => ~Present(cache[t])
    BY <2>1, FoundState DEF MemberPrepareAccepted, Found, Cached
  <2>7. type = "commit" => current \in Bulks /\ t \in MembersOf(current) /\ Exists(bulks[current])
    <3>1. ASSUME type = "commit"
          PROVE  Member("CommitBulkTransferFulfilCmd", t)
      BY <2>1, <3>1 DEF MemberFulfilAccepted
    <3>2. ASSUME type = "commit"
          PROVE  Exists(bulkCache[current])
      BY <1>2, <3>1, <3>2 DEF Member, ToldInv, LoopOverMembers
    <3>3. current \in Bulks
      BY DEF BulkInv, BulkTypeOK
    <3> QED
      BY <3>1, <3>2, <3>3, MemberOfTold DEF UnfailingInv, AddedOnce
  <2>8. ReservedFirst(abRequests')
    <3>1. ASSUME NEW i \in 1..(Len(abRequests) + 1), NEW j \in 1..(Len(abRequests) + 1), i < j,
                 abRequests'[j].type = "reserve"
          PROVE  abRequests'[i].id # abRequests'[j].id
      <4>1. i \in 1..Len(abRequests)
        BY <2>3, <3>1
      <4>2. CASE j \in 1..Len(abRequests)
        BY <2>2, <2>3, <3>1, <4>1, <4>2 DEF ReservedFirst
      <4>3. CASE j = Len(abRequests) + 1
        BY <2>2, <2>3, <2>6, <3>1, <4>1, <4>3
      <4> QED
        BY <2>3, <4>2, <4>3
    <3> QED
      BY <2>3, <3>1 DEF ReservedFirst
  <2>9. \A i \in DOMAIN abRequests' : abRequests'[i].type = "commit" =>
           \E b \in Bulks : abRequests'[i].id \in MembersOf(b) /\ Exists(bulks'[b])
    <3>1. ASSUME NEW i \in 1..(Len(abRequests) + 1), abRequests'[i].type = "commit"
          PROVE  \E b \in Bulks : abRequests'[i].id \in MembersOf(b) /\ Exists(bulks[b])
      <4>1. CASE i \in 1..Len(abRequests)
        BY <2>2, <2>3, <3>1, <4>1 DEF CommitsOfStored
      <4>2. CASE i = Len(abRequests) + 1
        BY <2>3, <2>7, <3>1, <4>2
      <4> QED
        BY <2>3, <4>1, <4>2
    <3> QED
      BY <1>2, <2>3, <3>1
  <2>10. \A i \in DOMAIN abRequests' : Present(cache'[abRequests'[i].id])
    <3>1. \A i \in 1..Len(abRequests) : Present(cache'[abRequests'[i].id])
      BY <1>3, <2>2, <2>3, <2>4 DEF Advance
    <3> QED
      BY <2>3, <2>5, <3>1
  <2>11. AskedInOrder'
    BY <1>2, <2>8, <2>9, <2>10 DEF AskedInOrder, ReservedFirst, CommitsOfStored, Continuous
  <2>12. PostedKept'
    BY <1>2, <1>3 DEF RecordedInv, PostedKept, Continued, Continuous, Advance
  <2> QED
    BY <2>11, <2>12 DEF RecordedInv
<1> QED
  BY <1>4, <1>5 DEF MemberCommand, MemberUnread, MemberDuplicate, MemberPrepareRefused,
         MemberFulfilNotFound, MemberFulfilRefused, MemberRejectRefused, MemberRejected, ReadFails,
         Answer, Ignore

\* The first response, and the other ones.
LEMMA FirstAndOthers ==
    ASSUME BulkInv, abResponses # <<>>, abResponses' = Tail(abResponses)
    PROVE  /\ Len(abResponses) \in Nat \ {0}
           /\ DOMAIN abResponses = 1..Len(abResponses)
           /\ DOMAIN abResponses' = 1..(Len(abResponses) - 1)
           /\ Len(abResponses') = Len(abResponses) - 1
           /\ \A i \in 1..(Len(abResponses) - 1) : abResponses'[i] = abResponses[i + 1]
           /\ Head(abResponses) = abResponses[1]
           /\ Responding = abResponses[1].id /\ Responding \in Transfers
           /\ \A i \in DOMAIN abResponses :
                 abResponses[i].id \in Transfers /\ abResponses[i].type \in {"reserve", "commit"}
<1>1. abResponses \in Seq(Response)
  BY DEF BulkInv, MembersInv, Documents
<1>2. \A i \in DOMAIN abResponses : abResponses[i] \in Response
  BY <1>1
<1>3. 1 \in DOMAIN abResponses /\ Head(abResponses) = abResponses[1]
  BY <1>1
<1> QED
  BY <1>1, <1>2, <1>3 DEF Responding, TransferOf, Response

\* A continue method keeps its transfer, and no other.
LEMMA OthersAlone ==
    ASSUME BulkInv, NEW success \in BOOLEAN, BulkContinue(success)
    PROVE  \A u \in Transfers \ {Responding} :
               cache'[u] = cache[u] /\ transfers'[u] = transfers[u]
<1> DEFINE t == Responding
<1>1. /\ \E d : Keep(t, d)
      /\ UNCHANGED transfers \/ \E e : transfers' = [transfers EXCEPT ![t] = e]
  BY DEF BulkContinue, BulkPrepareUncounted, BulkPrepareContinue, BulkFulfilUncounted,
         BulkFulfilContinue, SinglePrepareContinue, SingleFulfilContinue, MemberPrepared,
         MemberFulfilled, CancelRefused, CancelUnsaved, CancelSaved
<1> HIDE DEF t
<1>2. \A u \in Transfers \ {t} : cache'[u] = cache[u] /\ transfers'[u] = transfers[u]
  BY <1>1 DEF Keep, BulkInv, MembersInv, Documents
<1> QED
  BY <1>2 DEF t

\* A commit that is continued finds its bulk transfer.
LEMMA CommitsCounted ==
    ASSUME BulkInv, UnfailingInv, RecordedInv, NEW success \in BOOLEAN
    PROVE  ~BulkFulfilUncounted(success)
<1> SUFFICES ASSUME BulkFulfilUncounted(success) PROVE FALSE
  OBVIOUS
<1>1. /\ pc = "responses" /\ abResponses # <<>> /\ abResponses' = Tail(abResponses)
      /\ Head(abResponses).type = "commit" /\ ~Exists(FoundBulk(BulkOf(Responding)))
  BY NoFaultComes DEF BulkFulfilUncounted, BulkResponse, BulkMissing, BulkReadFails
<1>2. PICK b \in Bulks : Responding \in MembersOf(b) /\ Exists(bulks[b])
  BY <1>1, FirstAndOthers DEF RecordedInv, AskedInOrder, CommitsOfStored, Continuous
<1>3. BulkOf(Responding) = b
  <2>1. BulkOf(Responding) \in Bulks /\ Responding \in MembersOf(BulkOf(Responding))
    BY <1>2 DEF BulkOf
  <2> QED
    BY <1>2, <2>1, BulkConstantsAssumption
<1> QED
  BY <1>1, <1>2, <1>3 DEF FoundBulk, BulkCached

\* What A&B committed for the transfer of the response becomes final.
LEMMA ContinueRecorded ==
    ASSUME BulkInv, UnfailingInv, PreparedInv, RecordedInv,
           NEW success \in BOOLEAN, BulkContinue(success), Advance
    PROVE  RecordedInv'
<1> DEFINE t == Responding
<1>1. /\ pc = "responses" /\ abResponses # <<>> /\ abResponses' = Tail(abResponses)
      /\ UNCHANGED <<posted, bulks>> /\ pc' \in Continuous
  BY DEF BulkContinue, BulkPrepareUncounted, BulkPrepareContinue, BulkFulfilUncounted,
         BulkFulfilContinue, SinglePrepareContinue, SingleFulfilContinue, BulkResponse,
         Continuing, control, bulkVars, bulkState, ledger, Continuous
<1>2. /\ Len(abResponses) \in Nat \ {0}
      /\ DOMAIN abResponses = 1..Len(abResponses)
      /\ DOMAIN abResponses' = 1..(Len(abResponses) - 1)
      /\ \A i \in 1..(Len(abResponses) - 1) : abResponses'[i] = abResponses[i + 1]
      /\ Head(abResponses) = abResponses[1]
      /\ t = abResponses[1].id /\ t \in Transfers
      /\ \A i \in DOMAIN abResponses :
            abResponses[i].id \in Transfers /\ abResponses[i].type \in {"reserve", "commit"}
  BY <1>1, FirstAndOthers
<1>3. \A u \in Transfers \ {t} : Coming(u)' = Coming(u)
  BY OthersAlone DEF Coming
<1>4. Head(abResponses).type = "commit" => t \in ComingFinals'
  <2>1. ASSUME Head(abResponses).type = "commit"
        PROVE  \E events : MemberFulfilled(t, success, events)
    BY <2>1, CommitsCounted
    DEF BulkContinue, BulkPrepareUncounted, BulkPrepareContinue, BulkFulfilContinue,
        SinglePrepareContinue, SingleFulfilContinue, BulkResponse, Continuing
  <2> QED
    BY <1>2, <2>1, MemberFulfilledAdvances DEF PreparedInv
<1> HIDE DEF t
<1>5. ReservedFirst(abResponses) /\ CommitsOfStored(abResponses)
  BY <1>1 DEF RecordedInv, AskedInOrder, Continuous
<1>6. AskedInOrder'
  <2>1. ReservedFirst(abResponses')
    <3> SUFFICES ASSUME NEW i \in DOMAIN abResponses', NEW j \in DOMAIN abResponses',
                        i < j, abResponses'[j].type = "reserve"
                 PROVE  abResponses'[i].id # abResponses'[j].id
      BY DEF ReservedFirst
    <3> DEFINE m == i + 1
               n == j + 1
    <3>1. /\ m \in DOMAIN abResponses /\ n \in DOMAIN abResponses /\ m < n
          /\ abResponses'[i] = abResponses[m] /\ abResponses'[j] = abResponses[n]
      BY <1>2
    <3> HIDE DEF m, n
    <3> QED
      BY <1>5, <3>1 DEF ReservedFirst
  <2>2. \A i \in DOMAIN abResponses' : abResponses'[i].type = "commit" =>
           \E b \in Bulks : abResponses'[i].id \in MembersOf(b) /\ Exists(bulks'[b])
    BY <1>1, <1>2, <1>5 DEF CommitsOfStored
  <2> QED
    BY <1>1, <2>1, <2>2 DEF AskedInOrder, ReservedFirst, CommitsOfStored, Asking, Continuous
<1>7. ASSUME NEW u \in posted
      PROVE  Settled(u)' \/ CommitPending(u)'
  <2>1. u \in Transfers /\ (Settled(u) \/ CommitPending(u))
    <3>1. Settled(u) \/ CommitPending(u)
      BY <1>1 DEF RecordedInv, PostedKept, Continued, Continuous
    <3> QED
      BY <1>2, <3>1 DEF Settled, CommitPending, ComingFinals
  <2>2. CASE u = t /\ abResponses[1].type = "commit"
    <3>1. \A i \in 1..(Len(abResponses) - 1) :
             abResponses[i + 1].type = "reserve" => abResponses[i + 1].id # t
      BY <1>2, <1>5 DEF ReservedFirst
    <3> QED
      BY <1>2, <1>4, <2>2, <3>1 DEF Settled
  <2>3. CASE CommitPending(u) /\ ~(u = t /\ abResponses[1].type = "commit")
    <3>1. PICK i \in DOMAIN abResponses : abResponses[i].type = "commit" /\ abResponses[i].id = u
      BY <2>3 DEF CommitPending
    <3>2. i # 1 /\ i - 1 \in DOMAIN abResponses' /\ abResponses'[i - 1] = abResponses[i]
      BY <1>2, <2>3, <3>1
    <3> QED
      BY <3>1, <3>2 DEF CommitPending
  <2>4. CASE Settled(u) /\ ~(u = t /\ abResponses[1].type = "commit")
    <3>1. u # t
      BY <1>2, <2>4 DEF Settled
    <3>2. u \in ComingFinals'
      BY <1>3, <2>1, <2>4, <3>1 DEF Settled, ComingFinals
    <3> QED
      BY <1>2, <2>4, <3>2 DEF Settled
  <2> QED
    BY <2>1, <2>2, <2>3, <2>4
<1>8. PostedKept'
  BY <1>1, <1>7 DEF PostedKept, Continued
<1> QED
  BY <1>6, <1>8 DEF RecordedInv

LEMMA RecordedInit == BulkInit => RecordedInv
BY DEF BulkInit, Init, RecordedInv, AskedInOrder, PostedKept, Asking, Continuous, Continued

LEMMA RecordedNext ==
    BulkInv /\ ToldInv /\ UnfailingInv /\ PreparedInv /\ RecordedInv /\ [BulkNext]_allVars
        => RecordedInv'
<1> SUFFICES ASSUME BulkInv, ToldInv, UnfailingInv, PreparedInv, RecordedInv, [BulkNext]_allVars
             PROVE  RecordedInv'
  OBVIOUS
<1>1. CASE \/ UNCHANGED allVars
           \/ \E name \in Inputs, t \in Transfers : Produce(name, t) /\ UNCHANGED bulkVars
           \/ \E name \in BulkInputs, b \in Bulks : BulkProduce(name, b)
           \/ Adding
           \/ EndOfMembers \/ BulkRejectDone \/ BulkCompleted
  <2>1. UNCHANGED <<cache, transfers, posted, abRequests, abResponses>>
    BY <1>1 DEF allVars, vars, memory, queues, world, ledger, Produce, BulkProduce, Adding,
                AddChecked, AddInserted, EndOfMembers, BulkRejectDone, BulkCompleted
  <2>2. \/ UNCHANGED pc
        \/ pc = "members" /\ pc' = "commands"
        \/ pc = "completing" /\ pc' = "responses"
    <3>1. CASE BulkRejectDone
      BY <3>1, UpdatesSucceed DEF BulkRejectDone
    <3>2. CASE BulkCompleted
      BY <3>2, UpdatesSucceed DEF BulkCompleted
    <3> QED
      BY <1>1, <3>1, <3>2 DEF allVars, vars, control, Produce, BulkProduce, Adding, AddChecked,
                              AddInserted, EndOfMembers
  <2>3. Advance
    BY <2>1, IdleAdvances DEF PreparedInv
  <2>4. BulksStay
    BY <1>1, RestKeepsBulks DEF allVars, bulkVars, bulkState, BulkProduce, BulksStay
  <2> QED
    BY <2>1, <2>2, <2>3, <2>4, RecordedKept DEF Asking, Continuous, Continued
<1>2. CASE \E success \in BOOLEAN : BulkContinue(success)
  BY <1>2, ContinueRecorded, ContinueAdvances
<1> QED
  BY <1>1, <1>2, NoRestart, SharedRecorded, BulkCommandRecorded, MemberCommandRecorded
  DEF BulkNext, BulkProcess, BulkEnvironment

\* What A&B committed is final in the collection, or becomes so before it is flushed.
LEMMA RecordedInvariant == NothingFails /\ BulkSpec => []RecordedInv
BY RecordedInit, RecordedNext, PreparedInvariant, UnfailingInvariant, ToldInvariant,
   BulkInductiveInvariant, PTL DEF BulkSpec

\* When nothing fails, what A&B committed is stored in a final state when the batch is
\* acknowledged, in whatever order bulk transfers and their commands share batches.
THEOREM CommitsAlwaysRecorded == NothingFails /\ BulkSpec => []CommitsRecorded
<1>1. RecordedInv => CommitsRecorded
  BY DEF RecordedInv, PostedKept, Continued, Continuous, StoredFinals, CommitsRecorded
<1> QED
  BY <1>1, RecordedInvariant, PTL

-----------------------------------------------------------------------------
(* The events.                                                              *)

\* An event was sent, or is about to be.
Happened(name, id) == [name |-> name, id |-> id] \in outputEvents \cup published

AllSent == pc \in {"acknowledge", "idle"} => outputEvents \subseteq published

\* No event is lost.
EventsStay == outputEvents \cup published \subseteq outputEvents' \cup published'

\* The events of a continue method.
LEMMA ContinueEvents ==
    ASSUME NEW success \in BOOLEAN, BulkContinue(success)
    PROVE  /\ outputEvents \subseteq outputEvents'
           /\ \A e \in outputEvents' \ outputEvents :
                 e.name # "BulkTransferRejectRequestProcessedEvt"
<1> DEFINE t == Responding
           b == BulkOf(t)
           Others(events) == \A e \in events : e.name # "BulkTransferRejectRequestProcessedEvt"
<1>1. ASSUME NEW events, Others(events),
             MemberPrepared(t, success, events) \/ MemberFulfilled(t, success, events)
      PROVE  outputEvents \subseteq outputEvents' /\ Others(outputEvents' \ outputEvents)
  <2>1. CASE MemberPrepared(t, success, events)
    BY <1>1, <2>1 DEF MemberPrepared
  <2>2. CASE MemberFulfilled(t, success, events)
    BY <1>1, <2>2 DEF MemberFulfilled
  <2> QED
    BY <1>1, <2>1, <2>2
<1>2. CASE \E name \in {"TransferUnableToGetBulkTransferByIdEvt", "BulkTransferNotFoundEvt"} :
             MemberPrepared(t, success, {[name |-> name, id |-> b]}) \/ Emit(name, b)
  BY <1>1, <1>2 DEF Emit
<1>3. CASE MemberPrepared(t, success, {}) \/ MemberFulfilled(t, success, {})
  BY <1>1, <1>3
<1>4. CASE \/ MemberPrepared(t, success, {[name |-> "BulkTransferPreparedEvt", id |-> b]})
           \/ MemberFulfilled(t, success, {[name |-> "BulkTransferFulfiledEvt", id |-> b]})
  BY <1>1, <1>4
<1> QED
  BY <1>2, <1>3, <1>4
  DEF BulkContinue, BulkPrepareUncounted, BulkPrepareContinue, BulkFulfilUncounted,
      BulkFulfilContinue, SinglePrepareContinue, SingleFulfilContinue

\* The batch's events are forgotten when the next one begins, and were sent by then.
LEMMA EventsKept ==
    ASSUME BulkInv, ToldInv, UnfailingInv, AllSent, [BulkNext]_allVars
    PROVE  EventsStay /\ published \subseteq published' /\ AllSent'
<1>1. CASE \E n \in 1..BatchSize : StartBatch(n)
  <2>1. UNCHANGED published /\ pc = "idle" /\ pc' = "commands" /\ outputEvents' = {}
    BY <1>1 DEF StartBatch, world
  <2> QED
    BY <2>1 DEF EventsStay, AllSent
<1>2. CASE Send
  <2>1. UNCHANGED outputEvents /\ published' = published \cup outputEvents
    BY <1>2, NoFaultComes DEF Send, memory, queues
  <2> QED
    BY <2>1 DEF EventsStay, AllSent
<1>3. CASE Acknowledge
  <2>1. UNCHANGED <<outputEvents, published>> /\ pc = "acknowledge"
    BY <1>3 DEF Acknowledge, memory, queues, world
  <2> QED
    BY <2>1 DEF EventsStay, AllSent
<1>4. CASE \/ UNCHANGED allVars
           \/ \E name \in Inputs, t \in Transfers : Produce(name, t) /\ UNCHANGED bulkVars
           \/ \E name \in BulkInputs, b \in Bulks : BulkProduce(name, b)
           \/ Adding
  <2>1. UNCHANGED <<outputEvents, published, pc>>
    BY <1>4 DEF allVars, vars, Produce, BulkProduce, Adding, AddChecked, AddInserted, control,
                memory, queues, world
  <2> QED
    BY <2>1 DEF EventsStay, AllSent
<1>5. CASE \/ \E t \in Transfers : Query(t) \/ MemberCommand(t)
           \/ \E b \in Bulks : BulkCommand(b)
           \/ EndOfMembers \/ BulkRejectDone
  <2>1. UNCHANGED published /\ outputEvents \subseteq outputEvents' /\ pc' \in {"commands", "members"}
    <3>1. CASE \E t \in Transfers : Query(t)
      BY <3>1 DEF Query, QueryUnread, QueryRefused, QueryAnswered, Answer, Emit, Handling
    <3>2. CASE \E t \in Transfers : MemberCommand(t)
      BY <3>2 DEF MemberCommand, MemberUnread, MemberDuplicate, MemberPrepareRefused,
                  MemberPrepareAccepted, MemberFulfilNotFound, MemberFulfilRefused, ReadFails,
                  MemberFulfilAccepted, MemberRejectRefused, MemberRejected, Answer, Ignore,
                  CancelBecause, CancelFails, Emit, Member, control
    <3>3. CASE \E b \in Bulks : BulkCommand(b)
      BY <3>3 DEF BulkCommand, BulkUnread, BulkNotFound, BulkPrepareStart, BulkFulfilStart,
                  BulkRejectUnlisted, BulkRejectStart, BulkQueryRefused, BulkQueryUnlisted,
                  BulkQueryAnswered, BulkAnswer, Loop, BulkHandling, Emit, world
    <3>4. CASE BulkRejectDone
      BY <3>4, UpdatesSucceed DEF BulkRejectDone, Emit, world
    <3>5. CASE EndOfMembers
      BY <3>5 DEF EndOfMembers, memory, queues, world
    <3> QED
      BY <1>5, <3>1, <3>2, <3>3, <3>4, <3>5
  <2> QED
    BY <2>1 DEF EventsStay, AllSent
<1>6. CASE \/ EndOfCommands \/ EndOfResponses \/ Cancellations \/ Flush \/ BulkCompleted
           \/ \E accepted \in SUBSET (DOMAIN abRequests) : AccountsAnswer(accepted)
  <2>1. UNCHANGED <<outputEvents, published>> /\ pc' \notin {"acknowledge", "idle"}
    BY <1>6, UpdatesSucceed
    DEF EndOfCommands, EndOfResponses, AfterResponses, Cancellations, AccountsAnswer, Flush,
        BulkCompleted, memory, queues, world
  <2> QED
    BY <2>1 DEF EventsStay, AllSent
<1>7. CASE \E success \in BOOLEAN : BulkContinue(success)
  <2>1. PICK success \in BOOLEAN : BulkContinue(success)
    BY <1>7
  <2>2. UNCHANGED published /\ pc' \in Continuous
    BY <2>1 DEF BulkContinue, BulkPrepareUncounted, BulkPrepareContinue, BulkFulfilUncounted,
                BulkFulfilContinue, SinglePrepareContinue, SingleFulfilContinue, BulkResponse,
                Continuing, control, Continuous
  <2>3. outputEvents \subseteq outputEvents'
    BY <2>1, ContinueEvents
  <2> QED
    BY <2>2, <2>3 DEF EventsStay, AllSent, Continuous
<1> QED
  BY <1>1, <1>2, <1>3, <1>4, <1>5, <1>6, <1>7, NoRestart
  DEF BulkNext, BulkProcess, BulkEnvironment, Shared

LEMMA SentInvariant == NothingFails /\ BulkSpec => []AllSent
<1>1. BulkInit => AllSent
  BY DEF BulkInit, Init, AllSent
<1>2. BulkInv /\ ToldInv /\ UnfailingInv /\ AllSent /\ [BulkNext]_allVars => AllSent'
  BY EventsKept
<1> QED
  BY <1>1, <1>2, UnfailingInvariant, ToldInvariant, BulkInductiveInvariant, PTL DEF BulkSpec

-----------------------------------------------------------------------------
(* What becomes of the transfers of a rejected bulk transfer.               *)

RejectsWait == "RejectBulkTransferCmd" \in PayeeWaits

Failed(t) == \E name \in MemberFailures : Happened(name, t)

\* t is aborted, was committed, or an event says what went wrong with it.
Accounted(t) == Coming(t).state = "ABORTED" \/ t \in posted \/ Failed(t)

\* The bulk transfers announced as rejected, or about to be.
Rejected == {b \in Bulks : Happened("BulkTransferRejectRequestProcessedEvt", b)}

Rejecting == pc = "members" /\ topic[cursor].name = "RejectBulkTransferCmd"

\* The loop of a reject accounts for the transfers it is through with.
AccountedInv ==
    /\ RejectsWait
    /\ \A b \in Rejected : b \in Told /\ \A t \in MembersOf(b) : Accounted(t)
    /\ Rejecting => \A t \in MembersOf(current) : Accounted(t) \/ t \in Listed(rest)

-----------------------------------------------------------------------------
(* How AccountedInv is preserved.                                           *)

\* What is stored and final remains so.
FinalsStay ==
    \A t \in Transfers : Present(transfers[t]) /\ t \in ComingFinals => t \in ComingFinals'

\* A payee who waits rejects what it was told of, and that is stored.
LEMMA ToldMembers ==
    ASSUME BulkInv, ToldInv, PreparedInv
    PROVE  /\ \A b \in Told : \A t \in MembersOf(b) : t \in Transfers /\ Present(transfers[t])
           /\ RejectsWait /\ Rejecting => current \in Told
<1>1. \A b \in Told : \A t \in MembersOf(b) : t \in Transfers /\ Present(transfers[t])
  BY DEF PreparedInv, ToldStored, StoredOutcomes, Outcomes, Present
<1>2. RejectsWait /\ Rejecting => AnswersTold(topic[cursor], Told) /\ topic[cursor].id = current
  BY DEF Rejecting, ToldInv, LoopOverMembers, PayeeWasTold
<1> QED
  BY <1>1, <1>2 DEF AnswersTold, RejectsWait, Rejecting

\* A stored transfer that is accounted for remains so: an aborted one stays final, and is
\* not committed but by A&B.
LEMMA AccountedStays ==
    ASSUME BulkInv', EventsStay, FinalsStay, posted \subseteq posted',
           NEW t \in Transfers, Present(transfers[t]), Accounted(t)
    PROVE  Accounted(t)'
<1>1. CASE t \in posted
  BY <1>1 DEF Accounted
<1>2. CASE Failed(t)
  <2>1. Failed(t)'
    BY <1>2 DEF Failed, Happened, EventsStay
  <2> QED
    BY <2>1 DEF Accounted
<1>3. CASE Coming(t).state = "ABORTED"
  <2>1. Coming(t)'.state \in FinalStates
    BY <1>3 DEF FinalsStay, ComingFinals, FinalStates
  <2>2. Coming(t)'.state = "COMMITTED" => t \in posted'
    BY DEF BulkInv, MembersInv, StateIsBacked, Coming
  <2> QED
    BY <2>1, <2>2 DEF Accounted, FinalStates
<1> QED
  BY <1>1, <1>2, <1>3 DEF Accounted

\* A step that neither announces a bulk transfer as rejected nor is part of such a loop.
LEMMA AccountedKept ==
    ASSUME BulkInv, BulkInv', ToldInv, PreparedInv, AccountedInv,
           EventsStay, FinalsStay, posted \subseteq posted', published \subseteq published',
           Rejected' \subseteq Rejected,
           Rejecting' => Rejecting /\ UNCHANGED <<rest, current>>
    PROVE  AccountedInv'
<1>1. \A b \in Rejected' : b \in Told' /\ \A t \in MembersOf(b) : Accounted(t)'
  <2>1. ASSUME NEW b \in Rejected', NEW t \in MembersOf(b)
        PROVE  b \in Told' /\ Accounted(t)'
    <3>1. b \in Told /\ Accounted(t)
      BY <2>1 DEF AccountedInv
    <3>2. t \in Transfers /\ Present(transfers[t])
      BY <3>1, ToldMembers
    <3> QED
      BY <3>1, <3>2, AccountedStays, StayTold
  <2>2. \A b \in Rejected' : b \in Told'
    BY StayTold DEF AccountedInv
  <2> QED
    BY <2>1, <2>2
<1>2. ASSUME Rejecting', NEW t \in MembersOf(current)
      PROVE  Accounted(t)' \/ t \in Listed(rest')
  <2>1. Accounted(t) \/ t \in Listed(rest)
    BY <1>2 DEF AccountedInv
  <2>2. t \in Transfers /\ Present(transfers[t])
    BY <1>2, ToldMembers DEF AccountedInv
  <2> QED
    BY <1>2, <2>1, <2>2, AccountedStays
<1> QED
  BY <1>1, <1>2 DEF AccountedInv, RejectsWait

LEMMA SharedAccounted ==
    ASSUME BulkInv, BulkInv', ToldInv, UnfailingInv, PreparedInv, AccountedInv, EventsStay,
           Shared
    PROVE  AccountedInv'
<1>1. UNCHANGED bulkVars /\ OutcomesStay
  BY DEF Shared, PreparedInv
<1>2. CASE \E n \in 1..BatchSize : StartBatch(n)
  <2>1. /\ UNCHANGED <<cache, transfers, posted, published>>
        /\ pc = "idle" /\ pc' = "commands" /\ outputEvents' = {}
    BY <1>2 DEF StartBatch, world, ledger
  <2>2. FinalsStay /\ Rejected' \subseteq Rejected /\ ~Rejecting'
    BY <2>1 DEF FinalsStay, ComingFinals, Coming, Rejected, Happened,
                      Rejecting
  <2> QED
    BY <2>1, <2>2, AccountedKept
<1>3. CASE \E t \in Transfers : Query(t)
  <2>1. PICK t \in Transfers : Query(t)
    BY <1>3
  <2>2. Handling("QueryTransferCmd", t) /\ UNCHANGED transfers
    BY <2>1 DEF Query, QueryUnread, QueryRefused, QueryAnswered, Answer
  <2>3. UNCHANGED cache
    BY <2>1 DEF Query, QueryUnread, QueryRefused, QueryAnswered, Answer, Keep, BulkInv,
                MembersInv, Documents
  <2>4. \E name \in {"TransferUnableToGetTransferByIdEvt", "ParticipantCheckFailedEvt",
                     "TransferQueryResponseEvt", "TransferNotFoundEvt"} : Emit(name, t)
    BY <2>1 DEF Query, QueryUnread, QueryRefused, QueryAnswered, Answer
  <2>5. UNCHANGED <<posted, published>> /\ pc = "commands" /\ pc' = "commands"
    BY <2>2 DEF Handling, ledger
  <2>6. FinalsStay /\ Rejected' \subseteq Rejected /\ ~Rejecting'
    BY <2>2, <2>3, <2>4, <2>5 DEF FinalsStay, ComingFinals, Coming, Rejected,
                                  Happened, Rejecting, Emit
  <2> QED
    BY <2>5, <2>6, AccountedKept
<1>4. CASE \/ EndOfCommands \/ EndOfResponses \/ Cancellations
           \/ \E accepted \in SUBSET (DOMAIN abRequests) : AccountsAnswer(accepted)
  <2>1. /\ UNCHANGED <<cache, transfers, outputEvents, published>> /\ posted \subseteq posted'
        /\ pc' \in {"accounts", "cancellations", "flush", "responses"}
    BY <1>4 DEF EndOfCommands, EndOfResponses, AfterResponses, Cancellations, AccountsAnswer,
                memory, queues, world, ledger
  <2>2. FinalsStay /\ Rejected' \subseteq Rejected /\ ~Rejecting'
    BY <2>1 DEF FinalsStay, ComingFinals, Coming, Rejected, Happened,
                Rejecting
  <2> QED
    BY <2>1, <2>2, AccountedKept
<1>5. CASE Flush
  <2>1. /\ UNCHANGED <<outputEvents, published, posted>>
        /\ pc' \in {"send", "dying"} /\ ComingFinals' = ComingFinals
    BY <1>1, <1>5, FlushStores DEF Flush, ledger
  <2>2. FinalsStay /\ Rejected' \subseteq Rejected /\ ~Rejecting'
    BY <2>1 DEF FinalsStay, Rejected, Happened, Rejecting
  <2> QED
    BY <2>1, <2>2, AccountedKept
<1>6. CASE Send
  <2>1. /\ UNCHANGED <<cache, transfers, posted, outputEvents>>
        /\ published' = published \cup outputEvents /\ pc' = "acknowledge"
    BY <1>6, NoFaultComes DEF Send, UnfailingInv, Uninterrupted, memory, queues, ledger
  <2>2. FinalsStay /\ Rejected' \subseteq Rejected /\ ~Rejecting'
    BY <2>1 DEF FinalsStay, ComingFinals, Coming, Rejected, Happened,
                Rejecting
  <2> QED
    BY <2>1, <2>2, AccountedKept
<1>7. CASE Acknowledge
  <2>1. /\ UNCHANGED <<cache, transfers, posted, outputEvents, published>>
        /\ pc = "acknowledge" /\ pc' = "idle"
    BY <1>7 DEF Acknowledge, memory, queues, world, ledger
  <2>2. FinalsStay /\ Rejected' \subseteq Rejected /\ ~Rejecting'
    BY <2>1 DEF FinalsStay, ComingFinals, Coming, Rejected, Happened,
                Rejecting, AccountedInv
  <2> QED
    BY <2>1, <2>2, AccountedKept
<1> QED
  BY <1>2, <1>3, <1>4, <1>5, <1>6, <1>7 DEF Shared

\* The transfers of an announced bulk transfer are all listed, in whatever order.
LEMMA ListingComplete ==
    ASSUME NEW b \in Bulks, StoredMembers(b) = MembersOf(b), NEW ids \in Listings(b)
    PROVE  Listed(ids) = MembersOf(b)
<1> DEFINE n == Len(Members[b])
           I == 1..n
           k == Cardinality(MembersOf(b))
<1>1. n \in Nat /\ DOMAIN Members[b] = I
  BY BulkConstantsAssumption
<1>2. Members[b] \in Surjection(I, MembersOf(b))
  BY <1>1, BulkConstantsAssumption DEF Surjection, MembersOf
<1>3. IsFiniteSet(I)
  BY <1>1, FS_Interval
<1> HIDE DEF I
<1>4. IsFiniteSet(MembersOf(b))
  BY <1>2, <1>3, FS_Surjection
<1>5. k \in Nat /\ IsFiniteSet(1..k) /\ Cardinality(1..k) = k
  <2>1. k \in Nat
    BY <1>4, FS_CardinalityType
  <2> HIDE DEF k
  <2>2. IsFiniteSet(1..k) /\ Cardinality(1..k) = IF 1 > k THEN 0 ELSE k - 1 + 1
    BY <2>1, FS_Interval
  <2> QED
    BY <2>1, <2>2
<1>6. /\ ids \in [1..k -> MembersOf(b)]
      /\ \A i, j \in 1..k : ids[i] = ids[j] => i = j
  BY DEF Listings
<1> DEFINE J == 1..k
<1>7. ids \in Injection(J, MembersOf(b))
  BY <1>6 DEF Injection, IsInjective
<1>8. IsFiniteSet(J) /\ Cardinality(J) = Cardinality(MembersOf(b)) /\ DOMAIN ids = J
  BY <1>5, <1>6
<1> HIDE DEF J
<1>9. ids \in Surjection(J, MembersOf(b))
  BY <1>4, <1>7, <1>8, FS_Injection
<1> QED
  BY <1>8, <1>9 DEF Surjection, Listed

\* A bulk command announces nothing as rejected; a reject lists all transfers.
LEMMA BulkCommandAccounted ==
    ASSUME BulkInv, BulkInv', ToldInv, UnfailingInv, PreparedInv, AccountedInv, EventsStay,
           NEW b \in Bulks, BulkCommand(b)
    PROVE  AccountedInv'
<1>1. PICK name \in BulkCommandNames :
        /\ BulkHandling(name, b) /\ pc' \in {"commands", "members"}
        /\ name = "RejectBulkTransferCmd" /\ pc' = "members" => BulkRejectStart(b)
        /\ \/ UNCHANGED outputEvents
           \/ \E event \in {"TransferUnableToGetBulkTransferByIdEvt", "BulkTransferNotFoundEvt",
                            "ParticipantCheckFailedEvt", "TransferNotFoundEvt",
                            "BulkTransferQueryResponseEvt"} : Emit(event, b)
  BY DEF BulkCommand, BulkUnread, BulkNotFound, BulkPrepareStart, BulkFulfilStart,
         BulkRejectUnlisted, BulkRejectStart, BulkQueryRefused, BulkQueryUnlisted,
         BulkQueryAnswered, BulkCommandNames, BulkAnswer, Loop, BulkHandling
<1>2. /\ UNCHANGED <<topic, cache, transfers, posted, published>>
      /\ pc = "commands" /\ cursor' = cursor + 1
      /\ topic[cursor + 1] = [name |-> name, id |-> b]
  BY <1>1 DEF BulkHandling, world, ledger, input
<1>3. FinalsStay /\ Rejected' \subseteq Rejected
  BY <1>1, <1>2 DEF FinalsStay, ComingFinals, Coming, Rejected, Happened,
                    Emit
<1>4. CASE ~BulkRejectStart(b)
  <2>1. ~Rejecting'
    BY <1>1, <1>2, <1>4 DEF Rejecting
  <2> QED
    BY <1>2, <1>3, <2>1, AccountedKept
<1>5. CASE BulkRejectStart(b)
  <2>1. topic[cursor + 1] = [name |-> "RejectBulkTransferCmd", id |-> b] /\ InBatch
    BY <1>5 DEF BulkRejectStart, BulkHandling
  <2>2. b \in Told
    <3>1. cursor' \in DOMAIN topic
      BY <1>1, <1>2, NextPosition DEF BulkHandling, ToldInv, input
    <3>2. AnswersTold(topic[cursor + 1], Told)
      BY <1>2, <3>1 DEF ToldInv, PayeeWasTold
    <3> QED
      BY <2>1, <3>2 DEF AnswersTold, AccountedInv, RejectsWait
  <2>3. StoredMembers(b) = MembersOf(b)
    BY <2>2, ToldMembers DEF StoredMembers
  <2>4. current' = b /\ Listed(rest') = MembersOf(b)
    <3>1. PICK ids \in Listings(b) : Loop(b, ids)
      BY <1>5 DEF BulkRejectStart
    <3> QED
      BY <2>3, <3>1, ListingComplete DEF Loop
  <2>5. \A c \in Rejected' : c \in Told' /\ \A t \in MembersOf(c) : Accounted(t)'
    BY <1>2, <1>3, ToldMembers, AccountedStays, StayTold DEF AccountedInv
  <2> QED
    BY <1>3, <2>4, <2>5 DEF AccountedInv, RejectsWait
<1> QED
  BY <1>4, <1>5

\* The reject of a transfer aborts it or reports what went wrong.
LEMMA MemberCommandAccounted ==
    ASSUME BulkInv, BulkInv', ToldInv, UnfailingInv, PreparedInv, AccountedInv, EventsStay,
           NEW t \in Transfers, MemberCommand(t)
    PROVE  AccountedInv'
<1>1. PICK name \in BulkCommandNames :
        /\ Member(name, t)
        /\ name = "RejectBulkTransferCmd" => MemberRejectRefused(t) \/ MemberRejected(t)
  BY NoFaultComes
  DEF MemberCommand, MemberUnread, MemberDuplicate, MemberPrepareRefused,
      MemberPrepareAccepted, MemberFulfilNotFound, MemberFulfilRefused, ReadFails,
      MemberFulfilAccepted, MemberRejectRefused, MemberRejected, BulkCommandNames, Member
<1>2. /\ UNCHANGED <<topic, cursor, pc, posted, published, current>> /\ pc = "members"
      /\ topic[cursor].name = name
  BY <1>1 DEF Member, control, input, ledger
<1>3. /\ outputEvents \subseteq outputEvents' /\ Rejected' \subseteq Rejected
  <2>1. \/ UNCHANGED outputEvents
        \/ \E event \in {"TransferUnableToGetTransferByIdEvt", "TransferQueryResponseEvt",
                         "ParticipantCheckFailedEvt", "TransferCancelReservationFailedEvt",
                         "TransferUnableToUpdateEvt"} : Emit(event, t)
    BY DEF MemberCommand, MemberUnread, MemberDuplicate, MemberPrepareRefused,
           MemberPrepareAccepted, MemberFulfilNotFound, MemberFulfilRefused, ReadFails,
           MemberFulfilAccepted, MemberRejectRefused, MemberRejected, Answer, Ignore,
           CancelBecause, CancelFails
  <2> QED
    BY <1>2, <2>1 DEF Emit, Rejected, Happened
<1>4. FinalsStay
  <2>1. Advance
    BY MemberAdvances DEF PreparedInv
  <2> QED
    BY <1>2, <1>3, <2>1 DEF FinalsStay, Advance
<1>5. CASE name # "RejectBulkTransferCmd"
  <2>1. ~Rejecting'
    BY <1>2, <1>5 DEF Rejecting
  <2> QED
    BY <1>2, <1>3, <1>4, <2>1, AccountedKept
<1>6. CASE name = "RejectBulkTransferCmd"
  <2>1. Accounted(t)'
    <3>1. CASE MemberRejectRefused(t)
      <4>1. Emit("ParticipantCheckFailedEvt", t)
        BY <3>1 DEF MemberRejectRefused, Answer
      <4> QED
        BY <4>1 DEF Emit, Accounted, Failed, Happened, MemberFailures
    <3>2. CASE MemberRejected(t) /\ CancelFails(t, Found(t), "rejected")
      <4>1. Emit("TransferCancelReservationFailedEvt", t)
        BY <3>2 DEF CancelFails
      <4> QED
        BY <4>1 DEF Emit, Accounted, Failed, Happened, MemberFailures
    <3>3. CASE MemberRejected(t) /\ CancelSaved(t, Found(t), "rejected")
      <4> DEFINE d == Saved(Aborted(Found(t), "rejected"))
      <4>1. d.state = "ABORTED"
        <5>1. Found(t) \in Doc /\ "rejected" \in ErrorCodes
          BY FoundDocument DEF BulkInv, MembersInv, ErrorCodes
        <5>2. Aborted(Found(t), "rejected") \in Doc /\ Aborted(Found(t), "rejected").state = "ABORTED"
          BY <5>1, DocTypes, DocStates DEF States
        <5> QED
          BY <5>2, DocTypes, DocStates DEF States, ErrorCodes
      <4>2. Keep(t, d)
        BY <3>3 DEF CancelSaved
      <4> HIDE DEF d
      <4>3. cache'[t] = d
        BY <4>2 DEF Keep, BulkInv, MembersInv, Documents
      <4> QED
        BY <4>1, <4>3 DEF Accounted, Coming, Present
    <3> QED
      BY <1>1, <1>6, <3>1, <3>2, <3>3, NoFaultComes DEF MemberRejected
  <2>2. Rejecting
    BY <1>2, <1>6 DEF Rejecting
  <2>3. /\ t = rest[1] /\ Len(rest) \in Nat \ {0}
        /\ \A i \in 1..(Len(rest) - 1) : rest'[i] = rest[i + 1]
        /\ DOMAIN rest' = 1..(Len(rest) - 1) /\ DOMAIN rest = 1..Len(rest)
    BY <1>1, MemberOfTold
  <2>4. \A u \in Listed(rest) : u = t \/ u \in Listed(rest')
    <3>1. ASSUME NEW i \in DOMAIN rest
          PROVE  rest[i] = t \/ rest[i] \in Listed(rest')
      <4>1. CASE i = 1
        BY <2>3, <4>1
      <4>2. CASE i # 1
        <5>1. i - 1 \in DOMAIN rest' /\ rest'[i - 1] = rest[i]
          BY <2>3, <4>2
        <5> QED
          BY <5>1 DEF Listed
      <4> QED
        BY <4>1, <4>2
    <3> QED
      BY <3>1 DEF Listed
  <2>5. ASSUME NEW u \in MembersOf(current)
        PROVE  Accounted(u)' \/ u \in Listed(rest')
    <3>1. Accounted(u) \/ u \in Listed(rest)
      BY <2>2 DEF AccountedInv
    <3>2. u \in Transfers /\ Present(transfers[u])
      BY <2>2, ToldMembers DEF AccountedInv
    <3> QED
      BY <1>2, <1>4, <2>1, <2>4, <3>1, <3>2, AccountedStays
  <2>6. \A b \in Rejected' : b \in Told' /\ \A u \in MembersOf(b) : Accounted(u)'
    BY <1>2, <1>3, <1>4, ToldMembers, AccountedStays, StayTold DEF AccountedInv
  <2> QED
    BY <1>2, <1>4, <2>5, <2>6 DEF AccountedInv, RejectsWait
<1> QED
  BY <1>5, <1>6

\* A continue method announces nothing as rejected.
LEMMA ContinueAccounted ==
    ASSUME BulkInv, BulkInv', ToldInv, UnfailingInv, PreparedInv, AccountedInv, EventsStay,
           NEW success \in BOOLEAN, BulkContinue(success)
    PROVE  AccountedInv'
<1>1. UNCHANGED <<posted, published>> /\ pc' \in Continuous
  BY DEF BulkContinue, BulkPrepareUncounted, BulkPrepareContinue, BulkFulfilUncounted,
         BulkFulfilContinue, SinglePrepareContinue, SingleFulfilContinue, BulkResponse,
         Continuing, control, ledger, Continuous
<1>2. outputEvents \subseteq outputEvents' /\ Rejected' \subseteq Rejected
  <2>1. \A e \in outputEvents' \ outputEvents : e.name # "BulkTransferRejectRequestProcessedEvt"
    BY ContinueEvents
  <2>2. outputEvents \subseteq outputEvents'
    BY ContinueEvents
  <2>3. ASSUME NEW b \in Rejected'
        PROVE  b \in Rejected
    <3> DEFINE e == [name |-> "BulkTransferRejectRequestProcessedEvt", id |-> b]
    <3>1. e.name = "BulkTransferRejectRequestProcessedEvt" /\ e \in outputEvents' \cup published
      BY <1>1, <2>3 DEF Rejected, Happened
    <3> HIDE DEF e
    <3>2. e \in outputEvents \cup published
      BY <2>1, <3>1
    <3> QED
      BY <2>3, <3>2 DEF e, Rejected, Happened
  <2> QED
    BY <2>2, <2>3
<1>3. FinalsStay /\ ~Rejecting'
  <2>1. Advance
    BY ContinueAdvances
  <2> QED
    BY <1>1, <1>2, <2>1 DEF FinalsStay, Advance, Rejecting, Continuous
<1> QED
  BY <1>1, <1>2, <1>3, AccountedKept

LEMMA RestAccounted ==
    ASSUME BulkInv, BulkInv', ToldInv, UnfailingInv, PreparedInv, AccountedInv, EventsStay,
           EndOfMembers \/ BulkRejectDone \/ BulkCompleted \/ Adding
    PROVE  AccountedInv'
<1>1. UNCHANGED <<cache, transfers, posted, published>> /\ FinalsStay
  BY DEF EndOfMembers, BulkRejectDone, BulkCompleted, Adding, AddChecked, AddInserted, memory,
         queues, world, ledger, vars, FinalsStay, ComingFinals, Coming
<1>2. CASE EndOfMembers \/ BulkCompleted
  <2>1. UNCHANGED outputEvents /\ pc' \in {"commands", "responses"}
    BY <1>2, UpdatesSucceed DEF EndOfMembers, BulkCompleted, memory, queues
  <2>2. Rejected' \subseteq Rejected /\ ~Rejecting'
    BY <1>1, <2>1 DEF Rejected, Happened, Rejecting
  <2> QED
    BY <1>1, <2>2, AccountedKept
<1>3. CASE Adding
  <2>1. UNCHANGED <<outputEvents, pc, topic, cursor, rest, current>>
    BY <1>3 DEF Adding, AddChecked, AddInserted, vars, control, input, memory, queues
  <2>2. Rejected' \subseteq Rejected /\ (Rejecting' => Rejecting)
    BY <1>1, <2>1 DEF Rejected, Happened, Rejecting, AccountedInv
  <2> QED
    BY <1>1, <2>1, <2>2, AccountedKept
<1>4. CASE BulkRejectDone
  <2>1. /\ Emit("BulkTransferRejectRequestProcessedEvt", current) /\ pc' = "commands"
        /\ Rejecting /\ rest = <<>>
    BY <1>4, UpdatesSucceed DEF BulkRejectDone, Rejecting
  <2>2. ~Rejecting' /\ Rejected' \subseteq Rejected \cup {current}
    BY <1>1, <2>1 DEF Emit, Rejecting, Rejected, Happened
  <2>3. \A t \in MembersOf(current) : Accounted(t)
    BY <2>1 DEF AccountedInv, Listed
  <2>4. current \in Told
    BY <2>1, ToldMembers DEF AccountedInv
  <2>5. \A b \in Rejected \cup {current} : b \in Told' /\ \A t \in MembersOf(b) : Accounted(t)'
    BY <1>1, <2>2, <2>3, <2>4, ToldMembers, AccountedStays, StayTold DEF AccountedInv
  <2> QED
    BY <2>2, <2>5 DEF AccountedInv, RejectsWait
<1> QED
  BY <1>2, <1>3, <1>4

LEMMA AccountedInit == RejectsWait /\ BulkInit => AccountedInv
BY DEF BulkInit, Init, AccountedInv, Rejected, Happened, Rejecting, RejectsWait

LEMMA AccountedNext ==
    BulkInv /\ BulkInv' /\ ToldInv /\ UnfailingInv /\ PreparedInv /\ AllSent /\ AccountedInv
    /\ [BulkNext]_allVars
        => AccountedInv'
<1> SUFFICES ASSUME BulkInv, BulkInv', ToldInv, UnfailingInv, PreparedInv, AllSent, AccountedInv,
                    [BulkNext]_allVars
             PROVE  AccountedInv'
  OBVIOUS
<1>0. EventsStay
  BY EventsKept
<1>1. CASE UNCHANGED allVars
  <2>1. UNCHANGED <<cache, transfers, posted, published, outputEvents, pc, topic, cursor, rest,
                    current>>
    BY <1>1 DEF allVars, vars, bulkVars, control, input, memory, queues, world, ledger
  <2>2. FinalsStay /\ Rejected' \subseteq Rejected /\ (Rejecting' => Rejecting)
    BY <2>1 DEF FinalsStay, ComingFinals, Coming, Rejected, Happened,
                Rejecting, AccountedInv
  <2> QED
    BY <1>0, <2>1, <2>2, AccountedKept
<1>2. CASE \/ \E name \in Inputs, t \in Transfers : Produce(name, t) /\ UNCHANGED bulkVars
           \/ \E name \in BulkInputs, b \in Bulks : BulkProduce(name, b)
  <2>1. UNCHANGED <<cache, transfers, posted, published, outputEvents, pc>> /\ pc = "idle"
    BY <1>2 DEF Produce, BulkProduce, control, memory, queues, world, ledger
  <2>2. FinalsStay /\ Rejected' \subseteq Rejected /\ ~Rejecting'
    BY <2>1 DEF FinalsStay, ComingFinals, Coming, Rejected, Happened,
                Rejecting, AccountedInv
  <2> QED
    BY <1>0, <2>1, <2>2, AccountedKept
<1> QED
  BY <1>0, <1>1, <1>2, NoRestart, SharedAccounted, BulkCommandAccounted, MemberCommandAccounted,
     ContinueAccounted, RestAccounted
  DEF BulkNext, BulkProcess, BulkEnvironment

\* Every transfer of a rejected bulk transfer is aborted, committed, or reported.
LEMMA AccountedInvariant == NothingFails /\ RejectsWait /\ BulkSpec => []AccountedInv
BY AccountedInit, AccountedNext, PreparedInvariant, UnfailingInvariant, ToldInvariant,
   SentInvariant, BulkInductiveInvariant, PTL DEF BulkSpec

\* When nothing fails and the payee waits for a bulk transfer to be announced as prepared
\* before it rejects it, each transfer of one announced as rejected is stored as ABORTED,
\* was committed by a fulfil that came as well, or an event said what went wrong with it.
THEOREM BulkRejectIsAccounted ==
    NothingFails /\ RejectsWait /\ BulkSpec => []BulkRejectAccounted
<1>1. UnfailingInv /\ AllSent /\ AccountedInv => BulkRejectAccounted
  <2> SUFFICES ASSUME UnfailingInv, AllSent, AccountedInv, pc = "idle", NEW b \in Bulks,
                      BulkPublished("BulkTransferRejectRequestProcessedEvt", b),
                      NEW t \in MembersOf(b)
               PROVE  transfers[t].state = "ABORTED" \/ t \in posted \/ MemberFailed(t)
    BY DEF BulkRejectAccounted
  <2>1. Accounted(t)
    BY DEF AccountedInv, Rejected, Happened, BulkPublished
  <2>2. Failed(t) => MemberFailed(t)
    BY DEF Failed, Happened, MemberFailed, Published, AllSent
  <2>3. t \in Transfers /\ cache = EmptyCache
    BY BulkConstantsAssumption DEF UnfailingInv, Uninterrupted, MembersOf
  <2> QED
    BY <2>1, <2>2, <2>3 DEF Accounted, Coming, EmptyCache, Present, NoDoc
<1> QED
  BY <1>1, AccountedInvariant, SentInvariant, UnfailingInvariant, PTL

-----------------------------------------------------------------------------
(* The answers to fulfils.                                                  *)

\* No individual transfer is queried, which would take its response from the bulk
\* transfer, and no bulk transfer is empty.
Undisturbed == "QueryTransferCmd" \notin Inputs /\ \A b \in Bulks : Members[b] # <<>>

FulfilOf(b) == [name |-> "CommitBulkTransferFulfilCmd", id |-> b]

Size(b) == Len(Members[b])

Answered(b) ==
    \/ Happened("BulkTransferFulfiledEvt", b)
    \/ Happened("BulkTransferNotFoundEvt", b)
    \/ \E t \in MembersOf(b) : Failed(t)

CommitFor(r, t) == r.type = "commit" /\ r.id = t

\* Where a fulfil of b, with a commit for each of its transfers, begins in requests; before
\* them when its first commits were continued already.
Blocks(b, requests) ==
    {p \in (1 - Size(b))..(Len(requests) - Size(b)) :
        \A j \in 1..Size(b) : p + j >= 1 => CommitFor(requests[p + j], Members[b][j])}

\* What was continued of such a fulfil is counted.
Begun(b, p) == pc = "responses" /\ Exists(bulkCache[b]) /\ p + Len(bulkCache[b].fulfilled) >= 0

\* A fulfil of b is still to be continued, to its end.
Waiting(b) ==
    \/ pc \in Asking /\ \E p \in Blocks(b, abRequests) : p >= 0
    \/ pc \in Continuous /\ \E p \in Blocks(b, abResponses) : p >= 0 \/ Begun(b, p)

FulfilsWaiting ==
    \A b \in Bulks : \A i \in 1..cursor : topic[i] = FulfilOf(b) =>
        Answered(b) \/ Waiting(b) \/ (pc = "members" /\ i = cursor /\ current = b)

Fulfilling == pc = "members" /\ topic[cursor].name = "CommitBulkTransferFulfilCmd"

\* As many transfers as the loop of a bulk command is through with.
Done == Size(current) - Len(rest)

\* The loop of a fulfil asks for the commits of its transfers in their order, or one failed.
LoopAsks ==
    Fulfilling =>
        /\ Done >= 0
        /\ \A j \in DOMAIN rest : rest[j] = Members[current][Done + j]
        /\ \/ Answered(current)
           \/ /\ Done <= Len(abRequests)
              /\ \A j \in 1..Done :
                    CommitFor(abRequests[Len(abRequests) - Done + j], Members[current][j])

\* A full count is announced.
CountsShort ==
    \A b \in Bulks : Answered(b) \/
        (Len(bulks[b].fulfilled) < Size(b) /\ Len(bulkCache[b].fulfilled) < Size(b))

\* The loop of a command that is kept for each individual transfer.
Keeping ==
    /\ pc = "members"
    /\ topic[cursor].name \in {"PrepareBulkTransferCmd", "CommitBulkTransferFulfilCmd"}

\* The responses are counted for bulk transfers.
AllRouted ==
    /\ pc \in Asking => \A i \in DOMAIN abRequests : RoutedToBulk(abRequests[i].id)
    /\ pc \in Continuous => \A i \in DOMAIN abResponses : RoutedToBulk(abResponses[i].id)
    /\ Keeping => \A t \in MembersOf(current) : RoutedToBulk(t)

AnsweredInv ==
    /\ Undisturbed
    /\ \A i \in DOMAIN topic : topic[i].name # "QueryTransferCmd"
    /\ FulfilsWaiting
    /\ LoopAsks
    /\ CountsShort
    /\ AllRouted
    /\ BulkFulfilAnswered

-----------------------------------------------------------------------------
(* How AnsweredInv is preserved.                                            *)

\* An answer is not taken back.
LEMMA AnswersStay ==
    ASSUME EventsStay, NEW b \in Bulks, Answered(b)
    PROVE  Answered(b)'
<1>1. \A name, id : Happened(name, id) => Happened(name, id)'
  BY DEF EventsStay, Happened
<1> QED
  BY <1>1 DEF Answered, Failed

\* What kind of things there are.
LEMMA Sequences ==
    ASSUME BulkInv, ToldInv
    PROVE  /\ Len(topic) \in Nat /\ DOMAIN topic = 1..Len(topic)
           /\ offset \in 0..Len(topic) /\ batchEnd \in 0..Len(topic) /\ cursor \in 0..batchEnd
           /\ Len(abRequests) \in Nat /\ DOMAIN abRequests = 1..Len(abRequests)
           /\ Len(abResponses) \in Nat /\ DOMAIN abResponses = 1..Len(abResponses)
           /\ Len(rest) \in Nat /\ DOMAIN rest = 1..Len(rest)
           /\ current \in Bulks
<1>1. topic \in Seq([name : CommandNames \cup BulkCommandNames, id : Transfers \cup Bulks])
  BY DEF ToldInv, Positions
<1>2. abRequests \in Seq(Request) /\ abResponses \in Seq(Response)
  BY DEF BulkInv, MembersInv, Documents
<1>3. rest \in Seq(Transfers) /\ current \in Bulks
  BY DEF BulkInv, BulkTypeOK
<1> QED
  BY <1>1, <1>2, <1>3, LenProperties DEF ToldInv, Positions

LEMMA Sizes ==
    ASSUME Undisturbed, NEW b \in Bulks
    PROVE  /\ Size(b) \in Nat \ {0} /\ DOMAIN Members[b] = 1..Size(b)
           /\ \A j \in 1..Size(b) : Members[b][j] \in MembersOf(b)
<1>1. Members[b] \in Seq(Transfers) /\ Members[b] # <<>>
  BY BulkConstantsAssumption DEF Undisturbed
<1>2. Size(b) \in Nat \ {0} /\ DOMAIN Members[b] = 1..Size(b)
  BY <1>1 DEF Size
<1> QED
  BY <1>2 DEF MembersOf

\* A step within the batch that leaves none of the fulfils taken so far alone.
LEMMA WaitingKept ==
    ASSUME AnsweredInv, EventsStay, UNCHANGED <<topic, cursor>>,
           \A b \in Bulks : Waiting(b) => Answered(b)' \/ Waiting(b)',
           \A b \in Bulks : Fulfilling /\ current = b =>
               (Fulfilling' /\ current' = b) \/ Answered(b)' \/ Waiting(b)'
    PROVE  FulfilsWaiting'
<1> SUFFICES ASSUME NEW b \in Bulks, NEW i \in 1..cursor, topic[i] = FulfilOf(b)
             PROVE  Answered(b)' \/ Waiting(b)' \/ (pc' = "members" /\ i = cursor /\ current' = b)
  BY DEF FulfilsWaiting, FulfilOf
<1>1. Answered(b) \/ Waiting(b) \/ (pc = "members" /\ i = cursor /\ current = b)
  BY DEF AnsweredInv, FulfilsWaiting
<1>2. CASE pc = "members" /\ i = cursor /\ current = b
  <2>1. Fulfilling
    BY <1>2 DEF Fulfilling, FulfilOf
  <2> QED
    BY <1>2, <2>1 DEF Fulfilling
<1>3. CASE Answered(b)
  BY <1>3, AnswersStay
<1>4. CASE Waiting(b)
  BY <1>4
<1> QED
  BY <1>1, <1>2, <1>3, <1>4

\* The counts of a step that counts nothing: they are kept, read, stored, or forgotten.
CountsFrom ==
    \A b \in Bulks :
        /\ bulks'[b].fulfilled \in {bulks[b].fulfilled, bulkCache[b].fulfilled, <<>>}
        /\ bulkCache'[b].fulfilled \in {bulks[b].fulfilled, bulkCache[b].fulfilled, <<>>}

LEMMA CountsKept ==
    ASSUME AnsweredInv, EventsStay, CountsFrom
    PROVE  CountsShort'
<1> SUFFICES ASSUME NEW b \in Bulks, ~Answered(b)'
             PROVE  Len(bulks'[b].fulfilled) < Size(b) /\ Len(bulkCache'[b].fulfilled) < Size(b)
  BY DEF CountsShort, Size
<1>1. Len(bulks[b].fulfilled) < Size(b) /\ Len(bulkCache[b].fulfilled) < Size(b)
  BY AnswersStay DEF AnsweredInv, CountsShort
<1>2. Len(<<>>) = 0 /\ Size(b) \in Nat \ {0}
  BY Sizes DEF AnsweredInv
<1>3. /\ Len(bulks'[b].fulfilled) \in {Len(bulks[b].fulfilled), Len(bulkCache[b].fulfilled), 0}
      /\ Len(bulkCache'[b].fulfilled) \in {Len(bulks[b].fulfilled), Len(bulkCache[b].fulfilled), 0}
  BY <1>2 DEF CountsFrom
<1> QED
  BY <1>1, <1>2, <1>3

\* What holds in the same way after every step that takes no command from the topic.
LEMMA AnsweredFrame ==
    ASSUME AnsweredInv, published \subseteq published', UNCHANGED <<topic, offset>>,
           FulfilsWaiting', LoopAsks', CountsShort', AllRouted'
    PROVE  AnsweredInv'
<1>1. /\ \A name, b : BulkPublished(name, b) => BulkPublished(name, b)'
      /\ \A t : MemberFailed(t) => MemberFailed(t)'
  BY DEF BulkPublished, MemberFailed, Published
<1>2. BulkFulfilAnswered'
  BY <1>1 DEF AnsweredInv, BulkFulfilAnswered
<1> QED
  BY <1>2 DEF AnsweredInv, Undisturbed

\* A step of the second half of the batch that continues nothing.
LEMMA IdleAnswered ==
    ASSUME BulkInv, ToldInv, AnsweredInv, EventsStay, published \subseteq published',
           UNCHANGED <<topic, offset, cursor, batchCommands, abRequests, abResponses, bulks, bulkCache>>,
           ~Fulfilling,
           pc' \notin {"members", "completing"},
           pc' \in Asking => pc \in Asking,
           pc \in Asking /\ pc' \notin Asking => abRequests = <<>>,
           pc' \in Continuous => pc \in Continuous,
           pc \in Continuous /\ pc' \notin Continuous => abResponses = <<>>,
           pc = "completing" => pc' # "responses"
    PROVE  AnsweredInv'
<1>1. \A b \in Bulks : Blocks(b, <<>>) = {}
  <2>1. ASSUME NEW b \in Bulks, NEW p \in Blocks(b, <<>>)
        PROVE  FALSE
    BY <2>1, Sizes DEF Blocks, AnsweredInv
  <2> QED
    BY <2>1
<1>2. \A b \in Bulks : Waiting(b) => Waiting(b)'
  <2>1. ASSUME NEW b \in Bulks, pc \in Asking, NEW p \in Blocks(b, abRequests), p >= 0
        PROVE  Waiting(b)'
    <3>1. pc' \in Asking
      BY <1>1, <2>1
    <3> QED
      BY <2>1, <3>1 DEF Waiting, Blocks
  <2>2. ASSUME NEW b \in Bulks, pc \in Continuous, NEW p \in Blocks(b, abResponses),
               p >= 0 \/ Begun(b, p)
        PROVE  Waiting(b)'
    <3>1. pc' \in Continuous
      BY <1>1, <2>2
    <3>2. p >= 0 \/ Begun(b, p)'
      BY <2>2, <3>1 DEF Begun, Continuous
    <3> QED
      BY <2>2, <3>1, <3>2 DEF Waiting, Blocks
  <2> QED
    BY <2>1, <2>2 DEF Waiting
<1>3. FulfilsWaiting'
  BY <1>2, WaitingKept
<1>4. LoopAsks' /\ CountsShort' /\ AllRouted'
  <2>1. CountsFrom
    BY DEF CountsFrom
  <2>2. AllRouted'
    BY DEF AnsweredInv, AllRouted, Keeping, RoutedToBulk
  <2> QED
    BY <2>1, <2>2, CountsKept DEF LoopAsks, Fulfilling
<1> QED
  BY <1>3, <1>4, AnsweredFrame

\* A&B has a response for each request.
LEMMA AccountsAnswered ==
    ASSUME BulkInv, ToldInv, UnfailingInv, AnsweredInv, EventsStay, published \subseteq published',
           UNCHANGED bulkVars,
           NEW accepted \in SUBSET (DOMAIN abRequests), AccountsAnswer(accepted)
    PROVE  AnsweredInv'
<1>1. /\ pc = "accounts" /\ pc' = "responses"
      /\ abResponses' = [i \in DOMAIN abRequests |-> ResponseTo(i, accepted)]
      /\ UNCHANGED <<topic, offset, cursor, batchCommands, bulks, bulkCache>>
  BY NoFaultComes DEF AccountsAnswer, bulkVars, bulkState, input
<1>2. /\ DOMAIN abResponses' = DOMAIN abRequests
      /\ \A i \in DOMAIN abRequests :
            abResponses'[i].type = abRequests[i].type /\ abResponses'[i].id = abRequests[i].id
  BY <1>1 DEF ResponseTo
<1>3. DOMAIN abRequests = 1..Len(abRequests) /\ Len(abRequests) \in Nat
  BY Sequences
<1>4. Len(abResponses') = Len(abRequests)
  BY <1>1, <1>3
<1>5. ASSUME NEW b \in Bulks, NEW p \in Blocks(b, abRequests)
      PROVE  p \in Blocks(b, abResponses')
  <2>1. /\ p \in (1 - Size(b))..(Len(abRequests) - Size(b))
        /\ \A j \in 1..Size(b) : p + j >= 1 => CommitFor(abRequests[p + j], Members[b][j])
    BY DEF Blocks
  <2>2. Size(b) \in Nat
    BY Sizes DEF AnsweredInv
  <2>3. ASSUME NEW j \in 1..Size(b), p + j >= 1
        PROVE  CommitFor(abResponses'[p + j], Members[b][j])
    <3>1. p + j \in DOMAIN abRequests
      BY <1>3, <2>1, <2>2, <2>3
    <3> QED
      BY <1>2, <2>1, <2>3, <3>1 DEF CommitFor
  <2> QED
    BY <1>4, <2>1, <2>3 DEF Blocks
<1>6. \A b \in Bulks : Waiting(b) => Waiting(b)'
  <2>1. ASSUME NEW b \in Bulks, Waiting(b)
        PROVE  Waiting(b)'
    <3>1. PICK p \in Blocks(b, abRequests) : p >= 0
      BY <1>1, <2>1 DEF Waiting, Continuous
    <3>2. p \in Blocks(b, abResponses')
      BY <1>5
    <3>3. p \in Blocks(b, abResponses)'
      BY <3>2 DEF Blocks, Size, CommitFor
    <3> QED
      BY <1>1, <3>1, <3>3 DEF Waiting, Continuous
  <2> QED
    BY <2>1
<1>7. FulfilsWaiting'
  BY <1>1, <1>6, WaitingKept DEF Fulfilling
<1>8. CountsShort'
  BY <1>1, CountsKept DEF CountsFrom
<1>9. LoopAsks' /\ AllRouted'
  BY <1>1, <1>2 DEF LoopAsks, Fulfilling, AnsweredInv, AllRouted, Asking, Continuous, Keeping,
                    RoutedToBulk
<1> QED
  BY <1>1, <1>7, <1>8, <1>9, AnsweredFrame

LEMMA SharedAnswered ==
    ASSUME BulkInv, ToldInv, UnfailingInv, AllSent, AnsweredInv, EventsStay,
           published \subseteq published', Shared
    PROVE  AnsweredInv'
<1>1. UNCHANGED <<bulks, bulkCache, rest, current>> /\ UNCHANGED bulkVars
  BY DEF Shared, bulkVars, bulkState
<1>2. CASE \E n \in 1..BatchSize : StartBatch(n)
  <2>1. /\ UNCHANGED <<topic, offset, published>>
        /\ pc' = "commands" /\ cursor' = offset /\ abRequests' = <<>>
    BY <1>2 DEF StartBatch, input, world
  <2>2. FulfilsWaiting'
    <3>1. ASSUME NEW b \in Bulks, NEW i \in 1..offset, topic[i] = FulfilOf(b)
          PROVE  Answered(b)'
      <4>1. \/ BulkPublished("BulkTransferFulfiledEvt", b)
            \/ BulkPublished("BulkTransferNotFoundEvt", b)
            \/ \E t \in MembersOf(b) : MemberFailed(t)
        BY <3>1 DEF AnsweredInv, BulkFulfilAnswered, FulfilOf
      <4>2. Answered(b)
        BY <4>1 DEF Answered, Happened, Failed, BulkPublished, MemberFailed, Published
      <4> QED
        BY <4>2, AnswersStay
    <3> QED
      BY <2>1, <3>1 DEF FulfilsWaiting, FulfilOf
  <2>3. CountsShort'
    BY <1>1, CountsKept DEF CountsFrom
  <2>4. LoopAsks' /\ AllRouted'
    BY <2>1 DEF LoopAsks, Fulfilling, AllRouted, Asking, Continuous, Keeping
  <2> QED
    BY <2>1, <2>2, <2>3, <2>4, AnsweredFrame
<1>3. ASSUME NEW t \in Transfers, Query(t)
      PROVE  FALSE
  <2>1. Handling("QueryTransferCmd", t)
    BY <1>3 DEF Query, QueryUnread, QueryRefused, QueryAnswered
  <2>2. cursor' \in DOMAIN topic /\ topic[cursor'].name = "QueryTransferCmd"
    BY <2>1, NextPosition DEF Handling, ToldInv, input
  <2> QED
    BY <2>2 DEF AnsweredInv
<1>4. CASE EndOfCommands \/ EndOfResponses \/ Cancellations \/ Flush \/ Send
  <2>1. UNCHANGED <<topic, offset, cursor, batchCommands, abRequests, abResponses>>
    BY <1>4 DEF EndOfCommands, EndOfResponses, Cancellations, Flush, Send, memory, queues, input
  <2>2. \/ pc = "commands" /\ pc' = "accounts"
        \/ /\ \/ pc = "commands" /\ abRequests = <<>>
              \/ pc = "responses" /\ abResponses = <<>>
              \/ pc \in {"cancellations", "flush", "send"}
           /\ pc' \in {"cancellations", "flush", "send", "acknowledge", "dying"}
    BY <1>4 DEF EndOfCommands, EndOfResponses, AfterResponses, Cancellations, Flush, Send
  <2> QED
    BY <1>1, <2>1, <2>2, IdleAnswered DEF Asking, Continuous, Fulfilling
<1>5. CASE Acknowledge
  <2>1. /\ UNCHANGED <<topic, cursor, published, outputEvents, batchCommands, abRequests, abResponses>>
        /\ pc = "acknowledge" /\ pc' = "idle" /\ offset' = batchEnd
    BY <1>5 DEF Acknowledge, memory, queues, world
  <2>2. cursor = batchEnd /\ outputEvents \subseteq published
    BY <2>1 DEF UnfailingInv, Uninterrupted, AllSent
  <2>3. ASSUME NEW b \in Bulks, NEW i \in 1..cursor, topic[i] = FulfilOf(b)
        PROVE  Answered(b)
    BY <2>1, <2>3 DEF AnsweredInv, FulfilsWaiting, Waiting, Asking, Continuous
  <2>4. FulfilsWaiting'
    BY <2>1, <2>3, AnswersStay DEF FulfilsWaiting, FulfilOf
  <2>5. BulkFulfilAnswered'
    <3>1. ASSUME NEW b \in Bulks, Answered(b)
          PROVE  \/ BulkPublished("BulkTransferFulfiledEvt", b)
                 \/ BulkPublished("BulkTransferNotFoundEvt", b)
                 \/ \E t \in MembersOf(b) : MemberFailed(t)
      BY <2>2, <3>1 DEF Answered, Happened, Failed, BulkPublished, MemberFailed, Published
    <3>2. /\ \A name, b : BulkPublished(name, b) => BulkPublished(name, b)'
          /\ \A t : MemberFailed(t) => MemberFailed(t)'
      BY <2>1 DEF BulkPublished, MemberFailed, Published
    <3>3. 1..offset' = 1..cursor /\ topic' = topic
      BY <2>1, <2>2
    <3>4. ASSUME NEW i \in 1..cursor, NEW b \in Bulks, topic[i] = FulfilOf(b)
          PROVE  \/ BulkPublished("BulkTransferFulfiledEvt", b)'
                 \/ BulkPublished("BulkTransferNotFoundEvt", b)'
                 \/ \E t \in MembersOf(b) : MemberFailed(t)'
      BY <2>3, <3>1, <3>2, <3>4
    <3> QED
      BY <3>3, <3>4 DEF BulkFulfilAnswered, FulfilOf
  <2>6. CountsShort'
    BY <1>1, CountsKept DEF CountsFrom
  <2>7. LoopAsks' /\ AllRouted'
    BY <2>1 DEF LoopAsks, Fulfilling, AllRouted, Asking, Continuous, Keeping
  <2> QED
    BY <2>1, <2>4, <2>5, <2>6, <2>7 DEF AnsweredInv, Undisturbed
<1> QED
  BY <1>1, <1>2, <1>3, <1>4, <1>5, AccountsAnswered DEF Shared

\* A fulfil begins the loop over the transfers, or ends with an answer.
LEMMA BulkCommandAnswered ==
    ASSUME BulkInv, ToldInv, UnfailingInv, AnsweredInv, EventsStay,
           published \subseteq published', NEW b \in Bulks, BulkCommand(b)
    PROVE  AnsweredInv'
<1>1. PICK name \in BulkCommandNames :
        /\ BulkHandling(name, b)
        /\ \/ pc' = "commands"
           \/ /\ pc' = "members" /\ current' = b
              /\ name = "CommitBulkTransferFulfilCmd" => rest' = Members[b]
        /\ name = "CommitBulkTransferFulfilCmd" /\ pc' = "commands" => Emit("BulkTransferNotFoundEvt", b)
        /\ \/ UNCHANGED bulkCache
           \/ KeepBulk(b, NoBulk)
           \/ KeepBulk(b, FoundBulk(b))
           \/ KeepBulk(b, [FoundBulk(b) EXCEPT !.status = "ACCEPTED"])
  BY NoFaultComes
  DEF BulkCommand, BulkUnread, BulkNotFound, BulkPrepareStart, BulkFulfilStart, BulkReadFails,
      BulkRejectUnlisted, BulkRejectStart, BulkQueryRefused, BulkQueryUnlisted,
      BulkQueryAnswered, BulkCommandNames, BulkAnswer, Loop, BulkHandling
<1>2. /\ UNCHANGED <<topic, offset, batchEnd, abRequests, abResponses, bulks>>
      /\ pc = "commands" /\ cursor' = cursor + 1 /\ InBatch
      /\ topic[cursor + 1] = [name |-> name, id |-> b]
      /\ batchCommands' = KeptCommands(name, b)
  BY <1>1 DEF BulkHandling, input
<1>3. cursor' \in DOMAIN topic /\ cursor \in Nat
  BY <1>2, NextPosition, Sequences DEF ToldInv
<1>4. pc' \in Asking /\ pc \in Asking /\ pc' \notin Continuous /\ pc \notin Continuous
  BY <1>1, <1>2 DEF Asking, Continuous
<1>5. CountsFrom
  <2>1. FoundBulk(b) \in BulkDoc
    BY BulkDocuments DEF BulkInv
  <2>2. /\ NoBulk.fulfilled = <<>>
        /\ FoundBulk(b).fulfilled \in {bulks[b].fulfilled, bulkCache[b].fulfilled}
        /\ [FoundBulk(b) EXCEPT !.status = "ACCEPTED"].fulfilled = FoundBulk(b).fulfilled
    BY <2>1 DEF NoBulk, FoundBulk, BulkDoc
  <2>3. bulkCache \in [Bulks -> BulkDoc]
    BY DEF BulkInv, BulkTypeOK
  <2>4. PICK d \in {NoBulk, FoundBulk(b), [FoundBulk(b) EXCEPT !.status = "ACCEPTED"], bulkCache[b]} :
           KeepBulk(b, d)
    BY <1>1, <2>3 DEF KeepBulk
  <2>5. d.fulfilled \in {bulks[b].fulfilled, bulkCache[b].fulfilled, <<>>}
    BY <2>2, <2>4
  <2> QED
    BY <1>2, <2>3, <2>4, <2>5 DEF KeepBulk, CountsFrom
<1>6. FulfilsWaiting'
  <2>1. ASSUME NEW c \in Bulks, NEW i \in 1..cursor, topic[i] = FulfilOf(c)
        PROVE  Answered(c)' \/ Waiting(c)'
    <3>1. Answered(c) \/ Waiting(c)
      BY <1>2, <2>1 DEF AnsweredInv, FulfilsWaiting
    <3>2. Waiting(c) => Waiting(c)'
      BY <1>2, <1>4 DEF Waiting, Blocks
    <3> QED
      BY <3>1, <3>2, AnswersStay
  <2>2. ASSUME NEW c \in Bulks, topic[cursor'] = FulfilOf(c)
        PROVE  Answered(c)' \/ (pc' = "members" /\ current' = c)
    <3>1. c = b /\ name = "CommitBulkTransferFulfilCmd"
      BY <1>2, <2>2 DEF FulfilOf
    <3>2. Emit("BulkTransferNotFoundEvt", b) => Answered(b)'
      BY DEF Emit, Answered, Happened
    <3> QED
      BY <1>1, <3>1, <3>2
  <2>3. \A i \in 1..cursor' : i \in 1..cursor \/ i = cursor'
    BY <1>2, <1>3
  <2> QED
    BY <1>2, <2>1, <2>2, <2>3 DEF FulfilsWaiting, FulfilOf
<1>7. LoopAsks'
  <2> SUFFICES ASSUME Fulfilling'
               PROVE  /\ Done' >= 0
                      /\ \A j \in DOMAIN rest' : rest'[j] = Members[current'][Done' + j]
                      /\ Done' <= Len(abRequests')
                      /\ \A j \in 1..Done' :
                            CommitFor(abRequests'[Len(abRequests') - Done' + j], Members[current'][j])
    BY DEF LoopAsks, CommitFor
  <2>1. rest' = Members[b] /\ current' = b
    BY <1>1, <1>2 DEF Fulfilling
  <2>2. Done' = 0 /\ DOMAIN Members[b] = 1..Size(b) /\ Len(abRequests') \in Nat
    BY <1>2, <2>1, Sequences, Sizes DEF Done, Size, AnsweredInv
  <2> QED
    BY <2>1, <2>2
<1>8. AllRouted'
  <2>1. \A t \in Transfers : RoutedToBulk(t) => RoutedToBulk(t)'
    BY <1>1, <1>2 DEF RoutedToBulk, KeptCommands, BulkCommandNames
  <2>2. \A i \in DOMAIN abRequests : abRequests[i].id \in Transfers
    <3>1. abRequests \in Seq(Request)
      BY DEF BulkInv, MembersInv, Documents
    <3>2. \A i \in DOMAIN abRequests : abRequests[i] \in Request
      BY <3>1
    <3> QED
      BY <3>2 DEF Request
  <2>3. \A i \in DOMAIN abRequests : batchCommands'[abRequests[i].id] \in BulkCommandNames
    BY <1>4, <2>1, <2>2 DEF AnsweredInv, AllRouted, RoutedToBulk
  <2>4. Keeping' => current' = b /\ \A t \in MembersOf(b) : RoutedToBulk(t)'
    <3>1. MembersOf(b) \subseteq Transfers
      BY BulkConstantsAssumption DEF MembersOf
    <3> QED
      BY <1>1, <1>2, <3>1 DEF Keeping, RoutedToBulk, KeptCommands, BulkCommandNames
  <2> QED
    BY <1>2, <1>4, <2>3, <2>4 DEF AllRouted, RoutedToBulk
<1> QED
  BY <1>2, <1>5, <1>6, <1>7, <1>8, CountsKept, AnsweredFrame

\* One more request comes after the others.
LEMMA OneMoreRequest ==
    ASSUME BulkInv, ToldInv, NEW type \in {"reserve", "commit"}, NEW t \in Transfers,
           AskAccounts(type, t)
    PROVE  /\ Len(abRequests') = Len(abRequests) + 1
           /\ DOMAIN abRequests' = 1..(Len(abRequests) + 1)
           /\ \A i \in 1..Len(abRequests) : abRequests'[i] = abRequests[i]
           /\ abRequests'[Len(abRequests) + 1] = [type |-> type, id |-> t]
<1>1. [type |-> type, id |-> t] \in Request /\ abRequests \in Seq(Request)
  BY DEF Request, BulkInv, MembersInv, Documents
<1> QED
  BY <1>1 DEF AskAccounts

LEMMA BlocksStay ==
    ASSUME BulkInv, ToldInv, Undisturbed, NEW b \in Bulks, NEW p \in Blocks(b, abRequests),
           UNCHANGED abRequests \/
              \E type \in {"reserve", "commit"}, t \in Transfers : AskAccounts(type, t)
    PROVE  (p \in Blocks(b, abRequests))'
<1>1. /\ p \in (1 - Size(b))..(Len(abRequests) - Size(b))
      /\ \A j \in 1..Size(b) : p + j >= 1 => CommitFor(abRequests[p + j], Members[b][j])
  BY DEF Blocks
<1>2. /\ Len(abRequests') \in {Len(abRequests), Len(abRequests) + 1}
      /\ \A i \in 1..Len(abRequests) : abRequests'[i] = abRequests[i]
  BY OneMoreRequest
<1>3. /\ Size(b) \in Nat /\ Len(abRequests) \in Nat
      /\ Len(abRequests') >= Len(abRequests) /\ Len(abRequests') \in Int
  BY <1>2, Sizes, Sequences
<1>4. ASSUME NEW j \in 1..Size(b), p + j >= 1
      PROVE  CommitFor(abRequests'[p + j], Members[b][j])
  <2>1. p + j \in 1..Len(abRequests)
    BY <1>1, <1>3, <1>4
  <2> QED
    BY <1>1, <1>2, <1>4, <2>1
<1>5. p \in (1 - Size(b))..(Len(abRequests') - Size(b))
  BY <1>1, <1>2, <1>3
<1> QED
  BY <1>4, <1>5 DEF Blocks, Size, CommitFor

\* The handler for a transfer of a fulfil asks for its commit, or it failed.
LEMMA MemberCommandAnswered ==
    ASSUME BulkInv, ToldInv, UnfailingInv, AnsweredInv, EventsStay,
           published \subseteq published', NEW t \in Transfers, MemberCommand(t)
    PROVE  AnsweredInv'
<1>1. PICK name \in BulkCommandNames :
        /\ Member(name, t)
        /\ \/ /\ UNCHANGED abRequests
              /\ name = "CommitBulkTransferFulfilCmd" => \E event \in MemberFailures : Emit(event, t)
           \/ AskAccounts("reserve", t) /\ name = "PrepareBulkTransferCmd"
           \/ AskAccounts("commit", t) /\ name = "CommitBulkTransferFulfilCmd"
  BY NoFaultComes
  DEF MemberCommand, MemberUnread, MemberDuplicate, MemberPrepareRefused, MemberPrepareAccepted,
      MemberFulfilNotFound, MemberFulfilRefused, MemberFulfilAccepted, MemberRejectRefused,
      MemberRejected, ReadFails, Answer, Ignore, CancelBecause, CancelFails, BulkCommandNames,
      MemberFailures
<1>2. /\ UNCHANGED <<topic, offset, cursor, pc, batchCommands, abResponses, bulks, bulkCache, current>>
      /\ pc = "members" /\ topic[cursor].name = name
  BY <1>1 DEF Member, control, input, bulkState
<1>3. /\ t \in MembersOf(current) /\ t = rest[1] /\ Len(rest) \in Nat \ {0}
      /\ rest' = Tail(rest) /\ Len(rest') = Len(rest) - 1
      /\ \A i \in 1..(Len(rest) - 1) : rest'[i] = rest[i + 1]
      /\ DOMAIN rest' = 1..(Len(rest) - 1) /\ DOMAIN rest = 1..Len(rest)
  <2>1. rest \in Seq(Transfers)
    BY DEF BulkInv, BulkTypeOK
  <2> QED
    BY <1>1, <2>1, MemberOfTold
<1>4. current \in Bulks /\ Len(abRequests) \in Nat /\ DOMAIN abRequests = 1..Len(abRequests)
  BY Sequences
<1>5. FulfilsWaiting'
  <2>1. ASSUME NEW b \in Bulks, NEW p \in Blocks(b, abRequests)
        PROVE  (p \in Blocks(b, abRequests))'
    BY <1>1, <2>1, BlocksStay DEF AnsweredInv
  <2>2. \A b \in Bulks : Waiting(b) => Waiting(b)'
    BY <1>2, <2>1 DEF Waiting, Continuous
  <2> QED
    BY <1>2, <2>2, WaitingKept DEF Fulfilling
<1>6. ASSUME Fulfilling
      PROVE  /\ Done' = Done + 1 /\ Done >= 0 /\ Done \in Int
             /\ t = Members[current][Done + 1]
             /\ \A j \in DOMAIN rest' : rest'[j] = Members[current][Done' + j]
  <2>1. Size(current) \in Nat
    BY <1>4, Sizes DEF AnsweredInv
  <2>2. Done' = Done + 1 /\ Done \in Int
    BY <1>2, <1>3, <2>1 DEF Done, Size
  <2>3. Done >= 0 /\ \A j \in DOMAIN rest : rest[j] = Members[current][Done + j]
    BY <1>6 DEF AnsweredInv, LoopAsks
  <2> HIDE DEF Done
  <2>4. ASSUME NEW j \in DOMAIN rest'
        PROVE  rest'[j] = Members[current][Done' + j]
    <3>1. j + 1 \in DOMAIN rest /\ rest'[j] = rest[j + 1] /\ Done + (j + 1) = Done' + j
      BY <1>3, <2>2
    <3> QED
      BY <2>3, <3>1
  <2> QED
    BY <1>3, <2>2, <2>3, <2>4
<1>7. LoopAsks'
  <2> SUFFICES ASSUME Fulfilling
               PROVE  /\ Done' >= 0
                      /\ \A j \in DOMAIN rest' : rest'[j] = Members[current][Done' + j]
                      /\ \/ Answered(current)'
                         \/ /\ Done' <= Len(abRequests')
                            /\ \A j \in 1..Done' :
                                  CommitFor(abRequests'[Len(abRequests') - Done' + j],
                                            Members[current][j])
    BY <1>2 DEF LoopAsks, Fulfilling, CommitFor
  <2>1. name = "CommitBulkTransferFulfilCmd"
    BY <1>2 DEF Fulfilling
  <2>2. CASE Answered(current)
    <3>1. PICK b \in Bulks : b = current /\ b = current'
      BY <1>2, <1>4
    <3>2. Answered(b)'
      BY <2>2, <3>1, AnswersStay
    <3> QED
      BY <1>6, <3>1, <3>2 DEF Answered
  <2>3. CASE \E event \in MemberFailures : Emit(event, t)
    <3>1. Failed(t)'
      BY <2>3 DEF Emit, Failed, Happened
    <3> QED
      BY <1>2, <1>3, <1>6, <3>1 DEF Answered
  <2>4. CASE ~Answered(current) /\ AskAccounts("commit", t)
    <3>1. /\ Done <= Len(abRequests)
          /\ \A j \in 1..Done :
                CommitFor(abRequests[Len(abRequests) - Done + j], Members[current][j])
      BY <2>4 DEF AnsweredInv, LoopAsks
    <3>2. /\ Len(abRequests') = Len(abRequests) + 1
          /\ \A i \in 1..Len(abRequests) : abRequests'[i] = abRequests[i]
          /\ abRequests'[Len(abRequests) + 1] = [type |-> "commit", id |-> t]
      BY <2>4, OneMoreRequest
    <3> HIDE DEF Done
    <3>3. ASSUME NEW j \in 1..Done'
          PROVE  CommitFor(abRequests'[Len(abRequests') - Done' + j], Members[current][j])
      <4>1. Len(abRequests') - Done' + j = Len(abRequests) - Done + j
        BY <1>4, <1>6, <3>2
      <4>2. CASE j \in 1..Done
        <5>1. Len(abRequests) - Done + j \in 1..Len(abRequests)
          BY <1>4, <1>6, <3>1, <4>2
        <5> QED
          BY <3>1, <3>2, <4>1, <4>2, <5>1
      <4>3. CASE j = Done + 1
        <5>1. Len(abRequests) - Done + j = Len(abRequests) + 1
          BY <1>4, <1>6, <4>3
        <5> QED
          BY <1>6, <3>2, <4>1, <4>3, <5>1 DEF CommitFor
      <4> QED
        BY <1>6, <4>2, <4>3
    <3> QED
      BY <1>4, <1>6, <3>1, <3>2, <3>3
  <2> QED
    BY <1>1, <2>1, <2>2, <2>3, <2>4
<1>8. AllRouted'
  <2>1. \A i \in 1..Len(abRequests) : RoutedToBulk(abRequests[i].id)
    BY <1>2, <1>4 DEF AnsweredInv, AllRouted, Asking
  <2>2. Keeping => \A u \in MembersOf(current) : RoutedToBulk(u)
    BY DEF AnsweredInv, AllRouted
  <2>3. CASE UNCHANGED abRequests
    BY <1>2, <1>4, <2>1, <2>2, <2>3 DEF AllRouted, Keeping, RoutedToBulk, Continuous
  <2>4. ASSUME NEW type \in {"reserve", "commit"}, AskAccounts(type, t), Keeping
        PROVE  AllRouted'
    <3>1. RoutedToBulk(t)
      BY <1>3, <2>2, <2>4
    <3>2. ASSUME NEW i \in DOMAIN abRequests'
          PROVE  RoutedToBulk(abRequests'[i].id)
      <4>1. /\ i \in 1..(Len(abRequests) + 1)
            /\ \A k \in 1..Len(abRequests) : abRequests'[k] = abRequests[k]
            /\ abRequests'[Len(abRequests) + 1] = [type |-> type, id |-> t]
        <5>1. DOMAIN abRequests' = 1..(Len(abRequests) + 1)
          BY <2>4, OneMoreRequest
        <5> QED
          BY <2>4, <5>1, OneMoreRequest
      <4>2. i \in 1..Len(abRequests) \/ i = Len(abRequests) + 1
        BY <1>4, <4>1
      <4> QED
        BY <2>1, <3>1, <4>1, <4>2
    <3> QED
      BY <1>2, <2>2, <3>2 DEF AllRouted, Keeping, RoutedToBulk, Continuous
  <2> QED
    BY <1>1, <1>2, <2>3, <2>4 DEF Keeping
<1>9. CountsShort'
  BY <1>2, CountsKept DEF CountsFrom
<1> QED
  BY <1>2, <1>5, <1>7, <1>8, <1>9, AnsweredFrame

\* A fulfil that is counted, to the last one.
LEMMA FulfilCounts ==
    ASSUME BulkInv, NEW success \in BOOLEAN, BulkFulfilContinue(success),
           NEW b \in Bulks, BulkOf(Responding) = b
    PROVE  /\ Len(FoundBulk(b).fulfilled) \in Nat
           /\ Exists(bulkCache'[b])
           /\ Len(bulkCache'[b].fulfilled) = Len(FoundBulk(b).fulfilled) + 1
           /\ \A c \in Bulks \ {b} : bulkCache'[c] = bulkCache[c]
           /\ \/ /\ Len(FoundBulk(b).fulfilled) + 1 = Size(b)
                 /\ Happened("BulkTransferFulfiledEvt", b)'
              \/ /\ Len(FoundBulk(b).fulfilled) + 1 # Size(b)
                 /\ pc' = "responses"
<1> DEFINE t == Responding
           f == FoundBulk(b)
           s == f.fulfilled
           d == Fulfilled(f, t, success)
<1>1. /\ pc = "responses" /\ abResponses # <<>> /\ abResponses' = Tail(abResponses)
      /\ Exists(f)
  BY DEF BulkFulfilContinue, BulkResponse
<1>2. t \in Transfers
  BY <1>1, FirstAndOthers
<1>3. f \in BulkDoc /\ s \in Seq(Transfers) /\ Len(s) \in Nat
  BY BulkDocuments, LenProperties DEF BulkInv, BulkDoc
<1>4. /\ d \in BulkDoc /\ d.fulfilled = Append(s, t) /\ Exists(d)
      /\ Append(s, t) \in Seq(Transfers) /\ Len(Append(s, t)) = Len(s) + 1
  BY <1>2, <1>3, CountOne DEF Fulfilled, BulkDoc, BulkStates, Exists
<1>5. /\ \/ /\ Len(s) + 1 = Size(b)
            /\ KeepBulk(b, [d EXCEPT !.status = "COMPLETED"])
            /\ MemberFulfilled(t, success, {[name |-> "BulkTransferFulfiledEvt", id |-> b]})
         \/ /\ Len(s) + 1 # Size(b)
            /\ KeepBulk(b, d)
            /\ pc' = "responses"
  BY <1>1, <1>4 DEF BulkFulfilContinue, AllFulfilled, Size
<1>6. /\ [d EXCEPT !.status = "COMPLETED"].fulfilled = Append(s, t)
      /\ Exists([d EXCEPT !.status = "COMPLETED"])
  BY <1>4 DEF BulkDoc, Exists
<1> HIDE DEF d, s, f, t
<1>7. /\ bulkCache'[b].fulfilled = Append(s, t) /\ Exists(bulkCache'[b])
      /\ \A c \in Bulks \ {b} : bulkCache'[c] = bulkCache[c]
  BY <1>4, <1>5, <1>6 DEF KeepBulk, BulkInv, BulkTypeOK
<1>8. MemberFulfilled(t, success, {[name |-> "BulkTransferFulfiledEvt", id |-> b]}) =>
         Happened("BulkTransferFulfiledEvt", b)'
  BY DEF MemberFulfilled, Happened
<1> QED
  BY <1>3, <1>4, <1>5, <1>7, <1>8 DEF s, f

\* The other continue methods leave the counts of fulfils alone.
LEMMA OthersCountNothing ==
    ASSUME BulkInv, NEW success \in BOOLEAN,
           \/ BulkPrepareUncounted(success)
           \/ BulkPrepareContinue(success)
           \/ BulkFulfilUncounted(success)
           \/ SinglePrepareContinue(success)
           \/ SingleFulfilContinue(success)
    PROVE  CountsFrom
<1> DEFINE t == Responding
<1>1. /\ abResponses # <<>> /\ abResponses' = Tail(abResponses)
      /\ UNCHANGED bulks
  BY DEF BulkPrepareUncounted, BulkFulfilUncounted, BulkPrepareContinue, SinglePrepareContinue,
         SingleFulfilContinue, BulkResponse, Continuing, bulkVars, bulkState
<1>2. t \in Transfers
  BY <1>1, FirstAndOthers
<1>3. CASE BulkPrepareContinue(success)
  <2> DEFINE b == BulkOf(t)
             d == [FoundBulk(b) EXCEPT !.prepared = Append(@, t)]
  <2>1. b \in Bulks /\ FoundBulk(b) \in BulkDoc
    BY <1>2, <1>3, RoutedBulk, BulkDocuments DEF BulkPrepareContinue, BulkResponse, BulkInv
  <2>2. /\ d.fulfilled = FoundBulk(b).fulfilled
        /\ [d EXCEPT !.status = "PENDING"].fulfilled = FoundBulk(b).fulfilled
    BY <2>1 DEF BulkDoc
  <2>3. KeepBulk(b, d) \/ KeepBulk(b, [d EXCEPT !.status = "PENDING"])
    BY <1>3 DEF BulkPrepareContinue
  <2>4. FoundBulk(b).fulfilled \in {bulks[b].fulfilled, bulkCache[b].fulfilled}
    BY DEF FoundBulk
  <2> HIDE DEF d, b
  <2> QED
    BY <1>1, <2>1, <2>2, <2>3, <2>4 DEF KeepBulk, CountsFrom, BulkInv, BulkTypeOK
<1>4. CASE UNCHANGED bulkCache
  BY <1>1, <1>4 DEF CountsFrom
<1> QED
  BY <1>3, <1>4 DEF BulkPrepareUncounted, BulkFulfilUncounted, SinglePrepareContinue,
                    SingleFulfilContinue, BulkMissing, bulkVars, bulkState

\* What remains of a fulfil begins one response earlier.
LEMMA BlocksMove ==
    ASSUME BulkInv, Undisturbed, abResponses # <<>>, abResponses' = Tail(abResponses),
           NEW b \in Bulks, NEW p \in Blocks(b, abResponses), p # 1 - Size(b)
    PROVE  (p - 1 \in Blocks(b, abResponses))'
<1>1. /\ p \in (1 - Size(b))..(Len(abResponses) - Size(b))
      /\ \A j \in 1..Size(b) : p + j >= 1 => CommitFor(abResponses[p + j], Members[b][j])
  BY DEF Blocks
<1>2. /\ Len(abResponses) \in Nat \ {0} /\ Len(abResponses') = Len(abResponses) - 1
      /\ \A i \in 1..(Len(abResponses) - 1) : abResponses'[i] = abResponses[i + 1]
  BY FirstAndOthers
<1>3. Size(b) \in Nat
  BY Sizes
<1>4. ASSUME NEW j \in 1..Size(b), p - 1 + j >= 1
      PROVE  CommitFor(abResponses'[p - 1 + j], Members[b][j])
  <2>1. /\ p - 1 + j \in 1..(Len(abResponses) - 1)
        /\ p - 1 + j + 1 = p + j /\ p + j >= 1
    BY <1>1, <1>2, <1>3, <1>4
  <2>2. abResponses'[p - 1 + j] = abResponses[p + j]
    BY <1>2, <2>1
  <2> QED
    BY <1>1, <1>4, <2>1, <2>2
<1>5. p - 1 \in (1 - Size(b))..(Len(abResponses') - Size(b))
  BY <1>1, <1>2, <1>3
<1> QED
  BY <1>4, <1>5 DEF Blocks, Size, CommitFor

\* A response to a commit of a waiting fulfil is counted; the last one makes it answered.
LEMMA ContinueWaits ==
    ASSUME BulkInv, ToldInv, UnfailingInv, RecordedInv, AnsweredInv, EventsStay,
           NEW success \in BOOLEAN, BulkContinue(success),
           NEW b \in Bulks, Waiting(b)
    PROVE  Answered(b)' \/ Waiting(b)'
<1>1. /\ pc = "responses" /\ abResponses # <<>> /\ abResponses' = Tail(abResponses)
      /\ pc' \in Continuous
  BY DEF BulkContinue, BulkPrepareUncounted, BulkPrepareContinue, BulkFulfilUncounted,
         BulkFulfilContinue, SinglePrepareContinue, SingleFulfilContinue, BulkResponse,
         Continuing, control, Continuous
<1>2. PICK p \in Blocks(b, abResponses) : p >= 0 \/ Begun(b, p)
  BY <1>1 DEF Waiting, Asking
<1>3. /\ p \in (1 - Size(b))..(Len(abResponses) - Size(b))
      /\ \A j \in 1..Size(b) : p + j >= 1 => CommitFor(abResponses[p + j], Members[b][j])
      /\ Size(b) \in Nat \ {0} /\ p \in Int
  <2>1. /\ p \in (1 - Size(b))..(Len(abResponses) - Size(b))
        /\ \A j \in 1..Size(b) : p + j >= 1 => CommitFor(abResponses[p + j], Members[b][j])
    BY DEF Blocks
  <2> QED
    BY <2>1, Sizes DEF AnsweredInv
<1> DEFINE q == p - 1
<1>4. p # 1 - Size(b) => (q \in Blocks(b, abResponses))'
  BY <1>1, BlocksMove DEF AnsweredInv
<1>5. CASE p >= 1
  <2>1. q >= 0 /\ p # 1 - Size(b)
    BY <1>3, <1>5
  <2> HIDE DEF q
  <2> QED
    BY <1>1, <1>4, <2>1 DEF Waiting
<1>6. CASE p <= 0
  <2>1. CommitFor(abResponses[1], Members[b][1 - p]) /\ 1 - p \in 1..Size(b)
    <3>1. 1 - p \in 1..Size(b) /\ p + (1 - p) = 1
      BY <1>3, <1>6
    <3> QED
      BY <1>3, <3>1
  <2>2. /\ Head(abResponses).type = "commit" /\ Responding \in MembersOf(b)
        /\ Responding \in Transfers /\ RoutedToBulk(Responding)
    <3>1. /\ Head(abResponses) = abResponses[1] /\ Responding = abResponses[1].id
          /\ Responding \in Transfers /\ 1 \in DOMAIN abResponses
      BY <1>1, FirstAndOthers
    <3> QED
      BY <1>1, <2>1, <3>1, Sizes DEF CommitFor, AnsweredInv, AllRouted, Continuous
  <2>3. BulkOf(Responding) = b
    BY <2>2, RoutedBulk, BulkConstantsAssumption
  <2>4. BulkFulfilContinue(success)
    BY <2>2, CommitsCounted
    DEF BulkContinue, BulkPrepareUncounted, BulkPrepareContinue, SinglePrepareContinue,
        SingleFulfilContinue, BulkResponse, Continuing
  <2> DEFINE n == Len(FoundBulk(b).fulfilled)
  <2>5. /\ n \in Nat /\ Exists(bulkCache'[b]) /\ Len(bulkCache'[b].fulfilled) = n + 1
        /\ \/ Happened("BulkTransferFulfiledEvt", b)'
           \/ n + 1 # Size(b) /\ pc' = "responses"
    BY <2>3, <2>4, FulfilCounts
  <2>6. p + n >= 0
    <3>1. Begun(b, p) => p + n >= 0
      BY DEF Begun, FoundBulk, BulkCached
    <3> QED
      BY <1>2, <1>3, <2>5, <3>1
  <2>7. Answered(b) \/ n < Size(b)
    BY DEF AnsweredInv, CountsShort, FoundBulk
  <2> HIDE DEF n
  <2>8. CASE Answered(b)
    BY <2>8, AnswersStay
  <2>9. CASE Happened("BulkTransferFulfiledEvt", b)'
    BY <2>9 DEF Answered
  <2>10. CASE n < Size(b) /\ n + 1 # Size(b) /\ pc' = "responses"
    <3>1. p # 1 - Size(b) /\ q + (n + 1) >= 0
      BY <1>3, <2>5, <2>6, <2>10
    <3> HIDE DEF q
    <3>2. Begun(b, q)'
      BY <2>5, <2>10, <3>1 DEF Begun
    <3> QED
      BY <1>1, <1>4, <3>1, <3>2 DEF Waiting
  <2> QED
    BY <2>5, <2>7, <2>8, <2>9, <2>10
<1> QED
  BY <1>3, <1>5, <1>6

LEMMA ContinueAnswered ==
    ASSUME BulkInv, ToldInv, UnfailingInv, RecordedInv, AnsweredInv, EventsStay,
           published \subseteq published', NEW success \in BOOLEAN, BulkContinue(success)
    PROVE  AnsweredInv'
<1>1. /\ pc = "responses" /\ abResponses # <<>> /\ abResponses' = Tail(abResponses)
      /\ pc' \in Continuous
      /\ UNCHANGED <<topic, offset, cursor, batchCommands>>
  BY DEF BulkContinue, BulkPrepareUncounted, BulkPrepareContinue, BulkFulfilUncounted,
         BulkFulfilContinue, SinglePrepareContinue, SingleFulfilContinue, BulkResponse,
         Continuing, control, input, Continuous
<1>2. FulfilsWaiting'
  BY <1>1, ContinueWaits, WaitingKept DEF Fulfilling
<1>3. CountsShort'
  <2>1. CASE BulkFulfilContinue(success)
    <3>1. PICK b \in Bulks : BulkOf(Responding) = b
      <4>1. Responding \in Transfers /\ RoutedToBulk(Responding)
        BY <1>1, <2>1, FirstAndOthers DEF BulkFulfilContinue, BulkResponse
      <4> QED
        BY <4>1, RoutedBulk
    <3>2. /\ UNCHANGED bulks
          /\ Len(FoundBulk(b).fulfilled) \in Nat
          /\ Len(bulkCache'[b].fulfilled) = Len(FoundBulk(b).fulfilled) + 1
          /\ \A c \in Bulks \ {b} : bulkCache'[c] = bulkCache[c]
          /\ Len(FoundBulk(b).fulfilled) + 1 = Size(b) => Happened("BulkTransferFulfiledEvt", b)'
      <4>1. UNCHANGED bulks
        BY <2>1 DEF BulkFulfilContinue, BulkResponse
      <4> QED
        BY <2>1, <3>1, <4>1, FulfilCounts
    <3>3. ASSUME NEW c \in Bulks, ~Answered(c)'
          PROVE  Len(bulks'[c].fulfilled) < Size(c) /\ Len(bulkCache'[c].fulfilled) < Size(c)
      <4>1. Len(bulks[c].fulfilled) < Size(c) /\ Len(bulkCache[c].fulfilled) < Size(c)
        BY <3>3, AnswersStay DEF AnsweredInv, CountsShort
      <4>2. c = b => Len(FoundBulk(b).fulfilled) < Size(b) /\ Len(FoundBulk(b).fulfilled) + 1 # Size(b)
        BY <3>2, <3>3, <4>1 DEF Answered, FoundBulk
      <4>3. Size(c) \in Nat
        BY Sizes DEF AnsweredInv
      <4> QED
        BY <3>2, <4>1, <4>2, <4>3
    <3> QED
      BY <3>3 DEF CountsShort, Size
  <2> QED
    BY <2>1, OthersCountNothing, CountsKept DEF BulkContinue
<1>4. AllRouted'
  <2>1. ASSUME NEW i \in DOMAIN abResponses'
        PROVE  RoutedToBulk(abResponses'[i].id)
    <3> DEFINE m == i + 1
    <3>1. m \in DOMAIN abResponses /\ abResponses'[i] = abResponses[m]
      BY <1>1, FirstAndOthers
    <3> HIDE DEF m
    <3> QED
      BY <1>1, <3>1 DEF AnsweredInv, AllRouted, Continuous
  <2> QED
    BY <1>1, <2>1 DEF AllRouted, Keeping, RoutedToBulk, Asking, Continuous
<1>5. LoopAsks'
  BY <1>1 DEF LoopAsks, Fulfilling, Continuous
<1> QED
  BY <1>1, <1>2, <1>3, <1>4, <1>5, AnsweredFrame

\* The end of a loop, an update of a bulk transfer, an insertion beside.
LEMMA RestAnswered ==
    ASSUME BulkInv, ToldInv, UnfailingInv, AnsweredInv, EventsStay, published \subseteq published',
           EndOfMembers \/ BulkRejectDone \/ BulkCompleted \/ Adding
    PROVE  AnsweredInv'
<1>1. UNCHANGED <<topic, offset, cursor, batchCommands, abRequests, abResponses>>
  BY DEF EndOfMembers, BulkRejectDone, BulkCompleted, Adding, AddChecked, AddInserted, vars,
         control, input, memory, queues
<1>2. current \in Bulks /\ bulks \in [Bulks -> BulkDoc] /\ bulkCache \in [Bulks -> BulkDoc]
  BY DEF BulkInv, BulkTypeOK
<1>3. CASE EndOfMembers
  <2>1. /\ UNCHANGED <<bulks, bulkCache, current>> /\ rest = <<>>
        /\ pc = "members" /\ pc' = "commands"
    BY <1>3 DEF EndOfMembers, bulkVars, bulkState
  <2>2. \A b \in Bulks : Waiting(b) => Waiting(b)'
    BY <1>1, <2>1 DEF Waiting, Blocks, Asking, Continuous
  <2>3. Fulfilling => Answered(current) \/ Waiting(current)'
    <3> DEFINE n == Size(current)
               p == Len(abRequests) - n
    <3>1. n \in Nat \ {0} /\ Len(abRequests) \in Nat
      BY <1>2, Sequences, Sizes DEF AnsweredInv
    <3>2. Len(<<>>) = 0
      OBVIOUS
    <3>3. Done = n
      BY <2>1, <3>1, <3>2 DEF Done
    <3>4. ASSUME Fulfilling, ~Answered(current)
          PROVE  /\ n <= Len(abRequests)
                 /\ \A j \in 1..n : CommitFor(abRequests[p + j], Members[current][j])
      BY <3>3, <3>4 DEF AnsweredInv, LoopAsks
    <3>5. ASSUME Fulfilling, ~Answered(current)
          PROVE  p >= 0 /\ p \in Blocks(current, abRequests)
      <4>1. p >= 0 /\ p \in (1 - n)..(Len(abRequests) - n)
        BY <3>1, <3>4, <3>5
      <4>2. \A j \in 1..n : CommitFor(abRequests[p + j], Members[current][j])
        BY <3>4, <3>5
      <4> HIDE DEF p
      <4> QED
        BY <4>1, <4>2 DEF Blocks
    <3> HIDE DEF n, p
    <3> QED
      BY <1>1, <2>1, <3>5 DEF Waiting, Blocks, Asking, Continuous, Size, CommitFor
  <2>4. PICK c \in Bulks : c = current
    BY <1>2
  <2>5. Fulfilling => Answered(c)' \/ Waiting(c)'
    BY <2>1, <2>3, <2>4, AnswersStay DEF Waiting, Blocks, Size, Begun
  <2>6. FulfilsWaiting'
    BY <1>1, <2>2, <2>4, <2>5, WaitingKept
  <2>7. LoopAsks' /\ AllRouted'
    BY <1>1, <2>1 DEF LoopAsks, Fulfilling, AnsweredInv, AllRouted, Keeping, RoutedToBulk, Asking,
                      Continuous
  <2> QED
    BY <1>1, <2>1, <2>6, <2>7, CountsKept, AnsweredFrame DEF CountsFrom
<1>4. CASE BulkRejectDone
  <2> DEFINE d == [bulkCache[current] EXCEPT !.status = "REJECTED"]
  <2>1. /\ BulkUpdated(current, d) /\ KeepBulk(current, d)
        /\ pc = "members" /\ pc' = "commands" /\ topic[cursor].name = "RejectBulkTransferCmd"
    BY <1>4, UpdatesSucceed DEF BulkRejectDone
  <2>2. d.fulfilled = bulkCache[current].fulfilled
    BY <1>2 DEF BulkDoc
  <2> HIDE DEF d
  <2>3. CountsFrom
    BY <1>2, <2>1, <2>2 DEF CountsFrom, BulkUpdated, KeepBulk
  <2>4. \A b \in Bulks : Waiting(b) => Waiting(b)'
    BY <1>1, <2>1 DEF Waiting, Blocks, Asking, Continuous
  <2>5. FulfilsWaiting'
    BY <1>1, <2>1, <2>4, WaitingKept DEF Fulfilling
  <2>6. LoopAsks' /\ AllRouted'
    BY <1>1, <2>1 DEF LoopAsks, Fulfilling, AnsweredInv, AllRouted, Keeping, RoutedToBulk, Asking,
                      Continuous
  <2> QED
    BY <1>1, <2>3, <2>5, <2>6, CountsKept, AnsweredFrame
<1>5. CASE BulkCompleted
  <2>1. /\ BulkUpdated(current, bulkCache[current]) /\ bulkCache' = NoBulkCache
        /\ pc = "completing" /\ pc' = "responses"
    BY <1>5, UpdatesSucceed DEF BulkCompleted
  <2>2. CountsFrom
    BY <1>2, <2>1 DEF CountsFrom, BulkUpdated, NoBulkCache, NoBulk
  <2>3. \A b \in Bulks : Waiting(b) => Waiting(b)'
    BY <1>1, <2>1 DEF Waiting, Blocks, Begun, Asking, Continuous
  <2>4. FulfilsWaiting'
    BY <1>1, <2>1, <2>3, WaitingKept DEF Fulfilling
  <2>5. LoopAsks' /\ AllRouted'
    BY <1>1, <2>1 DEF LoopAsks, Fulfilling, AnsweredInv, AllRouted, Keeping, RoutedToBulk, Asking,
                      Continuous
  <2> QED
    BY <1>1, <2>2, <2>4, <2>5, CountsKept, AnsweredFrame
<1>6. CASE Adding
  <2>1. /\ UNCHANGED <<pc, bulkCache, rest, current>>
        /\ \/ UNCHANGED bulks
           \/ \E b \in Bulks : bulks' = [bulks EXCEPT ![b] = IF Exists(@) THEN @ ELSE NewBulk]
    BY <1>6 DEF Adding, AddChecked, AddInserted, vars, control
  <2>2. CountsFrom
    BY <1>2, <2>1 DEF CountsFrom, NewBulk, NoBulk
  <2>3. \A b \in Bulks : Waiting(b) => Waiting(b)'
    BY <1>1, <2>1 DEF Waiting, Blocks, Begun
  <2>4. FulfilsWaiting'
    BY <1>1, <2>1, <2>3, WaitingKept DEF Fulfilling
  <2>5. LoopAsks' /\ AllRouted'
    <3>1. CASE Fulfilling /\ Answered(current)
      <4>1. PICK c \in Bulks : c = current
        BY <1>2
      <4>2. Answered(c)'
        BY <3>1, <4>1, AnswersStay
      <4>3. Answered(current)'
        BY <2>1, <4>1, <4>2 DEF Answered
      <4>4. /\ Done' = Done /\ Done >= 0
            /\ \A j \in DOMAIN rest : rest[j] = Members[current][Done + j]
        BY <2>1, <3>1 DEF AnsweredInv, LoopAsks, Done, Size
      <4>5. LoopAsks'
        BY <2>1, <4>3, <4>4 DEF LoopAsks
      <4> QED
        BY <1>1, <2>1, <4>5 DEF AnsweredInv, AllRouted, Keeping, RoutedToBulk
    <3>2. CASE ~(Fulfilling /\ Answered(current))
      BY <1>1, <2>1, <3>2
      DEF AnsweredInv, LoopAsks, Fulfilling, Done, Size, CommitFor, AllRouted, Keeping, RoutedToBulk
    <3> QED
      BY <3>1, <3>2
  <2> QED
    BY <1>1, <2>2, <2>4, <2>5, CountsKept, AnsweredFrame
<1> QED
  BY <1>3, <1>4, <1>5, <1>6

\* A command arrives, which is none to query an individual transfer.
LEMMA ProducedAnswered ==
    ASSUME BulkInv, ToldInv, UnfailingInv, AnsweredInv, EventsStay, published \subseteq published',
           \/ \E name \in Inputs, t \in Transfers : Produce(name, t) /\ UNCHANGED bulkVars
           \/ \E name \in BulkInputs, b \in Bulks : BulkProduce(name, b)
    PROVE  AnsweredInv'
<1>1. /\ UNCHANGED <<offset, cursor, pc, batchCommands, abRequests, abResponses, outputEvents,
                     published, bulks, bulkCache, rest, current>>
      /\ pc = "idle"
      /\ \E c \in [name : CommandNames \cup BulkCommandNames, id : Transfers \cup Bulks] :
            topic' = Append(topic, c) /\ c.name # "QueryTransferCmd"
  <2>1. ASSUME NEW name \in Inputs, NEW t \in Transfers, Produce(name, t)
        PROVE  [name |-> name, id |-> t] \in
                  [name : CommandNames \cup BulkCommandNames, id : Transfers \cup Bulks]
               /\ name # "QueryTransferCmd"
    BY <2>1, ConstantsAssumption DEF AnsweredInv, Undisturbed
  <2>2. ASSUME NEW name \in BulkInputs, NEW b \in Bulks, BulkProduce(name, b)
        PROVE  [name |-> name, id |-> b] \in
                  [name : CommandNames \cup BulkCommandNames, id : Transfers \cup Bulks]
               /\ name # "QueryTransferCmd"
    BY <2>2, BulkConstantsAssumption DEF BulkCommandNames
  <2>3. CASE \E name \in Inputs, t \in Transfers : Produce(name, t) /\ UNCHANGED bulkVars
    BY <2>1, <2>3 DEF Produce, control, memory, queues, world, bulkVars, bulkState
  <2>4. CASE \E name \in BulkInputs, b \in Bulks : BulkProduce(name, b)
    BY <2>2, <2>4 DEF BulkProduce, control, memory, queues, world, bulkVars, bulkState
  <2> QED
    BY <2>3, <2>4
<1>2. PICK c : topic' = Append(topic, c) /\ c.name # "QueryTransferCmd"
               /\ c \in [name : CommandNames \cup BulkCommandNames, id : Transfers \cup Bulks]
  BY <1>1
<1>3. /\ DOMAIN topic' = 1..(Len(topic) + 1) /\ topic'[Len(topic) + 1] = c
      /\ \A i \in 1..Len(topic) : topic'[i] = topic[i]
      /\ DOMAIN topic = 1..Len(topic)
  <2>1. topic \in Seq([name : CommandNames \cup BulkCommandNames, id : Transfers \cup Bulks])
    BY DEF ToldInv, Positions
  <2> QED
    BY <1>2, <2>1
<1>4. /\ Len(topic) \in Nat /\ offset \in 0..Len(topic) /\ cursor \in 0..Len(topic)
      /\ 1..offset \subseteq 1..Len(topic) /\ 1..cursor \subseteq 1..Len(topic)
  <2>1. /\ Len(topic) \in Nat /\ offset \in 0..Len(topic)
        /\ batchEnd \in 0..Len(topic) /\ cursor \in 0..batchEnd
    BY Sequences
  <2> QED
    BY <2>1
<1>5. \A i \in DOMAIN topic' : topic'[i].name # "QueryTransferCmd"
  <2>1. \A i \in 1..Len(topic) : topic'[i].name # "QueryTransferCmd"
    BY <1>3 DEF AnsweredInv
  <2>2. \A i \in 1..(Len(topic) + 1) : i \in 1..Len(topic) \/ i = Len(topic) + 1
    BY <1>4
  <2> QED
    BY <1>2, <1>3, <2>1, <2>2
<1>6. FulfilsWaiting'
  <2>1. \A b \in Bulks : \A i \in 1..cursor : topic[i] = FulfilOf(b) => Answered(b)
    BY <1>1 DEF AnsweredInv, FulfilsWaiting, Waiting, Asking, Continuous
  <2> QED
    BY <1>1, <1>3, <1>4, <2>1, AnswersStay DEF FulfilsWaiting, FulfilOf
<1>7. BulkFulfilAnswered'
  <2>1. UNCHANGED published
    BY <1>1
  <2> QED
    BY <1>1, <1>3, <1>4 DEF AnsweredInv, BulkFulfilAnswered, BulkPublished, MemberFailed, Published
<1>8. CountsShort'
  BY <1>1, CountsKept DEF CountsFrom
<1>9. LoopAsks' /\ AllRouted'
  BY <1>1 DEF LoopAsks, Fulfilling, AllRouted, Keeping, Asking, Continuous
<1> QED
  BY <1>5, <1>6, <1>7, <1>8, <1>9 DEF AnsweredInv, Undisturbed

LEMMA AnsweredInit == Undisturbed /\ BulkInit => AnsweredInv
<1> SUFFICES ASSUME Undisturbed, BulkInit
             PROVE  AnsweredInv
  OBVIOUS
<1>1. /\ topic = <<>> /\ offset = 0 /\ cursor = 0 /\ pc = "idle"
      /\ bulks = [b \in Bulks |-> NoBulk] /\ bulkCache = [b \in Bulks |-> NoBulk]
  BY DEF BulkInit, Init, NoBulkCache
<1>2. CountsShort
  <2>1. Len(<<>>) = 0 /\ \A b \in Bulks : Size(b) \in Nat \ {0}
    BY Sizes
  <2> QED
    BY <1>1, <2>1 DEF CountsShort, NoBulk
<1>3. FulfilsWaiting /\ BulkFulfilAnswered /\ \A i \in DOMAIN topic : topic[i].name # "QueryTransferCmd"
  BY <1>1 DEF FulfilsWaiting, BulkFulfilAnswered
<1>4. LoopAsks /\ AllRouted
  BY <1>1 DEF LoopAsks, Fulfilling, AllRouted, Keeping, Asking, Continuous
<1> QED
  BY <1>2, <1>3, <1>4 DEF AnsweredInv

LEMMA AnsweredNext ==
    BulkInv /\ ToldInv /\ UnfailingInv /\ RecordedInv /\ AllSent /\ AnsweredInv
    /\ [BulkNext]_allVars
        => AnsweredInv'
<1> SUFFICES ASSUME BulkInv, ToldInv, UnfailingInv, RecordedInv, AllSent, AnsweredInv,
                    [BulkNext]_allVars
             PROVE  AnsweredInv'
  OBVIOUS
<1>1. EventsStay /\ published \subseteq published'
  BY EventsKept
<1>2. CASE UNCHANGED allVars
  <2>1. UNCHANGED <<topic, offset, cursor, pc, batchCommands, abRequests, abResponses,
                    outputEvents, published, bulks, bulkCache, rest, current>>
    BY <1>2 DEF allVars, vars, bulkVars, bulkState, control, input, memory, queues, world
  <2>2. FulfilsWaiting' /\ LoopAsks'
    BY <2>1
    DEF AnsweredInv, FulfilsWaiting, FulfilOf, Waiting, Blocks, Begun, LoopAsks, Fulfilling, Done,
        Size, CommitFor, Answered, Happened, Failed
  <2>3. CountsShort' /\ AllRouted'
    BY <1>1, <2>1, CountsKept DEF CountsFrom, AnsweredInv, AllRouted, Keeping, RoutedToBulk
  <2> QED
    BY <1>1, <2>1, <2>2, <2>3, AnsweredFrame
<1> QED
  BY <1>1, <1>2, NoRestart, SharedAnswered, BulkCommandAnswered, MemberCommandAnswered,
     ContinueAnswered, RestAnswered, ProducedAnswered
  DEF BulkNext, BulkProcess, BulkEnvironment

\* A fulfil taken from the topic is answered, or what it asked A&B is still to be counted.
LEMMA AnsweredInvariant == NothingFails /\ Undisturbed /\ BulkSpec => []AnsweredInv
BY AnsweredInit, AnsweredNext, RecordedInvariant, UnfailingInvariant, ToldInvariant,
   SentInvariant, BulkInductiveInvariant, PTL DEF BulkSpec

\* When nothing fails, no individual transfer is queried and no bulk transfer is empty, a
\* fulfil of a bulk transfer that was acknowledged has been answered: the bulk transfer was
\* announced as fulfilled, or an event said what went wrong.
THEOREM BulkFulfilIsAnswered ==
    NothingFails /\ Undisturbed /\ BulkSpec => []BulkFulfilAnswered
<1>1. AnsweredInv => BulkFulfilAnswered
  BY DEF AnsweredInv
<1> QED
  BY <1>1, AnsweredInvariant, PTL
=============================================================================
