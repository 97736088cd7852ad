# A model of the Transfers bounded context

TLA+ modules, TLC runs and TLAPS proofs about `mojaloop/transfers-bc`: the
service that prepares, fulfils, rejects, queries and times out transfers, and
bulk transfers, between the participants of a Mojaloop hub.  Paths below are
relative to `src/packages/`; `aggregate.ts` is `domain-lib/src/aggregate.ts`.

## 1. The system

Requests of participants arrive as domain events; the event handler turns each
into a command on the topic `DomainRequests`; the command handler consumes the
commands in batches and runs each batch through one `TransfersAggregate`:

    events -> EventHandler -> commands (Kafka) -> CommandHandler -> TransfersAggregate
                                                                      |  caches, queues
              Scheduling <- reminders -  A&B <- reservations, commits, cancellations
              MongoDB <- transfers    -  DomainEvents (Kafka) <- outcomes
                 ^
                 '- admin API: listings, page by page

| Component | State | Operations | What makes it hard | Modelled by |
|---|---|---|---|---|
| `TransfersAggregate`, individual transfers (`aggregate.ts` 223-2096) | `_transfersCache`, `_batchCommands`, A&B requests, responses and cancellations, output events | Prepare, Fulfil, Reject, Query, Timeout; the continue methods; flush; send | some handlers act at once, others only after A&B answered; every call may fail; the batch is neither atomic nor idempotent | `TransfersAggregate`; what it promises: `TransferLifecycle` |
| `TransfersAggregate`, bulk transfers (2098-2701), `mongo_bulk_transfers_repo.ts` | `_bulkTransfersCache`, lists of processed ids | prepare, fulfil, reject, query of a bulk | state kept in memory between batches, an insertion that is not awaited, completion by counting | `BulkTransfers` |
| Command handler (`command-handler-svc`) | consumer offset, life of the process | batch delivery, acknowledgement, start and stop | a batch may be acknowledged or redelivered after it was rejected | `TransfersAggregate`, `ServiceLifecycle` |
| Event handler (`event-handler-svc`) | three topics' offsets | events to commands in batches, start and stop | errors are suppressed per batch; it reads the topic it writes | `EventHandler`, `ServiceLifecycle` |
| Transfers repository (`mongo_transfers_repo.ts`) | the collection | add, update, remove, store many, list, keywords | reads before writes, several writers, pages read one by one | `TransfersRepository`; reads by id: `TransfersAggregate`, `BulkTransfers` |
| Adapters (`implementations-lib/src/external_adapters`) | caches | calls to Participants, Settlements, Scheduling, Interop, A&B | most swallow their errors, A&B's does not | what they return to the aggregate |
| API service (`transfers-api-svc`) | none | read-only routes, start and stop | listing while others write | `ServiceLifecycle`, `TransfersRepository` |
| Types, configuration, mocks | | | no behaviour of the running system | not modelled |

What makes it correct: the state of a transfer agrees with what A&B has done for
it; nothing is announced that is not stored; a reservation is released when the
transfer is aborted; a final outcome is disturbed by the payee only; a bulk
transfer is announced when its transfers are done; every event becomes a command
and every command is dealt with; a listing shows what is there.
`PROJECT.json` lists the hazards of this code line by line.

## 2. Modules

| Module | Contents |
|---|---|
| `TransferLifecycle` | abstract specification: how the stored state of a transfer moves, what A&B must have accepted before, when it is announced |
| `TransfersAggregate` | the command handler process: commands, phases of a batch, cache, collection, A&B, reminders, acknowledgement, crashes; `Lifecycle == INSTANCE TransferLifecycle WITH ...` is its refinement mapping |
| `BulkTransfers` | EXTENDS `TransfersAggregate`: bulk commands and individual queries in the same batches |
| `ServiceLifecycle` | start, stop and signals of the three services |
| `EventHandler` | EXTENDS `ServiceLifecycle`: the event handler's batches inside its service |
| `TransfersRepository` | the collection with several writers and a listing client |
| `MC*` | values of the constants for TLC |
| `*Proofs` | theorems (section 6) |

The definitions commented `Mutant of ...` are plausible mistakes in the code;
each property was seen to fail with one of them in the place of the original.

### TransfersAggregate

| Variable | Code |
|---|---|
| `topic`, `offset`, `batchEnd`, `cursor` | the partition, the committed offset, the batch being run (`handler.ts` 64-93), the loop of `aggregate.ts` 236 |
| `pc`, `failed` | where `processCommandBatch` is; `reject(err)` was called |
| `cache`, `batchCommands`, `abRequests`, `abResponses`, `cancelRequests`, `outputEvents` | the private fields of `aggregate.ts` 181-187 |
| `transfers` | the MongoDB collection |
| `reserved`, `posted`, `cancelled` | which reservations and commits A&B accepted, which cancellations reached it |
| `reminders`, `expired`, `published` | Scheduling, the clock, the events sent |

One action is one handler with one outcome: `PrepareAccepted`,
`PrepareDuplicate`, `FulfilInvalid`, `TimeoutReserved`, ... contain all the
handler does before it returns, `_cancelTransfer` and `updateTransfer`
included.  The commands of a batch are separate steps, because the collection
changes between them; so are the A&B call, each response, the cancellations, the
flush, the send and the acknowledgement, because the process may die between
any two of them.  A transfer that is not cached is read from the collection by
`Found`, as `_getTransfer` does; `Mapped` says what `_mapToTransfer` does to
it: it reads the error code from a field nothing writes, and it changes the order of
the fields.

The order of the fields matters for one thing.  `storeTransfers` throws unless
every `replaceOne` was counted as an upsert or a modification.  A replacement by
the same document is not a modification, so a batch that leaves a cached
transfer as it was stored makes the flush throw (`NoopStore`).  The constant
`CountsNoops` switches this off, to check the rest of the code without it:
`finding_ignored_commands` shows what it does to liveness; `aggregate_faults` checks
the safety properties, and the theorems hold, with it.

The participant and account errors (17 branches of the same form) are one outcome
with one event, `ParticipantCheckFailedEvt`, in Prepare, Fulfil, Reject and
Query.  Branches that cannot be taken in production, because the adapter
concerned swallows its errors, are left out: no settlement model
(`settlements_adapter.ts` returns a default), no reminder
(`scheduling_adapter.ts` returns nothing; the lost reminder *is* modelled) and a
validator that throws (`interop_apis_adapter.ts` returns false).  So are the
"null transfer" branches of the continue methods: `ContinueFindsTransfer`
is checked and proved to show that they are never reached.

The environment: any command of `Inputs` may be produced while the process is
idle, for any transfer, known or not; a Timeout only for a transfer with a
reminder that is due (`EarlyReminders`: the scheduler's clock may run ahead).
A&B accepts any subset of a batch of requests, and answers each; or the call
throws after any part was done.  A `bulkWrite` or `send` that fails may have done
any part of its work.  A rejected batch becomes an unhandled rejection and ends
the process (`service.ts` 493-496), at any moment of the flush and the send that
are still running; whether its offset was committed first is `AckOnFailure`: the
handler resolves in `finally`, so both happen.  A crash at any step loses the
memory and redelivers the batch, unless the process was stopped and
`messageConsumer.destroy(true)` (`service.ts` 444) committed the batch in hand on the
way down: then it is cut off and never delivered again (`Crash` chooses).  A stop with a
batch in hand counts as a fault.  Whether the expiration has passed is a flag per
transfer; the instant at which it passes is not a third case.

### TransferLifecycle

The stored state moves along `LifecycleSteps`, which have what the code can do and
no more: nothing is deleted, nothing returns to RECEIVED, a transfer *stored* as
RECEIVED is never reserved (`PrepareDuplicate` ignores it), and the two final states
may replace each other.  The last is what the code does, although `enums.ts` 38
calls COMMITTED final: a Reject, or a second Fulfil that A&B refuses, aborts a
COMMITTED transfer.  A reservation is accepted only for a transfer that is not
stored; prepared and fulfilled transfers are announced after they are stored.
`ImplementsLifecycle` is the refinement, checked by `aggregate_faults` and proved.

### BulkTransfers

A bulk command runs the individual handler for each of its transfers in a loop:
`pc = "members"`, with the transfers still to do in `rest`; then the actions of
`TransfersAggregate` go on (`Shared`).  New are

| Variable | Code |
|---|---|
| `bulks` | the collection of bulk transfers |
| `bulkCache` | `_bulkTransfersCache`, which outlives a batch and is cleared as a whole when one bulk transfer completes |
| `adding` | calls of `addBulkTransfer`, before and after their check: `aggregate.ts` 2124 does not await them, so they run beside everything else, and a rejection is an uncaught exception that ends the process (`AddRejected`) |
| `rest`, `current` | the loop; the bulk transfer a loop or an update is about |

The continue methods are routed by the `bulkTransferId` of the *kept command*
(`RoutedToBulk`), not of the transfer: an individual Query in the same batch
replaces the command, and the response is continued by `SinglePrepareContinue` or
`SingleFulfilContinue`, which touch no bulk transfer.  `transfersNotProcessedIds` is
never filled, so the model does not have it.  A Reject loops over what the
collection lists, in any order (`Listings`).

Limits: a bulk transfer always has the same transfers, which are prepared with it;
the commands made of its transfers carry no protocol type and no opaque state, so
fulfilments are not validated and their reminder cannot be mapped by the event
handler, and no Timeout reaches them.  Of the individual commands only the Query is
mixed with the bulk commands (`BulkConstantsAssumption`).  `PayeeWaits` names the commands that come
only after the bulk transfer was announced as prepared, and `PayerOnce` makes a
prepare come once; both bound the environment, never the code.

### ServiceLifecycle and EventHandler

`start` awaits one client after another (`Startup` has the sequence of each service)
and `stop` destroys them (`Shutdown`); a signal may come at any await, and the two
then run beside each other.  A client destroyed by `stop` makes the `start` that is
still to connect it reject, which ends the process.  `Killed` stands for a client that
cannot be connected, the startup timer, the five seconds of the shutdown, an uncaught
exception or the end of the container; the platform restarts the process.

`EventHandler` has a log and an offset for each of `DomainRequests`, `DomainEvents`
and `TimeoutEvents`, of one partition each.  `Receive` and `Deliver` make up a batch,
`MapMessage` looks at one message, `MapThrows` is the error that the `catch` of the whole
batch suppresses (`handler.ts` 146), `SendCommands` sends to `DomainRequests`, which
the handler reads too, and `Commit` acknowledges.  A batch whose handler went through is
`resolved`, one whose error was suppressed is `failed`; the promise is resolved for both.

`stop` calls `messageConsumer.destroy(true)` (`service.ts` 278).  The Kafka client is not in
the repository, and the argument reads as a request to commit on the way down, so the
step of stop that destroys the consumer may commit all that was read (`StopCommits`), or
nothing, even while the handler still maps the batch.  What is assumed of the client
otherwise: a message is read again after a restart unless its offset was committed; nothing
is committed once the consumer is gone; a send that fails, or whose producer is destroyed,
has appended a prefix of the messages; stopping or destroying the consumer does not
wait for the batch; a destroyed client cannot be connected again.

### TransfersRepository

`addTransfer` and `updateTransfer` check and then write, so both are two steps between
which other writers act; `storeTransfers` writes one document after another;
any call may fail between.  The listing client asks for page after page until one is not
full; documents with equal sort keys come in any order.  `owed` is a history
variable: the transfers that were there when the listing began, that nobody wrote since,
and that were not shown yet.

## 3. Runs

| Run | Bounds | Properties |
|---|---|---|
| `aggregate_faults` | 1 transfer, all 7 kinds of command, 3 commands in batches of 2, 1 fault, both ways a rejected batch can go, early reminders | `TypeOK`, `StateIsBacked`, `NotificationsBacked`, `ContinueFindsTransfer`, `ReservesOnceUntilStored`, `ImplementsLifecycle`, `FinalStatesLeftOnlyByPayee` |
| `aggregate_two` | 2 transfers, Prepare and Fulfil, 3 commands in batches of 2, 1 fault | `StateIsBacked`, `NotificationsBacked` |
| `aggregate_progress` | 1 transfer, Prepare, Fulfil, Reject, Timeout, 3 commands in batches of 3, 1 fault, fairness | `NoSilentLeak`, `AcknowledgedPrepareAnswered`, `EveryCommandAcknowledged` |
| `bulk_faults` | 1 bulk transfer of 1 transfer, all bulk commands, repeated prepares, individual queries, 3 commands in batches of 2, 1 fault | `BulkTypeOK`, `PreparedCountedOnce`, `BulkPreparedBacked`, `BulkFulfilledBacked`, `StateIsBacked` |
| `bulk_no_faults` | bulk transfers of 2 and of 1 transfer, Prepare, Fulfil, Reject, 3 commands in batches of 2, no fault, fairness | `BulkPreparedBacked`, `BulkRejectAccounted`, `BulkFulfilAnswered`, `CommitsRecorded`, `EveryCommandAcknowledged` |
| `event_handler` | each of the 3 services; 1 transfer, 4 kinds of event over the three topics, 2 events, batches of 2, 1 signal, 1 fault, fairness | `EventHandlerTypeOK`, `ServesOnlyWhenReady`, `LostOnlyWithItsBatch`, `CommandsFollowEvents`, `OneCommandEach`, `EveryMessageAcknowledged` |
| `transfers_repository` | 3 transfers, 2 states, 2 writers, page sizes under and over the maximum of 2, 2 calls beyond the initial documents | `RepositoryTypeOK`, `OneDocumentEach`, `ListingOwesNothing`, `PagesPartition`, `OnlyAddsAndStoresCreate` |

Five more runs, `finding_*`, each have one property that a comment or test of the
repository states and the code violates (section 5).

Why the bounds are enough to mean something: a transfer needs two commands to
reach a final state and a third to disturb it; a hazard of one batch needs two
commands in it, and one of redelivery needs one fault, after which the batch is
run again from a different collection.  Commands of different transfers meet only
in the arrays of a batch, which two transfers show.  A bulk transfer of one transfer
has every race with the insertion, the crash and the individual queries; two bulk
transfers, one of which needs two responses, show counting, completion of one while
the other is cached, and its rejection.  The faults of two transfers in one bulk
transfer are not combined.  Two events are enough for one to take the other down
with it and for two topics to be mixed; the order of commands is checked for two
events of one topic.  Three transfers in pages of at most two need a second page.

`CHECK_DEADLOCK FALSE` in all runs, because every environment is bounded: when the topic or the
clock is at its bound and all is done, the system waits for what does not come.

### Fairness

`FairSpec` has `WF(Process)`: the steps of the process itself, and its restart
after it ended.  The event loop runs as long as the process lives, and the container
platform starts it again.  `BulkFairSpec` has `WF(BulkProcess)` and, because the
insertion nobody awaits is a task of its own, `WF(Adding)`: it may be late but is
not forgotten.  No fairness is assumed of producers, the clock, signals, faults or
A&B's decisions.  Calls that never answer are not modelled; the clients have
timeouts, and a timeout is a failed call.

## 4. What the runs show

- However a batch fails, is redelivered or is acknowledged nevertheless, a transfer
  is RESERVED or COMMITTED only if A&B accepted that, and is announced only when
  stored (`StateIsBacked`, `NotificationsBacked`).  This rests on the order flush
  before send and on redelivery finding the transfer stored.
- Nothing but a Fulfil or Reject touches a final state
  (`FinalStatesLeftOnlyByPayee`); no timeout or retried prepare does.
- A batch that a stop acknowledges unfinished disturbs none of this; its commands are not
  answered.
- Without faults no reservation stays behind an aborted transfer in silence, and every
  prepare is answered.  With a fault both fail: a crash between A&B's answer
  and the flush loses the responses, which is why these properties assume none.
- A bulk transfer is announced as prepared only when its transfers are answered and
  stored, however late its insertion is and whoever dies; its prepared transfers are counted
  once, provided the payee waits for the announcement.
- When a bulk transfer is announced as fulfilled, what its stored document counts is
  stored in a final state (`BulkFulfilledBacked`).  Only at that moment: after a crash a
  second fulfil may count a transfer again, and store the count before the flush stores
  the transfer.
- Without faults, and with each bulk transfer prepared once, what A&B committed is stored
  in a final state when the batch is acknowledged, a fulfil is answered, and each
  transfer of a bulk transfer announced as rejected is accounted for (`CommitsRecorded`,
  `BulkFulfilAnswered`, `BulkRejectAccounted`), although the cache of bulk transfers is
  cleared between the responses of a batch.
- The event handler acknowledges an event without having sent its command only together
  with the batch the event is in (`LostOnlyWithItsBatch`), and for three reasons: an event of
  this batch cannot be mapped, the send failed after a fault, or a stop destroyed the
  consumer, with the commit of `destroy(true)`, while the batch was in hand.  After that step
  the stop loses nothing more: the consumer is destroyed before the producer, so a
  batch that could not be sent because the producer is gone is not committed.  In
  the other order it would be; this is the mutant of the property.
- Unique ids and the index keep one document per transfer; a listing misses nothing
  that was left alone, because what changes moves to the front.

## 5. What the documentation says and the code does not do

TLC finds a behaviour that violates the property of each of these runs.

| Run | What happens |
|---|---|
| `finding_one_outcome` | [Fulfil, Timeout] in one batch: aborted and cancelled first, then committed; both outcomes are published (`enums.ts` 38-39) |
| `finding_original_command` | a later command of the batch replaces the command the continue method reads (`aggregate.ts` 315) |
| `finding_expired_received` | the comparison at `aggregate.ts` 524 is inverted: an expired RECEIVED transfer stays RECEIVED |
| `finding_ignored_commands` | a duplicate Prepare, or a Timeout of a COMMITTED transfer, makes the flush throw and kills the process at each redelivery (`aggregate_transfer.test.ts` 3940: it "should not do anything") |
| `finding_bulk_completed` | a second fulfil counts the same transfer again: the bulk transfer is COMPLETED while another of its transfers is RESERVED (`enums.ts` 47) |

Seen while modelling, and part of the model, but contradicting no statement of the repository
that a run could quote fairly:

- `_cancelTransfer` queues the cancellation before the update that may fail, so
  `TransferCancelReservationFailedEvt` may be published although it reaches A&B.
- `addBulkTransfer` rejects for a bulk transfer prepared twice, and nobody handles it:
  the process exits, perhaps between A&B's commits and the flush.
- A bulk transfer one of whose transfers was refused at prepare is never announced.
  PENDING, ACCEPTED and PROCESSING are only ever cached, and forgotten when another
  bulk transfer completes.
- `pageSize` 0 becomes `limit(0)`, which returns everything; `totalPages` is counted
  before the page is read.  A listing with a filter on the state, with equal times, or
  with removals between its pages may miss transfers.
- The API service may come up while it is being stopped, without its repositories.
- `destroy(true)` may acknowledge a batch the event handler is still mapping; the producer is
  destroyed next, so its commands are never sent, without a fault and with every event
  mappable.  The command handler's stop may acknowledge an unfinished batch in the same way.
  Whether this happens depends on the client library.
- One event that cannot be mapped drops the commands of its whole batch.
- One command without payload rejects its whole batch before the cancellations are sent:
  the aborted transfers are stored and their reservations stay, and a Prepare of the batch
  is stored as RECEIVED without A&B being asked, and ignored when it is delivered again.
- A batch killed by a store that changes nothing has stored before it published; delivered
  again in another batch, its commands find all done and say nothing.
- A Fulfil or Reject in the batch of the Prepare of the same bulk transfer stores the counts
  of the Prepare before the flush stores its transfers; redelivery counts them twice.

## 6. Proofs

Each proof module first shows inductive invariants: `Init` implies each, and every
action keeps it, with one lemma or step per action.

| Module | Invariants | Theorems |
|---|---|---|
| `TransfersAggregateProofs` | `IInv` | `InductiveInvariant`, `TypeCorrect` (`TypeOK`), `StatesAreBacked` (`StateIsBacked`) |
| `TransfersAggregatePathProofs` | `PathInv`, `FinalsInv` | `ContinueAlwaysFindsTransfer`, `NeverReservesStored`, `NotificationsAlwaysBacked`, `HandlerImplementsLifecycle` (the refinement), `OnlyPayeeLeavesFinalStates` (an action property) |
| `TransfersAggregateAnswersProofs` | `SmoothInv`, `AnswersInv`, `ReleasesInv` | `PreparesAnswered` (`AcknowledgedPrepareAnswered`), `NoLeakInSilence` (`NoSilentLeak`) |
| `BulkTransfersProofs` | `BulkInv` | `BulkTypeCorrect`, `BulkStatesAreBacked` (`StateIsBacked`, of `BulkSpec`) |
| `BulkTransfersAnnouncedProofs` | `ToldInv`, `UnfailingInv`, `PreparedInv`, `FulfilledInv` | `PreparedCountedOnceHolds`, `BulkPreparedIsBacked`, `BulkFulfilledIsBacked` |
| `BulkTransfersUnfailingProofs` | `RecordedInv`, `AllSent`, `AccountedInv`, `AnsweredInv` | `CommitsAlwaysRecorded` (`CommitsRecorded`), `BulkRejectIsAccounted` (`BulkRejectAccounted`), `BulkFulfilIsAnswered` (`BulkFulfilAnswered`) |
| `EventHandlerProofs` | `EventInv`, `ServeInv`, `Ordered` | `EventHandlerTypeCorrect`, `NothingElseLost` (`LostOnlyWithItsBatch`, an action property), `ServesWhenReady`, `EachEventOneCommand`, `CommandsInOrder` |
| `TransfersRepositoryProofs` | `RepositoryInv` | `RepositoryTypeCorrect`, `AlwaysOneDocument`, `ListingComplete` (`ListingOwesNothing`), `PagesAlwaysPartition`, `UpdatesCreateNothing` |

They hold for every value of the constants under the named assumptions alone:
`ConstantsAssumption`, with `BulkConstantsAssumption` for bulk transfers;
`LifecycleAssumption` and `EventsAssumption`; `RepositoryAssumption`, which
makes `Ids` finite with the clock's bound at least as large.  Some theorems
have hypotheses on the environment, because the properties fail without them
(section 5):

- `NothingRejects`, for the answers to the payer: no command without payload comes, and
  a store that changes nothing is counted.  The run `aggregate_progress` has the same
  values.  Faults are excluded by the properties themselves.
- `PayeeWaitsToBeTold`, for what bulk transfers count and announce: the payee fulfils
  and rejects only what was announced to it as prepared.  For what is counted and
  announced as *prepared*, `NothingFails` will do instead.
- `NothingFails`, for what is owed for bulk transfers: no faults, a store that changes
  nothing is counted, and a bulk transfer is prepared once, as a second prepare may end the
  process (`AddRejected`).  The run `bulk_no_faults` has these values.
- `RejectsWait`, for `BulkRejectIsAccounted`: a bulk transfer is rejected only when it was
  announced as prepared; a Reject that comes earlier lists the transfers it finds.
- `Undisturbed`, for `BulkFulfilIsAnswered`: no individual transfer is queried, and no
  bulk transfer is empty.  A Query in the batch of a fulfil takes the response of its
  transfer, which is then not counted (TLC finds this when `bulk_no_faults` gets the
  input), and a fulfil of an empty bulk transfer asks A&B nothing.

*Aggregate.*  `StateIsBacked` is not inductive: a continue method sets RESERVED because
the next response says so, hence what the responses say must be true
(`ResponsesBacked`).  `HandlerStates` has what all command handlers have in common:
they keep a state they found, create a RECEIVED transfer or abort one.

*Path.*  That a continue method finds its transfer, that a stored transfer is never
reserved and that announcements are stored depend on where the batch is: `PathInv`
adds that in a batch a transfer is reserved before it is committed, and that each
response answers a request of the batch (`RequestsInOrder`, `ResponsesInOrder`), that
a cached state can be stored over the stored one (`CacheFollowsStore`), and that an
outcome waiting to be sent is one of the cache before the flush and of the collection
after it (`OutcomesBacked`).  The refinement follows: only the updates of aborted
transfers and the flush change stored states, each along `LifecycleSteps`, which map to
`Record`; A&B's answer maps to `Account`, the send to `Announce`, the rest stutters.

*Final states.*  A flush writes what is cached, so the property needs to know why a
cached state differs from a final stored one (`ChangesByPayee`: a command of the payee is
in the batch), for each command and each response, and that the cache is empty when a batch
begins (`CacheOfBatch`).

*Answers.*  `SmoothInv`: without faults the process never dies, so each phase follows
the one before with the whole batch.  An ignored prepare is answered by what created its
transfer, hence `AnswersInv` speaks of every transfer that is cached or stored: an event
about it is published, waits in `outputEvents`, or A&B is being asked about it.
`ReleasesInv` says of each aborted transfer with a reservation why it holds on to
nothing: committed, cancelled, queued for cancellation, or an event says it failed.

*Bulk transfers.*  `TypeOK` does not hold here, as the topic and the events name bulk
transfers; `Documents` has the part of it that is needed.  `KeptForMembers` says
that a response is routed to a bulk transfer only if its transfer belongs to one, without
which `BulkOf` would be undefined.

*What bulk transfers count.*  `ToldInv`: a commit, or a command of the payee, is about a
bulk transfer that was announced.  `PreparedInv`: what a cached list counts is in no
pending reservation and has an outcome in the cache or the collection, and a list is
what a stored list counts has one in the collection.  A list without repeats that is as
long as the list of members has all of them (`AllListed`), so a complete list means that
all members were answered, and the flush before the send that they are stored.
`FulfilledInv` says of `fulfilled` that all it counts is final while it is not complete,
and when it is announced; here a list may have repeats.

*What is owed for bulk transfers.*  `UnfailingInv`: a bulk transfer is added at most
once, and only what is stored is cached, so the process goes through its batches
without dying.  `RecordedInv`: what A&B committed is final in the cache, and after the
flush in the collection, or its response is still to come; no reservation comes after a
commit in the arrays of a batch (`AskedInOrder`), so nothing makes a final transfer
RESERVED again, and each commit finds its bulk transfer in the collection.
`AccountedInv` follows the transfers of a Reject from `rest` to an outcome: aborted,
committed, or reported.  `AnsweredInv` is the hardest: a fulfil not yet answered has its
commits in one piece (`Blocks`) in the requests or responses, or has continued their
beginning and counted at least as many (`Begun`).  The count falls back to the stored one
when the completion of another bulk transfer clears the cache, but responses of two fulfils
are never mixed, so the clearing falls before the first or after the last of a
fulfil's; and the count reaches the number of members no later than the last
one's, as it is short of it while nothing is announced (`CountsShort`).

*Event handler.*  Offsets move in two steps only, a commit and the destruction of the
consumer, and both move them to what was read; everything between the committed offset and
what was read is in the batch (`BatchInv`), so what becomes acknowledged is of the batch.
The commands of a `resolved` batch were sent (`ResolvedInv`, from `MappedInv`); a `failed`
one that can still be committed has an event that cannot be mapped, or there was a fault
(`FailedInv`), because a destroyed producer means a destroyed consumer, which cannot
commit (`ReadyInv`).  `ServeInv` follows the clients through start and stop: what is
connected before the service starts to serve, and what is destroyed after it stopped.
`OrderInv(done)` numbers the messages: what is made of a batch is in the order of the
batch, and when the command of an event was sent, that of an earlier one was sent before
or never will be.  Here `done` is, for each topic, what was committed before the batch was
read.  It cannot be `committed` itself, which the forced commit moves over a batch whose
commands may still be sent; `Ordered` says that there is such a `done`, and each
step gives the next one: what is committed, after a commit or a restart, else the same.

*Repository.*  `OwedAhead`: every owed transfer has at least as many documents before it
as were already paged over.  Writes that move documents to the front only increase the number,
and a page takes away all that fall within it; this needs one document each.
`PagesPartition` is about an order chosen for the documents and a fold over the pages.
That an order exists, and that the fold puts the pages together again, are both shown by a
least number for which they would not (`LeastNumber`, `OrdersExist`, `Flattened`), which
does for these definitions what induction would.

Only model-checked:

- liveness, which the proof system does not reach: `EveryCommandAcknowledged`,
  `EveryMessageAcknowledged`.

Every invariant and action property of the passing runs is a theorem, with the hypotheses
above.

## 7. Not modelled

- Several command handlers running whole batches over one collection: the interleavings
  of `TransfersAggregate` with itself are beyond TLC at bounds that mean something;
  their writes are interleaved in `TransfersRepository`.
- Requests and privileges of the API, the lookup by id and the listing of bulk transfers
  (one `find` each); the search keywords other than the state.
- The contents of payloads: amounts, currencies, hashes, ILP packets and opaque state, except
  for whether a fulfilment validates and a reminder can be mapped.
- The HTTP and gRPC calls of the adapters and their caches: what they return is an
  input of the aggregate.
- Audit, metrics and logging; the configuration library, declarations and mocks.
