----------------------------- MODULE EventHandler -----------------------------
(***************************************************************************)
(* The event handler (event-handler-svc/src/handler.ts) inside its         *)
(* service: it reads the events of three topics in batches, makes a        *)
(* command of each event it knows, and sends the commands of the batch to  *)
(* the DomainRequests topic, which it reads itself and which the command   *)
(* handler reads (TransfersAggregate).                                     *)
(*                                                                         *)
(* Limits of the model.                                                    *)
(*  - One partition of each topic, at most MaxEvents events.               *)
(*  - The Kafka client is not in the repository.  A message is read again  *)
(*    after a restart unless its offset was committed; destroy(true) may   *)
(*    commit everything that was read, before the consumer is gone, and    *)
(*    nothing is committed after that; a send that fails, or whose         *)
(*    producer is destroyed, has appended a prefix of the messages;        *)
(*    stopping or destroying the consumer does not wait for the batch.     *)
(***************************************************************************)
EXTENDS ServiceLifecycle, FiniteSets

CONSTANTS
    Ids,            \* ids of transfers and bulk transfers
    Inputs,         \* the kinds of event this instance receives
    BatchSize,      \* CONSUMER_BATCH_SIZE
    MaxEvents       \* bound on the number of events

\* The command of each event the handler knows.
CommandOf ==
    [TransferPrepareRequestedEvt     |-> "PrepareTransferCmd",
     TransferFulfilRequestedEvt      |-> "CommitTransferFulfilCmd",
     TransferRejectRequestedEvt      |-> "RejectTransferCmd",
     TransferQueryReceivedEvt        |-> "QueryTransferCmd",
     TransferTimeoutEvt              |-> "TimeoutTransferCmd",
     BulkTransferPrepareRequestedEvt |-> "PrepareBulkTransferCmd",
     BulkTransferFulfilRequestedEvt  |-> "CommitBulkTransferFulfilCmd",
     BulkTransferRejectRequestedEvt  |-> "RejectBulkTransferCmd",
     BulkTransferQueryReceivedEvt    |-> "QueryBulkTransferCmd"]

\* The events of the aggregate itself, which are of no interest here.
OtherEvents == {"TransferPreparedEvt"}

EventNames == DOMAIN CommandOf \cup OtherEvents

Topics == {"DomainRequests", "DomainEvents", "TimeoutEvents"}

TopicOf(name) ==
    CASE name = "TransferTimeoutEvt" -> "TimeoutEvents"
      [] name \in OtherEvents        -> "DomainEvents"
      [] OTHER                       -> "DomainRequests"

ASSUME EventsAssumption ==
    /\ Inputs \subseteq EventNames
    /\ BatchSize \in Nat \ {0}
    /\ MaxEvents \in Nat

VARIABLES
    log,        \* the messages of each topic
    committed,  \* committed consumer offset of each topic
    position,   \* messages of each topic handed to the handler
    batch,      \* receivedMessages
    pc,         \* the phase of _batchMsgHandler
    cursor,     \* messages of the batch looked at
    commands    \* outputCommands

batchVars == <<position, batch, pc, cursor, commands>>
eventVars == <<log, committed, batchVars>>
allVars   == <<serviceVars, eventVars>>

\* number identifies an event; a command has the number of the event it was made of.
\* opaque: the message has an inboundProtocolOpaqueState.
Message == [type : {"DOMAIN_EVENT", "COMMAND"},
            name : EventNames \cup {CommandOf[e] : e \in DOMAIN CommandOf},
            id : Ids, opaque : BOOLEAN, number : 1..MaxEvents]

Messages(topic) == {log[topic][i] : i \in DOMAIN log[topic]}
Events == {m \in UNION {Messages(topic) : topic \in Topics} : m.type = "DOMAIN_EVENT"}

Reads == service = "eventHandler" /\ clients["reading"] = "ready"

\* The environment: the interop API, the scheduler and the command handler publish events.
\* (One that is published while nobody reads is the same as one published later, and one
\* published during a batch as one after it.)  The reminder of an individual transfer of
\* a bulk transfer has no opaque state.
Publish(name, id, opaque) ==
    /\ Reads
    /\ pc = "idle" /\ batch = <<>>
    /\ Cardinality(Events) < MaxEvents
    /\ ~opaque => name = "TransferTimeoutEvt"
    /\ log' = [log EXCEPT ![TopicOf(name)] =
                  Append(@, [type |-> "DOMAIN_EVENT", name |-> name, id |-> id,
                             opaque |-> opaque, number |-> Cardinality(Events) + 1])]
    /\ UNCHANGED <<serviceVars, committed, batchVars>>

-----------------------------------------------------------------------------
(* The consumer collects a batch and hands it to the handler.               *)

Receive(topic) ==
    /\ Reads
    /\ pc = "idle"
    /\ Len(batch) < BatchSize
    /\ position[topic] < Len(log[topic])
    /\ position' = [position EXCEPT ![topic] = @ + 1]
    /\ batch' = Append(batch, log[topic][position[topic] + 1])
    /\ UNCHANGED <<serviceVars, log, committed, pc, cursor, commands>>

Deliver ==
    /\ Reads
    /\ pc = "idle"
    /\ batch # <<>>
    /\ pc' = "mapping"
    /\ cursor' = 0
    /\ commands' = <<>>
    /\ UNCHANGED <<serviceVars, log, committed, position, batch>>

-----------------------------------------------------------------------------
(* _batchMsgHandler.                                                        *)

\* Mutant of IsEvent: the type of the message is not looked at.
IsMessage(m) == TRUE

IsEvent(m) == m.type = "DOMAIN_EVENT"

Handled(m) == IsEvent(m) /\ m.name \notin OtherEvents

\* _prepareEventToTimeoutCommand reads a property of the opaque state.
Mappable(m) == m.name = "TransferTimeoutEvt" => m.opaque

ToCommand(m) ==
    [m EXCEPT !.type = "COMMAND",
              !.name = IF m.name \in DOMAIN CommandOf THEN CommandOf[m.name] ELSE m.name]

\* Mutants of Collected: the command is kept twice; the last command is sent first.
CollectedTwice(m) == commands \o <<ToCommand(m), ToCommand(m)>>
CollectedInFront(m) == <<ToCommand(m)>> \o commands

Collected(m) == Append(commands, ToCommand(m))

MapMessage ==
    LET m == batch[cursor + 1] IN
    /\ pc = "mapping"
    /\ cursor < Len(batch)
    /\ Handled(m) => Mappable(m)
    /\ commands' = IF Handled(m) THEN Collected(m) ELSE commands
    /\ cursor' = cursor + 1
    /\ UNCHANGED <<serviceVars, log, committed, position, batch, pc>>

\* Mutant of AfterError: the promise is not resolved after an error.
StillPending == pc

\* The finally block resolves the promise, whatever happened; the batch is counted as
\* failed.
AfterError == "failed"

\* The error of one event is caught outside the loop: no command of the batch is sent.
MapThrows ==
    LET m == batch[cursor + 1] IN
    /\ pc = "mapping"
    /\ cursor < Len(batch)
    /\ Handled(m)
    /\ ~Mappable(m)
    /\ pc' = AfterError
    /\ commands' = <<>>
    /\ UNCHANGED <<serviceVars, log, committed, position, batch, cursor>>

Appended(n) == [log EXCEPT !["DomainRequests"] = @ \o SubSeq(commands, 1, n)]

Mapped == pc = "mapping" /\ cursor = Len(batch)

SendCommands ==
    /\ Mapped
    /\ \/ /\ clients["producer"] = "ready"
          /\ log' = Appended(Len(commands))
          /\ pc' = "resolved"
          /\ UNCHANGED faults
       \/ /\ \E n \in 0..Len(commands) : log' = Appended(n)
          /\ IF clients["producer"] = "ready" THEN Mishap ELSE UNCHANGED faults
          /\ pc' = AfterError
    /\ UNCHANGED <<service, clients, startAt, stopAt, signals, committed, position, batch,
                   cursor, commands>>

\* The consumer commits the offsets of a batch whose promise is resolved.
Commit ==
    /\ pc \in {"resolved", "failed"}
    /\ clients["consumer"] = "ready"
    /\ committed' = position
    /\ batch' = <<>>
    /\ pc' = "idle"
    /\ UNCHANGED <<serviceVars, log, position, cursor, commands>>

\* This step destroys the consumer.
ConsumerDestroyed == clients["consumer"] # "closed" /\ clients'["consumer"] = "closed"

\* messageConsumer.destroy(true): the consumer may commit what it has read, although the
\* handler still has the batch.
StopCommits ==
    /\ committed' \in {committed} \cup (IF ConsumerDestroyed THEN {position} ELSE {})
    /\ UNCHANGED <<log, batchVars>>

\* What the process had in memory is gone: it reads on from the committed offsets.
MemoryLost ==
    /\ position' = committed
    /\ batch' = <<>>
    /\ pc' = "idle"
    /\ cursor' = 0
    /\ commands' = <<>>
    /\ UNCHANGED <<log, committed>>

-----------------------------------------------------------------------------
Init ==
    /\ LifecycleInit({"eventHandler", "commandHandler", "api"})
    /\ log = [topic \in Topics |-> <<>>]
    /\ committed = [topic \in Topics |-> 0]
    /\ position = [topic \in Topics |-> 0]
    /\ batch = <<>>
    /\ pc = "idle"
    /\ cursor = 0
    /\ commands = <<>>

\* The steps the process takes by itself, as long as it lives.
Process ==
    \/ StartStep /\ UNCHANGED eventVars
    \/ StopStep /\ StopCommits
    \/ (StartRejected \/ StopDone) /\ MemoryLost
    \/ \E topic \in Topics : Receive(topic)
    \/ Deliver
    \/ MapMessage
    \/ MapThrows
    \/ SendCommands
    \/ Commit

Environment ==
    \/ \E name \in Inputs, id \in Ids, opaque \in BOOLEAN :
          Publish(name, id, opaque)
    \/ Signal /\ UNCHANGED eventVars
    \/ Killed /\ MemoryLost

Next == Process \/ Environment

Spec     == Init /\ [][Next]_allVars
FairSpec == Spec /\ WF_allVars(Process)

-----------------------------------------------------------------------------
(* Properties.                                                              *)

\* Type correctness: the handler reads behind its committed offsets and never beyond the
\* end of a topic, its batch has at most BatchSize messages, and a service's clients are
\* in one of four conditions.
EventHandlerTypeOK ==
    /\ service \in DOMAIN Startup
    /\ clients \in [Clients -> {"none", "created", "ready", "closed"}]
    /\ startAt \in 1..(Len(Startup[service]) + 1)
    /\ stopAt \in 0..(Len(Shutdown[service]) + 1)
    /\ log \in [Topics -> Seq(Message)]
    /\ \A topic \in Topics :
          committed[topic] <= position[topic] /\ position[topic] <= Len(log[topic])
    /\ batch \in Seq(Message) /\ Len(batch) <= BatchSize
    /\ commands \in Seq(Message) /\ Len(commands) <= cursor
    /\ pc \in {"idle", "mapping", "resolved", "failed"}

Requests == log["DomainRequests"]
Sent(m)  == ToCommand(m) \in Messages("DomainRequests")

Acknowledged == UNION {{log[topic][i] : i \in 1..committed[topic]} : topic \in Topics}

Unmappable == \E k \in DOMAIN batch : Handled(batch[k]) /\ ~Mappable(batch[k])

\* An event is acknowledged without its command having been sent only together with the
\* batch it is in: because one event of this batch cannot be mapped, because the send of
\* the batch failed, or because the service was stopped and destroyed the consumer with
\* the batch in hand.  No other crash, restart or order of start and stop loses one.
LostOnlyWithItsBatch ==
    [][\A m \in Acknowledged' \ Acknowledged : Handled(m) =>
          \/ Sent(m)
          \/ /\ \E k \in DOMAIN batch : batch[k] = m
             /\ \/ pc = "failed" /\ (Unmappable \/ faults # 0)
                \/ ConsumerDestroyed]_allVars

FirstCommand(m) ==
    CHOOSE i \in DOMAIN Requests :
        /\ Requests[i] = ToCommand(m)
        /\ \A j \in 1..(i - 1) : Requests[j] # ToCommand(m)

\* Whatever is lost, sent again or read again, the commands about one transfer reach the
\* command handler in the order of the events of a topic they were made of.
CommandsFollowEvents ==
    \A topic \in Topics : \A i, j \in DOMAIN log[topic] :
        LET first == log[topic][i]
            later == log[topic][j]
        IN  /\ i < j
            /\ first.id = later.id
            /\ Handled(first) /\ Sent(first)
            /\ Handled(later) /\ Sent(later)
            => FirstCommand(first) < FirstCommand(later)

\* While the process lives without faults and signals, no event becomes two commands: the
\* handler, which reads what it sends, does not answer itself, and reads nothing twice.
OneCommandEach ==
    faults = 0 /\ signals = 0 =>
        \A i, j \in DOMAIN Requests :
            /\ Requests[i].type = "COMMAND"
            /\ Requests[i] = Requests[j]
            => i = j

\* In the end every message is acknowledged: an event that cannot be mapped does not
\* block the topic, and neither a stop nor the death of the process lasts.
EveryMessageAcknowledged ==
    []<>(service = "eventHandler" =>
            \A topic \in Topics : committed[topic] = Len(log[topic]))
=============================================================================
