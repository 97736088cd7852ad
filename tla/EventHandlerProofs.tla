-------------------------- MODULE EventHandlerProofs --------------------------
(***************************************************************************)
(* Proofs about EventHandler: for any events, batch size, number of        *)
(* signals and faults, the types; that a command is lost only together     *)
(* with the batch of its event, for one of three reasons; that a service   *)
(* takes messages only while what it needs is connected; and that the      *)
(* commands are in the order of the events, one of each when nothing       *)
(* fails.                                                                  *)
(*                                                                         *)
(* The argument: what lies between the committed offset and the position   *)
(* of a topic is in the batch (BatchInv), hence what a commit acknowledges *)
(* is of the batch.  The commands of a batch that is resolved were sent    *)
(* (ResolvedInv).  A batch that failed and is acknowledged as such has a   *)
(* reason of its own (FailedInv): the consumer is connected after the      *)
(* producer and destroyed before it (ReadyInv, and ServeInv for all three  *)
(* services).  The order is that of the topic (OrderInv).  There, done is  *)
(* what was committed before the batch was read: the offsets themselves    *)
(* run ahead of it when the consumer is destroyed with the batch in hand.  *)
(* When an event below done has no command, it never gets one, hence the   *)
(* command cannot come too late.                                           *)
(***************************************************************************)
EXTENDS EventHandler, FiniteSetTheorems, WellFoundedInduction, TLAPS

EventTypes ==
    /\ EventHandlerTypeOK
    /\ startAt \in Nat
    /\ stopAt \in Nat
    /\ faults \in Nat
    /\ committed \in [Topics -> Nat]
    /\ position \in [Topics -> Nat]
    /\ cursor \in Nat
    /\ pc = "mapping" => cursor <= Len(batch)
    /\ pc # "idle" => service = "eventHandler" /\ startAt >= 7

\* What the clients of the event handler are while it starts and stops.
ReadyInv ==
    service = "eventHandler" =>
        /\ startAt <= 3 => clients["producer"] = "none" /\ clients["consumer"] = "none"
        /\ startAt > 3 => clients["producer"] # "none" /\ clients["consumer"] # "none"
        /\ startAt > 4 => clients["producer"] \in {"ready", "closed"}
        /\ startAt <= 5 => clients["consumer"] # "ready"
        /\ startAt <= 6 => clients["reading"] # "ready"
        /\ stopAt = 4 => clients["consumer"] = "closed"
        /\ clients["producer"] = "closed" => clients["consumer"] = "closed"

\* The batch is what was read of the topics behind their committed offsets.
BatchInv ==
    /\ \A k \in 1..Len(batch) : \E topic \in Topics : batch[k] \in Messages(topic)
    /\ \A topic \in Topics : \A i \in 1..position[topic] :
          i > committed[topic] => \E k \in 1..Len(batch) : batch[k] = log[topic][i]

MappedInv ==
    pc = "mapping" =>
        \A k \in 1..cursor : Handled(batch[k]) =>
            \E j \in 1..Len(commands) : commands[j] = ToCommand(batch[k])

ResolvedInv ==
    pc = "resolved" => \A k \in 1..Len(batch) : Handled(batch[k]) => Sent(batch[k])

\* A batch that failed had a reason of its own: while the consumer is connected, the producer
\* is not destroyed.
FailedInv ==
    pc = "failed" /\ clients["consumer"] = "ready" => Unmappable \/ faults # 0

SentInv == MappedInv /\ ResolvedInv /\ FailedInv

EventInv == EventTypes /\ ReadyInv /\ BatchInv /\ SentInv

-----------------------------------------------------------------------------
(* The services.                                                            *)

\* How many awaits start and stop have.
LEMMA Awaits ==
    ASSUME service \in DOMAIN Startup
    PROVE  /\ Len(Startup[service]) \in Nat
           /\ Len(Shutdown[service]) \in Nat
           /\ service = "eventHandler" => /\ Len(Startup[service]) = 7
                                          /\ Len(Shutdown[service]) = 7
<1>1. Len(EventHandlerStart) = 7 /\ Len(ApiStart) = 7 /\ Len(CommandHandlerStart) = 12
  BY DEF EventHandlerStart, ApiStart, CommandHandlerStart, CommandHandlerClients, Await
<1>2. Len(EventHandlerStop) = 7 /\ Len(ApiStop) = 5 /\ Len(CommandHandlerStop) = 7
  BY DEF EventHandlerStop, ApiStop, CommandHandlerStop
<1>3. service \in {"eventHandler", "commandHandler", "api"}
  BY DEF Startup
<1>4. /\ Startup["eventHandler"] = EventHandlerStart
      /\ Startup["commandHandler"] = CommandHandlerStart
      /\ Startup["api"] = ApiStart
  BY DEF Startup
<1>5. /\ Shutdown["eventHandler"] = EventHandlerStop
      /\ Shutdown["commandHandler"] = CommandHandlerStop
      /\ Shutdown["api"] = ApiStop
  BY DEF Shutdown
<1> QED
  BY <1>1, <1>2, <1>3, <1>4, <1>5

\* What the awaits of the event handler's start do for the clients it needs.
LEMMA EventHandlerAwaits ==
    /\ \A k \in 1..7 :
          /\ EventHandlerStart[k].client = "producer" <=> k = 4
          /\ EventHandlerStart[k].client = "consumer" <=> k = 5
          /\ EventHandlerStart[k].client = "reading" <=> k = 6
          /\ "producer" \in EventHandlerStart[k].created <=> k = 3
          /\ "consumer" \in EventHandlerStart[k].created <=> k = 3
          /\ "reading" \in EventHandlerStart[k].created <=> k = 3
<1>1. \A k \in 1..7 : k = 1 \/ k = 2 \/ k = 3 \/ k = 4 \/ k = 5 \/ k = 6 \/ k = 7
  OBVIOUS
<1>2. /\ EventHandlerStart[1] = Await("logger", {"config"})
      /\ EventHandlerStart[2] = Await("config", {})
      /\ EventHandlerStart[3] = Await("audit", {"consumer", "producer", "reading"})
      /\ EventHandlerStart[4] = Await("producer", {})
      /\ EventHandlerStart[5] = Await("consumer", {})
      /\ EventHandlerStart[6] = Await("reading", {"express"})
      /\ EventHandlerStart[7] = Await("express", {})
  BY DEF EventHandlerStart
<1>3. \A c, s : Await(c, s).client = c /\ Await(c, s).created = s
  BY DEF Await
<1> QED
  BY <1>1, <1>2, <1>3

\* Steps of the service: what it keeps for the events stays as it is, or what was read is
\* committed.
LEMMA EventsUnchanged ==
    ASSUME EventInv, UNCHANGED <<log, batchVars>>, UNCHANGED <<service, faults>>,
           committed' \in {committed, position},
           clients' \in [Clients -> {"none", "created", "ready", "closed"}],
           startAt' \in 1..(Len(Startup[service]) + 1), startAt' >= startAt,
           stopAt' \in 0..(Len(Shutdown[service]) + 1), ReadyInv',
           pc # "idle" /\ clients'["consumer"] = "ready" => clients["consumer"] = "ready"
    PROVE  EventInv'
<1>1. EventTypes'
  <2>1. /\ UNCHANGED <<log, position, batch, pc, cursor, commands>>
        /\ committed' \in [Topics -> Nat]
    BY DEF EventInv, EventTypes, batchVars
  <2>2. ASSUME NEW topic \in Topics
        PROVE  committed'[topic] <= position[topic] /\ position[topic] <= Len(log[topic])
    BY DEF EventInv, EventTypes, EventHandlerTypeOK
  <2>3. startAt' \in Nat /\ stopAt' \in Nat /\ (startAt >= 7 => startAt' >= 7)
    <3>1. /\ Len(Startup[service]) \in Nat /\ Len(Shutdown[service]) \in Nat
          /\ startAt \in Nat
      BY Awaits DEF EventInv, EventTypes, EventHandlerTypeOK
    <3> QED
      BY <3>1
  <2>4. EventHandlerTypeOK'
    BY <2>1, <2>2 DEF EventInv, EventTypes, EventHandlerTypeOK
  <2> QED
    BY <2>1, <2>3, <2>4 DEF EventInv, EventTypes
<1>2. BatchInv'
  <2>1. \A topic \in Topics : \A i \in 1..position[topic] :
           i > committed'[topic] => \E k \in 1..Len(batch) : batch[k] = log[topic][i]
    <3>1. \A topic \in Topics : position[topic] \in Nat
      BY DEF EventInv, EventTypes
    <3>2. CASE committed' = committed
      BY <3>2 DEF EventInv, BatchInv
    <3>3. CASE committed' = position
      BY <3>1, <3>3
    <3> QED
      BY <3>2, <3>3
  <2> QED
    BY <2>1 DEF EventInv, BatchInv, Messages, batchVars
<1>3. (MappedInv <=> MappedInv') /\ (ResolvedInv <=> ResolvedInv')
  BY DEF MappedInv, ResolvedInv, Sent, Messages, batchVars
<1>4. FailedInv => FailedInv'
  BY DEF FailedInv, Unmappable, batchVars
<1> QED
  BY <1>1, <1>2, <1>3, <1>4 DEF EventInv, SentInv

LEMMA StartStepInv ==
    ASSUME EventInv, StartStep, UNCHANGED eventVars
    PROVE  EventInv'
<1> DEFINE step == Startup[service][startAt]
<1>1. /\ clients \in [Clients -> {"none", "created", "ready", "closed"}]
      /\ service \in DOMAIN Startup
      /\ startAt \in 1..Len(Startup[service])
      /\ startAt \in Nat
  BY Awaits DEF EventInv, EventTypes, EventHandlerTypeOK, StartStep, Starting
<1>2. /\ ~Hopeless(step.client)
      /\ clients' = [c \in Clients |->
                        IF c = step.client THEN "ready"
                        ELSE IF c \in step.created THEN "created" ELSE clients[c]]
      /\ startAt' = startAt + 1
      /\ UNCHANGED <<service, stopAt, signals, faults>>
  BY DEF StartStep
<1>3. clients' \in [Clients -> {"none", "created", "ready", "closed"}]
  BY <1>1, <1>2
<1>4. startAt' \in 1..(Len(Startup[service]) + 1) /\ startAt' >= startAt
  BY <1>1, <1>2, Awaits
<1>5. stopAt' \in 0..(Len(Shutdown[service]) + 1)
  BY <1>2 DEF EventInv, EventTypes, EventHandlerTypeOK
<1>6. ASSUME service = "eventHandler"
      PROVE  /\ startAt \in 1..7
             /\ step = EventHandlerStart[startAt]
             /\ step.client = "producer" <=> startAt = 4
             /\ step.client = "consumer" <=> startAt = 5
             /\ step.client = "reading" <=> startAt = 6
             /\ "producer" \in step.created <=> startAt = 3
             /\ "consumer" \in step.created <=> startAt = 3
             /\ "reading" \in step.created <=> startAt = 3
  <2>1. startAt \in 1..7
    BY <1>1, <1>6, Awaits
  <2>2. Startup["eventHandler"] = EventHandlerStart
    BY DEF Startup
  <2> QED
    BY <1>6, <2>1, <2>2, EventHandlerAwaits
<1>7. /\ clients'["producer"] = IF step.client = "producer" THEN "ready"
                                ELSE IF "producer" \in step.created THEN "created"
                                ELSE clients["producer"]
      /\ clients'["consumer"] = IF step.client = "consumer" THEN "ready"
                                ELSE IF "consumer" \in step.created THEN "created"
                                ELSE clients["consumer"]
      /\ clients'["reading"] = IF step.client = "reading" THEN "ready"
                               ELSE IF "reading" \in step.created THEN "created"
                               ELSE clients["reading"]
  BY <1>2 DEF Clients
<1> HIDE DEF step
<1>8. ReadyInv'
  <2> SUFFICES ASSUME service = "eventHandler"
               PROVE  ReadyInv'
    BY <1>2 DEF ReadyInv
  <2>1. step.client = "consumer" => clients["consumer"] # "closed"
    BY <1>2 DEF Hopeless
  <2>2. step.client = "producer" => clients["producer"] # "closed"
    BY <1>2 DEF Hopeless
  <2>3. startAt = 1 \/ startAt = 2 \/ startAt = 3 \/ startAt = 4 \/ startAt = 5 \/ startAt = 6
        \/ startAt = 7
    BY <1>6
  <2>4. clients["producer"] \in {"none", "created", "ready", "closed"}
    BY <1>1 DEF Clients
  <2> QED
    BY <1>2, <1>6, <1>7, <2>1, <2>2, <2>3, <2>4 DEF EventInv, ReadyInv
<1>9. pc # "idle" /\ clients'["consumer"] = "ready" => clients["consumer"] = "ready"
  BY <1>6, <1>7 DEF EventInv, EventTypes
<1> QED
  BY <1>2, <1>3, <1>4, <1>5, <1>8, <1>9, EventsUnchanged DEF eventVars

LEMMA StopStepInv ==
    ASSUME EventInv, StopStep, StopCommits
    PROVE  EventInv'
<1>1. /\ clients \in [Clients -> {"none", "created", "ready", "closed"}]
      /\ service \in DOMAIN Startup
      /\ startAt \in 1..(Len(Startup[service]) + 1)
      /\ stopAt \in Nat
      /\ Len(Shutdown[service]) \in Nat
  BY Awaits DEF EventInv, EventTypes, EventHandlerTypeOK
<1>2. UNCHANGED <<service, startAt, signals, faults>> /\ stopAt # 0
  BY DEF StopStep, Stopping
<1>3. PICK n \in ToStop :
        LET client  == Shutdown[service][n]
            stopped == IF client = "consumer" THEN {"consumer", "reading"} ELSE {client} IN
        /\ \A m \in ToStop : n <= m
        /\ clients' = [c \in Clients |-> IF c \in stopped /\ clients[c] # "none"
                                         THEN "closed" ELSE clients[c]]
        /\ stopAt' = n + 1
  BY DEF StopStep
<1>4. n \in stopAt..Len(Shutdown[service]) /\ clients[Shutdown[service][n]] # "none"
  BY <1>3 DEF ToStop
<1>5. clients' \in [Clients -> {"none", "created", "ready", "closed"}]
  BY <1>1, <1>3
<1>6. stopAt' \in 0..(Len(Shutdown[service]) + 1)
  BY <1>1, <1>3, <1>4
<1>7. \A c \in {"producer", "consumer", "reading"} :
         \/ clients'[c] = clients[c]
         \/ (clients'[c] = "closed" /\ clients[c] # "none")
  BY <1>3 DEF Clients
<1>8. ReadyInv'
  <2> SUFFICES ASSUME service = "eventHandler"
               PROVE  ReadyInv'
    BY <1>2 DEF ReadyInv
  <2>1. /\ Len(Shutdown[service]) = 7
        /\ Shutdown[service] = EventHandlerStop
    BY <1>1, Awaits DEF Shutdown
  <2>2. /\ EventHandlerStop[1] = "express" /\ EventHandlerStop[2] = "reading"
        /\ EventHandlerStop[3] = "consumer" /\ EventHandlerStop[4] = "producer"
        /\ EventHandlerStop[5] = "config" /\ EventHandlerStop[6] = "audit"
        /\ EventHandlerStop[7] = "logger"
    BY DEF EventHandlerStop
  <2>3. n \in 1..7
    BY <1>1, <1>2, <1>4, <2>1
  <2>4. stopAt' = 4 => clients'["consumer"] = "closed"
    <3> SUFFICES ASSUME n = 3
                 PROVE  clients'["consumer"] = "closed"
      BY <1>3, <2>3
    <3>1. Shutdown[service][n] = "consumer" /\ clients["consumer"] # "none"
      BY <1>4, <2>1, <2>2
    <3>2. clients' = [c \in Clients |-> IF c \in {"consumer", "reading"} /\ clients[c] # "none"
                                       THEN "closed" ELSE clients[c]]
      BY <1>3, <3>1
    <3> QED
      BY <3>1, <3>2 DEF Clients
  <2>5. clients'["producer"] = "closed" => clients'["consumer"] = "closed"
    <3>1. CASE clients["producer"] = "closed"
      BY <1>7, <3>1 DEF EventInv, ReadyInv
    <3>2. CASE n = 4
      <4>1. clients["producer"] # "none"
        BY <1>4, <2>1, <2>2, <3>2
      <4>2. clients["consumer"] # "none"
        BY <1>1, <4>1 DEF EventInv, EventTypes, ReadyInv
      <4>3. 3 \notin ToStop
        BY <1>3, <3>2
      <4>4. stopAt = 4
        BY <1>1, <1>4, <2>1, <2>2, <3>2, <4>2, <4>3 DEF ToStop
      <4> QED
        BY <1>7, <4>4 DEF EventInv, ReadyInv
    <3>3. CASE n # 4 /\ clients["producer"] # "closed"
      <4>1. Shutdown[service][n] # "producer"
        BY <2>1, <2>2, <2>3, <3>3
      <4>2. clients'["producer"] = clients["producer"]
        BY <1>3, <4>1 DEF Clients
      <4> QED
        BY <3>3, <4>2
    <3> QED
      BY <3>1, <3>2, <3>3
  <2>6. clients'["reading"] = "ready" => clients["reading"] = "ready"
    BY <1>7
  <2>7. clients'["consumer"] = "ready" => clients["consumer"] = "ready"
    BY <1>7
  <2>8. \A c \in {"producer", "consumer"} : clients[c] = "none" <=> clients'[c] = "none"
    BY <1>7
  <2>9. clients["producer"] \in {"ready", "closed"} => clients'["producer"] \in {"ready", "closed"}
    BY <1>7
  <2> QED
    BY <1>2, <2>4, <2>5, <2>6, <2>7, <2>8, <2>9 DEF EventInv, ReadyInv
<1>9. startAt' \in 1..(Len(Startup[service]) + 1) /\ startAt' >= startAt
  BY <1>1, <1>2 DEF EventInv, EventTypes
<1>10. pc # "idle" /\ clients'["consumer"] = "ready" => clients["consumer"] = "ready"
  BY <1>7
<1>11. UNCHANGED <<log, batchVars>> /\ committed' \in {committed, position}
  BY DEF StopCommits
<1> QED
  BY <1>2, <1>5, <1>6, <1>8, <1>9, <1>10, <1>11, EventsUnchanged

LEMMA SignalInv ==
    ASSUME EventInv, Signal, UNCHANGED eventVars
    PROVE  EventInv'
<1>1. stopAt' \in 0..(Len(Shutdown[service]) + 1)
  BY Awaits DEF Signal, EventInv, EventTypes, EventHandlerTypeOK
<1>2. ReadyInv'
  BY DEF Signal, EventInv, ReadyInv
<1> QED
  BY <1>1, <1>2, EventsUnchanged DEF Signal, EventInv, EventTypes, EventHandlerTypeOK, eventVars

\* The process ends, and reads on from the committed offsets.
LEMMA EndedInv ==
    ASSUME EventInv, Ended, MemoryLost, faults' \in Nat, faults' >= faults
    PROVE  EventInv'
<1>1. EventTypes'
  <2>1. clients' \in [Clients -> {"none", "created", "ready", "closed"}]
    BY DEF Ended
  <2>2. startAt' \in 1..(Len(Startup[service]) + 1) /\ stopAt' \in 0..(Len(Shutdown[service]) + 1)
    BY Awaits DEF Ended, EventInv, EventTypes, EventHandlerTypeOK
  <2>3. \A topic \in Topics : committed'[topic] <= position'[topic] /\ position'[topic] <= Len(log'[topic])
    <3>1. ASSUME NEW topic \in Topics
          PROVE  committed[topic] <= Len(log[topic]) /\ committed[topic] \in Nat
      <4>1. /\ committed[topic] <= position[topic] /\ position[topic] <= Len(log[topic])
            /\ committed[topic] \in Nat /\ position[topic] \in Nat /\ Len(log[topic]) \in Nat
        BY DEF EventInv, EventTypes, EventHandlerTypeOK
      <4> QED
        BY <4>1
    <3> QED
      BY <3>1 DEF MemoryLost
  <2>4. batch' \in Seq(Message) /\ Len(batch') <= BatchSize /\ commands' \in Seq(Message)
        /\ Len(commands') <= cursor'
    BY EventsAssumption DEF MemoryLost
  <2> QED
    BY <2>1, <2>2, <2>3, <2>4
    DEF Ended, MemoryLost, EventInv, EventTypes, EventHandlerTypeOK
<1>2. ReadyInv'
  BY DEF Ended, ReadyInv, Clients
<1>3. BatchInv'
  BY <1>1 DEF MemoryLost, BatchInv, EventTypes
<1>4. SentInv'
  BY DEF SentInv, MappedInv, ResolvedInv, FailedInv, MemoryLost
<1> QED
  BY <1>1, <1>2, <1>3, <1>4 DEF EventInv

-----------------------------------------------------------------------------
(* The topics.                                                              *)

\* Messages are only ever appended.
Grows ==
    \A topic \in Topics :
        /\ Len(log[topic]) <= Len(log'[topic])
        /\ \A i \in 1..Len(log[topic]) : log'[topic][i] = log[topic][i]

\* What was written stays written.
LEMMA GrowsKeeps ==
    ASSUME EventInv, log' \in [Topics -> Seq(Message)], Grows
    PROVE  /\ \A topic \in Topics : Messages(topic) \subseteq Messages(topic)'
           /\ \A m : Sent(m) => Sent(m)'
           /\ \A topic \in Topics : \A i \in 1..position[topic] :
                 i \in 1..Len(log[topic]) /\ log'[topic][i] = log[topic][i]
<1>1. log \in [Topics -> Seq(Message)]
  BY DEF EventInv, EventTypes, EventHandlerTypeOK
<1>2. ASSUME NEW topic \in Topics
      PROVE  Messages(topic) \subseteq Messages(topic)'
  <2>1. log[topic] \in Seq(Message) /\ log'[topic] \in Seq(Message)
    BY <1>1
  <2>2. /\ DOMAIN log[topic] = 1..Len(log[topic]) /\ DOMAIN log'[topic] = 1..Len(log'[topic])
        /\ Len(log[topic]) \in Nat /\ Len(log'[topic]) \in Nat
    BY <2>1
  <2>3. ASSUME NEW i \in DOMAIN log[topic]
        PROVE  i \in DOMAIN log'[topic] /\ log'[topic][i] = log[topic][i]
    BY <2>2 DEF Grows
  <2> QED
    BY <2>3 DEF Messages
<1>3. \A m : Sent(m) => Sent(m)'
  BY <1>2 DEF Sent, Topics
<1>4. ASSUME NEW topic \in Topics, NEW i \in 1..position[topic]
      PROVE  i \in 1..Len(log[topic]) /\ log'[topic][i] = log[topic][i]
  <2>1. position[topic] \in Nat /\ Len(log[topic]) \in Nat /\ position[topic] <= Len(log[topic])
    BY <1>1 DEF EventInv, EventTypes, EventHandlerTypeOK
  <2>2. i \in 1..Len(log[topic])
    BY <2>1
  <2> QED
    BY <2>2 DEF Grows
<1> QED
  BY <1>2, <1>3, <1>4

\* The parts of the invariant that only a longer log can disturb.
LEMMA GrowsKeepsInv ==
    ASSUME EventInv, log' \in [Topics -> Seq(Message)], Grows,
           UNCHANGED <<position, committed, batch, commands, cursor>>
    PROVE  /\ \A topic \in Topics : committed'[topic] <= position'[topic]
                                    /\ position'[topic] <= Len(log'[topic])
           /\ BatchInv'
<1>1. /\ \A topic \in Topics : Messages(topic) \subseteq Messages(topic)'
      /\ \A m : Sent(m) => Sent(m)'
      /\ \A topic \in Topics : \A i \in 1..position[topic] :
            i \in 1..Len(log[topic]) /\ log'[topic][i] = log[topic][i]
  BY GrowsKeeps
<1>2. ASSUME NEW topic \in Topics
      PROVE  /\ committed[topic] \in Nat /\ position[topic] \in Nat
             /\ committed[topic] <= position[topic] /\ position[topic] <= Len(log'[topic])
  <2>1. /\ log[topic] \in Seq(Message) /\ log'[topic] \in Seq(Message)
        /\ position[topic] \in Nat /\ committed[topic] \in Nat
        /\ committed[topic] <= position[topic] /\ position[topic] <= Len(log[topic])
    BY DEF EventInv, EventTypes, EventHandlerTypeOK
  <2>2. Len(log[topic]) \in Nat /\ Len(log'[topic]) \in Nat
    BY <2>1
  <2> QED
    BY <2>1, <2>2 DEF Grows
<1>3. BatchInv'
  <2>1. \A k \in 1..Len(batch) : \E topic \in Topics : batch[k] \in Messages(topic)'
    BY <1>1 DEF EventInv, BatchInv
  <2>2. \A topic \in Topics : \A i \in 1..position[topic] :
           i > committed[topic] => \E k \in 1..Len(batch) : batch[k] = log'[topic][i]
    BY <1>1 DEF EventInv, BatchInv
  <2> QED
    BY <2>1, <2>2 DEF BatchInv
<1> QED
  BY <1>2, <1>3

\* There are finitely many events.
LEMMA EventsFinite ==
    ASSUME log \in [Topics -> Seq(Message)]
    PROVE  IsFiniteSet(Events) /\ Cardinality(Events) \in Nat
<1>1. ASSUME NEW topic \in Topics
      PROVE  IsFiniteSet(Messages(topic))
  <2> DEFINE n == Len(log[topic])
             f == [i \in 1..n |-> log[topic][i]]
  <2>1. n \in Nat /\ DOMAIN log[topic] = 1..n
    OBVIOUS
  <2>2. f \in Surjection(1..n, Messages(topic))
    BY <2>1 DEF Surjection, Messages
  <2>3. IsFiniteSet(1..n)
    BY <2>1, FS_Interval
  <2> QED
    BY <2>2, <2>3, FS_Surjection
<1> DEFINE all == Messages("DomainRequests") \cup (Messages("DomainEvents") \cup Messages("TimeoutEvents"))
<1>2. IsFiniteSet(all)
  <2>1. IsFiniteSet(Messages("DomainEvents") \cup Messages("TimeoutEvents"))
    BY <1>1, FS_Union DEF Topics
  <2> QED
    BY <1>1, <2>1, FS_Union DEF Topics
<1>3. Events \subseteq all
  BY DEF Events, Topics
<1>4. IsFiniteSet(Events)
  BY <1>2, <1>3, FS_Subset
<1> QED
  BY <1>4, FS_CardinalityType

\* What the environment publishes is appended.
LEMMA PublishGrows ==
    ASSUME EventInv, NEW name \in Inputs, NEW id \in Ids, NEW opaque \in BOOLEAN,
           Publish(name, id, opaque)
    PROVE  log' \in [Topics -> Seq(Message)] /\ Grows
<1> DEFINE m == [type |-> "DOMAIN_EVENT", name |-> name, id |-> id,
                 opaque |-> opaque, number |-> Cardinality(Events) + 1]
<1>1. log \in [Topics -> Seq(Message)]
  BY DEF EventInv, EventTypes, EventHandlerTypeOK
<1>2. TopicOf(name) \in Topics
  BY DEF TopicOf, Topics
<1>3. m \in Message
  <2>1. Cardinality(Events) \in Nat /\ Cardinality(Events) < MaxEvents
    BY <1>1, EventsFinite DEF Publish
  <2>2. Cardinality(Events) + 1 \in 1..MaxEvents
    BY <2>1, EventsAssumption
  <2>3. name \in EventNames
    BY EventsAssumption
  <2> QED
    BY <2>2, <2>3 DEF Message
<1> HIDE DEF m
<1>4. log' = [log EXCEPT ![TopicOf(name)] = Append(@, m)]
  BY DEF Publish, m
<1>5. log' \in [Topics -> Seq(Message)]
  BY <1>1, <1>2, <1>3, <1>4
<1>6. Grows
  <2> SUFFICES ASSUME NEW topic \in Topics
               PROVE  /\ Len(log[topic]) <= Len(log'[topic])
                      /\ \A i \in 1..Len(log[topic]) : log'[topic][i] = log[topic][i]
    BY DEF Grows
  <2>1. log[topic] \in Seq(Message)
    BY <1>1
  <2>2. log'[topic] \in {log[topic], Append(log[topic], m)}
    BY <1>1, <1>2, <1>4
  <2> QED
    BY <1>3, <2>1, <2>2
<1> QED
  BY <1>5, <1>6

LEMMA PublishInv ==
    ASSUME EventInv, NEW name \in Inputs, NEW id \in Ids, NEW opaque \in BOOLEAN,
           Publish(name, id, opaque)
    PROVE  EventInv'
<1>1. log' \in [Topics -> Seq(Message)] /\ Grows
  BY PublishGrows
<1>2. UNCHANGED <<serviceVars, committed, batchVars>> /\ pc = "idle"
  BY DEF Publish
<1>3. BatchInv'
      /\ \A topic \in Topics : committed'[topic] <= position'[topic]
                               /\ position'[topic] <= Len(log'[topic])
  BY <1>1, <1>2, GrowsKeepsInv DEF batchVars
<1>4. EventTypes'
  BY <1>1, <1>2, <1>3 DEF EventInv, EventTypes, EventHandlerTypeOK, serviceVars, batchVars
<1>5. ReadyInv'
  BY <1>2 DEF EventInv, ReadyInv, serviceVars
<1>6. SentInv'
  BY <1>2 DEF SentInv, MappedInv, ResolvedInv, FailedInv, batchVars
<1> QED
  BY <1>3, <1>4, <1>5, <1>6 DEF EventInv

-----------------------------------------------------------------------------
(* The handler.                                                             *)

LEMMA ReceiveInv ==
    ASSUME EventInv, NEW topic \in Topics, Receive(topic)
    PROVE  EventInv'
<1> DEFINE next == position[topic] + 1
           m    == log[topic][next]
<1>1. /\ position' = [position EXCEPT ![topic] = next]
      /\ batch' = Append(batch, m)
      /\ UNCHANGED <<serviceVars, log, committed, pc, cursor, commands>>
      /\ position[topic] < Len(log[topic])
      /\ Len(batch) < BatchSize
      /\ pc = "idle"
  BY DEF Receive
<1>2. /\ log[topic] \in Seq(Message) /\ Len(log[topic]) \in Nat
      /\ position[topic] \in Nat /\ position \in [Topics -> Nat]
      /\ batch \in Seq(Message) /\ Len(batch) \in Nat
  BY DEF EventInv, EventTypes, EventHandlerTypeOK
<1>3. next \in 1..Len(log[topic]) /\ DOMAIN log[topic] = 1..Len(log[topic]) /\ next \in Nat
  BY <1>1, <1>2
<1>4. m \in Message /\ m \in Messages(topic)
  BY <1>2, <1>3 DEF Messages
<1>5. position' \in [Topics -> Nat]
  BY <1>1, <1>2, <1>3
<1> HIDE DEF m
<1>6. /\ batch' \in Seq(Message)
      /\ Len(batch') = Len(batch) + 1
      /\ \A k \in 1..Len(batch) : batch'[k] = batch[k]
      /\ batch'[Len(batch) + 1] = m
  BY <1>1, <1>2, <1>4
<1>7. EventTypes'
  <2>1. Len(batch') <= BatchSize
    BY <1>1, <1>2, <1>6, EventsAssumption
  <2>2. ASSUME NEW other \in Topics
        PROVE  committed'[other] <= position'[other] /\ position'[other] <= Len(log'[other])
    <3>1. committed[other] <= position[other] /\ position[other] <= Len(log[other])
          /\ committed[other] \in Nat /\ position[other] \in Nat
      BY DEF EventInv, EventTypes, EventHandlerTypeOK
    <3>2. position'[other] = IF other = topic THEN next ELSE position[other]
      BY <1>1, <1>2
    <3> QED
      BY <1>1, <1>3, <3>1, <3>2
  <2> QED
    BY <1>1, <1>5, <1>6, <2>1, <2>2
    DEF EventInv, EventTypes, EventHandlerTypeOK, serviceVars
<1>8. BatchInv'
  <2>1. ASSUME NEW k \in 1..Len(batch')
        PROVE  \E other \in Topics : batch'[k] \in Messages(other)'
    <3>1. k \in 1..Len(batch) \/ k = Len(batch) + 1
      BY <1>2, <1>6, <2>1
    <3>2. \A other \in Topics : Messages(other)' = Messages(other)
      BY <1>1 DEF Messages
    <3> QED
      BY <1>4, <1>6, <3>1, <3>2 DEF EventInv, BatchInv
  <2>2. ASSUME NEW other \in Topics, NEW i \in 1..position'[other], i > committed[other]
        PROVE  \E k \in 1..Len(batch') : batch'[k] = log[other][i]
    <3>1. CASE i \in 1..position[other]
      <4>1. PICK k \in 1..Len(batch) : batch[k] = log[other][i]
        BY <2>2, <3>1 DEF EventInv, BatchInv
      <4>2. k \in 1..Len(batch')
        BY <1>2, <1>6
      <4> QED
        BY <1>6, <4>1, <4>2
    <3>2. CASE i \notin 1..position[other]
      <4>1. other = topic /\ i = next
        BY <1>1, <1>2, <1>3, <1>5, <2>2, <3>2
      <4>2. Len(batch) + 1 \in 1..Len(batch')
        BY <1>2, <1>6
      <4> QED
        BY <1>6, <4>1, <4>2 DEF m
    <3> QED
      BY <3>1, <3>2
  <2> QED
    BY <1>1, <2>1, <2>2 DEF BatchInv
<1>9. ReadyInv'
  BY <1>1 DEF EventInv, ReadyInv, serviceVars
<1>10. SentInv'
  BY <1>1 DEF SentInv, MappedInv, ResolvedInv, FailedInv
<1> QED
  BY <1>7, <1>8, <1>9, <1>10 DEF EventInv

LEMMA DeliverInv ==
    ASSUME EventInv, Deliver
    PROVE  EventInv'
<1>1. /\ pc' = "mapping" /\ cursor' = 0 /\ commands' = <<>>
      /\ UNCHANGED <<serviceVars, log, committed, position, batch>>
      /\ service = "eventHandler" /\ clients["reading"] = "ready"
  BY DEF Deliver, Reads
<1>2. startAt >= 7 /\ Len(batch) \in Nat
  BY <1>1 DEF EventInv, EventTypes, EventHandlerTypeOK, ReadyInv
<1>3. EventTypes'
  BY <1>1, <1>2 DEF EventInv, EventTypes, EventHandlerTypeOK, serviceVars
<1>4. BatchInv' /\ ReadyInv'
  BY <1>1 DEF EventInv, BatchInv, ReadyInv, Messages, serviceVars
<1>5. SentInv'
  BY <1>1 DEF SentInv, MappedInv, ResolvedInv, FailedInv
<1> QED
  BY <1>3, <1>4, <1>5 DEF EventInv

\* The command of an event is a message.
LEMMA CommandIsMessage ==
    ASSUME NEW m \in Message
    PROVE  ToCommand(m) \in Message
<1> DEFINE name == IF m.name \in DOMAIN CommandOf THEN CommandOf[m.name] ELSE m.name
<1>1. name \in EventNames \cup {CommandOf[e] : e \in DOMAIN CommandOf}
  BY DEF Message
<1> HIDE DEF name
<1>2. [m EXCEPT !.type = "COMMAND"] \in Message
  BY DEF Message
<1>3. [[m EXCEPT !.type = "COMMAND"] EXCEPT !.name = name] \in Message
  BY <1>1, <1>2 DEF Message
<1>4. ToCommand(m) = [[m EXCEPT !.type = "COMMAND"] EXCEPT !.name = name]
  BY Zenon DEF ToCommand, name
<1> QED
  BY <1>3, <1>4

LEMMA MapMessageInv ==
    ASSUME EventInv, MapMessage
    PROVE  EventInv'
<1> DEFINE m == batch[cursor + 1]
<1>1. /\ pc = "mapping" /\ cursor < Len(batch)
      /\ commands' = IF Handled(m) THEN Append(commands, ToCommand(m)) ELSE commands
      /\ cursor' = cursor + 1
      /\ UNCHANGED <<serviceVars, log, committed, position, batch, pc>>
  BY DEF MapMessage, Collected
<1>2. /\ cursor \in Nat /\ Len(batch) \in Nat /\ batch \in Seq(Message)
      /\ commands \in Seq(Message) /\ Len(commands) \in Nat /\ Len(commands) <= cursor
  BY DEF EventInv, EventTypes, EventHandlerTypeOK
<1>3. m \in Message
  BY <1>1, <1>2
<1> HIDE DEF m
<1>4. ToCommand(m) \in Message
  BY <1>3, CommandIsMessage
<1>5. /\ commands' \in Seq(Message)
      /\ Len(commands') \in Nat
      /\ Len(commands) <= Len(commands') /\ Len(commands') <= Len(commands) + 1
      /\ \A j \in 1..Len(commands) : commands'[j] = commands[j]
      /\ Handled(m) => /\ Len(commands) + 1 \in 1..Len(commands')
                       /\ commands'[Len(commands) + 1] = ToCommand(m)
  <2>1. CASE Handled(m)
    BY <1>1, <1>2, <1>4, <2>1
  <2>2. CASE ~Handled(m)
    BY <1>1, <1>2, <2>2
  <2> QED
    BY <2>1, <2>2
<1>6. EventTypes'
  <2>1. Len(commands') <= cursor' /\ cursor' \in Nat /\ cursor' <= Len(batch')
    BY <1>1, <1>2, <1>5
  <2> QED
    BY <1>1, <1>5, <2>1 DEF EventInv, EventTypes, EventHandlerTypeOK, serviceVars
<1>7. BatchInv' /\ ReadyInv'
  BY <1>1 DEF EventInv, BatchInv, ReadyInv, Messages, serviceVars
<1>8. MappedInv => MappedInv'
  <2> SUFFICES ASSUME MappedInv, NEW k \in 1..cursor', Handled(batch[k])
               PROVE  \E j \in 1..Len(commands') : commands'[j] = ToCommand(batch[k])
    BY <1>1 DEF MappedInv, Handled, IsEvent
  <2>1. CASE k \in 1..cursor
    <3>1. PICK j \in 1..Len(commands) : commands[j] = ToCommand(batch[k])
      BY <1>1, <2>1 DEF MappedInv
    <3>2. j \in 1..Len(commands')
      BY <1>2, <1>5
    <3> QED
      BY <1>5, <3>1, <3>2
  <2>2. CASE k \notin 1..cursor
    <3>1. k = cursor + 1
      BY <1>1, <1>2, <2>2
    <3>2. batch[k] = m
      BY <3>1 DEF m
    <3> QED
      BY <1>5, <3>2
  <2> QED
    BY <2>1, <2>2
<1>9. SentInv'
  BY <1>1, <1>8 DEF EventInv, SentInv, ResolvedInv, FailedInv
<1> QED
  BY <1>6, <1>7, <1>9 DEF EventInv

LEMMA MapThrowsInv ==
    ASSUME EventInv, MapThrows
    PROVE  EventInv'
<1> DEFINE m == batch[cursor + 1]
<1>1. /\ pc = "mapping" /\ cursor < Len(batch) /\ Handled(m) /\ ~Mappable(m)
      /\ pc' = "failed" /\ commands' = <<>>
      /\ UNCHANGED <<serviceVars, log, committed, position, batch, cursor>>
  BY DEF MapThrows, AfterError
<1>2. EventTypes'
  BY <1>1 DEF EventInv, EventTypes, EventHandlerTypeOK, serviceVars
<1>3. BatchInv' /\ ReadyInv'
  BY <1>1 DEF EventInv, BatchInv, ReadyInv, Messages, serviceVars
<1>4. SentInv'
  <2>1. batch \in Seq(Message) /\ cursor + 1 \in DOMAIN batch
    BY <1>1 DEF EventInv, EventTypes, EventHandlerTypeOK
  <2>2. Unmappable
    BY <1>1, <2>1 DEF Unmappable
  <2>3. Unmappable'
    BY <1>1, <2>2 DEF Unmappable, Handled, IsEvent, Mappable
  <2> QED
    BY <1>1, <2>3 DEF SentInv, MappedInv, ResolvedInv, FailedInv
<1> QED
  BY <1>2, <1>3, <1>4 DEF EventInv

\* What a send appends: a prefix of the commands.
LEMMA AppendedGrows ==
    ASSUME EventInv, NEW n \in 0..Len(commands), log' = Appended(n)
    PROVE  /\ log' \in [Topics -> Seq(Message)]
           /\ Grows
           /\ n = Len(commands) =>
                 \A j \in 1..Len(commands) : commands[j] \in Messages("DomainRequests")'
<1> DEFINE sent == SubSeq(commands, 1, n)
           old  == log["DomainRequests"]
<1>1. /\ commands \in Seq(Message) /\ Len(commands) \in Nat
      /\ log \in [Topics -> Seq(Message)] /\ "DomainRequests" \in Topics
  BY DEF EventInv, EventTypes, EventHandlerTypeOK, Topics
<1>2. /\ sent \in Seq(Message)
      /\ Len(sent) = n
      /\ n \in Nat
      /\ \A j \in 1..n : sent[j] = commands[j]
  BY <1>1
<1>3. old \in Seq(Message) /\ Len(old) \in Nat
  BY <1>1
<1>4. log' = [log EXCEPT !["DomainRequests"] = old \o sent]
  BY DEF Appended
<1> HIDE DEF sent
<1>5. /\ old \o sent \in Seq(Message)
      /\ Len(old \o sent) = Len(old) + n
      /\ \A i \in 1..Len(old) : (old \o sent)[i] = old[i]
      /\ \A j \in 1..n : (old \o sent)[Len(old) + j] = sent[j]
  BY <1>2, <1>3
<1>6. log' \in [Topics -> Seq(Message)]
  BY <1>1, <1>4, <1>5
<1>7. log'["DomainRequests"] = old \o sent
  BY <1>1, <1>4
<1>8. Grows
  <2> SUFFICES ASSUME NEW topic \in Topics
               PROVE  /\ Len(log[topic]) <= Len(log'[topic])
                      /\ \A i \in 1..Len(log[topic]) : log'[topic][i] = log[topic][i]
    BY DEF Grows
  <2>1. CASE topic = "DomainRequests"
    BY <1>2, <1>3, <1>5, <1>7, <2>1
  <2>2. CASE topic # "DomainRequests"
    <3>1. log'[topic] = log[topic] /\ Len(log[topic]) \in Nat
      BY <1>1, <1>4, <2>2
    <3> QED
      BY <3>1
  <2> QED
    BY <2>1, <2>2
<1>9. ASSUME n = Len(commands), NEW j \in 1..Len(commands)
      PROVE  commands[j] \in Messages("DomainRequests")'
  <2>1. Len(old) + j \in 1..(Len(old) + n) /\ j \in 1..n
    BY <1>2, <1>3, <1>9
  <2>2. (old \o sent)[Len(old) + j] = commands[j]
    BY <1>2, <1>5, <2>1
  <2>3. Len(old) + j \in DOMAIN (old \o sent)
    BY <1>5, <2>1
  <2> QED
    BY <1>7, <2>2, <2>3 DEF Messages
<1> QED
  BY <1>6, <1>8, <1>9

LEMMA SendCommandsInv ==
    ASSUME EventInv, SendCommands
    PROVE  EventInv'
<1>1. /\ pc = "mapping" /\ cursor = Len(batch)
      /\ UNCHANGED <<service, clients, startAt, stopAt, signals, committed, position, batch,
                     cursor, commands>>
  BY DEF SendCommands, Mapped
<1>2. Len(commands) \in Nat /\ log \in [Topics -> Seq(Message)] /\ faults \in Nat
  BY DEF EventInv, EventTypes, EventHandlerTypeOK
<1>3. \/ pc' = "resolved" /\ log' = Appended(Len(commands)) /\ faults' = faults
      \/ /\ pc' = "failed"
         /\ \E n \in 0..Len(commands) : log' = Appended(n)
         /\ \/ faults' = faults + 1
            \/ clients["producer"] # "ready" /\ faults' = faults
  BY DEF SendCommands, Mishap, AfterError
<1>4. log' \in [Topics -> Seq(Message)] /\ Grows
  <2>1. Len(commands) \in 0..Len(commands)
    BY <1>2
  <2>2. \E n \in 0..Len(commands) : log' = Appended(n)
    BY <1>3, <2>1
  <2> QED
    BY <2>2, AppendedGrows
<1>5. /\ BatchInv'
      /\ \A topic \in Topics : committed'[topic] <= position'[topic]
                               /\ position'[topic] <= Len(log'[topic])
  BY <1>1, <1>4, GrowsKeepsInv
<1>6. faults' \in Nat /\ pc' \in {"resolved", "failed"}
  BY <1>2, <1>3
<1>7. EventTypes'
  BY <1>1, <1>4, <1>5, <1>6 DEF EventInv, EventTypes, EventHandlerTypeOK
<1>8. ReadyInv'
  BY <1>1 DEF EventInv, ReadyInv
<1>9. ResolvedInv'
  <2> SUFFICES ASSUME pc' = "resolved", NEW k \in 1..Len(batch), Handled(batch[k])
               PROVE  Sent(batch[k])'
    BY <1>1 DEF ResolvedInv, Handled, IsEvent, Sent, ToCommand, Messages
  <2>1. Len(commands) \in 0..Len(commands) /\ log' = Appended(Len(commands))
    BY <1>2, <1>3
  <2>2. \A j \in 1..Len(commands) : commands[j] \in Messages("DomainRequests")'
    BY <2>1, AppendedGrows
  <2>3. PICK j \in 1..Len(commands) : commands[j] = ToCommand(batch[k])
    BY <1>1 DEF EventInv, SentInv, MappedInv
  <2> QED
    BY <1>1, <2>2, <2>3 DEF Sent, ToCommand
<1>10. FailedInv'
  <2> SUFFICES ASSUME pc' = "failed", clients["consumer"] = "ready", faults' = faults
               PROVE  FALSE
    BY <1>1, <1>2, <1>3 DEF FailedInv
  <2>1. clients["producer"] # "ready"
    BY <1>2, <1>3
  <2>2. service = "eventHandler" /\ startAt >= 7 /\ startAt \in Nat
    BY <1>1 DEF EventInv, EventTypes
  <2>3. startAt > 4
    BY <2>2
  <2> QED
    BY <2>1, <2>2, <2>3 DEF EventInv, ReadyInv
<1>11. MappedInv'
  BY <1>6 DEF MappedInv
<1> QED
  BY <1>5, <1>7, <1>8, <1>9, <1>10, <1>11 DEF EventInv, SentInv

LEMMA CommitInv ==
    ASSUME EventInv, Commit
    PROVE  EventInv'
<1>1. /\ pc' = "idle" /\ committed' = position /\ batch' = <<>>
      /\ UNCHANGED <<serviceVars, log, position, cursor, commands>>
  BY DEF Commit
<1>2. EventTypes'
  <2>1. \A topic \in Topics : position[topic] \in Nat /\ position[topic] <= Len(log[topic])
    BY DEF EventInv, EventTypes, EventHandlerTypeOK
  <2>2. batch' \in Seq(Message) /\ Len(batch') <= BatchSize
    BY <1>1, EventsAssumption
  <2>3. \A topic \in Topics : committed'[topic] <= position'[topic] /\ position'[topic] <= Len(log'[topic])
    BY <1>1, <2>1
  <2> QED
    BY <1>1, <2>1, <2>2, <2>3 DEF EventInv, EventTypes, EventHandlerTypeOK, serviceVars
<1>3. ReadyInv'
  BY <1>1 DEF EventInv, ReadyInv, serviceVars
<1>4. BatchInv'
  BY <1>1 DEF EventInv, EventTypes, BatchInv
<1>5. SentInv'
  BY <1>1 DEF SentInv, MappedInv, ResolvedInv, FailedInv
<1> QED
  BY <1>2, <1>3, <1>4, <1>5 DEF EventInv

-----------------------------------------------------------------------------
(* The theorems.                                                            *)

LEMMA InitEvents == Init => EventInv
<1> SUFFICES ASSUME Init
             PROVE  EventInv
  OBVIOUS
<1>1. service \in DOMAIN Startup
  BY DEF Init, LifecycleInit, Startup
<1>2. EventTypes
  <2>1. startAt \in 1..(Len(Startup[service]) + 1) /\ stopAt \in 0..(Len(Shutdown[service]) + 1)
    BY <1>1, Awaits DEF Init, LifecycleInit
  <2>2. clients \in [Clients -> {"none", "created", "ready", "closed"}]
    BY DEF Init, LifecycleInit
  <2>3. /\ log \in [Topics -> Seq(Message)]
        /\ \A topic \in Topics : committed[topic] <= position[topic]
                                 /\ position[topic] <= Len(log[topic])
    BY DEF Init
  <2>4. batch \in Seq(Message) /\ Len(batch) <= BatchSize
        /\ commands \in Seq(Message) /\ Len(commands) <= cursor
    BY EventsAssumption DEF Init
  <2> QED
    BY <1>1, <2>1, <2>2, <2>3, <2>4 DEF Init, LifecycleInit, EventTypes, EventHandlerTypeOK
<1>3. ReadyInv
  BY DEF Init, LifecycleInit, ReadyInv, Clients
<1>4. BatchInv
  BY DEF Init, BatchInv
<1>5. SentInv
  BY DEF Init, SentInv, MappedInv, ResolvedInv, FailedInv
<1> QED
  BY <1>2, <1>3, <1>4, <1>5 DEF EventInv

LEMMA EventInduction == Spec => []EventInv
<1>1. EventInv /\ [Next]_allVars => EventInv'
  <2> SUFFICES ASSUME EventInv, [Next]_allVars
               PROVE  EventInv'
    OBVIOUS
  <2>1. CASE (StartStep /\ UNCHANGED eventVars) \/ (StopStep /\ StopCommits)
    BY <2>1, StartStepInv, StopStepInv
  <2>2. CASE (StartRejected \/ StopDone) /\ MemoryLost
    <3>1. Ended /\ MemoryLost /\ faults' = faults /\ faults \in Nat
      BY <2>2 DEF StartRejected, StopDone, EventInv, EventTypes
    <3> QED
      BY <3>1, EndedInv
  <2>3. CASE Killed /\ MemoryLost
    <3>1. Ended /\ MemoryLost /\ faults' = faults + 1 /\ faults \in Nat
      BY <2>3 DEF Killed, Mishap, EventInv, EventTypes
    <3>2. faults' \in Nat /\ faults' >= faults
      BY <3>1
    <3> QED
      BY <3>1, <3>2, EndedInv
  <2>4. CASE Signal /\ UNCHANGED eventVars
    BY <2>4, SignalInv
  <2>5. CASE \E name \in Inputs, id \in Ids, opaque \in BOOLEAN : Publish(name, id, opaque)
    BY <2>5, PublishInv
  <2>6. CASE \E topic \in Topics : Receive(topic)
    BY <2>6, ReceiveInv
  <2>7. CASE Deliver \/ MapMessage \/ MapThrows \/ SendCommands \/ Commit
    BY <2>7, DeliverInv, MapMessageInv, MapThrowsInv, SendCommandsInv, CommitInv
  <2>8. CASE UNCHANGED allVars
    <3>1. UNCHANGED <<service, clients, startAt, stopAt, signals, faults>> /\ UNCHANGED eventVars
      BY <2>8 DEF allVars, serviceVars
    <3>2. ReadyInv'
      BY <3>1 DEF EventInv, ReadyInv
    <3> QED
      BY <3>1, <3>2, EventsUnchanged DEF EventInv, EventTypes, EventHandlerTypeOK, eventVars
  <2> QED
    BY <2>1, <2>2, <2>3, <2>4, <2>5, <2>6, <2>7, <2>8 DEF Next, Process, Environment
<1> QED
  BY <1>1, InitEvents, PTL DEF Spec

\* The service, its clients, the topics and the batch keep their types, and the handler
\* never reads beyond the end of a topic, for any events, batch size, signals and faults.
THEOREM EventHandlerTypeCorrect == Spec => []EventHandlerTypeOK
<1>1. EventInv => EventHandlerTypeOK
  BY DEF EventInv, EventTypes
<1> QED
  BY <1>1, EventInduction, PTL

\* Through failed sends, crashes, stops and restarts: what is acknowledged was sent, except
\* in a batch that has an event that cannot be mapped or whose send failed, and in the batch
\* the service has in hand when it destroys the consumer.
THEOREM NothingElseLost == Spec => LostOnlyWithItsBatch
<1> DEFINE Kept(m) ==
        \/ Sent(m)
        \/ /\ \E k \in DOMAIN batch : batch[k] = m
           /\ \/ pc = "failed" /\ (Unmappable \/ faults # 0)
              \/ ConsumerDestroyed
<1>1. EventInv /\ [Next]_allVars =>
         [\A m \in Acknowledged' \ Acknowledged : Handled(m) => Kept(m)]_allVars
  <2> SUFFICES ASSUME EventInv, Next, NEW m \in Acknowledged', m \notin Acknowledged, Handled(m)
               PROVE  Kept(m)
    BY DEF Handled, IsEvent
  <2>1. CASE Commit \/ (StopStep /\ StopCommits)
    <3>1. UNCHANGED log /\ committed' \in {committed, position}
      BY <2>1 DEF Commit, StopCommits
    <3>2. committed' = position
      BY <3>1 DEF Acknowledged
    <3>3. PICK topic \in Topics : \E i \in 1..position[topic] : m = log[topic][i]
      BY <3>1, <3>2 DEF Acknowledged
    <3>4. PICK i \in 1..position[topic] : m = log[topic][i]
      BY <3>3
    <3>5. i > committed[topic]
      <4>1. committed[topic] \in Nat /\ position[topic] \in Nat
        BY DEF EventInv, EventTypes
      <4>2. i \notin 1..committed[topic]
        BY <3>4 DEF Acknowledged
      <4> QED
        BY <4>1, <4>2
    <3>6. PICK k \in 1..Len(batch) : batch[k] = m
      BY <3>4, <3>5 DEF EventInv, BatchInv
    <3>7. k \in DOMAIN batch
      BY <3>6 DEF EventInv, EventTypes, EventHandlerTypeOK
    <3>8. CASE Commit
      <4>1. /\ pc = "resolved" => Sent(m)
            /\ pc = "failed" => Unmappable \/ faults # 0
        BY <3>6, <3>8 DEF Commit, EventInv, SentInv, ResolvedInv, FailedInv
      <4> QED
        BY <3>6, <3>7, <3>8, <4>1 DEF Commit
    <3>9. CASE StopCommits
      <4>1. ConsumerDestroyed
        BY <3>2, <3>9 DEF StopCommits, Acknowledged
      <4> QED
        BY <3>6, <3>7, <4>1
    <3> QED
      BY <2>1, <3>8, <3>9
  <2>2. CASE UNCHANGED <<log, committed>>
    BY <2>2 DEF Acknowledged
  <2>3. CASE UNCHANGED committed /\ log' \in [Topics -> Seq(Message)] /\ Grows
    <3>1. PICK topic \in Topics : \E i \in 1..committed[topic] : m = log'[topic][i]
      BY <2>3 DEF Acknowledged
    <3>2. PICK i \in 1..committed[topic] : m = log'[topic][i]
      BY <3>1
    <3>3. i \in 1..position[topic]
      BY DEF EventInv, EventTypes, EventHandlerTypeOK
    <3>4. m = log[topic][i]
      BY <2>3, <3>2, <3>3, GrowsKeeps
    <3> QED
      BY <3>2, <3>4 DEF Acknowledged
  <2>4. CASE \E name \in Inputs, id \in Ids, opaque \in BOOLEAN : Publish(name, id, opaque)
    BY <2>3, <2>4, PublishGrows DEF Publish
  <2>5. CASE SendCommands
    <3>1. Len(commands) \in 0..Len(commands)
      BY DEF EventInv, EventTypes, EventHandlerTypeOK
    <3>2. PICK n \in 0..Len(commands) : log' = Appended(n)
      BY <2>5, <3>1 DEF SendCommands
    <3>3. UNCHANGED committed
      BY <2>5 DEF SendCommands
    <3> QED
      BY <2>3, <3>2, <3>3, AppendedGrows
  <2>6. CASE \/ (StartStep \/ Signal) /\ UNCHANGED eventVars
             \/ (StartRejected \/ StopDone \/ Killed) /\ MemoryLost
             \/ \E topic \in Topics : Receive(topic)
             \/ Deliver \/ MapMessage \/ MapThrows
    BY <2>2, <2>6 DEF eventVars, MemoryLost, Receive, Deliver, MapMessage, MapThrows
  <2> QED
    BY <2>1, <2>4, <2>5, <2>6 DEF Next, Process, Environment
<1> QED
  BY <1>1, EventInduction, PTL DEF Spec, LostOnlyWithItsBatch

-----------------------------------------------------------------------------
(* The clients of the three services.                                       *)

StartOf(k) == Startup[service][k].client
MadeAt(k)  == Startup[service][k].created

Repositories == {"transfersRepo", "bulkRepo", "accounts", "settlements"}

\* What start has awaited is ready unless stop destroyed it, what it still awaits is not;
\* an object exists from the await before which it is made.  The consumer is destroyed
\* before the producer, and nothing is read without it.
ServeInv ==
    /\ \A k \in 1..Len(Startup[service]) :
          /\ k < startAt => clients[StartOf(k)] \in {"ready", "closed"}
          /\ k >= startAt => clients[StartOf(k)] # "ready"
          /\ \A c \in MadeAt(k) : clients[c] = "none" <=> startAt <= k
    /\ \A c \in Clients : clients[c] = "closed" => stopAt # 0
    /\ service # "api" =>
          /\ \A c \in Repositories : clients[c] # "closed"
          /\ clients["producer"] # "none" => clients["consumer"] # "none"
          /\ stopAt = 4 => clients["consumer"] = "closed"
          /\ clients["producer"] = "closed" => clients["consumer"] = "closed"
          /\ clients["consumer"] = "closed" => clients["reading"] # "ready"

\* The sequences of start: every client is awaited once, and made before it is awaited.
LEMMA StartSequences ==
    ASSUME service \in DOMAIN Startup
    PROVE  /\ \A k \in 1..Len(Startup[service]) : StartOf(k) \in Clients /\ MadeAt(k) \subseteq Clients
           /\ \A j, k \in 1..Len(Startup[service]) :
                 /\ StartOf(j) = StartOf(k) => j = k
                 /\ j <= k => StartOf(j) \notin MadeAt(k)
                 /\ j < k => MadeAt(j) \cap MadeAt(k) = {}
           /\ service # "api" =>
                 \E k \in 1..Len(Startup[service]) :
                    /\ "consumer" \in MadeAt(k)
                    /\ \A j \in 1..Len(Startup[service]) :
                          /\ StartOf(j) = "producer" => k < j
                          /\ "producer" \in MadeAt(j) => k = j
<1>1. CASE service = "eventHandler"
  <2> DEFINE S == EventHandlerStart
  <2>1. Startup[service] = S /\ Len(S) = 7
    BY <1>1, Awaits DEF Startup
  <2>2. /\ S[1] = Await("logger", {"config"})
        /\ S[2] = Await("config", {})
        /\ S[3] = Await("audit", {"consumer", "producer", "reading"})
        /\ S[4] = Await("producer", {})
        /\ S[5] = Await("consumer", {})
        /\ S[6] = Await("reading", {"express"})
        /\ S[7] = Await("express", {})
    BY DEF EventHandlerStart
  <2> HIDE DEF S
  <2>3. /\ StartOf(1) = "logger" /\ MadeAt(1) = {"config"}
        /\ StartOf(2) = "config" /\ MadeAt(2) = {}
        /\ StartOf(3) = "audit" /\ MadeAt(3) = {"consumer", "producer", "reading"}
        /\ StartOf(4) = "producer" /\ MadeAt(4) = {}
        /\ StartOf(5) = "consumer" /\ MadeAt(5) = {}
        /\ StartOf(6) = "reading" /\ MadeAt(6) = {"express"}
        /\ StartOf(7) = "express" /\ MadeAt(7) = {}
    BY <2>1, <2>2 DEF StartOf, MadeAt, Await
  <2>4. \A k \in 1..7 : k \in {1, 2, 3, 4, 5, 6, 7}
    OBVIOUS
  <2>5. \A k \in 1..7 : StartOf(k) \in Clients /\ MadeAt(k) \subseteq Clients
    BY <2>3, <2>4 DEF Clients
  <2>6. \A j, k \in 1..7 :
           /\ StartOf(j) = StartOf(k) => j = k
           /\ j <= k => StartOf(j) \notin MadeAt(k)
    BY <2>3, <2>4
  <2>7. \A j, k \in 1..7 : j < k => MadeAt(j) \cap MadeAt(k) = {}
    BY <2>3, <2>4
  <2>8. /\ 3 \in 1..7 /\ "consumer" \in MadeAt(3)
        /\ \A j \in 1..7 : /\ StartOf(j) = "producer" => 3 < j
                           /\ "producer" \in MadeAt(j) => 3 = j
    BY <2>3, <2>4
  <2> QED
    BY <2>1, <2>5, <2>6, <2>7, <2>8
<1>2. CASE service = "commandHandler"
  <2> DEFINE S == CommandHandlerStart
  <2>1. Startup[service] = S /\ Len(S) = 12
    BY <1>2 DEF Startup, CommandHandlerStart, CommandHandlerClients, Await
  <2>2. /\ S[1] = Await("logger", {"config"})
        /\ S[2] = Await("config", {})
        /\ S[3] = Await("authorization", {})
        /\ S[4] = Await("audit", {"consumer"})
        /\ S[5] = Await("producer", {})
        /\ S[6] = Await("transfersRepo", {})
        /\ S[7] = Await("bulkRepo", {})
        /\ S[8] = Await("accounts", {})
        /\ S[9] = Await("settlements", {"reading"})
        /\ S[10] = Await("consumer", {})
        /\ S[11] = Await("reading", {"express"})
        /\ S[12] = Await("express", {})
    BY DEF CommandHandlerStart, CommandHandlerClients
  <2> HIDE DEF S
  <2>3. /\ StartOf(1) = "logger" /\ MadeAt(1) = {"config"}
        /\ StartOf(2) = "config" /\ MadeAt(2) = {}
        /\ StartOf(3) = "authorization" /\ MadeAt(3) = {}
        /\ StartOf(4) = "audit" /\ MadeAt(4) = {"consumer"}
        /\ StartOf(5) = "producer" /\ MadeAt(5) = {}
        /\ StartOf(6) = "transfersRepo" /\ MadeAt(6) = {}
        /\ StartOf(7) = "bulkRepo" /\ MadeAt(7) = {}
        /\ StartOf(8) = "accounts" /\ MadeAt(8) = {}
        /\ StartOf(9) = "settlements" /\ MadeAt(9) = {"reading"}
        /\ StartOf(10) = "consumer" /\ MadeAt(10) = {}
        /\ StartOf(11) = "reading" /\ MadeAt(11) = {"express"}
        /\ StartOf(12) = "express" /\ MadeAt(12) = {}
    BY <2>1, <2>2 DEF StartOf, MadeAt, Await
  <2>4. \A k \in 1..12 : k \in {1, 2, 3, 4, 5, 6, 7, 8, 9, 10, 11, 12}
    OBVIOUS
  <2>5. \A k \in 1..12 : StartOf(k) \in Clients /\ MadeAt(k) \subseteq Clients
    BY <2>3, <2>4 DEF Clients
  <2>6. \A j, k \in 1..12 :
           /\ StartOf(j) = StartOf(k) => j = k
           /\ j <= k => StartOf(j) \notin MadeAt(k)
    BY <2>3, <2>4
  <2>7. \A j, k \in 1..12 : j < k => MadeAt(j) \cap MadeAt(k) = {}
    BY <2>3, <2>4
  <2>8. /\ 4 \in 1..12 /\ "consumer" \in MadeAt(4)
        /\ \A j \in 1..12 : /\ StartOf(j) = "producer" => 4 < j
                            /\ "producer" \in MadeAt(j) => 4 = j
    BY <2>3, <2>4
  <2> QED
    BY <2>1, <2>5, <2>6, <2>7, <2>8
<1>3. CASE service = "api"
  <2> DEFINE S == ApiStart
  <2>1. Startup[service] = S /\ Len(S) = 7
    BY <1>3 DEF Startup, ApiStart, Await
  <2>2. /\ S[1] = Await("logger", {})
        /\ S[2] = Await("audit", {})
        /\ S[3] = Await("transfersRepo", {})
        /\ S[4] = Await("bulkRepo", {})
        /\ S[5] = Await("authorization", {"tokenHelper"})
        /\ S[6] = Await("tokenHelper", {"express"})
        /\ S[7] = Await("express", {})
    BY DEF ApiStart
  <2> HIDE DEF S
  <2>3. /\ StartOf(1) = "logger" /\ MadeAt(1) = {}
        /\ StartOf(2) = "audit" /\ MadeAt(2) = {}
        /\ StartOf(3) = "transfersRepo" /\ MadeAt(3) = {}
        /\ StartOf(4) = "bulkRepo" /\ MadeAt(4) = {}
        /\ StartOf(5) = "authorization" /\ MadeAt(5) = {"tokenHelper"}
        /\ StartOf(6) = "tokenHelper" /\ MadeAt(6) = {"express"}
        /\ StartOf(7) = "express" /\ MadeAt(7) = {}
    BY <2>1, <2>2 DEF StartOf, MadeAt, Await
  <2>4. \A k \in 1..7 : k \in {1, 2, 3, 4, 5, 6, 7}
    OBVIOUS
  <2>5. \A k \in 1..7 : StartOf(k) \in Clients /\ MadeAt(k) \subseteq Clients
    BY <2>3, <2>4 DEF Clients
  <2>6. \A j, k \in 1..7 :
           /\ StartOf(j) = StartOf(k) => j = k
           /\ j <= k => StartOf(j) \notin MadeAt(k)
    BY <2>3, <2>4
  <2>7. \A j, k \in 1..7 : j < k => MadeAt(j) \cap MadeAt(k) = {}
    BY <2>3, <2>4
  <2> QED
    BY <1>3, <2>1, <2>5, <2>6, <2>7
<1> QED
  BY <1>1, <1>2, <1>3 DEF Startup

\* What a service needs is awaited before it answers.
LEMMA NeededFirst ==
    ASSUME service \in DOMAIN Startup
    PROVE  \E entry \in 1..Len(Startup[service]) :
              /\ StartOf(entry) = Entry[service]
              /\ \A c \in Needs[service] :
                    \E k \in 1..Len(Startup[service]) : k < entry /\ StartOf(k) = c
<1>1. CASE service = "eventHandler"
  <2>1. Startup[service] = EventHandlerStart /\ Len(EventHandlerStart) = 7
    BY <1>1, Awaits DEF Startup
  <2>2. StartOf(4) = "producer" /\ StartOf(5) = "consumer" /\ StartOf(6) = "reading"
    BY <2>1 DEF StartOf, EventHandlerStart, Await
  <2>3. Entry[service] = "reading" /\ Needs[service] = {"consumer", "producer"}
    BY <1>1 DEF Entry, Needs
  <2> QED
    BY <2>1, <2>2, <2>3
<1>2. CASE service = "commandHandler"
  <2>1. Startup[service] = CommandHandlerStart /\ Len(CommandHandlerStart) = 12
    BY <1>2 DEF Startup, CommandHandlerStart, CommandHandlerClients, Await
  <2>2. /\ StartOf(5) = "producer" /\ StartOf(6) = "transfersRepo" /\ StartOf(7) = "bulkRepo"
        /\ StartOf(8) = "accounts" /\ StartOf(9) = "settlements"
        /\ StartOf(10) = "consumer" /\ StartOf(11) = "reading"
    BY <2>1 DEF StartOf, CommandHandlerStart, CommandHandlerClients, Await
  <2>3. /\ Entry[service] = "reading"
        /\ Needs[service] = {"consumer", "producer", "transfersRepo", "bulkRepo", "accounts",
                             "settlements"}
    BY <1>2 DEF Entry, Needs
  <2> QED
    BY <2>1, <2>2, <2>3
<1>3. CASE service = "api"
  <2>1. Startup[service] = ApiStart /\ Len(ApiStart) = 7
    BY <1>3 DEF Startup, ApiStart, Await
  <2>2. /\ StartOf(3) = "transfersRepo" /\ StartOf(4) = "bulkRepo"
        /\ StartOf(5) = "authorization" /\ StartOf(6) = "tokenHelper" /\ StartOf(7) = "express"
    BY <2>1 DEF StartOf, ApiStart, Await
  <2>3. /\ Entry[service] = "express"
        /\ Needs[service] = {"transfersRepo", "bulkRepo", "authorization", "tokenHelper"}
    BY <1>3 DEF Entry, Needs
  <2> QED
    BY <2>1, <2>2, <2>3
<1> QED
  BY <1>1, <1>2, <1>3 DEF Startup

\* The sequences of stop, of the services that read topics.
LEMMA StopSequences ==
    ASSUME service \in DOMAIN Startup, service # "api"
    PROVE  /\ Len(Shutdown[service]) = 7
           /\ Shutdown[service][3] = "consumer"
           /\ Shutdown[service][4] = "producer"
           /\ \A n \in 1..7 : /\ Shutdown[service][n] \notin Repositories
                              /\ Shutdown[service][n] = "producer" => n = 4
<1>1. service \in {"eventHandler", "commandHandler"}
  BY DEF Startup
<1>2. Shutdown[service] = EventHandlerStop
  BY <1>1 DEF Shutdown, EventHandlerStop, CommandHandlerStop
<1>3. /\ EventHandlerStop[1] = "express" /\ EventHandlerStop[2] = "reading"
      /\ EventHandlerStop[3] = "consumer" /\ EventHandlerStop[4] = "producer"
      /\ EventHandlerStop[5] = "config" /\ EventHandlerStop[6] = "audit"
      /\ EventHandlerStop[7] = "logger" /\ Len(EventHandlerStop) = 7
  BY DEF EventHandlerStop
<1>4. \A n \in 1..7 : n \in {1, 2, 3, 4, 5, 6, 7}
  OBVIOUS
<1> QED
  BY <1>2, <1>3, <1>4 DEF Repositories

LEMMA StartServes ==
    ASSUME EventTypes, ServeInv, StartStep
    PROVE  ServeInv'
<1> DEFINE last == Len(Startup[service])
<1>1. /\ clients \in [Clients -> {"none", "created", "ready", "closed"}]
      /\ service \in DOMAIN Startup
      /\ startAt \in 1..last /\ last \in Nat
  BY Awaits DEF EventTypes, EventHandlerTypeOK, StartStep, Starting
<1>2. /\ ~Hopeless(StartOf(startAt))
      /\ clients' = [c \in Clients |->
                        IF c = StartOf(startAt) THEN "ready"
                        ELSE IF c \in MadeAt(startAt) THEN "created" ELSE clients[c]]
      /\ startAt' = startAt + 1
      /\ UNCHANGED <<service, stopAt>>
  BY DEF StartStep, StartOf, MadeAt
<1>3. /\ StartOf(startAt) \in Clients /\ MadeAt(startAt) \subseteq Clients
      /\ \A k \in 1..last : /\ StartOf(k) \in Clients /\ MadeAt(k) \subseteq Clients
                            /\ StartOf(k) = StartOf(startAt) => k = startAt
                            /\ k <= startAt => StartOf(k) \notin MadeAt(startAt)
                            /\ startAt <= k => StartOf(startAt) \notin MadeAt(k)
                            /\ k # startAt => MadeAt(k) \cap MadeAt(startAt) = {}
  <2>1. \A k \in 1..last : k < startAt \/ startAt < k \/ k = startAt
    BY <1>1
  <2> QED
    BY <1>1, <2>1, StartSequences
<1>4. \A k \in 1..last : StartOf(k)' = StartOf(k) /\ MadeAt(k)' = MadeAt(k)
  BY <1>2 DEF StartOf, MadeAt
<1>5. \A c \in Clients : /\ clients'[c] = "closed" => clients[c] = "closed"
                         /\ clients[c] # "none" => clients'[c] # "none"
  BY <1>1, <1>2
<1> HIDE DEF last
<1>6. ASSUME NEW k \in 1..last
      PROVE  /\ k < startAt + 1 => clients'[StartOf(k)] \in {"ready", "closed"}
             /\ k >= startAt + 1 => clients'[StartOf(k)] # "ready"
             /\ \A c \in MadeAt(k) : clients'[c] = "none" <=> startAt + 1 <= k
  <2>1. /\ k < startAt => clients[StartOf(k)] \in {"ready", "closed"}
        /\ k >= startAt => clients[StartOf(k)] # "ready"
        /\ \A c \in MadeAt(k) : clients[c] = "none" <=> startAt <= k
    BY <1>6 DEF ServeInv, last
  <2>2. CASE k = startAt
    <3>1. clients'[StartOf(k)] = "ready"
      BY <1>2, <1>3, <2>2
    <3>2. \A c \in MadeAt(k) : clients'[c] # "none"
      BY <1>2, <1>3, <2>2
    <3> QED
      BY <1>1, <2>2, <3>1, <3>2
  <2>3. CASE k < startAt
    <3>1. clients'[StartOf(k)] = clients[StartOf(k)]
      BY <1>1, <1>2, <1>3, <2>3
    <3>2. \A c \in MadeAt(k) : clients'[c] # "none"
      BY <1>1, <1>3, <1>5, <2>1, <2>3
    <3> QED
      BY <1>1, <2>1, <2>3, <3>1, <3>2
  <2>4. CASE startAt < k
    <3>1. clients'[StartOf(k)] # "ready"
      BY <1>1, <1>2, <1>3, <2>1, <2>4
    <3>2. \A c \in MadeAt(k) : clients'[c] = clients[c]
      BY <1>1, <1>2, <1>3, <2>4
    <3> QED
      BY <1>1, <2>1, <2>4, <3>1, <3>2
  <2> QED
    BY <1>1, <2>2, <2>3, <2>4
<1>7. \A c \in Clients : clients'[c] = "closed" => stopAt' # 0
  BY <1>2, <1>5 DEF ServeInv
<1>8. ASSUME service # "api"
      PROVE  /\ \A c \in Repositories : clients'[c] # "closed"
             /\ clients'["producer"] # "none" => clients'["consumer"] # "none"
             /\ stopAt = 4 => clients'["consumer"] = "closed"
             /\ clients'["producer"] = "closed" => clients'["consumer"] = "closed"
             /\ clients'["consumer"] = "closed" => clients'["reading"] # "ready"
  <2>1. /\ \A c \in Repositories : clients[c] # "closed"
        /\ clients["producer"] # "none" => clients["consumer"] # "none"
        /\ stopAt = 4 => clients["consumer"] = "closed"
        /\ clients["producer"] = "closed" => clients["consumer"] = "closed"
        /\ clients["consumer"] = "closed" => clients["reading"] # "ready"
    BY <1>8 DEF ServeInv
  <2>2. PICK made \in 1..last :
              /\ "consumer" \in MadeAt(made)
              /\ \A j \in 1..last : /\ StartOf(j) = "producer" => made < j
                                    /\ "producer" \in MadeAt(j) => made = j
    BY <1>1, <1>8, StartSequences DEF last
  <2>3. Repositories \subseteq Clients /\ {"producer", "consumer", "reading"} \subseteq Clients
    BY DEF Repositories, Clients
  <2>4. clients'["producer"] # "none" => clients'["consumer"] # "none"
    <3>1. CASE clients["producer"] # "none"
      BY <1>5, <2>1, <2>3, <3>1
    <3>2. CASE StartOf(startAt) = "producer"
      <4>1. clients["consumer"] # "none"
        BY <1>1, <2>2, <3>2 DEF ServeInv, last
      <4> QED
        BY <1>5, <2>3, <4>1
    <3>3. CASE "producer" \in MadeAt(startAt)
      <4>1. "consumer" \in MadeAt(startAt)
        BY <1>1, <2>2, <3>3
      <4> QED
        BY <1>2, <2>3, <4>1
    <3> QED
      BY <1>2, <2>3, <3>1, <3>2, <3>3
  <2>5. clients["consumer"] = "closed" => /\ clients'["consumer"] = "closed"
                                          /\ StartOf(startAt) # "reading"
    <3>1. ASSUME clients["consumer"] = "closed"
          PROVE  "consumer" \notin MadeAt(startAt)
      BY <1>1, <3>1 DEF ServeInv, last
    <3>2. clients["consumer"] = "closed" => StartOf(startAt) \notin {"consumer", "reading"}
      BY <1>2 DEF Hopeless
    <3> QED
      BY <1>2, <2>3, <3>1, <3>2
  <2>6. StartOf(startAt) # "reading" /\ clients["reading"] # "ready" => clients'["reading"] # "ready"
    BY <1>2, <2>3
  <2> QED
    BY <1>5, <2>1, <2>3, <2>4, <2>5, <2>6
<1> QED
  BY <1>2, <1>4, <1>6, <1>7, <1>8 DEF ServeInv, last

LEMMA StopServes ==
    ASSUME EventTypes, ServeInv, StopStep
    PROVE  ServeInv'
<1>1. /\ clients \in [Clients -> {"none", "created", "ready", "closed"}]
      /\ service \in DOMAIN Startup
      /\ stopAt \in Nat /\ stopAt # 0
      /\ Len(Shutdown[service]) \in Nat /\ Len(Startup[service]) \in Nat
      /\ UNCHANGED <<service, startAt>>
  BY Awaits DEF EventTypes, EventHandlerTypeOK, StopStep, Stopping
<1>2. PICK n \in ToStop :
        LET client  == Shutdown[service][n]
            stopped == IF client = "consumer" THEN {"consumer", "reading"} ELSE {client} IN
        /\ \A m \in ToStop : n <= m
        /\ clients' = [c \in Clients |-> IF c \in stopped /\ clients[c] # "none"
                                         THEN "closed" ELSE clients[c]]
        /\ stopAt' = n + 1
  BY DEF StopStep
<1>3. n \in stopAt..Len(Shutdown[service]) /\ clients[Shutdown[service][n]] # "none" /\ n \in Nat
  BY <1>1, <1>2 DEF ToStop
<1>4. \A c \in Clients : \/ clients'[c] = clients[c]
                         \/ (clients'[c] = "closed" /\ clients[c] # "none")
  BY <1>2
<1>5. \A k \in 1..Len(Startup[service]) : /\ StartOf(k) \in Clients /\ MadeAt(k) \subseteq Clients
                                          /\ StartOf(k)' = StartOf(k) /\ MadeAt(k)' = MadeAt(k)
  <2>1. \A k \in 1..Len(Startup[service]) : StartOf(k) \in Clients /\ MadeAt(k) \subseteq Clients
    BY <1>1, StartSequences
  <2>2. \A k : StartOf(k)' = StartOf(k) /\ MadeAt(k)' = MadeAt(k)
    BY <1>1 DEF StartOf, MadeAt
  <2> QED
    BY <2>1, <2>2
<1>6. ASSUME NEW k \in 1..Len(Startup[service])
      PROVE  /\ k < startAt => clients'[StartOf(k)] \in {"ready", "closed"}
             /\ k >= startAt => clients'[StartOf(k)] # "ready"
             /\ \A c \in MadeAt(k) : clients'[c] = "none" <=> startAt <= k
  <2>1. /\ k < startAt => clients[StartOf(k)] \in {"ready", "closed"}
        /\ k >= startAt => clients[StartOf(k)] # "ready"
        /\ \A c \in MadeAt(k) : clients[c] = "none" <=> startAt <= k
    BY <1>6 DEF ServeInv
  <2>2. \A c \in MadeAt(k) : clients'[c] = "none" <=> clients[c] = "none"
    BY <1>4, <1>5
  <2>3. \/ clients'[StartOf(k)] = clients[StartOf(k)]
        \/ (clients'[StartOf(k)] = "closed" /\ clients[StartOf(k)] # "none")
    BY <1>4, <1>5
  <2> QED
    BY <2>1, <2>2, <2>3
<1>7. stopAt' # 0
  BY <1>2, <1>3
<1>8. ASSUME service # "api"
      PROVE  /\ \A c \in Repositories : clients'[c] # "closed"
             /\ clients'["producer"] # "none" => clients'["consumer"] # "none"
             /\ stopAt' = 4 => clients'["consumer"] = "closed"
             /\ clients'["producer"] = "closed" => clients'["consumer"] = "closed"
             /\ clients'["consumer"] = "closed" => clients'["reading"] # "ready"
  <2>1. /\ \A c \in Repositories : clients[c] # "closed"
        /\ clients["producer"] # "none" => clients["consumer"] # "none"
        /\ stopAt = 4 => clients["consumer"] = "closed"
        /\ clients["producer"] = "closed" => clients["consumer"] = "closed"
        /\ clients["consumer"] = "closed" => clients["reading"] # "ready"
    BY <1>8 DEF ServeInv
  <2>2. /\ Len(Shutdown[service]) = 7
        /\ Shutdown[service][3] = "consumer"
        /\ Shutdown[service][4] = "producer"
        /\ \A m \in 1..7 : /\ Shutdown[service][m] \notin Repositories
                           /\ Shutdown[service][m] = "producer" => m = 4
    BY <1>1, <1>8, StopSequences
  <2>3. n \in 1..7
    BY <1>1, <1>3, <2>2
  <2>4. Repositories \subseteq Clients /\ {"producer", "consumer", "reading"} \subseteq Clients
    BY DEF Repositories, Clients
  <2>5. ASSUME NEW c \in Repositories
        PROVE  clients'[c] = clients[c]
    <3>1. c # Shutdown[service][n] /\ c \notin {"consumer", "reading"}
      BY <2>2, <2>3, <2>5 DEF Repositories
    <3> QED
      BY <1>2, <2>4, <3>1
  <2>6. CASE Shutdown[service][n] = "consumer"
    <3>1. clients' = [c \in Clients |-> IF c \in {"consumer", "reading"} /\ clients[c] # "none"
                                       THEN "closed" ELSE clients[c]]
      BY <1>2, <2>6
    <3>2. clients'["consumer"] = "closed" /\ clients'["reading"] \in {"none", "closed"}
      BY <1>3, <2>4, <2>6, <3>1
    <3> QED
      BY <2>1, <2>5, <3>2
  <2>7. CASE Shutdown[service][n] # "consumer"
    <3>1. clients' = [c \in Clients |-> IF c = Shutdown[service][n] /\ clients[c] # "none"
                                       THEN "closed" ELSE clients[c]]
      BY <1>2, <2>7
    <3>2. clients'["consumer"] = clients["consumer"]
      BY <2>4, <2>7, <3>1
    <3>3. stopAt' # 4
      BY <1>2, <1>3, <2>2, <2>7
    <3>4. clients'["reading"] = "ready" => clients["reading"] = "ready"
      BY <1>4, <2>4
    <3>5. clients'["producer"] # "none" => clients["producer"] # "none"
      BY <1>4, <2>4
    <3>6. clients'["producer"] = "closed" => clients["consumer"] = "closed"
      <4>1. CASE clients["producer"] = "closed"
        BY <2>1, <4>1
      <4>2. CASE n = 4
        <5>1. clients["consumer"] # "none"
          BY <1>3, <2>1, <2>2, <4>2
        <5>2. 3 \notin ToStop
          BY <1>2, <4>2
        <5>3. stopAt = 4
          BY <1>1, <1>3, <2>2, <4>2, <5>1, <5>2 DEF ToStop
        <5> QED
          BY <2>1, <5>3
      <4>3. CASE n # 4 /\ clients["producer"] # "closed"
        <5>1. Shutdown[service][n] # "producer"
          BY <2>2, <2>3, <4>3
        <5> QED
          BY <2>4, <3>1, <4>3, <5>1
      <4> QED
        BY <4>1, <4>2, <4>3
    <3> QED
      BY <2>1, <2>5, <3>2, <3>3, <3>4, <3>5, <3>6
  <2> QED
    BY <2>6, <2>7
<1> QED
  BY <1>1, <1>5, <1>6, <1>7, <1>8 DEF ServeInv

LEMMA EndServes ==
    ASSUME service \in DOMAIN Startup, service' = service,
           clients' = [c \in Clients |-> "none"], startAt' = 1, stopAt' = 0
    PROVE  ServeInv'
<1>1. \A k \in 1..Len(Startup[service]) : /\ StartOf(k) \in Clients /\ MadeAt(k) \subseteq Clients
                                          /\ StartOf(k)' = StartOf(k) /\ MadeAt(k)' = MadeAt(k)
  <2>1. \A k \in 1..Len(Startup[service]) : StartOf(k) \in Clients /\ MadeAt(k) \subseteq Clients
    BY StartSequences
  <2>2. \A k : StartOf(k)' = StartOf(k) /\ MadeAt(k)' = MadeAt(k)
    BY DEF StartOf, MadeAt
  <2> QED
    BY <2>1, <2>2
<1>2. \A c \in Clients : clients'[c] = "none"
  OBVIOUS
<1>3. Repositories \subseteq Clients /\ {"producer", "consumer", "reading"} \subseteq Clients
  BY DEF Repositories, Clients
<1>4. Len(Startup[service]) \in Nat
  BY Awaits
<1>5. ASSUME NEW k \in 1..Len(Startup[service])
      PROVE  /\ k < 1 => clients'[StartOf(k)] \in {"ready", "closed"}
             /\ k >= 1 => clients'[StartOf(k)] # "ready"
             /\ \A c \in MadeAt(k) : clients'[c] = "none" <=> 1 <= k
  BY <1>1, <1>2, <1>4
<1> QED
  BY <1>1, <1>2, <1>3, <1>5 DEF ServeInv

\* The service serves only when all it needs is there.
LEMMA ServesReady ==
    ASSUME EventTypes, ServeInv
    PROVE  ServesOnlyWhenReady
<1> SUFFICES ASSUME clients[Entry[service]] = "ready", service = "api" => stopAt = 0,
                    NEW c \in Needs[service]
             PROVE  clients[c] = "ready"
  BY DEF ServesOnlyWhenReady, Stopping
<1>1. /\ service \in DOMAIN Startup /\ startAt \in Nat /\ Len(Startup[service]) \in Nat
  BY Awaits DEF EventTypes, EventHandlerTypeOK
<1>2. PICK entry \in 1..Len(Startup[service]) :
            /\ StartOf(entry) = Entry[service]
            /\ \A d \in Needs[service] :
                  \E k \in 1..Len(Startup[service]) : k < entry /\ StartOf(k) = d
  BY <1>1, NeededFirst
<1>3. entry < startAt
  BY <1>1, <1>2 DEF ServeInv
<1>4. clients[c] \in {"ready", "closed"}
  BY <1>1, <1>2, <1>3 DEF ServeInv
<1>5. CASE service = "api"
  BY <1>4, <1>5 DEF ServeInv, Needs, Clients
<1>6. CASE service # "api"
  <2>1. Entry[service] = "reading" /\ c \in {"consumer", "producer"} \cup Repositories
    BY <1>1, <1>6 DEF Entry, Needs, Startup, Repositories
  <2> QED
    BY <1>4, <1>6, <2>1 DEF ServeInv
<1> QED
  BY <1>5, <1>6

-----------------------------------------------------------------------------
(* The order of the commands.                                               *)

\* Each event has a number of its own, and is at one place of one topic.
NumbersInv ==
    /\ \A topic \in Topics : \A i \in 1..Len(log[topic]) :
          IsEvent(log[topic][i]) => log[topic][i].number <= Cardinality(Events)
    /\ \A topic, other \in Topics :
          \A i \in 1..Len(log[topic]), j \in 1..Len(log[other]) :
              /\ IsEvent(log[topic][i]) /\ IsEvent(log[other][j])
              /\ log[topic][i].number = log[other][j].number
              => topic = other /\ i = j

\* command was made of the i-th message of the topic, an event.
MadeOf(command, topic, i) ==
    /\ i \in 1..Len(log[topic])
    /\ IsEvent(log[topic][i])
    /\ command = ToCommand(log[topic][i])

MadeInv ==
    \A p \in 1..Len(Requests) : ~IsEvent(Requests[p]) =>
        \E topic \in Topics : \E i \in 1..Len(log[topic]) : MadeOf(Requests[p], topic, i)

\* Of each topic, done messages were committed before the batch was read.  It is what is
\* committed, unless the consumer was destroyed with the batch in hand.
DoneInv(done) ==
    /\ done \in [Topics -> Nat]
    /\ \A topic \in Topics : done[topic] <= committed[topic]

\* The batch has each event that was read since, once, and the events of a topic in their
\* order.
BatchOrder(done) ==
    /\ \A k \in 1..Len(batch) :
          \E topic \in Topics : \E i \in 1..position[topic] :
              done[topic] < i /\ batch[k] = log[topic][i]
    /\ \A k, l \in 1..Len(batch) : IsEvent(batch[k]) /\ batch[k] = batch[l] => k = l
    /\ \A topic \in Topics : \A i, j \in 1..position[topic] :
          done[topic] < i /\ i < j /\ IsEvent(log[topic][j]) =>
              \A l \in 1..Len(batch) : batch[l] = log[topic][j] =>
                  \E k \in 1..Len(batch) : k < l /\ batch[k] = log[topic][i]
    /\ \A topic \in Topics : \A i \in 1..position[topic] :
          done[topic] < i => \E k \in 1..Len(batch) : batch[k] = log[topic][i]

\* The commands are those of the handled events of the batch, in the order of the batch.
CommandsOrder ==
    pc = "mapping" =>
        /\ \A r \in 1..Len(commands) : \E k \in 1..cursor :
              Handled(batch[k]) /\ commands[r] = ToCommand(batch[k])
        /\ \A k \in 1..cursor : Handled(batch[k]) =>
              \E r \in 1..Len(commands) : commands[r] = ToCommand(batch[k])
        /\ \A q, r \in 1..Len(commands), k, l \in 1..cursor :
              /\ Handled(batch[k]) /\ commands[q] = ToCommand(batch[k])
              /\ Handled(batch[l]) /\ commands[r] = ToCommand(batch[l])
              /\ k < l
              => q < r
        /\ \A q, r \in 1..Len(commands) : commands[q] = commands[r] => q = r

\* When the command of an event was sent, that of an earlier event of the topic was sent
\* before, or is lost for good.
SentOrder(done) ==
    \A topic \in Topics : \A i, j \in 1..Len(log[topic]) :
        i < j /\ Handled(log[topic][i]) /\ Handled(log[topic][j]) =>
            \A p \in 1..Len(Requests) : Requests[p] = ToCommand(log[topic][j]) =>
                \/ \E q \in 1..Len(Requests) : q < p /\ Requests[q] = ToCommand(log[topic][i])
                \/ i <= done[topic] /\ ~Sent(log[topic][i])

\* While nothing fails and no signal comes, only what is in the batch will be sent.
SingleInv(done) ==
    /\ signals \in Nat
    /\ faults = 0 /\ signals = 0 =>
          /\ stopAt = 0
          /\ \A p \in 1..Len(Requests) : ~IsEvent(Requests[p]) =>
                \E topic \in Topics : \E i \in 1..Len(log[topic]) :
                    /\ MadeOf(Requests[p], topic, i)
                    /\ \/ i <= done[topic]
                       \/ pc \in {"resolved", "failed"} /\ i <= position[topic]
          /\ \A p, q \in 1..Len(Requests) :
                ~IsEvent(Requests[p]) /\ Requests[p] = Requests[q] => p = q

OrderInv(done) ==
    /\ NumbersInv /\ MadeInv /\ DoneInv(done) /\ BatchOrder(done)
    /\ CommandsOrder /\ SentOrder(done) /\ SingleInv(done)

Ordered == \E done \in [Topics -> Nat] : OrderInv(done)

LEMMA CommandOfEvent ==
    ASSUME NEW m \in Message
    PROVE  /\ ToCommand(m).number = m.number
           /\ ~IsEvent(ToCommand(m))
<1> DEFINE name == IF m.name \in DOMAIN CommandOf THEN CommandOf[m.name] ELSE m.name
<1> HIDE DEF name
<1>1. ToCommand(m) = [[m EXCEPT !.type = "COMMAND"] EXCEPT !.name = name]
  BY Zenon DEF ToCommand, name
<1>2. /\ [[m EXCEPT !.type = "COMMAND"] EXCEPT !.name = name].number = m.number
      /\ [[m EXCEPT !.type = "COMMAND"] EXCEPT !.name = name].type = "COMMAND"
  BY DEF Message
<1> QED
  BY <1>1, <1>2 DEF IsEvent

\* What is read, what is committed and the batch, typed.
LEMMA Places ==
    ASSUME EventTypes
    PROVE  /\ \A topic \in Topics :
                 /\ log[topic] \in Seq(Message) /\ Len(log[topic]) \in Nat
                 /\ committed[topic] \in Nat /\ position[topic] \in Nat
                 /\ committed[topic] <= position[topic] /\ position[topic] <= Len(log[topic])
                 /\ \A i \in 1..Len(log[topic]) : log[topic][i] \in Message
           /\ batch \in Seq(Message) /\ Len(batch) \in Nat
           /\ commands \in Seq(Message) /\ Len(commands) \in Nat
           /\ "DomainRequests" \in Topics
<1>1. /\ \A topic \in Topics : log[topic] \in Seq(Message)
      /\ batch \in Seq(Message) /\ commands \in Seq(Message)
  BY DEF EventTypes, EventHandlerTypeOK
<1>2. ASSUME NEW s \in Seq(Message)
      PROVE  Len(s) \in Nat /\ \A i \in 1..Len(s) : s[i] \in Message
  BY <1>2
<1>3. \A topic \in Topics :
        /\ committed[topic] \in Nat /\ position[topic] \in Nat
        /\ committed[topic] <= position[topic] /\ position[topic] <= Len(log[topic])
  BY DEF EventTypes, EventHandlerTypeOK
<1> QED
  BY <1>1, <1>2, <1>3 DEF Topics

\* What was committed before the batch was read lies behind the position.
LEMMA DonePlaces ==
    ASSUME EventTypes, NEW done, DoneInv(done)
    PROVE  \A topic \in Topics : done[topic] \in Nat /\ done[topic] <= position[topic]
<1>1. ASSUME NEW topic \in Topics
      PROVE  done[topic] \in Nat /\ done[topic] <= position[topic]
  <2>1. committed[topic] \in Nat /\ position[topic] \in Nat /\ committed[topic] <= position[topic]
    BY Places
  <2>2. done[topic] \in Nat /\ done[topic] <= committed[topic]
    BY DEF DoneInv
  <2> QED
    BY <2>1, <2>2
<1> QED
  BY <1>1

\* Two events with the same command are one.
LEMMA OnePlace ==
    ASSUME EventTypes, NumbersInv,
           NEW topic \in Topics, NEW i \in 1..Len(log[topic]), IsEvent(log[topic][i]),
           NEW other \in Topics, NEW j \in 1..Len(log[other]), IsEvent(log[other][j]),
           \/ log[topic][i] = log[other][j]
           \/ ToCommand(log[topic][i]) = ToCommand(log[other][j])
    PROVE  topic = other /\ i = j
<1>1. log[topic][i] \in Message /\ log[other][j] \in Message
  BY Places
<1>2. log[topic][i].number = log[other][j].number
  BY <1>1, CommandOfEvent
<1> QED
  BY <1>2 DEF NumbersInv

\* Where the commands that are about to be sent come from.
LEMMA CommandsPlace ==
    ASSUME EventTypes, NEW done, BatchOrder(done), CommandsOrder, pc = "mapping",
           NEW r \in 1..Len(commands)
    PROVE  \E topic \in Topics : \E i \in 1..position[topic] : \E k \in 1..cursor :
              /\ MadeOf(commands[r], topic, i)
              /\ done[topic] < i
              /\ Handled(log[topic][i])
              /\ k \in 1..Len(batch) /\ batch[k] = log[topic][i]
              /\ commands[r] = ToCommand(batch[k])
<1>1. PICK k \in 1..cursor : Handled(batch[k]) /\ commands[r] = ToCommand(batch[k])
  BY DEF CommandsOrder
<1>2. k \in 1..Len(batch)
  BY <1>1, Places DEF EventTypes
<1>3. PICK topic \in Topics : \E i \in 1..position[topic] :
          done[topic] < i /\ batch[k] = log[topic][i]
  BY <1>2 DEF BatchOrder
<1>4. PICK i \in 1..position[topic] : done[topic] < i /\ batch[k] = log[topic][i]
  BY <1>3
<1>5. i \in 1..Len(log[topic])
  BY <1>4, Places
<1> QED
  BY <1>1, <1>2, <1>3, <1>4, <1>5 DEF MadeOf, Handled

\* An event that was read before another of its topic is before it in the batch.
LEMMA EarlierInBatch ==
    ASSUME NEW done, BatchOrder(done), NEW topic \in Topics,
           NEW i \in 1..position[topic], NEW j \in 1..position[topic],
           done[topic] < i, i < j, IsEvent(log[topic][j]),
           NEW l \in 1..Len(batch), batch[l] = log[topic][j]
    PROVE  \E k \in 1..Len(batch) : k < l /\ batch[k] = log[topic][i]
<1> DEFINE Before(m) == \E k \in 1..Len(batch) : k < l /\ batch[k] = m
<1>1. \A x, y \in 1..position[topic] :
         done[topic] < x /\ x < y /\ IsEvent(log[topic][y]) =>
             \A k \in 1..Len(batch) : batch[k] = log[topic][y] =>
                 \E h \in 1..Len(batch) : h < k /\ batch[h] = log[topic][x]
  BY Zenon DEF BatchOrder
<1>2. \A k \in 1..Len(batch) : batch[k] = log[topic][j] =>
         \E h \in 1..Len(batch) : h < k /\ batch[h] = log[topic][i]
  BY Zenon, <1>1
<1> QED
  BY Zenon, <1>2

\* Steps that write nothing to a topic.
LEMMA SilentOrder ==
    ASSUME EventTypes, NEW done, OrderInv(done), UNCHANGED log, signals' \in Nat,
           NEW next, DoneInv(next)', BatchOrder(next)', CommandsOrder',
           \A topic \in Topics : done[topic] <= next[topic],
           faults' = 0 /\ signals' = 0 =>
              /\ faults = 0 /\ signals = 0 /\ stopAt' = stopAt
              /\ pc \in {"resolved", "failed"} =>
                    \/ pc' \in {"resolved", "failed"} /\ position' = position
                    \/ next = position
    PROVE  OrderInv(next)'
<1>0. \A topic \in Topics : done[topic] \in Nat /\ next[topic] \in Nat
  BY DEF OrderInv, DoneInv
<1>1. NumbersInv' /\ MadeInv'
  <2>1. Events' = Events
    BY DEF Events, Messages
  <2>2. NumbersInv'
    BY <2>1 DEF OrderInv, NumbersInv, IsEvent
  <2>3. \A p, topic, i : MadeOf(Requests[p], topic, i)' <=> MadeOf(Requests[p], topic, i)
    BY DEF MadeOf, IsEvent, Requests, ToCommand
  <2>4. \A p : IsEvent(Requests[p])' <=> IsEvent(Requests[p])
    BY DEF IsEvent, Requests
  <2>5. MadeInv'
    BY Zenon, <2>3, <2>4 DEF OrderInv, MadeInv, Requests
  <2> QED
    BY <2>2, <2>5
<1>2. SentOrder(next)'
  <2>1. \A topic \in Topics : \A i \in 1..Len(log[topic]) :
           i <= done[topic] => i <= next[topic]
    BY <1>0, Places
  <2>2. \A topic, i : /\ Sent(log[topic][i])' <=> Sent(log[topic][i])
                      /\ Handled(log[topic][i])' <=> Handled(log[topic][i])
                      /\ ToCommand(log[topic][i])' = ToCommand(log[topic][i])
    BY DEF Sent, Messages, Handled, IsEvent, ToCommand
  <2> SUFFICES ASSUME NEW topic \in Topics,
                      NEW i \in 1..Len(log[topic]), NEW j \in 1..Len(log[topic]),
                      i < j, Handled(log[topic][i]), Handled(log[topic][j]),
                      NEW p \in 1..Len(Requests), Requests[p] = ToCommand(log[topic][j])
               PROVE  \/ \E q \in 1..Len(Requests) : q < p /\ Requests[q] = ToCommand(log[topic][i])
                      \/ i <= next[topic] /\ ~Sent(log[topic][i])
    BY <2>2 DEF SentOrder, Requests
  <2>3. \/ \E q \in 1..Len(Requests) : q < p /\ Requests[q] = ToCommand(log[topic][i])
        \/ i <= done[topic] /\ ~Sent(log[topic][i])
    BY DEF OrderInv, SentOrder
  <2> QED
    BY <2>1, <2>3
<1>3. SingleInv(next)'
  <2> SUFFICES ASSUME faults' = 0, signals' = 0
               PROVE  /\ stopAt' = 0
                      /\ \A p \in 1..Len(Requests) : ~IsEvent(Requests[p]) =>
                            \E topic \in Topics : \E i \in 1..Len(log[topic]) :
                                /\ MadeOf(Requests[p], topic, i)
                                /\ \/ i <= next[topic]
                                   \/ pc' \in {"resolved", "failed"} /\ i <= position'[topic]
                      /\ \A p, q \in 1..Len(Requests) :
                            ~IsEvent(Requests[p]) /\ Requests[p] = Requests[q] => p = q
    BY DEF SingleInv, Requests, IsEvent, MadeOf, ToCommand
  <2>1. /\ stopAt = 0
        /\ \A p, q \in 1..Len(Requests) :
              ~IsEvent(Requests[p]) /\ Requests[p] = Requests[q] => p = q
    BY DEF OrderInv, SingleInv
  <2>2. ASSUME NEW p \in 1..Len(Requests), ~IsEvent(Requests[p])
        PROVE  \E topic \in Topics : \E i \in 1..Len(log[topic]) :
                  /\ MadeOf(Requests[p], topic, i)
                  /\ \/ i <= next[topic]
                     \/ pc' \in {"resolved", "failed"} /\ i <= position'[topic]
    <3>1. PICK topic \in Topics : \E i \in 1..Len(log[topic]) :
              /\ MadeOf(Requests[p], topic, i)
              /\ \/ i <= done[topic]
                 \/ pc \in {"resolved", "failed"} /\ i <= position[topic]
      BY <2>2 DEF OrderInv, SingleInv
    <3>2. PICK i \in 1..Len(log[topic]) :
              /\ MadeOf(Requests[p], topic, i)
              /\ \/ i <= done[topic]
                 \/ pc \in {"resolved", "failed"} /\ i <= position[topic]
      BY <3>1
    <3>3. i <= done[topic] => i <= next[topic]
      BY <1>0, Places
    <3> QED
      BY <3>2, <3>3
  <2> QED
    BY <2>1, <2>2
<1> QED
  BY <1>1, <1>2, <1>3 DEF OrderInv

LEMMA BatchFrame ==
    ASSUME NEW done, OrderInv(done), UNCHANGED <<log, position, batch>>
    PROVE  BatchOrder(done)'
BY DEF OrderInv, BatchOrder, IsEvent

LEMMA CommandsFrame ==
    ASSUME NEW done, OrderInv(done), UNCHANGED <<pc, cursor, batch, commands>>
    PROVE  CommandsOrder'
<1>1. \A k : /\ Handled(batch[k])' <=> Handled(batch[k])
             /\ ToCommand(batch[k])' = ToCommand(batch[k])
  BY DEF Handled, IsEvent, ToCommand
<1> QED
  BY <1>1 DEF OrderInv, CommandsOrder

\* Steps of the service while the process lives: the handler is as it was, whatever the
\* consumer committed on its way down.
LEMMA ServiceOrder ==
    ASSUME EventInv, NEW done, OrderInv(done),
           \/ (StartStep \/ Signal) /\ UNCHANGED eventVars
           \/ StopStep /\ StopCommits
    PROVE  OrderInv(done)'
<1>0. EventTypes /\ signals \in Nat
  BY DEF EventInv, OrderInv, SingleInv
<1>1. /\ UNCHANGED <<log, position, batch, pc, cursor, commands, faults>>
      /\ committed' \in {committed, position}
  BY DEF eventVars, batchVars, StartStep, StopStep, StopCommits, Signal
<1>2. BatchOrder(done)' /\ CommandsOrder'
  BY <1>1, BatchFrame, CommandsFrame
<1>3. \A topic \in Topics : done[topic] \in Nat /\ done[topic] <= position[topic]
  BY <1>0, DonePlaces DEF OrderInv
<1>4. DoneInv(done)' /\ \A other \in Topics : done[other] <= done[other]
  BY <1>1, <1>3 DEF OrderInv, DoneInv
<1>5. /\ signals' \in Nat
      /\ signals' = 0 => signals = 0
      /\ stopAt = 0 /\ signals' = 0 => stopAt' = stopAt
  BY <1>0 DEF StartStep, StopStep, Signal, Stopping
<1>6. faults = 0 /\ signals = 0 => stopAt = 0
  BY DEF OrderInv, SingleInv
<1> QED
  BY <1>0, <1>1, <1>2, <1>4, <1>5, <1>6, SilentOrder

\* The process ends: the handler begins anew behind what is committed.
LEMMA EndOrder ==
    ASSUME EventInv, ServeInv, NEW done, OrderInv(done), NEW next, next = committed,
           (StartRejected \/ StopDone \/ Killed) /\ MemoryLost
    PROVE  OrderInv(next)'
<1>0. /\ EventTypes /\ faults \in Nat /\ signals \in Nat /\ service \in DOMAIN Startup
      /\ startAt \in Nat
  BY DEF EventInv, EventTypes, EventHandlerTypeOK, OrderInv, SingleInv
<1>1. UNCHANGED <<log, committed>> /\ position' = committed /\ batch' = <<>> /\ pc' = "idle"
  BY DEF MemoryLost
<1>2. \A topic \in Topics : done[topic] <= next[topic]
  BY DEF OrderInv, DoneInv
<1>3. DoneInv(next)'
  <2>1. \A topic \in Topics : next[topic] <= committed[topic]
    BY <1>0, Places
  <2> QED
    BY <1>0, <1>1, <2>1 DEF DoneInv, EventTypes
<1>4. BatchOrder(next)' /\ CommandsOrder'
  <2>1. \A topic \in Topics : \A i \in 1..next[topic] : ~(next[topic] < i)
    BY <1>0, Places
  <2> QED
    BY <1>1, <2>1 DEF BatchOrder, CommandsOrder
<1>5. signals' = signals
  BY DEF StartRejected, StopDone, Killed, Ended
<1>6. ~(faults' = 0 /\ signals' = 0)
  <2> SUFFICES ASSUME faults' = 0, signals' = 0
               PROVE  FALSE
    OBVIOUS
  <2>1. CASE Killed
    BY <1>0, <2>1 DEF Killed, Mishap
  <2>2. CASE StartRejected \/ StopDone
    <3>1. faults = 0 /\ stopAt = 0
      BY <1>5, <2>2 DEF StartRejected, StopDone, OrderInv, SingleInv
    <3>2. StartRejected /\ startAt \in 1..Len(Startup[service])
      BY <1>0, <2>2, <3>1 DEF StartRejected, StopDone, Stopping, Starting,
                             EventTypes, EventHandlerTypeOK
    <3>3. StartOf(startAt) \in Clients /\ "consumer" \in Clients
      BY <1>0, <3>2, StartSequences DEF Clients
    <3>4. Hopeless(StartOf(startAt))
      BY <3>2 DEF StartRejected, StartOf
    <3> QED
      BY <3>1, <3>3, <3>4 DEF Hopeless, ServeInv
  <2> QED
    BY <2>1, <2>2
<1> QED
  BY <1>0, <1>1, <1>2, <1>3, <1>4, <1>5, <1>6, SilentOrder

LEMMA PublishOrder ==
    ASSUME EventInv, NEW done, OrderInv(done), NEW name \in Inputs, NEW id \in Ids, NEW opaque \in BOOLEAN,
           Publish(name, id, opaque)
    PROVE  OrderInv(done)'
<1> DEFINE m == [type |-> "DOMAIN_EVENT", name |-> name, id |-> id,
                 opaque |-> opaque, number |-> Cardinality(Events) + 1]
           target == TopicOf(name)
<1>0. EventTypes /\ log \in [Topics -> Seq(Message)]
  BY DEF EventInv, EventTypes, EventHandlerTypeOK
<1>1. target \in Topics
  BY DEF TopicOf, Topics
<1>2. /\ IsFiniteSet(Events) /\ Cardinality(Events) \in Nat
      /\ m.number = Cardinality(Events) + 1 /\ m.type = "DOMAIN_EVENT"
  BY <1>0, EventsFinite
<1>3. m \in Message
  <2>1. Cardinality(Events) + 1 \in 1..MaxEvents
    BY <1>2, EventsAssumption DEF Publish
  <2>2. name \in EventNames
    BY EventsAssumption
  <2> QED
    BY <2>1, <2>2 DEF Message
<1>4. /\ log' = [log EXCEPT ![target] = Append(log[target], m)]
      /\ UNCHANGED <<committed, position, batch, pc, cursor, commands, stopAt, signals, faults>>
      /\ pc = "idle" /\ batch = <<>>
  BY DEF Publish, serviceVars, batchVars
<1> HIDE DEF m, target
<1>5. IsEvent(m)
  BY <1>2 DEF IsEvent
<1>6. /\ \A topic \in Topics :
            /\ Len(log'[topic]) \in Nat
            /\ Len(log[topic]) <= Len(log'[topic])
            /\ \A i \in 1..Len(log[topic]) : log'[topic][i] = log[topic][i]
            /\ \A i \in 1..Len(log'[topic]) :
                  \/ i \in 1..Len(log[topic])
                  \/ topic = target /\ i = Len(log[topic]) + 1 /\ log'[topic][i] = m
  <2> SUFFICES ASSUME NEW topic \in Topics
               PROVE  /\ Len(log'[topic]) \in Nat
                      /\ Len(log[topic]) <= Len(log'[topic])
                      /\ \A i \in 1..Len(log[topic]) : log'[topic][i] = log[topic][i]
                      /\ \A i \in 1..Len(log'[topic]) :
                            \/ i \in 1..Len(log[topic])
                            \/ topic = target /\ i = Len(log[topic]) + 1 /\ log'[topic][i] = m
    OBVIOUS
  <2>1. log[topic] \in Seq(Message) /\ Len(log[topic]) \in Nat
    BY <1>0
  <2>2. CASE topic = target
    <3>1. log'[topic] = Append(log[topic], m)
      BY <1>0, <1>1, <1>4, <2>2
    <3> QED
      BY <1>3, <2>1, <2>2, <3>1
  <2>3. CASE topic # target
    <3>1. log'[topic] = log[topic]
      BY <1>0, <1>4, <2>3
    <3> QED
      BY <2>1, <3>1
  <2> QED
    BY <2>2, <2>3
<1>7. \A topic \in Topics : /\ Len(log[topic]) \in Nat
                            /\ \A i \in 1..Len(log[topic]) : log[topic][i] \in Message
  BY <1>0, Places
<1>8. \A topic \in Topics : \A i \in 1..Len(log[topic]) :
         IsEvent(log[topic][i]) => /\ log[topic][i].number <= Cardinality(Events)
                                   /\ log[topic][i].number \in Nat
                                   /\ log[topic][i].number # m.number
  <2>1. \A topic \in Topics : \A i \in 1..Len(log[topic]) : log[topic][i].number \in Nat
    BY <1>7 DEF Message
  <2>2. \A topic \in Topics : \A i \in 1..Len(log[topic]) :
           IsEvent(log[topic][i]) => log[topic][i].number <= Cardinality(Events)
    BY DEF OrderInv, NumbersInv
  <2> QED
    BY <1>2, <2>1, <2>2
<1>9. Cardinality(Events') = Cardinality(Events) + 1
  <2>1. \A topic \in Topics : /\ Messages(topic) = {log[topic][i] : i \in 1..Len(log[topic])}
                              /\ Messages(topic)' = {log'[topic][i] : i \in 1..Len(log'[topic])}
    <3> SUFFICES ASSUME NEW topic \in Topics
                 PROVE  /\ DOMAIN log[topic] = 1..Len(log[topic])
                        /\ DOMAIN log'[topic] = 1..Len(log'[topic])
      BY DEF Messages
    <3>1. log[topic] \in Seq(Message)
      BY <1>0
    <3>2. log'[topic] = log[topic] \/ log'[topic] = Append(log[topic], m)
      BY <1>0, <1>4
    <3>3. log'[topic] \in Seq(Message)
      BY <1>3, <3>1, <3>2
    <3> QED
      BY <3>1, <3>3
  <2>2. m \notin Events
    <3> SUFFICES ASSUME NEW topic \in Topics, NEW i \in 1..Len(log[topic]), m = log[topic][i]
                 PROVE  FALSE
      BY <2>1 DEF Events
    <3> QED
      BY <1>5, <1>8
  <2>3. Events' = Events \cup {m}
    <3>1. ASSUME NEW e \in Events
          PROVE  e \in Events'
      <4>1. PICK topic \in Topics : \E i \in 1..Len(log[topic]) : e = log[topic][i]
        BY <2>1 DEF Events
      <4>2. PICK i \in 1..Len(log[topic]) : e = log[topic][i]
        BY <4>1
      <4>3. i \in 1..Len(log'[topic]) /\ log'[topic][i] = e
        BY <1>6, <1>7, <4>2
      <4>4. e \in Messages(topic)' /\ e.type = "DOMAIN_EVENT"
        BY <2>1, <4>3 DEF Events
      <4> QED
        BY <4>4 DEF Events
    <3>2. m \in Events'
      <4>1. log'[target] = Append(log[target], m) /\ log[target] \in Seq(Message)
        BY <1>0, <1>1, <1>4
      <4>2. Len(log[target]) + 1 \in 1..Len(log'[target]) /\ log'[target][Len(log[target]) + 1] = m
        BY <1>3, <4>1
      <4>3. m \in Messages(target)'
        BY <1>1, <2>1, <4>2
      <4> QED
        BY <1>1, <1>2, <4>3 DEF Events
    <3>3. ASSUME NEW e \in Events', e # m
          PROVE  e \in Events
      <4>1. PICK topic \in Topics : \E i \in 1..Len(log'[topic]) : e = log'[topic][i]
        BY <2>1 DEF Events
      <4>2. PICK i \in 1..Len(log'[topic]) : e = log'[topic][i]
        BY <4>1
      <4>3. i \in 1..Len(log[topic]) /\ e = log[topic][i]
        BY <1>6, <3>3, <4>2
      <4>4. e \in Messages(topic) /\ e.type = "DOMAIN_EVENT"
        BY <2>1, <4>3 DEF Events
      <4> QED
        BY <4>4 DEF Events
    <3> QED
      BY <3>1, <3>2, <3>3
  <2> QED
    BY <1>2, <2>2, <2>3, FS_AddElement
<1>10. NumbersInv'
  <2>1. ASSUME NEW topic \in Topics, NEW i \in 1..Len(log'[topic]), IsEvent(log'[topic][i])
        PROVE  log'[topic][i].number <= Cardinality(Events')
    BY <1>2, <1>6, <1>8, <1>9, <2>1
  <2>2. ASSUME NEW topic \in Topics, NEW other \in Topics,
               NEW i \in 1..Len(log'[topic]), NEW j \in 1..Len(log'[other]),
               IsEvent(log'[topic][i]), IsEvent(log'[other][j]),
               log'[topic][i].number = log'[other][j].number
        PROVE  topic = other /\ i = j
    <3>1. CASE i \in 1..Len(log[topic]) /\ j \in 1..Len(log[other])
      <4>1. log'[topic][i] = log[topic][i] /\ log'[other][j] = log[other][j]
        BY <1>6, <3>1
      <4> QED
        BY <2>2, <3>1, <4>1 DEF OrderInv, NumbersInv
    <3>2. CASE i \in 1..Len(log[topic]) /\ j \notin 1..Len(log[other])
      <4>1. log'[topic][i] = log[topic][i] /\ log'[other][j] = m
        BY <1>6, <3>2
      <4> QED
        BY <1>8, <2>2, <3>2, <4>1
    <3>3. CASE i \notin 1..Len(log[topic]) /\ j \in 1..Len(log[other])
      <4>1. log'[topic][i] = m /\ log'[other][j] = log[other][j]
        BY <1>6, <3>3
      <4> QED
        BY <1>8, <2>2, <3>3, <4>1
    <3>4. CASE i \notin 1..Len(log[topic]) /\ j \notin 1..Len(log[other])
      BY <1>6, <3>4
    <3> QED
      BY <3>1, <3>2, <3>3, <3>4
  <2>3. \A topic, i : IsEvent(log[topic][i])' <=> IsEvent(log'[topic][i])
    BY DEF IsEvent
  <2> QED
    BY <2>1, <2>2, <2>3 DEF NumbersInv
<1>11. \A topic \in Topics : \A i \in 1..Len(log[topic]) :
          /\ i \in 1..Len(log'[topic])
          /\ ToCommand(log'[topic][i]) = ToCommand(log[topic][i])
          /\ \A c : MadeOf(c, topic, i) => MadeOf(c, topic, i)'
  <2> SUFFICES ASSUME NEW topic \in Topics, NEW i \in 1..Len(log[topic])
               PROVE  /\ i \in 1..Len(log'[topic])
                      /\ ToCommand(log'[topic][i]) = ToCommand(log[topic][i])
                      /\ \A c : MadeOf(c, topic, i) => MadeOf(c, topic, i)'
    OBVIOUS
  <2>1. i \in 1..Len(log'[topic]) /\ log'[topic][i] = log[topic][i]
    BY <1>6, <1>7
  <2> QED
    BY <2>1 DEF MadeOf, IsEvent, ToCommand
<1> DEFINE old == Len(Requests)
<1>12. /\ old \in Nat /\ old <= Len(Requests') /\ Len(Requests') \in Nat
       /\ \A p \in 1..old : Requests'[p] = Requests[p] /\ p \in 1..Len(Requests')
       /\ \A p \in 1..Len(Requests') : IsEvent(Requests'[p]) \/ p \in 1..old
  <2>1. "DomainRequests" \in Topics
    BY DEF Topics
  <2>2. /\ Len(Requests) \in Nat /\ Len(Requests') \in Nat /\ Len(Requests) <= Len(Requests')
        /\ \A i \in 1..Len(Requests) : Requests'[i] = Requests[i]
        /\ \A i \in 1..Len(Requests') :
                  \/ i \in 1..Len(Requests)
                  \/ Requests'[i] = m
    BY <1>6, <1>7, <2>1 DEF Requests
  <2> QED
    BY <1>5, <2>2
<1> HIDE DEF old
<1>13. MadeInv'
  <2> SUFFICES ASSUME NEW p \in 1..Len(Requests'), ~IsEvent(Requests'[p])
               PROVE  \E topic \in Topics : \E i \in 1..Len(log'[topic]) :
                          MadeOf(Requests[p], topic, i)'
    BY DEF MadeInv, IsEvent
  <2>1. p \in 1..old /\ Requests'[p] = Requests[p]
    BY <1>12
  <2>2. PICK topic \in Topics : \E i \in 1..Len(log[topic]) : MadeOf(Requests[p], topic, i)
    BY <2>1 DEF OrderInv, MadeInv, old
  <2>3. PICK i \in 1..Len(log[topic]) : MadeOf(Requests[p], topic, i)
    BY <2>2
  <2>4. i \in 1..Len(log'[topic]) /\ MadeOf(Requests[p], topic, i)'
    BY <1>11, <2>1, <2>3 DEF MadeOf, IsEvent, ToCommand
  <2> QED
    BY <2>4
<1>14. DoneInv(done)' /\ BatchOrder(done)' /\ CommandsOrder'
  <2>1. \A topic \in Topics : \A i \in 1..position[topic] : ~(done[topic] < i)
    BY <1>4 DEF OrderInv, BatchOrder
  <2> QED
    BY <1>4, <2>1 DEF OrderInv, DoneInv, BatchOrder, CommandsOrder

<1>15. \A topic \in Topics : \A i \in 1..Len(log'[topic]) :
          log'[topic][i] \in Message /\ ~IsEvent(ToCommand(log'[topic][i]))
  <2>1. \A topic \in Topics : \A i \in 1..Len(log'[topic]) : log'[topic][i] \in Message
    BY <1>3, <1>6, <1>7
  <2> QED
    BY <2>1, CommandOfEvent
<1>16. SentOrder(done)'
  <2> SUFFICES ASSUME NEW topic \in Topics,
                      NEW i \in 1..Len(log'[topic]), NEW j \in 1..Len(log'[topic]), i < j,
                      Handled(log'[topic][i]), Handled(log'[topic][j]),
                      NEW p \in 1..Len(Requests'), Requests'[p] = ToCommand(log'[topic][j])
               PROVE  \/ \E q \in 1..Len(Requests') :
                            q < p /\ Requests'[q] = ToCommand(log'[topic][i])
                      \/ /\ i <= done[topic]
                         /\ ToCommand(log'[topic][i]) \notin Messages("DomainRequests")'
    <3>1. \A u, k : /\ Handled(log[u][k])' <=> Handled(log'[u][k])
                    /\ ToCommand(log[u][k])' = ToCommand(log'[u][k])
                    /\ Sent(log[u][k])' <=> ToCommand(log'[u][k]) \in Messages("DomainRequests")'
      BY DEF Handled, IsEvent, Sent, ToCommand
    <3> QED
      BY <3>1 DEF SentOrder
  <2>1. p \in 1..old /\ Requests'[p] = Requests[p] /\ ~IsEvent(Requests[p])
    BY <1>12, <1>15
  <2>2. j \in 1..Len(log[topic])
    <3> SUFFICES ASSUME log'[topic][j] = m
                 PROVE  FALSE
      BY <1>6
    <3>1. PICK other \in Topics : \E k \in 1..Len(log[other]) : MadeOf(Requests[p], other, k)
      BY <2>1 DEF OrderInv, MadeInv, old
    <3>2. PICK k \in 1..Len(log[other]) : MadeOf(Requests[p], other, k)
      BY <3>1
    <3>3. ToCommand(log[other][k]) = ToCommand(m) /\ IsEvent(log[other][k])
      BY <2>1, <3>2 DEF MadeOf
    <3>4. log[other][k].number = m.number
      BY <1>3, <1>7, <3>3, CommandOfEvent
    <3> QED
      BY <1>8, <3>3, <3>4
  <2>3. i \in 1..Len(log[topic])
    BY <1>6, <1>7, <2>2
  <2>4. log'[topic][i] = log[topic][i] /\ log'[topic][j] = log[topic][j]
    BY <1>6, <2>2, <2>3
  <2>5. \/ \E q \in 1..Len(Requests) : q < p /\ Requests[q] = ToCommand(log[topic][i])
        \/ i <= done[topic] /\ ~Sent(log[topic][i])
    BY <2>1, <2>2, <2>3, <2>4 DEF OrderInv, SentOrder, old
  <2>6. CASE \E q \in 1..Len(Requests) : q < p /\ Requests[q] = ToCommand(log[topic][i])
    BY <1>12, <2>4, <2>6 DEF old
  <2>7. CASE i <= done[topic] /\ ~Sent(log[topic][i])
    <3> SUFFICES ASSUME ToCommand(log[topic][i]) \in Messages("DomainRequests")'
                 PROVE  FALSE
      BY <1>4, <2>4, <2>7
    <3>1. Requests' \in Seq(Message) /\ Requests \in Seq(Message)
      BY <1>0, <1>1, <1>3, <1>4 DEF Requests, Topics
    <3>2. PICK k \in DOMAIN Requests' : ToCommand(log[topic][i]) = Requests'[k]
      BY DEF Messages, Requests
    <3>3. k \in 1..old /\ Requests[k] = ToCommand(log[topic][i])
      BY <1>12, <1>15, <2>4, <3>1, <3>2
    <3>4. k \in DOMAIN Requests
      BY <3>1, <3>3 DEF old
    <3> QED
      BY <2>7, <3>3, <3>4 DEF Sent, Messages, Requests
  <2> QED
    BY <2>5, <2>6, <2>7
<1>17. SingleInv(done)'
  <2> SUFFICES ASSUME faults = 0, signals = 0
               PROVE  /\ stopAt = 0
                      /\ \A p \in 1..Len(Requests') : ~IsEvent(Requests'[p]) =>
                            \E topic \in Topics : \E i \in 1..Len(log'[topic]) :
                                /\ MadeOf(Requests[p], topic, i)'
                                /\ i <= done[topic]
                      /\ \A p, q \in 1..Len(Requests') :
                            ~IsEvent(Requests'[p]) /\ Requests'[p] = Requests'[q] => p = q
    BY <1>4 DEF OrderInv, SingleInv, IsEvent
  <2>1. stopAt = 0
    BY DEF OrderInv, SingleInv
  <2>2. ASSUME NEW p \in 1..Len(Requests'), ~IsEvent(Requests'[p])
        PROVE  \E topic \in Topics : \E i \in 1..Len(log'[topic]) :
                  MadeOf(Requests[p], topic, i)' /\ i <= done[topic]
    <3>1. p \in 1..old /\ Requests'[p] = Requests[p]
      BY <1>12, <2>2
    <3>2. PICK topic \in Topics : \E i \in 1..Len(log[topic]) :
              MadeOf(Requests[p], topic, i) /\ i <= done[topic]
      BY <1>4, <2>2, <3>1 DEF OrderInv, SingleInv, old
    <3>3. PICK i \in 1..Len(log[topic]) : MadeOf(Requests[p], topic, i) /\ i <= done[topic]
      BY <3>2
    <3>4. i \in 1..Len(log'[topic]) /\ MadeOf(Requests[p], topic, i)'
      BY <1>11, <3>1, <3>3 DEF MadeOf, IsEvent, ToCommand
    <3> QED
      BY <3>3, <3>4
  <2>3. ASSUME NEW p \in 1..Len(Requests'), NEW q \in 1..Len(Requests'),
               ~IsEvent(Requests'[p]), Requests'[p] = Requests'[q]
        PROVE  p = q
    <3>1. /\ p \in 1..old /\ Requests'[p] = Requests[p]
          /\ q \in 1..old /\ Requests'[q] = Requests[q]
      BY <1>12, <2>3
    <3> QED
      BY <2>3, <3>1 DEF OrderInv, SingleInv, old
  <2> QED
    BY <2>1, <2>2, <2>3
<1> QED
  BY <1>10, <1>13, <1>14, <1>16, <1>17 DEF OrderInv

LEMMA ReceiveOrder ==
    ASSUME EventInv, NEW done, OrderInv(done), NEW topic \in Topics, Receive(topic)
    PROVE  OrderInv(done)'
<1> DEFINE next == position[topic] + 1
           m    == log[topic][next]
           new  == Len(batch) + 1
<1>0. EventTypes
  BY DEF EventInv
<1>1. /\ position' = [position EXCEPT ![topic] = next]
      /\ batch' = Append(batch, m)
      /\ UNCHANGED <<stopAt, signals, faults, log, committed, pc, cursor, commands>>
      /\ position[topic] < Len(log[topic])
      /\ pc = "idle"
  BY DEF Receive, serviceVars
<1>2. /\ \A other \in Topics :
            /\ Len(log[other]) \in Nat /\ done[other] \in Nat /\ position[other] \in Nat
            /\ done[other] <= position[other] /\ position[other] <= Len(log[other])
            /\ \A i \in 1..Len(log[other]) : log[other][i] \in Message
      /\ batch \in Seq(Message) /\ Len(batch) \in Nat
  BY <1>0, Places, DonePlaces DEF OrderInv
<1>3. next \in 1..Len(log[topic]) /\ next > done[topic]
  BY <1>1, <1>2
<1>4. m \in Message
  BY <1>2, <1>3
<1>5. \A other \in Topics : position'[other] = IF other = topic THEN next ELSE position[other]
  BY <1>0, <1>1 DEF EventTypes
<1> HIDE DEF m
<1>6. /\ Len(batch') = new /\ new \in Nat /\ batch'[new] = m
      /\ \A k \in 1..Len(batch) : batch'[k] = batch[k]
      /\ \A k \in 1..new : k \in 1..Len(batch) \/ k = new
      /\ \A k \in 1..Len(batch) : k \in 1..new /\ k < new
  BY <1>1, <1>2, <1>4
<1> HIDE DEF new
<1>7. ASSUME NEW k \in 1..Len(batch)
      PROVE  \E other \in Topics : \E i \in 1..Len(log[other]) :
                /\ done[other] < i /\ i <= position[other] /\ batch[k] = log[other][i]
  <2>1. PICK other \in Topics : \E i \in 1..position[other] :
            done[other] < i /\ batch[k] = log[other][i]
    BY DEF OrderInv, BatchOrder
  <2>2. PICK i \in 1..position[other] : done[other] < i /\ batch[k] = log[other][i]
    BY <2>1
  <2>3. i \in 1..Len(log[other]) /\ i <= position[other]
    BY <1>2
  <2> QED
    BY <2>2, <2>3
<1>8. ASSUME NEW k \in 1..Len(batch), NEW other \in Topics, NEW i \in 1..Len(log[other]),
             batch[k] = log[other][i], IsEvent(log[other][i])
      PROVE  i <= position[other]
  <2>1. PICK place \in Topics : \E j \in 1..Len(log[place]) :
            j <= position[place] /\ batch[k] = log[place][j]
    BY <1>7
  <2>2. PICK j \in 1..Len(log[place]) : j <= position[place] /\ batch[k] = log[place][j]
    BY <2>1
  <2>3. place = other /\ j = i
    BY <1>0, <1>8, <2>2, OnePlace DEF OrderInv
  <2> QED
    BY <2>2, <2>3
<1>9. ASSUME NEW k \in 1..Len(batch), IsEvent(m)
      PROVE  batch[k] # m
  <2>1. ~(next <= position[topic])
    BY <1>2
  <2> QED
    BY <1>3, <1>8, <1>9, <2>1 DEF m
<1>10. ASSUME NEW k \in 1..new
       PROVE  \E other \in Topics : \E i \in 1..position'[other] :
                  done[other] < i /\ batch'[k] = log[other][i]
  <2>1. CASE k \in 1..Len(batch)
    <3>1. PICK other \in Topics : \E i \in 1..Len(log[other]) :
              done[other] < i /\ i <= position[other] /\ batch[k] = log[other][i]
      BY <1>7, <2>1
    <3>2. PICK i \in 1..Len(log[other]) :
              done[other] < i /\ i <= position[other] /\ batch[k] = log[other][i]
      BY <3>1
    <3>3. i \in 1..position'[other]
      BY <1>2, <1>5, <3>2
    <3> QED
      BY <1>6, <2>1, <3>2, <3>3
  <2>2. CASE k = new
    <3>1. next \in 1..position'[topic]
      BY <1>2, <1>5
    <3> QED
      BY <1>3, <1>6, <2>2, <3>1 DEF m
  <2> QED
    BY <1>6, <2>1, <2>2
<1>11. ASSUME NEW k \in 1..new, NEW l \in 1..new, IsEvent(batch'[k]), batch'[k] = batch'[l]
       PROVE  k = l
  <2>1. CASE k \in 1..Len(batch) /\ l \in 1..Len(batch)
    <3>1. batch'[k] = batch[k] /\ batch'[l] = batch[l]
      BY <1>6, <2>1
    <3> QED
      BY <1>11, <2>1, <3>1 DEF OrderInv, BatchOrder
  <2>2. CASE k = new /\ l \in 1..Len(batch)
    BY <1>6, <1>9, <1>11, <2>2
  <2>3. CASE l = new /\ k \in 1..Len(batch)
    BY <1>6, <1>9, <1>11, <2>3
  <2> QED
    BY <1>6, <2>1, <2>2, <2>3
<1>12. ASSUME NEW other \in Topics, NEW i \in 1..position'[other], NEW j \in 1..position'[other],
              done[other] < i, i < j, IsEvent(log[other][j]),
              NEW l \in 1..new, batch'[l] = log[other][j]
       PROVE  \E k \in 1..new : k < l /\ batch'[k] = log[other][i]
  <2>1. i \in 1..Len(log[other]) /\ j \in 1..Len(log[other]) /\ position'[other] \in Nat
    BY <1>2, <1>3, <1>5
  <2>2. CASE l \in 1..Len(batch)
    <3>1. batch[l] = log[other][j]
      BY <1>6, <1>12, <2>2
    <3>2. j \in 1..position[other] /\ i \in 1..position[other]
      BY <1>2, <1>8, <1>12, <2>1, <2>2, <3>1
    <3>3. PICK k \in 1..Len(batch) : k < l /\ batch[k] = log[other][i]
      BY <1>12, <2>2, <3>1, <3>2 DEF OrderInv, BatchOrder
    <3> QED
      BY <1>6, <3>3
  <2>3. CASE l = new
    <3>1. other = topic /\ j = next
      <4>1. log[topic][next] = log[other][j] /\ IsEvent(log[topic][next])
        BY <1>6, <1>12, <2>3 DEF m
      <4> QED
        BY <1>0, <1>3, <1>12, <2>1, <4>1, OnePlace DEF OrderInv
    <3>2. i \in 1..position[other]
      BY <1>2, <1>12, <3>1
    <3>3. PICK k \in 1..Len(batch) : batch[k] = log[other][i]
      BY <1>12, <3>2 DEF OrderInv, BatchOrder
    <3> QED
      BY <1>6, <2>3, <3>3
  <2> QED
    BY <1>6, <2>2, <2>3
<1>13. BatchOrder(done)'
  <2>1. /\ \A k : IsEvent(batch[k])' <=> IsEvent(batch'[k])
        /\ \A other, j : IsEvent(log[other][j])' <=> IsEvent(log[other][j])
    BY <1>1 DEF IsEvent
  <2>2. \A k \in 1..Len(batch') :
           \E other \in Topics : \E i \in 1..position'[other] :
              done[other] < i /\ batch'[k] = log'[other][i]
    BY <1>1, <1>6, <1>10
  <2>3. \A k, l \in 1..Len(batch') : IsEvent(batch'[k]) /\ batch'[k] = batch'[l] => k = l
    BY <1>6, <1>11
  <2>4. \A other \in Topics : \A i, j \in 1..position'[other] :
           done[other] < i /\ i < j /\ IsEvent(log[other][j]) =>
              \A l \in 1..Len(batch') : batch'[l] = log'[other][j] =>
                  \E k \in 1..Len(batch') : k < l /\ batch'[k] = log'[other][i]
    BY <1>1, <1>6, <1>12
  <2>5. ASSUME NEW other \in Topics, NEW i \in 1..position'[other], done[other] < i
        PROVE  \E k \in 1..Len(batch') : batch'[k] = log'[other][i]
    <3>1. CASE i \in 1..position[other]
      <4>1. PICK k \in 1..Len(batch) : batch[k] = log[other][i]
        BY <2>5, <3>1 DEF OrderInv, BatchOrder
      <4> QED
        BY <1>1, <1>6, <4>1
    <3>2. CASE i \notin 1..position[other]
      <4>1. other = topic /\ i = next
        BY <1>2, <1>5, <3>2
      <4>2. new \in 1..Len(batch')
        BY <1>2, <1>6 DEF new
      <4> QED
        BY <1>1, <1>6, <4>1, <4>2 DEF m
    <3> QED
      BY <3>1, <3>2
  <2> QED
    BY <2>1, <2>2, <2>3, <2>4, <2>5 DEF BatchOrder
<1>14. CommandsOrder'
  BY <1>1 DEF CommandsOrder
<1>15. DoneInv(done)' /\ \A other \in Topics : done[other] <= done[other]
  BY <1>1 DEF OrderInv, DoneInv
<1> QED
  BY <1>0, <1>1, <1>13, <1>14, <1>15, SilentOrder DEF OrderInv, SingleInv

LEMMA DeliverOrder ==
    ASSUME EventInv, NEW done, OrderInv(done), Deliver
    PROVE  OrderInv(done)'
<1>0. EventTypes
  BY DEF EventInv
<1>1. /\ pc = "idle" /\ cursor' = 0 /\ commands' = <<>>
      /\ UNCHANGED <<stopAt, signals, faults, log, committed, position, batch>>
  BY DEF Deliver, serviceVars
<1>2. BatchOrder(done)'
  BY <1>1, BatchFrame
<1>3. CommandsOrder'
  BY <1>1 DEF CommandsOrder
<1>4. DoneInv(done)' /\ \A other \in Topics : done[other] <= done[other]
  BY <1>1 DEF OrderInv, DoneInv
<1> QED
  BY <1>0, <1>1, <1>2, <1>3, <1>4, SilentOrder DEF OrderInv, SingleInv

LEMMA MapThrowsOrder ==
    ASSUME EventInv, NEW done, OrderInv(done), MapThrows
    PROVE  OrderInv(done)'
<1>0. EventTypes
  BY DEF EventInv
<1>1. /\ pc = "mapping" /\ pc' \in {"resolved", "failed"}
      /\ UNCHANGED <<stopAt, signals, faults, log, committed, position, batch>>
  BY DEF MapThrows, AfterError, serviceVars
<1>2. BatchOrder(done)'
  BY <1>1, BatchFrame
<1>3. CommandsOrder'
  BY <1>1 DEF CommandsOrder
<1>4. DoneInv(done)' /\ \A other \in Topics : done[other] <= done[other]
  BY <1>1 DEF OrderInv, DoneInv
<1> QED
  BY <1>0, <1>1, <1>2, <1>3, <1>4, SilentOrder DEF OrderInv, SingleInv

LEMMA CommitOrder ==
    ASSUME EventInv, NEW done, OrderInv(done), NEW next, next = position, Commit
    PROVE  OrderInv(next)'
<1>0. EventTypes
  BY DEF EventInv
<1>1. /\ pc' = "idle" /\ committed' = position /\ batch' = <<>>
      /\ UNCHANGED <<stopAt, signals, faults, log, position>>
  BY DEF Commit, serviceVars
<1>2. BatchOrder(next)' /\ CommandsOrder'
  <2>1. \A topic \in Topics : \A i \in 1..next[topic] : ~(next[topic] < i)
    BY <1>0, Places
  <2> QED
    BY <1>1, <2>1 DEF BatchOrder, CommandsOrder
<1>3. \A topic \in Topics : done[topic] <= next[topic]
  BY <1>0, DonePlaces DEF OrderInv
<1>4. DoneInv(next)'
  <2>1. \A topic \in Topics : next[topic] <= position[topic]
    BY <1>0, Places
  <2> QED
    BY <1>0, <1>1, <2>1 DEF DoneInv, EventTypes
<1> QED
  BY <1>0, <1>1, <1>2, <1>3, <1>4, SilentOrder DEF OrderInv, SingleInv

LEMMA MapMessageOrder ==
    ASSUME EventInv, NEW done, OrderInv(done), MapMessage
    PROVE  OrderInv(done)'
<1> DEFINE m   == batch[cursor + 1]
           new == Len(commands) + 1
<1>0. EventTypes
  BY DEF EventInv
<1>1. /\ pc = "mapping" /\ pc' = "mapping" /\ cursor < Len(batch)
      /\ commands' = IF Handled(m) THEN Append(commands, ToCommand(m)) ELSE commands
      /\ cursor' = cursor + 1
      /\ UNCHANGED <<stopAt, signals, faults, log, committed, position, batch>>
  BY DEF MapMessage, Collected, serviceVars
<1>2. /\ cursor \in Nat /\ Len(batch) \in Nat /\ batch \in Seq(Message)
      /\ commands \in Seq(Message) /\ Len(commands) \in Nat
      /\ \A k \in 1..cursor : k \in 1..Len(batch)
      /\ cursor + 1 \in 1..Len(batch)
  BY <1>0, <1>1 DEF EventTypes, EventHandlerTypeOK
<1>3. \A k \in 1..Len(batch) : batch[k] \in Message
  BY <1>2
<1>4. m \in Message /\ ToCommand(m) \in Message
  BY <1>2, <1>3, CommandIsMessage
<1> HIDE DEF m
\* Commands of two events of the batch differ.
<1>5. ASSUME NEW k \in 1..Len(batch), NEW l \in 1..Len(batch),
             IsEvent(batch[k]), IsEvent(batch[l]), ToCommand(batch[k]) = ToCommand(batch[l])
      PROVE  k = l
  <2>1. PICK topic \in Topics : \E i \in 1..position[topic] : batch[k] = log[topic][i]
    BY DEF OrderInv, BatchOrder
  <2>2. PICK i \in 1..position[topic] : batch[k] = log[topic][i]
    BY <2>1
  <2>3. PICK other \in Topics : \E j \in 1..position[other] : batch[l] = log[other][j]
    BY DEF OrderInv, BatchOrder
  <2>4. PICK j \in 1..position[other] : batch[l] = log[other][j]
    BY <2>3
  <2>5. i \in 1..Len(log[topic]) /\ j \in 1..Len(log[other])
    BY <1>0, Places
  <2>6. topic = other /\ i = j
    BY <1>0, <1>5, <2>2, <2>4, <2>5, OnePlace DEF OrderInv
  <2> QED
    BY <1>5, <2>2, <2>4, <2>6 DEF OrderInv, BatchOrder
<1>6. /\ \A r \in 1..Len(commands) : \E k \in 1..cursor :
              Handled(batch[k]) /\ commands[r] = ToCommand(batch[k])
      /\ \A k \in 1..cursor : Handled(batch[k]) =>
              \E r \in 1..Len(commands) : commands[r] = ToCommand(batch[k])
      /\ \A q, r \in 1..Len(commands), k, l \in 1..cursor :
              /\ Handled(batch[k]) /\ commands[q] = ToCommand(batch[k])
              /\ Handled(batch[l]) /\ commands[r] = ToCommand(batch[l])
              /\ k < l
              => q < r
      /\ \A q, r \in 1..Len(commands) : commands[q] = commands[r] => q = r
  BY <1>1 DEF OrderInv, CommandsOrder
<1>7. /\ \A k \in 1..(cursor + 1) : k \in 1..cursor \/ k = cursor + 1
      /\ \A k \in 1..cursor : k \in 1..(cursor + 1)
      /\ \A k \in 1..(cursor + 1) : k \in 1..Len(batch)
  BY <1>2
<1>8. /\ Len(commands') \in Nat
      /\ \A r \in 1..Len(commands) : r \in 1..Len(commands') /\ commands'[r] = commands[r]
      /\ \A r \in 1..Len(commands') :
            r \in 1..Len(commands) \/ (r = new /\ Handled(m) /\ commands'[r] = ToCommand(m))
      /\ Handled(m) => new \in 1..Len(commands') /\ commands'[new] = ToCommand(m)
      /\ \A r \in 1..Len(commands) : r < new
  <2>1. CASE Handled(m)
    <3>1. commands' = Append(commands, ToCommand(m))
      BY <1>1, <2>1
    <3> QED
      BY <1>2, <1>4, <2>1, <3>1
  <2>2. CASE ~Handled(m)
    <3>1. commands' = commands
      BY <1>1, <2>2
    <3> QED
      BY <1>2, <2>2, <3>1
  <2> QED
    BY <2>1, <2>2
<1> HIDE DEF new
\* The new command is that of no message seen before.
<1>9. ASSUME NEW r \in 1..Len(commands), Handled(m)
      PROVE  commands[r] # ToCommand(m)
  <2>1. PICK k \in 1..cursor : Handled(batch[k]) /\ commands[r] = ToCommand(batch[k])
    BY <1>6
  <2>2. k # cursor + 1 /\ k \in 1..Len(batch) /\ IsEvent(batch[k]) /\ IsEvent(m)
    BY <1>2, <1>9, <2>1 DEF Handled
  <2> QED
    BY <1>2, <1>5, <2>1, <2>2 DEF m
<1>10. \A r \in 1..Len(commands') : \E k \in 1..(cursor + 1) :
          Handled(batch[k]) /\ commands'[r] = ToCommand(batch[k])
  <2> SUFFICES ASSUME NEW r \in 1..Len(commands')
               PROVE  \E k \in 1..(cursor + 1) :
                          Handled(batch[k]) /\ commands'[r] = ToCommand(batch[k])
    OBVIOUS
  <2>1. CASE r \in 1..Len(commands)
    <3>1. PICK k \in 1..cursor : Handled(batch[k]) /\ commands[r] = ToCommand(batch[k])
      BY <1>6, <2>1
    <3> QED
      BY <1>7, <1>8, <2>1, <3>1
  <2>2. CASE Handled(m) /\ commands'[r] = ToCommand(m)
    <3>1. cursor + 1 \in 1..(cursor + 1)
      BY <1>2
    <3> QED
      BY <2>2, <3>1 DEF m
  <2> QED
    BY <1>8, <2>1, <2>2
<1>11. \A k \in 1..(cursor + 1) : Handled(batch[k]) =>
          \E r \in 1..Len(commands') : commands'[r] = ToCommand(batch[k])
  <2> SUFFICES ASSUME NEW k \in 1..(cursor + 1), Handled(batch[k])
               PROVE  \E r \in 1..Len(commands') : commands'[r] = ToCommand(batch[k])
    OBVIOUS
  <2>1. CASE k \in 1..cursor
    <3>1. PICK r \in 1..Len(commands) : commands[r] = ToCommand(batch[k])
      BY <1>6, <2>1
    <3> QED
      BY <1>8, <3>1
  <2>2. CASE k = cursor + 1
    BY <1>8, <2>2 DEF m
  <2> QED
    BY <1>7, <2>1, <2>2
<1>12. ASSUME NEW q \in 1..Len(commands'), NEW r \in 1..Len(commands'),
              NEW k \in 1..(cursor + 1), NEW l \in 1..(cursor + 1),
              Handled(batch[k]), commands'[q] = ToCommand(batch[k]),
              Handled(batch[l]), commands'[r] = ToCommand(batch[l]), k < l
       PROVE  q < r
  <2>1. k \in 1..cursor
    BY <1>2, <1>12
  <2>2. k # cursor + 1 /\ k \in 1..Len(batch) /\ l \in 1..Len(batch)
        /\ IsEvent(batch[k]) /\ IsEvent(batch[l])
    BY <1>2, <1>7, <1>12, <2>1 DEF Handled
  <2>3. q \in 1..Len(commands) /\ commands'[q] = commands[q]
    <3>1. ~(Handled(m) /\ commands'[q] = ToCommand(m))
      BY <1>2, <1>5, <1>12, <2>2 DEF m, Handled
    <3> QED
      BY <1>8, <3>1
  <2>4. CASE l \in 1..cursor
    <3>1. r \in 1..Len(commands) /\ commands'[r] = commands[r]
      <4>1. l # cursor + 1
        BY <1>2, <2>4
      <4>2. ~(Handled(m) /\ commands'[r] = ToCommand(m))
        BY <1>2, <1>5, <1>12, <2>2, <4>1 DEF m, Handled
      <4> QED
        BY <1>8, <4>2
    <3> QED
      BY <1>6, <1>12, <2>1, <2>3, <2>4, <3>1
  <2>5. CASE l = cursor + 1
    <3>1. Handled(m) /\ commands'[r] = ToCommand(m)
      BY <1>12, <2>5 DEF m
    <3>2. r = new
      <4>1. r \notin 1..Len(commands)
        BY <1>8, <1>9, <3>1
      <4> QED
        BY <1>8, <4>1
    <3> QED
      BY <1>8, <2>3, <3>2
  <2> QED
    BY <1>7, <2>4, <2>5
<1>13. ASSUME NEW q \in 1..Len(commands'), NEW r \in 1..Len(commands'), commands'[q] = commands'[r]
       PROVE  q = r
  BY <1>6, <1>8, <1>9, <1>13
<1>14. CommandsOrder'
  <2>1. \A k : /\ Handled(batch[k])' <=> Handled(batch[k])
               /\ ToCommand(batch[k])' = ToCommand(batch[k])
    BY <1>1 DEF Handled, IsEvent, ToCommand
  <2>2. \A q, r \in 1..Len(commands'), k, l \in 1..(cursor + 1) :
              /\ Handled(batch[k]) /\ commands'[q] = ToCommand(batch[k])
              /\ Handled(batch[l]) /\ commands'[r] = ToCommand(batch[l])
              /\ k < l
              => q < r
    BY <1>12
  <2>3. \A q, r \in 1..Len(commands') : commands'[q] = commands'[r] => q = r
    BY <1>13
  <2>4. cursor' = cursor + 1
    BY <1>1
  <2> QED
    BY <1>10, <1>11, <2>1, <2>2, <2>3, <2>4 DEF CommandsOrder
<1>15. BatchOrder(done)'
  BY <1>1, BatchFrame
<1>16. DoneInv(done)' /\ \A other \in Topics : done[other] <= done[other]
  BY <1>1 DEF OrderInv, DoneInv
<1> QED
  BY <1>0, <1>1, <1>14, <1>15, <1>16, SilentOrder DEF OrderInv, SingleInv

\* What a send appends: a prefix of the commands, and no event.
LEMMA AppendedCommands ==
    ASSUME EventInv, NEW done, OrderInv(done), pc = "mapping",
           \E n \in 0..Len(commands) : log' = Appended(n)
    PROVE  \E n \in 0..Len(commands) :
              /\ Len(Requests') = Len(Requests) + n
              /\ \A p \in 1..Len(Requests) : Requests'[p] = Requests[p]
              /\ \A r \in 1..n : Requests'[Len(Requests) + r] = commands[r]
              /\ \A topic \in Topics :
                    /\ Len(log'[topic]) \in Nat
                    /\ \A i \in 1..Len(log[topic]) :
                          i \in 1..Len(log'[topic]) /\ log'[topic][i] = log[topic][i]
                    /\ \A i \in 1..Len(log'[topic]) :
                          IsEvent(log'[topic][i]) => i \in 1..Len(log[topic])
<1>0. EventTypes /\ log \in [Topics -> Seq(Message)]
  BY DEF EventInv, EventTypes, EventHandlerTypeOK
<1>1. /\ \A topic \in Topics : log[topic] \in Seq(Message) /\ Len(log[topic]) \in Nat
      /\ commands \in Seq(Message) /\ Len(commands) \in Nat
      /\ "DomainRequests" \in Topics
  BY <1>0, Places
<1>2. \A r \in 1..Len(commands) : ~IsEvent(commands[r])
  <2> SUFFICES ASSUME NEW r \in 1..Len(commands)
               PROVE  ~IsEvent(commands[r])
    OBVIOUS
  <2>1. PICK topic \in Topics : \E i \in 1..position[topic] : MadeOf(commands[r], topic, i)
    BY <1>0, CommandsPlace DEF OrderInv
  <2>2. PICK i \in 1..position[topic] : MadeOf(commands[r], topic, i)
    BY <2>1
  <2> QED
    BY <1>1, <2>2, CommandOfEvent DEF MadeOf
<1> DEFINE old == log["DomainRequests"]
<1>3. PICK n \in 0..Len(commands) : log' = Appended(n)
  OBVIOUS
<1> DEFINE sent == SubSeq(commands, 1, n)
<1>4. /\ sent \in Seq(Message) /\ Len(sent) = n /\ n \in Nat
      /\ \A r \in 1..n : sent[r] = commands[r] /\ r \in 1..Len(commands)
  BY <1>1
<1>5. log' = [log EXCEPT !["DomainRequests"] = old \o sent]
  BY <1>3 DEF Appended
<1> HIDE DEF sent
<1>6. /\ old \o sent \in Seq(Message)
      /\ Len(old \o sent) = Len(old) + n
      /\ \A p \in 1..Len(old) : (old \o sent)[p] = old[p]
      /\ \A r \in 1..n : (old \o sent)[Len(old) + r] = commands[r]
  <2>1. old \in Seq(Message)
    BY <1>1
  <2> HIDE DEF old
  <2>0. sent \in Seq(Message)
    BY <1>4
  <2>2. /\ old \o sent \in Seq(Message)
        /\ Len(old \o sent) = Len(old) + Len(sent)
        /\ \A p \in 1..Len(old) : (old \o sent)[p] = old[p]
        /\ \A r \in 1..Len(sent) : (old \o sent)[Len(old) + r] = sent[r]
    BY <2>0, <2>1
  <2> QED
    BY <1>4, <2>2
<1>7. log'["DomainRequests"] = old \o sent
  BY <1>0, <1>1, <1>5
<1>8. ASSUME NEW topic \in Topics
      PROVE  /\ Len(log'[topic]) \in Nat
             /\ \A i \in 1..Len(log[topic]) :
                   i \in 1..Len(log'[topic]) /\ log'[topic][i] = log[topic][i]
             /\ \A i \in 1..Len(log'[topic]) :
                   IsEvent(log'[topic][i]) => i \in 1..Len(log[topic])
  <2>1. CASE topic = "DomainRequests"
    <3>1. \A i \in 1..(Len(old) + n) : i \in 1..Len(old) \/ \E r \in 1..n : i = Len(old) + r
      <4> SUFFICES ASSUME NEW i \in 1..(Len(old) + n), i \notin 1..Len(old)
                   PROVE  \E r \in 1..n : i = Len(old) + r
        OBVIOUS
      <4>1. i - Len(old) \in 1..n /\ i = Len(old) + (i - Len(old))
        BY <1>1, <1>4
      <4> QED
        BY <4>1
    <3>2. \A i \in 1..Len(old) : i \in 1..(Len(old) + n)
      BY <1>1, <1>4
    <3>3. /\ log'[topic] = old \o sent /\ log[topic] = old
          /\ Len(log'[topic]) = Len(old) + n /\ Len(old) \in Nat
      BY <1>1, <1>6, <1>7, <2>1
    <3>4. \A i \in 1..Len(log'[topic]) : IsEvent(log'[topic][i]) => i \in 1..Len(old)
      <4> SUFFICES ASSUME NEW i \in 1..Len(log'[topic]), i \notin 1..Len(old)
                   PROVE  ~IsEvent(log'[topic][i])
        OBVIOUS
      <4>1. PICK r \in 1..n : i = Len(old) + r
        BY <3>1, <3>3
      <4>2. log'[topic][i] = commands[r] /\ r \in 1..Len(commands)
        BY <1>4, <1>6, <3>3, <4>1
      <4> QED
        BY <1>2, <4>2 DEF IsEvent
    <3>5. \A i \in 1..Len(old) : i \in 1..Len(log'[topic]) /\ log'[topic][i] = old[i]
      BY <1>6, <3>2, <3>3
    <3>6. Len(log'[topic]) \in Nat
      BY <1>4, <3>3
    <3> QED
      BY <3>3, <3>4, <3>5, <3>6
  <2>2. CASE topic # "DomainRequests"
    <3>1. log'[topic] = log[topic]
      BY <1>0, <1>5, <2>2
    <3> QED
      BY <1>1, <3>1
  <2> QED
    BY <2>1, <2>2
<1> QED
  BY <1>6, <1>7, <1>8 DEF Requests

LEMMA SendOrder ==
    ASSUME EventInv, NEW done, OrderInv(done), SendCommands
    PROVE  OrderInv(done)'
<1>0. EventTypes /\ log \in [Topics -> Seq(Message)] /\ faults \in Nat
  BY DEF EventInv, EventTypes, EventHandlerTypeOK
<1>1. /\ pc = "mapping" /\ pc' \in {"resolved", "failed"}
      /\ UNCHANGED <<stopAt, signals, committed, position, batch, cursor, commands>>
      /\ \E n \in 0..Len(commands) : log' = Appended(n)
      /\ faults' = 0 => faults = 0
  <2>1. Len(commands) \in 0..Len(commands)
    BY <1>0, Places
  <2> QED
    BY <1>0, <2>1 DEF SendCommands, Mapped, Mishap, AfterError
<1>2. PICK n \in 0..Len(commands) :
              /\ Len(Requests') = Len(Requests) + n
              /\ \A p \in 1..Len(Requests) : Requests'[p] = Requests[p]
              /\ \A r \in 1..n : Requests'[Len(Requests) + r] = commands[r]
              /\ \A topic \in Topics :
                    /\ Len(log'[topic]) \in Nat
                    /\ \A i \in 1..Len(log[topic]) :
                          i \in 1..Len(log'[topic]) /\ log'[topic][i] = log[topic][i]
                    /\ \A i \in 1..Len(log'[topic]) :
                          IsEvent(log'[topic][i]) => i \in 1..Len(log[topic])
  BY <1>1, AppendedCommands
<1>3. /\ \A topic \in Topics : /\ log[topic] \in Seq(Message) /\ Len(log[topic]) \in Nat
                               /\ position[topic] \in Nat /\ done[topic] \in Nat
                               /\ done[topic] <= position[topic]
                               /\ position[topic] <= Len(log[topic])
                               /\ \A i \in 1..Len(log[topic]) : log[topic][i] \in Message
      /\ Len(commands) \in Nat /\ n \in Nat
      /\ "DomainRequests" \in Topics
  BY <1>0, Places, DonePlaces DEF OrderInv
<1> DEFINE old == Len(Requests)
<1>4. /\ old \in Nat
      /\ \A p \in 1..Len(Requests') :
            \/ p \in 1..old
            \/ \E r \in 1..n : p = old + r
      /\ \A p \in 1..old : p \in 1..Len(Requests')
      /\ \A r \in 1..n : old + r \in 1..Len(Requests') /\ r \in 1..Len(commands)
  <2>1. old \in Nat
    BY <1>3 DEF Requests
  <2>2. ASSUME NEW p \in 1..Len(Requests'), p \notin 1..old
        PROVE  \E r \in 1..n : p = old + r
    <3>1. p - old \in 1..n /\ p = old + (p - old)
      BY <1>2, <1>3, <2>1, <2>2
    <3> QED
      BY <3>1
  <2> QED
    BY <1>2, <1>3, <2>1, <2>2
<1> HIDE DEF old
<1>5. \A topic, i : /\ IsEvent(log[topic][i])' <=> IsEvent(log'[topic][i])
                    /\ Handled(log[topic][i])' <=> Handled(log'[topic][i])
                    /\ ToCommand(log[topic][i])' = ToCommand(log'[topic][i])
                    /\ Sent(log[topic][i])' <=> ToCommand(log'[topic][i]) \in Messages("DomainRequests")'
                    /\ \A p : MadeOf(Requests[p], topic, i)' <=>
                                /\ i \in 1..Len(log'[topic]) /\ IsEvent(log'[topic][i])
                                /\ Requests'[p] = ToCommand(log'[topic][i])
  BY DEF IsEvent, Handled, ToCommand, Sent, MadeOf
<1>6. ASSUME NEW p \in 1..Len(Requests'), NEW r \in 1..n, p = old + r
      PROVE  \E topic \in Topics : \E i \in 1..position[topic] : \E k \in 1..cursor :
                /\ i \in 1..Len(log[topic]) /\ IsEvent(log[topic][i])
                /\ Requests'[p] = ToCommand(log[topic][i])
                /\ done[topic] < i
                /\ k \in 1..Len(batch) /\ batch[k] = log[topic][i] /\ Handled(batch[k])
                /\ commands[r] = ToCommand(batch[k])
  <2>1. Requests'[p] = commands[r] /\ r \in 1..Len(commands)
    BY <1>2, <1>4, <1>6 DEF old
  <2> QED
    BY <1>0, <1>1, <2>1, CommandsPlace DEF OrderInv, MadeOf
<1>7. Events' = Events
  <2>1. \A topic \in Topics : log'[topic] \in Seq(Message)
    BY <1>1, AppendedGrows
  <2>2. \A topic \in Topics : /\ Messages(topic) = {log[topic][i] : i \in 1..Len(log[topic])}
                              /\ Messages(topic)' = {log'[topic][i] : i \in 1..Len(log'[topic])}
    <3> SUFFICES ASSUME NEW topic \in Topics
                 PROVE  /\ DOMAIN log[topic] = 1..Len(log[topic])
                        /\ DOMAIN log'[topic] = 1..Len(log'[topic])
      BY DEF Messages
    <3> QED
      BY <1>3, <2>1
  <2>3. ASSUME NEW e \in Events
        PROVE  e \in Events'
    <3>1. PICK topic \in Topics : \E i \in 1..Len(log[topic]) : e = log[topic][i]
      BY <2>2 DEF Events
    <3>2. e \in Messages(topic)' /\ e.type = "DOMAIN_EVENT"
      BY <1>2, <2>2, <3>1 DEF Events
    <3> QED
      BY <3>2 DEF Events
  <2>4. ASSUME NEW e \in Events'
        PROVE  e \in Events
    <3>1. PICK topic \in Topics : \E i \in 1..Len(log'[topic]) : e = log'[topic][i]
      BY <2>2 DEF Events
    <3>2. e.type = "DOMAIN_EVENT"
      BY DEF Events
    <3>3. \E i \in 1..Len(log[topic]) : e = log[topic][i]
      BY <1>2, <3>1, <3>2 DEF IsEvent
    <3> QED
      BY <2>2, <3>2, <3>3 DEF Events
  <2> QED
    BY <2>3, <2>4
<1>8. NumbersInv'
  <2>1. ASSUME NEW topic \in Topics, NEW i \in 1..Len(log'[topic]), IsEvent(log'[topic][i])
        PROVE  i \in 1..Len(log[topic]) /\ log'[topic][i] = log[topic][i]
    BY <1>2, <2>1
  <2>2. \A topic \in Topics : \A i \in 1..Len(log'[topic]) :
           IsEvent(log'[topic][i]) => log'[topic][i].number <= Cardinality(Events')
    BY <1>7, <2>1 DEF OrderInv, NumbersInv
  <2>3. ASSUME NEW topic \in Topics, NEW other \in Topics,
               NEW i \in 1..Len(log'[topic]), NEW j \in 1..Len(log'[other]),
               IsEvent(log'[topic][i]), IsEvent(log'[other][j]),
               log'[topic][i].number = log'[other][j].number
        PROVE  topic = other /\ i = j
    <3>1. /\ i \in 1..Len(log[topic]) /\ log'[topic][i] = log[topic][i]
          /\ j \in 1..Len(log[other]) /\ log'[other][j] = log[other][j]
      BY <2>1, <2>3
    <3> QED
      BY <2>3, <3>1 DEF OrderInv, NumbersInv
  <2> QED
    BY <1>5, <2>2, <2>3 DEF NumbersInv
<1>9. MadeInv'
  <2> SUFFICES ASSUME NEW p \in 1..Len(Requests'), ~IsEvent(Requests'[p])
               PROVE  \E topic \in Topics : \E i \in 1..Len(log'[topic]) :
                          MadeOf(Requests[p], topic, i)'
    BY DEF MadeInv, IsEvent
  <2>1. CASE p \in 1..old
    <3>1. Requests'[p] = Requests[p] /\ ~IsEvent(Requests[p])
      BY <1>2, <2>1 DEF old
    <3>2. PICK topic \in Topics : \E i \in 1..Len(log[topic]) : MadeOf(Requests[p], topic, i)
      BY <2>1, <3>1 DEF OrderInv, MadeInv, old
    <3>3. PICK i \in 1..Len(log[topic]) : MadeOf(Requests[p], topic, i)
      BY <3>2
    <3>4. i \in 1..Len(log'[topic]) /\ log'[topic][i] = log[topic][i]
      BY <1>2
    <3> QED
      BY <1>5, <3>1, <3>3, <3>4 DEF MadeOf
  <2>2. CASE \E r \in 1..n : p = old + r
    <3>1. PICK topic \in Topics : \E i \in 1..Len(log[topic]) :
              IsEvent(log[topic][i]) /\ Requests'[p] = ToCommand(log[topic][i])
      BY <1>6, <2>2
    <3>2. PICK i \in 1..Len(log[topic]) :
              IsEvent(log[topic][i]) /\ Requests'[p] = ToCommand(log[topic][i])
      BY <3>1
    <3>3. i \in 1..Len(log'[topic]) /\ log'[topic][i] = log[topic][i]
      BY <1>2
    <3> QED
      BY <1>5, <3>2, <3>3
  <2> QED
    BY <1>4, <2>1, <2>2
<1>10. CommandsOrder'
  BY <1>1 DEF CommandsOrder
<1>11. \A topic \in Topics : \A i \in 1..position[topic] :
          i \in 1..Len(log[topic]) /\ log'[topic][i] = log[topic][i]
  BY <1>2, <1>3
<1>12. BatchOrder(done)'
  <2>1. \A k : IsEvent(batch[k])' <=> IsEvent(batch[k])
    BY <1>1 DEF IsEvent
  <2>2. \A k \in 1..Len(batch) :
           \E topic \in Topics : \E i \in 1..position[topic] :
              done[topic] < i /\ batch[k] = log'[topic][i]
    <3> SUFFICES ASSUME NEW k \in 1..Len(batch)
                 PROVE  \E topic \in Topics : \E i \in 1..position[topic] :
                            done[topic] < i /\ batch[k] = log'[topic][i]
      OBVIOUS
    <3>1. PICK topic \in Topics : \E i \in 1..position[topic] :
              done[topic] < i /\ batch[k] = log[topic][i]
      BY DEF OrderInv, BatchOrder
    <3>2. PICK i \in 1..position[topic] : done[topic] < i /\ batch[k] = log[topic][i]
      BY <3>1
    <3>3. log'[topic][i] = log[topic][i]
      BY <1>11
    <3> QED
      BY <3>2, <3>3
  <2>3. \A k, l \in 1..Len(batch) : IsEvent(batch[k]) /\ batch[k] = batch[l] => k = l
    BY DEF OrderInv, BatchOrder
  <2>4. ASSUME NEW topic \in Topics, NEW i \in 1..position[topic], NEW j \in 1..position[topic],
               done[topic] < i, i < j, IsEvent(log'[topic][j]),
               NEW l \in 1..Len(batch), batch[l] = log'[topic][j]
        PROVE  \E k \in 1..Len(batch) : k < l /\ batch[k] = log'[topic][i]
    <3>1. log'[topic][i] = log[topic][i] /\ log'[topic][j] = log[topic][j]
      BY <1>11
    <3>2. IsEvent(log[topic][j]) /\ batch[l] = log[topic][j]
      BY <2>4, <3>1
    <3>3. \E k \in 1..Len(batch) : k < l /\ batch[k] = log[topic][i]
      BY <2>4, <3>2, EarlierInBatch DEF OrderInv
    <3> QED
      BY <3>1, <3>3
  <2>5. \A topic \in Topics : \A i \in 1..position[topic] :
           done[topic] < i => \E k \in 1..Len(batch) : batch[k] = log'[topic][i]
    BY <1>11 DEF OrderInv, BatchOrder
  <2>6. \A topic \in Topics : \A i, j \in 1..position[topic] :
           done[topic] < i /\ i < j /\ IsEvent(log'[topic][j]) =>
              \A l \in 1..Len(batch) : batch[l] = log'[topic][j] =>
                  \E k \in 1..Len(batch) : k < l /\ batch[k] = log'[topic][i]
    BY <2>4
  <2> QED
    BY <1>1, <1>5, <2>1, <2>2, <2>3, <2>5, <2>6 DEF BatchOrder

\* The command of an event acknowledged before the batch was read is not among those that
\* are sent now.
<1>13. ASSUME NEW topic \in Topics, NEW i \in 1..Len(log[topic]), IsEvent(log[topic][i]),
              i <= done[topic],
              ToCommand(log[topic][i]) \in Messages("DomainRequests")'
       PROVE  \E q \in 1..old : Requests[q] = ToCommand(log[topic][i])
  <2>1. DOMAIN Requests' = 1..Len(Requests')
    <3>1. log' \in [Topics -> Seq(Message)]
      BY <1>1, AppendedGrows
    <3> QED
      BY <1>3, <3>1 DEF Requests
  <2>2. PICK p \in 1..Len(Requests') : Requests'[p] = ToCommand(log[topic][i])
    BY <1>13, <2>1 DEF Messages, Requests
  <2>3. CASE p \in 1..old
    BY <1>2, <2>2, <2>3 DEF old
  <2>4. CASE \E r \in 1..n : p = old + r
    <3>1. PICK other \in Topics : \E j \in 1..Len(log[other]) :
              /\ IsEvent(log[other][j]) /\ Requests'[p] = ToCommand(log[other][j])
              /\ done[other] < j
      BY <1>6, <2>4
    <3>2. PICK j \in 1..Len(log[other]) :
              /\ IsEvent(log[other][j]) /\ Requests'[p] = ToCommand(log[other][j])
              /\ done[other] < j
      BY <3>1
    <3>3. topic = other /\ i = j
      BY <1>0, <1>13, <2>2, <3>2, OnePlace DEF OrderInv
    <3> QED
      BY <1>3, <1>13, <3>2, <3>3
  <2> QED
    BY <1>4, <2>3, <2>4
<1>14. SentOrder(done)'
  <2> SUFFICES ASSUME NEW topic \in Topics,
                      NEW i \in 1..Len(log'[topic]), NEW j \in 1..Len(log'[topic]), i < j,
                      Handled(log'[topic][i]), Handled(log'[topic][j]),
                      NEW p \in 1..Len(Requests'), Requests'[p] = ToCommand(log'[topic][j])
               PROVE  \/ \E q \in 1..Len(Requests') :
                            q < p /\ Requests'[q] = ToCommand(log'[topic][i])
                      \/ /\ i <= done[topic]
                         /\ ToCommand(log'[topic][i]) \notin Messages("DomainRequests")'
    BY <1>5 DEF SentOrder
  <2>1. /\ i \in 1..Len(log[topic]) /\ log'[topic][i] = log[topic][i]
        /\ j \in 1..Len(log[topic]) /\ log'[topic][j] = log[topic][j]
        /\ IsEvent(log[topic][i]) /\ Handled(log[topic][i])
        /\ IsEvent(log[topic][j]) /\ Handled(log[topic][j])
    <3>1. IsEvent(log'[topic][i]) /\ IsEvent(log'[topic][j])
      BY DEF Handled
    <3>2. i \in 1..Len(log[topic]) /\ j \in 1..Len(log[topic])
      BY <1>2, <3>1
    <3> QED
      BY <1>2, <3>1, <3>2
  <2>2. CASE p \in 1..old
    <3>1. Requests[p] = ToCommand(log[topic][j])
      BY <1>2, <2>1, <2>2 DEF old
    <3>2. \/ \E q \in 1..Len(Requests) : q < p /\ Requests[q] = ToCommand(log[topic][i])
          \/ i <= done[topic] /\ ~Sent(log[topic][i])
      BY <2>1, <2>2, <3>1 DEF OrderInv, SentOrder, old
    <3>3. CASE \E q \in 1..Len(Requests) : q < p /\ Requests[q] = ToCommand(log[topic][i])
      BY <1>2, <1>4, <2>1, <3>3 DEF old
    <3>4. CASE i <= done[topic] /\ ~Sent(log[topic][i])
      <4> SUFFICES ASSUME ToCommand(log[topic][i]) \in Messages("DomainRequests")'
                   PROVE  FALSE
        BY <1>1, <2>1, <3>4
      <4>1. PICK q \in 1..old : Requests[q] = ToCommand(log[topic][i])
        BY <1>13, <2>1, <3>4
      <4>2. q \in DOMAIN Requests
        BY <1>3, <4>1 DEF Requests, old
      <4> QED
        BY <3>4, <4>1, <4>2 DEF Sent, Messages, Requests
    <3> QED
      BY <3>2, <3>3, <3>4
  <2>3. CASE \E r \in 1..n : p = old + r
    <3>1. PICK r \in 1..n : p = old + r
      BY <2>3
    <3>21. PICK place \in Topics : \E x \in 1..position[place] : \E l \in 1..cursor :
              /\ x \in 1..Len(log[place]) /\ IsEvent(log[place][x])
              /\ Requests'[p] = ToCommand(log[place][x])
              /\ done[place] < x
              /\ l \in 1..Len(batch) /\ batch[l] = log[place][x] /\ Handled(batch[l])
              /\ commands[r] = ToCommand(batch[l])
      BY <1>6, <3>1
    <3>22. PICK x \in 1..position[place] : \E l \in 1..cursor :
              /\ x \in 1..Len(log[place]) /\ IsEvent(log[place][x])
              /\ Requests'[p] = ToCommand(log[place][x])
              /\ done[place] < x
              /\ l \in 1..Len(batch) /\ batch[l] = log[place][x] /\ Handled(batch[l])
              /\ commands[r] = ToCommand(batch[l])
      BY <3>21
    <3>2. PICK l \in 1..cursor :
              /\ x \in 1..Len(log[place]) /\ IsEvent(log[place][x])
              /\ Requests'[p] = ToCommand(log[place][x])
              /\ done[place] < x
              /\ l \in 1..Len(batch) /\ batch[l] = log[place][x] /\ Handled(batch[l])
              /\ commands[r] = ToCommand(batch[l])
      BY <3>22
    <3>3. place = topic /\ x = j
      BY <1>0, <2>1, <3>2, OnePlace DEF OrderInv
    <3>4. CASE done[topic] < i
      <4>1. i \in 1..position[topic] /\ j \in 1..position[topic]
        BY <1>3, <3>2, <3>3
      <4>2. PICK k \in 1..Len(batch) : k < l /\ batch[k] = log[topic][i]
        <5>1. /\ l \in 1..Len(batch) /\ batch[l] = log[topic][j] /\ IsEvent(log[topic][j])
              /\ BatchOrder(done)
          BY <2>1, <3>2, <3>3 DEF OrderInv
        <5>2. \A a, b \in 1..position[topic], c \in 1..Len(batch) :
                 /\ done[topic] < a /\ a < b
                 /\ IsEvent(log[topic][b]) /\ batch[c] = log[topic][b]
                 => \E k \in 1..Len(batch) : k < c /\ batch[k] = log[topic][a]
          BY <5>1, EarlierInBatch
        <5> QED
          BY <3>4, <4>1, <5>1, <5>2
      <4>3. k \in 1..cursor /\ Handled(batch[k])
        BY <1>0, <2>1, <4>2 DEF EventTypes
      <4>4. PICK q \in 1..Len(commands) : commands[q] = ToCommand(batch[k])
        BY <1>1, <4>3 DEF OrderInv, CommandsOrder
      <4>5. q < r
        BY <1>1, <1>4, <3>1, <3>2, <4>2, <4>3, <4>4 DEF OrderInv, CommandsOrder
      <4>6. q \in 1..n /\ old + q < p
        BY <1>3, <1>4, <3>1, <4>5
      <4>7. Requests'[old + q] = ToCommand(log[topic][i]) /\ old + q \in 1..Len(Requests')
        BY <1>2, <1>4, <4>2, <4>4, <4>6 DEF old
      <4> QED
        BY <2>1, <4>6, <4>7
    <3>5. CASE i <= done[topic] /\ ToCommand(log[topic][i]) \in Messages("DomainRequests")'
      <4>1. PICK q \in 1..old : Requests[q] = ToCommand(log[topic][i])
        BY <1>13, <2>1, <3>5
      <4>2. q < p /\ q \in 1..Len(Requests') /\ Requests'[q] = Requests[q]
        BY <1>2, <1>3, <1>4, <3>1 DEF old
      <4> QED
        BY <2>1, <4>1, <4>2
    <3>6. CASE i <= done[topic] /\ ToCommand(log[topic][i]) \notin Messages("DomainRequests")'
      BY <1>1, <2>1, <3>6
    <3> QED
      BY <1>3, <3>4, <3>5, <3>6
  <2> QED
    BY <1>4, <2>2, <2>3
<1>15. SingleInv(done)'
  <2> SUFFICES ASSUME faults = 0, signals = 0
               PROVE  /\ stopAt = 0
                      /\ \A p \in 1..Len(Requests') : ~IsEvent(Requests'[p]) =>
                            \E topic \in Topics : \E i \in 1..Len(log'[topic]) :
                                MadeOf(Requests[p], topic, i)' /\ i <= position[topic]
                      /\ \A p, q \in 1..Len(Requests') :
                            ~IsEvent(Requests'[p]) /\ Requests'[p] = Requests'[q] => p = q
    BY <1>1 DEF OrderInv, SingleInv, IsEvent
  <2>1. stopAt = 0
    BY DEF OrderInv, SingleInv
  \* The commands sent before are of acknowledged events, ...
  <2>2. ASSUME NEW p \in 1..old, ~IsEvent(Requests[p])
        PROVE  \E topic \in Topics : \E i \in 1..Len(log[topic]) :
                  MadeOf(Requests[p], topic, i) /\ i <= done[topic]
    BY <1>1, <2>2 DEF OrderInv, SingleInv, old
  <2>3. ASSUME NEW p \in 1..Len(Requests'), ~IsEvent(Requests'[p])
        PROVE  \E topic \in Topics : \E i \in 1..Len(log'[topic]) :
                  MadeOf(Requests[p], topic, i)' /\ i <= position[topic]
    <3>1. CASE p \in 1..old
      <4>1. Requests'[p] = Requests[p]
        BY <1>2, <3>1 DEF old
      <4>2. PICK topic \in Topics : \E i \in 1..Len(log[topic]) :
                MadeOf(Requests[p], topic, i) /\ i <= done[topic]
        BY <2>2, <2>3, <3>1, <4>1
      <4>3. PICK i \in 1..Len(log[topic]) : MadeOf(Requests[p], topic, i) /\ i <= done[topic]
        BY <4>2
      <4>4. i \in 1..Len(log'[topic]) /\ log'[topic][i] = log[topic][i] /\ i <= position[topic]
        BY <1>2, <1>3, <4>3
      <4> QED
        BY <1>5, <4>1, <4>3, <4>4 DEF MadeOf
    <3>2. CASE \E r \in 1..n : p = old + r
      <4>1. PICK topic \in Topics : \E i \in 1..position[topic] :
                /\ i \in 1..Len(log[topic]) /\ IsEvent(log[topic][i])
                /\ Requests'[p] = ToCommand(log[topic][i])
        BY <1>6, <3>2
      <4>2. PICK i \in 1..position[topic] :
                /\ i \in 1..Len(log[topic]) /\ IsEvent(log[topic][i])
                /\ Requests'[p] = ToCommand(log[topic][i])
        BY <4>1
      <4>3. i \in 1..Len(log'[topic]) /\ log'[topic][i] = log[topic][i] /\ i <= position[topic]
        BY <1>2, <1>3, <4>2
      <4> QED
        BY <1>5, <4>2, <4>3
    <3> QED
      BY <1>4, <3>1, <3>2
  \* ... those sent now are not.
  <2>4. ASSUME NEW p \in 1..old, NEW r \in 1..n, ~IsEvent(Requests[p])
        PROVE  Requests[p] # Requests'[old + r]
    <3> SUFFICES ASSUME Requests[p] = Requests'[old + r]
                 PROVE  FALSE
      OBVIOUS
    <3>1. PICK topic \in Topics : \E i \in 1..Len(log[topic]) :
              MadeOf(Requests[p], topic, i) /\ i <= done[topic]
      BY <2>2, <2>4
    <3>2. PICK i \in 1..Len(log[topic]) : MadeOf(Requests[p], topic, i) /\ i <= done[topic]
      BY <3>1
    <3>3. PICK other \in Topics : \E j \in 1..position[other] :
              /\ j \in 1..Len(log[other]) /\ IsEvent(log[other][j])
              /\ Requests'[old + r] = ToCommand(log[other][j]) /\ done[other] < j
      BY <1>4, <1>6
    <3>4. PICK j \in 1..position[other] :
              /\ j \in 1..Len(log[other]) /\ IsEvent(log[other][j])
              /\ Requests'[old + r] = ToCommand(log[other][j]) /\ done[other] < j
      BY <3>3
    <3>5. topic = other /\ i = j
      BY <1>0, <3>2, <3>4, OnePlace DEF OrderInv, MadeOf
    <3> QED
      BY <1>3, <3>2, <3>4, <3>5
  <2>5. \A q, r \in 1..n : Requests'[old + q] = Requests'[old + r] => q = r
    <3> SUFFICES ASSUME NEW q \in 1..n, NEW r \in 1..n, Requests'[old + q] = Requests'[old + r]
                 PROVE  q = r
      OBVIOUS
    <3>1. /\ Requests'[old + q] = commands[q] /\ q \in 1..Len(commands)
          /\ Requests'[old + r] = commands[r] /\ r \in 1..Len(commands)
      BY <1>2, <1>4 DEF old
    <3> QED
      BY <1>1, <3>1 DEF OrderInv, CommandsOrder
  <2>6. ASSUME NEW p \in 1..Len(Requests'), NEW q \in 1..Len(Requests'),
               ~IsEvent(Requests'[p]), Requests'[p] = Requests'[q]
        PROVE  p = q
    <3>1. \A k \in 1..old : Requests'[k] = Requests[k]
      BY <1>2 DEF old
    <3>2. CASE p \in 1..old /\ q \in 1..old
      BY <2>6, <3>1, <3>2 DEF OrderInv, SingleInv, old
    <3>3. CASE p \in 1..old /\ \E r \in 1..n : q = old + r
      BY <2>4, <2>6, <3>1, <3>3
    <3>4. CASE q \in 1..old /\ \E r \in 1..n : p = old + r
      <4>1. ~IsEvent(Requests[q])
        BY <2>6, <3>1, <3>4
      <4> QED
        BY <2>4, <2>6, <3>1, <3>4, <4>1
    <3>5. CASE (\E r \in 1..n : p = old + r) /\ (\E r \in 1..n : q = old + r)
      BY <2>5, <2>6, <3>5
    <3> QED
      BY <1>4, <3>2, <3>3, <3>4, <3>5
  <2> QED
    BY <2>1, <2>3, <2>6
<1> QED
  BY <1>1, <1>8, <1>9, <1>10, <1>12, <1>14, <1>15 DEF OrderInv, DoneInv

-----------------------------------------------------------------------------
LEMMA ServesFrame ==
    ASSUME ServeInv, UNCHANGED <<service, clients, startAt, stopAt>>
    PROVE  ServeInv'
BY DEF ServeInv, StartOf, MadeAt

LEMMA SignalServes ==
    ASSUME ServeInv, Signal
    PROVE  ServeInv'
<1>1. UNCHANGED <<service, clients, startAt>> /\ stopAt' = 1
  BY DEF Signal
<1>2. \A k : StartOf(k)' = StartOf(k) /\ MadeAt(k)' = MadeAt(k)
  BY <1>1 DEF StartOf, MadeAt
<1>3. \A k \in 1..Len(Startup[service]) :
         /\ k < startAt => clients[StartOf(k)] \in {"ready", "closed"}
         /\ k >= startAt => clients[StartOf(k)] # "ready"
         /\ \A c \in MadeAt(k) : clients[c] = "none" <=> startAt <= k
  BY DEF ServeInv
<1>4. service # "api" =>
         /\ \A c \in Repositories : clients[c] # "closed"
         /\ clients["producer"] # "none" => clients["consumer"] # "none"
         /\ clients["producer"] = "closed" => clients["consumer"] = "closed"
         /\ clients["consumer"] = "closed" => clients["reading"] # "ready"
  BY DEF ServeInv
<1> QED
  BY <1>1, <1>2, <1>3, <1>4 DEF ServeInv

LEMMA InitServes ==
    ASSUME Init
    PROVE  ServeInv
<1>1. service \in DOMAIN Startup /\ startAt = 1 /\ stopAt = 0
  BY DEF Init, LifecycleInit, Startup
<1>2. \A c \in Clients : clients[c] = "none"
  BY DEF Init, LifecycleInit
<1>3. Len(Startup[service]) \in Nat
  BY <1>1, Awaits
<1>4. \A k \in 1..Len(Startup[service]) : StartOf(k) \in Clients /\ MadeAt(k) \subseteq Clients
  BY <1>1, StartSequences
<1>5. Repositories \subseteq Clients /\ {"producer", "consumer", "reading"} \subseteq Clients
  BY DEF Repositories, Clients
<1>6. ASSUME NEW k \in 1..Len(Startup[service])
      PROVE  /\ k < startAt => clients[StartOf(k)] \in {"ready", "closed"}
             /\ k >= startAt => clients[StartOf(k)] # "ready"
             /\ \A c \in MadeAt(k) : clients[c] = "none" <=> startAt <= k
  BY <1>1, <1>2, <1>3, <1>4
<1> QED
  BY <1>1, <1>2, <1>5, <1>6 DEF ServeInv

LEMMA InitOrder ==
    ASSUME Init
    PROVE  Ordered
<1> DEFINE none == [topic \in Topics |-> 0]
<1>1. /\ \A topic \in Topics : log[topic] = <<>> /\ position[topic] = 0 /\ committed[topic] = 0
      /\ batch = <<>> /\ pc = "idle" /\ stopAt = 0 /\ signals = 0
      /\ "DomainRequests" \in Topics
  BY DEF Init, LifecycleInit, Topics
<1>2. Requests = <<>> /\ 1..Len(Requests) = {}
  BY <1>1 DEF Requests
<1>3. \A topic \in Topics : 1..Len(log[topic]) = {} /\ 1..position[topic] = {}
  BY <1>1
<1>4. NumbersInv /\ MadeInv /\ SentOrder(none)
  BY <1>2, <1>3 DEF NumbersInv, MadeInv, SentOrder
<1>5. DoneInv(none) /\ BatchOrder(none) /\ CommandsOrder
  BY <1>1, <1>3 DEF DoneInv, BatchOrder, CommandsOrder
<1>6. SingleInv(none)
  BY <1>1, <1>2 DEF SingleInv
<1>7. none \in [Topics -> Nat]
  OBVIOUS
<1> HIDE DEF none
<1> QED
  BY <1>4, <1>5, <1>6, <1>7 DEF OrderInv, Ordered

\* Every step keeps the order of the commands: a commit of the batch and the end of the
\* process move done to what is committed, and nothing else moves it.
LEMMA OrderStep ==
    ASSUME EventInv, ServeInv, Ordered, Next
    PROVE  Ordered'
<1>1. PICK done \in [Topics -> Nat] : OrderInv(done)
  BY DEF Ordered
<1>2. EventTypes
  BY DEF EventInv
<1>3. CASE (StartStep /\ UNCHANGED eventVars) \/ (StopStep /\ StopCommits)
           \/ (Signal /\ UNCHANGED eventVars)
  BY <1>1, <1>3, ServiceOrder DEF Ordered
<1>4. CASE (StartRejected \/ StopDone \/ Killed) /\ MemoryLost
  <2>1. PICK next \in [Topics -> Nat] : next = committed
    BY <1>2 DEF EventTypes
  <2> QED
    BY <1>1, <1>4, <2>1, EndOrder DEF Ordered
<1>5. CASE \E name \in Inputs, id \in Ids, opaque \in BOOLEAN : Publish(name, id, opaque)
  BY <1>1, <1>5, PublishOrder DEF Ordered
<1>6. CASE \E topic \in Topics : Receive(topic)
  BY <1>1, <1>6, ReceiveOrder DEF Ordered
<1>7. CASE Deliver \/ MapMessage \/ MapThrows \/ SendCommands
  BY <1>1, <1>7, DeliverOrder, MapMessageOrder, MapThrowsOrder, SendOrder DEF Ordered
<1>8. CASE Commit
  <2>1. PICK next \in [Topics -> Nat] : next = position
    BY <1>2 DEF EventTypes
  <2> QED
    BY <1>1, <1>8, <2>1, CommitOrder DEF Ordered
<1> QED
  BY <1>3, <1>4, <1>5, <1>6, <1>7, <1>8 DEF Next, Process, Environment

\* A stuttering step keeps it.
LEMMA OrderStutter ==
    ASSUME EventInv, Ordered, UNCHANGED allVars
    PROVE  Ordered'
<1>1. PICK done \in [Topics -> Nat] : OrderInv(done)
  BY DEF Ordered
<1>2. /\ UNCHANGED <<service, clients, startAt, stopAt, signals, faults>>
      /\ UNCHANGED <<log, committed, position, batch, pc, cursor, commands>>
  BY DEF allVars, serviceVars, eventVars, batchVars
<1>3. BatchOrder(done)' /\ CommandsOrder'
  BY <1>1, <1>2, BatchFrame, CommandsFrame
<1>4. DoneInv(done)' /\ \A other \in Topics : done[other] <= done[other]
  BY <1>1, <1>2 DEF OrderInv, DoneInv
<1>5. OrderInv(done)'
  <2>1. EventTypes /\ signals' \in Nat
    BY <1>1, <1>2 DEF EventInv, OrderInv, SingleInv
  <2> QED
    BY <1>1, <1>2, <1>3, <1>4, <2>1, SilentOrder
<1> QED
  BY <1>5 DEF Ordered

\* Every step keeps what the clients are and the order of the commands.
LEMMA OrderInduction == Spec => [](EventInv /\ ServeInv /\ Ordered)
<1>1. Init => ServeInv /\ Ordered
  BY InitServes, InitOrder
<1>2. EventInv /\ ServeInv /\ Ordered /\ [Next]_allVars => ServeInv' /\ Ordered'
  <2> SUFFICES ASSUME EventInv, ServeInv, Ordered, [Next]_allVars
               PROVE  ServeInv' /\ Ordered'
    OBVIOUS
  <2>0. EventTypes /\ service \in DOMAIN Startup
    BY DEF EventInv, EventTypes, EventHandlerTypeOK
  <2>1. Ordered'
    BY OrderStep, OrderStutter
  <2>2. CASE StartStep \/ StopStep
    BY <2>0, <2>1, <2>2, StartServes, StopServes
  <2>3. CASE StartRejected \/ StopDone \/ Killed
    <3>1. /\ clients' = [c \in Clients |-> "none"] /\ startAt' = 1 /\ stopAt' = 0
          /\ service' = service
      BY <2>3 DEF StartRejected, StopDone, Killed, Ended
    <3> QED
      BY <2>0, <2>1, <3>1, EndServes
  <2>4. CASE Signal
    BY <2>1, <2>4, SignalServes
  <2>5. CASE UNCHANGED serviceVars \/ UNCHANGED <<service, clients, startAt, stopAt>>
    <3>1. UNCHANGED <<service, clients, startAt, stopAt>>
      BY <2>5 DEF serviceVars
    <3> QED
      BY <2>1, <3>1, ServesFrame
  <2>6. CASE Next
    <3>1. CASE \/ \E name \in Inputs, id \in Ids, opaque \in BOOLEAN : Publish(name, id, opaque)
               \/ \E topic \in Topics : Receive(topic)
               \/ Deliver \/ MapMessage \/ MapThrows \/ SendCommands \/ Commit
      BY <2>5, <3>1 DEF Publish, Receive, Deliver, MapMessage, MapThrows, SendCommands, Commit
    <3> QED
      BY <2>2, <2>3, <2>4, <2>6, <3>1 DEF Next, Process, Environment
  <2>7. CASE UNCHANGED allVars
    BY <2>5, <2>7 DEF allVars
  <2> QED
    BY <2>6, <2>7
<1> QED
  BY <1>1, <1>2, EventInduction, PTL DEF Spec

\* A set of numbers has a least one.
LEMMA LeastNumber ==
    ASSUME NEW T, T \subseteq Nat, T # {}
    PROVE  \E x \in T : \A y \in T : x <= y
<1> DEFINE R == OpToRel(<, Nat)
<1>1. IsWellFoundedOn(R, Nat)
  BY NatLessThanWellFounded
<1>2. \A x, y \in Nat : x < y => <<x, y>> \in R
  BY DEF OpToRel
<1> HIDE DEF R
<1>3. PICK x \in T : \A y \in T : <<y, x>> \notin R
  BY <1>1, WFMin
<1>4. x \in Nat
  BY <1>3
<1>5. ASSUME NEW y \in T PROVE x <= y
  <2>1. y \in Nat /\ ~(y < x)
    BY <1>2, <1>3, <1>4, <1>5
  <2> QED
    BY <1>4, <2>1
<1> QED
  BY <1>5

\* The first command of an event that has one.
LEMMA FirstIsFirst ==
    ASSUME EventTypes, NEW m, Sent(m)
    PROVE  /\ FirstCommand(m) \in 1..Len(Requests)
           /\ Requests[FirstCommand(m)] = ToCommand(m)
           /\ \A p \in 1..Len(Requests) : Requests[p] = ToCommand(m) => FirstCommand(m) <= p
<1>1. Len(Requests) \in Nat /\ DOMAIN Requests = 1..Len(Requests)
  BY Places DEF Requests
<1> DEFINE T == {p \in 1..Len(Requests) : Requests[p] = ToCommand(m)}
<1>2. T \subseteq Nat /\ T # {}
  BY <1>1 DEF Sent, Messages, Requests
<1>3. PICK x \in T : \A y \in T : x <= y
  BY <1>2, LeastNumber
<1>4. /\ x \in DOMAIN Requests
      /\ Requests[x] = ToCommand(m) /\ \A k \in 1..(x - 1) : Requests[k] # ToCommand(m)
  <2>1. x \in 1..Len(Requests) /\ Requests[x] = ToCommand(m)
    BY <1>3
  <2>2. ASSUME NEW k \in 1..(x - 1), Requests[k] = ToCommand(m)
        PROVE  FALSE
    <3>1. k \in T /\ ~(x <= k)
      BY <1>1, <2>1, <2>2
    <3> QED
      BY <1>3, <3>1
  <2> QED
    BY <1>1, <2>1, <2>2
<1>5. /\ FirstCommand(m) \in DOMAIN Requests
      /\ Requests[FirstCommand(m)] = ToCommand(m)
      /\ \A k \in 1..(FirstCommand(m) - 1) : Requests[k] # ToCommand(m)
  BY <1>4 DEF FirstCommand
<1>6. ASSUME NEW p \in 1..Len(Requests), Requests[p] = ToCommand(m)
      PROVE  FirstCommand(m) <= p
  BY <1>1, <1>5, <1>6
<1> QED
  BY <1>1, <1>5, <1>6

\* However often a signal or the death of the process interrupts start and stop, and
\* whichever of the services it runs: what the service needs is connected while it takes
\* messages, and while the API answers without being stopped.
THEOREM ServesWhenReady == Spec => []ServesOnlyWhenReady
<1>1. EventInv /\ ServeInv => ServesOnlyWhenReady
  BY ServesReady DEF EventInv
<1> QED
  BY <1>1, OrderInduction, PTL

\* As long as nothing failed and no signal came, each event became one command at most,
\* for any number of events on any of the topics.
THEOREM EachEventOneCommand == Spec => []OneCommandEach
<1>1. EventInv /\ Ordered => OneCommandEach
  <2> SUFFICES ASSUME EventInv, NEW done, OrderInv(done), faults = 0, signals = 0,
                      NEW i \in DOMAIN Requests, NEW j \in DOMAIN Requests,
                      Requests[i].type = "COMMAND", Requests[i] = Requests[j]
               PROVE  i = j
    BY DEF OneCommandEach, Ordered
  <2>1. DOMAIN Requests = 1..Len(Requests)
    BY Places DEF EventInv, Requests
  <2>2. ~IsEvent(Requests[i])
    BY DEF IsEvent
  <2> QED
    BY <2>1, <2>2 DEF OrderInv, SingleInv
<1> QED
  BY <1>1, OrderInduction, PTL

\* Whatever fails, and however often the process dies and reads again: the first commands
\* of two events of a topic are in the order of the events.
THEOREM CommandsInOrder == Spec => []CommandsFollowEvents
<1>1. EventInv /\ Ordered => CommandsFollowEvents
  <2> SUFFICES ASSUME EventInv, NEW done, OrderInv(done), NEW topic \in Topics,
                      NEW i \in DOMAIN log[topic], NEW j \in DOMAIN log[topic], i < j,
                      Handled(log[topic][i]), Sent(log[topic][i]),
                      Handled(log[topic][j]), Sent(log[topic][j])
               PROVE  FirstCommand(log[topic][i]) < FirstCommand(log[topic][j])
    BY DEF CommandsFollowEvents, Ordered
  <2>0. EventTypes
    BY DEF EventInv
  <2>1. i \in 1..Len(log[topic]) /\ j \in 1..Len(log[topic]) /\ Len(Requests) \in Nat
    BY <2>0, Places DEF Requests
  <2> DEFINE first == FirstCommand(log[topic][i])
             later == FirstCommand(log[topic][j])
  <2>2. /\ first \in 1..Len(Requests)
        /\ \A p \in 1..Len(Requests) : Requests[p] = ToCommand(log[topic][i]) => first <= p
    BY <2>0, FirstIsFirst
  <2>3. later \in 1..Len(Requests) /\ Requests[later] = ToCommand(log[topic][j])
    BY <2>0, FirstIsFirst
  <2> HIDE DEF first, later
  <2>4. PICK q \in 1..Len(Requests) : q < later /\ Requests[q] = ToCommand(log[topic][i])
    BY <2>1, <2>3 DEF OrderInv, SentOrder
  <2>5. first < later
    BY <2>1, <2>2, <2>3, <2>4
  <2> QED
    BY <2>5 DEF first, later
<1> QED
  BY <1>1, OrderInduction, PTL
=============================================================================
