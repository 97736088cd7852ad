--------------------------- MODULE ServiceLifecycle ---------------------------
(***************************************************************************)
(* How the three services of the bounded context start, stop and die:      *)
(* Service.start, Service.stop and the signal handlers of service.ts in    *)
(* event-handler-svc, command-handler-svc and transfers-api-svc.           *)
(*                                                                         *)
(* A process runs one of them.  start awaits one client after another; a   *)
(* SIGINT or SIGTERM may come at any of these awaits, and stop then runs   *)
(* beside start.                                                           *)
(*                                                                         *)
(* Limits of the model.                                                    *)
(*  - At most MaxSignals signals come, and none while another is handled;  *)
(*    at most MaxFaults things go wrong.                                   *)
(*  - The client libraries are not in the repository: a client that was    *)
(*    destroyed cannot be connected again.                                 *)
(***************************************************************************)
EXTENDS Integers, Sequences

CONSTANTS
    MaxSignals,     \* bound on the number of signals
    MaxFaults       \* bound on the number of faults

ASSUME LifecycleAssumption == MaxSignals \in Nat /\ MaxFaults \in Nat

VARIABLES
    service,    \* which of the services the process runs
    clients,    \* what became of each client object of the service
    startAt,    \* the await of start the process is at
    stopAt,     \* the await of stop the process is at; 0: no signal came
    signals,    \* signals so far
    faults      \* faults so far

serviceVars == <<service, clients, startAt, stopAt, signals, faults>>

\* "reading" is the started consumption of the topics, between the handler's start
\* and stop.
Clients ==
    {"logger", "config", "authorization", "audit", "consumer", "producer", "reading",
     "transfersRepo", "bulkRepo", "accounts", "settlements", "tokenHelper", "express"}

\* The await of start after which client is ready; the objects in created are made
\* before the next await.
Await(client, created) == [client |-> client, created |-> created]

EventHandlerStart ==
    <<Await("logger", {"config"}),
      Await("config", {}),
      Await("audit", {"consumer", "producer", "reading"}),
      Await("producer", {}),
      Await("consumer", {}),
      Await("reading", {"express"}),
      Await("express", {})>>

CommandHandlerClients ==
    <<Await("logger", {"config"}),
      Await("config", {}),
      Await("authorization", {}),
      Await("audit", {"consumer"}),
      Await("producer", {}),
      Await("transfersRepo", {}),
      Await("bulkRepo", {})>>

CommandHandlerStart ==
    CommandHandlerClients \o
    <<Await("accounts", {}),
      Await("settlements", {"reading"}),
      Await("consumer", {}),
      Await("reading", {"express"}),
      Await("express", {})>>

ApiStart ==
    <<Await("logger", {}),
      Await("audit", {}),
      Await("transfersRepo", {}),
      Await("bulkRepo", {}),
      Await("authorization", {"tokenHelper"}),
      Await("tokenHelper", {"express"}),
      Await("express", {})>>

Startup == [eventHandler |-> EventHandlerStart, commandHandler |-> CommandHandlerStart,
            api |-> ApiStart]

\* Mutant of EventHandlerStop: the producer is destroyed before the consumer.
ProducerFirstStop == <<"express", "producer", "reading", "consumer", "config", "audit", "logger">>

EventHandlerStop == <<"express", "reading", "consumer", "producer", "config", "audit", "logger">>

\* The repositories, accounts, settlements and authorization clients are not destroyed.
CommandHandlerStop == <<"express", "reading", "consumer", "producer", "config", "audit", "logger">>

\* The authorization client and the token helper are not destroyed.
ApiStop == <<"express", "audit", "transfersRepo", "bulkRepo", "logger">>

Shutdown == [eventHandler |-> EventHandlerStop, commandHandler |-> CommandHandlerStop,
             api |-> ApiStop]

Starting == startAt <= Len(Startup[service])
Stopping == stopAt # 0

\* A step of the process that goes wrong.
Mishap == faults < MaxFaults /\ faults' = faults + 1

\* The await can only fail: stop has destroyed the client already.  A consumer that was
\* stopped, and not destroyed, can be started.
Hopeless(client) == clients[IF client = "reading" THEN "consumer" ELSE client] = "closed"

StartStep ==
    LET step == Startup[service][startAt] IN
    /\ Starting
    /\ ~Hopeless(step.client)
    /\ clients' = [c \in Clients |->
                      IF c = step.client THEN "ready"
                      ELSE IF c \in step.created THEN "created" ELSE clients[c]]
    /\ startAt' = startAt + 1
    /\ UNCHANGED <<service, stopAt, signals, faults>>

Signal ==
    /\ ~Stopping
    /\ signals < MaxSignals
    /\ signals' = signals + 1
    /\ stopAt' = 1
    /\ UNCHANGED <<service, clients, startAt, faults>>

\* The objects stop has still to destroy.  It passes over those that do not exist
\* without waiting for anything.
ToStop == {n \in stopAt..Len(Shutdown[service]) : clients[Shutdown[service][n]] # "none"}

\* Destroying the consumer ends the consumption as well.  Only what becomes of the clients
\* is said here: the offsets that messageConsumer.destroy(true) may commit belong to the
\* module that has them (StopCommits in EventHandler).
StopStep ==
    /\ Stopping
    /\ \E n \in ToStop :
          LET client  == Shutdown[service][n]
              stopped == IF client = "consumer" THEN {"consumer", "reading"} ELSE {client} IN
          /\ \A m \in ToStop : n <= m
          /\ clients' = [c \in Clients |-> IF c \in stopped /\ clients[c] # "none"
                                           THEN "closed" ELSE clients[c]]
          /\ stopAt' = n + 1
    /\ UNCHANGED <<service, startAt, signals, faults>>

\* The process ends, and the platform starts it again.
Ended ==
    /\ clients' = [c \in Clients |-> "none"]
    /\ startAt' = 1
    /\ stopAt' = 0
    /\ UNCHANGED <<service, signals>>

\* The promise of start rejects, because stop was faster, and nobody handles it.
StartRejected ==
    /\ Starting
    /\ Hopeless(Startup[service][startAt].client)
    /\ Ended
    /\ UNCHANGED faults

\* process.exit at the end of the signal handler.
StopDone ==
    /\ Stopping
    /\ ToStop = {}
    /\ Ended
    /\ UNCHANGED faults

\* A client that cannot be connected, the startup timer, the five seconds a stop may
\* take, an uncaught exception or the end of the container.
Killed == Ended /\ Mishap

LifecycleInit(services) ==
    /\ service \in services
    /\ clients = [c \in Clients |-> "none"]
    /\ startAt = 1
    /\ stopAt = 0
    /\ signals = 0
    /\ faults = 0

-----------------------------------------------------------------------------
\* What the service answers to, and what it needs for that.
Entry == [eventHandler |-> "reading", commandHandler |-> "reading", api |-> "express"]

Needs ==
    [eventHandler   |-> {"consumer", "producer"},
     commandHandler |-> {"consumer", "producer", "transfersRepo", "bulkRepo", "accounts",
                         "settlements"},
     api            |-> {"transfersRepo", "bulkRepo", "authorization", "tokenHelper"}]

\* Whenever a signal interrupts a start, messages are taken only while every client needed
\* to handle them is connected: none that is not ready yet, and none that was destroyed
\* already.  (The API service may come up while it is being stopped, and then answers
\* requests without its repositories.)
ServesOnlyWhenReady ==
    clients[Entry[service]] = "ready" /\ (service = "api" => ~Stopping) =>
        \A c \in Needs[service] : clients[c] = "ready"
=============================================================================
