---------------------------- MODULE OutboxDelivery ----------------------------
(***************************************************************************)
(* The transactional outbox: DeadLetterService.create writes a row in the  *)
(* transaction of the dead letter; the outbox poller of every instance,    *)
(* leader or not, publishes pending rows to RabbitMQ and marks them.       *)
(*                                                                         *)
(* A flush works through the rows it read at its start.  It writes what    *)
(* follows from that snapshot, by _id alone, whatever the pollers of other *)
(* instances wrote to the row meanwhile.                                   *)
(***************************************************************************)
EXTENDS Naturals, Sequences, FiniteSets

CONSTANTS Events,     \* outbox rows, one per dead letter
          Instances,  \* processes
          Limit,      \* BATCH_SIZE
          MaxRetry,   \* MAX_RETRY_COUNT
          MaxFaults,  \* bound: rejected calls
          MaxCrashes, \* bound: processes that end or shut down
          Troubles    \* which of "mongo", "rabbit", "crash", "stop" happen

ASSUME OutboxConstants ==
  /\ IsFiniteSet(Instances)
  /\ Limit \in Nat \ {0} /\ MaxRetry \in Nat \ {0}
  /\ MaxFaults \in Nat /\ MaxCrashes \in Nat

VARIABLES
  row,      \* event -> its outbox row
  created,  \* the events in the order of createdAt
  running,  \* instance -> the poller's running flag
  flush,    \* instance -> where its poller is, and the rest of its snapshot
  channel,  \* instance -> its channel to RabbitMQ
  sent,     \* event -> how often a poller handed it to its channel
  queued,   \* the events a queue of RabbitMQ holds
  faults,   \* rejected calls so far
  crashes   \* processes ended so far

outboxVars ==
  <<row, created, running, flush, channel, sent, queued, faults, crashes>>
bounds == <<faults, crashes>>

-----------------------------------------------------------------------------
(* The exchanges, queues and bindings connectRabbitMQ asserts.  The queue of
   dead jobs is bound to the dead letter exchange. *)
SchedulerExchange == "scheduler.exchange"
DeadLetterExchange == "scheduler.dlx"
Bindings ==
  {<<SchedulerExchange, key>> :
     key \in {"job.completed", "job.failed", "job.scheduled", "job.heartbeat"}}
    \cup {<<DeadLetterExchange, "job.dead">>}

EventKey == "job.dead"
IsRouted == <<SchedulerExchange, EventKey>> \in Bindings

NoRow      == [status |-> "absent", retryCount |-> 0]
PendingRow == [status |-> "pending", retryCount |-> 0]

(* find({status: "pending", retryCount: {$lt}}).sort(createdAt).limit *)
FindableEver(e) == row[e].status # "absent"     \* seeded fault: no filter
Findable(e) == row[e].status = "pending" /\ row[e].retryCount < MaxRetry

(* The rows found among the first n that were created. *)
Found[n \in 0 .. Len(created)] ==
  IF n = 0 THEN <<>>
  ELSE IF Findable(created[n]) /\ Len(Found[n - 1]) < Limit
       THEN Append(Found[n - 1], [event |-> created[n],
                                  retryCount |-> row[created[n]].retryCount])
       ELSE Found[n - 1]

Snapshot == Found[Len(created)]

Down    == [at |-> "down", rest |-> <<>>]
Waiting == [at |-> "timer", rest |-> <<>>]
Stopped == [at |-> "none", rest |-> <<>>]

At(i, what) == flush[i].at = what
Current(i)  == Head(flush[i].rest)
Goto(i, what) == flush' = [flush EXCEPT ![i].at = what]

EndFlushForGood(i) ==     \* seeded fault: no timer after an empty find
  flush' = [flush EXCEPT ![i] = IF running[i] /\ flush[i].rest # <<>>
                                THEN Waiting ELSE Stopped]

(* The flush is over: the finally block sets the timer again. *)
EndFlush(i) ==
  flush' = [flush EXCEPT ![i] = IF running[i] THEN Waiting ELSE Stopped]

NextEvent(i) ==
  IF Len(flush[i].rest) > 1
  THEN flush' = [flush EXCEPT ![i] = [at |-> "publish", rest |-> Tail(flush[i].rest)]]
  ELSE EndFlush(i)

Fault(kind) ==
  /\ kind \in Troubles /\ faults < MaxFaults
  /\ faults' = faults + 1
  /\ UNCHANGED crashes

OutboxInit ==
  /\ row = [e \in Events |-> NoRow]
  /\ created = <<>>
  /\ running = [i \in Instances |-> TRUE]
  /\ flush = [i \in Instances |-> Waiting]
  /\ channel = [i \in Instances |-> "open"]
  /\ sent = [e \in Events |-> 0]
  /\ queued = {}
  /\ faults = 0
  /\ crashes = 0

-----------------------------------------------------------------------------
(* DeadLetterService.create commits the dead letter and the row. *)
CreateRow(e) ==
  /\ row[e] = NoRow
  /\ row' = [row EXCEPT ![e] = PendingRow]
  /\ created' = Append(created, e)
  /\ UNCHANGED <<running, flush, channel, sent, queued, bounds>>

(* flush. *)
Find(i) ==
  /\ At(i, "timer")
  /\ IF Snapshot = <<>>
     THEN EndFlush(i)
     ELSE flush' = [flush EXCEPT ![i] = [at |-> "publish", rest |-> Snapshot]]
  /\ UNCHANGED <<row, created, running, channel, sent, queued, bounds>>

FindFails(i) ==
  /\ At(i, "timer")
  /\ Fault("mongo")
  /\ EndFlush(i)
  /\ UNCHANGED <<row, created, running, channel, sent, queued>>

(* publishToExchange: a channel is opened when there is none.  The message is
   handed to the channel without a confirmation: one whose connection is gone
   and not yet known to be loses it, and so does an exchange without a binding
   for the routing key. *)
Publish(i) ==
  /\ At(i, "publish")
  /\ channel' = [channel EXCEPT ![i] = IF @ = "none" THEN "open" ELSE @]
  /\ sent' = [sent EXCEPT ![Current(i).event] = @ + 1]
  /\ queued' = IF channel'[i] = "open" /\ IsRouted
               THEN queued \cup {Current(i).event} ELSE queued
  /\ Goto(i, "complete")
  /\ UNCHANGED <<row, created, running, bounds>>

ConnectFailsSilently(i) ==     \* seeded fault: the error is swallowed
  /\ At(i, "publish") /\ channel[i] = "none"
  /\ Fault("rabbit")
  /\ Goto(i, "complete")
  /\ UNCHANGED <<row, created, running, channel, sent, queued>>

(* connectRabbitMQ gives up after its last attempt. *)
ConnectFails(i) ==
  /\ At(i, "publish") /\ channel[i] = "none"
  /\ Fault("rabbit")
  /\ Goto(i, "blame")
  /\ UNCHANGED <<row, created, running, channel, sent, queued>>

(* A channel that disconnectRabbitMQ is closing is still in the variable; what
   is published on it throws, which counts as a rejected call. *)
PublishThrows(i) ==
  /\ At(i, "publish") /\ ~running[i] /\ channel[i] # "none"
  /\ Fault("rabbit")
  /\ Goto(i, "blame")
  /\ UNCHANGED <<row, created, running, channel, sent, queued>>

Complete(i) ==
  /\ At(i, "complete")
  /\ row' = [row EXCEPT ![Current(i).event].status = "completed"]
  /\ NextEvent(i)
  /\ UNCHANGED <<created, running, channel, sent, queued, bounds>>

CompleteFails(i) ==
  /\ At(i, "complete")
  /\ Fault("mongo")
  /\ Goto(i, "blame")
  /\ UNCHANGED <<row, created, running, channel, sent, queued>>

(* The catch block. *)
IsDeadOffByOne(retryCount) == retryCount > MaxRetry     \* seeded fault
IsDead(retryCount) == retryCount >= MaxRetry

Blame(i) ==
  /\ At(i, "blame")
  /\ LET newRetryCount == Current(i).retryCount + 1 IN
       row' = [row EXCEPT ![Current(i).event] =
                 [status |-> IF IsDead(newRetryCount) THEN "dead" ELSE "pending",
                  retryCount |-> newRetryCount]]
  /\ NextEvent(i)
  /\ UNCHANGED <<created, running, channel, sent, queued, bounds>>

(* The catch block itself throws: the rest of the snapshot is given up. *)
BlameFails(i) ==
  /\ At(i, "blame")
  /\ Fault("mongo")
  /\ EndFlush(i)
  /\ UNCHANGED <<row, created, running, channel, sent, queued>>

-----------------------------------------------------------------------------
(* The connection is lost; later its close event arrives. *)
ConnectionBreaks(i) ==
  /\ "rabbit" \in Troubles /\ channel[i] = "open"
  /\ channel' = [channel EXCEPT ![i] = "broken"]
  /\ UNCHANGED <<row, created, running, flush, sent, queued, bounds>>

CloseEvent(i) ==
  /\ channel[i] = "broken"
  /\ channel' = [channel EXCEPT ![i] = "none"]
  /\ UNCHANGED <<row, created, running, flush, sent, queued, bounds>>

EndOfProcess(kind) ==
  /\ kind \in Troubles /\ crashes < MaxCrashes
  /\ crashes' = crashes + 1
  /\ UNCHANGED faults

(* shutdown calls stopOutboxPoller; a flush in progress goes on until the
   process exits, with a channel of its own once disconnectRabbitMQ closed
   the one it had. *)
StopPoller(i) ==
  /\ EndOfProcess("stop") /\ running[i]
  /\ running' = [running EXCEPT ![i] = FALSE]
  /\ flush' = [flush EXCEPT ![i] = IF At(i, "timer") THEN Stopped ELSE @]
  /\ UNCHANGED <<row, created, channel, sent, queued>>

Disconnect(i) ==
  /\ ~running[i] /\ channel[i] # "none"
  /\ channel' = [channel EXCEPT ![i] = "none"]
  /\ UNCHANGED <<row, created, running, flush, sent, queued, bounds>>

Die(i) ==
  /\ running' = [running EXCEPT ![i] = FALSE]
  /\ flush' = [flush EXCEPT ![i] = Down]
  /\ channel' = [channel EXCEPT ![i] = "none"]
  /\ UNCHANGED <<row, created, sent, queued>>

Exit(i)  == ~running[i] /\ ~At(i, "down") /\ Die(i) /\ UNCHANGED bounds
Crash(i) == EndOfProcess("crash") /\ ~At(i, "down") /\ Die(i)

(* bootstrapServer: connectRabbitMQ, then startOutboxPoller. *)
Restart(i) ==
  /\ At(i, "down")
  /\ running' = [running EXCEPT ![i] = TRUE]
  /\ flush' = [flush EXCEPT ![i] = Waiting]
  /\ channel' = [channel EXCEPT ![i] = "open"]
  /\ UNCHANGED <<row, created, sent, queued, bounds>>

FlushStep(i) ==
  \/ Find(i) \/ FindFails(i)
  \/ Publish(i) \/ ConnectFails(i) \/ PublishThrows(i)
  \/ Complete(i) \/ CompleteFails(i) \/ Blame(i) \/ BlameFails(i)

OutboxNext ==
  \/ \E e \in Events : CreateRow(e)
  \/ \E i \in Instances :
       \/ FlushStep(i)
       \/ ConnectionBreaks(i) \/ CloseEvent(i)
       \/ StopPoller(i) \/ Disconnect(i) \/ Exit(i)
       \/ Crash(i) \/ Restart(i)

OutboxSpec == OutboxInit /\ [][OutboxNext]_outboxVars

(* Timers fire, awaited calls settle, a shutdown that began ends the process
   and ended processes are restarted. *)
FairOutbox ==
  /\ OutboxSpec
  /\ \A i \in Instances :
       /\ WF_outboxVars(FlushStep(i))
       /\ WF_outboxVars(Exit(i)) /\ WF_outboxVars(Restart(i))

-----------------------------------------------------------------------------
(* The types of the variables. *)
OutboxTypeOK ==
  /\ row \in [Events -> [status : {"absent", "pending", "completed", "dead"},
                         retryCount : 0 .. MaxRetry]]
  /\ created \in Seq(Events)
  /\ running \in [Instances -> BOOLEAN]
  /\ flush \in [Instances ->
                  [at : {"down", "none", "timer", "publish", "complete", "blame"},
                   rest : Seq([event : Events, retryCount : 0 .. MaxRetry - 1])]]
  /\ channel \in [Instances -> {"none", "open", "broken"}]
  /\ sent \in [Events -> Nat]
  /\ queued \subseteq Events
  /\ faults \in 0 .. MaxFaults
  /\ crashes \in 0 .. MaxCrashes

(* No interleaving of flushes leaves a row that is pending and that no flush
   will ever find, although each writes a status and a count computed from its
   own, possibly old, snapshot. *)
PendingIsFindable ==
  \A e \in Events : row[e].status = "pending" => row[e].retryCount < MaxRetry

(* A row is completed only if a poller handed its event to a channel. *)
CompletedWasSent ==
  \A e \in Events : row[e].status = "completed" => sent[e] > 0

(* Delivery is at least once; how often an event is handed over is bounded: a
   first time by each poller, and again by each for each rejected call, which
   may also put a completed row back to pending, and each ended process. *)
DuplicatesBounded ==
  \A e \in Events :
    sent[e] <= Cardinality(Instances) * (1 + faults + crashes)

(* Every row a dead letter leaves is completed or given up. *)
EventSettles ==
  \A e \in Events :
    row[e].status = "pending" ~> row[e].status \in {"completed", "dead"}

(* Project.md:211: "Durable event delivery via outbox pattern, no silent event
   loss."  The event of a completed row is in a queue. *)
NoSilentLoss ==
  \A e \in Events : row[e].status = "completed" => e \in queued
=============================================================================
