---------------------------- MODULE JobExecution ----------------------------
(***************************************************************************)
(* From a job's submission to its last attempt: JobService (enqueue,       *)
(* cancel), RedisJobQueue, Worker, JobExecutor, RetryService,              *)
(* DeadLetterService, the stale-job reset of HeartbeatWatchdog and the     *)
(* TTL index of the jobs collection, run by several scheduler instances    *)
(* over one MongoDB, one Redis and one RabbitMQ.                           *)
(*                                                                         *)
(* A step is what the code does between two awaits: one call to a store    *)
(* and the local code up to the next await.  Promises of one instance      *)
(* interleave with each other exactly as those of two instances do.        *)
(* Whether an instance leads is not a guard here: leadership can overlap   *)
(* (ADR-SCHED-001 accepts it), so any live instance may poll.              *)
(***************************************************************************)
EXTENDS JobStore, FiniteSets, Sequences, Functions

CONSTANTS Jobs,         \* jobIds, the idempotency keys
          Instances,    \* scheduler processes
          Runs,         \* bound: executions in flight at once
          Requests,     \* bound: API calls (POST /jobs, DELETE /jobs/:id)
          None,
          MaxAttempts,  \* maxAttempts of the job definition
          MaxCrashes,   \* bound: process crashes
          MaxFaults,    \* bound: calls that throw
          Faulty        \* the services whose calls may throw

ASSUME NoneAssumption == None \notin Jobs \cup Instances
ASSUME MaxAttemptsAssumption == MaxAttempts \in Nat \ {0}
ASSUME BoundsAssumption == MaxCrashes \in Nat /\ MaxFaults \in Nat
ASSUME FaultyAssumption == Faulty \subseteq {"mongo", "redis", "rabbit"}

VARIABLES
  job,          \* MongoDB, jobs: jobId -> document
  executions,   \* MongoDB, executions: the audit records written
  deadLetters,  \* MongoDB, dead letters and the outbox row of the same
                \* transaction: jobId -> attempts recorded, 0 when none
  queue,        \* Redis sorted set: "absent", or score in the "future" or "due"
  events,       \* events handed to the RabbitMQ channel
  batch,        \* instance -> ZRANGEBYSCORE result not yet ZREMed
  run,          \* slot -> one Worker.run in flight
  request,      \* API calls
  up,           \* live instances
  crashes, faults,
  performed,    \* history: jobId -> the attempts whose handler did its work,
                \* one entry each time it did
  resets        \* history: jobId -> stale resets of the current document

mongo   == <<job, executions, deadLetters>>
process == <<batch, run, request, up>>
bounds  == <<crashes, faults>>
history == <<performed, resets>>
vars    == <<mongo, queue, events, process, bounds, history>>

-----------------------------------------------------------------------------
(* The await a run is suspended at, and the service it waits for.  TryCalls
   are inside JobExecutor's try block; the calls after them are its catch
   block and handleFailure.  The heartbeat key of a job is set, deleted and
   read by nothing, so its value is left out: "heartbeat" is the SET, which
   can reject, and the DEL before an audit record is part of that record's
   call, which rejects when either service does. *)
MongoCalls  == {"find", "claim", "complete", "record", "recordFailure",
                "markDead", "deadLetter", "markFailed"}
RedisCalls  == {"heartbeat", "record", "recordFailure", "reschedule"}
RabbitCalls == {"publishClaimed", "publishCompleted", "publishFailed",
                "publishRetrying"}
TryCalls    == {"complete", "record", "publishCompleted"}
Calls       == MongoCalls \cup RedisCalls \cup RabbitCalls \cup {"handler"}

RequestCalls == {"zadd", "publishScheduled", "zrem", "publishCancelled"}

NoRun == [pc |-> "idle", job |-> None, inst |-> None,
          version |-> 0, attempt |-> 0]
NewRun(i, j) == [NoRun EXCEPT !.pc = "find", !.job = j, !.inst = i]

NewRequest  == [pc |-> "new", job |-> None]
DoneRequest == [pc |-> "done", job |-> None]

InProgress  == {q \in Requests : request[q].pc \in RequestCalls}

At(r, pc)   == run[r].pc = pc
JobOf(r)    == run[r].job
Busy(r)     == run[r].pc # "idle"
IdleRuns    == {r \in Runs : ~Busy(r)}
(* The run holds the document claimJob returned to it. *)
Claimed(r)  == run[r].pc \notin {"idle", "find", "claim"}

(* Faulty variants, which the checks seed. *)
FinishKeepsJob(r)    == run' = [run EXCEPT ![r].pc = "idle"]
ExhaustedOffByOne(r) == run[r].attempt > MaxAttempts

Goto(r, pc) == run' = [run EXCEPT ![r].pc = pc]
Finish(r)   == run' = [run EXCEPT ![r] = NoRun]

(* JobExecutor passes claimed.version + 1 to the mark operations, although
   claimed is the document after the claim raised its version. *)
MarkVersion(r) == run[r].version + 1
Exhausted(r)   == run[r].attempt >= MaxAttempts

(* What performed holds for a job. *)
Histories == Seq(Nat)
NoWork    == <<>>

Event(type, j, k)    == [type |-> type, job |-> j, attempt |-> k]
Record(j, k, status) == [job |-> j, attempt |-> k, status |-> status]

Publish(r, type) ==
  events' = events \cup {Event(type, JobOf(r), run[r].attempt)}

Init ==
  /\ job = [j \in Jobs |-> NoDoc]
  /\ executions = {}
  /\ deadLetters = [j \in Jobs |-> 0]
  /\ queue = [j \in Jobs |-> "absent"]
  /\ events = {}
  /\ batch = [i \in Instances |-> {}]
  /\ run = [r \in Runs |-> NoRun]
  /\ request = [q \in Requests |-> NewRequest]
  /\ up = Instances
  /\ crashes = 0
  /\ faults = 0
  /\ performed = [j \in Jobs |-> NoWork]
  /\ resets = [j \in Jobs |-> 0]

-----------------------------------------------------------------------------
(* JobService.enqueue: createJob, then ZADD NX, then the event.  The later
   steps run whatever document createJob returned. *)
SubmitEnqueue(q, j) ==
  /\ request[q] = NewRequest
  /\ up # {}
  /\ job' = [job EXCEPT ![j] = createJob(@)]
  /\ request' = [request EXCEPT ![q] = [pc |-> "zadd", job |-> j]]
  /\ UNCHANGED <<executions, deadLetters, queue, events, batch, run, up,
                 bounds, history>>

EnqueueZaddXX(q) ==     \* seeded fault: XX where NX belongs
  /\ request[q].pc = "zadd"
  /\ request' = [request EXCEPT ![q].pc = "publishScheduled"]
  /\ UNCHANGED <<mongo, queue, events, batch, run, up, bounds, history>>

EnqueueZadd(q) ==
  /\ request[q].pc = "zadd"
  /\ queue' = [queue EXCEPT ![request[q].job] =
                 IF @ = "absent" THEN "future" ELSE @]
  /\ request' = [request EXCEPT ![q].pc = "publishScheduled"]
  /\ UNCHANGED <<mongo, events, batch, run, up, bounds, history>>

(* JobService.cancel: cancelJob, then ZREM, then the event. *)
SubmitCancel(q, j) ==
  /\ request[q] = NewRequest
  /\ up # {}
  /\ job' = [job EXCEPT ![j] = cancelJob(@)]
  /\ request' = [request EXCEPT ![q] =
                   IF Cancellable(job[j])
                   THEN [pc |-> "zrem", job |-> j]
                   ELSE DoneRequest]
  /\ UNCHANGED <<executions, deadLetters, queue, events, batch, run, up,
                 bounds, history>>

CancelZrem(q) ==
  /\ request[q].pc = "zrem"
  /\ queue' = [queue EXCEPT ![request[q].job] = "absent"]
  /\ request' = [request EXCEPT ![q].pc = "publishCancelled"]
  /\ UNCHANGED <<mongo, events, batch, run, up, bounds, history>>

RequestPublish(q, pc, type) ==
  /\ request[q].pc = pc
  /\ events' = events \cup {Event(type, request[q].job, 0)}
  /\ request' = [request EXCEPT ![q] = DoneRequest]
  /\ UNCHANGED <<mongo, queue, batch, run, up, bounds, history>>

PublishScheduled(q) == RequestPublish(q, "publishScheduled", "scheduled")
PublishCancelled(q) == RequestPublish(q, "publishCancelled", "cancelled")

(* The call of the request rejects: the caller gets an error, and what the
   request had done so far stays. *)
RequestFails(q) ==
  /\ request[q].pc \in RequestCalls
  /\ faults < MaxFaults
  /\ IF request[q].pc \in {"zadd", "zrem"} THEN "redis" \in Faulty
                                           ELSE "rabbit" \in Faulty
  /\ faults' = faults + 1
  /\ request' = [request EXCEPT ![q] = DoneRequest]
  /\ UNCHANGED <<mongo, queue, events, batch, run, up, crashes, history>>

-----------------------------------------------------------------------------
(* RedisJobQueue.dequeue: ZRANGEBYSCORE ... LIMIT in one round trip, ZREM of
   the members it returned in another.  The limit is the free slots of the
   tick, so any non-empty set of due members can come back. *)
ScoreReached(j) ==
  /\ queue[j] = "future"
  /\ queue' = [queue EXCEPT ![j] = "due"]
  /\ UNCHANGED <<mongo, events, process, bounds, history>>

Peek(i) ==
  /\ i \in up
  /\ batch[i] = {}
  /\ \E due \in SUBSET {j \in Jobs : queue[j] = "due"} \ {{}} :
       batch' = [batch EXCEPT ![i] = due]
  /\ UNCHANGED <<mongo, queue, events, run, request, up, bounds, history>>

Without(members) ==
  [j \in Jobs |-> IF j \in members THEN "absent" ELSE queue[j]]

(* The number of members ZREM removed is ignored: all that the first call
   returned are dispatched, one Worker.run each. *)
Remove(i) ==
  /\ batch[i] # {}
  /\ queue' = Without(batch[i])
  /\ batch' = [batch EXCEPT ![i] = {}]
  /\ \E slots \in SUBSET IdleRuns : \E jobIn \in Bijection(slots, batch[i]) :
       run' = [r \in Runs |-> IF r \in slots THEN NewRun(i, jobIn[r])
                                             ELSE run[r]]
  /\ UNCHANGED <<mongo, events, request, up, bounds, history>>

(* ZREM rejects, before or after Redis applied it; the poll loop logs it. *)
RemoveFails(i) ==
  /\ batch[i] # {}
  /\ faults < MaxFaults
  /\ "redis" \in Faulty
  /\ faults' = faults + 1
  /\ queue' \in {queue, Without(batch[i])}
  /\ batch' = [batch EXCEPT ![i] = {}]
  /\ UNCHANGED <<mongo, events, run, request, up, crashes, history>>

-----------------------------------------------------------------------------
(* Worker.run and JobExecutor.execute. *)
Find(r) ==
  /\ At(r, "find")
  /\ run' = [run EXCEPT ![r] =
               IF IsStored(job[JobOf(r)])
               THEN [@ EXCEPT !.pc = "claim", !.version = job[JobOf(r)].version]
               ELSE NoRun]
  /\ UNCHANGED <<mongo, queue, events, batch, request, up, bounds, history>>

Claim(r) ==
  /\ At(r, "claim")
  /\ job' = [job EXCEPT ![JobOf(r)] = claimJob(@, run[r].version)]
  /\ run' = [run EXCEPT ![r] =
               IF Claimable(job[JobOf(r)], run[r].version)
               THEN [@ EXCEPT !.pc = "publishClaimed",
                              !.version = run[r].version + 1,
                              !.attempt = job[JobOf(r)].attempts + 1]
               ELSE NoRun]
  /\ UNCHANGED <<executions, deadLetters, queue, events, batch, request, up,
                 bounds, history>>

PublishClaimed(r) ==
  /\ At(r, "publishClaimed")
  /\ Publish(r, "claimed")
  /\ Goto(r, "heartbeat")
  /\ UNCHANGED <<mongo, queue, batch, request, up, bounds, history>>

WriteHeartbeat(r) ==
  /\ At(r, "heartbeat")
  /\ Goto(r, "handler")
  /\ UNCHANGED <<mongo, queue, events, batch, request, up, bounds, history>>

HandlerSucceeds(r) ==
  /\ At(r, "handler")
  /\ performed' = [performed EXCEPT ![JobOf(r)] = Append(@, run[r].attempt)]
  /\ Goto(r, "complete")
  /\ UNCHANGED <<mongo, queue, events, batch, request, up, bounds, resets>>

HandlerThrowsUnrecorded(r) ==     \* seeded fault: no record in the catch
  /\ At(r, "handler")
  /\ Goto(r, "publishFailed")
  /\ UNCHANGED <<mongo, queue, events, batch, request, up, bounds, history>>

HandlerThrows(r) ==
  /\ At(r, "handler")
  /\ Goto(r, "recordFailure")
  /\ UNCHANGED <<mongo, queue, events, batch, request, up, bounds, history>>

(* The result of markCompleted is not looked at. *)
Complete(r) ==
  /\ At(r, "complete")
  /\ job' = [job EXCEPT ![JobOf(r)] = markCompleted(@, MarkVersion(r))]
  /\ Goto(r, "record")
  /\ UNCHANGED <<executions, deadLetters, queue, events, batch, request, up,
                 bounds, history>>

RecordExecution(r) ==
  /\ \/ /\ At(r, "record")
        /\ executions' =
             executions \cup {Record(JobOf(r), run[r].attempt, "completed")}
        /\ Goto(r, "publishCompleted")
     \/ /\ At(r, "recordFailure")
        /\ executions' =
             executions \cup {Record(JobOf(r), run[r].attempt, "failed")}
        /\ Goto(r, "publishFailed")
  /\ UNCHANGED <<job, deadLetters, queue, events, batch, request, up, bounds,
                 history>>

PublishCompleted(r) ==
  /\ At(r, "publishCompleted")
  /\ Publish(r, "completed")
  /\ Finish(r)
  /\ UNCHANGED <<mongo, queue, batch, request, up, bounds, history>>

-----------------------------------------------------------------------------
(* RetryService.handleFailure and DeadLetterService.create. *)
PublishFailed(r) ==
  /\ At(r, "publishFailed")
  /\ Publish(r, "failed")
  /\ Goto(r, IF Exhausted(r) THEN "markDead" ELSE "markFailed")
  /\ UNCHANGED <<mongo, queue, batch, request, up, bounds, history>>

MarkDead(r) ==
  /\ At(r, "markDead")
  /\ job' = [job EXCEPT ![JobOf(r)] = markDead(@, MarkVersion(r))]
  /\ Goto(r, "deadLetter")
  /\ UNCHANGED <<executions, deadLetters, queue, events, batch, request, up,
                 bounds, history>>

(* One transaction writes the letter and its outbox row; jobId is unique in
   the collection, so a second letter aborts it.  The run ends either way. *)
CreateDeadLetter(r) ==
  /\ At(r, "deadLetter")
  /\ deadLetters' = [deadLetters EXCEPT ![JobOf(r)] =
                       IF @ = 0 THEN run[r].attempt ELSE @]
  /\ Finish(r)
  /\ UNCHANGED <<job, executions, queue, events, batch, request, up, bounds,
                 history>>

MarkFailed(r) ==
  /\ At(r, "markFailed")
  /\ job' = [job EXCEPT ![JobOf(r)] = markFailed(@, MarkVersion(r))]
  /\ Goto(r, "reschedule")
  /\ UNCHANGED <<executions, deadLetters, queue, events, batch, request, up,
                 bounds, history>>

(* ZADD XX: only a member that is in the set gets the new score. *)
Reschedule(r) ==
  /\ At(r, "reschedule")
  /\ queue' = [queue EXCEPT ![JobOf(r)] =
                 IF @ = "absent" THEN @ ELSE "future"]
  /\ Goto(r, "publishRetrying")
  /\ UNCHANGED <<mongo, events, batch, request, up, bounds, history>>

PublishRetrying(r) ==
  /\ At(r, "publishRetrying")
  /\ Publish(r, "retrying")
  /\ Finish(r)
  /\ UNCHANGED <<mongo, queue, batch, request, up, bounds, history>>

CallFailsReruns(r) ==     \* seeded fault: the catch calls the handler again
  /\ run[r].pc \in MongoCalls /\ "mongo" \in Faulty
  /\ faults < MaxFaults
  /\ faults' = faults + 1
  /\ IF run[r].pc \in TryCalls THEN Goto(r, "handler") ELSE Finish(r)
  /\ UNCHANGED <<mongo, queue, events, batch, request, up, crashes, history>>

(* The call the run awaits rejects without effect: inside the try block the
   catch block takes over, elsewhere the run ends and Promise.allSettled
   swallows the error.  (A call that took effect and whose reply was lost is
   the step itself followed by the failure of the next call.) *)
CallFails(r) ==
  /\ \/ run[r].pc \in MongoCalls  /\ "mongo" \in Faulty
     \/ run[r].pc \in RedisCalls  /\ "redis" \in Faulty
     \/ run[r].pc \in RabbitCalls /\ "rabbit" \in Faulty
  /\ faults < MaxFaults
  /\ faults' = faults + 1
  /\ IF run[r].pc \in TryCalls THEN Goto(r, "recordFailure") ELSE Finish(r)
  /\ UNCHANGED <<mongo, queue, events, batch, request, up, crashes, history>>

-----------------------------------------------------------------------------
(* HeartbeatWatchdog.tick on every instance and the reset in bootstrap: an
   updateMany, which is atomic for each document and not for all of them. *)
ResetStaleJob(j) ==
  /\ up # {}
  /\ Stale(job[j])
  /\ job' = [job EXCEPT ![j] = resetStale(@)]
  /\ resets' = [resets EXCEPT ![j] = @ + 1]
  /\ UNCHANGED <<executions, deadLetters, queue, events, process, bounds,
                 performed>>

StaleAgeElapses(j) ==
  /\ job[j].status = "running"
  /\ job[j].startedAt = "recent"
  /\ job' = [job EXCEPT ![j].startedAt = "old"]
  /\ UNCHANGED <<executions, deadLetters, queue, events, process, bounds,
                 history>>

(* The TTL index drops a document seven days after expiresAt was set; no run
   or request lasts that long.  The history restarts with the document.  The
   audit records have a TTL of seven days of their own, which is left out. *)
Expire(j) ==
  /\ job[j].expires
  /\ \A r \in Runs : JobOf(r) # j
  /\ \A q \in Requests : request[q].job # j
  /\ job' = [job EXCEPT ![j] = NoDoc]
  /\ performed' = [performed EXCEPT ![j] = NoWork]
  /\ resets' = [resets EXCEPT ![j] = 0]
  /\ UNCHANGED <<executions, deadLetters, queue, events, process, bounds>>

(* A process dies: its ZRANGEBYSCORE result and its runs are gone, and so is
   any API call it was serving, which no state of the model tells apart from
   one another instance serves. *)
Crash(i) ==
  /\ i \in up
  /\ crashes < MaxCrashes
  /\ crashes' = crashes + 1
  /\ up' = up \ {i}
  /\ batch' = [batch EXCEPT ![i] = {}]
  /\ run' = [r \in Runs |-> IF run[r].inst = i THEN NoRun ELSE run[r]]
  /\ \E lost \in SUBSET InProgress :
       /\ up' = {} => lost = InProgress
       /\ request' = [q \in Requests |-> IF q \in lost THEN DoneRequest
                                                       ELSE request[q]]
  /\ UNCHANGED <<mongo, queue, events, faults, history>>

Bootstrap(i) ==
  /\ i \in Instances \ up
  /\ up' = up \cup {i}
  /\ UNCHANGED <<mongo, queue, events, batch, run, request, bounds, history>>

-----------------------------------------------------------------------------
RequestStep(q) ==
  EnqueueZadd(q) \/ CancelZrem(q) \/ PublishScheduled(q) \/ PublishCancelled(q)

(* Every step of a run that returns normally. *)
RunStep(r) ==
  \/ Find(r) \/ Claim(r) \/ PublishClaimed(r) \/ WriteHeartbeat(r)
  \/ HandlerSucceeds(r) \/ HandlerThrows(r)
  \/ Complete(r) \/ RecordExecution(r)
  \/ PublishCompleted(r) \/ PublishFailed(r)
  \/ MarkDead(r) \/ CreateDeadLetter(r)
  \/ MarkFailed(r) \/ Reschedule(r) \/ PublishRetrying(r)

Next ==
  \/ \E q \in Requests, j \in Jobs :
       SubmitEnqueue(q, j) \/ SubmitCancel(q, j)
  \/ \E q \in Requests : RequestStep(q) \/ RequestFails(q)
  \/ \E i \in Instances :
       Peek(i) \/ Remove(i) \/ RemoveFails(i) \/ Crash(i) \/ Bootstrap(i)
  \/ \E r \in Runs : RunStep(r) \/ CallFails(r)
  \/ \E j \in Jobs :
       \/ ScoreReached(j) \/ ResetStaleJob(j) \/ StaleAgeElapses(j)
       \/ Expire(j)

Spec == Init /\ [][Next]_vars

(* The event loop resumes every promise whose call has returned, handlers
   return or throw, the elected instance ticks every second, and the Redis
   clock reaches every score.  Nothing is assumed of crashes, of failing
   calls, of new requests, of the watchdog or of the TTL index. *)
Fairness ==
  /\ \A q \in Requests : WF_vars(RequestStep(q))
  /\ \A r \in Runs : WF_vars(RunStep(r))
  /\ \A i \in Instances : WF_vars(Peek(i)) /\ WF_vars(Remove(i))
  /\ \A j \in Jobs : WF_vars(ScoreReached(j))

FairSpec == Spec /\ Fairness

(* With a watchdog that keeps ticking and instances that are restarted. *)
RecoveryFairness ==
  /\ \A j \in Jobs : WF_vars(StaleAgeElapses(j)) /\ WF_vars(ResetStaleJob(j))
  /\ \A i \in Instances : WF_vars(Bootstrap(i))

RecoverySpec == FairSpec /\ RecoveryFairness

-----------------------------------------------------------------------------
ActiveRuns == [pc : Calls, job : Jobs, inst : Instances,
               version : Nat, attempt : Nat]
ActiveRequests == [pc : RequestCalls, job : Jobs]
EventTypes == {"scheduled", "cancelled", "claimed", "completed", "failed",
               "retrying"}

(* The types of the variables: a run or a request in progress has its job,
   an idle slot has no trace of the run it held. *)
TypeOK ==
  /\ job \in [Jobs -> JobDocs]
  /\ executions \subseteq [job : Jobs, attempt : Nat,
                            status : {"completed", "failed"}]
  /\ deadLetters \in [Jobs -> Nat]
  /\ queue \in [Jobs -> {"absent", "future", "due"}]
  /\ events \subseteq [type : EventTypes, job : Jobs, attempt : Nat]
  /\ batch \in [Instances -> SUBSET Jobs]
  /\ run \in [Runs -> ActiveRuns \cup {NoRun}]
  /\ request \in [Requests -> ActiveRequests \cup {NewRequest, DoneRequest}]
  /\ up \subseteq Instances
  /\ crashes \in Nat /\ faults \in Nat
  /\ performed \in [Jobs -> Histories]
  /\ resets \in [Jobs -> Nat]

(* The MVCC claim (ADR-SCHED-001): two executions in flight for one job,
   which a stale reset or overlapping leaders can bring about, never hold the
   same attempt or the same version. *)
ClaimExclusive ==
  \A r, s \in Runs :
    r # s /\ Claimed(r) /\ Claimed(s) /\ JobOf(r) = JobOf(s) =>
      run[r].attempt # run[s].attempt /\ run[r].version # run[s].version

(* How far "exactly once" (Project.md, ADR-SCHED-001) goes: handlers do the
   work of a job at most once more often than the watchdog gave the job back,
   whatever crashes, duplicate submissions, double leaders and rejected calls
   there are.  Every time counts, by whatever attempt: what the executor does
   about a failure, or about work that was done and could not be recorded,
   does not do the work again. *)
EffectBudget ==
  \A j \in Jobs : Len(performed[j]) <= resets[j] + 1

(* Cancellation answers "already running" for a job under execution: once
   JobService.cancel has won, no execution of the job is in flight, unless
   the watchdog gave the job back while one was. *)
CancelledNeverRuns ==
  \A q \in Requests, r \in Runs :
    /\ request[q].pc \in {"zrem", "publishCancelled"}
    /\ Claimed(r)
    /\ JobOf(r) = request[q].job
    => resets[JobOf(r)] > 0

(* A job stored and never attempted can still be reached: it is in the sorted
   set, or an API call is about to put it there, or a run is about to claim
   it at its current version.  Neither a cancel, a duplicate submission nor a
   second poller that took the same ZRANGEBYSCORE result loses it; a crash or
   a failed call can (the repository has no other way back to the queue). *)
FreshJobReachable ==
  \A j \in Jobs :
    job[j].status = "pending" /\ job[j].attempts = 0
      /\ crashes = 0 /\ faults = 0 =>
      \/ queue[j] # "absent"
      \/ \E q \in Requests : request[q].pc = "zadd" /\ request[q].job = j
      \/ \E r \in Runs :
           /\ JobOf(r) = j
           /\ \/ At(r, "find")
              \/ At(r, "claim") /\ run[r].version = job[j].version

(* What makes the four above inductive.  A document counts its claims in
   attempts, and each stale reset pays for one more; only counted attempts
   did their work, each of them once. *)
AttemptsAccounted ==
  \A j \in Jobs :
    /\ ~IsStored(job[j]) => job[j] = NoDoc
    /\ job[j].status = "running" => job[j].attempts > 0
    /\ job[j].attempts <= resets[j] + 1
    /\ job[j].status = "pending" => job[j].attempts <= resets[j]
    /\ Range(performed[j]) \subseteq 1 .. job[j].attempts
    /\ IsInjective(performed[j])

(* A run never knows more than the document; its attempt has not done its work
   before its handler is called and has done it before it is marked completed;
   and only an exhausted attempt is about to be marked dead. *)
RunsBehindDocument ==
  \A r \in Runs : Claimed(r) =>
    /\ run[r].attempt \in 1 .. job[JobOf(r)].attempts
    /\ run[r].version <= job[JobOf(r)].version
    /\ run[r].pc \in {"publishClaimed", "heartbeat", "handler"} =>
         run[r].attempt \notin Range(performed[JobOf(r)])
    /\ At(r, "complete") => run[r].attempt \in Range(performed[JobOf(r)])
    /\ At(r, "markDead") => Exhausted(r)

CancelledIsDead ==
  \A q \in Requests :
    request[q].pc \in {"zrem", "publishCancelled"} =>
      job[request[q].job].status = "dead"

InductiveInvariant ==
  /\ TypeOK /\ AttemptsAccounted /\ RunsBehindDocument /\ ClaimExclusive
  /\ CancelledIsDead /\ CancelledNeverRuns /\ FreshJobReachable

(* The audit trail runs ahead of everything said about an attempt: a dead
   letter is of an exhausted attempt that is recorded and announced as
   failed, and a completed or retrying event has its execution record. *)
AuditPrecedes ==
  /\ \A j \in Jobs : LET k == deadLetters[j] IN
       k # 0 => /\ k >= MaxAttempts
                /\ Record(j, k, "failed") \in executions
                /\ Event("failed", j, k) \in events
  /\ \A e \in events :
       /\ e.type = "completed" =>
            Record(e.job, e.attempt, "completed") \in executions
       /\ e.type = "retrying" =>
            /\ e.attempt < MaxAttempts
            /\ Record(e.job, e.attempt, "failed") \in executions

(* The promise of JobLifecycle, implemented step by step: in particular that
   no attempt works twice, no job is completed without work and no late
   markDead takes attempts that are left. *)
Lifecycle == INSTANCE JobLifecycle WITH
               status   <- [j \in Jobs |-> job[j].status],
               attempts <- [j \in Jobs |-> job[j].attempts],
               done     <- performed

LifecycleImplemented == Lifecycle!LSpec

-----------------------------------------------------------------------------
(* A job that was stored and never attempted is attempted or settled in the
   end, when nothing crashes or fails. *)
FirstAttemptHappens ==
  \A j \in Jobs :
    job[j].status = "pending" /\ job[j].attempts = 0
      ~> job[j].attempts > 0 \/ job[j].status = "dead"

(* An attempt that fails is concluded, when no call fails: its last attempt
   by a dead letter, an earlier one by a retrying event. *)
FailureConcluded ==
  \A r \in Runs, j \in Jobs, k \in 1 .. Cardinality(Requests) :
    At(r, "recordFailure") /\ JobOf(r) = j /\ run[r].attempt = k
      ~> \/ k >= MaxAttempts /\ deadLetters[j] # 0
         \/ k < MaxAttempts /\ Event("retrying", j, k) \in events
=============================================================================
