# A verification project for the Hyperscale Job Scheduler

TLA+ models of the scheduler service (`src/`), the TLC runs that check them and
the TLAPS proofs of the properties that matter most.  Every definition is
translated from the code; `PROJECT.json` maps each one to its lines.

## 1. The system

Several identical Node.js processes share one MongoDB, one Redis and one
RabbitMQ.  A job is a MongoDB document; a Redis sorted set per job type says
when it is due; the elected leader polls the sets and executes what is due.

| part | code (`src/src/`) | state | operations | talks to |
|---|---|---|---|---|
| job store | `domains/job/job.repository.ts`, `job.model.ts` | job documents (status, attempts, version, startedAt, expiresAt) | create, claim, markCompleted, markFailed, markDead, cancel, resetStale; TTL index | MongoDB |
| submission, cancellation | `domains/job/job.service.ts`, controller | none | enqueue (create, ZADD NX, event), cancel (cancel, ZREM, event) | store, queue, publisher |
| sorted-set queue | `domains/scheduler/redis-job-queue.ts` | members and scores | enqueue, dequeue (ZRANGEBYSCORE, then ZREM), remove, reschedule (ZADD XX) | Redis |
| execution | `domains/execution/worker.ts`, `job-executor.ts`, `retry.service.ts`, `execution.model.ts` | the executions in flight | find, claim, events, handler, mark, audit record, failure handling | all stores |
| dead letters | `domains/dead-letter/*` | one letter per job | create (with an outbox row, in a transaction), resolve | MongoDB |
| watchdog | `domains/watchdog/heartbeat-watchdog.ts` | timer, job heartbeat keys | tick (stale reset), heartbeat write and clear | store, Redis |
| leader election | `domains/election/*` | state, redlock lock, timer; lock and heartbeat keys | watchTick, promote, demote, stop | Redis; starts and stops the poll loop |
| poll loop | `domains/scheduler/poll-loop.ts` | running, activeJobs, timer | start, stop, tick, drain | queue, worker |
| outbox poller | `shared/utils/outbox-poller.ts`, `infra/models/OutboxModel.ts` | rows (status, retryCount), running, timer | flush, start, stop | MongoDB, RabbitMQ |
| RabbitMQ | `infra/config/rabbitmq.consumer.ts`, `infra/messaging/rabbitmq-publisher.ts` | channel; exchanges, queues, bindings | connect, publish, disconnect | broker |
| idempotency keys | `shared/constants/JOB_DEFINITIONS.ts` | none | key of a payload, by job type | submission |
| bootstrap, shutdown | `bootStrap.ts`, `shutdown.ts` | none | start the parts in order; stop, drain, stop the election, disconnect, exit | everything |

Parts without behaviour worth a model (metrics, middleware, API documentation,
tokens, logging, empty files) are listed in `PROJECT.json` with the reason.

**What is hard here.**  Nothing but the job document's version keeps two
executions of a job apart, and every arrow above is an await at which other
work interleaves, a call rejects, or the process dies.  The code reads the
document, raises its version and carries the number through half a dozen
awaits.  Two stores hold one fact (a pending document and its member in the
sorted set) and no transaction spans them.  Timers race with calls in flight
(watch tick, poll tick, stale reset, outbox flush), stop methods cannot stop a
tick that awaits, and leadership depends on TTLs and on two clocks.  The
repository's unit and integration test files are empty, so none of this is
tested.  `PROJECT.json` lists each hazard at its line with its properties.

**What makes each part correct.**  Store and execution: claims are exclusive,
work is repeated only where a stale reset allows it, a cancelled job does not
run, no interleaving loses a job, the audit trail precedes what is said about
an attempt, a document follows the life cycle.  Election: one poller, a bounded
double-leader window and a bounded fail-over.  Poll loop: exact count of active
jobs, capacity, quiet when stopped, polling survives errors.  Outbox: no row
stranded, completed means sent, bounded duplicates, every row settles.
Shutdown: it ends, and what it cuts off or leaves behind has a known cause.
RabbitMQ channel: an open channel for every publish, no pile of connections,
attempts that are used up one by one.  Keys: what is accepted has a job.

## 2. Modules

| module | models | notes |
|---|---|---|
| `JobStore` | the repository's filters and updates as operators on one document | no state; used by `JobExecution` |
| `JobLifecycle` | abstract specification of a job: no attempt does its work twice, a job is completed only with work done, and it dies only cancelled while pending or with its attempts used up | refined by `JobExecution` |
| `JobExecution` | submission, cancellation, queue, execution, retry, dead letters, stale reset, TTL, crash and bootstrap over several instances | the core |
| `JobExecutionDocs` | promises the documents make and the code breaks | violation runs only |
| `LeaderElection` | the election on several instances over one Redis, with time | unit: 5 s |
| `PollLoop` | the poll loop of one instance | used by `Scheduler` |
| `Scheduler` | election, poll loop and shutdown handler of one instance, up to its exit | refines `PollLoop` |
| `OutboxDelivery` | outbox rows, the pollers of all instances, channel and bindings | |
| `RabbitChannel` | the module variable `channel` of one instance and its callers | |
| `JobKeys` | the idempotency keys and the upsert of createJob | |
| `MC*` | instances for TLC: symmetry sets, clock offsets | |
| `*Proofs` | TLAPS proofs about the module of that name | section 4 |
| `Induction` | lemmas the proofs share: induction over the numbers and over finite sets, sums | section 4 |

**How code becomes actions.**  A step of a process is what it does between two
awaits: one call to a store and the local code up to the next await.  The
position of a promise is a field (`run[r].pc`, `request[q].pc`, `call[i]`,
`chain[c].at`, `flush[i].at`,
`watch`, `shutdown[s]`, `caller[c].at`) naming the await it is suspended at.  A call that
may reject has a failing action of its own, which does what the enclosing catch
(or its absence) does.  A call that takes effect but whose reply is lost is
modelled where the difference matters (`RemoveFails`, `ExtendFails`,
`AcquireFails`, and `ReleaseTakesEffect` before `ReleaseReturns`); elsewhere it is the step followed by the
failure of the next call.  Operators labelled *seeded fault* are plausible bugs
the mutants put in place of a definition; no specification uses them.

**`JobExecution`.**  A document is a record with the fields the filters read.
Scores are abstracted to `"future"` and `"due"`, startedAt to `"recent"` and
`"old"`.  Whether an instance leads is not a guard: leadership can overlap
(ADR-SCHED-001 accepts it), so every live instance may poll.  The updateMany
of the stale reset is atomic per document, so it is one step per document.
`performed` and `resets` are history of the current document: the attempts whose
handlers did their work, in the order they did it and with an entry each time,
and how often the document was reset.

**`LeaderElection`.**  Time is a tick of 5 seconds: 15 s, 30 s and 45 s of
`shared/constants/index.ts` are 3, 6 and 9.  Time passes when every running
instance waits for its timer, so a call to Redis returns within the unit.  The
exception is an instance that stalls: its event loop does not run, or its call
is retried with the back-off and the connect timeout of
`infra/config/redis.ts:19-44`, so that an extension may outlive the lock.  What
assumes that nothing stalls says so.

The life of a process is its `phase`: `up`; `draining`, the poll loop stopped
and the watch loop still at work; `releasing` and `released`, before and after
the effect of the release that demote awaits; `stopped`, until the exit;
`down`.  demote calls onDemoted after that await
(`leader-election.ts:92-101`), so an instance that was promoted while it drained
polls on in `released` although another can have the lock: that is the one
overlap `OnePoller` excepts.  A promoted instance polls until demoted, stopped
or dead.  Offsets of local clocks are chosen once.  `leaderless` and `deposed`
count time for the bounds.

**`PollLoop`.**  A *chain* is a timer callback and the timers it sets in turn.
stop clears only the timer the object remembers and a tick does not look at
`running`, so stop and start during a tick's await leave two chains; `overlapped`
remembers that.  A batch settles as a whole (Promise.allSettled).

**`Scheduler`.**  Extends `PollLoop` with the awaits of the watch loop (`watch`)
and of each run of the shutdown handler (`shutdown[s]`).  Nothing in
`shutdown.ts` keeps the handler from running twice: a second signal starts it
again, and so does the unhandledRejection hook when a heartbeat, `quit` or the
close of MongoDB rejects, in the middle of a first run.  Other instances are the
environment: the lock key may go at any time, the heartbeat may be found fresh
or stale.  Where the order of replies on the one Redis connection matters
(a release behind an extension, a check behind a release) the later call waits.
A call may reject while `MaxFaults` allows it, and always may after the client
was closed.  The history variables name the ways in which a shutdown is not
clean: `tickAtStop` (a tick awaited Redis when the shutdown began),
`promotedLate` (a promotion after that), `watchAtStop` (the watch loop awaited
Redis when the election was stopped), `timedOut` (the drain was given up).
`PollsForLeader`, `ExitIsQuiet` and `ExitFreesLock` say that nothing else is.

**`RabbitChannel`.**  A caller that finds no channel connects, and keeps the
connection it awaits in `on`; the channel is assigned when createChannel is
answered, so the later of two callers overwrites the channel of the earlier,
whose asserts go on over the new one.  The close listener of any connection
clears the variable.  A name is reused when nobody refers to the connection any
more.  `hits` counts what happened to a caller since it began, `raced` and
`nullPublish` are history.  Assumed of amqplib: the calls that await a reply on
a channel reject when it closes, in the same turn as the close event; closing a
channel leaves its connection open; a call on a channel that is closing throws;
the close that disconnectRabbitMQ awaits is answered.  An error that closes the
channel alone is not distinguished from the loss of its connection.

**`JobKeys`.**  A payload is a function from field names to values; `KeyFields`
is what each idempotencyKeyFn reads, `SubjectFields` what the payload types and
handlers say a job of the type is about.  A field the payload lacks is read as
`Undefined`.  `OfItsType` is the guard on payload.type, which the spread in
enqueue lets a caller override.

**`OutboxDelivery`.**  A flush keeps its snapshot of the rows (id and
retryCount) and works through it.  A channel is open, none, or broken: gone
without its close event.  `Bindings` is the topology connectRabbitMQ asserts,
and every row has the one event type the code writes, `job.dead.topic`.
disconnectRabbitMQ during a shutdown closes the channel under a flush that is
still at work (stop only clears the timer): while it closes, a publish throws
(`PublishThrows`, within the bound on rejected calls), afterwards a publish
connects anew.

## 3. Runs

Passing runs:

| run | instance | checks |
|---|---|---|
| `failures` | 1 job with 2 attempts, 2 instances, 2 runs, 2 requests; a crash or a rejected call | `ClaimExclusive`: runs of a job never share an attempt or version; `EffectBudget`: the handlers of a job do their work at most once more often than it was reset; `AuditPrecedes`; `LifecycleImplemented`: refinement of `JobLifecycle` |
| `liveness` | 2 jobs, 2 attempts, 2 requests, 2 runs, 1 instance, no failures | `TypeOK`; `CancelledNeverRuns`: a cancelled job is not in execution; `FreshJobReachable`: no interleaving loses a job never attempted; `FirstAttemptHappens`, `FailureConcluded` |
| `election_safety` | 3 instances; any two of a crash, a shutdown, a rejected call and a Redis restart; nothing stalls | `ElectionTypeOK`; `OnePoller`: no two instances poll, but for one whose release is on its way back; `DoubleLeaderWindow`; `FailoverBounded`: 45 s at most without a leader |
| `election_liveness` | 2 instances; a crash, a rejected call and a stall | `PollingResumes`, `DeposedStops` |
| `scheduler` | 2 chains, 2 runs of the shutdown handler, capacity 2, gate 2, batches of 2, 2 job types, 1 rejected call | `PollTypeOK`, `SchedulerTypeOK`, `ActiveAccounted`, `WithinCapacity`, `StoppedIsQuiet`, `PollsForLeader`, `ExitIsQuiet`, `ExitFreesLock`; `PollLoopImplemented`: refinement of `PollLoop` |
| `scheduler_liveness` | 1 chain, 2 runs of the handler, capacity 1, 1 rejected call besides those of TIME and dequeue | `LeaderPolls`, `ShutdownEnds` |
| `rabbit_channel` | 2 callers, 3 attempts, 2 asserts, 2 lost connections | `RabbitTypeOK`, `ChannelIsOpen`, `OneConnection`, `AttemptsAreEarned`, `PublishMeetsChannel`, `PublishSettles` |
| `outbox` | 2 rows, 2 instances, limit 2, 2 retries; 2 rejected calls, 1 crash, stop | `OutboxTypeOK`, `PendingIsFindable`, `CompletedWasSent`, `DuplicatesBounded`, `EventSettles` |

`EffectBudget` is as far as "exactly once" goes, and the reader should note what
bounds it: because of the version error below a successful job is reset too.

Violation runs.  Each shows one sentence of the repository to be untrue of the
code, with the counterexample TLC finds; quotations are in `PROJECT.json`.

| run | what happens |
|---|---|
| `doc_completed` | markCompleted is called with a version one too high: a job that ran stays `running`, its completed record and event notwithstanding |
| `doc_retry` | after a failure ZADD XX adds nothing: the announced retry never comes |
| `doc_order_keys` | the key of an abandoned order reads a field the payload does not have: all orders of a stage share one job |
| `doc_outbox_silent` | dead events go to an exchange that has no binding for them, and their rows are completed |

The models show further places where the documents promise more than the code
does.  They have no run of their own; the hazards name their lines:

- a claimed job is not executed when publishJobClaimed rejects, since the call is
  outside the try block (ADR-SCHEDULER-004:44 says jobs run while RabbitMQ is
  down);
- two chains of ticks together exceed MAX_CONCURRENT_JOBS (ADR-SCHEDULER-003:59
  says ZPOPMIN never gets a count the executor cannot absorb), which is why
  `WithinCapacity` excludes an overlap;
- the timer of a second chain survives stop, and may dispatch until the exit;
- a job whose handler still works, or is done, is taken back by the stale reset
  and executed again after a new submission, so execution is not exactly once
  (`EffectBudget` says how often);
- ZRANGEBYSCORE and ZREM are two calls, so two pollers may take one member; the
  version of the document is what keeps one of them out (`ClaimExclusive`);
- a crash between ZREM and the claim leaves a pending document that no recovery
  looks for (`FreshJobReachable` excludes crashes for this reason);
- an attempt has a completed and a failed record when the completed event cannot
  be published;
- a dead document can expire: the markDead of one run may follow the markFailed
  of another, and keeps the expiry that one set;
- with clocks 5 s apart the fail-over takes longer than 45 s (`FailoverBounded`
  assumes clocks that agree);
- a leader that shuts down leaves the queue unpolled for longer than 45 s: it
  stops its poll loop at once, but renews lock and heartbeat while it drains (30
  s at most), and only then do staleness and watch interval begin to count
  (`FailoverBounded` counts time without a leader, not without a poller);
- a promotion that returns during the drain starts the poll loop again; it then
  runs until onDemoted, after the lock was freed, and two instances poll
  meanwhile (`OnePoller` excepts it);
- markDead filters on jobId and version only (`job.repository.ts:166`): the late
  one of a last attempt can bury a job that is completed (`JobLifecycle`'s
  `GiveUp` allows it, with the attempts used up);
- a second dead letter of one job violates the unique jobId, which aborts its
  transaction;
- a tick in flight at the shutdown dispatches jobs after the drain found none,
  and a promotion in flight starts the poll loop after the election was stopped
  (`ExitIsQuiet`, `PollsForLeader` name both);
- a connection to RabbitMQ whose channel another caller overwrote is never
  closed (`OneConnection` excludes the race);
- the first job type is offered all slots of a tick, not the proportional share
  the comment at poll-loop.ts:174 promises;
- a job with a cronExpression runs once: the expression is stored and nothing
  reads it;
- an outbox row is given up after five failed flushes while RabbitMQ is down.

**Bounds and why they are enough.**  Two runs of one job are the smallest number
that can race; a third only repeats the race, since each competes with the
document and not with the others.  Two requests give submission against
cancellation and a duplicate submission; what three of them bring about for the
invariants of `liveness` is covered by their proofs.  `failures` has one crash
or one rejected call at every step, with what follows it unbounded
(`CrashOrFault`), and one stale reset of a document
(`OneReset`), which is what a second execution needs; two attempts give both
the retry and the dead letter.  The second failure of a path is in `outbox`,
where the retry limit needs it.  Three instances give a leader, its successor
and a rival of the successor; two troubles in one behaviour (`TwoTroubles`) let
the second strike while the first is being repaired, and the proofs of
`OnePoller` and `DoubleLeaderWindow` cover any number.  In `scheduler` every
start needs a chain that is free, so two chains are the smallest number that overlaps; the
capacity of 2 with a gate of 2 closes the gate with one job active.  Two runs of
the shutdown handler overlap at every pair of awaits, and one that rejected
starts again, so a third adds nothing but a rejection more; a rejected call is
one of any kind, and every call after the quit may reject too.
`scheduler_liveness` has a single chain, and a promotion there waits for the
tick of the loop that was stopped: without that bound the second chain would
have to be fair as well, and the overlap is examined in `scheduler`.  Seven
connection names are never used up by two callers (`Connected` is never disabled
for want of a name; this was checked with an invariant of its own).  Three
attempts and two losses let one caller fail for ever while the other succeeds,
and let a loss strike during the asserts and during the back-off.
Symmetry is used for invariants, and for the step-wise refinement check, only.
CHECK_DEADLOCK is FALSE where runs, requests and troubles are bounded, because
the model stops when they are used up.

**Fairness.**  Weak fairness of the steps of promises (the event loop resumes
what has returned), of timers, of the Redis clock reaching a score and of the
passage of time.  `Scheduler` adds strong fairness for TIME, which may reject
again and again but not for ever, and weak fairness of every batch that settles
(handlers end).  `RabbitChannel` assumes that what a caller awaits is answered
or rejected, never that it succeeds.  `JobExecution`'s `RecoverySpec` adds the
watchdog's ticks and the restart of dead processes, `LeaderElection` the end of
a stall and the restart.  The restart is an assumption about the deployment (a
supervisor starts a process that ended): the code does not provide it, and the
compose file of the repository holds only the services around the scheduler.  No
fairness is assumed of crashes, rejected calls, handler outcomes, new requests
or the TTL index.

## 4. Proofs

`tlapm` checks the seven proof modules and the lemmas of `Induction`;
`PROJECT.json` lists the theorems.  Every invariant and every refinement the
runs check is stated by one.
Each says of every value of the constants what a run shows of one, from the
assumptions named in the module that declares the constants (positive bounds,
`None` outside the sets of processes; for the election the order of the
intervals that `shared/constants/index.ts` has, `TimingAssumption`).  One theorem
has a hypothesis of its own, `FailoverTiming`, discussed below.

**`JobExecutionProofs`** (`TypeOK`, `ClaimExclusive`, `EffectBudget`,
`CancelledNeverRuns`, `FreshJobReachable`, `AuditPrecedes`,
`LifecycleImplemented`).  Neither `ClaimExclusive` nor
`EffectBudget` is inductive.  The inductive invariant adds what ties a run to
the document it read:

- `RunsBehindDocument`: the version and attempt a run carries are not ahead of
  those of the document; its attempt is not in the history of work before its
  handler is called, and is there when it is about to be marked completed; and
  only a run whose attempts are used up is about to mark its job dead;
- `AttemptsAccounted`: attempts exceed the stale resets by at most one, and by
  none while the document is pending, so a claim uses up a reset; the history
  holds counted attempts only, none of them twice;
- `CancelledIsDead`: what a cancellation made of the document stays.

A claim raises version and attempts together and takes a pending document only,
which gives exclusiveness.  `EffectBudget` bounds the length of the history: an
injective sequence of numbers from 1 to the attempts is no longer than those are
many (the pigeonhole facts `FS_Injection` and `FS_Interval` of the library), and
the attempts exceed the resets by one at most.

`AuditPrecedes` speaks of records and events only; what makes it inductive is the
run between the record and the event (`AuditedRun`): one that has yet to publish
the completed event has recorded the attempt as completed, one on the failure
path has recorded it as failed, and the branch it took tells whether its attempt
is the last.
Records and events are only added (`TrailGrows`), so another run's step cannot
take that away.

`LifecycleImplemented` maps a document to its status and attempts, and the
history of attempts performed to itself.  Since the history is a sequence, an
attempt that did its work again would add to it, and that is no step of
`JobLifecycle`; nor is completing a job without work, or burying one that is not
cancelled while pending and has attempts left.
One step changes the entry of one job at most (`OneJobMoves`), the operations of
`JobStore` are those of the life cycle seen that way (`OperationSeen`), what
settles a job has its reason (`SettledHasReason`, from `RunsBehindDocument`), and
a step that leaves every entry alone is a stutter.  The one new invariant needed
is `ExpiringIsSettled`: the TTL index finds settled documents only.

**`LeaderElectionProofs`** (`ElectionTypeOK`, `OnePoller`,
`DoubleLeaderWindow`, `FailoverBounded`).  Without stalls and with the keys
kept, an instance in state leader owns the lock until its watch timer fires,
because the timer it sets with each extension is shorter than the TTL
(`LockHeld`), and one that polls while its release is under way owns it until
the release takes effect (`LockKept`); one lock has one owner.  That covers
every instance that polls in any phase but `released`, which is what `OnePoller`
says.  For the window, the time since the lock was lost and the time to the
next tick add up to at most one interval (`WindowOpen`).  `InTerm` relates the
await of the watch loop to the state and to the poll loop.  Clocks and their
skew do not matter to either.

The fail-over is the time an instance watches while none is in state leader,
with no rejected call and nothing that stalls.  It is proved for any timing
first: `FailoverTime` is the age at which
the last heartbeat counts as stale or is gone, or the TTL of the lock if that is
longer, and one watch interval less a unit.  The argument is a race of three clocks
(`WatchInvariant`): nobody has waited at the instant a leader renews its keys, so
the keys age no slower than the waits grow (`KeysAge`); hence a tick of the watch
loop at or after the deadline finds a stale heartbeat and a free lock; and until
then a wait and the time to the next tick stay within the sum (`WaitBounded`).
`FailoverBounded`, the 45 seconds of Project.md, follows when the intervals
satisfy `FailoverTiming`, as the 15, 30, 30 and 45 seconds of
`shared/constants/index.ts:23-27` do, in units of 5 seconds with nothing to
spare in the first condition: `TimingAssumption`, which the other theorems
use, would not be enough.

**`PollLoopProofs`** (`PollTypeOK`, `WithinCapacity`, `StoppedIsQuiet`,
`ActiveAccounted`).  A loop
never started during a tick has one chain alive, whose timer is the one the
object remembers (`OneChain`); so no other dispatch uses the slots a tick holds
across its awaits.  `ActiveAccounted` is inductive: a dispatch and a settlement
change one term of the sum by as much as the count (`OneBatchMore`), and since
the sum without that term is not negative, the Math.max of the settlement never
cuts anything off.  It holds with overlapping chains too.

**`SchedulerProofs`** (`PollLoopImplemented`, `PollTypeOK`, `ActiveAccounted`,
`WithinCapacity`, `StoppedIsQuiet`, `SchedulerTypeOK`, `PollsForLeader`, `ExitIsQuiet`,
`ExitFreesLock`).  Every step of the composition is a step of `PollLoop` or
leaves its variables alone; the theorems of `PollLoopProofs` carry over through
that refinement.  For the rest the inductive invariants tie the await of the
watch loop to the state of the election (a promotion is awaited in state leader
only, a timer that is set belongs to an election that was not stopped), the
position of each shutdown to what it has already stopped and freed, and the
jobs still active after a drain to the latecomer that dispatched them.

**`RabbitChannelProofs`** (all its invariants).  `ConnectionsFit`: what a caller
awaits names an open connection, and the one it creates a channel on is nobody's
channel yet.  `OneConnects`: without a race and a disconnect one caller connects
at a time and what is open is its connection or the channel's.
`AttemptsAreEarned` is inductive as it stands, because it counts an assert that
is bound to throw (`Doomed`) as an attempt already failed.

**`JobKeysProofs`** (`JobIdsUnique`, `SubjectsAreKept`).  A document's id is the
key of its request or one of the uuids made so far, and equal keys have equal
fields; so the document that createJob keeps is about what the later request is
about, whenever the key reads what the jobs of the type are about.

**`OutboxDeliveryProofs`** (all its invariants).  `FlushInv`: an instance holds a
snapshot just while it works through it, each event once, and the event about to
be marked completed was handed over.  A snapshot is the value of a recursive
function; that it is defined and sound (pending rows below the retry limit, each
once) is shown by induction on the rows (`FoundDefined`, `FoundIsSound`), and it
needs `CreatedOnce`, no event has two rows.  For
`DuplicatesBounded` the number of times an event was handed over is not inductive;
what it was and what it may yet be is (`DuplicatesInv`): a poller may hand over
what it has still ahead, or what it may find; each poller that is about to blame
a failure on the row may put it back to pending for all of them; every such
prospect is paid for by a rejected call or an ended process.

**`Induction`.**  The induction theorems of the library take an operator as a
parameter, which no installed prover can instantiate.  `InductionOnNat` and
`InductionOnSubsets` say the same of a set: one that has 0 and with a number its
successor is Nat.  With them, `SumsDefined` shows that the recursion behind
SumFunction has a value and `SumGrows` what one term does to it.

**Only model-checked.**  All liveness properties (`FirstAttemptHappens`,
`FailureConcluded`, `PollingResumes`, `DeposedStops`, `LeaderPolls`,
`ShutdownEnds`, `PublishSettles`, `EventSettles`): they need fairness and
ENABLED, which are beyond this prover.  The violation runs are counterexamples
and need no proof.

## 5. Not modelled

- Dead letters after their creation: resolve and the queries have a controller
  that no route mounts, deleteByJobId has no caller, and no other component reads
  what they write.  The expiry of a letter, which lets a later death of the same
  job write another, is left out.
- The values of the job heartbeat keys: written and deleted, read by nobody.
- How ioredis and mongoose reconnect: a call succeeds or rejects.  The second
  client that getRedisClient opens while the first is not ready is not followed,
  so a shutdown whose client is closed has nothing left to quit, and calls after
  the quit reject.
- A bootstrap that fails half-way, and the timer of the watchdog: a tick after
  the shutdown is one more stale reset, which `JobExecution` has at any time.
- The delay computeNextRunAt computes: it reaches ZADD XX, which adds nothing,
  and nextRunAt, which only a query without a caller reads.
- The calls the job handlers make to other services: a handler does its work or
  throws.  They have no timeout, and neither has the code around them.
- The life of execution records: they expire 7 days after completedAt by a TTL
  index of their own (`execution.model.ts:105-113`), and no code deletes them
  earlier.  `AuditPrecedes` is about the records written, not about those left.
- Metrics, HTTP middleware, API documentation, tokens, logging: no state that
  behaviour depends on.

## 6. Plan

1. Proofs: every invariant has one.  What is left is what no invariant states
   yet: an abstract specification of what a row of the outbox goes through, and
   the capacity of a loop with two chains.
2. `Scheduler`: the client that replaces the first, the watchdog's timer and the
   outbox poller's flush among what a shutdown may meet.
3. Dead letters: their expiry; resolve and deleteByJobId, if an operation comes
   to read them.
