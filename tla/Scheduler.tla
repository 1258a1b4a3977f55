----------------------------- MODULE Scheduler -----------------------------
(***************************************************************************)
(* One process from the end of its bootstrap to its exit: the watch loop   *)
(* of the leader election, the poll loop it starts and stops (PollLoop),   *)
(* and the shutdown handler, which a signal or an unhandled rejection runs *)
(* and nothing keeps from running several times at once.                   *)
(*                                                                         *)
(* Other instances are the environment of the lock key.  Election and      *)
(* shutdown share one Redis connection, which answers in the order of the  *)
(* calls: a release waits for the extension or the heartbeat sent before   *)
(* it, a check or an acquisition sent after it waits for the release.      *)
(***************************************************************************)
EXTENDS PollLoop

CONSTANTS Shutdowns,   \* bound: runs of the shutdown handler
          MaxFaults    \* bound: calls that reject or break off

ASSUME SchedulerConstants == MaxFaults \in Nat

VARIABLES
  state,        \* LeaderElectionService.state
  watch,        \* what the watch loop awaits
  ours,         \* Redis: the leader lock key is ours
  shutdown,     \* run of the handler -> what it awaits
  redis,        \* the client of bootstrap
  exited,       \* process.exit was called
  faults,       \* calls that rejected so far
  tickAtStop,   \* history: a tick awaited Redis when a shutdown began
  watchAtStop,  \* history: the watch loop awaited Redis at its stop
  promotedLate, \* history: a promotion ended after a shutdown had begun
  timedOut      \* history: a drain was given up

electionVars == <<state, watch, ours>>
shutdownVars == <<shutdown, redis, exited>>
historyVars  == <<tickAtStop, watchAtStop, promotedLate, timedOut>>
schedulerVars == <<pollVars, electionVars, shutdownVars, faults, historyVars>>

-----------------------------------------------------------------------------
WatchCalls    == {"extend", "heartbeat", "check", "acquire", "promote"}
ShutdownCalls == {"drain", "release", "rabbit", "redis", "mongo"}

Ticking == \E c \in Chains : At(c, "time") \/ At(c, "dequeue")
Begun   == \E s \in Shutdowns : shutdown[s] # "idle"
Releasing == \E s \in Shutdowns : shutdown[s] = "release"

(* A call to Redis rejects: the client was closed, or something is wrong. *)
Fault == faults < MaxFaults /\ faults' = faults + 1
Rejects == (redis = "closed" /\ UNCHANGED faults) \/ Fault

SchedulerInit ==
  /\ PollInit
  /\ state = "follower" /\ watch = "timer" /\ ours = FALSE
  /\ shutdown = [s \in Shutdowns |-> "idle"]
  /\ redis = "open" /\ exited = FALSE /\ faults = 0
  /\ tickAtStop = FALSE /\ watchAtStop = FALSE
  /\ promotedLate = FALSE /\ timedOut = FALSE

(* The lock's time to live is over, or Redis lost the key. *)
LockGoes ==
  /\ ours /\ ours' = FALSE
  /\ UNCHANGED <<pollVars, state, watch, shutdownVars, faults, historyVars>>

-----------------------------------------------------------------------------
(* shutdown, up to its first await: the poll loop stops. *)
BeginForgetsTimer(s) ==     \* seeded fault: stop keeps the timer
  /\ shutdown' = [shutdown EXCEPT ![s] = "drain"]
  /\ running' = FALSE
  /\ tickAtStop' = (tickAtStop \/ Ticking)
  /\ UNCHANGED <<timer, chain>>

Begin(s) ==
  /\ shutdown' = [shutdown EXCEPT ![s] = "drain"]
  /\ StopLoop
  /\ tickAtStop' = (tickAtStop \/ Ticking)

Signal ==
  /\ \E s \in Shutdowns : shutdown[s] = "idle" /\ Begin(s)
  /\ UNCHANGED <<activeJobs, inflight, overlapped, electionVars, redis, exited,
                 faults, watchAtStop, promotedLate, timedOut>>

-----------------------------------------------------------------------------
(* watchTick. *)
Await(call) == watch' = call

WatchFires ==
  /\ watch = "timer"
  /\ Await(IF state = "leader" THEN "extend" ELSE "check")
  /\ UNCHANGED <<pollVars, state, ours, shutdownVars, faults, historyVars>>

ExtendSucceeds ==
  /\ watch = "extend" /\ redis = "open" /\ ours
  /\ Await("heartbeat")
  /\ UNCHANGED <<pollVars, state, ours, shutdownVars, faults, historyVars>>

(* extend returns false, for a lock that is not there any more and for any
   error: there is no lock to release, and the poll loop stops. *)
ExtendFailsStillPolling ==     \* seeded fault: onDemoted is not called
  /\ watch = "extend"
  /\ \/ redis = "open" /\ ~ours /\ UNCHANGED faults
     \/ Rejects
  /\ state' = "follower"
  /\ Await("timer")
  /\ UNCHANGED <<pollVars, ours, shutdownVars, historyVars>>

ExtendFails ==
  /\ watch = "extend"
  /\ \/ redis = "open" /\ ~ours /\ UNCHANGED faults
     \/ Rejects
  /\ state' = "follower"
  /\ StopLoop
  /\ Await("timer")
  /\ UNCHANGED <<activeJobs, inflight, overlapped, ours, shutdownVars,
                 historyVars>>

Heartbeat ==
  /\ watch = "heartbeat" /\ redis = "open"
  /\ Await("timer")
  /\ UNCHANGED <<pollVars, state, ours, shutdownVars, faults, historyVars>>

(* Another leader's heartbeat is fresh, or there is none or a stale one. *)
Check ==
  /\ watch = "check" /\ redis = "open" /\ ~Releasing
  /\ \/ Await("timer") /\ UNCHANGED state
     \/ Await("acquire") /\ state' = "candidate"
  /\ UNCHANGED <<pollVars, ours, shutdownVars, faults, historyVars>>

Acquire ==
  /\ watch = "acquire" /\ redis = "open" /\ ~Releasing
  /\ ~ours /\ ours' = TRUE
  /\ state' = "leader"
  /\ Await("promote")
  /\ UNCHANGED <<pollVars, shutdownVars, faults, historyVars>>

AcquireFails ==
  /\ watch = "acquire"
  /\ \/ redis = "open" /\ ~Releasing /\ UNCHANGED <<ours, faults>>
     \/ Rejects /\ UNCHANGED ours
     \/ redis = "open" /\ Fault /\ ours' = TRUE
  /\ state' = "follower"
  /\ Await("timer")
  /\ UNCHANGED <<pollVars, shutdownVars, historyVars>>

(* The heartbeat of promote is written, and onPromoted starts the loop. *)
Promote ==
  /\ watch = "promote" /\ redis = "open"
  /\ IF running THEN UNCHANGED pollVars ELSE Start
  /\ Await("timer")
  /\ promotedLate' = (promotedLate \/ Begun)
  /\ UNCHANGED <<state, ours, shutdownVars, faults, tickAtStop, watchAtStop,
                 timedOut>>

(* Nothing catches a rejected heartbeat call: the watch loop ends, and the
   unhandledRejection hook runs the shutdown handler. *)
WatchThrows ==
  /\ watch \in {"heartbeat", "check", "promote"}
  /\ Rejects
  /\ Await("none")
  /\ \E s \in Shutdowns : shutdown[s] = "idle" /\ Begin(s)
  /\ UNCHANGED <<activeJobs, inflight, overlapped, state, ours, redis, exited,
                 watchAtStop, promotedLate, timedOut>>

-----------------------------------------------------------------------------
(* shutdown, from await to await.  The drain ends when no job is active or
   30 seconds are over; then the election stops: its timer is cleared, not
   what it awaits, and a leader gives up the lock. *)
StopElectionStopped(s) ==     \* seeded fault: a state of its own, for ever
  /\ watch' = IF watch = "timer" THEN "none" ELSE watch
  /\ watchAtStop' = (watchAtStop \/ watch \in WatchCalls)
  /\ state' = "stopped"
  /\ shutdown' = [shutdown EXCEPT ![s] =
                    IF state = "leader" THEN "release" ELSE "rabbit"]

StopElection(s) ==
  /\ watch' = IF watch = "timer" THEN "none" ELSE watch
  /\ watchAtStop' = (watchAtStop \/ watch \in WatchCalls)
  /\ state' = IF state = "leader" THEN "follower" ELSE state
  /\ shutdown' = [shutdown EXCEPT ![s] =
                    IF state = "leader" THEN "release" ELSE "rabbit"]

DrainEndsAtOnce(s) ==     \* seeded fault: the drain is not awaited
  /\ shutdown[s] = "drain"
  /\ StopElection(s)
  /\ UNCHANGED <<pollVars, ours, redis, exited, faults, tickAtStop,
                 promotedLate, timedOut>>

DrainEnds(s) ==
  /\ shutdown[s] = "drain"
  /\ \/ activeJobs = 0 /\ UNCHANGED timedOut
     \/ activeJobs > 0 /\ timedOut' = TRUE
  /\ StopElection(s)
  /\ UNCHANGED <<pollVars, ours, redis, exited, faults, tickAtStop,
                 promotedLate>>

(* release swallows its error; onDemoted stops the poll loop once more. *)
ReleaseReturnsKeepsLock(s) ==     \* seeded fault: the lock is forgotten, not released
  /\ shutdown[s] = "release" /\ watch \notin {"extend", "promote"}
  /\ StopLoop
  /\ shutdown' = [shutdown EXCEPT ![s] = "rabbit"]
  /\ UNCHANGED <<activeJobs, inflight, overlapped, electionVars, redis, exited, faults, historyVars>>

ReleaseReturns(s) ==
  /\ shutdown[s] = "release"
  /\ \/ /\ redis = "open" /\ watch \notin {"extend", "promote"}
        /\ ours' = FALSE /\ UNCHANGED faults
     \/ Rejects /\ UNCHANGED ours
  /\ StopLoop
  /\ shutdown' = [shutdown EXCEPT ![s] = "rabbit"]
  /\ UNCHANGED <<activeJobs, inflight, overlapped, state, watch, redis, exited, historyVars>>

(* disconnectRabbitMQ never rejects; disconnectRedis has nothing to do when
   the client is gone. *)
RabbitReturns(s) ==
  /\ shutdown[s] = "rabbit"
  /\ shutdown' = [shutdown EXCEPT ![s] =
                    IF redis = "open" THEN "redis" ELSE "mongo"]
  /\ UNCHANGED <<pollVars, electionVars, redis, exited, faults,
                 historyVars>>

QuitReturns(s) ==
  /\ shutdown[s] = "redis" /\ redis = "open" /\ ~Releasing
  /\ redis' = "closed"
  /\ shutdown' = [shutdown EXCEPT ![s] = "mongo"]
  /\ UNCHANGED <<pollVars, electionVars, exited, faults, historyVars>>

(* quit rejects, also after the quit of another run of the handler, or the
   connection to MongoDB does not close: the rejection of shutdown is not
   handled either, and its hook runs shutdown again. *)
CloseFailsForGood(s) ==     \* seeded fault: no hook for the rejection
  /\ \/ shutdown[s] = "redis" /\ Rejects
     \/ shutdown[s] = "mongo" /\ Fault
  /\ shutdown' = [shutdown EXCEPT ![s] = "idle"]
  /\ UNCHANGED <<pollVars, electionVars, redis, exited, historyVars>>

CloseFails(s) ==
  /\ \/ shutdown[s] = "redis" /\ Rejects
     \/ shutdown[s] = "mongo" /\ Fault
  /\ Begin(s)
  /\ UNCHANGED <<activeJobs, inflight, overlapped, electionVars, redis, exited,
                 watchAtStop, promotedLate, timedOut>>

Exit(s) ==
  /\ shutdown[s] = "mongo"
  /\ exited' = TRUE
  /\ UNCHANGED <<pollVars, electionVars, shutdown, redis, faults,
                 historyVars>>

-----------------------------------------------------------------------------
(* The steps of the poll loop, while the process lives.  The queue keeps the
   client of bootstrap; TIME is asked of a new one when that is closed. *)
PollStep(c) ==
  /\ ~exited
  /\ \/ TimerFires(c) \/ TimeReturns(c) \/ TimeFails(c) \/ DequeueFails(c)
     \/ redis = "open" /\ \E n \in 0 .. BatchSize : DequeueReturns(c, n)
  /\ UNCHANGED <<electionVars, shutdownVars, faults, historyVars>>

Settle(n) ==
  /\ ~exited
  /\ BatchSettles(n)
  /\ UNCHANGED <<electionVars, shutdownVars, faults, historyVars>>

WatchStep ==
  /\ ~exited
  /\ \/ WatchFires \/ ExtendSucceeds \/ ExtendFails \/ Heartbeat \/ Check
     \/ Acquire \/ AcquireFails \/ Promote

ShutdownStep(s) ==
  /\ ~exited
  /\ \/ DrainEnds(s) \/ ReleaseReturns(s) \/ RabbitReturns(s) \/ QuitReturns(s)
     \/ CloseFails(s) \/ Exit(s)

SchedulerNext ==
  \/ \E c \in Chains : PollStep(c)
  \/ \E n \in 1 .. BatchSize : Settle(n)
  \/ WatchStep
  \/ \E s \in Shutdowns : ShutdownStep(s)
  \/ ~exited /\ (Signal \/ WatchThrows \/ LockGoes)

SchedulerSpec == SchedulerInit /\ [][SchedulerNext]_schedulerVars

(* The event loop runs: timers fire, calls return or reject, jobs end, and
   TIME does not reject for ever. *)
SchedulerFairness ==
  /\ \A c \in Chains :
       /\ WF_schedulerVars(PollStep(c))
       /\ SF_schedulerVars(PollStep(c) /\ TimeReturns(c))
  /\ \A n \in 1 .. BatchSize : WF_schedulerVars(Settle(n))
  /\ WF_schedulerVars(WatchStep)
  /\ \A s \in Shutdowns : WF_schedulerVars(ShutdownStep(s))

FairScheduler == SchedulerSpec /\ SchedulerFairness

-----------------------------------------------------------------------------
(* The types of the variables the composition adds. *)
SchedulerTypeOK ==
  /\ state \in {"follower", "candidate", "leader"}
  /\ watch \in WatchCalls \cup {"timer", "none"}
  /\ ours \in BOOLEAN
  /\ shutdown \in [Shutdowns -> ShutdownCalls \cup {"idle"}]
  /\ redis \in {"open", "closed"}
  /\ exited \in BOOLEAN
  /\ faults \in 0 .. MaxFaults
  /\ tickAtStop \in BOOLEAN /\ watchAtStop \in BOOLEAN
  /\ promotedLate \in BOOLEAN /\ timedOut \in BOOLEAN

(* The composition is a poll loop as PollLoop has it, so what is proved of
   PollLoop holds of it. *)
PollLoopImplemented == PollInit /\ [][PollNext]_pollVars

(* The poll loop runs for a leader only, or until the release of the lock is
   answered; an election stopped while its watch loop awaits Redis may be
   promoted after that. *)
PollsForLeader ==
  running => state = "leader" \/ Releasing \/ watchAtStop

(* Jobs are cut off by the exit only if the drain was given up, or if they
   were dispatched after it: by the tick that awaited Redis when the shutdown
   began, then no more than a batch, by a loop that a promotion started during
   the shutdown, or by the timer of a second chain, which stop does not
   know. *)
ExitIsQuiet ==
  exited /\ activeJobs > 0 =>
    \/ timedOut \/ promotedLate \/ overlapped
    \/ tickAtStop /\ activeJobs <= BatchSize

(* The key is not left behind for its time to live, unless a call failed or
   the watch loop awaited Redis when the election was stopped. *)
ExitFreesLock ==
  exited /\ ours => faults > 0 \/ watchAtStop

(* A leader comes to ask for jobs, as long as it leads and is not shut
   down. *)
LeaderPolls ==
  state = "leader" ~>
    \/ \E c \in Chains : At(c, "dequeue")
    \/ state # "leader" \/ Begun

(* A shutdown that began ends in the exit of the process, however many run
   at once and whatever rejects a bounded number of times. *)
ShutdownEnds == Begun ~> exited
=============================================================================
