--------------------------- MODULE LeaderElection ---------------------------
(***************************************************************************)
(* LeaderElectionService and RedlockElection on several instances over one *)
(* Redis, with the start and stop of the poll loop that bootstrap hangs on *)
(* promotion and demotion, and the part of the shutdown handler that ends  *)
(* a term.                                                                 *)
(*                                                                         *)
(* Time advances in units (TimePasses).  Timers fire and calls return      *)
(* within the unit, except on an instance that stalls: its event loop does *)
(* not run, or its call to Redis is retried with back-off (redis.ts) for   *)
(* longer than the unit.  A step of an instance is one call to Redis and   *)
(* the local code up to the next await; the release of a shutdown is two,  *)
(* its effect in Redis and its return.  A key of Redis is gone when its    *)
(* time to live is over.                                                   *)
(***************************************************************************)
EXTENDS Integers

CONSTANTS Instances,
          None,
          Interval,        \* HEARTBEAT_INTERVAL_MS
          LockTTL,         \* LEADER_LOCK_TTL_MS
          HeartbeatTTL,    \* HEARTBEAT_TTL_MS
          StaleThreshold,  \* HEARTBEAT_STALE_THRESHOLD_MS
          Skews,           \* offsets of the local clocks
          Troubles,        \* what may go wrong
          MaxEach          \* bound: how often each of Troubles may happen

ASSUME ElectionNone == None \notin Instances
ASSUME TimingAssumption ==
  /\ Interval \in Nat \ {0} /\ HeartbeatTTL \in Nat \ {0}
  /\ LockTTL \in Nat /\ StaleThreshold \in Nat
  /\ Interval < LockTTL
ASSUME SkewAssumption == Skews \subseteq Int /\ MaxEach \in Nat

TroubleKinds == {"crash", "shutdown", "fault", "stall", "redisRestart"}
ASSUME TroubleAssumption == Troubles \subseteq TroubleKinds

VARIABLES
  lock,       \* Redis: the leader lock key
  heartbeat,  \* Redis: the leader heartbeat key
  state,      \* instance -> LeaderState
  held,       \* instance -> RedlockElection.lock is not null
  call,       \* instance -> what its watch loop awaits
  timer,      \* instance -> time until its watch timer fires
  phase,      \* instance -> life of the process
  polling,    \* instance -> its poll loop is running
  stalled,    \* instances whose event loop or call to Redis hangs
  skew,       \* instance -> offset of its clock
  troubles,   \* what went wrong so far
  leaderless, \* history: instance -> how long it has watched without a leader
  deposed     \* history: instance -> how long it has polled without the lock

redis   == <<lock, heartbeat>>
local   == <<state, held, call, timer, phase, polling>>
history == <<leaderless, deposed>>
electionVars == <<redis, local, stalled, skew, troubles, history>>

-----------------------------------------------------------------------------
States == {"follower", "candidate", "leader"}
WatchCalls == {"timer", "extend", "heartbeat", "check", "acquire", "promote",
               "none"}
Phases == {"up", "draining", "releasing", "released", "stopped", "down"}

(* Seeded fault: the TTL of the other key. *)
LockOfHeartbeatTTL(i) == [owner |-> i, ttl |-> HeartbeatTTL]

NoLock      == [owner |-> None, ttl |-> 0]
LockOf(i)   == [owner |-> i, ttl |-> LockTTL]
NoHeartbeat == [writer |-> None, age |-> 0]
BeatOf(i)   == [writer |-> i, age |-> 0]

Owns(i) == lock.owner = i
Runs(i) == phase[i] # "down" /\ i \notin stalled
Releasing(i) == phase[i] \in {"releasing", "released"}
Awaits(i, c) == Runs(i) /\ call[i] = c

(* The age the reader computes from its own clock. *)
SeenAge(i) == heartbeat.age + skew[i] - skew[heartbeat.writer]
IsHeartbeatStaleTTL(i) ==     \* seeded fault: the TTL as threshold
  heartbeat.writer = None \/ SeenAge(i) > HeartbeatTTL

IsHeartbeatStale(i) ==
  heartbeat.writer = None \/ SeenAge(i) > StaleThreshold

(* The faults so far are bounded in number, one bound for each kind. *)
Trouble(kind) ==
  /\ kind \in Troubles
  /\ troubles[kind] < MaxEach
  /\ troubles' = [troubles EXCEPT ![kind] = @ + 1]

Never(kind) == troubles[kind] = 0

Await(i, c) == call' = [call EXCEPT ![i] = c]
ScheduleWatch(i) ==
  /\ Await(i, "timer")
  /\ timer' = [timer EXCEPT ![i] = Interval]
Become(i, s) == state' = [state EXCEPT ![i] = s]
Hold(i, h)   == held' = [held EXCEPT ![i] = h]

(* onPromoted and onDemoted of bootstrap. *)
StartPolling(i) == polling' = [polling EXCEPT ![i] = TRUE]
StopPolling(i) ==
  /\ polling' = [polling EXCEPT ![i] = FALSE]
  /\ deposed' = [deposed EXCEPT ![i] = 0]

ElectionInit ==
  /\ lock = NoLock /\ heartbeat = NoHeartbeat
  /\ state = [i \in Instances |-> "follower"]
  /\ held = [i \in Instances |-> FALSE]
  /\ call = [i \in Instances |-> "timer"]
  /\ timer \in [Instances -> 1 .. Interval]
  /\ phase = [i \in Instances |-> "up"]
  /\ polling = [i \in Instances |-> FALSE]
  /\ stalled = {}
  /\ skew \in [Instances -> Skews]
  /\ troubles = [k \in TroubleKinds |-> 0]
  /\ leaderless = [i \in Instances |-> 0]
  /\ deposed = [i \in Instances |-> 0]

-----------------------------------------------------------------------------
(* watchTick. *)
TimerFires(i) ==
  /\ Awaits(i, "timer")
  /\ timer[i] = 0
  /\ Await(i, IF state[i] = "leader" THEN "extend" ELSE "check")
  /\ UNCHANGED <<redis, state, held, timer, phase, polling, stalled, skew,
                 troubles, history>>

(* The redlock script extends a key that still has this lock's value. *)
ExtendSucceeds(i) ==
  /\ Awaits(i, "extend")
  /\ held[i] /\ Owns(i)
  /\ lock' = LockOf(i)
  /\ Await(i, "heartbeat")
  /\ UNCHANGED <<heartbeat, state, held, timer, phase, polling, stalled, skew,
                 troubles, history>>

DemoteKeepsPolling(i) ==     \* seeded fault: onDemoted is not called
  /\ Become(i, "follower")
  /\ Hold(i, FALSE)
  /\ ScheduleWatch(i)
  /\ UNCHANGED <<polling, deposed>>

(* demote after a failed extend: the lock object is gone, so release does
   nothing. *)
Demote(i) ==
  /\ Become(i, "follower")
  /\ Hold(i, FALSE)
  /\ StopPolling(i)
  /\ ScheduleWatch(i)

ExtendRefused(i) ==
  /\ Awaits(i, "extend")
  /\ ~(held[i] /\ Owns(i))
  /\ Demote(i)
  /\ UNCHANGED <<redis, phase, stalled, skew, troubles, leaderless>>

(* The call rejects, with or without effect on the key. *)
ExtendFails(i) ==
  /\ Awaits(i, "extend")
  /\ Trouble("fault")
  /\ lock' \in {lock} \cup {LockOf(k) : k \in {i} \cap {lock.owner}}
  /\ Demote(i)
  /\ UNCHANGED <<heartbeat, phase, stalled, skew, leaderless>>

WriteHeartbeat(i) ==
  /\ Awaits(i, "heartbeat")
  /\ heartbeat' = BeatOf(i)
  /\ ScheduleWatch(i)
  /\ UNCHANGED <<lock, state, held, phase, polling, stalled, skew, troubles,
                 history>>

(* One connection answers in order: a check is behind a release. *)
Check(i) ==
  /\ Awaits(i, "check")
  /\ ~Releasing(i)
  /\ IF IsHeartbeatStale(i)
     THEN Become(i, "candidate") /\ Await(i, "acquire") /\ UNCHANGED timer
     ELSE UNCHANGED state /\ ScheduleWatch(i)
  /\ UNCHANGED <<redis, held, phase, polling, stalled, skew, troubles,
                 history>>

(* SET NX with the lock's TTL; promote writes the heartbeat next. *)
Acquire(i) ==
  /\ Awaits(i, "acquire")
  /\ lock = NoLock
  /\ lock' = LockOf(i)
  /\ Hold(i, TRUE)
  /\ Become(i, "leader")
  /\ Await(i, "promote")
  /\ leaderless' = [k \in Instances |-> 0]
  /\ UNCHANGED <<heartbeat, timer, phase, polling, stalled, skew, troubles,
                 deposed>>

AcquireRefusedEnds(i) ==     \* seeded fault: the watch is not scheduled again
  /\ Awaits(i, "acquire")
  /\ lock # NoLock
  /\ Become(i, "follower")
  /\ Await(i, "none")
  /\ UNCHANGED <<redis, held, timer, phase, polling, stalled, skew, troubles,
                 history>>

AcquireRefused(i) ==
  /\ Awaits(i, "acquire")
  /\ lock # NoLock
  /\ Become(i, "follower")
  /\ ScheduleWatch(i)
  /\ UNCHANGED <<redis, held, phase, polling, stalled, skew, troubles,
                 history>>

(* acquire returns false for every error, also when the key was written: it
   then belongs to nobody until it expires. *)
AcquireFails(i) ==
  /\ Awaits(i, "acquire")
  /\ Trouble("fault")
  /\ lock' \in {lock, IF lock = NoLock THEN LockOf(i) ELSE lock}
  /\ Become(i, "follower")
  /\ ScheduleWatch(i)
  /\ UNCHANGED <<heartbeat, held, phase, polling, stalled, skew, history>>

Promote(i) ==
  /\ Awaits(i, "promote")
  /\ heartbeat' = BeatOf(i)
  /\ StartPolling(i)
  /\ ScheduleWatch(i)
  /\ UNCHANGED <<lock, state, held, phase, stalled, skew, troubles, history>>

(* Nothing catches what redis.set and redis.get reject with: the watch loop
   ends and the unhandledRejection hook shuts the process down. *)
WatchThrows(i) ==
  /\ Awaits(i, "heartbeat") \/ Awaits(i, "check") \/ Awaits(i, "promote")
  /\ Trouble("fault")
  /\ Await(i, "none")
  /\ StopPolling(i)
  /\ phase' = [phase EXCEPT ![i] = IF @ = "up" THEN "draining" ELSE @]
  /\ UNCHANGED <<redis, state, held, timer, stalled, skew, leaderless>>

-----------------------------------------------------------------------------
(* The shutdown handler stops the poll loop, drains, and then stops the
   election; the watch loop goes on while it drains.  The handler does not wait
   for a call of the watch loop that hangs. *)
BeginShutdown(i) ==
  /\ phase[i] = "up"
  /\ Trouble("shutdown")
  /\ phase' = [phase EXCEPT ![i] = "draining"]
  /\ StopPolling(i)
  /\ UNCHANGED <<redis, state, held, call, timer, stalled, skew, leaderless>>

(* stop: clear the timers and, as leader, demote, which sends the release of
   the lock.  A tick in flight goes on, and schedules the next one. *)
StopElection(i) ==
  /\ phase[i] = "draining"
  /\ phase' = [phase EXCEPT ![i] = IF state[i] = "leader" THEN "releasing"
                                                         ELSE "stopped"]
  /\ Await(i, IF call[i] = "timer" THEN "none" ELSE call[i])
  /\ Become(i, IF state[i] = "leader" THEN "follower" ELSE state[i])
  /\ UNCHANGED <<redis, held, timer, polling, stalled, skew, troubles, history>>

(* What was sent before the release is answered before it. *)
ReleaseIsNext(i) ==
  /\ phase[i] = "releasing"
  /\ call[i] \notin {"extend", "promote"}

(* The redlock script deletes a key that still has this lock's value. *)
ReleaseTakesEffect(i) ==
  /\ ReleaseIsNext(i)
  /\ lock' = IF Owns(i) THEN NoLock ELSE lock
  /\ phase' = [phase EXCEPT ![i] = "released"]
  /\ UNCHANGED <<heartbeat, state, held, call, timer, polling, stalled, skew,
                 troubles, history>>

ReleaseForgetsDemoted(i) ==     \* seeded fault: onDemoted is not called
  /\ Hold(i, FALSE)
  /\ phase' = [phase EXCEPT ![i] = "stopped"]
  /\ UNCHANGED <<polling, deposed>>

(* demote after the await: the lock object is gone, onDemoted is called. *)
ReleaseEnds(i) ==
  /\ Hold(i, FALSE)
  /\ StopPolling(i)
  /\ phase' = [phase EXCEPT ![i] = "stopped"]

ReleaseReturns(i) ==
  /\ Runs(i) /\ phase[i] = "released"
  /\ ReleaseEnds(i)
  /\ UNCHANGED <<redis, state, call, timer, stalled, skew, troubles,
                 leaderless>>

(* The call rejects without effect; release swallows the error. *)
ReleaseFails(i) ==
  /\ Runs(i) /\ ReleaseIsNext(i)
  /\ Trouble("fault")
  /\ ReleaseEnds(i)
  /\ UNCHANGED <<redis, state, call, timer, stalled, skew, leaderless>>

Die(i) ==
  /\ phase' = [phase EXCEPT ![i] = "down"]
  /\ Become(i, "follower") /\ Hold(i, FALSE) /\ Await(i, "none")
  /\ StopPolling(i)
  /\ stalled' = stalled \ {i}
  /\ leaderless' = [leaderless EXCEPT ![i] = 0]
  /\ UNCHANGED <<redis, timer, skew>>

Exit(i)  == Runs(i) /\ phase[i] = "stopped" /\ Die(i) /\ UNCHANGED troubles
Crash(i) == phase[i] # "down" /\ Trouble("crash") /\ Die(i)

Restart(i) ==
  /\ phase[i] = "down"
  /\ phase' = [phase EXCEPT ![i] = "up"]
  /\ ScheduleWatch(i)
  /\ UNCHANGED <<redis, state, held, polling, stalled, skew, troubles,
                 history>>

Stall(i) ==
  /\ Runs(i)
  /\ Trouble("stall")
  /\ stalled' = stalled \cup {i}
  /\ UNCHANGED <<redis, local, skew, history>>

Resume(i) ==
  /\ i \in stalled
  /\ stalled' = stalled \ {i}
  /\ UNCHANGED <<redis, local, skew, troubles, history>>

(* One node (ADR-SCHED-001): a restart loses what is not on disk yet, and
   volatile-lru may evict the two keys, which have a TTL. *)
RedisRestart ==
  /\ Trouble("redisRestart")
  /\ lock' = NoLock
  /\ heartbeat' = NoHeartbeat
  /\ UNCHANGED <<local, stalled, skew, history>>

-----------------------------------------------------------------------------
Led == \E i \in Instances : state[i] = "leader"

(* Bounds of the history: no property looks further. *)
LeaderlessCap == HeartbeatTTL + 1
DeposedCap    == Interval + 1

UpTo(n, cap) == IF n < cap THEN n ELSE cap

(* An instance may wait through a unit: it is down, it stalls, or it awaits no
   call to Redis and its timer has not run out. *)
MayWait(i) ==
  \/ ~Runs(i)
  \/ /\ ~Releasing(i)
     /\ \/ call[i] = "none"
        \/ call[i] = "timer" /\ timer[i] > 0

TimePasses ==
  /\ \A i \in Instances : MayWait(i)
  /\ lock' = IF lock.ttl > 1 THEN [lock EXCEPT !.ttl = @ - 1] ELSE NoLock
  /\ heartbeat' = IF heartbeat.writer # None /\ heartbeat.age + 1 < HeartbeatTTL
                  THEN [heartbeat EXCEPT !.age = @ + 1] ELSE NoHeartbeat
  /\ timer' = [i \in Instances |-> IF timer[i] > 0 THEN timer[i] - 1 ELSE 0]
  /\ leaderless' = [i \in Instances |->
                      IF Runs(i) /\ phase[i] = "up" /\ ~Led
                      THEN UpTo(leaderless[i] + 1, LeaderlessCap) ELSE 0]
  /\ deposed' = [i \in Instances |->
                   IF polling[i] /\ lock'.owner # i
                   THEN UpTo(deposed[i] + 1, DeposedCap) ELSE 0]
  /\ UNCHANGED <<state, held, call, phase, polling, stalled, skew, troubles>>

WatchStep(i) ==
  \/ TimerFires(i) \/ ExtendSucceeds(i) \/ ExtendRefused(i)
  \/ WriteHeartbeat(i) \/ Check(i) \/ Acquire(i) \/ AcquireRefused(i)
  \/ Promote(i)

StopStep(i) ==
  \/ StopElection(i) \/ ReleaseTakesEffect(i) \/ ReleaseReturns(i)
  \/ Exit(i)

ElectionNext ==
  \/ \E i \in Instances :
       \/ WatchStep(i) \/ ExtendFails(i) \/ AcquireFails(i) \/ WatchThrows(i)
       \/ BeginShutdown(i) \/ StopStep(i) \/ ReleaseFails(i)
       \/ Crash(i) \/ Restart(i) \/ Stall(i) \/ Resume(i)
  \/ RedisRestart \/ TimePasses

ElectionSpec == ElectionInit /\ [][ElectionNext]_electionVars

(* Time goes on, the event loop of every instance that does not stall runs,
   a stall ends, a shutdown that began is carried through, and a process
   that ended is started again. *)
ElectionFairness ==
  /\ WF_electionVars(TimePasses)
  /\ \A i \in Instances :
       /\ WF_electionVars(WatchStep(i))
       /\ WF_electionVars(StopStep(i))
       /\ WF_electionVars(Restart(i)) /\ WF_electionVars(Resume(i))

FairElection == ElectionSpec /\ ElectionFairness

-----------------------------------------------------------------------------
(* The types of the variables. *)
ElectionTypeOK ==
  /\ lock \in {NoLock} \cup [owner : Instances, ttl : 1 .. LockTTL]
  /\ heartbeat \in {NoHeartbeat} \cup
                   [writer : Instances, age : 0 .. HeartbeatTTL - 1]
  /\ state \in [Instances -> States]
  /\ held \in [Instances -> BOOLEAN]
  /\ call \in [Instances -> WatchCalls]
  /\ timer \in [Instances -> 0 .. Interval]
  /\ phase \in [Instances -> Phases]
  /\ polling \in [Instances -> BOOLEAN]
  /\ stalled \subseteq Instances
  /\ skew \in [Instances -> Skews]
  /\ troubles \in [TroubleKinds -> Nat]
  /\ leaderless \in [Instances -> Nat]
  /\ deposed \in [Instances -> Nat]

(* Redlock keeps two instances from polling at once, through crashes,
   restarts, shutdowns and calls that fail, as long as no event loop and no
   call to Redis hangs for longer than a unit and Redis keeps its keys.  One
   overlap remains and is excepted: demote stops the poll loop after the await
   of release, so an instance promoted while it drains still polls between the
   moment its release frees the lock and the reply ("released"). *)
OnePoller ==
  Never("stall") /\ Never("redisRestart") =>
    \A i, k \in Instances :
      /\ polling[i] /\ phase[i] # "released"
      /\ polling[k] /\ phase[k] # "released"
      => i = k

(* The double-leader window of ADR-SCHED-001: whatever Redis loses, an
   instance that polls without the lock finds out at its next watch tick, in
   any phase of its life, as long as nothing hangs for longer than a unit. *)
DoubleLeaderWindow ==
  Never("stall") => \A i \in Instances : deposed[i] <= Interval

(* Project.md:209: "Leader failover within 45 seconds", HEARTBEAT_TTL_MS.  An
   instance that watches all the while sees no longer time without a leader,
   through a crash, a shutdown and the loss of the keys, if no call fails and
   no event loop stalls.  The clocks must agree: ADR-SCHEDULER-002:56 has
   their skew irrelevant, but the age of the heartbeat is computed from two of
   them. *)
FailoverBounded ==
  (\A i, k \in Instances : skew[i] = skew[k]) =>
    (Never("fault") /\ Never("stall") =>
       \A i \in Instances : leaderless[i] <= HeartbeatTTL)

(* Whatever happens a bounded number of times, an instance polls again. *)
PollingResumes == []<>(\E i \in Instances : polling[i])

(* An instance whose lock is gone does not poll for ever. *)
DeposedStops ==
  \A i \in Instances :
    polling[i] /\ ~Owns(i) ~> ~polling[i] \/ Owns(i)
=============================================================================
