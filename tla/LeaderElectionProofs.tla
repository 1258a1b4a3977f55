------------------------ MODULE LeaderElectionProofs ------------------------
(***************************************************************************)
(* Proofs about LeaderElection, for any set of instances, any timing that  *)
(* satisfies TimingAssumption, and any number of each kind of trouble.     *)
(***************************************************************************)
EXTENDS LeaderElection, TLAPS

-----------------------------------------------------------------------------
(* The phases of a process whose lock is not being released. *)
Live(i) == phase[i] \in {"up", "draining", "stopped"}

(* A live instance is in its term as leader when it renews the lock or is
   being promoted, polls in a term only, and has a lock object in every term.
   A watch loop that has ended with an error leaves the state leader behind,
   and no poll loop.  The release ends a term; a heartbeat sent in that term
   may still be under way after it. *)
InTerm(i) ==
  /\ Live(i) /\ call[i] \in {"extend", "promote"} => state[i] = "leader"
  /\ phase[i] \in {"up", "draining"} /\ call[i] = "heartbeat" =>
       state[i] = "leader"
  /\ Live(i) /\ state[i] = "leader" => call[i] \notin {"check", "acquire"}
  /\ Live(i) /\ polling[i] => state[i] = "leader" /\ call[i] # "none"
  /\ state[i] = "leader" => held[i]
  /\ phase[i] = "down" => state[i] = "follower" /\ ~polling[i]
  /\ Releasing(i) => state[i] = "follower" /\ call[i] # "acquire"
  /\ phase[i] = "released" => call[i] \notin {"extend", "promote"}

StallsAreTroubles == Never("stall") => stalled = {}

(* The leader holds the lock until its watch timer fires, as long as time
   passes in no other place than its timer and Redis keeps the key. *)
LockHeld(i) ==
  Live(i) /\ state[i] = "leader" /\ call[i] # "none" =>
    /\ held[i] /\ Owns(i)
    /\ call[i] = "timer" => timer[i] < lock.ttl
    /\ call[i] \in {"heartbeat", "promote"} => lock.ttl = LockTTL

(* An instance that polls, or is about to, while its release is under way has
   the lock until the release takes effect. *)
LockKept(i) ==
  phase[i] = "releasing" /\ (polling[i] \/ call[i] = "promote") => Owns(i)

(* The time without the lock and the time to the next watch tick add up to no
   more than the interval between two. *)
WindowOpen(i) ==
  /\ Live(i) /\ polling[i] =>
       /\ call[i] = "timer" => deposed[i] + timer[i] <= Interval
       /\ call[i] = "extend" => deposed[i] <= Interval
       /\ call[i] \in {"heartbeat", "promote"} => deposed[i] = 0
       /\ Owns(i) => deposed[i] = 0
  /\ Releasing(i) => deposed[i] <= Interval

Calm == Never("stall") /\ Never("redisRestart")

ElectionInvariant ==
  /\ ElectionTypeOK
  /\ StallsAreTroubles
  /\ \A i \in Instances : InTerm(i) /\ (~polling[i] => deposed[i] = 0)
  /\ Calm => \A i \in Instances : LockHeld(i) /\ LockKept(i)
  /\ Never("stall") => \A i \in Instances : WindowOpen(i)

-----------------------------------------------------------------------------
LEMMA Constants ==
  /\ Interval \in Nat /\ LockTTL \in Nat /\ Interval < LockTTL
  /\ Interval >= 1 /\ HeartbeatTTL \in Nat /\ HeartbeatTTL >= 1
  /\ None \notin Instances
BY TimingAssumption, ElectionNone

LEMMA TypeInit == ElectionInit => ElectionTypeOK
<1> USE Constants DEF ElectionInit, ElectionTypeOK, States, WatchCalls,
                      Phases, TroubleKinds, NoLock, NoHeartbeat
<1> QED  OBVIOUS

LEMMA TypeStep == ElectionTypeOK /\ [ElectionNext]_electionVars => ElectionTypeOK'
<1> SUFFICES ASSUME ElectionTypeOK, [ElectionNext]_electionVars
             PROVE  ElectionTypeOK'
  OBVIOUS
<1> USE Constants DEF ElectionTypeOK, redis, local, history, States, WatchCalls,
        Phases, Await, ScheduleWatch, Become, Hold, StartPolling, StopPolling,
        Awaits,
        Trouble
<1>k. /\ NoLock \in {NoLock} \cup [owner : Instances, ttl : 1 .. LockTTL]
      /\ \A i \in Instances : LockOf(i) \in [owner : Instances, ttl : 1 .. LockTTL]
      /\ \A i \in Instances :
           BeatOf(i) \in [writer : Instances, age : 0 .. HeartbeatTTL - 1]
  BY DEF LockOf, BeatOf
<1>t. \A k \in TroubleKinds : Trouble(k) => troubles' \in [TroubleKinds -> Nat]
  OBVIOUS
<1>1. ASSUME NEW i \in Instances,
             TimerFires(i) \/ ExtendSucceeds(i) \/ WriteHeartbeat(i)
               \/ Check(i) \/ Acquire(i) \/ AcquireRefused(i) \/ Promote(i)
      PROVE  ElectionTypeOK'
  <2>1. CASE TimerFires(i)      BY <2>1 DEF TimerFires
  <2>2. CASE ExtendSucceeds(i)  BY <2>2, <1>k DEF ExtendSucceeds
  <2>3. CASE WriteHeartbeat(i)  BY <2>3, <1>k DEF WriteHeartbeat
  <2>4. CASE Check(i)           BY <2>4 DEF Check
  <2>5. CASE Acquire(i)         BY <2>5, <1>k DEF Acquire
  <2>6. CASE AcquireRefused(i)  BY <2>6 DEF AcquireRefused
  <2>7. CASE Promote(i)         BY <2>7, <1>k DEF Promote
  <2> QED  BY <1>1, <2>1, <2>2, <2>3, <2>4, <2>5, <2>6, <2>7
<1>2. ASSUME NEW i \in Instances,
             ExtendRefused(i) \/ ExtendFails(i) \/ AcquireFails(i)
               \/ WatchThrows(i)
      PROVE  ElectionTypeOK'
  <2>1. CASE ExtendRefused(i)   BY <2>1 DEF ExtendRefused, Demote
  <2>2. CASE ExtendFails(i)
    BY <2>2, <1>k, <1>t DEF ExtendFails, Demote, TroubleKinds
  <2>3. CASE AcquireFails(i)    BY <2>3, <1>k, <1>t DEF AcquireFails, TroubleKinds
  <2>4. CASE WatchThrows(i)     BY <2>4, <1>t DEF WatchThrows, TroubleKinds
  <2> QED  BY <1>2, <2>1, <2>2, <2>3, <2>4
<1>3. ASSUME NEW i \in Instances,
             BeginShutdown(i) \/ StopElection(i) \/ ReleaseTakesEffect(i)
               \/ ReleaseReturns(i) \/ ReleaseFails(i) \/ Exit(i)
               \/ Crash(i) \/ Restart(i) \/ Stall(i) \/ Resume(i)
      PROVE  ElectionTypeOK'
  <2>1. CASE BeginShutdown(i)   BY <2>1, <1>t DEF BeginShutdown, TroubleKinds
  <2>2. CASE StopElection(i)    BY <2>2 DEF StopElection, States
  <2>8. CASE ReleaseTakesEffect(i)
    BY <2>8, <1>k DEF ReleaseTakesEffect
  <2>9. CASE ReleaseReturns(i)  BY <2>9 DEF ReleaseReturns, ReleaseEnds
  <2>10. CASE ReleaseFails(i)
    BY <2>10, <1>t DEF ReleaseFails, ReleaseEnds, TroubleKinds
  <2>3. CASE Exit(i)            BY <2>3 DEF Exit, Die
  <2>4. CASE Crash(i)           BY <2>4, <1>t DEF Crash, Die, TroubleKinds
  <2>5. CASE Restart(i)         BY <2>5 DEF Restart
  <2>6. CASE Stall(i)           BY <2>6, <1>t DEF Stall, TroubleKinds
  <2>7. CASE Resume(i)          BY <2>7 DEF Resume
  <2> QED  BY <1>3, <2>1, <2>2, <2>3, <2>4, <2>5, <2>6, <2>7, <2>8, <2>9, <2>10
<1>4. CASE RedisRestart
  BY <1>4, <1>t DEF RedisRestart, NoHeartbeat, TroubleKinds
<1>5. CASE TimePasses
  <2>1. lock' \in {NoLock} \cup [owner : Instances, ttl : 1 .. LockTTL]
    BY <1>5 DEF TimePasses, NoLock
  <2>2. heartbeat' \in {NoHeartbeat} \cup
                        [writer : Instances, age : 0 .. HeartbeatTTL - 1]
    BY <1>5 DEF TimePasses, NoHeartbeat
  <2>3. timer' \in [Instances -> 0 .. Interval]
    BY <1>5 DEF TimePasses
  <2>4. leaderless' \in [Instances -> Nat] /\ deposed' \in [Instances -> Nat]
    BY <1>5 DEF TimePasses, UpTo, LeaderlessCap, DeposedCap
  <2> QED  BY <1>5, <2>1, <2>2, <2>3, <2>4 DEF TimePasses
<1>6. CASE UNCHANGED electionVars
  BY <1>6 DEF electionVars
<1> QED
  BY <1>1, <1>2, <1>3, <1>4, <1>5, <1>6 DEF ElectionNext, WatchStep, StopStep

(* A stalled event loop is a trouble that happened. *)
LEMMA StallsStep ==
  ElectionTypeOK /\ StallsAreTroubles /\ [ElectionNext]_electionVars
    => StallsAreTroubles'
<1> SUFFICES ASSUME ElectionTypeOK, StallsAreTroubles,
                    [ElectionNext]_electionVars, Never("stall")'
             PROVE  stalled' = {}
  BY DEF StallsAreTroubles
<1> USE DEF ElectionTypeOK, StallsAreTroubles, Never, Trouble, TroubleKinds
<1>1. troubles["stall"] = 0 => stalled = {}
  OBVIOUS
<1>2. ASSUME NEW i \in Instances, Stall(i) PROVE FALSE
  BY <1>2 DEF Stall
<1>3. ASSUME NEW i \in Instances, Crash(i) \/ Exit(i) \/ Resume(i)
      PROVE  stalled' = {}
  BY <1>1, <1>3 DEF Crash, Exit, Resume, Die
<1>4. ASSUME NEW i \in Instances,
             WatchStep(i) \/ ExtendFails(i) \/ AcquireFails(i)
               \/ WatchThrows(i) \/ BeginShutdown(i) \/ StopElection(i)
               \/ ReleaseTakesEffect(i) \/ ReleaseReturns(i)
               \/ ReleaseFails(i) \/ Restart(i)
      PROVE  stalled' = {}
  BY <1>1, <1>4 DEF WatchStep, TimerFires, ExtendSucceeds, ExtendRefused,
                    WriteHeartbeat, Check, Acquire, AcquireRefused, Promote,
                    ExtendFails, AcquireFails, WatchThrows, BeginShutdown,
                    StopElection, ReleaseTakesEffect, ReleaseReturns,
                    ReleaseFails, ReleaseEnds, Restart
<1>5. CASE RedisRestart \/ TimePasses \/ UNCHANGED electionVars
  BY <1>1, <1>5 DEF RedisRestart, TimePasses, electionVars
<1> QED  BY <1>2, <1>3, <1>4, <1>5 DEF ElectionNext, StopStep

LEMMA TermStep ==
  ASSUME ElectionTypeOK, \A i \in Instances : InTerm(i),
         [ElectionNext]_electionVars, NEW k \in Instances
  PROVE  InTerm(k)'
<1> USE DEF ElectionTypeOK, InTerm, Live, Releasing, States, WatchCalls,
            Phases, Await,
            ScheduleWatch, Become, Hold, StartPolling, StopPolling, Awaits, Runs
<1>1. ASSUME NEW i \in Instances,
             TimerFires(i) \/ ExtendSucceeds(i) \/ WriteHeartbeat(i)
               \/ Check(i) \/ Acquire(i) \/ AcquireRefused(i) \/ Promote(i)
      PROVE  InTerm(k)'
  <2>1. CASE TimerFires(i)      BY <2>1 DEF TimerFires
  <2>2. CASE ExtendSucceeds(i)  BY <2>2 DEF ExtendSucceeds
  <2>3. CASE WriteHeartbeat(i)  BY <2>3 DEF WriteHeartbeat
  <2>4. CASE Check(i)           BY <2>4 DEF Check
  <2>5. CASE Acquire(i)         BY <2>5 DEF Acquire
  <2>6. CASE AcquireRefused(i)  BY <2>6 DEF AcquireRefused
  <2>7. CASE Promote(i)         BY <2>7 DEF Promote
  <2> QED  BY <1>1, <2>1, <2>2, <2>3, <2>4, <2>5, <2>6, <2>7
<1>2. ASSUME NEW i \in Instances,
             ExtendRefused(i) \/ ExtendFails(i) \/ AcquireFails(i)
               \/ WatchThrows(i)
      PROVE  InTerm(k)'
  <2>1. CASE ExtendRefused(i)   BY <2>1 DEF ExtendRefused, Demote
  <2>2. CASE ExtendFails(i)     BY <2>2 DEF ExtendFails, Demote
  <2>3. CASE AcquireFails(i)    BY <2>3 DEF AcquireFails
  <2>4. CASE WatchThrows(i)     BY <2>4 DEF WatchThrows
  <2> QED  BY <1>2, <2>1, <2>2, <2>3, <2>4
<1>3. ASSUME NEW i \in Instances,
             BeginShutdown(i) \/ StopElection(i) \/ ReleaseTakesEffect(i)
               \/ ReleaseReturns(i) \/ ReleaseFails(i) \/ Exit(i)
               \/ Crash(i) \/ Restart(i) \/ Stall(i) \/ Resume(i)
      PROVE  InTerm(k)'
  <2>1. CASE BeginShutdown(i)   BY <2>1 DEF BeginShutdown
  <2>2. CASE StopElection(i)    BY <2>2 DEF StopElection
  <2>8. CASE ReleaseTakesEffect(i)
    BY <2>8 DEF ReleaseTakesEffect, ReleaseIsNext
  <2>9. CASE ReleaseReturns(i)  BY <2>9 DEF ReleaseReturns, ReleaseEnds
  <2>10. CASE ReleaseFails(i)
    BY <2>10 DEF ReleaseFails, ReleaseEnds, ReleaseIsNext
  <2>3. CASE Exit(i)            BY <2>3 DEF Exit, Die
  <2>4. CASE Crash(i)           BY <2>4 DEF Crash, Die
  <2>5. CASE Restart(i)         BY <2>5 DEF Restart
  <2>6. CASE Stall(i)           BY <2>6 DEF Stall, local
  <2>7. CASE Resume(i)          BY <2>7 DEF Resume, local
  <2> QED  BY <1>3, <2>1, <2>2, <2>3, <2>4, <2>5, <2>6, <2>7, <2>8, <2>9, <2>10
<1>4. CASE RedisRestart \/ TimePasses \/ UNCHANGED electionVars
  BY <1>4 DEF RedisRestart, TimePasses, electionVars, local
<1> QED  BY <1>1, <1>2, <1>3, <1>4 DEF ElectionNext, WatchStep, StopStep

LEMMA TroublesGrow ==
  ASSUME ElectionTypeOK, [ElectionNext]_electionVars, NEW kind \in TroubleKinds,
         Never(kind)'
  PROVE  Never(kind)
<1>1. \/ UNCHANGED troubles
      \/ \E t \in TroubleKinds : Trouble(t)
  BY DEF ElectionNext, electionVars, WatchStep, StopStep, TimerFires,
         ExtendSucceeds, ExtendRefused, WriteHeartbeat, Check, Acquire,
         AcquireRefused, Promote, ExtendFails, AcquireFails, WatchThrows,
         BeginShutdown, StopElection, ReleaseTakesEffect, ReleaseReturns,
         ReleaseFails, ReleaseEnds, Exit, Crash, Restart, Stall, Resume,
         RedisRestart, TimePasses, TroubleKinds
<1> QED  BY <1>1 DEF Never, Trouble, ElectionTypeOK

(* The lock of a leader is its own until its next watch tick. *)
LEMMA LockStep ==
  ASSUME ElectionInvariant, [ElectionNext]_electionVars, Calm',
         NEW k \in Instances
  PROVE  LockHeld(k)'
<1>0. /\ ElectionTypeOK /\ LockHeld(k) /\ stalled = {}
      /\ \A i \in Instances : InTerm(i)
  BY TroublesGrow DEF ElectionInvariant, Calm, StallsAreTroubles, TroubleKinds
<1> HIDE DEF ElectionInvariant
<1> USE <1>0, Constants DEF ElectionTypeOK, InTerm, Await, Live, LockHeld, Owns,
            ScheduleWatch, Become, Hold, StartPolling, StopPolling, Awaits,
            Runs,
            LockOf
<1>1. ASSUME NEW i \in Instances,
             TimerFires(i) \/ ExtendSucceeds(i) \/ WriteHeartbeat(i)
               \/ Check(i) \/ Acquire(i) \/ AcquireRefused(i) \/ Promote(i)
      PROVE  LockHeld(k)'
  <2>1. CASE TimerFires(i)      BY <2>1 DEF TimerFires, redis
  <2>2. CASE ExtendSucceeds(i)  BY <2>2 DEF ExtendSucceeds
  <2>3. CASE WriteHeartbeat(i)  BY <2>3 DEF WriteHeartbeat
  <2>4. CASE Check(i)           BY <2>4 DEF Check, redis
  <2>5. CASE Acquire(i)         BY <2>5 DEF Acquire, NoLock
  <2>6. CASE AcquireRefused(i)  BY <2>6 DEF AcquireRefused, redis
  <2>7. CASE Promote(i)         BY <2>7 DEF Promote
  <2> QED  BY <1>1, <2>1, <2>2, <2>3, <2>4, <2>5, <2>6, <2>7
<1>2. ASSUME NEW i \in Instances,
             ExtendRefused(i) \/ ExtendFails(i) \/ AcquireFails(i)
               \/ WatchThrows(i)
      PROVE  LockHeld(k)'
  <2>1. CASE ExtendRefused(i)   BY <2>1 DEF ExtendRefused, Demote, redis
  <2>2. CASE ExtendFails(i)     BY <2>2 DEF ExtendFails, Demote
  <2>3. CASE AcquireFails(i)    BY <2>3 DEF AcquireFails, NoLock
  <2>4. CASE WatchThrows(i)     BY <2>4 DEF WatchThrows, redis
  <2> QED  BY <1>2, <2>1, <2>2, <2>3, <2>4
<1>3. ASSUME NEW i \in Instances,
             BeginShutdown(i) \/ StopElection(i) \/ ReleaseTakesEffect(i)
               \/ ReleaseReturns(i) \/ ReleaseFails(i) \/ Exit(i)
               \/ Crash(i) \/ Restart(i) \/ Resume(i)
      PROVE  LockHeld(k)'
  <2>1. CASE BeginShutdown(i)   BY <2>1 DEF BeginShutdown, redis
  <2>2. CASE StopElection(i)
    BY <2>2 DEF StopElection, Releasing, redis
  <2>7. CASE ReleaseTakesEffect(i)
    <3>1. CASE k = i
      BY <2>7, <3>1 DEF ReleaseTakesEffect, ReleaseIsNext
    <3>2. CASE k # i
      <4>1. Owns(k) => lock' = lock
        BY <2>7, <3>2 DEF ReleaseTakesEffect
      <4>2. /\ phase'[k] = phase[k] /\ UNCHANGED <<state, held, call, timer>>
        BY <2>7, <3>2 DEF ReleaseTakesEffect
      <4> QED  BY <4>1, <4>2
    <3> QED  BY <3>1, <3>2
  <2>8. CASE ReleaseReturns(i)
    BY <2>8 DEF ReleaseReturns, ReleaseEnds, Releasing, redis
  <2>9. CASE ReleaseFails(i)
    BY <2>9 DEF ReleaseFails, ReleaseEnds, ReleaseIsNext, Releasing, redis
  <2>3. CASE Exit(i)            BY <2>3 DEF Exit, Die, redis
  <2>4. CASE Crash(i)           BY <2>4 DEF Crash, Die, redis
  <2>5. CASE Restart(i)         BY <2>5 DEF Restart, redis
  <2>6. CASE Resume(i)          BY <2>6 DEF Resume, local, redis
  <2> QED  BY <1>3, <2>1, <2>2, <2>3, <2>4, <2>5, <2>6, <2>7, <2>8, <2>9
<1>4. ASSUME RedisRestart \/ \E i \in Instances : Stall(i)
      PROVE  FALSE
  BY <1>4 DEF RedisRestart, Stall, Calm, Never, Trouble, TroubleKinds
<1>5. CASE TimePasses
  <2>1. SUFFICES ASSUME Live(k)', state'[k] = "leader", call'[k] # "none"
                 PROVE  /\ held'[k] /\ Owns(k)'
                        /\ call'[k] = "timer" => timer'[k] < lock'.ttl
                        /\ call'[k] \in {"heartbeat", "promote"} =>
                             lock'.ttl = LockTTL
    OBVIOUS
  <2>2. UNCHANGED <<state, held, call, phase>>
    BY <1>5 DEF TimePasses
  <2>3. Live(k) /\ state[k] = "leader" /\ call[k] = "timer" /\ timer[k] > 0
    BY <1>5, <2>1, <2>2 DEF TimePasses, MayWait
  <2>4. held[k] /\ lock.owner = k /\ timer[k] < lock.ttl /\ lock.ttl > 1
    BY <2>3 DEF NoLock
  <2>5. lock' = [lock EXCEPT !.ttl = @ - 1]
    BY <1>5, <2>4 DEF TimePasses
  <2>6. lock \in [owner : Instances, ttl : 1 .. LockTTL]
    BY <2>4 DEF NoLock
  <2>7. lock'.owner = k /\ lock'.ttl = lock.ttl - 1
    BY <2>4, <2>5, <2>6
  <2>8. timer'[k] = timer[k] - 1
    BY <1>5, <2>3 DEF TimePasses
  <2> QED  BY <2>2, <2>3, <2>4, <2>6, <2>7, <2>8
<1>6. CASE UNCHANGED electionVars
  BY <1>6 DEF electionVars, local, redis
<1> QED  BY <1>1, <1>2, <1>3, <1>4, <1>5, <1>6 DEF ElectionNext, WatchStep, StopStep

(* The lock stays where it is until the release takes effect: no time passes
   meanwhile. *)
LEMMA KeptStep ==
  ASSUME ElectionInvariant, [ElectionNext]_electionVars, Calm',
         NEW k \in Instances
  PROVE  LockKept(k)'
<1>0. /\ ElectionTypeOK /\ LockHeld(k) /\ LockKept(k) /\ stalled = {}
      /\ \A i \in Instances : InTerm(i)
  BY TroublesGrow DEF ElectionInvariant, Calm, StallsAreTroubles, TroubleKinds
<1> HIDE DEF ElectionInvariant
<1> USE <1>0, Constants DEF ElectionTypeOK, InTerm, Await, Live, LockHeld, Owns,
            LockKept, Releasing, ScheduleWatch, Become, Hold, StartPolling,
            StopPolling, Awaits, Runs, LockOf
<1>1. ASSUME NEW i \in Instances,
             TimerFires(i) \/ ExtendSucceeds(i) \/ WriteHeartbeat(i)
               \/ Check(i) \/ Acquire(i) \/ AcquireRefused(i) \/ Promote(i)
      PROVE  LockKept(k)'
  <2>1. CASE TimerFires(i)      BY <2>1 DEF TimerFires, redis
  <2>2. CASE ExtendSucceeds(i)  BY <2>2 DEF ExtendSucceeds
  <2>3. CASE WriteHeartbeat(i)  BY <2>3 DEF WriteHeartbeat
  <2>4. CASE Check(i)           BY <2>4 DEF Check, redis
  <2>5. CASE Acquire(i)         BY <2>5 DEF Acquire, NoLock
  <2>6. CASE AcquireRefused(i)  BY <2>6 DEF AcquireRefused, redis
  <2>7. CASE Promote(i)         BY <2>7 DEF Promote
  <2> QED  BY <1>1, <2>1, <2>2, <2>3, <2>4, <2>5, <2>6, <2>7
<1>2. ASSUME NEW i \in Instances,
             ExtendRefused(i) \/ ExtendFails(i) \/ AcquireFails(i)
               \/ WatchThrows(i)
      PROVE  LockKept(k)'
  <2>1. CASE ExtendRefused(i)   BY <2>1 DEF ExtendRefused, Demote, redis
  <2>2. CASE ExtendFails(i)     BY <2>2 DEF ExtendFails, Demote
  <2>3. CASE AcquireFails(i)    BY <2>3 DEF AcquireFails, NoLock
  <2>4. CASE WatchThrows(i)     BY <2>4 DEF WatchThrows, redis
  <2> QED  BY <1>2, <2>1, <2>2, <2>3, <2>4
<1>3. ASSUME NEW i \in Instances,
             BeginShutdown(i) \/ StopElection(i) \/ ReleaseTakesEffect(i)
               \/ ReleaseReturns(i) \/ ReleaseFails(i) \/ Exit(i)
               \/ Crash(i) \/ Restart(i) \/ Resume(i)
      PROVE  LockKept(k)'
  <2>1. CASE BeginShutdown(i)   BY <2>1 DEF BeginShutdown, redis
  <2>2. CASE StopElection(i)    BY <2>2 DEF StopElection, redis
  <2>3. CASE ReleaseTakesEffect(i)
    <3>1. CASE k = i
      BY <2>3, <3>1 DEF ReleaseTakesEffect
    <3>2. CASE k # i
      <4>1. Owns(k) => lock' = lock
        BY <2>3, <3>2 DEF ReleaseTakesEffect
      <4>2. phase'[k] = phase[k] /\ UNCHANGED <<call, polling>>
        BY <2>3, <3>2 DEF ReleaseTakesEffect
      <4> QED  BY <4>1, <4>2
    <3> QED  BY <3>1, <3>2
  <2>4. CASE ReleaseReturns(i)
    BY <2>4 DEF ReleaseReturns, ReleaseEnds, redis
  <2>5. CASE ReleaseFails(i)
    BY <2>5 DEF ReleaseFails, ReleaseEnds, redis
  <2>6. CASE Exit(i)            BY <2>6 DEF Exit, Die, redis
  <2>7. CASE Crash(i)           BY <2>7 DEF Crash, Die, redis
  <2>8. CASE Restart(i)         BY <2>8 DEF Restart, redis
  <2>9. CASE Resume(i)          BY <2>9 DEF Resume, local, redis
  <2> QED
    BY <1>3, <2>1, <2>2, <2>3, <2>4, <2>5, <2>6, <2>7, <2>8, <2>9
<1>4. ASSUME RedisRestart \/ \E i \in Instances : Stall(i)
      PROVE  FALSE
  BY <1>4 DEF RedisRestart, Stall, Calm, Never, Trouble, TroubleKinds
<1>5. CASE TimePasses
  BY <1>5 DEF TimePasses, MayWait
<1>6. CASE UNCHANGED electionVars
  BY <1>6 DEF electionVars, local, redis
<1> QED
  BY <1>1, <1>2, <1>3, <1>4, <1>5, <1>6 DEF ElectionNext, WatchStep, StopStep

(* An instance that polls without the lock is on its way to finding out. *)
LEMMA WindowStep ==
  ASSUME ElectionInvariant, [ElectionNext]_electionVars, Never("stall")',
         NEW k \in Instances
  PROVE  WindowOpen(k)'
<1>0. /\ ElectionTypeOK /\ WindowOpen(k) /\ stalled = {}
      /\ \A i \in Instances : InTerm(i) /\ (~polling[i] => deposed[i] = 0)
  BY TroublesGrow DEF ElectionInvariant, StallsAreTroubles, TroubleKinds
<1> HIDE DEF ElectionInvariant
<1> USE <1>0, Constants DEF ElectionTypeOK, InTerm, Await, Live, WindowOpen,
                            Owns, Releasing,
            ScheduleWatch, Become, Hold, StartPolling, StopPolling, Awaits,
            Runs,
            LockOf, history
<1>1. ASSUME NEW i \in Instances,
             TimerFires(i) \/ ExtendSucceeds(i) \/ WriteHeartbeat(i)
               \/ Check(i) \/ Acquire(i) \/ AcquireRefused(i) \/ Promote(i)
      PROVE  WindowOpen(k)'
  <2>1. CASE TimerFires(i)      BY <2>1 DEF TimerFires, redis
  <2>2. CASE ExtendSucceeds(i)  BY <2>2 DEF ExtendSucceeds
  <2>3. CASE WriteHeartbeat(i)  BY <2>3 DEF WriteHeartbeat
  <2>4. CASE Check(i)           BY <2>4 DEF Check, redis
  <2>5. CASE Acquire(i)         BY <2>5 DEF Acquire
  <2>6. CASE AcquireRefused(i)  BY <2>6 DEF AcquireRefused, redis
  <2>7. CASE Promote(i)         BY <2>7 DEF Promote
  <2> QED  BY <1>1, <2>1, <2>2, <2>3, <2>4, <2>5, <2>6, <2>7
<1>2. ASSUME NEW i \in Instances,
             ExtendRefused(i) \/ ExtendFails(i) \/ AcquireFails(i)
               \/ WatchThrows(i)
      PROVE  WindowOpen(k)'
  <2>1. CASE ExtendRefused(i)   BY <2>1 DEF ExtendRefused, Demote, redis
  <2>2. CASE ExtendFails(i)     BY <2>2 DEF ExtendFails, Demote
  <2>3. CASE AcquireFails(i)    BY <2>3 DEF AcquireFails
  <2>4. CASE WatchThrows(i)     BY <2>4 DEF WatchThrows, redis
  <2> QED  BY <1>2, <2>1, <2>2, <2>3, <2>4
<1>3. ASSUME NEW i \in Instances,
             BeginShutdown(i) \/ StopElection(i) \/ ReleaseTakesEffect(i)
               \/ ReleaseReturns(i) \/ ReleaseFails(i) \/ Exit(i)
               \/ Crash(i) \/ Restart(i) \/ Resume(i)
      PROVE  WindowOpen(k)'
  <2>1. CASE BeginShutdown(i)   BY <2>1 DEF BeginShutdown, redis
  <2>2. CASE StopElection(i)
    <3>1. CASE k = i
      <4>1. Live(k) /\ deposed' = deposed
        BY <2>2, <3>1 DEF StopElection
      <4>2. deposed[k] <= Interval
        <5>1. CASE ~polling[k]
          BY <5>1
        <5>2. CASE polling[k]
          <6>1. call[k] \in {"timer", "extend", "heartbeat", "promote"}
            BY <4>1, <5>2 DEF WatchCalls
          <6>2. timer[k] \in Nat /\ deposed[k] \in Nat
            OBVIOUS
          <6> QED  BY <4>1, <5>2, <6>1, <6>2
        <5> QED  BY <5>1, <5>2
      <4>3. ~(Live(k)' /\ polling'[k])
        BY <2>2, <3>1, <4>1 DEF StopElection
      <4> QED  BY <4>1, <4>2, <4>3
    <3>2. CASE k # i
      BY <2>2, <3>2 DEF StopElection, Releasing, redis
    <3> QED  BY <3>1, <3>2
  <2>7. CASE ReleaseTakesEffect(i)
    <3>1. CASE k = i
      BY <2>7, <3>1 DEF ReleaseTakesEffect, ReleaseIsNext, Releasing
    <3>2. CASE k # i
      <4>1. Owns(k)' => Owns(k)
        BY <2>7, <3>2 DEF ReleaseTakesEffect, NoLock
      <4>2. /\ phase'[k] = phase[k] /\ polling'[k] = polling[k]
            /\ call'[k] = call[k] /\ timer' = timer /\ deposed'[k] = deposed[k]
        BY <2>7, <3>2 DEF ReleaseTakesEffect
      <4> QED  BY <4>1, <4>2 DEF Releasing
    <3> QED  BY <3>1, <3>2
  <2>8. CASE ReleaseReturns(i)
    BY <2>8 DEF ReleaseReturns, ReleaseEnds, Releasing, redis
  <2>9. CASE ReleaseFails(i)
    BY <2>9 DEF ReleaseFails, ReleaseEnds, ReleaseIsNext, Releasing, redis
  <2>3. CASE Exit(i)            BY <2>3 DEF Exit, Die, redis
  <2>4. CASE Crash(i)           BY <2>4 DEF Crash, Die, redis
  <2>5. CASE Restart(i)         BY <2>5 DEF Restart, redis
  <2>6. CASE Resume(i)          BY <2>6 DEF Resume, local, redis
  <2> QED  BY <1>3, <2>1, <2>2, <2>3, <2>4, <2>5, <2>6, <2>7, <2>8, <2>9
<1>4. ASSUME NEW i \in Instances, Stall(i)
      PROVE  FALSE
  BY <1>4 DEF Stall, Never, Trouble, TroubleKinds
<1>5. CASE RedisRestart
  BY <1>5 DEF RedisRestart, local, NoLock
<1>6. CASE TimePasses
  <2>0. ~Releasing(k)
    BY <1>6 DEF TimePasses, MayWait
  <2>1. SUFFICES ASSUME Live(k), polling[k] PROVE WindowOpen(k)'
    BY <1>6, <2>0 DEF TimePasses
  <2>2. UNCHANGED <<phase, polling, call>>
    BY <1>6 DEF TimePasses
  <2>3. call[k] = "timer" /\ timer[k] > 0
    BY <1>6, <2>1 DEF TimePasses, MayWait
  <2>4. timer'[k] = timer[k] - 1
    BY <1>6, <2>3 DEF TimePasses
  <2>5. deposed'[k] <= deposed[k] + 1 /\ (Owns(k)' => deposed'[k] = 0)
    BY <1>6 DEF TimePasses, UpTo, DeposedCap
  <2>6. deposed'[k] \in Nat
    BY <1>6 DEF TimePasses, UpTo, DeposedCap
  <2> QED  BY <2>0, <2>1, <2>2, <2>3, <2>4, <2>5, <2>6
<1>7. CASE UNCHANGED electionVars
  BY <1>7 DEF electionVars, local, redis
<1> QED  BY <1>1, <1>2, <1>3, <1>4, <1>5, <1>6, <1>7 DEF ElectionNext, WatchStep, StopStep

LEMMA QuietStep ==
  ASSUME ElectionTypeOK, \A i \in Instances : ~polling[i] => deposed[i] = 0,
         [ElectionNext]_electionVars, NEW k \in Instances
  PROVE  ~polling'[k] => deposed'[k] = 0
<1> USE DEF ElectionTypeOK, StartPolling, StopPolling, history, local
<1>1. ASSUME NEW i \in Instances,
             WatchStep(i) \/ ExtendFails(i) \/ AcquireFails(i) \/ WatchThrows(i)
      PROVE  ~polling'[k] => deposed'[k] = 0
  BY <1>1 DEF WatchStep, TimerFires, ExtendSucceeds, ExtendRefused,
     WriteHeartbeat, Check, Acquire, AcquireRefused, Promote, ExtendFails,
     AcquireFails, WatchThrows, Demote
<1>2. ASSUME NEW i \in Instances,
             BeginShutdown(i) \/ StopElection(i) \/ ReleaseTakesEffect(i)
               \/ ReleaseReturns(i) \/ ReleaseFails(i) \/ Exit(i)
               \/ Crash(i) \/ Restart(i) \/ Stall(i) \/ Resume(i)
      PROVE  ~polling'[k] => deposed'[k] = 0
  BY <1>2 DEF BeginShutdown, StopElection, ReleaseTakesEffect, ReleaseReturns,
              ReleaseFails, ReleaseEnds, Exit, Crash, Die, Restart, Stall,
              Resume
<1>3. CASE RedisRestart \/ TimePasses \/ UNCHANGED electionVars
  BY <1>3 DEF RedisRestart, TimePasses, electionVars
<1> QED  BY <1>1, <1>2, <1>3 DEF ElectionNext, StopStep

-----------------------------------------------------------------------------
(* The invariant holds of every behaviour of the election. *)
THEOREM ElectionInvariantHolds == ElectionSpec => []ElectionInvariant
<1>1. ElectionInit => ElectionInvariant
  <2> SUFFICES ASSUME ElectionInit PROVE ElectionInvariant
    OBVIOUS
  <2>1. ElectionTypeOK
    BY TypeInit
  <2>2. StallsAreTroubles
    BY DEF ElectionInit, StallsAreTroubles
  <2>3. \A i \in Instances : InTerm(i) /\ (~polling[i] => deposed[i] = 0)
    BY DEF ElectionInit, InTerm, Live, Releasing
  <2>4. \A i \in Instances : LockHeld(i) /\ LockKept(i) /\ WindowOpen(i)
    BY DEF ElectionInit, LockHeld, LockKept, WindowOpen, Releasing
  <2> QED  BY <2>1, <2>2, <2>3, <2>4 DEF ElectionInvariant
<1>2. ElectionInvariant /\ [ElectionNext]_electionVars => ElectionInvariant'
  <2> SUFFICES ASSUME ElectionInvariant, [ElectionNext]_electionVars
               PROVE  ElectionInvariant'
    OBVIOUS
  <2>1. ElectionTypeOK /\ StallsAreTroubles
        /\ \A i \in Instances : InTerm(i) /\ (~polling[i] => deposed[i] = 0)
    BY DEF ElectionInvariant
  <2>2. ElectionTypeOK' /\ StallsAreTroubles'
    BY <2>1, TypeStep, StallsStep
  <2>3. \A i \in Instances : InTerm(i)' /\ (~polling'[i] => deposed'[i] = 0)
    BY <2>1, TermStep, QuietStep
  <2>4. Calm' => \A i \in Instances : LockHeld(i)' /\ LockKept(i)'
    BY LockStep, KeptStep
  <2>5. Never("stall")' => \A i \in Instances : WindowOpen(i)'
    BY WindowStep
  <2> QED  BY <2>2, <2>3, <2>4, <2>5 DEF ElectionInvariant
<1> QED  BY <1>1, <1>2, PTL DEF ElectionSpec

(* The variables of the election keep their types. *)
THEOREM ElectionTypesCorrect == ElectionSpec => []ElectionTypeOK
<1>1. ElectionInvariant => ElectionTypeOK
  BY DEF ElectionInvariant
<1> QED  BY <1>1, ElectionInvariantHolds, PTL

(* Two instances never poll at once while nothing hangs for longer than a unit
   and Redis keeps its keys, but for the overlap that the await of release in
   demote leaves: watchTick extends the lock before its TTL can end, and demote
   stops the poll loop whenever the extension does not succeed. *)
THEOREM OnePollerHolds == ElectionSpec => []OnePoller
<1>1. ElectionInvariant => OnePoller
  <2> SUFFICES ASSUME ElectionInvariant, Calm,
                      NEW i \in Instances, polling[i], phase[i] # "released",
                      NEW k \in Instances, polling[k], phase[k] # "released"
               PROVE  i = k
    BY DEF OnePoller, Calm
  <2>1. ASSUME NEW p \in Instances, polling[p], phase[p] # "released"
        PROVE  lock.owner = p
    <3>1. phase[p] \in Phases /\ InTerm(p) /\ LockHeld(p) /\ LockKept(p)
      BY DEF ElectionInvariant, ElectionTypeOK
    <3>2. CASE Live(p)
      BY <2>1, <3>1, <3>2 DEF InTerm, LockHeld, Owns
    <3>3. CASE phase[p] = "releasing"
      BY <2>1, <3>1, <3>3 DEF LockKept, Owns
    <3> QED  BY <2>1, <3>1, <3>2, <3>3 DEF InTerm, Live, Phases
  <2> QED  BY <2>1
<1> QED  BY <1>1, ElectionInvariantHolds, PTL

(* An instance that polls although Redis lost its lock has done so for no
   longer than one watch interval, in any phase of its life. *)
THEOREM DoubleLeaderWindowHolds == ElectionSpec => []DoubleLeaderWindow
<1>1. ElectionInvariant => DoubleLeaderWindow
  <2> SUFFICES ASSUME ElectionInvariant, Never("stall"), NEW i \in Instances
               PROVE  deposed[i] <= Interval
    BY DEF DoubleLeaderWindow
  <2>1. /\ InTerm(i) /\ WindowOpen(i) /\ (~polling[i] => deposed[i] = 0)
        /\ timer[i] \in Nat /\ deposed[i] \in Nat
        /\ call[i] \in WatchCalls /\ phase[i] \in Phases
    BY Constants DEF ElectionInvariant, ElectionTypeOK
  <2>2. CASE Releasing(i) \/ ~polling[i]
    BY <2>1, <2>2, Constants DEF WindowOpen
  <2>3. CASE ~Releasing(i) /\ polling[i]
    <3>1. Live(i) /\ call[i] \in {"timer", "extend", "heartbeat", "promote"}
      BY <2>1, <2>3 DEF InTerm, Live, Releasing, WatchCalls, Phases
    <3> QED  BY <2>1, <2>3, <3>1, Constants DEF WindowOpen
  <2> QED  BY <2>2, <2>3
<1> QED  BY <1>1, ElectionInvariantHolds, PTL

-----------------------------------------------------------------------------
(* How long an instance can watch without a leader.  At the deadline the lock
   a leader left behind has expired, and its heartbeat is stale or gone; the
   next watch tick, one interval later at the most, finds both. *)
Longer(m, n) == IF m > n THEN m ELSE n

Deadline ==
  Longer(LockTTL, IF StaleThreshold < HeartbeatTTL THEN StaleThreshold + 1
                                                   ELSE HeartbeatTTL)

(* The time between two ticks after the last one that came too early. *)
FailoverTime == Deadline + Interval - 1

Steady == /\ \A i, k \in Instances : skew[i] = skew[k]
          /\ Never("fault") /\ Never("stall")

NoneWaited == \A k \in Instances : leaderless[k] = 0

(* A leader, and whoever renews the lock or writes the heartbeat, does so in
   an instant at which nobody has waited; the keys it leaves behind age as the
   wait grows; and the wait and the time to the next tick stay in bounds. *)
LeadersEndTheWait ==
  \A i \in Instances :
    \/ state[i] = "leader"
    \/ phase[i] # "down" /\ call[i] \in {"extend", "heartbeat", "promote"}
    => NoneWaited

KeysAge ==
  /\ heartbeat.writer # None => \A k \in Instances : leaderless[k] <= heartbeat.age
  /\ lock.owner # None => \A k \in Instances : leaderless[k] + lock.ttl <= LockTTL

WaitBounded(k) ==
  /\ leaderless[k] <= FailoverTime
  /\ phase[k] = "down" => leaderless[k] = 0
  /\ phase[k] = "up" =>
       /\ call[k] # "none"
       /\ call[k] = "timer" => leaderless[k] + timer[k] <= FailoverTime

WatchInvariant ==
  Steady => /\ LeadersEndTheWait /\ KeysAge
            /\ \A k \in Instances : WaitBounded(k)

LEMMA Deadlines ==
  /\ Deadline \in Nat /\ FailoverTime \in Nat
  /\ FailoverTime = Deadline + Interval - 1
  /\ Deadline >= LockTTL /\ Deadline >= 1
  /\ \A n \in 0 .. HeartbeatTTL - 1 : n >= Deadline => n > StaleThreshold
<1>1. StaleThreshold \in Nat
  BY TimingAssumption
<1> QED  BY <1>1, Constants DEF Deadline, FailoverTime, Longer

(* While calls succeed, event loops run and the clocks agree, they did so
   before. *)
LEMMA SteadyBefore ==
  ASSUME ElectionInvariant, [ElectionNext]_electionVars, Steady'
  PROVE  /\ Steady /\ ElectionTypeOK /\ stalled = {}
         /\ ~Trouble("fault") /\ ~Trouble("stall")
<1>1. ElectionTypeOK /\ (Never("stall") => stalled = {})
  BY DEF ElectionInvariant, StallsAreTroubles
<1>2. Never("fault") /\ Never("stall")
  BY <1>1, TroublesGrow DEF Steady, TroubleKinds
<1>3. skew' = skew
  BY DEF ElectionNext, electionVars, WatchStep, StopStep, TimerFires,
         ExtendSucceeds, ExtendRefused, WriteHeartbeat, Check, Acquire,
         AcquireRefused, Promote, ExtendFails, AcquireFails, WatchThrows,
         BeginShutdown, StopElection, ReleaseTakesEffect, ReleaseReturns,
         ReleaseFails, ReleaseEnds, Exit, Crash, Die, Restart, Stall, Resume,
         RedisRestart, TimePasses
<1>4. ~Trouble("fault") /\ ~Trouble("stall")
  BY <1>1 DEF Steady, Never, Trouble, ElectionTypeOK, TroubleKinds
<1> QED  BY <1>1, <1>2, <1>3, <1>4 DEF Steady

LEMMA LeadersStep ==
  ASSUME ElectionInvariant, [ElectionNext]_electionVars, Steady',
         LeadersEndTheWait
  PROVE  LeadersEndTheWait'
<1>0. /\ ElectionTypeOK /\ stalled = {}
      /\ ~Trouble("fault") /\ ~Trouble("stall")
  BY SteadyBefore
<1> HIDE DEF ElectionInvariant
<1> DEFINE Ends(k) == \/ state[k] = "leader"
                      \/ /\ phase[k] # "down"
                         /\ call[k] \in {"extend", "heartbeat", "promote"}
<1>e. \A k \in Instances : Ends(k) => NoneWaited
  BY DEF LeadersEndTheWait
<1> SUFFICES ASSUME NEW k \in Instances, Ends(k)' PROVE NoneWaited'
  BY DEF LeadersEndTheWait
<1>a. ASSUME UNCHANGED leaderless, Ends(k) PROVE NoneWaited'
  BY <1>e, <1>a DEF NoneWaited
<1> USE <1>0 DEF ElectionTypeOK, Await, ScheduleWatch, Become, Hold,
            StartPolling, StopPolling, Awaits, Runs, history, local
<1>1. ASSUME NEW i \in Instances,
             TimerFires(i) \/ ExtendSucceeds(i) \/ WriteHeartbeat(i)
               \/ Check(i) \/ AcquireRefused(i) \/ Promote(i) \/ ExtendRefused(i)
      PROVE  NoneWaited'
  <2>1. UNCHANGED leaderless
    BY <1>1 DEF TimerFires, ExtendSucceeds, WriteHeartbeat, Check,
                AcquireRefused,
                Promote, ExtendRefused
  <2>2. CASE TimerFires(i)      BY <1>a, <2>1, <2>2 DEF TimerFires
  <2>3. CASE ExtendSucceeds(i)  BY <1>a, <2>1, <2>3 DEF ExtendSucceeds
  <2>4. CASE WriteHeartbeat(i)  BY <1>a, <2>1, <2>4 DEF WriteHeartbeat
  <2>5. CASE Check(i)           BY <1>a, <2>1, <2>5 DEF Check
  <2>6. CASE AcquireRefused(i)  BY <1>a, <2>1, <2>6 DEF AcquireRefused
  <2>7. CASE Promote(i)         BY <1>a, <2>1, <2>7 DEF Promote
  <2>8. CASE ExtendRefused(i)   BY <1>a, <2>1, <2>8 DEF ExtendRefused, Demote
  <2> QED  BY <1>1, <2>2, <2>3, <2>4, <2>5, <2>6, <2>7, <2>8
<1>2. ASSUME NEW i \in Instances, Acquire(i)
      PROVE  NoneWaited'
  BY <1>2 DEF Acquire, NoneWaited
<1>3. ASSUME NEW i \in Instances,
             BeginShutdown(i) \/ StopElection(i) \/ ReleaseTakesEffect(i)
               \/ ReleaseReturns(i) \/ Restart(i) \/ Resume(i)
      PROVE  NoneWaited'
  <2>1. UNCHANGED leaderless
    BY <1>3 DEF BeginShutdown, StopElection, ReleaseTakesEffect,
                ReleaseReturns, ReleaseFails, ReleaseEnds, Restart, Resume
  <2>2. CASE BeginShutdown(i)   BY <1>a, <2>1, <2>2 DEF BeginShutdown
  <2>3. CASE StopElection(i)    BY <1>a, <2>1, <2>3 DEF StopElection
  <2>6. CASE ReleaseTakesEffect(i)
    BY <1>a, <2>1, <2>6 DEF ReleaseTakesEffect, ReleaseIsNext
  <2>7. CASE ReleaseReturns(i)
    BY <1>a, <2>1, <2>7 DEF ReleaseReturns, ReleaseEnds
  <2>4. CASE Restart(i)         BY <1>a, <2>1, <2>4 DEF Restart
  <2>5. CASE Resume(i)          BY <1>a, <2>1, <2>5 DEF Resume
  <2> QED  BY <1>3, <2>2, <2>3, <2>4, <2>5, <2>6, <2>7
<1>4. ASSUME NEW i \in Instances, Exit(i) \/ Crash(i)
      PROVE  NoneWaited'
  <2>1. Die(i)
    BY <1>4 DEF Exit, Crash
  <2>2. Ends(k)
    BY <2>1 DEF Die
  <2>3. NoneWaited
    BY <1>e, <2>2
  <2> QED  BY <2>1, <2>3 DEF Die, NoneWaited
<1>5. ASSUME NEW i \in Instances,
             ExtendFails(i) \/ AcquireFails(i) \/ WatchThrows(i)
               \/ ReleaseFails(i) \/ Stall(i)
      PROVE  FALSE
  BY <1>5 DEF ExtendFails, AcquireFails, WatchThrows, ReleaseFails, Stall
<1>6. CASE RedisRestart \/ UNCHANGED electionVars
  BY <1>6, <1>a DEF RedisRestart, electionVars
<1>7. CASE TimePasses
  <2>1. UNCHANGED <<state, phase, call>> /\ MayWait(k)
    BY <1>7 DEF TimePasses
  <2>2. state[k] = "leader"
    BY <2>1 DEF MayWait
  <2> QED  BY <1>7, <2>2 DEF TimePasses, Led, NoneWaited
<1> QED
  BY <1>1, <1>2, <1>3, <1>4, <1>5, <1>6, <1>7 DEF ElectionNext, WatchStep, StopStep

(* Nobody's wait grows but by the passing of time, and then by one unit. *)
LEMMA WaitEvolution ==
  ASSUME ElectionTypeOK, [ElectionNext]_electionVars, ~TimePasses,
         NEW k \in Instances
  PROVE  leaderless'[k] <= leaderless[k] /\ leaderless'[k] \in Nat
<1> USE DEF ElectionTypeOK, history
<1>1. ASSUME NEW i \in Instances, Acquire(i) \/ Exit(i) \/ Crash(i)
      PROVE  leaderless'[k] <= leaderless[k] /\ leaderless'[k] \in Nat
  <2>1. /\ leaderless \in [Instances -> Nat]
        /\ \/ leaderless' = [p \in Instances |-> 0]
           \/ leaderless' = [leaderless EXCEPT ![i] = 0]
    BY <1>1 DEF Acquire, Exit, Crash, Die
  <2>2. leaderless[k] \in Nat /\ (leaderless'[k] = 0 \/ leaderless'[k] = leaderless[k])
    BY <2>1
  <2> QED  BY <2>2
<1>2. ASSUME NEW i \in Instances,
             \/ TimerFires(i) \/ ExtendSucceeds(i) \/ ExtendRefused(i)
             \/ WriteHeartbeat(i) \/ Check(i) \/ AcquireRefused(i) \/ Promote(i)
             \/ ExtendFails(i) \/ AcquireFails(i) \/ WatchThrows(i)
             \/ BeginShutdown(i) \/ StopElection(i) \/ ReleaseTakesEffect(i)
             \/ ReleaseReturns(i) \/ ReleaseFails(i) \/ Restart(i) \/ Stall(i)
             \/ Resume(i)
      PROVE  UNCHANGED leaderless
  BY <1>2 DEF TimerFires, ExtendSucceeds, ExtendRefused, WriteHeartbeat,
              Check, AcquireRefused, Promote, ExtendFails, AcquireFails,
              WatchThrows, BeginShutdown, StopElection, ReleaseTakesEffect,
              ReleaseReturns, ReleaseFails, ReleaseEnds, Restart, Stall,
              Resume
<1>3. CASE RedisRestart \/ UNCHANGED electionVars
  BY <1>3 DEF RedisRestart, electionVars
<1> QED  BY <1>1, <1>2, <1>3 DEF ElectionNext, WatchStep, StopStep

LEMMA KeysStep ==
  ASSUME ElectionInvariant, [ElectionNext]_electionVars, Steady',
         LeadersEndTheWait, KeysAge
  PROVE  KeysAge'
<1>0. /\ ElectionTypeOK /\ stalled = {}
      /\ ~Trouble("fault") /\ ~Trouble("stall")
  BY SteadyBefore
<1> HIDE DEF ElectionInvariant
<1>t. /\ lock = NoLock \/ lock \in [owner : Instances, ttl : 1 .. LockTTL]
      /\ \/ heartbeat = NoHeartbeat
         \/ heartbeat \in [writer : Instances, age : 0 .. HeartbeatTTL - 1]
      /\ \A k \in Instances : leaderless[k] \in Nat
  BY <1>0 DEF ElectionTypeOK
<1>n. NoLock.owner = None /\ NoHeartbeat.writer = None
  BY DEF NoLock, NoHeartbeat
<1>1. CASE ~TimePasses
  <2>1. \/ lock' = lock \/ lock' = NoLock
        \/ NoneWaited' /\ \E i \in Instances : lock' = LockOf(i)
    <3>1. ASSUME NEW i \in Instances, ExtendSucceeds(i)
          PROVE  NoneWaited' /\ lock' = LockOf(i)
      <4>1. NoneWaited
        BY <3>1 DEF LeadersEndTheWait, ExtendSucceeds, Awaits, Runs
      <4> QED  BY <3>1, <4>1 DEF ExtendSucceeds, NoneWaited, history
    <3>2. ASSUME NEW i \in Instances, Acquire(i)
          PROVE  NoneWaited' /\ lock' = LockOf(i)
      BY <3>2 DEF Acquire, NoneWaited
    <3>3. ASSUME NEW i \in Instances, ExtendFails(i) \/ AcquireFails(i)
          PROVE  FALSE
      BY <1>0, <3>3 DEF ExtendFails, AcquireFails
    <3> QED
      BY <1>1, <3>1, <3>2, <3>3
         DEF ElectionNext, electionVars, redis, WatchStep, StopStep,
             TimerFires, ExtendRefused, WriteHeartbeat, Check, AcquireRefused,
             Promote, WatchThrows, BeginShutdown, StopElection,
             ReleaseTakesEffect, ReleaseReturns, ReleaseFails, ReleaseEnds,
             Exit, Crash, Die, Restart, Stall, Resume, RedisRestart
  <2>2. \/ heartbeat' = heartbeat \/ heartbeat' = NoHeartbeat
        \/ NoneWaited' /\ \E i \in Instances : heartbeat' = BeatOf(i)
    <3>1. ASSUME NEW i \in Instances, WriteHeartbeat(i) \/ Promote(i)
          PROVE  NoneWaited' /\ heartbeat' = BeatOf(i)
      <4>1. NoneWaited
        BY <3>1 DEF LeadersEndTheWait, WriteHeartbeat, Promote, Awaits, Runs
      <4> QED  BY <3>1, <4>1 DEF WriteHeartbeat, Promote, NoneWaited, history
    <3> QED
      BY <1>1, <3>1
         DEF ElectionNext, electionVars, redis, WatchStep, StopStep,
             TimerFires, ExtendSucceeds, ExtendRefused, ExtendFails, Check,
             Acquire, AcquireRefused, AcquireFails, WatchThrows,
             BeginShutdown, StopElection, ReleaseTakesEffect, ReleaseReturns,
             ReleaseFails, ReleaseEnds, Exit, Crash, Die, Restart, Stall,
             Resume, RedisRestart
  <2>3. \A k \in Instances : leaderless'[k] <= leaderless[k] /\ leaderless'[k] \in Nat
    BY <1>0, <1>1, WaitEvolution
  <2>4. heartbeat'.writer # None =>
          \A k \in Instances : leaderless'[k] <= heartbeat'.age
    <3>1. CASE heartbeat' = heartbeat
      BY <1>t, <1>n, <2>3, <3>1 DEF KeysAge
    <3>2. CASE NoneWaited' /\ \E i \in Instances : heartbeat' = BeatOf(i)
      BY <3>2 DEF NoneWaited, BeatOf
    <3> QED  BY <1>n, <2>2, <3>1, <3>2
  <2>5. lock'.owner # None =>
          \A k \in Instances : leaderless'[k] + lock'.ttl <= LockTTL
    <3>1. CASE lock' = lock
      BY <1>t, <1>n, <2>3, <3>1, Constants DEF KeysAge
    <3>2. CASE NoneWaited' /\ \E i \in Instances : lock' = LockOf(i)
      BY <3>2, Constants DEF NoneWaited, LockOf
    <3> QED  BY <1>n, <2>1, <3>1, <3>2
  <2> QED  BY <2>4, <2>5 DEF KeysAge
<1>2. CASE TimePasses
  <2>1. \A k \in Instances : leaderless'[k] \in Nat /\ leaderless'[k] <= leaderless[k] + 1
    BY <1>t, <1>2, Constants DEF TimePasses, UpTo, LeaderlessCap
  <2>2. ASSUME heartbeat'.writer # None
        PROVE  \A k \in Instances : leaderless'[k] <= heartbeat'.age
    <3>1. heartbeat' = [heartbeat EXCEPT !.age = heartbeat.age + 1] /\ heartbeat.writer # None
      BY <1>2, <1>n, <2>2 DEF TimePasses
    <3>2. heartbeat'.age = heartbeat.age + 1 /\ heartbeat.age \in Nat
      BY <1>t, <1>n, <3>1, Constants
    <3> QED  BY <1>t, <2>1, <3>1, <3>2 DEF KeysAge
  <2>3. ASSUME lock'.owner # None
        PROVE  \A k \in Instances : leaderless'[k] + lock'.ttl <= LockTTL
    <3>1. lock' = [lock EXCEPT !.ttl = lock.ttl - 1] /\ lock.ttl > 1
      BY <1>2, <1>n, <2>3 DEF TimePasses
    <3>2. lock \in [owner : Instances, ttl : 1 .. LockTTL]
      BY <1>t, <3>1 DEF NoLock
    <3>3. lock'.ttl = lock.ttl - 1 /\ lock.owner # None /\ lock.ttl \in Nat
      BY <3>1, <3>2, Constants
    <3> QED  BY <1>t, <2>1, <3>3, Constants DEF KeysAge
  <2> QED  BY <2>2, <2>3 DEF KeysAge
<1> QED  BY <1>1, <1>2

(* A watch tick at the deadline finds the heartbeat stale and the lock free. *)
LEMMA TickAtDeadline ==
  ASSUME ElectionTypeOK, Steady, KeysAge, NEW k \in Instances,
         leaderless[k] >= Deadline
  PROVE  IsHeartbeatStale(k) /\ lock = NoLock
<1>1. leaderless[k] \in Nat
  BY DEF ElectionTypeOK
<1>2. ASSUME heartbeat.writer # None
      PROVE  SeenAge(k) > StaleThreshold
  <2>1. heartbeat \in [writer : Instances, age : 0 .. HeartbeatTTL - 1]
    BY <1>2 DEF ElectionTypeOK, NoHeartbeat
  <2>2. heartbeat.age >= Deadline
    BY <1>1, <1>2, <2>1, Deadlines, Constants DEF KeysAge
  <2>3. heartbeat.age > StaleThreshold
    BY <2>1, <2>2, Deadlines
  <2>4. skew[k] \in Int /\ skew[heartbeat.writer] = skew[k]
    BY <2>1, SkewAssumption DEF Steady, ElectionTypeOK
  <2> QED  BY <2>1, <2>3, <2>4, Constants DEF SeenAge
<1>3. lock = NoLock
  <2> SUFFICES ASSUME lock # NoLock PROVE FALSE
    OBVIOUS
  <2>1. lock \in [owner : Instances, ttl : 1 .. LockTTL]
    BY DEF ElectionTypeOK
  <2>2. leaderless[k] + lock.ttl <= LockTTL
    BY <2>1, Constants DEF KeysAge
  <2> QED  BY <1>1, <2>1, <2>2, Deadlines, Constants
<1> QED  BY <1>2, <1>3 DEF IsHeartbeatStale

LEMMA WaitStep ==
  ASSUME ElectionInvariant, [ElectionNext]_electionVars, Steady',
         LeadersEndTheWait, KeysAge, NEW k \in Instances, WaitBounded(k)
  PROVE  WaitBounded(k)'
<1>0. /\ ElectionTypeOK /\ stalled = {} /\ Steady
      /\ ~Trouble("fault") /\ ~Trouble("stall")
  BY SteadyBefore
<1> HIDE DEF ElectionInvariant
<1>t. leaderless[k] \in Nat /\ timer[k] \in 0 .. Interval
  BY <1>0 DEF ElectionTypeOK
<1>w. ~TimePasses => leaderless'[k] <= leaderless[k] /\ leaderless'[k] \in Nat
  BY <1>0, WaitEvolution
<1>s. ASSUME ~TimePasses, leaderless[k] < Deadline, timer'[k] = Interval,
             phase'[k] = "down" => leaderless'[k] = 0, call'[k] = "timer"
      PROVE  WaitBounded(k)'
  BY <1>s, <1>t, <1>w, Deadlines, Constants DEF WaitBounded
<1>z. ASSUME NoneWaited PROVE leaderless[k] < Deadline
  BY <1>z, Deadlines DEF NoneWaited
<1>f. ASSUME ~TimePasses, timer'[k] = timer[k], phase'[k] = phase[k], call'[k] = call[k]
      PROVE  WaitBounded(k)'
  BY <1>f, <1>t, <1>w, Deadlines DEF WaitBounded
<1>g. ASSUME ~TimePasses, phase'[k] # "up", phase'[k] = "down" => leaderless'[k] = 0
      PROVE  WaitBounded(k)'
  BY <1>g, <1>t, <1>w, Deadlines DEF WaitBounded
<1>h. ASSUME ~TimePasses, phase'[k] = phase[k], call'[k] \notin {"none", "timer"}
      PROVE  WaitBounded(k)'
  BY <1>h, <1>t, <1>w, Deadlines DEF WaitBounded
<1>d. phase[k] = "down" => leaderless[k] = 0
  BY DEF WaitBounded
<1> USE <1>0 DEF ElectionTypeOK, Await, ScheduleWatch, Become, Hold,
            StartPolling, StopPolling, Awaits, Runs, history, local
<1>1. ASSUME NEW i \in Instances, WatchStep(i), ~TimePasses
      PROVE  WaitBounded(k)'
  <2>1. CASE k # i
    <3>1. timer'[k] = timer[k] /\ phase'[k] = phase[k] /\ call'[k] = call[k]
      BY <1>1, <2>1 DEF WatchStep, TimerFires, ExtendSucceeds, ExtendRefused,
         WriteHeartbeat, Check, Acquire, AcquireRefused, Promote, Demote
    <3> QED  BY <1>1, <1>f, <3>1
  <2>2. CASE k = i /\ (TimerFires(i) \/ ExtendSucceeds(i) \/ Acquire(i))
    <3>1. phase'[k] = phase[k] /\ call'[k] \notin {"none", "timer"}
      BY <2>2 DEF TimerFires, ExtendSucceeds, Acquire
    <3> QED  BY <1>1, <1>h, <3>1
  <2>3. CASE k = i /\ (ExtendRefused(i) \/ WriteHeartbeat(i) \/ Promote(i))
    <3>1. NoneWaited
      BY <2>3 DEF LeadersEndTheWait, ExtendRefused, WriteHeartbeat, Promote
    <3>2. timer'[k] = Interval /\ call'[k] = "timer" /\ phase'[k] # "down"
      BY <2>3 DEF ExtendRefused, WriteHeartbeat, Promote, Demote
    <3> QED  BY <1>1, <1>s, <1>z, <3>1, <3>2
  <2>4. CASE k = i /\ AcquireRefused(i)
    <3>1. leaderless[k] < Deadline
      BY <1>t, <2>4, TickAtDeadline, Deadlines DEF AcquireRefused
    <3>2. timer'[k] = Interval /\ call'[k] = "timer" /\ phase'[k] # "down"
      BY <2>4 DEF AcquireRefused
    <3> QED  BY <1>1, <1>s, <3>1, <3>2
  <2>5. CASE k = i /\ Check(i)
    <3>1. CASE IsHeartbeatStale(i)
      <4>1. phase'[k] = phase[k] /\ call'[k] = "acquire"
        BY <2>5, <3>1 DEF Check
      <4> QED  BY <1>1, <1>h, <4>1
    <3>2. CASE ~IsHeartbeatStale(i)
      <4>1. leaderless[k] < Deadline
        BY <1>t, <2>5, <3>2, TickAtDeadline, Deadlines
      <4>2. timer'[k] = Interval /\ call'[k] = "timer" /\ phase'[k] # "down"
        BY <2>5, <3>2 DEF Check
      <4> QED  BY <1>1, <1>s, <4>1, <4>2
    <3> QED  BY <3>1, <3>2
  <2> QED  BY <1>1, <2>1, <2>2, <2>3, <2>4, <2>5 DEF WatchStep
<1>2. ASSUME NEW i \in Instances,
             ExtendFails(i) \/ AcquireFails(i) \/ WatchThrows(i) \/ Stall(i)
      PROVE  FALSE
  BY <1>2 DEF ExtendFails, AcquireFails, WatchThrows, Stall
<1>3. ASSUME NEW i \in Instances, ~TimePasses,
             BeginShutdown(i) \/ StopElection(i) \/ ReleaseTakesEffect(i)
               \/ ReleaseReturns(i) \/ ReleaseFails(i) \/ Exit(i)
               \/ Crash(i)
      PROVE  WaitBounded(k)'
  <2>1. CASE k # i
    <3>1. timer'[k] = timer[k] /\ phase'[k] = phase[k] /\ call'[k] = call[k]
      BY <1>3, <2>1 DEF BeginShutdown, StopElection, ReleaseTakesEffect,
                        ReleaseReturns, ReleaseFails, ReleaseEnds, Exit,
                        Crash, Die
    <3> QED  BY <1>3, <1>f, <3>1
  <2>2. CASE k = i
    <3>1. phase'[k] # "up" /\ (phase'[k] = "down" => leaderless'[k] = 0)
      BY <1>3, <2>2 DEF BeginShutdown, StopElection, ReleaseTakesEffect,
                        ReleaseReturns, ReleaseFails, ReleaseEnds, Exit,
                        Crash, Die
    <3> QED  BY <1>3, <1>g, <3>1
  <2> QED  BY <2>1, <2>2
<1>4. ASSUME NEW i \in Instances, ~TimePasses, Restart(i) \/ Resume(i)
      PROVE  WaitBounded(k)'
  <2>1. CASE Resume(i) \/ k # i
    <3>1. timer'[k] = timer[k] /\ phase'[k] = phase[k] /\ call'[k] = call[k]
      BY <1>4, <2>1 DEF Restart, Resume
    <3> QED  BY <1>4, <1>f, <3>1
  <2>2. CASE Restart(i) /\ k = i
    <3>1. leaderless[k] = 0 /\ timer'[k] = Interval /\ call'[k] = "timer"
          /\ phase'[k] = "up"
      BY <1>d, <2>2 DEF Restart
    <3> QED  BY <1>4, <1>s, <3>1, Deadlines
  <2> QED  BY <1>4, <2>1, <2>2
<1>5. CASE (RedisRestart \/ UNCHANGED electionVars) /\ ~TimePasses
  <2>1. timer'[k] = timer[k] /\ phase'[k] = phase[k] /\ call'[k] = call[k]
    BY <1>5 DEF RedisRestart, electionVars
  <2> QED  BY <1>5, <1>f, <2>1
<1>6. CASE TimePasses
  <2>1. phase' = phase /\ call' = call /\ MayWait(k)
    BY <1>6 DEF TimePasses
  <2>2. timer'[k] = IF timer[k] > 0 THEN timer[k] - 1 ELSE 0
    BY <1>6 DEF TimePasses
  <2>3. CASE leaderless'[k] = 0
    <3>1. timer'[k] <= Interval /\ timer'[k] \in Nat
      BY <1>t, <2>2, Constants
    <3> QED  BY <2>1, <2>3, <3>1, Deadlines, Constants DEF WaitBounded
  <2>4. CASE leaderless'[k] # 0
    <3>1. /\ phase[k] = "up"
          /\ leaderless'[k] = UpTo(leaderless[k] + 1, LeaderlessCap)
      BY <1>6, <2>4 DEF TimePasses
    <3>2. leaderless'[k] <= leaderless[k] + 1 /\ leaderless'[k] \in Nat
      BY <1>t, <3>1, Constants DEF UpTo, LeaderlessCap
    <3>3. call[k] = "timer" /\ timer[k] > 0
      BY <2>1, <3>1 DEF MayWait, WaitBounded
    <3>4. leaderless[k] + timer[k] <= FailoverTime /\ timer'[k] = timer[k] - 1
      BY <1>t, <2>2, <3>1, <3>3 DEF WaitBounded
    <3> QED  BY <1>t, <2>1, <3>1, <3>2, <3>3, <3>4, Deadlines DEF WaitBounded
  <2> QED  BY <2>3, <2>4
<1> QED
  BY <1>1, <1>2, <1>3, <1>4, <1>5, <1>6 DEF ElectionNext, StopStep

LEMMA WatchInvariantHolds == ElectionSpec => []WatchInvariant
<1>1. ElectionInit => WatchInvariant
  <2> SUFFICES ASSUME ElectionInit
               PROVE  /\ LeadersEndTheWait /\ KeysAge
                      /\ \A k \in Instances : WaitBounded(k)
    BY DEF WatchInvariant
  <2>1. LeadersEndTheWait /\ KeysAge
    BY DEF ElectionInit, LeadersEndTheWait, KeysAge, NoLock, NoHeartbeat, NoneWaited
  <2>2. \A k \in Instances : /\ leaderless[k] = 0 /\ timer[k] \in 1 .. Interval
                             /\ call[k] = "timer" /\ phase[k] = "up"
    BY DEF ElectionInit
  <2> QED  BY <2>1, <2>2, Deadlines, Constants DEF WaitBounded
<1>2. /\ ElectionInvariant /\ WatchInvariant /\ [ElectionNext]_electionVars
      => WatchInvariant'
  <2> SUFFICES ASSUME ElectionInvariant, WatchInvariant,
                      [ElectionNext]_electionVars, Steady'
               PROVE  /\ LeadersEndTheWait' /\ KeysAge'
                      /\ \A k \in Instances : WaitBounded(k)'
    BY DEF WatchInvariant
  <2>1. Steady
    BY SteadyBefore
  <2>2. LeadersEndTheWait /\ KeysAge /\ \A k \in Instances : WaitBounded(k)
    BY <2>1 DEF WatchInvariant
  <2> QED  BY <2>2, LeadersStep, KeysStep, WaitStep
<1> QED  BY <1>1, <1>2, ElectionInvariantHolds, PTL DEF ElectionSpec

(* Calls succeed, nothing hangs and the clocks agree (Steady): then the wait is
   at most FailoverTime, whatever the intervals and TTLs are: the age at which
   the heartbeat is stale or gone, or the TTL of the lock if that is longer,
   and one watch interval. *)
FailoverInTime ==
  Steady => \A i \in Instances : leaderless[i] <= FailoverTime

(* How long an instance in phase "up" watches while no instance is in state
   leader, through crashes, shutdowns and losses of the Redis keys and for any
   timing of the election, while no call fails, nothing hangs and the clocks
   agree.  A leader that drains counts as one, although it does not poll. *)
THEOREM FailoverTimeHolds == ElectionSpec => []FailoverInTime
<1>1. WatchInvariant => FailoverInTime
  BY DEF WatchInvariant, FailoverInTime, WaitBounded
<1> QED  BY <1>1, WatchInvariantHolds, PTL

(* The constants of the repository (an interval of 15, a threshold and a lock
   TTL of 30, a heartbeat TTL of 45 seconds) leave the one interval. *)
FailoverTiming ==
  /\ StaleThreshold + Interval <= HeartbeatTTL
  /\ LockTTL + Interval <= HeartbeatTTL + 1

(* "Leader failover within 45 seconds" (Project.md:209), while no call fails,
   nothing hangs and the clocks agree: the time without an instance in state
   leader. *)
THEOREM FailoverIsBounded ==
  ASSUME FailoverTiming
  PROVE  ElectionSpec => []FailoverBounded
<1>1. ElectionTypeOK /\ FailoverInTime => FailoverBounded
  <2>1. FailoverTime <= HeartbeatTTL
    BY Constants, TimingAssumption DEF FailoverTime, Deadline, Longer, FailoverTiming
  <2> SUFFICES ASSUME ElectionTypeOK, FailoverInTime, Steady, NEW i \in Instances
               PROVE  leaderless[i] <= HeartbeatTTL
    BY DEF FailoverBounded, Steady
  <2>2. leaderless[i] <= FailoverTime /\ leaderless[i] \in Nat
    BY DEF FailoverInTime, ElectionTypeOK
  <2> QED  BY <2>1, <2>2, Deadlines, Constants
<1> QED  BY <1>1, FailoverTimeHolds, ElectionTypesCorrect, PTL
=============================================================================
