--------------------------- MODULE SchedulerProofs ---------------------------
(***************************************************************************)
(* Proofs about Scheduler, for any number of chains and of runs of the     *)
(* shutdown handler, any capacity and any number of faults: the process is *)
(* a poll loop as PollLoop has it, it polls for a leader only, and its     *)
(* exit leaves neither its lock nor its jobs behind, with the exceptions   *)
(* the properties name.                                                    *)
(***************************************************************************)
EXTENDS Scheduler, PollLoopProofs

-----------------------------------------------------------------------------
(* The parts of a step that the poll loop takes no notice of, and those that
   leave the election and the shutdown alone. *)
LEMMA BeginStops ==
  ASSUME NEW s \in Shutdowns, Begin(s), UNCHANGED <<activeJobs, inflight, overlapped>>
  PROVE  Stop
BY DEF Begin, Stop

LEMMA PollStepFrame ==
  ASSUME (\E c \in Chains : PollStep(c)) \/ (\E n \in 1 .. BatchSize : Settle(n))
  PROVE  /\ UNCHANGED <<electionVars, shutdownVars, faults, historyVars>>
         /\ UNCHANGED <<running, overlapped>>
         /\ ~exited
BY DEF PollStep, Settle, TimerFires, TimeReturns, TimeFails, DequeueReturns,
       DequeueFails, BatchSettles

LEMMA PollNextOfSchedulerNext ==
  [SchedulerNext]_schedulerVars => [PollNext]_pollVars
<1> SUFFICES ASSUME [SchedulerNext]_schedulerVars PROVE [PollNext]_pollVars
  OBVIOUS
<1>1. ASSUME NEW c \in Chains, PollStep(c) PROVE [PollNext]_pollVars
  BY <1>1 DEF PollStep, PollNext, TickStep
<1>2. ASSUME NEW n \in 1 .. BatchSize, Settle(n) PROVE [PollNext]_pollVars
  BY <1>2 DEF Settle, PollNext
<1>3. CASE WatchStep
  <2>1. CASE ExtendFails
    BY <2>1 DEF ExtendFails, PollNext, Stop
  <2>2. CASE Promote
    BY <2>2 DEF Promote, PollNext
  <2> QED  BY <1>3, <2>1, <2>2 DEF WatchStep, WatchFires, ExtendSucceeds,
                Heartbeat, Check, Acquire, AcquireFails
<1>4. ASSUME NEW s \in Shutdowns, ShutdownStep(s) PROVE [PollNext]_pollVars
  <2>1. CASE ReleaseReturns(s)
    BY <2>1 DEF ReleaseReturns, PollNext, Stop
  <2>2. CASE CloseFails(s)
    BY <2>2, BeginStops DEF CloseFails, PollNext
  <2> QED  BY <1>4, <2>1, <2>2 DEF ShutdownStep, DrainEnds, RabbitReturns,
                QuitReturns, Exit
<1>5. CASE Signal
  BY <1>5, BeginStops DEF Signal, PollNext
<1>6. CASE WatchThrows
  BY <1>6, BeginStops DEF WatchThrows, PollNext
<1>7. CASE LockGoes \/ UNCHANGED schedulerVars
  BY <1>7 DEF LockGoes, schedulerVars
<1> QED  BY <1>1, <1>2, <1>3, <1>4, <1>5, <1>6, <1>7 DEF SchedulerNext

(* The process is a poll loop whose starts and stops are the promotions, the
   demotions and the shutdowns. *)
THEOREM SchedulerImplementsPollLoop == SchedulerSpec => PollLoopImplemented
<1>1. SchedulerInit => PollInit
  BY DEF SchedulerInit
<1> QED  BY <1>1, PollNextOfSchedulerNext, PTL DEF SchedulerSpec, PollLoopImplemented

LEMMA SchedulerPollInvariant == SchedulerSpec => []PollInvariant
<1>1. SchedulerSpec => PollSpec
  BY SchedulerImplementsPollLoop DEF PollLoopImplemented, PollSpec
<1> QED  BY <1>1, PollInvariantHolds, PTL

(* The poll loop of the composition keeps its types. *)
THEOREM SchedulerPollTypes == SchedulerSpec => []PollTypeOK
<1>1. PollInvariant => PollTypeOK
  BY DEF PollInvariant
<1> QED  BY <1>1, SchedulerPollInvariant, PTL

(* The gate holds through promotions, demotions and shutdowns, while there is
   one chain of ticks. *)
THEOREM SchedulerWithinCapacity == SchedulerSpec => []WithinCapacity
<1>1. PollInvariant => WithinCapacity
  BY DEF PollInvariant
<1> QED  BY <1>1, SchedulerPollInvariant, PTL

(* The count of jobs in execution, which the shutdown waits for to reach zero,
   is exact through promotions, demotions and shutdowns. *)
THEOREM SchedulerJobsAccounted == SchedulerSpec => []ActiveAccounted
<1>1. SchedulerSpec => PollSpec
  BY SchedulerImplementsPollLoop DEF PollLoopImplemented, PollSpec
<1> QED  BY <1>1, ActiveJobsAccounted, PTL

(* Neither a demotion nor a shutdown leaves a timer behind, while there is one
   chain of ticks. *)
THEOREM SchedulerStoppedIsQuiet == SchedulerSpec => []StoppedIsQuiet
<1>1. PollInvariant => StoppedIsQuiet
  BY DEF PollInvariant, OneChain, StoppedIsQuiet
<1> QED  BY <1>1, SchedulerPollInvariant, PTL

-----------------------------------------------------------------------------
LEMMA BeginTypes ==
  ASSUME SchedulerTypeOK, NEW s \in Shutdowns, Begin(s)
  PROVE  /\ shutdown' \in [Shutdowns -> ShutdownCalls \cup {"idle"}]
         /\ tickAtStop' \in BOOLEAN
BY DEF SchedulerTypeOK, Begin, ShutdownCalls

LEMMA SchedulerTypeStep ==
  SchedulerTypeOK /\ [SchedulerNext]_schedulerVars => SchedulerTypeOK'
<1> SUFFICES ASSUME SchedulerTypeOK, [SchedulerNext]_schedulerVars
             PROVE  SchedulerTypeOK'
  OBVIOUS
<1> USE SchedulerConstants
<1>r. Rejects \/ Fault => faults' \in 0 .. MaxFaults
  BY DEF Rejects, Fault, SchedulerTypeOK
<1>1. CASE (\E c \in Chains : PollStep(c)) \/ (\E n \in 1 .. BatchSize : Settle(n))
  BY <1>1, PollStepFrame DEF SchedulerTypeOK, electionVars, shutdownVars, historyVars
<1>2. CASE WatchStep
  BY <1>2, <1>r DEF WatchStep, SchedulerTypeOK, electionVars, shutdownVars,
     historyVars, Await, WatchCalls, WatchFires, ExtendSucceeds, ExtendFails,
     Heartbeat, Check, Acquire, AcquireFails, Promote
<1>3. ASSUME NEW s \in Shutdowns, ShutdownStep(s) PROVE SchedulerTypeOK'
  <2>1. CASE CloseFails(s)
    BY <2>1, <1>r, BeginTypes DEF CloseFails, SchedulerTypeOK, electionVars
  <2>2. CASE DrainEnds(s)
    BY <2>2 DEF DrainEnds, StopElection, SchedulerTypeOK, WatchCalls, ShutdownCalls
  <2>3. CASE ReleaseReturns(s)
    BY <2>3, <1>r DEF ReleaseReturns, SchedulerTypeOK, ShutdownCalls, historyVars
  <2>4. CASE RabbitReturns(s) \/ QuitReturns(s) \/ Exit(s)
    BY <2>4 DEF RabbitReturns, QuitReturns, Exit, SchedulerTypeOK, ShutdownCalls,
                historyVars, electionVars
  <2> QED  BY <1>3, <2>1, <2>2, <2>3, <2>4 DEF ShutdownStep
<1>4. CASE Signal
  BY <1>4, BeginTypes DEF Signal, SchedulerTypeOK, electionVars
<1>5. CASE WatchThrows
  BY <1>5, <1>r, BeginTypes DEF WatchThrows, SchedulerTypeOK, Await
<1>6. CASE LockGoes \/ UNCHANGED schedulerVars
  BY <1>6 DEF LockGoes, schedulerVars, SchedulerTypeOK, electionVars, shutdownVars,
              historyVars
<1> QED  BY <1>1, <1>2, <1>3, <1>4, <1>5, <1>6 DEF SchedulerNext

(* The variables of the election and the shutdown keep their types. *)
THEOREM SchedulerTypesCorrect == SchedulerSpec => []SchedulerTypeOK
<1>1. SchedulerInit => SchedulerTypeOK
  <2> SUFFICES ASSUME SchedulerInit PROVE SchedulerTypeOK
    OBVIOUS
  <2>1. shutdown \in [Shutdowns -> ShutdownCalls \cup {"idle"}]
    BY DEF SchedulerInit
  <2>2. faults \in 0 .. MaxFaults
    BY SchedulerConstants DEF SchedulerInit
  <2> QED  BY <2>1, <2>2 DEF SchedulerInit, SchedulerTypeOK
<1> QED  BY <1>1, SchedulerTypeStep, PTL DEF SchedulerSpec

-----------------------------------------------------------------------------
(* An election that no shutdown stopped in the middle knows in every state
   whether it leads: what it awaits fits its state. *)
WatchFitsState ==
  ~watchAtStop =>
    /\ watch = "promote" => state = "leader"
    /\ watch \in {"check", "acquire"} => state # "leader"

LeaderInvariant == SchedulerTypeOK /\ WatchFitsState /\ PollsForLeader

(* A drain that ends makes a leader a follower whose release is pending. *)
LEMMA StopElectionReleases ==
  ASSUME SchedulerTypeOK, NEW s \in Shutdowns, StopElection(s)
  PROVE  /\ state = "leader" => Releasing' /\ state' = "follower"
         /\ state # "leader" => state' = state
         /\ shutdown[s] = "drain" /\ Releasing => Releasing'
         /\ watchAtStop => watchAtStop'
         /\ ~watchAtStop' => watch' = "none"
<1>1. /\ shutdown'[s] = IF state = "leader" THEN "release" ELSE "rabbit"
      /\ \A t \in Shutdowns \ {s} : shutdown'[t] = shutdown[t]
  BY DEF StopElection, SchedulerTypeOK
<1>2. state = "leader" => Releasing'
  BY <1>1 DEF Releasing
<1>3. shutdown[s] = "drain" /\ Releasing => Releasing'
  BY <1>1 DEF Releasing
<1>4. /\ state = "leader" => state' = "follower"
      /\ state # "leader" => state' = state
      /\ watchAtStop => watchAtStop'
      /\ ~watchAtStop' => watch \notin WatchCalls
  BY DEF StopElection
<1>5. watch \notin WatchCalls => watch' = "none"
  BY DEF StopElection, SchedulerTypeOK
<1> QED  BY <1>2, <1>3, <1>4, <1>5

LEMMA LeaderStep ==
  LeaderInvariant /\ [SchedulerNext]_schedulerVars => LeaderInvariant'
<1> SUFFICES ASSUME SchedulerTypeOK, WatchFitsState, PollsForLeader,
                    [SchedulerNext]_schedulerVars
             PROVE  WatchFitsState' /\ PollsForLeader'
  BY SchedulerTypeStep DEF LeaderInvariant
<1>1. CASE (\E c \in Chains : PollStep(c)) \/ (\E n \in 1 .. BatchSize : Settle(n))
  BY <1>1, PollStepFrame DEF WatchFitsState, PollsForLeader, Releasing,
     electionVars, shutdownVars, historyVars
<1>2. CASE WatchStep
  <2>1. CASE ExtendFails
    BY <2>1 DEF ExtendFails, StopLoop, Await, WatchFitsState, PollsForLeader, historyVars
  <2>2. CASE Promote
    BY <2>2 DEF Promote, Await, WatchFitsState, PollsForLeader
  <2>3. CASE AcquireFails
    BY <2>3 DEF AcquireFails, Await, WatchFitsState, PollsForLeader, Releasing,
       pollVars, shutdownVars, historyVars
  <2>4. CASE WatchFires \/ ExtendSucceeds \/ Heartbeat \/ Check \/ Acquire
    BY <2>4 DEF WatchFires, ExtendSucceeds, Heartbeat, Check, Acquire, Await,
       WatchFitsState, PollsForLeader, Releasing, pollVars, shutdownVars, historyVars
  <2> QED  BY <1>2, <2>1, <2>2, <2>3, <2>4 DEF WatchStep
<1>3. ASSUME NEW s \in Shutdowns, ShutdownStep(s)
      PROVE  WatchFitsState' /\ PollsForLeader'
  <2>1. CASE DrainEnds(s)
    <3>1. shutdown[s] = "drain" /\ StopElection(s) /\ UNCHANGED running
      BY <2>1 DEF DrainEnds, pollVars
    <3> QED  BY <3>1, StopElectionReleases DEF WatchFitsState, PollsForLeader
  <2>2. CASE ReleaseReturns(s)
    BY <2>2 DEF ReleaseReturns, StopLoop, WatchFitsState, PollsForLeader, historyVars
  <2>3. CASE CloseFails(s)
    BY <2>3 DEF CloseFails, Begin, StopLoop, WatchFitsState, PollsForLeader, electionVars
  <2>4. CASE RabbitReturns(s) \/ QuitReturns(s)
    <3>1. \A t \in Shutdowns : shutdown[t] = "release" => shutdown'[t] = "release"
      BY <2>4 DEF RabbitReturns, QuitReturns, SchedulerTypeOK
    <3>2. UNCHANGED <<running, state, watch, watchAtStop>>
      BY <2>4 DEF RabbitReturns, QuitReturns, pollVars, electionVars, historyVars
    <3> QED  BY <3>1, <3>2 DEF WatchFitsState, PollsForLeader, Releasing
  <2>5. CASE Exit(s)
    BY <2>5 DEF Exit, pollVars, electionVars, historyVars, WatchFitsState,
       PollsForLeader, Releasing
  <2> QED  BY <1>3, <2>1, <2>2, <2>3, <2>4, <2>5 DEF ShutdownStep
<1>4. CASE Signal \/ WatchThrows
  BY <1>4 DEF Signal, WatchThrows, Begin, StopLoop, Await, WatchFitsState,
     PollsForLeader, electionVars
<1>5. CASE LockGoes \/ UNCHANGED schedulerVars
  BY <1>5 DEF LockGoes, schedulerVars, pollVars, electionVars, shutdownVars,
     historyVars, WatchFitsState, PollsForLeader, Releasing
<1> QED  BY <1>1, <1>2, <1>3, <1>4, <1>5 DEF SchedulerNext

(* The poll loop runs for a leader only, or until the release of the lock is
   answered, unless the election was stopped while it awaited Redis. *)
THEOREM SchedulerPollsForLeader == SchedulerSpec => []PollsForLeader
<1>1. SchedulerInit => WatchFitsState /\ PollsForLeader
  BY DEF SchedulerInit, PollInit, WatchFitsState, PollsForLeader
<1>2. SchedulerInit /\ SchedulerTypeOK => LeaderInvariant
  BY <1>1 DEF LeaderInvariant
<1>3. LeaderInvariant => PollsForLeader
  BY DEF LeaderInvariant
<1> QED  BY <1>2, <1>3, LeaderStep, SchedulerTypesCorrect, PTL DEF SchedulerSpec

-----------------------------------------------------------------------------
(* Why the lock is free at the exit.  While nothing has failed, the lock is
   the leader's or about to be released; once a shutdown is past its drain
   nobody leads or watches any more; and Redis, which answers in order, is not
   closed before the release is answered. *)
Past == \E s \in Shutdowns : shutdown[s] \notin {"idle", "drain"}
Calm == faults = 0 /\ ~watchAtStop

LockIsLeaders == Calm /\ ours => state = "leader" \/ Releasing
ElectionOver  ==
  Calm /\ (Past \/ redis = "closed" \/ exited) => state # "leader" /\ watch = "none"
ReleaseFirst  == Calm /\ redis = "closed" => ~Releasing
RedisFirst    ==
  exited \/ (\E s \in Shutdowns : shutdown[s] = "mongo") => redis = "closed"

LockInvariant ==
  LeaderInvariant /\ LockIsLeaders /\ ElectionOver /\ ReleaseFirst /\ RedisFirst

(* Fewer faults are not to be had, and a call that rejects without a fault
   needs a client that is closed. *)
LEMMA CalmBefore ==
  ASSUME SchedulerTypeOK,
         UNCHANGED faults \/ Rejects \/ Fault, watchAtStop => watchAtStop', Calm'
  PROVE  /\ Calm
         /\ Rejects => redis = "closed"
         /\ ~Fault
<1>1. faults \in Nat
  BY SchedulerConstants DEF SchedulerTypeOK
<1> QED  BY <1>1 DEF Calm, Rejects, Fault

LEMMA LockStep ==
  LockInvariant /\ [SchedulerNext]_schedulerVars => LockInvariant'
<1> SUFFICES ASSUME LockInvariant, [SchedulerNext]_schedulerVars
             PROVE  LockIsLeaders' /\ ElectionOver' /\ ReleaseFirst' /\ RedisFirst'
  BY LeaderStep DEF LockInvariant
<1>0. /\ SchedulerTypeOK /\ WatchFitsState
      /\ LockIsLeaders /\ ElectionOver /\ ReleaseFirst /\ RedisFirst
  BY DEF LockInvariant, LeaderInvariant
<1> HIDE DEF LockInvariant
<1> USE <1>0
<1>1. CASE (\E c \in Chains : PollStep(c)) \/ (\E n \in 1 .. BatchSize : Settle(n))
  BY <1>1, PollStepFrame DEF LockIsLeaders, ElectionOver, ReleaseFirst, RedisFirst,
     Calm, Past, Releasing, electionVars, shutdownVars, historyVars
<1>2. CASE WatchStep /\ ~exited
  <2>1. UNCHANGED shutdownVars /\ (watchAtStop => watchAtStop')
          /\ (UNCHANGED faults \/ Rejects \/ Fault) /\ watch # "none"
    BY <1>2 DEF WatchStep, WatchFires, ExtendSucceeds, ExtendFails, Heartbeat, Check,
       Acquire, AcquireFails, Promote, historyVars, Rejects
  <2>2. UNCHANGED <<shutdown, redis, exited>>
    BY <2>1 DEF shutdownVars
  <2>3. Calm' => Calm /\ (Rejects => redis = "closed") /\ ~Fault
    BY <2>1, CalmBefore
  <2>4. Calm' => redis # "closed" /\ ~Past
    BY <2>1, <2>3 DEF ElectionOver
  <2>5. ElectionOver' /\ ReleaseFirst' /\ RedisFirst'
    BY <1>2, <2>2, <2>4 DEF ElectionOver, ReleaseFirst, RedisFirst, Past
  <2>6. LockIsLeaders'
    <3> SUFFICES ASSUME Calm', ours' PROVE state' = "leader"
      BY DEF LockIsLeaders
    <3>1. ~Releasing /\ (ours => state = "leader")
      BY <2>3, <2>4 DEF LockIsLeaders, Past, Releasing
    <3>2. /\ watch = "promote" => state = "leader"
          /\ watch \in {"check", "acquire"} => state # "leader"
      BY <2>3 DEF Calm, WatchFitsState
    <3> QED  BY <1>2, <2>3, <2>4, <3>1, <3>2 DEF WatchStep, WatchFires, ExtendSucceeds,
             ExtendFails, Heartbeat, Check, Acquire, AcquireFails, Promote
  <2> QED  BY <2>5, <2>6
<1>3. ASSUME NEW s \in Shutdowns, ShutdownStep(s)
      PROVE  LockIsLeaders' /\ ElectionOver' /\ ReleaseFirst' /\ RedisFirst'
  <2>0. ~exited
    BY <1>3 DEF ShutdownStep
  <2>1. CASE DrainEnds(s)
    <3>1. /\ shutdown[s] = "drain" /\ StopElection(s)
          /\ UNCHANGED <<ours, redis, exited, faults>>
      BY <2>1 DEF DrainEnds
    <3>2. shutdown'[s] = (IF state = "leader" THEN "release" ELSE "rabbit")
            /\ \A t \in Shutdowns \ {s} : shutdown'[t] = shutdown[t]
      BY <3>1 DEF StopElection, SchedulerTypeOK
    <3>3. Calm' => Calm /\ watch' = "none" /\ state' # "leader"
      BY <3>1, StopElectionReleases DEF Calm
    <3>4. LockIsLeaders'
      BY <3>1, <3>3, StopElectionReleases DEF LockIsLeaders
    <3>5. ReleaseFirst'
      BY <3>1, <3>2, <3>3 DEF ReleaseFirst, ElectionOver, Releasing
    <3>6. RedisFirst'
      BY <3>1, <3>2, <2>0 DEF RedisFirst
    <3> QED  BY <3>3, <3>4, <3>5, <3>6 DEF ElectionOver
  <2>2. CASE ReleaseReturns(s)
    <3>1. /\ shutdown[s] = "release" /\ shutdown'[s] = "rabbit"
          /\ \A t \in Shutdowns \ {s} : shutdown'[t] = shutdown[t]
          /\ UNCHANGED <<state, watch, redis, exited, watchAtStop>>
      BY <2>2 DEF ReleaseReturns, SchedulerTypeOK, historyVars
    <3>2. UNCHANGED faults \/ Rejects
      BY <2>2 DEF ReleaseReturns
    <3>3. Calm' => Calm /\ redis # "closed"
      BY <3>1, <3>2, CalmBefore DEF ReleaseFirst, Releasing
    <3>4. Calm' => ~ours'
      BY <2>2, <3>1, <3>2, <3>3, CalmBefore DEF ReleaseReturns
    <3>5. Past
      BY <3>1 DEF Past
    <3> QED  BY <2>0, <3>1, <3>3, <3>4, <3>5 DEF LockIsLeaders, ElectionOver, ReleaseFirst,
             RedisFirst
  <2>3. CASE RabbitReturns(s) \/ QuitReturns(s)
    <3>1. /\ shutdown[s] \in {"rabbit", "redis"} /\ shutdown'[s] \in {"redis", "mongo"}
          /\ \A t \in Shutdowns \ {s} : shutdown'[t] = shutdown[t]
          /\ UNCHANGED <<state, watch, ours, exited, faults, watchAtStop>>
      BY <2>3 DEF RabbitReturns, QuitReturns, SchedulerTypeOK, historyVars, electionVars
    <3>2. /\ shutdown'[s] = "mongo" => redis' = "closed"
          /\ redis = "closed" => redis' = "closed"
          /\ redis' = "closed" => redis = "closed" \/ ~Releasing
      BY <2>3, <3>1 DEF RabbitReturns, QuitReturns, SchedulerTypeOK
    <3>3. Past /\ (Releasing <=> Releasing')
      BY <3>1 DEF Past, Releasing
    <3>4. Calm' <=> Calm
      BY <3>1 DEF Calm
    <3> QED  BY <2>0, <3>1, <3>2, <3>3, <3>4 DEF LockIsLeaders, ElectionOver, ReleaseFirst,
             RedisFirst
  <2>4. CASE CloseFails(s)
    <3>1. /\ shutdown[s] \in {"redis", "mongo"} /\ shutdown'[s] = "drain"
          /\ \A t \in Shutdowns \ {s} : shutdown'[t] = shutdown[t]
          /\ UNCHANGED <<state, watch, ours, redis, exited, watchAtStop>>
          /\ Rejects \/ Fault
      BY <2>4 DEF CloseFails, Begin, SchedulerTypeOK, electionVars
    <3>2. Calm' => Calm
      BY <3>1, CalmBefore
    <3>3. Past /\ (Releasing <=> Releasing')
      BY <3>1 DEF Past, Releasing
    <3> QED  BY <2>0, <3>1, <3>2, <3>3 DEF LockIsLeaders, ElectionOver, ReleaseFirst,
             RedisFirst
  <2>5. CASE Exit(s)
    BY <2>5 DEF Exit, LockIsLeaders, ElectionOver, ReleaseFirst, RedisFirst, Calm, Past,
       Releasing, electionVars, historyVars
  <2> QED  BY <1>3, <2>1, <2>2, <2>3, <2>4, <2>5 DEF ShutdownStep
<1>4. CASE Signal \/ WatchThrows
  <2>1. PICK s \in Shutdowns : shutdown[s] = "idle" /\ Begin(s)
    BY <1>4 DEF Signal, WatchThrows
  <2>2. /\ shutdown'[s] = "drain"
        /\ \A t \in Shutdowns \ {s} : shutdown'[t] = shutdown[t]
    BY <2>1 DEF Begin, SchedulerTypeOK
  <2>3. /\ UNCHANGED <<state, ours, redis, exited, watchAtStop>>
        /\ watch' = watch \/ watch' = "none"
        /\ UNCHANGED faults \/ Rejects
    BY <1>4 DEF Signal, WatchThrows, electionVars, Await
  <2>4. Calm' => Calm
    BY <2>3, CalmBefore
  <2>5. (Releasing' <=> Releasing) /\ (Past' => Past)
    BY <2>1, <2>2 DEF Releasing, Past
  <2>6. (\E t \in Shutdowns : shutdown'[t] = "mongo")
          => \E t \in Shutdowns : shutdown[t] = "mongo"
    BY <2>2
  <2> QED  BY <2>3, <2>4, <2>5, <2>6 DEF LockIsLeaders, ElectionOver, ReleaseFirst,
           RedisFirst
<1>5. CASE LockGoes \/ UNCHANGED schedulerVars
  BY <1>5 DEF LockGoes, schedulerVars, electionVars, shutdownVars, historyVars,
     LockIsLeaders, ElectionOver, ReleaseFirst, RedisFirst, Calm, Past, Releasing
<1> QED  BY <1>1, <1>2, <1>3, <1>4, <1>5 DEF SchedulerNext, WatchStep

(* A process that exits leaves the lock to the others, unless a call failed or
   the watch loop awaited Redis when the election was stopped. *)
THEOREM SchedulerExitFreesLock == SchedulerSpec => []ExitFreesLock
<1>1. SchedulerInit => LockIsLeaders /\ ElectionOver /\ ReleaseFirst /\ RedisFirst
                         /\ WatchFitsState /\ PollsForLeader
  BY DEF SchedulerInit, PollInit, WatchFitsState, PollsForLeader, LockIsLeaders,
     ElectionOver, ReleaseFirst, RedisFirst, Calm, Past, Releasing
<1>2. SchedulerInit /\ SchedulerTypeOK => LockInvariant
  BY <1>1 DEF LockInvariant, LeaderInvariant
<1>3. LockInvariant => ExitFreesLock
  <2> SUFFICES ASSUME LockInvariant, exited, ours, faults = 0, ~watchAtStop PROVE FALSE
    BY SchedulerConstants DEF ExitFreesLock, LockInvariant, LeaderInvariant, SchedulerTypeOK
  <2>1. Calm /\ redis = "closed"
    BY DEF Calm, LockInvariant, RedisFirst
  <2> QED  BY <2>1 DEF LockInvariant, LockIsLeaders, ElectionOver, ReleaseFirst
<1> QED  BY <1>2, <1>3, LockStep, SchedulerTypesCorrect, PTL DEF SchedulerSpec

-----------------------------------------------------------------------------
(* Why the exit is quiet.  From the first shutdown on the loop is stopped, and
   a tick still at work was so when a shutdown began; past a drain that was not
   given up, that tick and what it dispatched share one batch. *)
LoopOver ==
  /\ exited => Begun
  /\ Begun /\ ~promotedLate /\ ~overlapped => ~running /\ (Ticking => tickAtStop)

Drained == (Past \/ exited) /\ ~timedOut /\ ~promotedLate /\ ~overlapped

OneBatchLeft ==
  Drained =>
    /\ activeJobs > 0 => tickAtStop /\ activeJobs <= BatchSize
    /\ \A c \in Chains :
         /\ At(c, "time") => activeJobs = 0
         /\ At(c, "dequeue") => activeJobs + chain[c].slots <= BatchSize

LEMMA PastIsBegun == Past => Begun
BY DEF Past, Begun

(* A step that stops or leaves the loop, settles batches or makes nothing of
   the chains keeps both, unless it ends a drain. *)
LEMMA QuietFrame ==
  ASSUME PollTypeOK, LoopOver, OneBatchLeft,
         \A c \in Chains : chain'[c] \in {chain[c], NoChain},
         activeJobs' \in Nat, activeJobs' <= activeJobs,
         running' => running /\ (Begun' => Begun),
         Ticking /\ Begun' /\ ~Begun => tickAtStop',
         exited' => exited \/ Past, Begun => Begun', Past' => Past,
         tickAtStop => tickAtStop', timedOut => timedOut',
         promotedLate => promotedLate', overlapped => overlapped'
  PROVE  LoopOver' /\ OneBatchLeft'
<1>1. \A c \in Chains :
        /\ At(c, "time")' => At(c, "time")
        /\ At(c, "dequeue")' => At(c, "dequeue") /\ chain'[c] = chain[c]
  BY DEF At, NoChain
<1>2. Ticking' => Ticking
  BY <1>1 DEF Ticking
<1>3. LoopOver'
  BY <1>2, PastIsBegun DEF LoopOver
<1>4. Drained' => Drained
  BY DEF Drained
<1>5. /\ activeJobs \in Nat /\ BatchSize \in Nat
      /\ \A c \in Chains : chain[c].slots \in Nat
  BY ChainTypes, PollLoopConstants DEF PollTypeOK
<1>6. ASSUME Drained
      PROVE  /\ activeJobs' > 0 => tickAtStop' /\ activeJobs' <= BatchSize
             /\ \A c \in Chains :
                  /\ At(c, "time")' => activeJobs' = 0
                  /\ At(c, "dequeue")' => activeJobs' + chain'[c].slots <= BatchSize
  <2>1. activeJobs' > 0 => tickAtStop' /\ activeJobs' <= BatchSize
    BY <1>5, <1>6 DEF OneBatchLeft
  <2>2. ASSUME NEW c \in Chains, At(c, "time")' PROVE activeJobs' = 0
    BY <1>1, <1>5, <1>6, <2>2 DEF OneBatchLeft
  <2>3. ASSUME NEW c \in Chains, At(c, "dequeue")'
        PROVE  activeJobs' + chain'[c].slots <= BatchSize
    <3>1. activeJobs + chain[c].slots <= BatchSize /\ chain'[c] = chain[c]
      BY <1>1, <1>6, <2>3 DEF OneBatchLeft
    <3> QED  BY <1>5, <3>1
  <2> QED  BY <2>1, <2>2, <2>3
<1>7. OneBatchLeft'
  BY <1>4, <1>6 DEF OneBatchLeft
<1> QED  BY <1>3, <1>7

LEMMA StopLoopClears ==
  ASSUME StopLoop
  PROVE  ~running' /\ \A c \in Chains : chain'[c] \in {chain[c], NoChain}
BY DEF StopLoop

LEMMA QuietStep ==
  /\ PollInvariant /\ SchedulerTypeOK /\ LoopOver /\ OneBatchLeft
  /\ [SchedulerNext]_schedulerVars
  => LoopOver' /\ OneBatchLeft'
<1> SUFFICES ASSUME PollInvariant, SchedulerTypeOK, LoopOver, OneBatchLeft,
                    [SchedulerNext]_schedulerVars
             PROVE  LoopOver' /\ OneBatchLeft'
  OBVIOUS
<1>0. PollTypeOK /\ OneChain /\ activeJobs \in Nat
  BY DEF PollInvariant, PollTypeOK
<1>1. ASSUME NEW c \in Chains, PollStep(c) PROVE LoopOver' /\ OneBatchLeft'
  <2>0. /\ UNCHANGED <<running, overlapped, exited, tickAtStop, timedOut, promotedLate>>
        /\ Begun' = Begun /\ (Past' <=> Past) /\ ~exited
    BY <1>1, PollStepFrame DEF Begun, Past, shutdownVars, historyVars
  <2>1. Alive(c) /\ \A d \in Chains \ {c} : chain'[d] = chain[d]
    BY <1>0, <1>1 DEF PollStep, TimerFires, TimeReturns, TimeFails, DequeueReturns,
       DequeueFails, ScheduleNext, NextType, Alive, At, PollTypeOK
  <2>2. SUFFICES ASSUME Begun, ~promotedLate, ~overlapped
                 PROVE  /\ Ticking' => tickAtStop
                        /\ Drained => OneBatchLeft'
    BY <2>0, PastIsBegun DEF LoopOver, OneBatchLeft, Drained
  <2>3. /\ ~running /\ (Ticking => tickAtStop)
        /\ \A d \in Chains : ~At(d, "timer")
        /\ \A d \in Chains \ {c} : ~Alive(d)
    BY <1>0, <2>1, <2>2 DEF LoopOver, OneChain
  <2>4. Ticking /\ tickAtStop
    BY <1>0, <2>1, <2>3, ChainTypes DEF Ticking, Alive, At
  <2>5. ScheduleNext(c) => chain'[c] = NoChain
    BY <1>0, <2>3 DEF ScheduleNext, PollTypeOK
  <2>6. SUFFICES ASSUME Drained
                 PROVE  /\ activeJobs' \in Nat /\ activeJobs' <= BatchSize
                        /\ At(c, "time")' => activeJobs' = 0
                        /\ At(c, "dequeue")' => activeJobs' + chain'[c].slots <= BatchSize
    BY <2>0, <2>1, <2>3, <2>4 DEF OneBatchLeft, Alive, At
  <2>7. /\ activeJobs <= BatchSize /\ chain[c].slots \in Nat /\ BatchSize \in Nat
        /\ At(c, "time") => activeJobs = 0
        /\ At(c, "dequeue") => activeJobs + chain[c].slots <= BatchSize
    <3>1. chain[c].slots \in Nat /\ BatchSize \in Nat
      BY <1>0, ChainTypes, PollLoopConstants
    <3>2. activeJobs <= BatchSize
      BY <1>0, <2>6, <3>1 DEF OneBatchLeft
    <3> QED  BY <2>6, <3>1, <3>2 DEF OneBatchLeft
  <2>8. NoChain.at = "none"
    BY DEF NoChain
  <2>9. CASE TimeReturns(c)
    <3>1. chain'[c].slots = AtMost(chain[c].slots, BatchSize) /\ chain'[c].at = "dequeue"
      BY <1>0, <2>9 DEF TimeReturns, Dequeuing, PollTypeOK
    <3> QED  BY <1>0, <2>7, <2>9, <3>1 DEF TimeReturns, AtMost, At
  <2>10. CASE TimeFails(c)
    BY <1>0, <2>5, <2>7, <2>8, <2>10 DEF TimeFails, At
  <2>11. ASSUME NEW left \in Nat, NextType(c, left)
         PROVE  /\ ~At(c, "time")'
                /\ At(c, "dequeue")' => chain'[c].slots = left
    BY <1>0, <2>5, <2>8, <2>11 DEF NextType, Dequeuing, At, PollTypeOK
  <2>12. ASSUME NEW n \in 0 .. BatchSize, DequeueReturns(c, n)
         PROVE  /\ activeJobs' \in Nat /\ activeJobs' <= BatchSize
                /\ At(c, "time")' => activeJobs' = 0
                /\ At(c, "dequeue")' => activeJobs' + chain'[c].slots <= BatchSize
    <3>1. /\ chain[c].slots - n \in Nat /\ n \in Nat /\ n <= chain[c].slots
          /\ activeJobs' = activeJobs + n /\ NextType(c, chain[c].slots - n)
          /\ At(c, "dequeue")
      BY <2>7, <2>12 DEF DequeueReturns
    <3>2. /\ ~At(c, "time")'
          /\ At(c, "dequeue")' => chain'[c].slots = chain[c].slots - n
      BY <2>11, <3>1
    <3> QED  BY <1>0, <2>7, <3>1, <3>2
  <2>13. CASE DequeueFails(c)
    BY <1>0, <2>7, <2>11, <2>13 DEF DequeueFails
  <2>14. ~TimerFires(c)
    BY <2>3 DEF TimerFires
  <2> QED  BY <1>1, <2>9, <2>10, <2>12, <2>13, <2>14 DEF PollStep
<1>2. ASSUME NEW n \in 1 .. BatchSize, Settle(n) PROVE LoopOver' /\ OneBatchLeft'
  <2>1. /\ UNCHANGED <<running, overlapped, exited, tickAtStop, timedOut, promotedLate>>
        /\ Begun' = Begun /\ (Past' <=> Past)
    BY <1>2, PollStepFrame DEF Begun, Past, shutdownVars, historyVars
  <2>2. activeJobs' \in Nat /\ activeJobs' <= activeJobs /\ UNCHANGED chain
    BY <1>0, <1>2, PollLoopConstants DEF Settle, BatchSettles
  <2> QED  BY <1>0, <2>1, <2>2, QuietFrame
<1>3. CASE WatchStep
  <2>1. UNCHANGED <<shutdown, exited, tickAtStop, timedOut>>
        /\ (promotedLate => promotedLate') /\ Begun' = Begun /\ (Past' <=> Past)
    <3>1. /\ UNCHANGED shutdownVars
          /\ UNCHANGED <<tickAtStop, timedOut>> /\ (promotedLate => promotedLate')
      <4>1. CASE Promote
        BY <4>1 DEF Promote
      <4>2. CASE ~Promote
        <5>1. UNCHANGED <<shutdownVars, historyVars>>
          BY <1>3, <4>2 DEF WatchStep, WatchFires, ExtendSucceeds, ExtendFails,
             Heartbeat, Check, Acquire, AcquireFails
        <5> QED  BY <5>1 DEF historyVars
      <4> QED  BY <4>1, <4>2
    <3> QED  BY <3>1 DEF shutdownVars, Begun, Past
  <2>2. CASE Promote
    <3>1. CASE Begun
      BY <2>1, <2>2, <3>1 DEF Promote, LoopOver, OneBatchLeft, Drained
    <3>2. CASE ~Begun
      BY <2>1, <3>2, PastIsBegun DEF LoopOver, OneBatchLeft, Drained
    <3> QED  BY <3>1, <3>2
  <2>3. CASE ExtendFails
    <3>1. StopLoop /\ UNCHANGED <<activeJobs, overlapped, promotedLate>>
      BY <2>3 DEF ExtendFails, historyVars
    <3> QED  BY <1>0, <2>1, <3>1, StopLoopClears, QuietFrame
  <2>4. CASE UNCHANGED <<pollVars, promotedLate>>
    BY <1>0, <2>1, <2>4, QuietFrame DEF pollVars
  <2> QED  BY <1>3, <2>2, <2>3, <2>4 DEF WatchStep, WatchFires, ExtendSucceeds,
           Heartbeat, Check, Acquire, AcquireFails, historyVars
<1>4. ASSUME NEW s \in Shutdowns, Begin(s),
             shutdown[s] = "idle" \/ Past,
             UNCHANGED <<activeJobs, overlapped, exited, promotedLate, timedOut>>
      PROVE  LoopOver' /\ OneBatchLeft'
  <2>1. /\ shutdown'[s] = "drain"
        /\ \A t \in Shutdowns \ {s} : shutdown'[t] = shutdown[t]
    BY <1>4 DEF Begin, SchedulerTypeOK
  <2>2. Begun' /\ (Past' => Past)
    BY <2>1 DEF Begun, Past
  <2>3. (tickAtStop \/ Ticking => tickAtStop') /\ StopLoop
    BY <1>4 DEF Begin
  <2>4. ~running' /\ \A c \in Chains : chain'[c] \in {chain[c], NoChain}
    BY <2>3, StopLoopClears
  <2>5. activeJobs' \in Nat /\ activeJobs' <= activeJobs
    BY <1>0, <1>4
  <2> QED  BY <1>0, <1>4, <2>2, <2>3, <2>4, <2>5, QuietFrame
<1>5. ASSUME NEW s \in Shutdowns, ShutdownStep(s) PROVE LoopOver' /\ OneBatchLeft'
  <2>1. CASE DrainEnds(s)
    <3>1. /\ shutdown[s] = "drain" /\ StopElection(s)
          /\ activeJobs = 0 \/ timedOut'
          /\ timedOut => timedOut'
          /\ UNCHANGED <<running, chain, activeJobs, overlapped, exited, tickAtStop,
                         promotedLate>>
      BY <2>1 DEF DrainEnds, pollVars
    <3>2. Begun /\ Begun'
      BY <3>1 DEF Begun, StopElection, SchedulerTypeOK
    <3>3. LoopOver'
      BY <3>1, <3>2 DEF LoopOver, Ticking, At
    <3>4. OneBatchLeft'
      <4> SUFFICES ASSUME Drained' PROVE OneBatchLeft'
        BY DEF OneBatchLeft
      <4>1. activeJobs = 0
        BY <3>1 DEF Drained
      <4>2. \A c \in Chains : At(c, "dequeue") => chain[c].slots \in 1 .. BatchSize
        BY <1>0, ChainTypes
      <4> QED  BY <3>1, <4>1, <4>2, PollLoopConstants DEF OneBatchLeft, At
    <3> QED  BY <3>3, <3>4
  <2>2. CASE CloseFails(s)
    BY <1>4, <2>2 DEF CloseFails, Past
  <2>3. CASE ReleaseReturns(s)
    <3>1. /\ shutdown[s] = "release" /\ shutdown'[s] = "rabbit"
          /\ \A t \in Shutdowns \ {s} : shutdown'[t] = shutdown[t]
          /\ UNCHANGED <<activeJobs, overlapped, exited, tickAtStop, timedOut, promotedLate>>
          /\ StopLoop
      BY <2>3 DEF ReleaseReturns, SchedulerTypeOK, historyVars
    <3>2. Begun /\ Begun' /\ Past
      BY <3>1 DEF Begun, Past
    <3> QED  BY <1>0, <3>1, <3>2, StopLoopClears, QuietFrame
  <2>4. CASE RabbitReturns(s) \/ QuitReturns(s)
    <3>1. /\ shutdown[s] \in {"rabbit", "redis"} /\ shutdown'[s] \in {"redis", "mongo"}
          /\ UNCHANGED <<running, chain, activeJobs, overlapped, exited, tickAtStop,
                         timedOut, promotedLate>>
      BY <2>4 DEF RabbitReturns, QuitReturns, SchedulerTypeOK, historyVars, pollVars
    <3>2. Begun /\ Begun' /\ Past
      BY <3>1 DEF Begun, Past
    <3> QED  BY <1>0, <3>1, <3>2, QuietFrame
  <2>5. CASE Exit(s)
    <3>1. /\ shutdown[s] = "mongo" /\ UNCHANGED shutdown
          /\ UNCHANGED <<running, chain, activeJobs, overlapped, tickAtStop, timedOut,
                         promotedLate>>
      BY <2>5 DEF Exit, historyVars, pollVars
    <3>2. Begun /\ Begun' /\ Past
      BY <3>1 DEF Begun, Past
    <3> QED  BY <1>0, <3>1, <3>2, QuietFrame
  <2> QED  BY <1>5, <2>1, <2>2, <2>3, <2>4, <2>5 DEF ShutdownStep
<1>6. CASE Signal \/ WatchThrows
  BY <1>4, <1>6 DEF Signal, WatchThrows
<1>7. CASE LockGoes \/ UNCHANGED schedulerVars
  BY <1>0, <1>7, QuietFrame DEF LockGoes, schedulerVars, pollVars, shutdownVars,
     historyVars, Begun, Past
<1> QED  BY <1>1, <1>2, <1>3, <1>5, <1>6, <1>7 DEF SchedulerNext

(* The exit cuts off jobs only if the drain was given up, if the loop was
   started again, or if one batch of a tick came after the drain. *)
THEOREM SchedulerExitIsQuiet == SchedulerSpec => []ExitIsQuiet
<1>1. SchedulerInit => LoopOver /\ OneBatchLeft
  BY DEF SchedulerInit, PollInit, LoopOver, OneBatchLeft, Drained, Begun, Past
<1>2. LoopOver /\ OneBatchLeft => ExitIsQuiet
  BY DEF OneBatchLeft, Drained, ExitIsQuiet
<1> QED  BY <1>1, <1>2, QuietStep, SchedulerPollInvariant, SchedulerTypesCorrect, PTL
         DEF SchedulerSpec
=============================================================================
