---------------------------- MODULE PollLoopProofs ----------------------------
(***************************************************************************)
(* Proofs about PollLoop, for any number of chains, job types and batch    *)
(* size, and any capacity and backpressure gate.                           *)
(***************************************************************************)
EXTENDS PollLoop, Induction, TLAPS

-----------------------------------------------------------------------------
(* A loop that was never started during a tick has at most one chain alive,
   and its timer, if one is set, is the one the object remembers. *)
OneChain ==
  ~overlapped =>
    /\ \A c, d \in Chains : Alive(c) /\ Alive(d) => c = d
    /\ \A c \in Chains : At(c, "timer") => running /\ timer = c

PollInvariant == PollTypeOK /\ OneChain /\ WithinCapacity

LEMMA PollLoopConstants ==
  /\ Types \in Nat /\ Types >= 1 /\ BatchSize \in Nat /\ BatchSize >= 1
  /\ MaxConcurrent \in Nat /\ MinFree \in Nat /\ MinFree >= 1
  /\ None \notin Chains
BY PollConstants, PollNone

(* What a chain waits for, and the slots it holds. *)
LEMMA ChainTypes ==
  ASSUME PollTypeOK, NEW c \in Chains
  PROVE  /\ chain[c].at \in {"none", "timer", "time", "dequeue"}
         /\ chain[c].slots \in Nat /\ chain[c].type \in Nat
         /\ At(c, "time") => chain[c].slots \in MinFree .. MaxConcurrent
         /\ At(c, "dequeue") => /\ chain[c].slots \in 1 .. BatchSize
                                /\ chain[c].type \in 1 .. Types
<1>1. \/ chain[c] \in {NoChain, Armed}
      \/ \E k \in MinFree .. MaxConcurrent : chain[c] = AskingTime(k)
      \/ \E t \in 1 .. Types, k \in 1 .. BatchSize : chain[c] = Dequeuing(t, k)
  BY DEF PollTypeOK
<1> USE PollLoopConstants DEF At
<1>2. CASE chain[c] \in {NoChain, Armed}
  BY <1>2 DEF NoChain, Armed
<1>3. ASSUME NEW k \in MinFree .. MaxConcurrent, chain[c] = AskingTime(k)
      PROVE  chain[c].at = "time" /\ chain[c].slots = k /\ chain[c].type = 0
  BY <1>3 DEF AskingTime
<1>4. ASSUME NEW t \in 1 .. Types, NEW k \in 1 .. BatchSize,
             chain[c] = Dequeuing(t, k)
      PROVE  chain[c].at = "dequeue" /\ chain[c].slots = k /\ chain[c].type = t
  BY <1>4 DEF Dequeuing
<1> QED  BY <1>1, <1>2, <1>3, <1>4

ChainStates == {NoChain, Armed} \cup {AskingTime(k) : k \in MinFree .. MaxConcurrent}
                 \cup {Dequeuing(t, k) : t \in 1 .. Types, k \in 1 .. BatchSize}

(* scheduleNextTick and the loop over the job types keep the types. *)
LEMMA ScheduleTypes ==
  ASSUME PollTypeOK, NEW c \in Chains, ScheduleNext(c)
  PROVE  chain' \in [Chains -> ChainStates] /\ timer' \in Chains \cup {None}
BY DEF PollTypeOK, ScheduleNext, ChainStates

LEMMA NextTypeTypes ==
  ASSUME PollTypeOK, NEW c \in Chains, At(c, "dequeue"),
         NEW left \in 0 .. BatchSize, NextType(c, left)
  PROVE  chain' \in [Chains -> ChainStates] /\ timer' \in Chains \cup {None}
<1>1. CASE left > 0 /\ chain[c].type < Types
  <2>1. chain[c].type + 1 \in 1 .. Types /\ left \in 1 .. BatchSize
    BY <1>1, ChainTypes, PollLoopConstants
  <2>2. Dequeuing(chain[c].type + 1, left) \in ChainStates
    BY <2>1 DEF ChainStates
  <2> QED  BY <1>1, <2>2 DEF NextType, PollTypeOK, ChainStates
<1>2. CASE ~(left > 0 /\ chain[c].type < Types)
  BY <1>2, ScheduleTypes DEF NextType
<1> QED  BY <1>1, <1>2

LEMMA PollTypeStep == PollTypeOK /\ [PollNext]_pollVars => PollTypeOK'
<1> SUFFICES ASSUME PollTypeOK, [PollNext]_pollVars PROVE PollTypeOK'
  OBVIOUS
<1>0. chain \in [Chains -> ChainStates]
  BY DEF PollTypeOK, ChainStates
<1>a. chain' \in [Chains -> ChainStates] /\ running' \in BOOLEAN
        /\ activeJobs' \in Nat /\ timer' \in Chains \cup {None}
        /\ inflight' \in [1 .. BatchSize -> Nat]
        /\ overlapped' \in BOOLEAN
      => PollTypeOK'
  BY DEF PollTypeOK, ChainStates
<1>1. CASE Start
  <2>1. Armed \in ChainStates
    BY DEF ChainStates
  <2>2. PICK c \in Chains : /\ chain' = [chain EXCEPT ![c] = Armed]
                            /\ timer' = c
    BY <1>1 DEF Start
  <2>3. chain' \in [Chains -> ChainStates] /\ timer' \in Chains
    BY <1>0, <2>1, <2>2
  <2>4. running' \in BOOLEAN /\ overlapped' \in BOOLEAN
    BY <1>1 DEF Start
  <2> QED  BY <1>1, <2>3, <2>4, <1>a DEF Start, PollTypeOK
<1>2. CASE Stop
  <2>1. NoChain \in ChainStates
    BY DEF ChainStates
  <2>2. StopLoop
    BY <1>2 DEF Stop
  <2>3. /\ chain' \in [Chains -> ChainStates] /\ timer' \in Chains \cup {None}
        /\ running' \in BOOLEAN
    BY <1>0, <2>1, <2>2 DEF StopLoop
  <2> QED  BY <1>2, <2>3, <1>a DEF Stop, PollTypeOK
<1>3. ASSUME NEW c \in Chains, TickStep(c) PROVE PollTypeOK'
  <2>1. CASE TimerFires(c)
    <3>1. CASE Backpressure
      BY <2>1, <3>1, <1>a, ScheduleTypes DEF TimerFires, PollTypeOK
    <3>2. CASE ~Backpressure
      <4>1. Free \in MinFree .. MaxConcurrent
        BY <3>2, PollLoopConstants DEF Backpressure, Free, PollTypeOK
      <4>2. AskingTime(Free) \in ChainStates
        BY <4>1 DEF ChainStates
      <4> QED  BY <1>0, <2>1, <3>2, <4>2, <1>a DEF TimerFires, PollTypeOK
    <3> QED  BY <3>1, <3>2
  <2>2. CASE TimeReturns(c)
    <3>1. AtMost(chain[c].slots, BatchSize) \in 1 .. BatchSize /\ 1 \in 1 .. Types
      BY <2>2, ChainTypes, PollLoopConstants DEF TimeReturns, AtMost
    <3>2. Dequeuing(1, AtMost(chain[c].slots, BatchSize)) \in ChainStates
      BY <3>1 DEF ChainStates
    <3> QED  BY <1>0, <2>2, <3>2, <1>a DEF TimeReturns, PollTypeOK
  <2>3. CASE TimeFails(c)
    BY <2>3, <1>a, ScheduleTypes DEF TimeFails, PollTypeOK
  <2>4. ASSUME NEW n \in 0 .. BatchSize, DequeueReturns(c, n) PROVE PollTypeOK'
    <3>1. chain[c].slots - n \in 0 .. BatchSize
      BY <2>4, ChainTypes, PollLoopConstants DEF DequeueReturns
    <3>2. chain' \in [Chains -> ChainStates] /\ timer' \in Chains \cup {None}
      BY <2>4, <3>1, NextTypeTypes DEF DequeueReturns
    <3>3. activeJobs' \in Nat /\ inflight' \in [1 .. BatchSize -> Nat]
      BY <2>4, PollLoopConstants DEF DequeueReturns, PollTypeOK
    <3> QED  BY <2>4, <3>2, <3>3, <1>a DEF DequeueReturns, PollTypeOK
  <2>5. CASE DequeueFails(c)
    <3>1. chain[c].slots \in 0 .. BatchSize
      BY <2>5, ChainTypes, PollLoopConstants DEF DequeueFails
    <3> QED  BY <2>5, <3>1, <1>a, NextTypeTypes DEF DequeueFails, PollTypeOK
  <2> QED  BY <1>3, <2>1, <2>2, <2>3, <2>4, <2>5 DEF TickStep
<1>4. ASSUME NEW n \in 1 .. BatchSize, BatchSettles(n) PROVE PollTypeOK'
  <2>1. inflight' \in [1 .. BatchSize -> Nat] /\ activeJobs' \in Nat
    BY <1>4, PollLoopConstants DEF BatchSettles, PollTypeOK
  <2> QED  BY <1>0, <1>4, <2>1, <1>a DEF BatchSettles, PollTypeOK
<1>5. CASE UNCHANGED pollVars
  BY <1>5 DEF pollVars, PollTypeOK
<1> QED  BY <1>1, <1>2, <1>3, <1>4, <1>5 DEF PollNext

-----------------------------------------------------------------------------
(* One chain alive, and its timer remembered: what a step makes of chain and
   timer is enough to see it. *)
LEMMA ScheduleOneChain ==
  ASSUME PollTypeOK, OneChain, NEW c \in Chains, Alive(c), ScheduleNext(c),
         UNCHANGED <<running, overlapped>>
  PROVE  OneChain'
BY DEF PollTypeOK, OneChain, ScheduleNext, Alive, At, Armed, NoChain

LEMMA OneChainStep ==
  PollTypeOK /\ OneChain /\ [PollNext]_pollVars => OneChain'
<1> SUFFICES ASSUME PollTypeOK, OneChain, [PollNext]_pollVars PROVE OneChain'
  OBVIOUS
<1>1. CASE Start
  <2>1. PICK c \in Chains : /\ chain' = [chain EXCEPT ![c] = Armed]
                            /\ timer' = c
    BY <1>1 DEF Start
  <2>2. running' /\ (~overlapped' => \A d \in Chains : ~Alive(d))
    BY <1>1 DEF Start
  <2>3. chain'[c] = Armed /\ \A d \in Chains \ {c} : chain'[d] = chain[d]
    BY <2>1 DEF PollTypeOK
  <2> QED  BY <2>1, <2>2, <2>3 DEF OneChain, Alive, At
<1>2. CASE Stop
  <2>1. StopLoop /\ UNCHANGED overlapped
    BY <1>2 DEF Stop
  <2> QED  BY <2>1 DEF StopLoop, OneChain, Alive, At, NoChain, PollTypeOK
<1>3. ASSUME NEW c \in Chains, TickStep(c) PROVE OneChain'
  <2>0. Alive(c) /\ UNCHANGED <<running, overlapped>>
    BY <1>3 DEF TickStep, TimerFires, TimeReturns, TimeFails, DequeueReturns,
                DequeueFails, Alive, At
  <2>1. CASE ScheduleNext(c)
    BY <2>0, <2>1, ScheduleOneChain
  <2>2. ASSUME At(c, "time")' \/ At(c, "dequeue")', UNCHANGED timer,
               \A d \in Chains \ {c} : chain'[d] = chain[d]
        PROVE  OneChain'
    BY <2>0, <2>2 DEF OneChain, Alive, At
  <2>3. CASE TimerFires(c)
    <3>1. CASE Backpressure
      BY <2>1, <2>3, <3>1 DEF TimerFires
    <3>2. CASE ~Backpressure
      BY <2>2, <2>3, <3>2 DEF TimerFires, AskingTime, At, PollTypeOK
    <3> QED  BY <3>1, <3>2
  <2>4. CASE TimeReturns(c)
    BY <2>2, <2>4 DEF TimeReturns, Dequeuing, At, PollTypeOK
  <2>5. CASE TimeFails(c)
    BY <2>1, <2>5 DEF TimeFails
  <2>6. ASSUME NEW left \in Nat, NextType(c, left) PROVE OneChain'
    <3>1. CASE left > 0 /\ chain[c].type < Types
      BY <2>2, <2>6, <3>1 DEF NextType, Dequeuing, At, PollTypeOK
    <3>2. CASE ~(left > 0 /\ chain[c].type < Types)
      BY <2>1, <2>6, <3>2 DEF NextType
    <3> QED  BY <3>1, <3>2
  <2>7. ASSUME NEW n \in 0 .. BatchSize, DequeueReturns(c, n) PROVE OneChain'
    <3>1. chain[c].slots - n \in Nat
      BY <2>7, ChainTypes, PollLoopConstants DEF DequeueReturns
    <3> QED  BY <2>6, <2>7, <3>1 DEF DequeueReturns
  <2>8. CASE DequeueFails(c)
    BY <2>6, <2>8, ChainTypes DEF DequeueFails
  <2> QED  BY <1>3, <2>3, <2>4, <2>5, <2>7, <2>8 DEF TickStep
<1>4. CASE (\E n \in 1 .. BatchSize : BatchSettles(n)) \/ UNCHANGED pollVars
  BY <1>4 DEF BatchSettles, pollVars, OneChain, Alive, At
<1> QED  BY <1>1, <1>2, <1>3, <1>4 DEF PollNext

-----------------------------------------------------------------------------
(* The jobs in execution and the slots a tick holds fit together. *)
LEMMA CapacityStep ==
  PollInvariant /\ [PollNext]_pollVars => WithinCapacity'
<1> SUFFICES ASSUME PollInvariant, [PollNext]_pollVars, ~overlapped'
             PROVE  /\ activeJobs' <= MaxConcurrent
                    /\ \A c \in Chains :
                         At(c, "time")' \/ At(c, "dequeue")' =>
                           activeJobs' + chain'[c].slots <= MaxConcurrent
  BY DEF WithinCapacity
<1>0. /\ ~overlapped /\ PollTypeOK /\ activeJobs <= MaxConcurrent
      /\ \A c \in Chains : At(c, "time") \/ At(c, "dequeue") =>
           activeJobs + chain[c].slots <= MaxConcurrent
      /\ \A c, d \in Chains : Alive(c) /\ Alive(d) => c = d
      /\ activeJobs \in Nat
  <2>1. overlapped => overlapped'
    BY DEF PollNext, Start, Stop, TickStep, TimerFires, TimeReturns, TimeFails,
           DequeueReturns, DequeueFails, BatchSettles, pollVars
  <2> QED  BY <2>1 DEF PollInvariant, PollTypeOK, WithinCapacity, OneChain
<1> HIDE DEF PollInvariant
<1>c. \A c \in Chains : chain[c].slots \in Nat
  BY <1>0, ChainTypes
<1>1. CASE Start
  BY <1>0, <1>1 DEF Start, At, Armed, NoChain, PollTypeOK
<1>2. CASE Stop
  BY <1>0, <1>2 DEF Stop, StopLoop, At, NoChain
<1>3. ASSUME NEW c \in Chains, TickStep(c)
      PROVE  /\ activeJobs' <= MaxConcurrent
             /\ \A d \in Chains :
                  At(d, "time")' \/ At(d, "dequeue")' =>
                    activeJobs' + chain'[d].slots <= MaxConcurrent
  <2>0. Alive(c) /\ \A d \in Chains \ {c} : ~Alive(d) /\ chain'[d] = chain[d]
    BY <1>0, <1>3 DEF TickStep, TimerFires, TimeReturns, TimeFails, DequeueReturns,
         DequeueFails, ScheduleNext, NextType, Alive, At, PollTypeOK
  <2>1. ASSUME activeJobs' <= MaxConcurrent,
               At(c, "time")' \/ At(c, "dequeue")' =>
                 activeJobs' + chain'[c].slots <= MaxConcurrent
        PROVE  /\ activeJobs' <= MaxConcurrent
               /\ \A d \in Chains :
                    At(d, "time")' \/ At(d, "dequeue")' =>
                      activeJobs' + chain'[d].slots <= MaxConcurrent
    BY <2>0, <2>1 DEF Alive, At
  <2>2. ScheduleNext(c) => ~At(c, "time")' /\ ~At(c, "dequeue")'
    BY <1>0 DEF ScheduleNext, At, Armed, NoChain, PollTypeOK
  <2>3. CASE TimerFires(c)
    <3>1. CASE Backpressure
      BY <1>0, <2>1, <2>2, <2>3, <3>1 DEF TimerFires
    <3>2. CASE ~Backpressure
      <4>1. chain'[c].slots = MaxConcurrent - activeJobs
        BY <1>0, <2>3, <3>2 DEF TimerFires, AskingTime, Free, PollTypeOK
      <4> QED  BY <1>0, <2>1, <2>3, <4>1, PollLoopConstants DEF TimerFires
    <3> QED  BY <3>1, <3>2
  <2>4. CASE TimeReturns(c)
    <3>1. chain'[c].slots = AtMost(chain[c].slots, BatchSize)
      BY <1>0, <2>4 DEF TimeReturns, Dequeuing, PollTypeOK
    <3>2. chain'[c].slots <= chain[c].slots /\ chain'[c].slots \in Nat
      BY <1>c, <3>1, PollLoopConstants DEF AtMost
    <3> QED
      BY <1>0, <1>c, <2>1, <2>4, <3>2, PollLoopConstants DEF TimeReturns
  <2>5. CASE TimeFails(c)
    BY <1>0, <2>1, <2>2, <2>5 DEF TimeFails
  <2>6. ASSUME NEW left \in Nat, NextType(c, left)
        PROVE  At(c, "time")' \/ At(c, "dequeue")' => chain'[c].slots = left
    BY <1>0, <2>2, <2>6 DEF NextType, Dequeuing, PollTypeOK
  <2>7. ASSUME NEW n \in 0 .. BatchSize, DequeueReturns(c, n)
        PROVE  /\ activeJobs' <= MaxConcurrent
               /\ At(c, "time")' \/ At(c, "dequeue")' =>
                    activeJobs' + chain'[c].slots <= MaxConcurrent
    <3>1. /\ n <= chain[c].slots /\ chain[c].slots - n \in Nat
          /\ activeJobs + chain[c].slots <= MaxConcurrent
      BY <1>0, <1>c, <2>7, PollLoopConstants DEF DequeueReturns
    <3>2. activeJobs' = activeJobs + n
      BY <2>7 DEF DequeueReturns
    <3>3. At(c, "time")' \/ At(c, "dequeue")' => chain'[c].slots = chain[c].slots - n
      BY <2>6, <2>7, <3>1 DEF DequeueReturns
    <3> QED  BY <1>0, <1>c, <3>1, <3>2, <3>3, PollLoopConstants
  <2>8. CASE DequeueFails(c)
    BY <1>0, <1>c, <2>1, <2>6, <2>8 DEF DequeueFails
  <2> QED  BY <1>3, <2>1, <2>3, <2>4, <2>5, <2>7, <2>8 DEF TickStep
<1>4. CASE \E n \in 1 .. BatchSize : BatchSettles(n)
  <2>1. activeJobs' <= activeJobs /\ activeJobs' \in Nat /\ UNCHANGED chain
    BY <1>0, <1>4, PollLoopConstants DEF BatchSettles
  <2> QED  BY <1>0, <1>c, <2>1, PollLoopConstants DEF At
<1>5. CASE UNCHANGED pollVars
  BY <1>0, <1>5 DEF pollVars, At
<1> QED  BY <1>1, <1>2, <1>3, <1>4, <1>5 DEF PollNext

-----------------------------------------------------------------------------
LEMMA PollInvariantHolds == PollSpec => []PollInvariant
<1>1. PollInit => PollInvariant
  <2> SUFFICES ASSUME PollInit PROVE PollInvariant
    OBVIOUS
  <2>1. PollTypeOK
    <3>1. chain \in [Chains -> {NoChain, Armed}]
      BY DEF PollInit
    <3>2. chain \in [Chains -> ChainStates]
      BY <3>1 DEF ChainStates
    <3>3. inflight \in [1 .. BatchSize -> Nat]
      BY DEF PollInit
    <3>4. /\ running \in BOOLEAN /\ activeJobs \in Nat
          /\ timer \in Chains \cup {None} /\ overlapped \in BOOLEAN
      BY DEF PollInit
    <3> QED  BY <3>2, <3>3, <3>4 DEF PollTypeOK, ChainStates
  <2>2. OneChain /\ WithinCapacity
    BY PollLoopConstants DEF PollInit, OneChain, WithinCapacity, Alive, At, NoChain
  <2> QED  BY <2>1, <2>2 DEF PollInvariant
<1>2. PollInvariant /\ [PollNext]_pollVars => PollInvariant'
  BY PollTypeStep, OneChainStep, CapacityStep DEF PollInvariant
<1> QED  BY <1>1, <1>2, PTL DEF PollSpec

(* The variables of the poll loop keep their types; a tick never holds slots
   outside what the gate and POLL_BATCH_SIZE allow. *)
THEOREM PollTypesCorrect == PollSpec => []PollTypeOK
<1>1. PollInvariant => PollTypeOK
  BY DEF PollInvariant
<1> QED  BY <1>1, PollInvariantHolds, PTL

(* The backpressure gate keeps a loop that was never started during one of its
   ticks within MAX_CONCURRENT_JOBS, whatever is awaited in between. *)
THEOREM WithinCapacityHolds == PollSpec => []WithinCapacity
<1>1. PollInvariant => WithinCapacity
  BY DEF PollInvariant
<1> QED  BY <1>1, PollInvariantHolds, PTL

(* stop leaves no timer behind in such a loop. *)
THEOREM StoppedIsQuietHolds == PollSpec => []StoppedIsQuiet
<1>1. PollInvariant => StoppedIsQuiet
  BY DEF PollInvariant, OneChain, StoppedIsQuiet
<1> QED  BY <1>1, PollInvariantHolds, PTL
-----------------------------------------------------------------------------
(* The jobs of a count of batches, size by size: a batch more is as many jobs
   more as it is large. *)
JobsOf(h) == [n \in 1 .. BatchSize |-> n * h[n]]
JobsIn(h) == SumFunction(JobsOf(h))

LEMMA JobsAreNumbers ==
  ASSUME NEW h \in [1 .. BatchSize -> Nat]
  PROVE  JobsOf(h) \in [1 .. BatchSize -> Nat]
<1>1. ASSUME NEW n \in 1 .. BatchSize PROVE n * h[n] \in Nat
  <2>1. n \in Nat /\ h[n] \in Nat
    BY PollLoopConstants
  <2>2. \A a, b \in Nat : a * b \in Nat
    OBVIOUS
  <2> QED BY <2>1, <2>2
<1> QED
  BY <1>1 DEF JobsOf

LEMMA SumOfBatches ==
  ASSUME NEW f \in [1 .. BatchSize -> Nat], NEW g \in [1 .. BatchSize -> Nat],
         NEW n \in 1 .. BatchSize, OneGrows(f, g, 1 .. BatchSize, n, n)
  PROVE  SumFunction(f) \in Nat /\ SumFunction(g) = SumFunction(f) + n
<1> DEFINE S == 1 .. BatchSize
<1>1. IsFiniteSet(S) /\ n \in S /\ n \in Nat
  BY PollLoopConstants, FS_Interval
<1>2. f \in [S -> Nat] /\ g \in [S -> Nat] /\ OneGrows(f, g, S, n, n)
  OBVIOUS
<1>3. DOMAIN f = S /\ DOMAIN g = S
  OBVIOUS
<1> HIDE DEF S
<1>4. /\ SumFunctionOnSet(f, S) \in Nat
      /\ SumFunctionOnSet(g, S) = SumFunctionOnSet(f, S) + n
  BY <1>1, <1>2, SumGrows
<1> QED
  BY <1>3, <1>4 DEF SumFunction

LEMMA OneBatchMore ==
  ASSUME NEW h \in [1 .. BatchSize -> Nat], NEW n \in 1 .. BatchSize,
         NEW k \in [1 .. BatchSize -> Nat], k = [h EXCEPT ![n] = h[n] + 1]
  PROVE  JobsIn(h) \in Nat /\ JobsIn(k) = JobsIn(h) + n
<1>1. n \in Nat
  BY PollLoopConstants
<1>2. JobsOf(k)[n] = JobsOf(h)[n] + n
  <2>1. k[n] = h[n] + 1 /\ h[n] \in Nat
    OBVIOUS
  <2>2. \A a, b \in Nat : a * (b + 1) = a * b + a
    OBVIOUS
  <2>3. n * k[n] = n * h[n] + n
    BY <1>1, <2>1, <2>2
  <2> QED BY <2>3 DEF JobsOf
<1>3. ASSUME NEW m \in 1 .. BatchSize, m # n PROVE JobsOf(k)[m] = JobsOf(h)[m]
  BY <1>3 DEF JobsOf
<1>4. /\ JobsOf(h) \in [1 .. BatchSize -> Nat]
      /\ JobsOf(k) \in [1 .. BatchSize -> Nat]
  BY JobsAreNumbers
<1>5. OneGrows(JobsOf(h), JobsOf(k), 1 .. BatchSize, n, n)
  BY <1>2, <1>3 DEF OneGrows
<1> DEFINE f == JobsOf(h)
           g == JobsOf(k)
<1>6. /\ f \in [1 .. BatchSize -> Nat] /\ g \in [1 .. BatchSize -> Nat]
      /\ OneGrows(f, g, 1 .. BatchSize, n, n)
  BY <1>4, <1>5
<1> HIDE DEF f, g
<1>7. SumFunction(f) \in Nat /\ SumFunction(g) = SumFunction(f) + n
  BY <1>6, SumOfBatches
<1> QED
  BY <1>7 DEF JobsIn, f, g

(* The count follows the batches: a dispatch adds its jobs, a settled batch
   takes off as many as it added, so the Math.max never cuts anything off. *)
LEMMA ActiveAccountedStep ==
  PollTypeOK /\ ActiveAccounted /\ [PollNext]_pollVars => ActiveAccounted'
<1> SUFFICES ASSUME PollTypeOK, ActiveAccounted, [PollNext]_pollVars
             PROVE  ActiveAccounted'
  OBVIOUS
<1>0. /\ inflight \in [1 .. BatchSize -> Nat] /\ activeJobs \in Nat
      /\ inflight' \in [1 .. BatchSize -> Nat]
  BY PollTypeStep DEF PollTypeOK
<1>1. activeJobs = JobsIn(inflight)
  BY DEF ActiveAccounted, JobsIn, JobsOf
<1>a. activeJobs' = JobsIn(inflight') => ActiveAccounted'
  BY DEF ActiveAccounted, JobsIn, JobsOf
<1>b. UNCHANGED <<activeJobs, inflight>> => ActiveAccounted'
  BY <1>1, <1>a
<1>2. CASE Start \/ Stop \/ UNCHANGED pollVars
  BY <1>2, <1>b DEF Start, Stop, pollVars
<1>3. ASSUME NEW c \in Chains, TickStep(c) PROVE ActiveAccounted'
  <2>1. CASE TimerFires(c) \/ TimeReturns(c) \/ TimeFails(c) \/ DequeueFails(c)
    BY <2>1, <1>b DEF TimerFires, TimeReturns, TimeFails, DequeueFails
  <2>2. ASSUME NEW n \in 0 .. BatchSize, DequeueReturns(c, n)
        PROVE  ActiveAccounted'
    <3>1. CASE n = 0
      <4>1. activeJobs' = activeJobs /\ inflight' = inflight
        BY <1>0, <2>2, <3>1 DEF DequeueReturns
      <4> QED BY <4>1, <1>b
    <3>2. CASE n # 0
      <4>1. n \in 1 .. BatchSize
        BY <3>2, PollLoopConstants
      <4>2. /\ inflight' = [inflight EXCEPT ![n] = inflight[n] + 1]
            /\ activeJobs' = activeJobs + n
        BY <2>2, <3>2 DEF DequeueReturns
      <4>3. JobsIn(inflight') = JobsIn(inflight) + n
        BY <1>0, <4>1, <4>2, OneBatchMore
      <4> QED BY <1>1, <1>a, <4>2, <4>3
    <3> QED BY <3>1, <3>2
  <2> QED BY <1>3, <2>1, <2>2 DEF TickStep
<1>4. ASSUME NEW n \in 1 .. BatchSize, BatchSettles(n) PROVE ActiveAccounted'
  <2>1. /\ inflight[n] > 0 /\ inflight[n] \in Nat
        /\ inflight' = [inflight EXCEPT ![n] = inflight[n] - 1]
    BY <1>0, <1>4 DEF BatchSettles
  <2>2. inflight = [inflight' EXCEPT ![n] = inflight'[n] + 1]
    <3> DEFINE h == [inflight' EXCEPT ![n] = inflight'[n] + 1]
    <3>1. inflight'[n] + 1 = inflight[n]
      BY <1>0, <2>1
    <3>2. \A m \in 1 .. BatchSize : h[m] = inflight[m]
      BY <1>0, <2>1, <3>1
    <3>3. h \in [1 .. BatchSize -> Nat]
      BY <1>0, <2>1, <3>1
    <3> HIDE DEF h
    <3>4. h = [m \in 1 .. BatchSize |-> h[m]]
          /\ inflight = [m \in 1 .. BatchSize |-> inflight[m]]
      BY <1>0, <3>3
    <3>5. h = inflight
      BY <3>2, <3>4
    <3> QED BY <3>5 DEF h
  <2>3. /\ JobsIn(inflight') \in Nat
        /\ JobsIn(inflight) = JobsIn(inflight') + n
    BY <1>0, <2>2, OneBatchMore
  <2>4. activeJobs' = IF activeJobs > n THEN activeJobs - n ELSE 0
    BY <1>4 DEF BatchSettles
  <2>5. n \in Nat
    BY PollLoopConstants
  <2>6. activeJobs' = JobsIn(inflight')
    BY <1>0, <1>1, <2>3, <2>4, <2>5
  <2> QED BY <1>a, <2>6
<1> QED  BY <1>2, <1>3, <1>4 DEF PollNext

(* The count of jobs in execution never drifts from the batches that are in
   execution, however ticks, settlements, starts and stops interleave. *)
THEOREM ActiveJobsAccounted == PollSpec => []ActiveAccounted
<1>1. PollInit => ActiveAccounted
  <2> SUFFICES ASSUME PollInit PROVE ActiveAccounted
    OBVIOUS
  <2> DEFINE f == JobsOf(inflight)
             S == 1 .. BatchSize
  <2>1. \A n \in S : f[n] = 0
    <3>1. \A n \in S : f[n] = n * 0
      BY DEF PollInit, JobsOf
    <3>2. \A n \in S : n * 0 = 0
      BY PollLoopConstants
    <3> QED BY <3>1, <3>2
  <2>2. IsFiniteSet(S)
    BY PollLoopConstants, FS_Interval
  <2>3. DOMAIN f = S
    BY DEF JobsOf
  <2> HIDE DEF f, S
  <2>4. SumFunctionOnSet(f, S) = 0
    BY <2>1, <2>2, SumOfZeros
  <2>5. SumFunction(f) = 0
    BY <2>3, <2>4 DEF SumFunction
  <2>6. f = [n \in 1 .. BatchSize |-> n * inflight[n]]
    BY DEF f, JobsOf
  <2> QED BY <2>5, <2>6 DEF PollInit, ActiveAccounted
<1>2. PollInvariant /\ ActiveAccounted /\ [PollNext]_pollVars => ActiveAccounted'
  BY ActiveAccountedStep DEF PollInvariant
<1> QED  BY <1>1, <1>2, PollInvariantHolds, PTL DEF PollSpec
=============================================================================
