------------------------------ MODULE PollLoop ------------------------------
(***************************************************************************)
(* The poll loop of one instance: the chain of timers and ticks, the       *)
(* backpressure gate, the count of jobs in execution, and start and stop   *)
(* (the callbacks of the leader election).  Scheduler composes it with the *)
(* election and the shutdown.                                              *)
(*                                                                         *)
(* A chain is one setTimeout callback and the timers it sets after itself. *)
(* stop clears the timer the object knows of; it neither ends a tick that  *)
(* awaits Redis nor the timers of another chain, and a tick does not look  *)
(* at the running flag.                                                    *)
(***************************************************************************)
EXTENDS Naturals, Functions

CONSTANTS Chains,         \* bound: chains of timers at once
          None,
          Types,          \* length of POLL_ORDER, the job types
          MaxConcurrent,  \* MAX_CONCURRENT_JOBS
          BatchSize,      \* POLL_BATCH_SIZE
          MinFree         \* MIN_FREE_SLOTS

ASSUME PollNone == None \notin Chains
ASSUME PollConstants ==
  /\ Types \in Nat \ {0} /\ BatchSize \in Nat \ {0}
  /\ MaxConcurrent \in Nat /\ MinFree \in Nat \ {0}

VARIABLES
  running,     \* this.running
  activeJobs,  \* this.activeJobs
  timer,       \* this.timer: the chain whose timer was set last
  chain,       \* the chains and what each waits for
  inflight,    \* dispatched batches not yet settled: size -> how many
  overlapped   \* history: a chain was started while another was alive

pollVars == <<running, activeJobs, timer, chain, inflight, overlapped>>

-----------------------------------------------------------------------------
(* A chain waits for its timer, for TIME, holding the free slots it saw, or
   for the dequeue of a job type, holding the slots that remain. *)
NoChain == [at |-> "none", type |-> 0, slots |-> 0]
Armed   == [NoChain EXCEPT !.at = "timer"]
AskingTime(free)      == [at |-> "time", type |-> 0, slots |-> free]
Dequeuing(type, left) == [at |-> "dequeue", type |-> type, slots |-> left]

At(c, what) == chain[c].at = what
Alive(c)    == ~At(c, "none")
Free        == MaxConcurrent - activeJobs
BackpressureOffByOne == activeJobs + MinFree > MaxConcurrent + 1  \* seeded fault
Backpressure == activeJobs + MinFree > MaxConcurrent
AtMost(m, n) == IF m < n THEN m ELSE n

PollInit ==
  /\ running = FALSE
  /\ activeJobs = 0
  /\ timer = None
  /\ chain = [c \in Chains |-> NoChain]
  /\ inflight = [n \in 1 .. BatchSize |-> 0]
  /\ overlapped = FALSE

(* scheduleNextTick, at the end of a tick. *)
ScheduleNextUnchecked(c) ==     \* seeded fault: no look at running
  /\ chain' = [chain EXCEPT ![c] = Armed]
  /\ timer' = c

ScheduleNext(c) ==
  IF running
  THEN /\ chain' = [chain EXCEPT ![c] = Armed]
       /\ timer' = c
  ELSE /\ chain' = [chain EXCEPT ![c] = NoChain]
       /\ UNCHANGED timer

Start ==
  /\ ~running
  /\ running' = TRUE
  /\ \E c \in Chains :
       /\ ~Alive(c)
       /\ chain' = [chain EXCEPT ![c] = Armed]
       /\ timer' = c
  /\ overlapped' = (overlapped \/ \E c \in Chains : Alive(c))
  /\ UNCHANGED <<activeJobs, inflight>>

StopLoop ==
  /\ running' = FALSE
  /\ timer' = None
  /\ chain' = [c \in Chains |->
                 IF c = timer /\ At(c, "timer") THEN NoChain ELSE chain[c]]

Stop ==
  /\ StopLoop
  /\ UNCHANGED <<activeJobs, inflight, overlapped>>

-----------------------------------------------------------------------------
(* tick. *)
TimerFires(c) ==
  /\ At(c, "timer")
  /\ IF Backpressure
     THEN ScheduleNext(c)
     ELSE chain' = [chain EXCEPT ![c] = AskingTime(Free)] /\ UNCHANGED timer
  /\ UNCHANGED <<running, activeJobs, inflight, overlapped>>

TimeReturns(c) ==
  /\ At(c, "time")
  /\ chain' = [chain EXCEPT ![c] =
                 Dequeuing(1, AtMost(chain[c].slots, BatchSize))]
  /\ UNCHANGED <<running, activeJobs, timer, inflight, overlapped>>

TimeFailsForGood(c) ==     \* seeded fault: the error leaves the callback
  /\ At(c, "time")
  /\ chain' = [chain EXCEPT ![c] = NoChain]
  /\ UNCHANGED <<running, activeJobs, timer, inflight, overlapped>>

TimeFails(c) ==
  /\ At(c, "time")
  /\ ScheduleNext(c)
  /\ UNCHANGED <<running, activeJobs, inflight, overlapped>>

(* The next job type, or the end of the tick. *)
NextType(c, left) ==
  IF left > 0 /\ chain[c].type < Types
  THEN /\ chain' = [chain EXCEPT ![c] = Dequeuing(chain[c].type + 1, left)]
       /\ UNCHANGED timer
  ELSE ScheduleNext(c)

DequeueReturnsKeepsSlots(c, n) ==     \* seeded fault: the slots stay as they are
  /\ At(c, "dequeue")
  /\ n <= chain[c].slots
  /\ NextType(c, chain[c].slots)
  /\ activeJobs' = activeJobs + n
  /\ inflight' = IF n = 0 THEN inflight ELSE [inflight EXCEPT ![n] = @ + 1]
  /\ UNCHANGED <<running, overlapped>>

(* dequeue returned n jobs, as many as are due and no more than asked for;
   they are dispatched as one batch. *)
DequeueReturns(c, n) ==
  /\ At(c, "dequeue")
  /\ n <= chain[c].slots
  /\ NextType(c, chain[c].slots - n)
  /\ activeJobs' = activeJobs + n
  /\ inflight' = IF n = 0 THEN inflight
                 ELSE [inflight EXCEPT ![n] = @ + 1]
  /\ UNCHANGED <<running, overlapped>>

DequeueFails(c) ==
  /\ At(c, "dequeue")
  /\ NextType(c, chain[c].slots)
  /\ UNCHANGED <<running, activeJobs, inflight, overlapped>>

(* The last job of a batch of n has ended: dispatch settles as a whole. *)
BatchSettlesByOne(n) ==     \* seeded fault: one job is counted off
  /\ inflight[n] > 0
  /\ inflight' = [inflight EXCEPT ![n] = @ - 1]
  /\ activeJobs' = IF activeJobs > 0 THEN activeJobs - 1 ELSE 0
  /\ UNCHANGED <<running, timer, chain, overlapped>>

BatchSettles(n) ==
  /\ inflight[n] > 0
  /\ inflight' = [inflight EXCEPT ![n] = @ - 1]
  /\ activeJobs' = IF activeJobs > n THEN activeJobs - n ELSE 0
  /\ UNCHANGED <<running, timer, chain, overlapped>>

-----------------------------------------------------------------------------
TickStep(c) ==
  \/ TimerFires(c) \/ TimeReturns(c) \/ TimeFails(c)
  \/ (\E n \in 0 .. BatchSize : DequeueReturns(c, n)) \/ DequeueFails(c)

PollNext ==
  \/ Start \/ Stop
  \/ \E c \in Chains : TickStep(c)
  \/ \E n \in 1 .. BatchSize : BatchSettles(n)

PollSpec == PollInit /\ [][PollNext]_pollVars

-----------------------------------------------------------------------------
(* The types of the variables. *)
PollTypeOK ==
  /\ running \in BOOLEAN
  /\ activeJobs \in Nat
  /\ timer \in Chains \cup {None}
  /\ chain \in [Chains -> {NoChain, Armed}
                  \cup {AskingTime(k) : k \in MinFree .. MaxConcurrent}
                  \cup {Dequeuing(t, k) : t \in 1 .. Types, k \in 1 .. BatchSize}]
  /\ inflight \in [1 .. BatchSize -> Nat]
  /\ overlapped \in BOOLEAN

(* activeJobs is the number of jobs dispatched and not yet settled, whatever
   starts, stops and errors interrupt the ticks: the Math.max that keeps it
   from going negative never has to. *)
ActiveAccounted ==
  activeJobs = SumFunction([n \in 1 .. BatchSize |-> n * inflight[n]])

(* The backpressure gate (ADR-SCHED-003), as far as it goes: the jobs in
   execution stay within MAX_CONCURRENT_JOBS, and the slots a tick holds
   across its awaits are still free when it uses them, as long as there never
   was a second chain. *)
WithinCapacity ==
  ~overlapped =>
    /\ activeJobs <= MaxConcurrent
    /\ \A c \in Chains :
         At(c, "time") \/ At(c, "dequeue") =>
           activeJobs + chain[c].slots <= MaxConcurrent

(* stop leaves no timer behind that would poll for an instance that does not
   lead, as long as there never was a second chain. *)
StoppedIsQuiet ==
  ~overlapped /\ ~running => \A c \in Chains : ~At(c, "timer")
=============================================================================
