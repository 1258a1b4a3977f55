------------------------- MODULE JobExecutionProofs -------------------------
(***************************************************************************)
(* Proofs about JobExecution, for any sets of jobs, instances, run slots   *)
(* and requests and any bounds on crashes and failing calls.               *)
(***************************************************************************)
EXTENDS JobExecution, FiniteSetTheorems, TLAPS

-----------------------------------------------------------------------------
(* The history of an attempt that works for the first time: it is added to
   the attempts that did their work, each of which stays there once. *)
LEMMA WorkAppended ==
  ASSUME NEW s \in Histories, NEW k \in Nat
  PROVE  /\ Append(s, k) \in Histories
         /\ Range(Append(s, k)) = Range(s) \cup {k}
         /\ IsInjective(s) /\ k \notin Range(s) => IsInjective(Append(s, k))
<1> DEFINE t == Append(s, k)
<1>1. /\ t \in Histories /\ Len(s) \in Nat /\ DOMAIN s = 1 .. Len(s)
      /\ DOMAIN t = 1 .. (Len(s) + 1)
      /\ \A n \in 1 .. Len(s) : t[n] = s[n]
      /\ t[Len(s) + 1] = k
  BY DEF Histories
<1>2. \A n \in 1 .. (Len(s) + 1) : n \in 1 .. Len(s) \/ n = Len(s) + 1
  BY <1>1
<1>3. \A n \in 1 .. Len(s) : n \in 1 .. (Len(s) + 1)
  BY <1>1
<1>4. Len(s) + 1 \in 1 .. (Len(s) + 1)
  BY <1>1
<1> HIDE DEF t
<1>5. Range(t) = Range(s) \cup {k}
  BY <1>1, <1>2, <1>3, <1>4, ZenonT(30) DEF Range
<1>6. ASSUME IsInjective(s), k \notin Range(s)
      PROVE  IsInjective(t)
  BY <1>1, <1>2, <1>6 DEF IsInjective, Range
<1> QED  BY <1>1, <1>5, <1>6 DEF t

LEMMA EmptyHistory ==
  /\ NoWork \in Histories
  /\ Range(NoWork) = {} /\ IsInjective(NoWork)
BY DEF NoWork, Histories, Range, IsInjective

(* Operations on one document keep it a document. *)
LEMMA DocumentTypes ==
  ASSUME NEW doc \in JobDocs, NEW v \in Nat
  PROVE  /\ NoDoc \in JobDocs
         /\ createJob(doc) \in JobDocs
         /\ claimJob(doc, v) \in JobDocs
         /\ markCompleted(doc, v) \in JobDocs
         /\ markFailed(doc, v) \in JobDocs
         /\ markDead(doc, v) \in JobDocs
         /\ cancelJob(doc) \in JobDocs
         /\ resetStale(doc) \in JobDocs
         /\ [doc EXCEPT !.startedAt = "old"] \in JobDocs
<1>. doc.version + 1 \in Nat /\ doc.attempts + 1 \in Nat
  BY DEF JobDocs
<1> USE DEF JobDocs, Statuses
<1>1. NoDoc \in JobDocs /\ createJob(doc) \in JobDocs
  BY DEF NoDoc, createJob
<1>2. claimJob(doc, v) \in JobDocs
  BY DEF claimJob, Claimable
<1>3. markCompleted(doc, v) \in JobDocs /\ markFailed(doc, v) \in JobDocs
  BY DEF markCompleted, markFailed, markSettled, Markable
<1>4. markDead(doc, v) \in JobDocs /\ cancelJob(doc) \in JobDocs
  BY DEF markDead, DeadMarkable, IsStored, cancelJob, Cancellable
<1>5. resetStale(doc) \in JobDocs /\ [doc EXCEPT !.startedAt = "old"] \in JobDocs
  BY DEF resetStale
<1> QED  BY <1>1, <1>2, <1>3, <1>4, <1>5

LEMMA RunTypes ==
  ASSUME TypeOK, NEW r \in Runs, Busy(r)
  PROVE  /\ run[r] \in ActiveRuns /\ JobOf(r) \in Jobs
         /\ job[JobOf(r)] \in JobDocs
         /\ MarkVersion(r) \in Nat
         /\ run[r].attempt \in Nat /\ run[r].version \in Nat
BY DEF TypeOK, ActiveRuns, MarkVersion, JobOf, Busy, NoRun

LEMMA RequestTypes ==
  ASSUME TypeOK, NEW q \in Requests, request[q].pc \in RequestCalls
  PROVE  request[q] \in ActiveRequests /\ request[q].job \in Jobs
BY DEF TypeOK, ActiveRequests, RequestCalls, NewRequest, DoneRequest

LEMMA TypeInit == Init => TypeOK
BY EmptyHistory DEF Init, TypeOK, JobDocs, Statuses, NoDoc

LEMMA TypeStep == TypeOK /\ [Next]_vars => TypeOK'
<1> SUFFICES ASSUME TypeOK, [Next]_vars PROVE TypeOK'
  OBVIOUS
<1> USE DEF TypeOK, mongo, bounds, history
<1>q. ASSUME NEW q \in Requests, NEW j \in Jobs,
             SubmitEnqueue(q, j) \/ SubmitCancel(q, j)
      PROVE  TypeOK'
  <2>1. createJob(job[j]) \in JobDocs /\ cancelJob(job[j]) \in JobDocs
    BY DocumentTypes
  <2>2. CASE SubmitEnqueue(q, j)
    BY <2>1, <2>2 DEF SubmitEnqueue, ActiveRequests, RequestCalls
  <2>3. CASE SubmitCancel(q, j)
    BY <2>1, <2>3 DEF SubmitCancel, ActiveRequests, RequestCalls
  <2> QED  BY <1>q, <2>2, <2>3
<1>r. ASSUME NEW q \in Requests, RequestStep(q) \/ RequestFails(q)
      PROVE  TypeOK'
  <2>0. request[q].pc \in RequestCalls
    BY <1>r DEF RequestStep, RequestFails, EnqueueZadd, CancelZrem,
                PublishScheduled, PublishCancelled, RequestPublish, RequestCalls
  <2>1. /\ request[q] \in ActiveRequests /\ request[q].job \in Jobs
        /\ \A pc \in RequestCalls : [request[q] EXCEPT !.pc = pc] \in ActiveRequests
    BY <2>0, RequestTypes DEF ActiveRequests
  <2>2. CASE EnqueueZadd(q)
    BY <2>1, <2>2 DEF EnqueueZadd, RequestCalls
  <2>3. CASE CancelZrem(q)
    BY <2>1, <2>3 DEF CancelZrem, RequestCalls
  <2>4. CASE PublishScheduled(q) \/ PublishCancelled(q)
    BY <2>1, <2>4 DEF PublishScheduled, PublishCancelled, RequestPublish, Event,
                      EventTypes
  <2>5. CASE RequestFails(q)
    BY <2>5, BoundsAssumption DEF RequestFails
  <2> QED  BY <1>r, <2>2, <2>3, <2>4, <2>5 DEF RequestStep
<1>i. ASSUME NEW i \in Instances,
             Peek(i) \/ Remove(i) \/ RemoveFails(i) \/ Crash(i) \/ Bootstrap(i)
      PROVE  TypeOK'
  <2>1. CASE Peek(i)
    BY <2>1 DEF Peek
  <2>2. CASE Remove(i)
    <3>1. PICK slots \in SUBSET IdleRuns : \E jobIn \in Bijection(slots, batch[i]) :
            run' = [r \in Runs |-> IF r \in slots THEN NewRun(i, jobIn[r])
                                                  ELSE run[r]]
      BY <2>2 DEF Remove
    <3>2. PICK jobIn \in [slots -> batch[i]] :
            run' = [r \in Runs |-> IF r \in slots THEN NewRun(i, jobIn[r])
                                                  ELSE run[r]]
      BY <3>1 DEF Bijection, Injection
    <3>3. \A r \in slots : NewRun(i, jobIn[r]) \in ActiveRuns
      BY <3>2 DEF NewRun, NoRun, ActiveRuns, Calls, MongoCalls
    <3>4. run' \in [Runs -> ActiveRuns \cup {NoRun}]
      BY <3>2, <3>3
    <3> QED  BY <2>2, <3>4 DEF Remove, Without
  <2>3. CASE RemoveFails(i)
    BY <2>3, BoundsAssumption DEF RemoveFails, Without
  <2>4. CASE Crash(i)
    <3>1. run' \in [Runs -> ActiveRuns \cup {NoRun}]
      BY <2>4 DEF Crash
    <3>2. request' \in [Requests -> ActiveRequests \cup {NewRequest, DoneRequest}]
      BY <2>4 DEF Crash
    <3> QED  BY <2>4, <3>1, <3>2 DEF Crash
  <2>5. CASE Bootstrap(i)
    BY <2>5 DEF Bootstrap
  <2> QED  BY <1>i, <2>1, <2>2, <2>3, <2>4, <2>5
<1>s. ASSUME NEW r \in Runs, RunStep(r) \/ CallFails(r)
      PROVE  TypeOK'
  <2>0. Busy(r)
    BY <1>s DEF RunStep, CallFails, Busy, At, MongoCalls, RedisCalls,
                RabbitCalls, Find, Claim, PublishClaimed, WriteHeartbeat,
                HandlerSucceeds, HandlerThrows, Complete, RecordExecution,
                PublishCompleted, PublishFailed, MarkDead, CreateDeadLetter,
                MarkFailed, Reschedule, PublishRetrying
  <2>1. /\ run[r] \in ActiveRuns /\ JobOf(r) \in Jobs
        /\ job[JobOf(r)] \in JobDocs /\ MarkVersion(r) \in Nat
        /\ run[r].attempt \in Nat /\ run[r].version \in Nat
    BY <2>0, RunTypes
  <2>2. \A pc \in Calls : Goto(r, pc) => run' \in [Runs -> ActiveRuns \cup {NoRun}]
    BY <2>1 DEF ActiveRuns, Goto
  <2>3. Finish(r) => run' \in [Runs -> ActiveRuns \cup {NoRun}]
    BY DEF Finish
  <2> USE <2>1, <2>2, <2>3 DEF Calls, MongoCalls, RabbitCalls, RedisCalls
  <2>4. CASE Find(r)
    BY <2>4 DEF Find, ActiveRuns, JobDocs
  <2>5. CASE Claim(r)
    <3>1. claimJob(job[JobOf(r)], run[r].version) \in JobDocs
      BY DocumentTypes
    <3>2. run[r].version + 1 \in Nat /\ job[JobOf(r)].attempts + 1 \in Nat
      BY DEF JobDocs
    <3> DEFINE won == [run[r] EXCEPT !.pc = "publishClaimed", !.version = @ + 1,
                         !.attempt = job[JobOf(r)].attempts + 1]
    <3>3. won \in ActiveRuns
      BY <3>2 DEF ActiveRuns
    <3>4. \/ run' = [run EXCEPT ![r] = won]
          \/ run' = [run EXCEPT ![r] = NoRun]
      BY <2>5 DEF Claim
    <3> HIDE DEF won
    <3>5. run' \in [Runs -> ActiveRuns \cup {NoRun}]
      BY <3>3, <3>4
    <3> QED  BY <2>5, <3>1, <3>5 DEF Claim
  <2>6. CASE PublishClaimed(r) \/ WriteHeartbeat(r) \/ HandlerThrows(r)
    BY <2>6 DEF PublishClaimed, WriteHeartbeat, HandlerThrows, Publish, Event, EventTypes
  <2>7. CASE HandlerSucceeds(r)
    <3>1. Append(performed[JobOf(r)], run[r].attempt) \in Histories
      BY WorkAppended
    <3> QED  BY <2>7, <3>1 DEF HandlerSucceeds
  <2>8. CASE Complete(r) \/ MarkFailed(r) \/ MarkDead(r)
    <3>1. /\ markCompleted(job[JobOf(r)], MarkVersion(r)) \in JobDocs
          /\ markFailed(job[JobOf(r)], MarkVersion(r)) \in JobDocs
          /\ markDead(job[JobOf(r)], MarkVersion(r)) \in JobDocs
      BY DocumentTypes
    <3> QED  BY <2>8, <3>1 DEF Complete, MarkFailed, MarkDead
  <2>9. CASE RecordExecution(r)
    BY <2>9 DEF RecordExecution, Record
  <2>10. CASE PublishCompleted(r) \/ PublishFailed(r) \/ PublishRetrying(r)
    BY <2>10 DEF PublishCompleted, PublishFailed, PublishRetrying, Publish,
                 Event, EventTypes
  <2>11. CASE CreateDeadLetter(r)
    BY <2>11 DEF CreateDeadLetter
  <2>12. CASE Reschedule(r)
    BY <2>12 DEF Reschedule
  <2>13. CASE CallFails(r)
    BY <2>13, BoundsAssumption DEF CallFails
  <2> QED
    BY <1>s, <2>4, <2>5, <2>6, <2>7, <2>8, <2>9, <2>10, <2>11, <2>12, <2>13
       DEF RunStep
<1>j. ASSUME NEW j \in Jobs,
             \/ ScoreReached(j) \/ ResetStaleJob(j) \/ StaleAgeElapses(j)
             \/ Expire(j)
      PROVE  TypeOK'
  <2>1. /\ NoDoc \in JobDocs /\ resetStale(job[j]) \in JobDocs
        /\ [job[j] EXCEPT !.startedAt = "old"] \in JobDocs
    BY DocumentTypes
  <2>2. CASE ScoreReached(j)
    BY <2>2 DEF ScoreReached, process
  <2>3. CASE ResetStaleJob(j)
    BY <2>1, <2>3 DEF ResetStaleJob, process
  <2>4. CASE StaleAgeElapses(j)
    <3>1. job' \in [Jobs -> JobDocs]
      BY <2>1, <2>4 DEF StaleAgeElapses
    <3> QED  BY <2>4, <3>1 DEF StaleAgeElapses, process
  <2>5. CASE Expire(j)
    BY <2>1, <2>5, EmptyHistory DEF Expire, process
  <2> QED  BY <1>j, <2>2, <2>3, <2>4, <2>5
<1>u. CASE UNCHANGED vars
  BY <1>u DEF vars, process
<1> QED  BY <1>q, <1>r, <1>i, <1>s, <1>j, <1>u DEF Next

(* TypeOK for every value of the constants. *)
THEOREM TypeCorrect == Spec => []TypeOK
BY TypeInit, TypeStep, PTL DEF Spec
-----------------------------------------------------------------------------
(* How one step changes one document and its history: one operation of the
   repository, a reset, a removal, or nothing. *)
Operated(j) ==
  \E v \in Nat :
    job'[j] \in {createJob(job[j]), claimJob(job[j], v), markCompleted(job[j], v),
                markFailed(job[j], v), markDead(job[j], v), cancelJob(job[j])}

Aged(j) == /\ job[j].status = "running"
           /\ job'[j] = [job[j] EXCEPT !.startedAt = "old"]

GivenBack(j) == /\ Stale(job[j])
                /\ job'[j] = resetStale(job[j])
                /\ resets'[j] = resets[j] + 1

LEMMA DocumentEvolution ==
  ASSUME TypeOK, [Next]_vars, NEW j \in Jobs
  PROVE  \/ job'[j] = job[j] /\ resets'[j] = resets[j]
         \/ Operated(j) /\ resets'[j] = resets[j]
         \/ Aged(j) /\ resets'[j] = resets[j]
         \/ GivenBack(j)
         \/ Expire(j)
<1> DEFINE Goal == \/ job'[j] = job[j] /\ resets'[j] = resets[j]
                   \/ Operated(j) /\ resets'[j] = resets[j]
                   \/ Aged(j) /\ resets'[j] = resets[j]
                   \/ GivenBack(j)
                   \/ Expire(j)
<1> USE DEF mongo, bounds, history, process
<1>1. ASSUME UNCHANGED <<job, resets>>
      PROVE  Goal
  BY <1>1
<1>2. ASSUME NEW r \in Runs, RunStep(r), NEW v \in Nat, NEW doc,
             JobOf(r) \in Jobs, resets' = resets,
             job' = [job EXCEPT ![JobOf(r)] = doc],
             doc \in {claimJob(job[JobOf(r)], v), markCompleted(job[JobOf(r)], v),
                     markFailed(job[JobOf(r)], v), markDead(job[JobOf(r)], v)}
      PROVE  Goal
  BY <1>2 DEF Operated, TypeOK
<1>3. ASSUME NEW r \in Runs, RunStep(r) \/ CallFails(r)
      PROVE  Goal
  <2>1. Busy(r)
    BY <1>3 DEF RunStep, CallFails, Busy, At, MongoCalls, RedisCalls, RabbitCalls,
              Find, Claim, PublishClaimed, WriteHeartbeat,
              HandlerSucceeds, HandlerThrows, Complete, RecordExecution,
              PublishCompleted, PublishFailed, MarkDead, CreateDeadLetter,
              MarkFailed, Reschedule, PublishRetrying
  <2>2. JobOf(r) \in Jobs /\ MarkVersion(r) \in Nat /\ run[r].version \in Nat
    BY <2>1, RunTypes
  <2>3. CASE Claim(r) \/ Complete(r) \/ MarkDead(r) \/ MarkFailed(r)
    <3>1. resets' = resets /\ RunStep(r)
      BY <2>3 DEF Claim, Complete, MarkDead, MarkFailed, RunStep
    <3>2. CASE Claim(r)
      BY <3>1, <3>2, <2>2, <1>2 DEF Claim
    <3>3. CASE Complete(r)
      BY <3>1, <3>3, <2>2, <1>2 DEF Complete
    <3>4. CASE MarkDead(r)
      BY <3>1, <3>4, <2>2, <1>2 DEF MarkDead
    <3>5. CASE MarkFailed(r)
      BY <3>1, <3>5, <2>2, <1>2 DEF MarkFailed
    <3> QED  BY <2>3, <3>2, <3>3, <3>4, <3>5
  <2>4. CASE ~(Claim(r) \/ Complete(r) \/ MarkDead(r) \/ MarkFailed(r))
    BY <1>3, <2>4, <1>1
       DEF RunStep, CallFails, Find, PublishClaimed, WriteHeartbeat,
           HandlerSucceeds, HandlerThrows, RecordExecution, PublishCompleted,
           PublishFailed, CreateDeadLetter, Reschedule, PublishRetrying
  <2> QED  BY <2>3, <2>4
<1>4. ASSUME NEW q \in Requests, NEW k \in Jobs,
             SubmitEnqueue(q, k) \/ SubmitCancel(q, k)
      PROVE  Goal
  BY <1>4 DEF SubmitEnqueue, SubmitCancel, Operated, TypeOK
<1>5. ASSUME NEW q \in Requests, RequestStep(q) \/ RequestFails(q)
      PROVE  Goal
  BY <1>5, <1>1 DEF RequestStep, RequestFails, EnqueueZadd, CancelZrem,
                    PublishScheduled, PublishCancelled, RequestPublish
<1>6. ASSUME NEW i \in Instances,
             Peek(i) \/ Remove(i) \/ RemoveFails(i) \/ Crash(i) \/ Bootstrap(i)
      PROVE  Goal
  BY <1>6, <1>1 DEF Peek, Remove, RemoveFails, Crash, Bootstrap
<1>7. ASSUME NEW k \in Jobs,
             \/ ScoreReached(k) \/ ResetStaleJob(k) \/ StaleAgeElapses(k)
             \/ Expire(k)
      PROVE  Goal
  BY <1>7 DEF ScoreReached, ResetStaleJob, StaleAgeElapses, Expire, GivenBack,
              Aged, TypeOK
<1>8. CASE UNCHANGED vars
  BY <1>8, <1>1 DEF vars
<1> QED  BY <1>3, <1>4, <1>5, <1>6, <1>7, <1>8 DEF Next

(* How one step changes what a job has performed. *)
LEMMA WorkEvolution ==
  ASSUME TypeOK, [Next]_vars, NEW j \in Jobs
  PROVE  \/ performed'[j] = performed[j]
         \/ Expire(j)
         \/ \E r \in Runs :
              /\ HandlerSucceeds(r) /\ JobOf(r) = j
              /\ performed'[j] = Append(performed[j], run[r].attempt)
<1> DEFINE Goal == \/ performed'[j] = performed[j]
                   \/ Expire(j)
                   \/ \E r \in Runs :
                        /\ HandlerSucceeds(r) /\ JobOf(r) = j
                        /\ performed'[j] = Append(performed[j], run[r].attempt)
<1> USE DEF mongo, bounds, history, process
<1>1. ASSUME NEW r \in Runs, RunStep(r) \/ CallFails(r)
      PROVE  Goal
  <2>1. CASE HandlerSucceeds(r)
    BY <2>1 DEF HandlerSucceeds, TypeOK
  <2>2. CASE ~HandlerSucceeds(r)
    BY <1>1, <2>2
       DEF RunStep, CallFails, Find, Claim, PublishClaimed, WriteHeartbeat,
           HandlerThrows, Complete, RecordExecution, PublishCompleted,
           PublishFailed, MarkDead, CreateDeadLetter, MarkFailed, Reschedule,
           PublishRetrying
  <2> QED  BY <2>1, <2>2
<1>2. ASSUME NEW k \in Jobs, Expire(k)
      PROVE  Goal
  BY <1>2 DEF Expire, TypeOK
<1>3. ASSUME NEW k \in Jobs,
             ScoreReached(k) \/ ResetStaleJob(k) \/ StaleAgeElapses(k)
      PROVE  Goal
  BY <1>3 DEF ScoreReached, ResetStaleJob, StaleAgeElapses
<1>4. ASSUME NEW q \in Requests,
             \/ RequestStep(q) \/ RequestFails(q)
             \/ \E k \in Jobs : SubmitEnqueue(q, k) \/ SubmitCancel(q, k)
      PROVE  Goal
  BY <1>4 DEF RequestStep, RequestFails, EnqueueZadd, CancelZrem,
              PublishScheduled, PublishCancelled, RequestPublish,
              SubmitEnqueue, SubmitCancel
<1>5. ASSUME NEW i \in Instances,
             Peek(i) \/ Remove(i) \/ RemoveFails(i) \/ Crash(i) \/ Bootstrap(i)
      PROVE  Goal
  BY <1>5 DEF Peek, Remove, RemoveFails, Crash, Bootstrap
<1>6. CASE UNCHANGED vars
  BY <1>6 DEF vars
<1> QED  BY <1>1, <1>2, <1>3, <1>4, <1>5, <1>6 DEF Next

(* A run's own step touches no other slot. *)
LEMMA RunFrame ==
  ASSUME TypeOK, NEW r \in Runs, RunStep(r) \/ CallFails(r)
  PROVE  \A s \in Runs \ {r} : run'[s] = run[s]
BY DEF RunStep, CallFails, Goto, Finish, TypeOK, Find, Claim, PublishClaimed, WriteHeartbeat,
           HandlerSucceeds, HandlerThrows, Complete, RecordExecution,
           PublishCompleted, PublishFailed, MarkDead, CreateDeadLetter,
           MarkFailed, Reschedule, PublishRetrying

(* A run that holds a claim after a step held the same one before, or won
   it in this step. *)
LEMMA RunEvolution ==
  ASSUME TypeOK, [Next]_vars, NEW r \in Runs, Claimed(r)'
  PROVE  \/ /\ Claimed(r) /\ JobOf(r)' = JobOf(r)
            /\ run'[r].attempt = run[r].attempt
            /\ run'[r].version = run[r].version
            /\ run'[r].pc \in {"publishClaimed", "heartbeat", "handler"} =>
                 /\ run[r].pc \in {"publishClaimed", "heartbeat", "handler"}
                 /\ ~HandlerSucceeds(r)
            /\ At(r, "complete")' => At(r, "complete") \/ HandlerSucceeds(r)
            /\ At(r, "markDead")' => At(r, "markDead") \/ Exhausted(r)
         \/ Claim(r) /\ Claimable(job[JobOf(r)], run[r].version)
<1> DEFINE Before == {"publishClaimed", "heartbeat", "handler"}
<1> DEFINE Goal == \/ /\ Claimed(r) /\ JobOf(r)' = JobOf(r)
                      /\ run'[r].attempt = run[r].attempt
                      /\ run'[r].version = run[r].version
                      /\ run'[r].pc \in Before =>
                           run[r].pc \in Before /\ ~HandlerSucceeds(r)
                      /\ At(r, "complete")' =>
                           At(r, "complete") \/ HandlerSucceeds(r)
                      /\ At(r, "markDead")' => At(r, "markDead") \/ Exhausted(r)
                   \/ Claim(r) /\ Claimable(job[JobOf(r)], run[r].version)
<1>1. HandlerSucceeds(r) => run'[r].pc = "complete"
  BY DEF HandlerSucceeds, Goto, TypeOK, ActiveRuns
<1>2. CASE run'[r] = run[r]
  BY <1>1, <1>2 DEF Claimed, JobOf, At
<1>3. CASE run'[r] = NoRun \/ run'[r].pc = "find"
  BY <1>3 DEF Claimed, NoRun
<1>4. ASSUME NEW s \in Runs, RunStep(s) \/ CallFails(s)
      PROVE  Goal
  <2>1. CASE s # r
    <3>1. run'[r] = run[r]
      BY <1>4, <2>1, RunFrame
    <3> QED  BY <3>1, <1>2
  <2>2. CASE s = r
    <3>1. Busy(r)
      BY <1>4, <2>2 DEF RunStep, CallFails, Busy, At, MongoCalls, RedisCalls,
           RabbitCalls, Find, Claim, PublishClaimed, WriteHeartbeat,
           HandlerSucceeds, HandlerThrows, Complete, RecordExecution,
           PublishCompleted, PublishFailed, MarkDead, CreateDeadLetter,
           MarkFailed, Reschedule, PublishRetrying
    <3>2. run[r] \in ActiveRuns
      BY <3>1, RunTypes
    <3>3. CASE Find(r)
      <4>1. run'[r].pc = "claim" \/ run'[r] = NoRun
        BY <3>2, <3>3 DEF Find, TypeOK, ActiveRuns
      <4> QED  BY <4>1 DEF Claimed, NoRun
    <3>6. CASE Claim(r)
      <4>1. Claimable(job[JobOf(r)], run[r].version) \/ run'[r] = NoRun
        BY <3>6 DEF Claim, TypeOK
      <4> QED  BY <3>6, <4>1 DEF Claimed, NoRun
    <3>4. CASE HandlerSucceeds(r)
      <4>1. run[r].pc = "handler" /\ run' = [run EXCEPT ![r].pc = "complete"]
        BY <3>4 DEF HandlerSucceeds, Goto, At
      <4>2. /\ run'[r].job = run[r].job /\ run'[r].attempt = run[r].attempt
            /\ run'[r].version = run[r].version
        BY <3>2, <4>1 DEF TypeOK, ActiveRuns
      <4> QED  BY <4>1, <4>2, <1>1, <3>4 DEF Claimed, JobOf, At
    <3>5. CASE ~(Find(r) \/ Claim(r) \/ HandlerSucceeds(r))
      BY <1>4, <2>2, <3>2, <3>5
         DEF RunStep, CallFails, PublishClaimed, WriteHeartbeat, HandlerThrows,
             Complete, RecordExecution, PublishCompleted, PublishFailed,
             MarkDead, CreateDeadLetter, MarkFailed, Reschedule,
             PublishRetrying, Goto, Finish, At, TypeOK, ActiveRuns, Claimed,
             JobOf, NoRun, MongoCalls, RedisCalls, RabbitCalls, TryCalls
    <3> QED  BY <3>3, <3>4, <3>5, <3>6
  <2> QED  BY <2>1, <2>2
<1>5. ASSUME NEW i \in Instances, Remove(i) \/ Crash(i)
      PROVE  run'[r] \in {run[r], NoRun} \/ run'[r].pc = "find"
  <2>1. CASE Remove(i)
    <3>1. PICK slots \in SUBSET IdleRuns : \E jobIn \in Bijection(slots, batch[i]) :
            run' = [s \in Runs |-> IF s \in slots THEN NewRun(i, jobIn[s])
                                                  ELSE run[s]]
      BY <2>1 DEF Remove
    <3> QED  BY <3>1 DEF NewRun, NoRun
  <2>2. CASE Crash(i)
    BY <2>2 DEF Crash
  <2> QED  BY <1>5, <2>1, <2>2
<1>6. CASE run' = run
  BY <1>6, <1>2
<1> QED
  BY <1>2, <1>3, <1>4, <1>5, <1>6
     DEF Next, vars, process, SubmitEnqueue, SubmitCancel, RequestStep,
         RequestFails, EnqueueZadd, CancelZrem, PublishScheduled,
         PublishCancelled, RequestPublish, Peek, RemoveFails, Bootstrap,
         ScoreReached, ResetStaleJob, StaleAgeElapses, Expire
LEMMA ClaimEffect ==
  ASSUME TypeOK, NEW r \in Runs, Claim(r), Claimable(job[JobOf(r)], run[r].version)
  PROVE  LET j == JobOf(r) IN
         /\ j \in Jobs
         /\ run'[r].job = j /\ run'[r].pc = "publishClaimed"
         /\ run'[r].attempt = job[j].attempts + 1
         /\ run'[r].version = job[j].version + 1
         /\ job'[j].attempts = job[j].attempts + 1
         /\ job'[j].version = job[j].version + 1
         /\ performed' = performed /\ resets' = resets
<1>1. Busy(r)
  BY DEF Claim, At, Busy
<1>2. run[r] \in ActiveRuns /\ JobOf(r) \in Jobs /\ job[JobOf(r)] \in JobDocs
  BY <1>1, RunTypes
<1>3. job[JobOf(r)].version = run[r].version
  BY DEF Claimable
<1>4. run' = [run EXCEPT ![r] = [run[r] EXCEPT !.pc = "publishClaimed",
                                    !.version = run[r].version + 1,
                                    !.attempt = job[JobOf(r)].attempts + 1]]
  BY DEF Claim
<1>5. /\ run'[r].job = JobOf(r) /\ run'[r].pc = "publishClaimed"
      /\ run'[r].attempt = job[JobOf(r)].attempts + 1
      /\ run'[r].version = job[JobOf(r)].version + 1
  BY <1>2, <1>3, <1>4 DEF TypeOK, ActiveRuns, JobOf
<1>6. job' = [job EXCEPT ![JobOf(r)] = claimJob(job[JobOf(r)], run[r].version)]
  BY DEF Claim
<1>7. /\ job'[JobOf(r)].attempts = job[JobOf(r)].attempts + 1
      /\ job'[JobOf(r)].version = job[JobOf(r)].version + 1
  BY <1>2, <1>6 DEF TypeOK, claimJob, JobDocs
<1> QED  BY <1>2, <1>5, <1>7 DEF Claim, history

(* The part of AttemptsAccounted about one document, n being the number of
   its resets, and that every operation keeps it and lowers no counter. *)
Accounted(doc, n) ==
  /\ ~IsStored(doc) => doc = NoDoc
  /\ doc.status = "running" => doc.attempts > 0
  /\ doc.attempts <= n + 1
  /\ doc.status = "pending" => doc.attempts <= n

Grows(old, new) == new.attempts >= old.attempts /\ new.version >= old.version

LEMMA OperationsAccounted ==
  ASSUME NEW doc \in JobDocs, NEW v \in Nat, NEW n \in Nat, Accounted(doc, n)
  PROVE  /\ \A new \in {createJob(doc), claimJob(doc, v), markCompleted(doc, v),
                        markFailed(doc, v), markDead(doc, v), cancelJob(doc),
                        doc} :
              Accounted(new, n) /\ Grows(doc, new)
         /\ Grows(doc, [doc EXCEPT !.startedAt = "old"])
         /\ doc.status = "running" =>
              Accounted([doc EXCEPT !.startedAt = "old"], n)
         /\ Grows(doc, resetStale(doc))
         /\ Stale(doc) => Accounted(resetStale(doc), n + 1)
<1>. doc.version + 1 \in Nat /\ doc.attempts + 1 \in Nat
  BY DEF JobDocs
<1> USE DEF Accounted, Grows, IsStored, JobDocs
<1>1. Accounted(createJob(doc), n) /\ Grows(doc, createJob(doc))
  BY DEF createJob, NoDoc
<1>2. Accounted(claimJob(doc, v), n) /\ Grows(doc, claimJob(doc, v))
  BY DEF claimJob, Claimable
<1>3. ASSUME NEW s \in {"completed", "failed"}
      PROVE  Accounted(markSettled(doc, v, s), n) /\ Grows(doc, markSettled(doc, v, s))
  BY DEF markSettled, Markable
<1>4. Accounted(markDead(doc, v), n) /\ Grows(doc, markDead(doc, v))
  BY DEF markDead, DeadMarkable
<1>5. Accounted(cancelJob(doc), n) /\ Grows(doc, cancelJob(doc))
  BY DEF cancelJob, Cancellable
<1>6. /\ Grows(doc, [doc EXCEPT !.startedAt = "old"])
      /\ doc.status = "running" => Accounted([doc EXCEPT !.startedAt = "old"], n)
  OBVIOUS
<1>7. /\ Grows(doc, resetStale(doc))
      /\ Stale(doc) => Accounted(resetStale(doc), n + 1)
  BY DEF resetStale, Stale
<1>8. Grows(doc, doc)
  OBVIOUS
<1> HIDE DEF Accounted, Grows, IsStored, JobDocs
<1> QED
  BY <1>1, <1>2, <1>3, <1>4, <1>5, <1>6, <1>7, <1>8 DEF markCompleted, markFailed

(* attempts and version of a document only grow; only the TTL index, which
   waits for every run of the job to end, takes them back. *)
LEMMA Monotone ==
  ASSUME TypeOK, AttemptsAccounted, [Next]_vars, NEW j \in Jobs, ~Expire(j)
  PROVE  /\ job'[j].attempts >= job[j].attempts
         /\ job'[j].version >= job[j].version
<1>1. job[j] \in JobDocs /\ resets[j] \in Nat /\ Accounted(job[j], resets[j])
  BY DEF TypeOK, AttemptsAccounted, Accounted
<1>2. Grows(job[j], job'[j])
  BY <1>1, OperationsAccounted, DocumentEvolution DEF Operated, Aged, GivenBack
<1> QED  BY <1>2 DEF Grows

(* A claimed run has its job, and the job of a run is not dropped. *)
LEMMA ClaimedTypes ==
  ASSUME TypeOK, NEW r \in Runs, Claimed(r)
  PROVE  /\ JobOf(r) \in Jobs /\ ~Expire(JobOf(r))
         /\ run[r].attempt \in Nat /\ run[r].version \in Nat
         /\ job[JobOf(r)].attempts \in Nat /\ job[JobOf(r)].version \in Nat
<1>1. Busy(r)
  BY DEF Claimed, Busy
<1> QED  BY <1>1, RunTypes DEF Expire, JobDocs

LEMMA AccountedStep ==
  ASSUME TypeOK, TypeOK', AttemptsAccounted, RunsBehindDocument, [Next]_vars
  PROVE  AttemptsAccounted'
<1> SUFFICES ASSUME NEW j \in Jobs
             PROVE  /\ ~IsStored(job'[j]) => job'[j] = NoDoc
                    /\ job'[j].status = "running" => job'[j].attempts > 0
                    /\ job'[j].attempts <= resets'[j] + 1
                    /\ job'[j].status = "pending" => job'[j].attempts <= resets'[j]
                    /\ Range(performed'[j]) \subseteq 1 .. job'[j].attempts
                    /\ IsInjective(performed'[j])
  BY DEF AttemptsAccounted
<1>1. /\ job[j] \in JobDocs /\ job'[j] \in JobDocs
      /\ resets[j] \in Nat /\ performed[j] \in Histories
  BY DEF TypeOK
<1>2. /\ ~IsStored(job[j]) => job[j] = NoDoc
      /\ job[j].status = "running" => job[j].attempts > 0
      /\ job[j].attempts <= resets[j] + 1
      /\ job[j].status = "pending" => job[j].attempts <= resets[j]
      /\ Range(performed[j]) \subseteq 1 .. job[j].attempts
      /\ IsInjective(performed[j])
  BY DEF AttemptsAccounted
<1>3. CASE Expire(j)
  <2>1. job'[j] = NoDoc /\ performed'[j] = NoWork /\ resets'[j] = 0
    BY <1>3 DEF Expire, TypeOK
  <2>2. Range(performed'[j]) = {} /\ IsInjective(performed'[j])
    BY <2>1, EmptyHistory
  <2> QED  BY <2>1, <2>2 DEF NoDoc, IsStored
<1>4. CASE ~Expire(j)
  <2>1. Accounted(job'[j], resets'[j])
    <3>1. Accounted(job[j], resets[j])
      BY <1>2 DEF Accounted
    <3> QED  BY <3>1, <1>1, <1>4, OperationsAccounted, DocumentEvolution
                DEF Operated, Aged, GivenBack
  <2>2. /\ Range(performed'[j]) \subseteq 1 .. job'[j].attempts
        /\ IsInjective(performed'[j])
    <3>1. job'[j].attempts >= job[j].attempts
      BY <1>4, Monotone
    <3>2. CASE performed'[j] = performed[j]
      BY <3>1, <3>2, <1>1, <1>2 DEF JobDocs
    <3>3. ASSUME NEW r \in Runs, HandlerSucceeds(r), JobOf(r) = j,
                 performed'[j] = Append(performed[j], run[r].attempt)
          PROVE  /\ Range(performed'[j]) \subseteq 1 .. job'[j].attempts
                 /\ IsInjective(performed'[j])
      <4>1. Claimed(r) /\ run[r].pc = "handler"
        BY <3>3 DEF HandlerSucceeds, At, Claimed
      <4>2. /\ run[r].attempt \in 1 .. job[j].attempts
            /\ run[r].attempt \notin Range(performed[j])
        BY <4>1, <3>3 DEF RunsBehindDocument
      <4>3. run[r].attempt \in Nat
        BY <4>1, ClaimedTypes
      <4>4. /\ Range(performed'[j]) = Range(performed[j]) \cup {run[r].attempt}
            /\ IsInjective(performed'[j])
        BY <4>2, <4>3, <3>3, <1>1, <1>2, WorkAppended
      <4> QED  BY <4>2, <4>4, <3>1, <1>1, <1>2 DEF JobDocs
    <3> QED  BY <3>2, <3>3, <1>4, WorkEvolution
  <2> QED  BY <2>1, <2>2 DEF Accounted
<1> QED  BY <1>3, <1>4

LEMMA RunsBehindStep ==
  ASSUME TypeOK, TypeOK', AttemptsAccounted, RunsBehindDocument, ClaimExclusive,
         [Next]_vars
  PROVE  RunsBehindDocument'
<1> SUFFICES ASSUME NEW r \in Runs, Claimed(r)'
             PROVE  /\ run'[r].attempt \in 1 .. job'[JobOf(r)'].attempts
                    /\ run'[r].version <= job'[JobOf(r)'].version
                    /\ run'[r].pc \in {"publishClaimed", "heartbeat", "handler"} =>
                         run'[r].attempt \notin Range(performed'[JobOf(r)'])
                    /\ At(r, "complete")' =>
                         run'[r].attempt \in Range(performed'[JobOf(r)'])
                    /\ At(r, "markDead")' => Exhausted(r)'
  BY DEF RunsBehindDocument
<1>1. CASE /\ Claimed(r) /\ JobOf(r)' = JobOf(r)
           /\ run'[r].attempt = run[r].attempt
           /\ run'[r].version = run[r].version
           /\ run'[r].pc \in {"publishClaimed", "heartbeat", "handler"} =>
                /\ run[r].pc \in {"publishClaimed", "heartbeat", "handler"}
                /\ ~HandlerSucceeds(r)
           /\ At(r, "complete")' => At(r, "complete") \/ HandlerSucceeds(r)
           /\ At(r, "markDead")' => At(r, "markDead") \/ Exhausted(r)
  <2> DEFINE j == JobOf(r)
  <2>1. /\ j \in Jobs /\ ~Expire(j)
        /\ run[r].attempt \in Nat /\ run[r].version \in Nat
        /\ job[j].attempts \in Nat /\ job[j].version \in Nat
    BY <1>1, ClaimedTypes
  <2>2. job'[j].attempts \in Nat /\ job'[j].version \in Nat
    BY <2>1 DEF TypeOK, JobDocs
  <2>3. job'[j].attempts >= job[j].attempts /\ job'[j].version >= job[j].version
    BY <2>1, Monotone
  <2>4. /\ run[r].attempt \in 1 .. job[j].attempts
        /\ run[r].version <= job[j].version
        /\ run[r].pc \in {"publishClaimed", "heartbeat", "handler"} =>
             run[r].attempt \notin Range(performed[j])
        /\ At(r, "complete") => run[r].attempt \in Range(performed[j])
        /\ At(r, "markDead") => Exhausted(r)
    BY <1>1 DEF RunsBehindDocument
  <2>5. ASSUME NEW s \in Runs, HandlerSucceeds(s), JobOf(s) = j,
               performed'[j] = Append(performed[j], run[s].attempt)
        PROVE  Range(performed'[j]) = Range(performed[j]) \cup {run[s].attempt}
    <3>1. Claimed(s) /\ performed[j] \in Histories
      BY <2>1, <2>5 DEF HandlerSucceeds, At, Claimed, TypeOK
    <3> QED  BY <3>1, <2>5, ClaimedTypes, WorkAppended
  <2>6. ASSUME run'[r].pc \in {"publishClaimed", "heartbeat", "handler"}
        PROVE  run'[r].attempt \notin Range(performed'[j])
    <3>1. run[r].attempt \notin Range(performed[j]) /\ ~HandlerSucceeds(r)
      BY <1>1, <2>4, <2>6
    <3>2. ASSUME NEW s \in Runs, HandlerSucceeds(s), JobOf(s) = j
          PROVE  run[s].attempt # run[r].attempt
      <4>1. Claimed(s) /\ s # r
        BY <3>1, <3>2 DEF HandlerSucceeds, At, Claimed
      <4> QED  BY <4>1, <3>2, <1>1 DEF ClaimExclusive
    <3> QED  BY <3>1, <3>2, <1>1, <2>1, <2>5, WorkEvolution
  <2>7. ASSUME At(r, "complete")'
        PROVE  run'[r].attempt \in Range(performed'[j])
    <3>1. CASE At(r, "complete")
      BY <3>1, <1>1, <2>1, <2>4, <2>5, WorkEvolution
    <3>2. CASE HandlerSucceeds(r)
      <4>1. performed'[j] = Append(performed[j], run[r].attempt)
        BY <3>2, <2>1 DEF HandlerSucceeds, TypeOK
      <4>2. performed[j] \in Histories
        BY <2>1 DEF TypeOK
      <4> QED  BY <4>1, <4>2, <1>1, <2>1, WorkAppended
    <3> QED  BY <1>1, <2>7, <3>1, <3>2
  <2>8. At(r, "markDead")' => Exhausted(r)'
    BY <1>1, <2>4 DEF Exhausted
  <2> QED  BY <1>1, <2>1, <2>2, <2>3, <2>4, <2>6, <2>7, <2>8
<1>2. CASE Claim(r) /\ Claimable(job[JobOf(r)], run[r].version)
  <2>1. JobOf(r)' = JobOf(r) /\ JobOf(r) \in Jobs
    BY <1>2, ClaimEffect DEF JobOf
  <2>2. job[JobOf(r)].attempts \in Nat /\ job[JobOf(r)].version \in Nat
    BY <2>1 DEF TypeOK, JobDocs
  <2>3. Range(performed[JobOf(r)]) \subseteq 1 .. job[JobOf(r)].attempts
    BY <2>1 DEF AttemptsAccounted
  <2> QED  BY <1>2, <2>1, <2>2, <2>3, ClaimEffect DEF At
<1> QED  BY <1>1, <1>2, RunEvolution

LEMMA ClaimExclusiveStep ==
  ASSUME TypeOK, RunsBehindDocument, ClaimExclusive, [Next]_vars
  PROVE  ClaimExclusive'
<1> DEFINE Kept(r) == /\ Claimed(r) /\ JobOf(r)' = JobOf(r)
                      /\ run'[r].attempt = run[r].attempt
                      /\ run'[r].version = run[r].version
           Won(r) == Claim(r) /\ Claimable(job[JobOf(r)], run[r].version)
<1>1. ASSUME NEW r \in Runs, NEW s \in Runs, r # s, Won(r), Kept(s),
             JobOf(r)' = JobOf(s)'
      PROVE  run'[r].attempt # run'[s].attempt /\ run'[r].version # run'[s].version
  <2>1. JobOf(s) = JobOf(r)
    BY <1>1, ClaimEffect DEF JobOf
  <2>2. run[s].attempt <= job[JobOf(s)].attempts /\ run[s].version <= job[JobOf(s)].version
    BY <1>1 DEF RunsBehindDocument
  <2> QED  BY <1>1, <2>1, <2>2, ClaimedTypes, ClaimEffect
<1>2. ASSUME NEW r \in Runs, NEW s \in Runs, r # s, Won(r), Claimed(s)'
      PROVE  ~Won(s)
  <2>1. run'[s] = run[s]
    BY <1>2, RunFrame DEF RunStep
  <2> QED  BY <1>2, <2>1 DEF Claim, At, Claimed
<1>3. ASSUME NEW r \in Runs, Claimed(r)'
      PROVE  Kept(r) \/ Won(r)
  BY <1>3, RunEvolution
<1> SUFFICES ASSUME NEW r \in Runs, NEW s \in Runs, r # s,
                    Claimed(r)', Claimed(s)', JobOf(r)' = JobOf(s)'
             PROVE  run'[r].attempt # run'[s].attempt /\ run'[r].version # run'[s].version
  BY DEF ClaimExclusive
<1>4. CASE Kept(r) /\ Kept(s)
  BY <1>4 DEF ClaimExclusive
<1>5. CASE Won(r) /\ Kept(s)
  BY <1>1, <1>5
<1>6. CASE Kept(r) /\ Won(s)
  BY <1>1, <1>6
<1> QED  BY <1>2, <1>3, <1>4, <1>5, <1>6

-----------------------------------------------------------------------------
(* A dead document stays dead until the TTL index drops it. *)
LEMMA DeadStays ==
  ASSUME TypeOK, [Next]_vars, NEW j \in Jobs, job[j].status = "dead", ~Expire(j)
  PROVE  job'[j].status = "dead"
<1>1. job[j] \in JobDocs
  BY DEF TypeOK
<1>2. CASE Operated(j)
  BY <1>1, <1>2 DEF Operated, createJob, claimJob, markCompleted, markFailed,
                    markSettled, markDead, cancelJob, Claimable, Markable,
                    Cancellable, IsStored, JobDocs
<1> QED  BY <1>2, DocumentEvolution DEF Aged, GivenBack, Stale

LEMMA ResetsGrow ==
  ASSUME TypeOK, [Next]_vars, NEW j \in Jobs, ~Expire(j)
  PROVE  resets'[j] >= resets[j]
BY DocumentEvolution DEF GivenBack, TypeOK

LEMMA CancelEvolution ==
  ASSUME TypeOK, [Next]_vars, NEW q \in Requests,
         request'[q].pc \in {"zrem", "publishCancelled"}
  PROVE  \/ /\ request[q].pc \in {"zrem", "publishCancelled"}
            /\ request'[q].job = request[q].job
         \/ \E j \in Jobs : /\ SubmitCancel(q, j) /\ Cancellable(job[j])
                            /\ request'[q].job = j
<1> DEFINE Goal == \/ /\ request[q].pc \in {"zrem", "publishCancelled"}
                      /\ request'[q].job = request[q].job
                   \/ \E j \in Jobs : /\ SubmitCancel(q, j) /\ Cancellable(job[j])
                                      /\ request'[q].job = j
<1>1. CASE request'[q] = request[q]
  BY <1>1
<1>2. ASSUME NEW p \in Requests, NEW j \in Jobs,
             SubmitEnqueue(p, j) \/ SubmitCancel(p, j)
      PROVE  Goal
  <2>1. CASE p = q
    BY <1>2, <2>1 DEF SubmitEnqueue, SubmitCancel, TypeOK, DoneRequest
  <2>2. CASE p # q
    BY <1>1, <1>2, <2>2 DEF SubmitEnqueue, SubmitCancel, TypeOK
  <2> QED  BY <2>1, <2>2
<1>3. ASSUME NEW p \in Requests, RequestStep(p) \/ RequestFails(p)
      PROVE  Goal
  <2>1. CASE p # q
    BY <1>1, <1>3, <2>1
       DEF RequestStep, RequestFails, EnqueueZadd, CancelZrem, PublishScheduled,
           PublishCancelled, RequestPublish, TypeOK
  <2>2. CASE p = q /\ CancelZrem(p)
    <3>1. request[q] \in ActiveRequests
      BY <2>2, RequestTypes DEF CancelZrem, RequestCalls
    <3> QED  BY <2>2, <3>1 DEF CancelZrem, TypeOK, ActiveRequests
  <2>3. CASE p = q /\ ~CancelZrem(p)
    <3>1. request'[q].pc \in {"publishScheduled", "done"}
      BY <1>3, <2>3 DEF RequestStep, RequestFails, EnqueueZadd, PublishScheduled,
                        PublishCancelled, RequestPublish, TypeOK, DoneRequest,
                        ActiveRequests, NewRequest
    <3> QED  BY <3>1
  <2> QED  BY <2>1, <2>2, <2>3
<1>4. ASSUME NEW i \in Instances, Crash(i)
      PROVE  Goal
  <2>1. request'[q] = request[q] \/ request'[q] = DoneRequest
    BY <1>4 DEF Crash
  <2> QED  BY <1>1, <2>1 DEF DoneRequest
<1>5. CASE request' = request
  BY <1>1, <1>5
<1>6. ASSUME NEW r \in Runs, RunStep(r) \/ CallFails(r)
      PROVE  request' = request
  BY <1>6 DEF RunStep, CallFails, Find, Claim, PublishClaimed, WriteHeartbeat,
              HandlerSucceeds, HandlerThrows, Complete, RecordExecution,
              PublishCompleted, PublishFailed, MarkDead, CreateDeadLetter,
              MarkFailed, Reschedule, PublishRetrying
<1> QED
  BY <1>2, <1>3, <1>4, <1>5, <1>6
     DEF Next, vars, process, Peek, Remove, RemoveFails, Bootstrap,
         ScoreReached, ResetStaleJob, StaleAgeElapses, Expire

LEMMA CancelledStep ==
  ASSUME TypeOK, TypeOK', AttemptsAccounted, RunsBehindDocument,
         CancelledIsDead, CancelledNeverRuns, [Next]_vars
  PROVE  CancelledIsDead' /\ CancelledNeverRuns'
<1> SUFFICES ASSUME NEW q \in Requests,
                    request'[q].pc \in {"zrem", "publishCancelled"}
             PROVE  /\ job'[request'[q].job].status = "dead"
                    /\ \A r \in Runs :
                         Claimed(r)' /\ JobOf(r)' = request'[q].job =>
                           resets'[JobOf(r)'] > 0
  BY DEF CancelledIsDead, CancelledNeverRuns
<1>1. CASE /\ request[q].pc \in {"zrem", "publishCancelled"}
           /\ request'[q].job = request[q].job
  <2> DEFINE j == request[q].job
  <2>1. j \in Jobs /\ ~Expire(j)
    BY <1>1, RequestTypes DEF RequestCalls, Expire
  <2>2. job[j].status = "dead" /\ job'[j].status = "dead"
    BY <1>1, <2>1, DeadStays DEF CancelledIsDead
  <2>3. ASSUME NEW r \in Runs, Claimed(r)', JobOf(r)' = j
        PROVE  resets'[j] > 0
    <3>1. ~(Claim(r) /\ Claimable(job[JobOf(r)], run[r].version))
      BY <2>2, <2>3, ClaimEffect DEF Claimable, JobOf
    <3>2. Claimed(r) /\ JobOf(r) = j
      BY <2>3, <3>1, RunEvolution
    <3>3. resets[j] > 0
      BY <3>2, <1>1 DEF CancelledNeverRuns
    <3> QED  BY <3>3, <2>1, ResetsGrow DEF TypeOK
  <2> QED  BY <1>1, <2>2, <2>3
<1>2. ASSUME NEW j \in Jobs, SubmitCancel(q, j), Cancellable(job[j]),
             request'[q].job = j
      PROVE  /\ job'[j].status = "dead"
             /\ \A r \in Runs : Claimed(r)' /\ JobOf(r)' = j => resets'[j] > 0
  <2>1. job[j] \in JobDocs /\ job' = [job EXCEPT ![j] = cancelJob(job[j])]
    BY <1>2 DEF SubmitCancel, TypeOK
  <2>2. job'[j].status = "dead"
    BY <1>2, <2>1 DEF cancelJob, JobDocs, TypeOK
  <2>3. run' = run /\ resets' = resets
    BY <1>2 DEF SubmitCancel, history
  <2>4. ASSUME NEW r \in Runs, Claimed(r), JobOf(r) = j
        PROVE  resets[j] > 0
    <3>1. run[r].attempt \in 1 .. job[j].attempts
      BY <2>4 DEF RunsBehindDocument
    <3>2. job[j].attempts <= resets[j]
      BY <1>2 DEF AttemptsAccounted, Cancellable
    <3> QED  BY <3>1, <3>2 DEF TypeOK, JobDocs
  <2> QED  BY <2>2, <2>3, <2>4 DEF Claimed, JobOf
<1> QED  BY <1>1, <1>2, CancelEvolution

-----------------------------------------------------------------------------
(* Stored and never attempted, and the ways it can still be reached. *)
Fresh(j) == job[j].status = "pending" /\ job[j].attempts = 0

Reachable(j) ==
  \/ queue[j] # "absent"
  \/ \E q \in Requests : request[q].pc = "zadd" /\ request[q].job = j
  \/ \E r \in Runs :
       /\ JobOf(r) = j
       /\ \/ At(r, "find")
          \/ At(r, "claim") /\ run[r].version = job[j].version

(* A job that is fresh after a step was there before it, unchanged, or was
   not stored. *)
LEMMA FreshEvolution ==
  ASSUME TypeOK, AttemptsAccounted, [Next]_vars, NEW j \in Jobs, Fresh(j)',
         IsStored(job[j])
  PROVE  job'[j] = job[j]
<1>1. /\ job[j] \in JobDocs
      /\ job[j].status = "running" => job[j].attempts > 0
  BY DEF TypeOK, AttemptsAccounted
<1>2. CASE Operated(j)
  BY <1>1, <1>2 DEF Operated, createJob, claimJob, markCompleted, markFailed,
                    markSettled, markDead, cancelJob, DeadMarkable, Fresh, JobDocs
<1>3. ~Expire(j)
  BY DEF Expire, Fresh, NoDoc, TypeOK
<1>4. ~Aged(j) /\ ~GivenBack(j)
  BY <1>1, <1>3, Monotone DEF Aged, GivenBack, Stale, Fresh, JobDocs
<1> QED  BY <1>2, <1>3, <1>4, DocumentEvolution

LEMMA FreshStep ==
  ASSUME TypeOK, TypeOK', AttemptsAccounted, CancelledIsDead, FreshJobReachable,
         [Next]_vars
  PROVE  FreshJobReachable'
<1> SUFFICES ASSUME NEW j \in Jobs, Fresh(j)', crashes' = 0, faults' = 0
             PROVE  Reachable(j)'
  BY DEF FreshJobReachable, Fresh, Reachable, JobOf, At
<1> USE DEF mongo, bounds, history, process
<1>1. ASSUME IsStored(job[j]), crashes = 0, faults = 0
      PROVE  Fresh(j) /\ Reachable(j) /\ job'[j] = job[j]
  BY <1>1, FreshEvolution DEF Fresh, FreshJobReachable, Reachable
<1>2. ASSUME NEW q \in Requests, NEW k \in Jobs, SubmitEnqueue(q, k)
      PROVE  Reachable(j)'
  <2>1. CASE k = j
    BY <1>2, <2>1 DEF SubmitEnqueue, Reachable, TypeOK
  <2>2. CASE k # j
    <3>1. /\ job'[j] = job[j] /\ queue' = queue /\ run' = run
          /\ crashes = 0 /\ faults = 0
          /\ \A p \in Requests : request[p].pc = "zadd" => request'[p] = request[p]
      BY <1>2, <2>2 DEF SubmitEnqueue, TypeOK, NewRequest
    <3>2. IsStored(job[j])
      BY <3>1 DEF Fresh, IsStored
    <3> QED  BY <3>1, <3>2, <1>1 DEF Reachable, JobOf, At
  <2> QED  BY <2>1, <2>2
<1>3. ASSUME NEW q \in Requests, NEW k \in Jobs, SubmitCancel(q, k)
      PROVE  Reachable(j)'
  <2>1. /\ queue' = queue /\ run' = run /\ crashes = 0 /\ faults = 0
        /\ \A p \in Requests : request[p].pc = "zadd" => request'[p] = request[p]
    BY <1>3 DEF SubmitCancel, TypeOK, NewRequest
  <2>2. IsStored(job[j])
    BY <1>3 DEF SubmitCancel, cancelJob, Cancellable, Fresh, IsStored, TypeOK
  <2> QED  BY <2>1, <2>2, <1>1 DEF Reachable, JobOf, At
<1>4. ASSUME NEW q \in Requests, RequestStep(q)
      PROVE  Reachable(j)'
  <2>1. job' = job /\ run' = run /\ crashes = 0 /\ faults = 0
    BY <1>4 DEF RequestStep, EnqueueZadd, CancelZrem, PublishScheduled,
                PublishCancelled, RequestPublish
  <2>2. Fresh(j) /\ Reachable(j)
    BY <2>1, <1>1 DEF Fresh, IsStored
  <2>3. CASE EnqueueZadd(q)
    BY <2>1, <2>2, <2>3 DEF EnqueueZadd, Reachable, JobOf, At, TypeOK
  <2>4. CASE CancelZrem(q)
    <3>1. request[q].job # j
      BY <2>2, <2>4 DEF CancelledIsDead, CancelZrem, Fresh
    <3> QED  BY <2>1, <2>2, <2>4, <3>1 DEF CancelZrem, Reachable, JobOf, At, TypeOK
  <2>5. CASE PublishScheduled(q) \/ PublishCancelled(q)
    BY <2>1, <2>2, <2>5 DEF PublishScheduled, PublishCancelled, RequestPublish,
                            Reachable, JobOf, At, TypeOK
  <2> QED  BY <1>4, <2>3, <2>4, <2>5 DEF RequestStep
<1>5. ASSUME NEW i \in Instances, Peek(i) \/ Remove(i) \/ Bootstrap(i)
      PROVE  Reachable(j)'
  <2>1. job' = job /\ request' = request /\ crashes = 0 /\ faults = 0
    BY <1>5 DEF Peek, Remove, Bootstrap
  <2>2. Fresh(j) /\ Reachable(j)
    BY <2>1, <1>1 DEF Fresh, IsStored
  <2>3. CASE Peek(i) \/ Bootstrap(i)
    BY <2>1, <2>2, <2>3 DEF Peek, Bootstrap, Reachable, JobOf, At
  <2>4. CASE Remove(i)
    <3>1. PICK slots \in SUBSET IdleRuns : \E jobIn \in Bijection(slots, batch[i]) :
            run' = [r \in Runs |-> IF r \in slots THEN NewRun(i, jobIn[r])
                                                  ELSE run[r]]
      BY <2>4 DEF Remove
    <3>2. PICK jobIn \in Bijection(slots, batch[i]) :
            run' = [r \in Runs |-> IF r \in slots THEN NewRun(i, jobIn[r])
                                                  ELSE run[r]]
      BY <3>1
    <3>3. CASE j \in batch[i]
      <4>1. PICK r \in slots : jobIn[r] = j
        BY <3>2, <3>3 DEF Bijection, Surjection
      <4>2. r \in Runs /\ run'[r] = NewRun(i, j)
        BY <3>2, <4>1 DEF IdleRuns
      <4> QED  BY <4>2 DEF Reachable, NewRun, NoRun, JobOf, At
    <3>4. CASE j \notin batch[i]
      <4>1. queue'[j] = queue[j]
        BY <2>4, <3>4 DEF Remove, Without
      <4>2. \A r \in Runs : Busy(r) => run'[r] = run[r]
        BY <3>2 DEF IdleRuns
      <4> QED  BY <2>1, <2>2, <4>1, <4>2 DEF Reachable, JobOf, At, Busy
    <3> QED  BY <3>3, <3>4
  <2> QED  BY <1>5, <2>3, <2>4
<1>6. ASSUME NEW r \in Runs, RunStep(r)
      PROVE  Reachable(j)'
  <2>1. request' = request /\ crashes = 0 /\ faults = 0
    BY <1>6 DEF RunStep, Find, Claim, PublishClaimed, WriteHeartbeat,
           HandlerSucceeds, HandlerThrows, Complete, RecordExecution,
           PublishCompleted, PublishFailed, MarkDead, CreateDeadLetter,
           MarkFailed, Reschedule, PublishRetrying
  <2>2. IsStored(job[j])
    <3>1. Busy(r)
      BY <1>6 DEF RunStep, Busy, At, Find, Claim, PublishClaimed, WriteHeartbeat,
           HandlerSucceeds, HandlerThrows, Complete, RecordExecution,
           PublishCompleted, PublishFailed, MarkDead, CreateDeadLetter,
           MarkFailed, Reschedule, PublishRetrying
    <3>2. JobOf(r) \in Jobs
      BY <3>1, RunTypes
    <3>3. \/ job' = job
          \/ \E v : job' = [job EXCEPT ![JobOf(r)] = claimJob(job[JobOf(r)], v)]
          \/ \E v : job' = [job EXCEPT ![JobOf(r)] = markCompleted(job[JobOf(r)], v)]
          \/ \E v : job' = [job EXCEPT ![JobOf(r)] = markDead(job[JobOf(r)], v)]
          \/ \E v : job' = [job EXCEPT ![JobOf(r)] = markFailed(job[JobOf(r)], v)]
      BY <1>6 DEF RunStep, Find, Claim, PublishClaimed, WriteHeartbeat,
           HandlerSucceeds, HandlerThrows, Complete, RecordExecution,
           PublishCompleted, PublishFailed, MarkDead, CreateDeadLetter,
           MarkFailed, Reschedule, PublishRetrying
    <3> QED  BY <3>2, <3>3 DEF claimJob, markCompleted, markDead, markFailed,
                markSettled, Claimable, Markable, DeadMarkable, Fresh, IsStored,
                TypeOK
  <2>3. Fresh(j) /\ Reachable(j) /\ job'[j] = job[j]
    BY <1>1, <2>1, <2>2
  <2>4. queue[j] # "absent" => queue'[j] # "absent"
    BY <1>6 DEF RunStep, Find, Claim, PublishClaimed, WriteHeartbeat,
           HandlerSucceeds, HandlerThrows, Complete, RecordExecution,
           PublishCompleted, PublishFailed, MarkDead, CreateDeadLetter,
           MarkFailed, Reschedule, PublishRetrying, TypeOK
  <2>5. ASSUME NEW s \in Runs, JobOf(s) = j,
               \/ At(s, "find")
               \/ At(s, "claim") /\ run[s].version = job[j].version
        PROVE  Reachable(j)'
    <3>1. CASE s # r
      <4>1. run'[s] = run[s]
        BY <1>6, <3>1, RunFrame
      <4> QED  BY <4>1, <2>3, <2>5 DEF Reachable, JobOf, At
    <3>2. CASE s = r /\ Find(r)
      <4>1. run[r] \in ActiveRuns
        BY <3>2, RunTypes DEF Find, At, Busy
      <4>2. run'[r] = [run[r] EXCEPT !.pc = "claim", !.version = job[j].version]
        BY <2>2, <2>5, <3>2 DEF Find, TypeOK
      <4>3. run'[r].pc = "claim" /\ run'[r].job = j /\ run'[r].version = job[j].version
        BY <4>1, <4>2, <2>5, <3>2 DEF ActiveRuns, JobOf
      <4> QED  BY <4>3, <2>3 DEF Reachable, JobOf, At
    <3>3. CASE s = r /\ Claim(r)
      <4>1. Claimable(job[JobOf(r)], run[r].version)
        BY <2>3, <2>5, <3>3 DEF Claimable, Fresh, Claim, At
      <4>2. job'[j].attempts = job[j].attempts + 1
        BY <4>1, <2>5, <3>3, ClaimEffect
      <4> QED  BY <4>2, <2>3 DEF TypeOK, JobDocs
    <3>4. CASE s = r /\ ~(Find(r) \/ Claim(r))
      BY <1>6, <2>5, <3>4
         DEF RunStep, At, PublishClaimed, WriteHeartbeat,
             HandlerSucceeds, HandlerThrows, Complete, RecordExecution,
             PublishCompleted, PublishFailed, MarkDead, CreateDeadLetter,
             MarkFailed, Reschedule, PublishRetrying
    <3> QED  BY <3>1, <3>2, <3>3, <3>4
  <2> QED  BY <2>1, <2>3, <2>4, <2>5 DEF Reachable
<1>7. ASSUME NEW k \in Jobs,
             ScoreReached(k) \/ ResetStaleJob(k) \/ StaleAgeElapses(k) \/ Expire(k)
      PROVE  Reachable(j)'
  <2>1. /\ run' = run /\ request' = request /\ crashes = 0 /\ faults = 0
        /\ queue[j] # "absent" => queue'[j] # "absent"
    BY <1>7 DEF ScoreReached, ResetStaleJob, StaleAgeElapses, Expire, TypeOK
  <2>2. IsStored(job[j])
    BY <1>7 DEF ScoreReached, ResetStaleJob, StaleAgeElapses, Expire, Fresh,
                TypeOK, NoDoc, IsStored, Stale
  <2> QED  BY <2>1, <2>2, <1>1 DEF Reachable, JobOf, At
<1>8. CASE UNCHANGED vars
  BY <1>1, <1>8 DEF vars, Fresh, IsStored, Reachable, JobOf, At
<1>9. ~ \/ \E q \in Requests : RequestFails(q)
        \/ \E i \in Instances : RemoveFails(i) \/ Crash(i)
        \/ \E r \in Runs : CallFails(r)
  BY DEF RequestFails, RemoveFails, Crash, CallFails, TypeOK
<1> QED  BY <1>2, <1>3, <1>4, <1>5, <1>6, <1>7, <1>8, <1>9 DEF Next

-----------------------------------------------------------------------------
LEMMA InductiveInit == Init => InductiveInvariant
<1> SUFFICES ASSUME Init PROVE InductiveInvariant
  OBVIOUS
<1>1. TypeOK
  BY TypeInit
<1>2. /\ \A r \in Runs : run[r].pc = "idle"
      /\ \A q \in Requests : request[q].pc = "new"
      /\ \A j \in Jobs : job[j] = NoDoc /\ performed[j] = NoWork /\ resets[j] = 0
  BY DEF Init, NoRun, NewRequest
<1> QED
  BY <1>1, <1>2, EmptyHistory
     DEF InductiveInvariant, AttemptsAccounted, RunsBehindDocument, ClaimExclusive,
         CancelledIsDead, CancelledNeverRuns, FreshJobReachable, Claimed, NoDoc

LEMMA InductiveStep == InductiveInvariant /\ [Next]_vars => InductiveInvariant'
<1> SUFFICES ASSUME InductiveInvariant, [Next]_vars PROVE InductiveInvariant'
  OBVIOUS
<1> USE DEF InductiveInvariant
<1>1. TypeOK'
  BY TypeStep
<1>2. AttemptsAccounted'
  BY <1>1, AccountedStep
<1>3. RunsBehindDocument'
  BY <1>1, RunsBehindStep
<1>4. ClaimExclusive'
  BY ClaimExclusiveStep
<1>5. CancelledIsDead' /\ CancelledNeverRuns'
  BY <1>1, CancelledStep
<1>6. FreshJobReachable'
  BY <1>1, FreshStep
<1> QED  BY <1>1, <1>2, <1>3, <1>4, <1>5, <1>6

LEMMA Inductive == Spec => []InductiveInvariant
BY InductiveInit, InductiveStep, PTL DEF Spec

(* Two executions in flight for a job hold different attempts and versions:
   the MVCC claim of ADR-SCHED-001, for any number of instances. *)
THEOREM ClaimsAreExclusive == Spec => []ClaimExclusive
<1>1. InductiveInvariant => ClaimExclusive
  BY DEF InductiveInvariant
<1> QED  BY <1>1, Inductive, PTL

(* The work of a job is done at most once per stale reset, plus once: the
   history holds no attempt twice, and there are no more attempts. *)
THEOREM EffectsAreBudgeted == Spec => []EffectBudget
<1>1. InductiveInvariant => EffectBudget
  <2> SUFFICES ASSUME InductiveInvariant, NEW j \in Jobs
               PROVE  Len(performed[j]) <= resets[j] + 1
    BY DEF EffectBudget
  <2> DEFINE work == performed[j]
             n    == job[j].attempts
  <2>1. /\ work \in Histories /\ Range(work) \subseteq 1 .. n /\ IsInjective(work)
        /\ n <= resets[j] + 1 /\ n \in Nat /\ resets[j] \in Nat
    BY DEF InductiveInvariant, AttemptsAccounted, TypeOK, JobDocs
  <2> HIDE DEF work, n
  <2>2. Len(work) \in Nat /\ work \in [1 .. Len(work) -> Nat]
    BY <2>1 DEF Histories
  <2>3. work \in [1 .. Len(work) -> 1 .. n]
    BY <2>1, <2>2 DEF Range
  <2>4. work \in Injection(1 .. Len(work), 1 .. n)
    BY <2>1, <2>3 DEF Injection
  <2>5. ASSUME NEW m \in Nat
        PROVE  IsFiniteSet(1 .. m) /\ Cardinality(1 .. m) = m
    <3>1. 1 \in Int /\ m \in Int /\ (IF 1 > m THEN 0 ELSE m - 1 + 1) = m
      OBVIOUS
    <3> QED  BY <3>1, FS_Interval
  <2>6. Cardinality(1 .. Len(work)) <= Cardinality(1 .. n)
    BY <2>1, <2>4, <2>5, FS_Injection
  <2>7. Len(work) <= resets[j] + 1
    BY <2>1, <2>2, <2>5, <2>6
  <2> QED  BY <2>7 DEF work
<1> QED  BY <1>1, Inductive, PTL

(* A cancelled job has no execution in flight unless it was reset. *)
THEOREM CancelledJobsDoNotRun == Spec => []CancelledNeverRuns
<1>1. InductiveInvariant => CancelledNeverRuns
  BY DEF InductiveInvariant
<1> QED  BY <1>1, Inductive, PTL

(* Without crashes and failed calls no fresh job is lost to the queue. *)
THEOREM FreshJobsAreReachable == Spec => []FreshJobReachable
<1>1. InductiveInvariant => FreshJobReachable
  BY DEF InductiveInvariant
<1> QED  BY <1>1, Inductive, PTL

-----------------------------------------------------------------------------
(* What makes AuditPrecedes inductive: a run whose next call says something
   about its attempt has recorded the attempt, and announced it as failed
   before it gives the job up. *)
Recorded(r, status) == Record(JobOf(r), run[r].attempt, status) \in executions

AuditedRun(r) ==
  /\ At(r, "publishCompleted") => Recorded(r, "completed")
  /\ run[r].pc \in {"publishFailed", "markDead", "deadLetter", "markFailed",
                    "reschedule", "publishRetrying"} => Recorded(r, "failed")
  /\ run[r].pc \in {"markDead", "deadLetter"} =>
       /\ Exhausted(r)
       /\ Event("failed", JobOf(r), run[r].attempt) \in events
  /\ run[r].pc \in {"markFailed", "reschedule", "publishRetrying"} =>
       run[r].attempt < MaxAttempts

AuditInvariant == TypeOK /\ (\A r \in Runs : AuditedRun(r)) /\ AuditPrecedes

(* Records and events are only ever added. *)
LEMMA TrailGrows ==
  ASSUME [Next]_vars
  PROVE  executions \subseteq executions' /\ events \subseteq events'
<1> DEFINE Goal == executions \subseteq executions' /\ events \subseteq events'
<1> USE DEF mongo, bounds, history, process
<1>1. ASSUME NEW r \in Runs, RunStep(r) \/ CallFails(r)
      PROVE  Goal
  <2>1. CASE RecordExecution(r)
    BY <2>1 DEF RecordExecution
  <2>2. CASE ~RecordExecution(r)
    BY <1>1, <2>2
       DEF RunStep, CallFails, Find, Claim, PublishClaimed, WriteHeartbeat,
           HandlerSucceeds, HandlerThrows, Complete, PublishCompleted,
           PublishFailed, MarkDead, CreateDeadLetter, MarkFailed, Reschedule,
           PublishRetrying, Publish
  <2> QED  BY <2>1, <2>2
<1>2. ASSUME NEW q \in Requests,
             \/ RequestStep(q) \/ RequestFails(q)
             \/ \E k \in Jobs : SubmitEnqueue(q, k) \/ SubmitCancel(q, k)
      PROVE  Goal
  BY <1>2 DEF RequestStep, RequestFails, EnqueueZadd, CancelZrem,
              PublishScheduled, PublishCancelled, RequestPublish,
              SubmitEnqueue, SubmitCancel
<1>3. ASSUME NEW i \in Instances,
             Peek(i) \/ Remove(i) \/ RemoveFails(i) \/ Crash(i) \/ Bootstrap(i)
      PROVE  Goal
  BY <1>3 DEF Peek, Remove, RemoveFails, Crash, Bootstrap
<1>4. ASSUME NEW k \in Jobs,
             \/ ScoreReached(k) \/ ResetStaleJob(k) \/ StaleAgeElapses(k)
             \/ Expire(k)
      PROVE  Goal
  BY <1>4 DEF ScoreReached, ResetStaleJob, StaleAgeElapses, Expire
<1>5. CASE UNCHANGED vars
  BY <1>5 DEF vars
<1> QED  BY <1>1, <1>2, <1>3, <1>4, <1>5 DEF Next

(* Only a run's own step brings it to a call that says something. *)
LEMMA RunMoves ==
  ASSUME TypeOK, [Next]_vars, NEW r \in Runs
  PROVE  \/ run'[r] = run[r]
         \/ RunStep(r) \/ CallFails(r)
         \/ run'[r].pc \in {"idle", "find"}
<1> DEFINE Goal == \/ run'[r] = run[r]
                   \/ RunStep(r) \/ CallFails(r)
                   \/ run'[r].pc \in {"idle", "find"}
<1>1. ASSUME NEW s \in Runs, RunStep(s) \/ CallFails(s)
      PROVE  Goal
  <2>1. CASE s = r
    BY <1>1, <2>1
  <2>2. CASE s # r
    BY <1>1, <2>2, RunFrame
  <2> QED  BY <2>1, <2>2
<1>2. ASSUME NEW i \in Instances, Remove(i)
      PROVE  Goal
  <2>1. PICK slots \in SUBSET IdleRuns : \E jobIn \in Bijection(slots, batch[i]) :
          run' = [s \in Runs |-> IF s \in slots THEN NewRun(i, jobIn[s])
                                                ELSE run[s]]
    BY <1>2 DEF Remove
  <2> QED  BY <2>1 DEF NewRun, NoRun
<1>3. ASSUME NEW i \in Instances, Crash(i)
      PROVE  Goal
  BY <1>3 DEF Crash, NoRun
<1>4. CASE run' = run
  BY <1>4
<1> QED
  BY <1>1, <1>2, <1>3, <1>4
     DEF Next, vars, process, SubmitEnqueue, SubmitCancel, RequestStep,
         RequestFails, EnqueueZadd, CancelZrem, PublishScheduled,
         PublishCancelled, RequestPublish, Peek, RemoveFails, Bootstrap,
         ScoreReached, ResetStaleJob, StaleAgeElapses, Expire

(* The steps that bring a run to a call that says something keep its job and
   its attempt. *)
LEMMA Moved ==
  ASSUME TypeOK, NEW r \in Runs, Busy(r), NEW pc \in Calls, Goto(r, pc)
  PROVE  /\ run'[r].pc = pc
         /\ JobOf(r)' = JobOf(r)
         /\ run'[r].attempt = run[r].attempt
         /\ run[r].attempt \in Nat
<1>1. run[r] \in ActiveRuns
  BY RunTypes
<1> QED  BY <1>1 DEF Goto, TypeOK, ActiveRuns, JobOf

LEMMA AuditedStep ==
  ASSUME AuditInvariant, [Next]_vars, NEW r \in Runs
  PROVE  AuditedRun(r)'
<1> USE DEF AuditInvariant
<1>1. executions \subseteq executions' /\ events \subseteq events'
  BY TrailGrows
<1>2. CASE run'[r] = run[r]
  BY <1>1, <1>2 DEF AuditedRun, Recorded, At, JobOf, Exhausted
<1>3. CASE run'[r].pc \in {"idle", "find", "claim", "publishClaimed", "heartbeat",
                           "handler", "complete", "record", "recordFailure"}
  BY <1>3 DEF AuditedRun, At
<1>4. CASE RunStep(r) \/ CallFails(r)
  <2>0. Busy(r)
    BY <1>4 DEF RunStep, CallFails, Busy, At, MongoCalls, RedisCalls,
           RabbitCalls, Find, Claim, PublishClaimed, WriteHeartbeat,
           HandlerSucceeds, HandlerThrows, Complete, RecordExecution,
           PublishCompleted, PublishFailed, MarkDead, CreateDeadLetter,
           MarkFailed, Reschedule, PublishRetrying
  <2>1. run[r] \in ActiveRuns
    BY <2>0, RunTypes
  <2>m. ASSUME NEW pc \in Calls, Goto(r, pc)
        PROVE  /\ run'[r].pc = pc
               /\ JobOf(r)' = JobOf(r)
               /\ run'[r].attempt = run[r].attempt
               /\ run[r].attempt \in Nat
    BY <2>0, <2>m, Moved
  <2> USE DEF Calls, MongoCalls, RedisCalls, RabbitCalls
  <2>2. CASE Finish(r)
    BY <2>2, <1>3 DEF Finish, TypeOK, NoRun
  <2>3. CASE Find(r) \/ Claim(r)
    <3> DEFINE found == [run[r] EXCEPT !.pc = "claim",
                                       !.version = job[JobOf(r)].version]
               won   == [run[r] EXCEPT !.pc = "publishClaimed",
                                       !.version = run[r].version + 1,
                                       !.attempt = job[JobOf(r)].attempts + 1]
    <3>1. found.pc = "claim" /\ won.pc = "publishClaimed" /\ NoRun.pc = "idle"
      BY <2>1 DEF ActiveRuns, NoRun
    <3>2. \/ run' = [run EXCEPT ![r] = found]
          \/ run' = [run EXCEPT ![r] = won]
          \/ run' = [run EXCEPT ![r] = NoRun]
      BY <2>3 DEF Find, Claim
    <3> HIDE DEF found, won
    <3>3. run'[r] \in {found, won, NoRun}
      BY <3>2 DEF TypeOK
    <3> QED  BY <1>3, <3>1, <3>3
  <2>4. CASE PublishClaimed(r) \/ WriteHeartbeat(r) \/ HandlerSucceeds(r)
               \/ HandlerThrows(r) \/ Complete(r)
    BY <1>3, <2>m, <2>4 DEF PublishClaimed, WriteHeartbeat, HandlerSucceeds,
                            HandlerThrows, Complete
  <2>5. CASE RecordExecution(r)
    <3>1. CASE At(r, "record")
      <4>1. Recorded(r, "completed")' /\ run'[r].pc = "publishCompleted"
        BY <2>5, <2>m, <3>1 DEF RecordExecution, At, Recorded
      <4> QED  BY <4>1 DEF AuditedRun, At
    <3>2. CASE At(r, "recordFailure")
      <4>1. Recorded(r, "failed")' /\ run'[r].pc = "publishFailed"
        BY <2>5, <2>m, <3>2 DEF RecordExecution, At, Recorded
      <4> QED  BY <4>1 DEF AuditedRun, At
    <3> QED  BY <2>5, <3>1, <3>2 DEF RecordExecution
  <2>6. CASE PublishFailed(r)
    <3>1. /\ Recorded(r, "failed")
          /\ Goto(r, IF Exhausted(r) THEN "markDead" ELSE "markFailed")
          /\ Event("failed", JobOf(r), run[r].attempt) \in events'
      BY <2>6 DEF PublishFailed, Publish, AuditedRun, At
    <3>2. CASE Exhausted(r)
      <4>1. Goto(r, "markDead")
        BY <3>1, <3>2
      <4>2. /\ run'[r].pc = "markDead" /\ JobOf(r)' = JobOf(r)
            /\ run'[r].attempt = run[r].attempt
        BY <4>1, <2>m
      <4> QED  BY <1>1, <3>1, <3>2, <4>2 DEF AuditedRun, Recorded, At, Exhausted, JobOf
    <3>3. CASE ~Exhausted(r)
      <4>1. Goto(r, "markFailed")
        BY <3>1, <3>3
      <4>2. /\ run'[r].pc = "markFailed" /\ JobOf(r)' = JobOf(r)
            /\ run'[r].attempt = run[r].attempt /\ run[r].attempt \in Nat
        BY <4>1, <2>m
      <4>3. run[r].attempt < MaxAttempts
        BY <3>3, <4>2, MaxAttemptsAssumption DEF Exhausted
      <4> QED  BY <1>1, <3>1, <4>2, <4>3 DEF AuditedRun, Recorded, At, JobOf
    <3> QED  BY <3>2, <3>3
  <2>7. CASE MarkDead(r) \/ MarkFailed(r) \/ Reschedule(r)
    <3>1. /\ JobOf(r)' = JobOf(r) /\ run'[r].attempt = run[r].attempt
          /\ \/ run[r].pc = "markDead" /\ run'[r].pc = "deadLetter"
             \/ /\ run[r].pc \in {"markFailed", "reschedule"}
                /\ run'[r].pc \in {"reschedule", "publishRetrying"}
      BY <2>7, <2>m DEF MarkDead, MarkFailed, Reschedule, At
    <3>2. AuditedRun(r)
      OBVIOUS
    <3> QED  BY <1>1, <3>1, <3>2 DEF AuditedRun, Recorded, At, Exhausted, JobOf
  <2>8. CASE CallFails(r)
    BY <1>3, <2>m, <2>2, <2>8 DEF CallFails
  <2> QED
    BY <1>4, <2>2, <2>3, <2>4, <2>5, <2>6, <2>7, <2>8
       DEF RunStep, PublishCompleted, CreateDeadLetter, PublishRetrying
<1> QED  BY <1>2, <1>3, <1>4, RunMoves

(* Who adds what AuditPrecedes speaks of. *)
LEMMA TrailEvolution ==
  ASSUME TypeOK, [Next]_vars
  PROVE  /\ \A j \in Jobs :
              \/ deadLetters'[j] = deadLetters[j]
              \/ \E r \in Runs : /\ At(r, "deadLetter") /\ JobOf(r) = j
                                 /\ deadLetters'[j] = run[r].attempt
         /\ \A e \in events' :
              e \in events \/ e.type \notin {"completed", "retrying"}
              \/ \E r \in Runs :
                   \/ /\ At(r, "publishCompleted")
                      /\ e = Event("completed", JobOf(r), run[r].attempt)
                   \/ /\ At(r, "publishRetrying")
                      /\ e = Event("retrying", JobOf(r), run[r].attempt)
<1> DEFINE Letters == \A j \in Jobs :
              \/ deadLetters'[j] = deadLetters[j]
              \/ \E r \in Runs : /\ At(r, "deadLetter") /\ JobOf(r) = j
                                 /\ deadLetters'[j] = run[r].attempt
           Said(e) == \E r \in Runs :
                   \/ /\ At(r, "publishCompleted")
                      /\ e = Event("completed", JobOf(r), run[r].attempt)
                   \/ /\ At(r, "publishRetrying")
                      /\ e = Event("retrying", JobOf(r), run[r].attempt)
           Sayings == \A e \in events' :
              e \in events \/ e.type \notin {"completed", "retrying"} \/ Said(e)
<1> USE DEF mongo, bounds, history, process
<1>0. ASSUME deadLetters' = deadLetters, events' = events
      PROVE  Letters /\ Sayings
  BY <1>0
<1>1. ASSUME NEW r \in Runs, RunStep(r) \/ CallFails(r)
      PROVE  Letters /\ Sayings
  <2>1. CASE CreateDeadLetter(r)
    BY <2>1 DEF CreateDeadLetter, TypeOK
  <2>2. CASE PublishClaimed(r) \/ PublishFailed(r)
    <3>1. /\ deadLetters' = deadLetters
          /\ \A e \in events' : e \in events \/ e.type \in {"claimed", "failed"}
      BY <2>2 DEF PublishClaimed, PublishFailed, Publish, Event
    <3> QED  BY <3>1
  <2>3. CASE PublishCompleted(r)
    <3>1. /\ deadLetters' = deadLetters /\ At(r, "publishCompleted")
          /\ events' = events \cup {Event("completed", JobOf(r), run[r].attempt)}
      BY <2>3 DEF PublishCompleted, Publish
    <3> QED  BY <3>1
  <2>4. CASE PublishRetrying(r)
    <3>1. /\ deadLetters' = deadLetters /\ At(r, "publishRetrying")
          /\ events' = events \cup {Event("retrying", JobOf(r), run[r].attempt)}
      BY <2>4 DEF PublishRetrying, Publish
    <3> QED  BY <3>1
  <2>5. CASE ~(CreateDeadLetter(r) \/ PublishClaimed(r) \/ PublishFailed(r)
                 \/ PublishCompleted(r) \/ PublishRetrying(r))
    <3>1. deadLetters' = deadLetters /\ events' = events
      BY <1>1, <2>5
         DEF RunStep, CallFails, Find, Claim, WriteHeartbeat, HandlerSucceeds,
             HandlerThrows, Complete, RecordExecution, MarkDead, MarkFailed,
             Reschedule
    <3> QED  BY <3>1, <1>0
  <2> QED  BY <2>1, <2>2, <2>3, <2>4, <2>5
<1>2. ASSUME NEW q \in Requests,
             \/ RequestStep(q) \/ RequestFails(q)
             \/ \E k \in Jobs : SubmitEnqueue(q, k) \/ SubmitCancel(q, k)
      PROVE  Letters /\ Sayings
  <2>1. /\ deadLetters' = deadLetters
        /\ \A e \in events' : e \in events \/ e.type \in {"scheduled", "cancelled"}
    BY <1>2 DEF RequestStep, RequestFails, EnqueueZadd, CancelZrem,
              PublishScheduled, PublishCancelled, RequestPublish, Event,
              SubmitEnqueue, SubmitCancel
  <2> QED  BY <2>1
<1>3. ASSUME NEW i \in Instances,
             Peek(i) \/ Remove(i) \/ RemoveFails(i) \/ Crash(i) \/ Bootstrap(i)
      PROVE  Letters /\ Sayings
  BY <1>0, <1>3 DEF Peek, Remove, RemoveFails, Crash, Bootstrap
<1>4. ASSUME NEW k \in Jobs,
             \/ ScoreReached(k) \/ ResetStaleJob(k) \/ StaleAgeElapses(k)
             \/ Expire(k)
      PROVE  Letters /\ Sayings
  BY <1>0, <1>4 DEF ScoreReached, ResetStaleJob, StaleAgeElapses, Expire
<1>5. CASE UNCHANGED vars
  BY <1>0, <1>5 DEF vars
<1>6. Letters /\ Sayings
  BY <1>1, <1>2, <1>3, <1>4, <1>5 DEF Next
<1> QED  BY <1>6

LEMMA AuditStep == AuditInvariant /\ [Next]_vars => AuditInvariant'
<1> SUFFICES ASSUME AuditInvariant, [Next]_vars PROVE AuditInvariant'
  OBVIOUS
<1>1. TypeOK /\ TypeOK'
  BY TypeStep DEF AuditInvariant
<1>2. \A r \in Runs : AuditedRun(r) /\ AuditedRun(r)'
  BY AuditedStep DEF AuditInvariant
<1>3. executions \subseteq executions' /\ events \subseteq events'
  BY TrailGrows
<1>4. ASSUME NEW j \in Jobs, deadLetters'[j] # 0
      PROVE  /\ deadLetters'[j] >= MaxAttempts
             /\ Record(j, deadLetters'[j], "failed") \in executions'
             /\ Event("failed", j, deadLetters'[j]) \in events'
  <2>1. CASE deadLetters'[j] = deadLetters[j]
    BY <1>3, <1>4, <2>1 DEF AuditInvariant, AuditPrecedes
  <2>2. ASSUME NEW r \in Runs, At(r, "deadLetter"), JobOf(r) = j,
               deadLetters'[j] = run[r].attempt
        PROVE  /\ deadLetters'[j] >= MaxAttempts
               /\ Record(j, deadLetters'[j], "failed") \in executions'
               /\ Event("failed", j, deadLetters'[j]) \in events'
    BY <1>2, <1>3, <2>2 DEF AuditedRun, Recorded, Exhausted, At
  <2> QED  BY <1>1, <2>1, <2>2, TrailEvolution
<1>5. ASSUME NEW e \in events'
      PROVE  /\ e.type = "completed" =>
                  Record(e.job, e.attempt, "completed") \in executions'
             /\ e.type = "retrying" =>
                  /\ e.attempt < MaxAttempts
                  /\ Record(e.job, e.attempt, "failed") \in executions'
  <2>1. CASE e \in events
    BY <1>3, <2>1 DEF AuditInvariant, AuditPrecedes
  <2>2. ASSUME NEW r \in Runs, At(r, "publishCompleted"),
               e = Event("completed", JobOf(r), run[r].attempt)
        PROVE  /\ e.type = "completed"
               /\ Record(e.job, e.attempt, "completed") \in executions'
    BY <1>2, <1>3, <2>2 DEF AuditedRun, Recorded, Event
  <2>3. ASSUME NEW r \in Runs, At(r, "publishRetrying"),
               e = Event("retrying", JobOf(r), run[r].attempt)
        PROVE  /\ e.type = "retrying" /\ e.attempt < MaxAttempts
               /\ Record(e.job, e.attempt, "failed") \in executions'
    BY <1>2, <1>3, <2>3 DEF AuditedRun, Recorded, Event, At
  <2> QED  BY <1>1, <2>1, <2>2, <2>3, TrailEvolution
<1>6. AuditPrecedes'
  BY <1>4, <1>5 DEF AuditPrecedes
<1> QED  BY <1>1, <1>2, <1>6 DEF AuditInvariant

(* No dead letter, no completed and no retrying event without the execution
   record of its attempt, whatever crashes, rejects or is given back. *)
THEOREM AuditRunsAhead == Spec => []AuditPrecedes
<1>1. Init => AuditInvariant
  BY TypeInit DEF AuditInvariant, Init, AuditedRun, AuditPrecedes, At, NoRun
<1>2. AuditInvariant => AuditPrecedes
  BY DEF AuditInvariant
<1> QED  BY <1>1, <1>2, AuditStep, PTL DEF Spec

-----------------------------------------------------------------------------
(* JobExecution implements JobLifecycle: one step changes one job's entry, and
   each operation on a document is a step of the lifecycle or a stutter. *)
OneJob(j) ==
  \A k \in Jobs \ {j} : job'[k] = job[k] /\ performed'[k] = performed[k]

(* The TTL index finds settled documents only. *)
ExpiringIsSettled ==
  \A j \in Jobs : job[j].expires => job[j].status \in {"completed", "failed", "dead"}

LEMMA ExpiringStep ==
  ASSUME TypeOK, AttemptsAccounted, ExpiringIsSettled, [Next]_vars
  PROVE  ExpiringIsSettled'
<1> SUFFICES ASSUME NEW j \in Jobs
             PROVE  job'[j].expires => job'[j].status \in {"completed", "failed", "dead"}
  BY DEF ExpiringIsSettled
<1>1. /\ job[j] \in JobDocs
      /\ job[j].expires => job[j].status \in {"completed", "failed", "dead"}
  BY DEF TypeOK, ExpiringIsSettled
<1>2. CASE Operated(j)
  <2>1. PICK v \in Nat :
          job'[j] \in {createJob(job[j]), claimJob(job[j], v), markCompleted(job[j], v),
                      markFailed(job[j], v), markDead(job[j], v), cancelJob(job[j])}
    BY <1>2 DEF Operated
  <2> USE <1>1 DEF JobDocs
  <2>2. CASE job'[j] = createJob(job[j])
    BY <2>2 DEF createJob, NoDoc
  <2>3. CASE job'[j] = claimJob(job[j], v)
    BY <2>3 DEF claimJob, Claimable
  <2>4. CASE job'[j] = markCompleted(job[j], v) \/ job'[j] = markFailed(job[j], v)
    BY <2>4 DEF markCompleted, markFailed, markSettled
  <2>5. CASE job'[j] = markDead(job[j], v)
    BY <2>5 DEF markDead
  <2>6. CASE job'[j] = cancelJob(job[j])
    BY <2>6 DEF cancelJob
  <2> QED  BY <2>1, <2>2, <2>3, <2>4, <2>5, <2>6
<1>3. CASE Aged(j) \/ GivenBack(j)
  BY <1>1, <1>3 DEF Aged, GivenBack, Stale, resetStale, JobDocs
<1>4. CASE Expire(j)
  BY <1>4 DEF Expire, NoDoc, TypeOK
<1> QED  BY <1>1, <1>2, <1>3, <1>4, DocumentEvolution

(* One step changes the entry of one job at most. *)
LEMMA OneJobMoves ==
  ASSUME TypeOK, [Next]_vars
  PROVE  \/ job' = job /\ performed' = performed
         \/ \E j \in Jobs : OneJob(j)
<1> DEFINE Goal == \/ job' = job /\ performed' = performed
                   \/ \E j \in Jobs : OneJob(j)
<1> USE DEF mongo, bounds, history, process
<1>1. ASSUME NEW r \in Runs, RunStep(r) \/ CallFails(r)
      PROVE  Goal
  <2>1. CASE Claim(r) \/ Complete(r) \/ MarkDead(r) \/ MarkFailed(r)
    <3>1. JobOf(r) \in Jobs
      BY <2>1, RunTypes DEF Busy, At, Claim, Complete, MarkDead, MarkFailed
    <3>2. OneJob(JobOf(r))
      BY <2>1, <3>1 DEF OneJob, TypeOK, Claim, Complete, MarkDead, MarkFailed
    <3> QED  BY <3>1, <3>2
  <2>2. CASE HandlerSucceeds(r)
    <3>1. JobOf(r) \in Jobs
      BY <2>2, RunTypes DEF Busy, At, HandlerSucceeds
    <3>2. OneJob(JobOf(r))
      BY <2>2, <3>1 DEF OneJob, TypeOK, HandlerSucceeds
    <3> QED  BY <3>1, <3>2
  <2>3. CASE ~(Claim(r) \/ Complete(r) \/ MarkDead(r) \/ MarkFailed(r)
                 \/ HandlerSucceeds(r))
    BY <1>1, <2>3
       DEF RunStep, CallFails, Find, PublishClaimed, WriteHeartbeat, HandlerThrows,
           RecordExecution, PublishCompleted, PublishFailed, CreateDeadLetter,
           Reschedule, PublishRetrying
  <2> QED  BY <2>1, <2>2, <2>3
<1>2. ASSUME NEW q \in Requests, NEW k \in Jobs,
             SubmitEnqueue(q, k) \/ SubmitCancel(q, k)
      PROVE  Goal
  <2>1. OneJob(k)
    BY <1>2 DEF OneJob, SubmitEnqueue, SubmitCancel, TypeOK
  <2> QED  BY <2>1
<1>3. ASSUME NEW q \in Requests, RequestStep(q) \/ RequestFails(q)
      PROVE  Goal
  BY <1>3 DEF RequestStep, RequestFails, EnqueueZadd, CancelZrem,
              PublishScheduled, PublishCancelled, RequestPublish
<1>4. ASSUME NEW i \in Instances,
             Peek(i) \/ Remove(i) \/ RemoveFails(i) \/ Crash(i) \/ Bootstrap(i)
      PROVE  Goal
  BY <1>4 DEF Peek, Remove, RemoveFails, Crash, Bootstrap
<1>5. ASSUME NEW k \in Jobs,
             \/ ScoreReached(k) \/ ResetStaleJob(k) \/ StaleAgeElapses(k)
             \/ Expire(k)
      PROVE  Goal
  <2>1. OneJob(k)
    BY <1>5 DEF OneJob, ScoreReached, ResetStaleJob, StaleAgeElapses, Expire, TypeOK
  <2> QED  BY <2>1
<1>6. CASE UNCHANGED vars
  BY <1>6 DEF vars
<1> QED  BY <1>1, <1>2, <1>3, <1>4, <1>5, <1>6 DEF Next

(* What an operation can make of a document's status. *)
LEMMA OperationStatus ==
  ASSUME NEW doc \in JobDocs, NEW v \in Nat
  PROVE  /\ createJob(doc).status \in {doc.status, "pending"}
         /\ claimJob(doc, v).status \in {doc.status, "running"}
         /\ markCompleted(doc, v).status \in {doc.status, "completed"}
         /\ markFailed(doc, v).status \in {doc.status, "failed"}
         /\ markDead(doc, v).status \in {doc.status, "dead"}
         /\ \/ cancelJob(doc).status = doc.status
            \/ doc.status = "pending" /\ cancelJob(doc).status = "dead"
BY DEF JobDocs, createJob, claimJob, markCompleted, markFailed, markSettled,
       markDead, cancelJob, Cancellable

(* Work was done for a job that becomes completed; a job that becomes dead is
   pending, and then it is cancelled, or has its attempts used up. *)
SettledWithReason(j) ==
  /\ job'[j].status = "completed" =>
       job[j].status = "completed" \/ performed[j] # NoWork
  /\ job'[j].status = "dead" =>
       job[j].status \in {"dead", "pending"} \/ job[j].attempts >= MaxAttempts

LEMMA SettledHasReason ==
  ASSUME TypeOK, RunsBehindDocument, [Next]_vars, NEW j \in Jobs
  PROVE  SettledWithReason(j)
<1> USE DEF SettledWithReason, mongo, bounds, history, process
<1>1. ASSUME job'[j] = job[j]
      PROVE  SettledWithReason(j)
  BY <1>1
<1>2. ASSUME NEW r \in Runs, RunStep(r) \/ CallFails(r)
      PROVE  SettledWithReason(j)
  <2>1. CASE Claim(r) \/ Complete(r) \/ MarkDead(r) \/ MarkFailed(r)
    <3>1. Busy(r)
      BY <2>1 DEF Busy, At, Claim, Complete, MarkDead, MarkFailed
    <3>2. /\ JobOf(r) \in Jobs /\ job[JobOf(r)] \in JobDocs
          /\ MarkVersion(r) \in Nat
          /\ run[r].attempt \in Nat /\ run[r].version \in Nat
      BY <3>1, RunTypes
    <3>3. CASE JobOf(r) # j
      <4>1. job'[j] = job[j]
        BY <2>1, <3>2, <3>3 DEF Claim, Complete, MarkDead, MarkFailed, TypeOK
      <4> QED  BY <1>1, <4>1
    <3>4. CASE JobOf(r) = j /\ Claim(r)
      BY <3>2, <3>4, OperationStatus DEF Claim, TypeOK
    <3>5. CASE JobOf(r) = j /\ Complete(r)
      <4>1. job'[j].status \in {job[j].status, "completed"}
        BY <3>2, <3>5, OperationStatus DEF Complete, TypeOK
      <4>2. run[r].attempt \in Range(performed[j])
        BY <3>5 DEF RunsBehindDocument, Complete, At, Claimed
      <4> QED  BY <4>1, <4>2, EmptyHistory
    <3>6. CASE JobOf(r) = j /\ MarkDead(r)
      <4>1. job'[j].status \in {job[j].status, "dead"}
        BY <3>2, <3>6, OperationStatus DEF MarkDead, TypeOK
      <4>2. run[r].attempt \in 1 .. job[j].attempts /\ Exhausted(r)
        BY <3>6 DEF RunsBehindDocument, MarkDead, At, Claimed
      <4>3. job[j].attempts >= MaxAttempts
        BY <3>2, <3>6, <4>2, MaxAttemptsAssumption DEF Exhausted, JobDocs
      <4> QED  BY <4>1, <4>3
    <3>7. CASE JobOf(r) = j /\ MarkFailed(r)
      BY <3>2, <3>7, OperationStatus DEF MarkFailed, TypeOK
    <3> QED  BY <2>1, <3>3, <3>4, <3>5, <3>6, <3>7
  <2>2. CASE ~(Claim(r) \/ Complete(r) \/ MarkDead(r) \/ MarkFailed(r))
    BY <1>1, <1>2, <2>2
       DEF RunStep, CallFails, Find, PublishClaimed, WriteHeartbeat,
           HandlerSucceeds, HandlerThrows, RecordExecution, PublishCompleted,
           PublishFailed, CreateDeadLetter, Reschedule, PublishRetrying
  <2> QED  BY <2>1, <2>2
<1>3. ASSUME NEW q \in Requests, NEW k \in Jobs,
             SubmitEnqueue(q, k) \/ SubmitCancel(q, k)
      PROVE  SettledWithReason(j)
  <2>1. job[k] \in JobDocs /\ (k # j => job'[j] = job[j])
    BY <1>3 DEF SubmitEnqueue, SubmitCancel, TypeOK
  <2> QED
    BY <1>1, <1>3, <2>1, OperationStatus DEF SubmitEnqueue, SubmitCancel, TypeOK
<1>4. ASSUME NEW q \in Requests, RequestStep(q) \/ RequestFails(q)
      PROVE  SettledWithReason(j)
  BY <1>1, <1>4 DEF RequestStep, RequestFails, EnqueueZadd, CancelZrem,
                    PublishScheduled, PublishCancelled, RequestPublish
<1>5. ASSUME NEW i \in Instances,
             Peek(i) \/ Remove(i) \/ RemoveFails(i) \/ Crash(i) \/ Bootstrap(i)
      PROVE  SettledWithReason(j)
  BY <1>1, <1>5 DEF Peek, Remove, RemoveFails, Crash, Bootstrap
<1>6. ASSUME NEW k \in Jobs,
             \/ ScoreReached(k) \/ ResetStaleJob(k) \/ StaleAgeElapses(k)
             \/ Expire(k)
      PROVE  SettledWithReason(j)
  <2>1. job'[j] \in {job[j], resetStale(job[j]),
                     [job[j] EXCEPT !.startedAt = "old"], NoDoc}
    BY <1>6 DEF ScoreReached, ResetStaleJob, StaleAgeElapses, Expire, TypeOK
  <2>2. job[j] \in JobDocs
    BY DEF TypeOK
  <2>3. /\ resetStale(job[j]).status \in {job[j].status, "pending"}
        /\ [job[j] EXCEPT !.startedAt = "old"].status = job[j].status
        /\ NoDoc.status = "absent"
    BY <2>2 DEF resetStale, NoDoc, JobDocs
  <2> QED  BY <1>1, <2>1, <2>3
<1>7. CASE UNCHANGED vars
  BY <1>1, <1>7 DEF vars
<1> QED  BY <1>2, <1>3, <1>4, <1>5, <1>6, <1>7 DEF Next

(* What a step does to one entry, seen as the lifecycle sees it. *)
Seen(j) == \/ job'[j].status = job[j].status /\ job'[j].attempts = job[j].attempts
           \/ /\ job[j].status = "absent" /\ job'[j].status = "pending"
              /\ job'[j].attempts = job[j].attempts
           \/ /\ job[j].status = "pending" /\ job'[j].status = "running"
              /\ job'[j].attempts = job[j].attempts + 1
           \/ /\ job[j].status = "running"
              /\ job'[j].status \in {"completed", "failed", "pending"}
              /\ job'[j].attempts = job[j].attempts
           \/ /\ job[j].status # "absent" /\ job'[j].status = "dead"
              /\ job'[j].attempts = job[j].attempts

LEMMA OperationSeen ==
  ASSUME TypeOK, AttemptsAccounted, NEW j \in Jobs,
         Operated(j) \/ Aged(j) \/ GivenBack(j)
  PROVE  Seen(j)
<1>1. job[j] \in JobDocs /\ (~IsStored(job[j]) => job[j] = NoDoc)
  BY DEF TypeOK, AttemptsAccounted
<1> USE <1>1 DEF JobDocs
<1>2. CASE Operated(j)
  <2>1. PICK v \in Nat :
          job'[j] \in {createJob(job[j]), claimJob(job[j], v), markCompleted(job[j], v),
                      markFailed(job[j], v), markDead(job[j], v), cancelJob(job[j])}
    BY <1>2 DEF Operated
  <2>2. CASE job'[j] = createJob(job[j])
    BY <2>2 DEF createJob, NoDoc, IsStored, Seen
  <2>3. CASE job'[j] = claimJob(job[j], v)
    BY <2>3 DEF claimJob, Claimable, Seen
  <2>4. CASE job'[j] = markCompleted(job[j], v) \/ job'[j] = markFailed(job[j], v)
    BY <2>4 DEF markCompleted, markFailed, markSettled, Markable, Seen
  <2>5. CASE job'[j] = markDead(job[j], v)
    BY <2>5 DEF markDead, DeadMarkable, IsStored, Seen
  <2>6. CASE job'[j] = cancelJob(job[j])
    BY <2>6 DEF cancelJob, Cancellable, Seen
  <2> QED  BY <2>1, <2>2, <2>3, <2>4, <2>5, <2>6
<1>3. CASE Aged(j)
  BY <1>3 DEF Aged, Seen
<1>4. CASE GivenBack(j)
  BY <1>4 DEF GivenBack, Stale, resetStale, Seen
<1> QED  BY <1>2, <1>3, <1>4

(* From the entry of one job to the functions the lifecycle is about. *)
LEMMA Lifted ==
  ASSUME NEW j \in Jobs, OneJob(j), TypeOK, TypeOK'
  PROVE  /\ [k \in Jobs |-> job'[k].status] =
              [[k \in Jobs |-> job[k].status] EXCEPT ![j] = job'[j].status]
         /\ [k \in Jobs |-> job'[k].attempts] =
              [[k \in Jobs |-> job[k].attempts] EXCEPT ![j] = job'[j].attempts]
         /\ job'[j].status = job[j].status =>
              [k \in Jobs |-> job'[k].status] = [k \in Jobs |-> job[k].status]
         /\ job'[j].attempts = job[j].attempts =>
              [k \in Jobs |-> job'[k].attempts] = [k \in Jobs |-> job[k].attempts]
         /\ performed'[j] = performed[j] => performed' = performed
<1>1. \A k \in Jobs : k # j => job'[k] = job[k] /\ performed'[k] = performed[k]
  BY DEF OneJob
<1>2. performed'[j] = performed[j] => performed' = performed
  BY <1>1 DEF TypeOK
<1> QED  BY <1>1, <1>2

LEMMA LifecycleStep ==
  ASSUME InductiveInvariant, TypeOK', ExpiringIsSettled, [Next]_vars
  PROVE  [Lifecycle!LNext]_(Lifecycle!lifeVars)
<1> DEFINE Goal == [Lifecycle!LNext]_(Lifecycle!lifeVars)
<1>0. TypeOK /\ AttemptsAccounted /\ RunsBehindDocument
  BY DEF InductiveInvariant
<1>1. CASE job' = job /\ performed' = performed
  BY <1>1 DEF Lifecycle!lifeVars
<1>2. ASSUME NEW j \in Jobs, OneJob(j)
      PROVE  Goal
  <2>l. /\ [k \in Jobs |-> job'[k].status] =
             [[k \in Jobs |-> job[k].status] EXCEPT ![j] = job'[j].status]
        /\ [k \in Jobs |-> job'[k].attempts] =
             [[k \in Jobs |-> job[k].attempts] EXCEPT ![j] = job'[j].attempts]
        /\ job'[j].status = job[j].status =>
             [k \in Jobs |-> job'[k].status] = [k \in Jobs |-> job[k].status]
        /\ job'[j].attempts = job[j].attempts =>
             [k \in Jobs |-> job'[k].attempts] = [k \in Jobs |-> job[k].attempts]
        /\ performed'[j] = performed[j] => performed' = performed
    BY <1>0, <1>2, Lifted
  <2>1. CASE Expire(j)
    <3>1. /\ job[j].expires /\ job'[j] = NoDoc
          /\ performed' = [performed EXCEPT ![j] = NoWork]
      BY <1>0, <2>1 DEF Expire, TypeOK
    <3>2. job[j].status \in {"completed", "failed", "dead"}
      BY <3>1 DEF ExpiringIsSettled
    <3>3. Lifecycle!Forget(j)
      BY <2>l, <3>1, <3>2 DEF Lifecycle!Forget, Lifecycle!Settled, Lifecycle!Become,
                              NoDoc, NoWork
    <3> QED  BY <3>3 DEF Lifecycle!LNext
  <2>2. ASSUME NEW r \in Runs, HandlerSucceeds(r), JobOf(r) = j
        PROVE  Goal
    <3>1. Claimed(r)
      BY <2>2 DEF HandlerSucceeds, At, Claimed
    <3>2. /\ job' = job
          /\ performed' = [performed EXCEPT ![j] = Append(performed[j], run[r].attempt)]
          /\ run[r].pc = "handler"
      BY <2>2 DEF HandlerSucceeds, mongo, At
    <3>3. run[r].attempt \in (1 .. job[j].attempts) \ Range(performed[j])
      BY <1>0, <2>2, <3>1, <3>2 DEF RunsBehindDocument
    <3>4. Lifecycle!Perform(j)
      <4>1. \E k \in (1 .. job[j].attempts) \ Range(performed[j]) :
              performed' = [performed EXCEPT ![j] = Append(performed[j], k)]
        BY <3>2, <3>3, Zenon
      <4> QED  BY <3>2, <4>1 DEF Lifecycle!Perform, Lifecycle!Range, Range
    <3> QED  BY <3>4 DEF Lifecycle!LNext
  <2>3. CASE performed'[j] = performed[j] /\ ~Expire(j)
    <3>0. SettledWithReason(j)
      BY <1>0, SettledHasReason
    <3>1. performed' = performed
      BY <2>3, <2>l
    <3>2. Seen(j)
      BY <1>0, <2>3, DocumentEvolution, OperationSeen DEF Seen
    <3>3. CASE job'[j].status = job[j].status /\ job'[j].attempts = job[j].attempts
      BY <2>l, <3>1, <3>3 DEF Lifecycle!lifeVars
    <3>4. CASE /\ job[j].status = "absent" /\ job'[j].status = "pending"
               /\ job'[j].attempts = job[j].attempts
      <4>1. Lifecycle!Create(j)
        BY <2>l, <3>1, <3>4 DEF Lifecycle!Create, Lifecycle!Become
      <4> QED  BY <4>1 DEF Lifecycle!LNext
    <3>5. CASE /\ job[j].status = "pending" /\ job'[j].status = "running"
               /\ job'[j].attempts = job[j].attempts + 1
      <4>1. Lifecycle!Start(j)
        BY <2>l, <3>1, <3>5 DEF Lifecycle!Start, Lifecycle!Become
      <4> QED  BY <4>1 DEF Lifecycle!LNext
    <3>6. CASE /\ job[j].status = "running"
               /\ job'[j].status \in {"completed", "failed", "pending"}
               /\ job'[j].attempts = job[j].attempts
      <4>1. job'[j].status = "completed" => Lifecycle!Complete(j)
        BY <2>l, <3>0, <3>1, <3>6 DEF SettledWithReason, Lifecycle!Complete,
                                      Lifecycle!Become, NoWork
      <4>2. job'[j].status = "failed" => Lifecycle!Fail(j)
        BY <2>l, <3>1, <3>6 DEF Lifecycle!Fail, Lifecycle!Become
      <4>3. job'[j].status = "pending" => Lifecycle!GiveBack(j)
        BY <2>l, <3>1, <3>6 DEF Lifecycle!GiveBack, Lifecycle!Become
      <4> QED  BY <3>6, <4>1, <4>2, <4>3 DEF Lifecycle!LNext
    <3>7. CASE /\ job[j].status \notin {"absent", "dead"}
               /\ job'[j].status = "dead"
               /\ job'[j].attempts = job[j].attempts
      <4>1. job[j].status = "pending" => Lifecycle!Cancel(j)
        BY <2>l, <3>1, <3>7 DEF Lifecycle!Cancel, Lifecycle!Become
      <4>2. job[j].attempts >= MaxAttempts => Lifecycle!GiveUp(j)
        BY <2>l, <3>1, <3>7 DEF Lifecycle!GiveUp, Lifecycle!Become
      <4> QED  BY <3>0, <3>7, <4>1, <4>2 DEF SettledWithReason, Lifecycle!LNext
    <3> QED  BY <3>2, <3>3, <3>4, <3>5, <3>6, <3>7 DEF Seen
  <2> QED  BY <1>0, <2>1, <2>2, <2>3, WorkEvolution
<1> QED  BY <1>0, <1>1, <1>2, OneJobMoves

(* Whatever runs, crashes, rejects or is submitted twice, a job goes through
   the statuses of the lifecycle, an attempt is begun by one claim and works at
   most once, no job is completed without work, and none that was not
   cancelled becomes dead with attempts left. *)
THEOREM ImplementsLifecycle == Spec => LifecycleImplemented
<1>1. Init => Lifecycle!LInit
  BY DEF Init, Lifecycle!LInit, NoDoc, NoWork
<1>2. Init => ExpiringIsSettled
  BY DEF Init, ExpiringIsSettled, NoDoc
<1>3. /\ InductiveInvariant /\ ExpiringIsSettled /\ [Next]_vars =>
           ExpiringIsSettled'
      /\ InductiveInvariant => TypeOK
  BY ExpiringStep DEF InductiveInvariant
<1>4. /\ InductiveInvariant /\ TypeOK' /\ ExpiringIsSettled /\ [Next]_vars
      => [Lifecycle!LNext]_(Lifecycle!lifeVars)
  BY LifecycleStep
<1> QED
  BY <1>1, <1>2, <1>3, <1>4, Inductive, PTL
     DEF Spec, LifecycleImplemented, Lifecycle!LSpec
=============================================================================
