---------------------------- MODULE JobLifecycle ----------------------------
(***************************************************************************)
(* What the scheduler promises of one job, whoever runs it and whatever    *)
(* fails: the statuses it may go through, that every attempt is begun by   *)
(* one claim, that no attempt does the work of its handler twice, that a   *)
(* job is completed only when an attempt did its work, and that a job is   *)
(* given up only with its attempts used up.  JobExecution implements this  *)
(* module; it says nothing of Redis, RabbitMQ or the instances.            *)
(***************************************************************************)
EXTENDS Naturals, Sequences, Functions

CONSTANTS Jobs, MaxAttempts

VARIABLES
  status, attempts,
  done        \* history: job -> the attempts that did their work, in order

lifeVars == <<status, attempts, done>>

Settled == {"completed", "failed", "dead"}

LInit ==
  /\ status = [j \in Jobs |-> "absent"]
  /\ attempts = [j \in Jobs |-> 0]
  /\ done = [j \in Jobs |-> <<>>]

Become(j, s) == status' = [status EXCEPT ![j] = s]

Create(j) ==
  /\ status[j] = "absent"
  /\ Become(j, "pending")
  /\ UNCHANGED <<attempts, done>>

(* A claim: the only way to "running", and it numbers the attempt. *)
Start(j) ==
  /\ status[j] = "pending"
  /\ Become(j, "running")
  /\ attempts' = [attempts EXCEPT ![j] = @ + 1]
  /\ UNCHANGED done

(* The handler of one attempt did its work; the job's status may have moved
   on by then.  The work of an attempt adds to the history each time it is
   done, so doing it again is no step of this module. *)
Perform(j) ==
  /\ \E k \in (1 .. attempts[j]) \ Range(done[j]) :
       done' = [done EXCEPT ![j] = Append(@, k)]
  /\ UNCHANGED <<status, attempts>>

(* Of a running job whose work was done, by this attempt or an earlier one. *)
Complete(j) ==
  /\ status[j] = "running"
  /\ done[j] # <<>>
  /\ Become(j, "completed")
  /\ UNCHANGED <<attempts, done>>

Fail(j) ==
  /\ status[j] = "running"
  /\ Become(j, "failed")
  /\ UNCHANGED <<attempts, done>>

Cancel(j) ==
  /\ status[j] = "pending"
  /\ Become(j, "dead")
  /\ UNCHANGED <<attempts, done>>

(* markDead filters no status, so it may come late, to a job that another
   attempt has completed; it never takes an attempt that is left. *)
GiveUp(j) ==
  /\ attempts[j] >= MaxAttempts
  /\ Become(j, "dead")
  /\ UNCHANGED <<attempts, done>>

(* The stale reset. *)
GiveBack(j) ==
  /\ status[j] = "running"
  /\ Become(j, "pending")
  /\ UNCHANGED <<attempts, done>>

(* The TTL index. *)
Forget(j) ==
  /\ status[j] \in Settled
  /\ Become(j, "absent")
  /\ attempts' = [attempts EXCEPT ![j] = 0]
  /\ done' = [done EXCEPT ![j] = <<>>]

LNext ==
  \E j \in Jobs :
    \/ Create(j) \/ Start(j) \/ Perform(j) \/ Complete(j) \/ Fail(j)
    \/ Cancel(j) \/ GiveUp(j) \/ GiveBack(j) \/ Forget(j)

LSpec == LInit /\ [][LNext]_lifeVars
=============================================================================
