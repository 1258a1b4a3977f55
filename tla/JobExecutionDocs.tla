-------------------------- MODULE JobExecutionDocs --------------------------
(***************************************************************************)
(* What the documents and comments of the repository say of job execution  *)
(* and the code does not do.  Each property quotes its statement; a run    *)
(* of its own finds the behaviour that breaks it.                          *)
(***************************************************************************)
EXTENDS JobExecution

(* docs/adr/ADR-SCHEDULER-004:49: "If a job executes but the completion
   event fails to publish to RabbitMQ, the MongoDB record still shows
   status: completed."  Of the current attempt of a job: once its completed
   record is written, the document is not still "running".  The executor
   passes claimed.version + 1, a version the document does not have yet. *)
ExecutedJobIsCompleted ==
  \A j \in Jobs :
    Record(j, job[j].attempts, "completed") \in executions =>
      job[j].status # "running"

(* rabbitmq.consumer.ts:20: "job.retrying > retry scheduled after failure".
   The retry that a retrying event announces is made, or the job is settled
   otherwise.  ZADD XX does not add the member that dequeue removed. *)
AnnouncedRetryHappens ==
  \A j \in Jobs, k \in 1 .. MaxAttempts :
    Event("retrying", j, k) \in events
      ~> \/ job[j].attempts > k
         \/ job[j].status \in {"completed", "dead", "absent"}
=============================================================================
