------------------------------ MODULE JobStore ------------------------------
(***************************************************************************)
(* One document of the MongoDB collection "jobs" and the operations of     *)
(* JobRepository on it.  Every operation is one findOneAndUpdate (or, for  *)
(* resetStaleJobs, the per-document part of one updateMany): MongoDB       *)
(* evaluates the filter and applies the update to a document atomically.   *)
(* An operation whose filter does not match leaves the document alone and  *)
(* the code gets null back; each operator below therefore returns the      *)
(* document as the call leaves it.                                         *)
(*                                                                         *)
(* Abstracted: identity and payload fields, nextRunAt, lastError, the      *)
(* timestamps that no filter reads.  startedAt is kept as what the filter  *)
(* of resetStaleJobs can tell: unset, younger or older than the stale age. *)
(***************************************************************************)
EXTENDS Naturals

Statuses == {"pending", "running", "completed", "failed", "dead"}

JobDocs == [status    : Statuses \cup {"absent"},
            version   : Nat,
            attempts  : Nat,
            startedAt : {"unset", "recent", "old"},
            expires   : BOOLEAN]     \* expiresAt is set: the TTL index applies

NoDoc == [status |-> "absent", version |-> 0, attempts |-> 0,
          startedAt |-> "unset", expires |-> FALSE]

IsStored(doc) == doc.status # "absent"

-----------------------------------------------------------------------------
(* Faulty variants of the filters below, which the checks seed. *)
ClaimableAnyVersion(doc, v)  == doc.status = "pending"
ClaimableAnyStatus(doc, v)   == IsStored(doc) /\ doc.version = v
ClaimableNextVersion(doc, v) == doc.status = "pending" /\ doc.version = v + 1
CancellableRunning(doc)      == doc.status \in {"pending", "running"}
StaleAnyStatus(doc)          == doc.startedAt = "old"

-----------------------------------------------------------------------------
(* Upsert with $setOnInsert: an existing document, whatever its status, is
   returned untouched. *)
createJob(doc) ==
  IF IsStored(doc) THEN doc ELSE [NoDoc EXCEPT !.status = "pending"]

(* The filters.  markDead and cancelJob are not symmetric: markDead checks
   the version and no status, cancelJob the status and no version. *)
Claimable(doc, v)    == doc.status = "pending" /\ doc.version = v
Markable(doc, v)     == doc.status = "running" /\ doc.version = v
DeadMarkable(doc, v) == IsStored(doc) /\ doc.version = v
Cancellable(doc)     == doc.status = "pending"
Stale(doc)           == doc.status = "running" /\ doc.startedAt = "old"

claimJob(doc, v) ==
  IF Claimable(doc, v)
  THEN [doc EXCEPT !.status = "running", !.startedAt = "recent",
                   !.version = @ + 1, !.attempts = @ + 1]
  ELSE doc

(* markCompleted and markFailed; the pre("findOneAndUpdate") hook of the
   schema adds expiresAt because the new status is completed or failed. *)
markSettled(doc, v, status) ==
  IF Markable(doc, v)
  THEN [doc EXCEPT !.status = status, !.version = @ + 1, !.expires = TRUE]
  ELSE doc

markCompleted(doc, v) == markSettled(doc, v, "completed")
markFailed(doc, v)    == markSettled(doc, v, "failed")

markDead(doc, v) ==
  IF DeadMarkable(doc, v)
  THEN [doc EXCEPT !.status = "dead", !.version = @ + 1]
  ELSE doc

cancelJob(doc) ==
  IF Cancellable(doc) THEN [doc EXCEPT !.status = "dead"] ELSE doc

(* The version is left as it is: only the status and startedAt change. *)
resetStale(doc) ==
  IF Stale(doc) THEN [doc EXCEPT !.status = "pending", !.startedAt = "unset"]
  ELSE doc
=============================================================================
