--------------------------- MODULE MCJobExecution ---------------------------
(* Small instances of JobExecution for TLC. *)
EXTENDS JobExecutionDocs, TLC

(* Runs, requests and instances are interchangeable.  Jobs are too, but the
   refinement and the liveness runs gain nothing from it. *)
Symmetry == Permutations(Runs) \cup Permutations(Requests)
              \cup Permutations(Instances)

(* Bound: a crash or a rejected call, not both in one behaviour. *)
CrashOrFault == crashes + faults <= 1

(* Bound: a document is reset as stale once. *)
OneReset == \A j \in Jobs : resets[j] <= 1
=============================================================================
