-------------------------- MODULE MCLeaderElection --------------------------
(* Small instances of LeaderElection for TLC.  The unit of time is a third of
   HEARTBEAT_INTERVAL_MS, 5 seconds. *)
EXTENDS LeaderElection, FiniteSets, TLC

InStep == {0}          \* clocks that agree

(* Bound: two kinds of trouble in one behaviour. *)
TwoTroubles == Cardinality({k \in Troubles : troubles[k] > 0}) <= 2

Symmetry == Permutations(Instances)
=============================================================================
