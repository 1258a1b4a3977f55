--------------------------- MODULE MCOutboxDelivery ---------------------------
(* Instances of OutboxDelivery for TLC. *)
EXTENDS OutboxDelivery, TLC

InstanceSymmetry == Permutations(Instances)
Symmetry == Permutations(Events) \cup Permutations(Instances)
=============================================================================
