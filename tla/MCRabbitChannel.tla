-------------------------- MODULE MCRabbitChannel --------------------------
(* Small instances of RabbitChannel for TLC. *)
EXTENDS RabbitChannel

=============================================================================
