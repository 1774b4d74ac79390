------------------------------ MODULE MCOutbox ------------------------------
(* The instance of the outbox that TLC checks.                             *)
EXTENDS Outbox, TLC
=============================================================================
