-------------------------- MODULE MCOutboxDelivery --------------------------
(* A small instance of OutboxDelivery for TLC: one worker, two events. *)
EXTENDS OutboxDelivery
=============================================================================
