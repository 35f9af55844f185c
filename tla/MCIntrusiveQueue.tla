-------------------------- MODULE MCIntrusiveQueue --------------------------
(* Small instances of IntrusiveQueue, with the history of IntrusiveQueueFifo. *)
EXTENDS IntrusiveQueueFifo

MCSpec == FifoSpec /\ Fairness
=============================================================================
