------------------------- MODULE MC_ForwardQueues -------------------------
(* ForwardQueues with short queues. *)
EXTENDS ForwardQueues
=============================================================================
