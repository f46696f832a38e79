------------------------- MODULE MC_TxSchedulerLive -------------------------
(* TxSchedulerLive on two slots and a flash that works. *)
EXTENDS TxSchedulerLive

MCIds == 1 .. MaxId
MCOkOnly == {"ok"}
=============================================================================
