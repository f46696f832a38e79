--------------------------- MODULE MC_TxScheduler ---------------------------
(* TxScheduler on two slots: small sets of ids, outcomes and requests. *)
EXTENDS TxScheduler, TLC

MCIds == 1 .. MaxId
MCAllOutcomes == {"ok", "failed", "uncommitted"}
MCOkOnly == {"ok"}
=============================================================================
