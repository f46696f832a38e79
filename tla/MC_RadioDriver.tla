--------------------------- MODULE MC_RadioDriver ---------------------------
(* Two submitting tasks, short queues and streaks that wrap early; few     *)
(* attempts and a few failing transfers.                                   *)
EXTENDS RadioDriver

CONSTANTS t1, t2
MCTasks == {t1, t2}
=============================================================================
