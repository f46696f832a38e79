--------------------------- MODULE TxSchedulerLive ---------------------------
(***************************************************************************)
(* What must eventually happen to an outgoing message, and the promise of  *)
(* Outbox, on a flash that works.                                          *)
(***************************************************************************)
EXTENDS TxScheduler

\* The scheduler task runs forever with a one second delay, ticks advance,
\* and the HTTP server finishes a request it has begun.  Nothing is assumed
\* of the radio task or of other nodes, nor that users keep sending.
Fairness ==
    /\ WF_vars(SchedulerTask)
    /\ WF_vars(mesh_sequence_save \/ QueueAllocate \/ QueueWrite \/ tx_scheduler_submit)
    /\ \A e \in Slots : WF_vars(TimePasses(e))

LiveSpec == Spec /\ Fairness

RecordOf(id) == {s \in Slots : /\ ram[s] # NoMessage
                               /\ ram[s].direction = "TX"
                               /\ ram[s].id = id}

\* The user's view of the store.
Mail(id) ==
    IF id \notin accepted THEN "new"
    ELSE IF RecordOf(id) = {} THEN "dropped"
    ELSE LET m == ram[Min(RecordOf(id))]
         IN  CASE IsPendingTx(m)                     -> "pending"
               [] state_for_message(m) = "ACKED"     -> "delivered"
               [] OTHER                              -> "failed"

Promise == INSTANCE Outbox WITH
    mail <- [id \in Ids |-> Mail(id)],
    heard <- {a[1] : a \in aired}

\* The node keeps the promise of Outbox: no accepted message is lost, ends
\* twice, comes back after a reboot, or is called delivered without having
\* been on the air; and each one ends (tx_scheduler.c, message_store.c).
KeepsPromise == Promise!OutboxSpec
=============================================================================
