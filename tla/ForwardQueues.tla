--------------------------- MODULE ForwardQueues ---------------------------
(***************************************************************************)
(* The forward queues (forward_queue.c): three queues of packets to relay, *)
(* and the forwarding worker that receives from them with budgets and      *)
(* without a timeout.                                                      *)
(*                                                                         *)
(* Only how many jobs wait in each queue matters here.  What the worker    *)
(* does with a job is in MeshNetwork.                                      *)
(***************************************************************************)
EXTENDS Integers

CONSTANT FORWARD_QUEUE_DEPTH

ASSUME ForwardQueuesAssumption == FORWARD_QUEUE_DEPTH \in Nat \ {0}

Priorities == {"HIGH", "NORMAL", "LOW"}

VARIABLES
    forward_queues,             \* how many jobs wait, by priority
    normal_budget, low_budget,
    worker,         \* forward_worker_task: where it is in forward_queue_receive
    holding,        \* the priority of the job it received last
    overtaken       \* history: how many jobs went before the oldest waiting one

forwardVars == <<forward_queues, normal_budget, low_budget, worker, holding, overtaken>>

ForwardTypeOK ==
    /\ forward_queues \in [Priorities -> 0 .. FORWARD_QUEUE_DEPTH]
    /\ normal_budget \in 0 .. 2
    /\ low_budget \in 0 .. 1
    /\ worker \in {"high", "normal", "low", "wait", "holding"}
    /\ holding \in Priorities
    /\ overtaken \in [{"HIGH", "LOW"} -> Nat]

-----------------------------------------------------------------------------
\* A job for a full queue is dropped.
forward_queue_enqueue(p) ==
    /\ forward_queues[p] < FORWARD_QUEUE_DEPTH
    /\ forward_queues' = [forward_queues EXCEPT ![p] = @ + 1]
    /\ UNCHANGED <<normal_budget, low_budget, worker, holding, overtaken>>

\* HIGH jobs may go before LOW ones without limit and are not counted there.
Overtaking(q, p) ==
    IF forward_queues[q] = 0 \/ p = q THEN 0
    ELSE IF q = "LOW" /\ p = "HIGH" THEN overtaken[q]
    ELSE overtaken[q] + 1

\* xQueueReceive gets a job of priority p.
xQueueReceive(p) ==
    /\ forward_queues[p] > 0
    /\ forward_queues' = [forward_queues EXCEPT ![p] = @ - 1]
    /\ worker' = "holding" /\ holding' = p
    /\ overtaken' = [q \in {"HIGH", "LOW"} |-> Overtaking(q, p)]

\* Nothing to receive from this queue, or no budget for it: on to the next.
GoOn(here, next, condition) ==
    /\ worker = here
    /\ condition
    /\ worker' = next
    /\ UNCHANGED <<forward_queues, normal_budget, low_budget, holding, overtaken>>

\* A plausible bug: the wait grants a full budget.
WaitRefillsBudget ==
    /\ worker = "wait"
    /\ xQueueReceive("NORMAL")
    /\ normal_budget' = 2
    /\ low_budget' = 1

\* forward_queue_receive, one queue after the other.
ReceiveHigh ==
    /\ worker = "high"
    /\ xQueueReceive("HIGH")
    /\ UNCHANGED <<normal_budget, low_budget>>

ReceiveNormal ==
    /\ worker = "normal" /\ normal_budget > 0
    /\ xQueueReceive("NORMAL")
    /\ normal_budget' = normal_budget - 1
    /\ low_budget' = 1

ReceiveLow ==
    /\ worker = "low" /\ low_budget > 0
    /\ xQueueReceive("LOW")
    /\ low_budget' = low_budget - 1
    /\ normal_budget' = 2

\* The receive that waits, without timeout, and for this queue only.  The one
\* for LOW that follows it in the code is never reached.
WaitForNormal ==
    /\ worker = "wait"
    /\ xQueueReceive("NORMAL")
    /\ normal_budget' = 1
    /\ low_budget' = 1

\* The job is forwarded, suppressed, cannot be built or is refused by the
\* radio: in all cases the worker's loop goes round.
JobDone ==
    /\ worker = "holding"
    /\ worker' = "high"
    /\ UNCHANGED <<forward_queues, normal_budget, low_budget, holding, overtaken>>

forward_worker_task ==
    \/ ReceiveHigh \/ GoOn("high", "normal", forward_queues["HIGH"] = 0)
    \/ ReceiveNormal \/ GoOn("normal", "low", normal_budget = 0 \/ forward_queues["NORMAL"] = 0)
    \/ ReceiveLow \/ GoOn("low", "wait", low_budget = 0 \/ forward_queues["LOW"] = 0)
    \/ WaitForNormal
    \/ JobDone

-----------------------------------------------------------------------------
ForwardInit ==
    /\ forward_queues = [p \in Priorities |-> 0]
    /\ normal_budget = 2 /\ low_budget = 1
    /\ worker = "high" /\ holding = "HIGH"
    /\ overtaken = [q \in {"HIGH", "LOW"} |-> 0]

ForwardNext ==
    \/ \E p \in Priorities : forward_queue_enqueue(p)
    \/ forward_worker_task

\* The worker is an endless loop: it goes on unless it waits for a job.
\* Nothing is assumed of the packets that are heard.
ForwardSpec ==
    ForwardInit /\ [][ForwardNext]_forwardVars /\ WF_forwardVars(forward_worker_task)

-----------------------------------------------------------------------------
(* Properties                                                              *)

\* Once the worker receives jobs again, a waiting HIGH one is overtaken at most
\* once, by the job the worker was already waiting for or had polled before,
\* and a waiting LOW one by at most 2 NORMAL ones, whatever the budgets were
\* when it came (forward_queue.c:53-76).
ForwardOvertakingBounded == overtaken["HIGH"] <= 1 /\ overtaken["LOW"] <= 2

\* A job in the HIGH queue is received by the worker: "Emergency traffic should
\* not wait behind routine traffic" (DOCS.md:1032).
EmergencyIsForwarded ==
    forward_queues["HIGH"] > 0 ~> (worker = "holding" /\ holding = "HIGH")
=============================================================================
