---------------------------- MODULE RadioQueues ----------------------------
(***************************************************************************)
(* The request queues of the radio (lora_radio.c): tasks that submit       *)
(* requests, and the transmit task that chooses among the three queues and *)
(* sleeps when they are empty.                                             *)
(*                                                                         *)
(* Only how many requests wait in each queue matters here.  What becomes   *)
(* of a request is in TxScheduler.                                         *)
(***************************************************************************)
EXTENDS Integers

CONSTANTS
    Tasks,              \* the tasks that submit: scheduler, worker, receive task
    RadioQueueDepth,    \* 16 in the code
    StreakModulus       \* 256: the streaks are uint8_t

ASSUME RadioQueuesAssumption ==
    /\ RadioQueueDepth \in Nat \ {0}
    /\ StreakModulus \in Nat /\ StreakModulus > 4

Priorities == {"HIGH", "NORMAL", "LOW"}

VARIABLES
    lora_tx_request_queues,     \* how many requests wait, by priority
    high_streak, normal_streak,
    radio,          \* lora_tx_task: where it is, and the priority it serves
    seen,           \* high_waiting, normal_waiting, as far as it has looked
    notified,       \* lora_tx_task has a pending notification
    submitting,     \* the tasks between xQueueSend and xTaskNotifyGive
    overtaken       \* history: how many requests went before the oldest waiting one

radioVars == <<lora_tx_request_queues, high_streak, normal_streak, radio, seen,
               notified, submitting, overtaken>>

RadioTypeOK ==
    /\ lora_tx_request_queues \in [Priorities -> 0 .. RadioQueueDepth]
    /\ high_streak \in 0 .. StreakModulus - 1
    /\ normal_streak \in 0 .. StreakModulus - 1
    /\ radio \in [pc : {"high", "normal", "low", "sleep", "serve"}, priority : Priorities]
    /\ seen \in SUBSET {"HIGH", "NORMAL"}
    /\ notified \in BOOLEAN
    /\ submitting \in SUBSET Tasks
    /\ overtaken \in [{"HIGH", "LOW"} -> Nat]

Waiting(p) == lora_tx_request_queues[p] > 0

-----------------------------------------------------------------------------
(* lora_tx_submit                                                          *)

\* xQueueSend; a request for a full queue is refused.
lora_tx_submit(t, p) ==
    /\ t \notin submitting
    /\ lora_tx_request_queues[p] < RadioQueueDepth
    /\ lora_tx_request_queues' = [lora_tx_request_queues EXCEPT ![p] = @ + 1]
    /\ submitting' = submitting \cup {t}
    /\ UNCHANGED <<high_streak, normal_streak, radio, seen, notified, overtaken>>

\* Plausible bug: the transmit task is notified only when it already sleeps.
NotifySleeper(t) ==
    /\ t \in submitting
    /\ notified' = (notified \/ radio.pc = "sleep")
    /\ submitting' = submitting \ {t}
    /\ UNCHANGED <<lora_tx_request_queues, high_streak, normal_streak, radio, seen, overtaken>>

xTaskNotifyGive(t) ==
    /\ t \in submitting
    /\ notified' = TRUE
    /\ submitting' = submitting \ {t}
    /\ UNCHANGED <<lora_tx_request_queues, high_streak, normal_streak, radio, seen, overtaken>>

-----------------------------------------------------------------------------
(* lora_tx_task                                                            *)

\* uxQueueMessagesWaiting of the HIGH and of the NORMAL queue.  Requests may
\* arrive between one look and the next.
Look(p, here, next) ==
    /\ radio.pc = here
    /\ seen' = IF Waiting(p) THEN seen \cup {p} ELSE seen \ {p}
    /\ radio' = [radio EXCEPT !.pc = next]
    /\ UNCHANGED <<lora_tx_request_queues, high_streak, normal_streak, notified,
                   submitting, overtaken>>

\* A plausible bug: LOW waits for both streaks.
LowNeedsBoth == Waiting("LOW") /\ high_streak >= 4 /\ normal_streak >= 3

Longer(streak) == (streak + 1) % StreakModulus

LowOvertakes == Waiting("LOW") /\ (high_streak >= 4 \/ normal_streak >= 3)
NormalOvertakes == "NORMAL" \in seen /\ high_streak >= 4

\* What is served, with the streaks afterwards.
ServeLow == [priority |-> "LOW", high |-> 0, normal |-> 0]
ServeNormal == [priority |-> "NORMAL", high |-> 0, normal |-> Longer(normal_streak)]
ServeHigh == [priority |-> "HIGH", high |-> Longer(high_streak), normal |-> normal_streak]

Choice ==
    IF LowOvertakes THEN ServeLow
    ELSE IF NormalOvertakes THEN ServeNormal
    ELSE IF "HIGH" \in seen THEN ServeHigh
    ELSE IF "NORMAL" \in seen THEN ServeNormal
    ELSE ServeLow

Overtaking(p, served) == IF Waiting(p) /\ served # p THEN overtaken[p] + 1 ELSE 0

\* The third look finds a request somewhere: select a queue and receive.
Select ==
    /\ radio.pc = "low"
    /\ seen # {} \/ Waiting("LOW")
    /\ lora_tx_request_queues' = [lora_tx_request_queues EXCEPT ![Choice.priority] = @ - 1]
    /\ high_streak' = Choice.high
    /\ normal_streak' = Choice.normal
    /\ radio' = [pc |-> "serve", priority |-> Choice.priority]
    /\ overtaken' = [p \in {"HIGH", "LOW"} |-> Overtaking(p, Choice.priority)]
    /\ UNCHANGED <<seen, notified, submitting>>

\* Nothing was waiting: ulTaskNotifyTake.
GoToSleep ==
    /\ radio.pc = "low"
    /\ seen = {} /\ ~Waiting("LOW")
    /\ radio' = [radio EXCEPT !.pc = "sleep"]
    /\ UNCHANGED <<lora_tx_request_queues, high_streak, normal_streak, seen, notified,
                   submitting, overtaken>>

\* It returns at once if a notification is pending.
Wake ==
    /\ radio.pc = "sleep"
    /\ notified
    /\ notified' = FALSE
    /\ radio' = [radio EXCEPT !.pc = "high"]
    /\ UNCHANGED <<lora_tx_request_queues, high_streak, normal_streak, seen, submitting,
                   overtaken>>

\* lora_execute_tx and the report of its result, whatever it is.
Served ==
    /\ radio.pc = "serve"
    /\ radio' = [radio EXCEPT !.pc = "high"]
    /\ UNCHANGED <<lora_tx_request_queues, high_streak, normal_streak, seen, notified,
                   submitting, overtaken>>

lora_tx_task ==
    \/ Look("HIGH", "high", "normal")
    \/ Look("NORMAL", "normal", "low")
    \/ Select \/ GoToSleep \/ Wake \/ Served

-----------------------------------------------------------------------------
RadioInit ==
    /\ lora_tx_request_queues = [p \in Priorities |-> 0]
    /\ high_streak = 0 /\ normal_streak = 0
    /\ radio = [pc |-> "high", priority |-> "HIGH"]
    /\ seen = {}
    /\ notified = FALSE
    /\ submitting = {}
    /\ overtaken = [p \in {"HIGH", "LOW"} |-> 0]

Notify == \E t \in Tasks : xTaskNotifyGive(t)

RadioNext ==
    \/ \E t \in Tasks, p \in Priorities : lora_tx_submit(t, p)
    \/ Notify
    \/ lora_tx_task

\* The transmit task is an endless loop whose waits are bounded, except for
\* the sleep; a task that has sent a request goes on to notify.  Nothing is
\* assumed of who submits, how often and with which priority.
RadioSpec ==
    /\ RadioInit /\ [][RadioNext]_radioVars
    /\ WF_radioVars(lora_tx_task)
    /\ \A t \in Tasks : WF_radioVars(xTaskNotifyGive(t))

-----------------------------------------------------------------------------
(* Properties                                                              *)

\* Under any load routine traffic gets its turn, and cannot hold up emergency
\* traffic: while a LOW request waits at most 12 others are served (4 HIGH or
\* NORMAL for each of 3 NORMAL), while a HIGH one waits at most 2, whatever the
\* streaks were when it came, and when they wrap (lora_radio.c:524-545).
OvertakingBounded == overtaken["LOW"] <= 12 /\ overtaken["HIGH"] <= 2

\* A HIGH and a LOW request in the radio's queue are served: no wake-up is lost,
\* wherever the sender is interrupted and the transmit task is about to sleep
\* (lora_radio.c:391-395, 546-549).  It is not stated for NORMAL: with HIGH and
\* LOW always waiting, LOW takes every turn that HIGH gives up.
HighAndLowAreServed ==
    \A p \in {"HIGH", "LOW"} :
        Waiting(p) ~> radio = [pc |-> "serve", priority |-> p]
=============================================================================
