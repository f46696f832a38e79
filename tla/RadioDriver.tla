----------------------------- MODULE RadioDriver ----------------------------
(***************************************************************************)
(* The radio driver (lora_radio.c): the queues the transmit task selects   *)
(* from (RadioQueues), and what it, the receive task and the chip do once  *)
(* it has a request (LoraRadio).                                           *)
(*                                                                         *)
(* The two meet at one place, where each takes the other as anything it    *)
(* may do: to the queues a request is served at any later time; to the     *)
(* driver a request may come whenever it has none.  So a behaviour here    *)
(* follows one of them and leaves the other as it is.                      *)
(***************************************************************************)
EXTENDS RadioQueues, LoraRadio

VARIABLE part       \* the part that is followed

driverVars == <<radioVars, loraVars, part>>

\* A step of one part.
InQueues(A) == part = "queues" /\ A /\ UNCHANGED <<loraVars, part>>
InChip(A) == part = "chip" /\ A /\ UNCHANGED <<radioVars, part>>

DriverInit == part \in {"queues", "chip"} /\ RadioInit /\ LoraInit
DriverNext == InQueues(RadioNext) \/ InChip(LoraNext)

\* The fairness of RadioSpec and of LoraSpec.
DriverSpec ==
    /\ DriverInit /\ [][DriverNext]_driverVars
    /\ WF_driverVars(InQueues(lora_tx_task))
    /\ \A t \in Tasks : WF_driverVars(InQueues(xTaskNotifyGive(t)))
    /\ WF_driverVars(InChip(lora_execute_tx)) /\ WF_driverVars(InChip(lora_rx_task))
=============================================================================
