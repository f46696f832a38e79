----------------------------- MODULE LoraRadio -----------------------------
(***************************************************************************)
(* The driver of the SX1278 (lora_radio.c): the transmit task with channel *)
(* activity detection (CAD), transmission, time-out and recovery; the      *)
(* receive task; and the chip, whose DIO0 line both tasks wait for through *)
(* one binary semaphore.                                                   *)
(*                                                                         *)
(* The queues in front of the transmit task are in RadioQueues.  SPI       *)
(* transfers that follow each other without a wait are one step, which     *)
(* fails as a whole after any of them.  Frames have no contents here.      *)
(***************************************************************************)
EXTENDS Integers

CONSTANTS
    CadAttempts,            \* 3 in the code
    RecoveryLimit,          \* 3 in the code
    MaxFailures             \* bound: how many SPI transfers fail

ASSUME LoraAssumption ==
    /\ CadAttempts \in Nat \ {0}
    /\ RecoveryLimit \in Nat
    /\ MaxFailures \in Nat

VARIABLES
    lora_state,
    chip,           \* [mode, flags (REG_IRQ_FLAGS), dio (REG_DIO_MAPPING_1), configured]
    lora_dio0_semaphore,
    lora_recovery_attempts,
    tx,             \* lora_tx_task in lora_execute_tx: [pc, attempt, result]
    rx,             \* where lora_rx_task is
    failures,       \* SPI transfers that have failed
    missed,         \* history: a failed transfer was ignored, the chip is not as meant
    onAir           \* history: the frame of the last transmission was sent entirely

loraVars == <<lora_state, chip, lora_dio0_semaphore, lora_recovery_attempts, tx, rx,
               failures, missed, onAir>>

States == {"RX", "TX", "CAD", "FAULT", "RECOVERING"}
Modes == {"SLEEP", "STDBY", "TX", "RX_CONTINUOUS", "CAD"}
Flags == {"TX_DONE", "CAD_DONE", "CAD_DETECTED", "RX_DONE", "CRC_ERROR"}
MappedFlags == {"RX_DONE", "TX_DONE", "CAD_DONE"}   \* mappings 0x00, 0x40, 0x80
Results == {"NONE", "SUCCESS", "RADIO_FAULT", "ABORTED", "CHANNEL_BUSY", "SPI_ERROR", "TIMEOUT"}

LoraTypeOK ==
    /\ lora_state \in States
    /\ chip \in [mode : Modes, flags : SUBSET Flags, dio : MappedFlags, configured : BOOLEAN]
    /\ lora_dio0_semaphore \in BOOLEAN
    /\ lora_recovery_attempts \in 0 .. RecoveryLimit
    /\ tx \in [pc : {"idle", "cad_start", "cad_wait", "write", "mode", "wait", "recover",
                     "bring_up", "finish"},
               attempt : 0 .. CadAttempts - 1,
               result : Results]
    /\ rx \in {"wait", "look", "read", "clear", "clear_bad", "handle"}
    /\ failures \in 0 .. MaxFailures
    /\ missed \in BOOLEAN
    /\ onAir \in BOOLEAN

-----------------------------------------------------------------------------
(* The chip, and the SPI transfers to it.                                  *)

Dio0(c) == c.dio \in c.flags

\* The chip changes; a rising DIO0 gives the semaphore (lora_dio0_isr_handler).
ChipBecomes(c, semaphore) ==
    /\ chip' = c
    /\ lora_dio0_semaphore' = (semaphore \/ (~Dio0(chip) /\ Dio0(c)))

\* Transfers succeed, or one of them fails and its caller is told so.
SpiOk == UNCHANGED failures
SpiFails == failures < MaxFailures /\ failures' = failures + 1

\* The chip after lora_receive_mode, and after one of whose three writes some
\* failed: those failures are ignored.
Receiving(c) == [c EXCEPT !.dio = "RX_DONE", !.flags = {}, !.mode = "RX_CONTINUOUS"]
PartlyReceiving(c) ==
    {[c EXCEPT !.dio = d, !.flags = f, !.mode = m] :
        d \in {c.dio, "RX_DONE"}, f \in {c.flags, {}}, m \in {c.mode, "RX_CONTINUOUS"}}

\* Takes the semaphore as it is before; the caller sets the state, to RX.
ReceiveModeOk(semaphore) ==
    ChipBecomes(Receiving(chip), semaphore) /\ missed' = FALSE
ReceiveModePartly(semaphore) ==
    /\ \E c \in PartlyReceiving(chip) : ChipBecomes(c, semaphore)
    /\ missed' = TRUE
lora_receive_mode(semaphore) ==
    (SpiOk /\ ReceiveModeOk(semaphore)) \/ (SpiFails /\ ReceiveModePartly(semaphore))

\* A frame was received.
ChipReceives ==
    /\ chip.mode = "RX_CONTINUOUS" /\ chip.configured
    /\ \E crc \in {{}, {"CRC_ERROR"}} :
          ChipBecomes([chip EXCEPT !.flags = @ \cup {"RX_DONE"} \cup crc], lora_dio0_semaphore)
    /\ UNCHANGED <<lora_state, lora_recovery_attempts, tx, rx, failures, missed, onAir>>

ChipCadDone ==
    /\ chip.mode = "CAD"
    /\ \E detected \in {{}, {"CAD_DETECTED"}} :
          ChipBecomes([chip EXCEPT !.mode = "STDBY", !.flags = @ \cup {"CAD_DONE"} \cup detected],
                      lora_dio0_semaphore)
    /\ UNCHANGED <<lora_state, lora_recovery_attempts, tx, rx, failures, missed, onAir>>

ChipTxDone ==
    /\ chip.mode = "TX"
    /\ ChipBecomes([chip EXCEPT !.mode = "STDBY", !.flags = @ \cup {"TX_DONE"}], lora_dio0_semaphore)
    /\ onAir' = TRUE
    /\ UNCHANGED <<lora_state, lora_recovery_attempts, tx, rx, failures, missed>>

-----------------------------------------------------------------------------
(* lora_execute_tx                                                         *)

TxAt(pc) == tx.pc = pc
TxGoes(pc) == tx' = [tx EXCEPT !.pc = pc]
TxReturns(result) == tx' = [tx EXCEPT !.pc = "idle", !.result = result]

\* A request is refused unless the radio is ready, which is tested twice;
\* encryption may fail.
StartTx ==
    /\ TxAt("idle")
    /\ \/ /\ lora_state # "RX"
          /\ TxReturns("RADIO_FAULT") \/ TxReturns("CHANNEL_BUSY")
          /\ UNCHANGED lora_state
       \/ /\ lora_state = "RX"
          /\ TxReturns("ABORTED")
          /\ UNCHANGED lora_state
       \/ /\ lora_state = "RX"
          /\ lora_state' = "CAD"
          /\ tx' = [pc |-> "cad_start", attempt |-> 0, result |-> "NONE"]
    /\ UNCHANGED <<chip, lora_dio0_semaphore, lora_recovery_attempts, rx, failures, missed, onAir>>

\* lora_channel_clear gives up with CHANNEL_BUSY and without recovery.
CadFails ==
    /\ SpiFails
    /\ lora_state' = "FAULT"
    /\ TxReturns("CHANNEL_BUSY")

CadStart ==
    /\ TxAt("cad_start")
    /\ \/ /\ SpiOk
          /\ ChipBecomes([chip EXCEPT !.mode = "CAD", !.dio = "CAD_DONE", !.flags = {}],
                         lora_dio0_semaphore)
          /\ TxGoes("cad_wait")
          /\ UNCHANGED lora_state
       \/ /\ CadFails
          /\ \E m \in {chip.mode, "STDBY"}, d \in {chip.dio, "CAD_DONE"}, f \in {chip.flags, {}} :
                ChipBecomes([chip EXCEPT !.mode = m, !.dio = d, !.flags = f], lora_dio0_semaphore)
    /\ UNCHANGED <<lora_recovery_attempts, rx, missed, onAir>>

ChannelClear == "CAD_DONE" \in chip.flags /\ "CAD_DETECTED" \notin chip.flags

\* After 10 ms the flags are read and cleared.  A busy channel is tried again,
\* at last it is given up, with the chip in standby and the state RX.
CadEnd ==
    /\ TxAt("cad_wait")
    /\ \/ /\ SpiOk
          /\ ChipBecomes([chip EXCEPT !.mode = "STDBY", !.flags = {}], lora_dio0_semaphore)
          /\ \/ /\ ChannelClear
                /\ lora_state' = "RX"
                /\ TxGoes("write")
             \/ /\ ~ChannelClear /\ tx.attempt + 1 < CadAttempts
                /\ tx' = [tx EXCEPT !.pc = "cad_start", !.attempt = @ + 1]
                /\ UNCHANGED lora_state
             \/ /\ ~ChannelClear /\ tx.attempt + 1 = CadAttempts
                /\ lora_state' = "RX"
                /\ TxReturns("CHANNEL_BUSY")
       \/ /\ CadFails
          /\ \E f \in {chip.flags, {}} :
                ChipBecomes([chip EXCEPT !.flags = f], lora_dio0_semaphore)
    /\ UNCHANGED <<lora_recovery_attempts, rx, missed, onAir>>

\* lora_enter_fault_internal, on the way to lora_radio_recover.
FaultAndRecover(result) ==
    /\ lora_state' = "FAULT"
    /\ tx' = [tx EXCEPT !.pc = "recover", !.result = result]

\* An old signal is taken off the semaphore and the frame written.  If that
\* fails the chip is put into receive mode, and then reset or given up: what the
\* failing writes left in it does not matter.
lora_transmit_raw_frame ==
    /\ TxAt("write")
    /\ \/ /\ SpiOk
          /\ ChipBecomes([chip EXCEPT !.dio = "TX_DONE", !.flags = {}], FALSE)
          /\ lora_state' = "TX"
          /\ TxGoes("mode")
          /\ UNCHANGED missed
       \/ /\ SpiFails
          /\ ReceiveModeOk(FALSE) \/ ReceiveModePartly(FALSE)
          /\ FaultAndRecover("SPI_ERROR")
    /\ UNCHANGED <<lora_recovery_attempts, rx, onAir>>

SetModeTx ==
    /\ TxAt("mode")
    /\ onAir' = FALSE
    /\ \/ /\ SpiOk
          /\ ChipBecomes([chip EXCEPT !.mode = "TX"], lora_dio0_semaphore)
          /\ TxGoes("wait")
          /\ UNCHANGED lora_state
       \/ /\ SpiFails
          /\ FaultAndRecover("SPI_ERROR")
          /\ UNCHANGED <<chip, lora_dio0_semaphore>>
    /\ UNCHANGED <<lora_recovery_attempts, rx, missed>>

\* Plausible bugs: neither the signal nor the flags are tested; the radio is
\* not put back into receive mode; the wait has no limit.
TxDoneUnchecked ==
    /\ TxAt("wait")
    /\ lora_receive_mode(FALSE)
    /\ lora_state' = "RX"
    /\ TxReturns("SUCCESS")
    /\ UNCHANGED <<lora_recovery_attempts, rx, onAir>>

TxDoneStaysInStandby ==
    /\ TxAt("wait") /\ lora_dio0_semaphore /\ "TX_DONE" \in chip.flags
    /\ chip' = [chip EXCEPT !.flags = @ \ {"TX_DONE"}] /\ lora_dio0_semaphore' = FALSE
    /\ lora_state' = "RX"
    /\ TxReturns("SUCCESS")
    /\ UNCHANGED <<lora_recovery_attempts, rx, failures, missed, onAir>>

WaitForever == FALSE

\* DIO0 was signalled; the flags must say that it was for this transmission.
TxDone ==
    /\ TxAt("wait") /\ lora_dio0_semaphore
    /\ \/ /\ "TX_DONE" \in chip.flags
          /\ lora_receive_mode(FALSE)
          /\ lora_state' = "RX"
          /\ TxReturns("SUCCESS")
       \/ /\ SpiFails \/ ("TX_DONE" \notin chip.flags /\ SpiOk)
          /\ FaultAndRecover("SPI_ERROR")
          /\ lora_dio0_semaphore' = FALSE
          /\ UNCHANGED <<chip, missed>>
    /\ UNCHANGED <<lora_recovery_attempts, rx, onAir>>

\* 5 seconds have passed.
TxTimeout ==
    /\ TxAt("wait") /\ ~lora_dio0_semaphore
    /\ FaultAndRecover("TIMEOUT")
    /\ UNCHANGED <<chip, lora_dio0_semaphore, lora_recovery_attempts, rx, failures, missed, onAir>>

\* lora_radio_recover, up to the wait after the reset; its caller goes on
\* whether or not it succeeds, after a time-out with lora_receive_mode.
AfterRecovery == IF tx.result = "TIMEOUT" THEN "finish" ELSE "idle"

GivesUp == lora_recovery_attempts >= RecoveryLimit

lora_radio_recover ==
    /\ TxAt("recover")
    /\ IF GivesUp
       THEN /\ lora_state' = "FAULT"
            /\ TxGoes(AfterRecovery)
            /\ UNCHANGED <<lora_recovery_attempts, chip, lora_dio0_semaphore>>
       ELSE /\ lora_recovery_attempts' = lora_recovery_attempts + 1
            /\ lora_state' = "RECOVERING"
            /\ ChipBecomes([mode |-> "STDBY", flags |-> {}, dio |-> "RX_DONE", configured |-> FALSE],
                           lora_dio0_semaphore)
            /\ TxGoes("bring_up")
    /\ UNCHANGED <<rx, failures, missed, onAir>>

\* The rest of it: defaults are written, which may fail (three of the writes
\* without being noticed), then lora_receive_mode.
lora_radio_bring_up ==
    /\ TxAt("bring_up")
    /\ \/ /\ \/ /\ SpiOk
                /\ ChipBecomes([Receiving(chip) EXCEPT !.configured = TRUE], lora_dio0_semaphore)
                /\ missed' = FALSE
             \/ /\ SpiFails
                /\ \E c \in PartlyReceiving([chip EXCEPT !.mode = "SLEEP"]), done \in BOOLEAN :
                      ChipBecomes([c EXCEPT !.configured = done], lora_dio0_semaphore)
                /\ missed' = TRUE
          /\ lora_state' = "RX"
          /\ lora_recovery_attempts' = 0
       \/ /\ SpiFails
          /\ \E m \in {chip.mode, "SLEEP"} : ChipBecomes([chip EXCEPT !.mode = m], lora_dio0_semaphore)
          /\ lora_state' = "FAULT"
          /\ UNCHANGED <<lora_recovery_attempts, missed>>
    /\ TxGoes(AfterRecovery)
    /\ UNCHANGED <<rx, onAir>>

\* The last lora_receive_mode of a time-out.
TimeoutFinish ==
    /\ TxAt("finish")
    /\ lora_receive_mode(lora_dio0_semaphore)
    /\ lora_state' = "RX"
    /\ TxReturns("TIMEOUT")
    /\ UNCHANGED <<lora_recovery_attempts, rx, onAir>>

lora_execute_tx ==
    \/ CadStart \/ CadEnd \/ lora_transmit_raw_frame \/ SetModeTx \/ TxDone \/ TxTimeout
    \/ lora_radio_recover \/ lora_radio_bring_up \/ TimeoutFinish

-----------------------------------------------------------------------------
(* lora_rx_task                                                            *)

\* The transmit task has the higher priority: a signal both wait for is its.
RxWake ==
    /\ rx = "wait"
    /\ lora_dio0_semaphore /\ ~TxAt("wait")
    /\ lora_dio0_semaphore' = FALSE
    /\ rx' = "look"
    /\ UNCHANGED <<lora_state, chip, lora_recovery_attempts, tx, failures, missed, onAir>>

\* What is signalled?  Only a received frame, and only in state RX, is read.
RxLook ==
    /\ rx = "look"
    /\ \/ /\ SpiFails
          /\ rx' = "wait"
          /\ UNCHANGED <<chip, lora_dio0_semaphore>>
       \/ /\ "TX_DONE" \in chip.flags /\ lora_state = "RX"
          /\ \/ SpiOk /\ ChipBecomes([chip EXCEPT !.flags = @ \ {"TX_DONE"}], lora_dio0_semaphore)
             \/ SpiFails /\ UNCHANGED <<chip, lora_dio0_semaphore>>
          /\ rx' = "wait"
       \/ /\ "TX_DONE" \in chip.flags => lora_state # "RX"
          /\ SpiOk
          /\ rx' = IF "RX_DONE" \in chip.flags /\ "TX_DONE" \notin chip.flags /\ lora_state = "RX"
                   THEN "read" ELSE "wait"
          /\ UNCHANGED <<chip, lora_dio0_semaphore>>
    /\ UNCHANGED <<lora_state, lora_recovery_attempts, tx, missed, onAir>>

\* lora_read_raw_frame reads the flags once more ...
RxRead ==
    /\ rx = "read"
    /\ \/ /\ SpiOk
          /\ rx' = IF "RX_DONE" \in chip.flags
                   THEN IF "CRC_ERROR" \in chip.flags THEN "clear_bad" ELSE "clear"
                   ELSE "wait"
          /\ UNCHANGED lora_state
       \/ /\ SpiFails
          /\ lora_state' = "FAULT"
          /\ rx' = "wait"
    /\ UNCHANGED <<chip, lora_dio0_semaphore, lora_recovery_attempts, tx, missed, onAir>>

\* Plausible bug: a damaged frame is dropped before the flags are cleared.
ClearGoodOnly ==
    \/ /\ rx = "clear_bad"
       /\ rx' = "wait"
       /\ UNCHANGED <<lora_state, chip, lora_dio0_semaphore, lora_recovery_attempts, tx, failures,
                      missed, onAir>>
    \/ /\ rx = "clear"
       /\ SpiOk
       /\ ChipBecomes([chip EXCEPT !.flags = {}], lora_dio0_semaphore)
       /\ rx' = "handle"
       /\ UNCHANGED <<lora_state, lora_recovery_attempts, tx, missed, onAir>>

\* ... and clears all of them, also what was set meanwhile.  A damaged frame is
\* dropped, a good one read and handled if no transfer fails.
RxClear ==
    /\ rx \in {"clear", "clear_bad"}
    /\ \/ /\ SpiOk
          /\ ChipBecomes([chip EXCEPT !.flags = {}], lora_dio0_semaphore)
          /\ rx' = IF rx = "clear" THEN "handle" ELSE "wait"
          /\ UNCHANGED lora_state
       \/ /\ SpiFails
          /\ \/ lora_state' = "FAULT" /\ UNCHANGED <<chip, lora_dio0_semaphore>>
             \/ /\ rx = "clear"
                /\ ChipBecomes([chip EXCEPT !.flags = {}], lora_dio0_semaphore)
                /\ UNCHANGED lora_state
          /\ rx' = "wait"
    /\ UNCHANGED <<lora_recovery_attempts, tx, missed, onAir>>

\* lora_handle_rx_packet takes its time: it writes to flash.
RxHandled ==
    /\ rx = "handle"
    /\ rx' = "wait"
    /\ UNCHANGED <<lora_state, chip, lora_dio0_semaphore, lora_recovery_attempts, tx, failures,
                   missed, onAir>>

lora_rx_task == RxWake \/ RxLook \/ RxRead \/ RxClear \/ RxHandled

-----------------------------------------------------------------------------
\* A successful lora_radio_init.
LoraInit ==
    /\ lora_state = "RX"
    /\ chip = [mode |-> "RX_CONTINUOUS", flags |-> {}, dio |-> "RX_DONE", configured |-> TRUE]
    /\ lora_dio0_semaphore = FALSE
    /\ lora_recovery_attempts = 0
    /\ tx = [pc |-> "idle", attempt |-> 0, result |-> "NONE"]
    /\ rx = "wait"
    /\ failures = 0 /\ missed = FALSE /\ onAir = FALSE

LoraNext ==
    \/ ChipReceives \/ ChipCadDone \/ ChipTxDone
    \/ StartTx \/ lora_execute_tx
    \/ lora_rx_task

\* Both tasks go on, as a wait with a time-out does.  Nothing is assumed of the
\* chip, of other nodes, or that there is something to send.
LoraSpec ==
    /\ LoraInit /\ [][LoraNext]_loraVars
    /\ WF_loraVars(lora_execute_tx) /\ WF_loraVars(lora_rx_task)

-----------------------------------------------------------------------------
(* Properties                                                              *)

\* A transmission reported as successful was one, whatever signals, flags and
\* transfers got lost or came too late (lora_radio.c:591-616).
SuccessWasTransmitted == tx.result = "SUCCESS" => onAir

\* After a successful transmission, and after an SPI error from which the driver
\* says it has recovered (then with all its settings), the radio listens, unless
\* a write was lost that nobody looks at (lora_radio.c:335-355, 593-616).  It cannot be said of the
\* others: CHANNEL_BUSY leaves the chip in standby with the state RX
\* (lora_radio.c:93), TIMEOUT sets RX after a failed recovery (619-620).
ReadyMeansListening ==
    /\ TxAt("idle") /\ lora_state = "RX" /\ ~missed
    /\ tx.result \in {"NONE", "SUCCESS", "SPI_ERROR"}
    => /\ chip.mode = "RX_CONTINUOUS" /\ chip.dio = "RX_DONE"
       /\ tx.result = "SPI_ERROR" => chip.configured

\* Every request comes to an end, although the receive task may take the signal
\* or clear the flag the transmit task waits for (lora_radio.c:172, 469, 604).
RequestEnds == ~TxAt("idle") ~> TxAt("idle")

\* As long as no transfer fails, the flag of a received frame is cleared again,
\* so that the next one raises DIO0: neither task leaves it standing
\* (lora_radio.c:166-199, 455-476).
FrameIsPickedUp ==
    (chip.mode = "RX_CONTINUOUS" /\ "RX_DONE" \in chip.flags /\ failures = 0)
        ~> ("RX_DONE" \notin chip.flags \/ failures > 0)
=============================================================================
