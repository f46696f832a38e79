------------------------- MODULE RadioDriverProofs -------------------------
(***************************************************************************)
(* The radio driver, for queues of any depth, any number of submitting     *)
(* tasks, streaks of any width, and any number of attempts and of failing  *)
(* SPI transfers.                                                          *)
(***************************************************************************)
EXTENDS RadioDriver, TLAPS

-----------------------------------------------------------------------------
(* The request queues                                                      *)

\* Only the transmit task receives: what it has seen waiting still waits.
SeenIsWaiting ==
    /\ radio.pc = "normal" /\ "HIGH" \in seen => Waiting("HIGH")
    /\ radio.pc = "low" => \A p \in seen : Waiting(p)

\* An overtaken HIGH request is seen by the next round, in which only LOW can
\* go before it once more.
HighComesNext ==
    overtaken["HIGH"] > 0 =>
        /\ Waiting("HIGH")
        /\ radio.pc \in {"normal", "low"} => "HIGH" \in seen
        /\ high_streak = 0
        /\ overtaken["HIGH"] = 1 \/ (overtaken["HIGH"] = 2 /\ normal_streak = 0)

\* Requests that overtake a LOW one lengthen the streaks that end its wait.
LowComesSoon ==
    overtaken["LOW"] > 0 =>
        /\ Waiting("LOW")
        /\ overtaken["LOW"] <= 4 * normal_streak + high_streak
        /\ high_streak <= 4 /\ normal_streak <= 3
        /\ normal_streak = 3 => high_streak = 0

RadioIInv == RadioTypeOK /\ SeenIsWaiting /\ HighComesNext /\ LowComesSoon

\* uint8_t streaks stay in range and do not wrap where the policy looks.
LEMMA LongerInRange ==
    ASSUME NEW s \in 0 .. StreakModulus - 1
    PROVE  /\ Longer(s) \in 0 .. StreakModulus - 1
           /\ s < 4 => Longer(s) = s + 1
  <1>1. CASE s = StreakModulus - 1
    <2>1. Longer(s) = 0
      BY <1>1, RadioQueuesAssumption DEF Longer
    <2> QED
      BY <1>1, <2>1, RadioQueuesAssumption
  <1>2. CASE s # StreakModulus - 1
    <2>1. Longer(s) = s + 1
      BY <1>2, RadioQueuesAssumption DEF Longer
    <2> QED
      BY <1>2, <2>1, RadioQueuesAssumption
  <1> QED
    BY <1>1, <1>2

\* The four outcomes of the selection.
LEMMA ChoiceCases ==
    ASSUME RadioIInv, Select
    PROVE  \/ Choice = ServeLow /\ Waiting("LOW")
           \/ Choice = ServeNormal /\ Waiting("NORMAL") /\ ~LowOvertakes
                /\ ("HIGH" \notin seen \/ high_streak >= 4)
           \/ Choice = ServeHigh /\ Waiting("HIGH") /\ ~LowOvertakes
  BY DEF RadioIInv, RadioTypeOK, SeenIsWaiting, Select, Choice, LowOvertakes, NormalOvertakes

\* Initially nothing waits.
LEMMA RadioInitially == RadioInit => RadioIInv
  <1> SUFFICES ASSUME RadioInit PROVE RadioIInv
    OBVIOUS
  <1>1. notified \in BOOLEAN
    BY Zenon DEF RadioInit
  <1>2. overtaken["HIGH"] = 0 /\ overtaken["LOW"] = 0 /\ radio.pc = "high"
    BY DEF RadioInit
  <1>3. RadioTypeOK
    BY <1>1, RadioQueuesAssumption DEF RadioInit, RadioTypeOK, Priorities
  <1> QED
    BY <1>2, <1>3 DEF RadioIInv, SeenIsWaiting, HighComesNext, LowComesSoon

\* The selection, which moves every part of the invariant.
LEMMA SelectPreserves == RadioIInv /\ Select => RadioIInv'
  <1> SUFFICES ASSUME RadioIInv, Select PROVE RadioIInv'
    OBVIOUS
  <1> USE RadioQueuesAssumption DEF Priorities
  <1> DEFINE c == Choice.priority
  <1>1. /\ high_streak \in 0 .. StreakModulus - 1 /\ normal_streak \in 0 .. StreakModulus - 1
        /\ overtaken \in [{"HIGH", "LOW"} -> Nat]
        /\ lora_tx_request_queues \in [Priorities -> 0 .. RadioQueueDepth]
    BY DEF RadioIInv, RadioTypeOK
  <1>2. c \in Priorities /\ Waiting(c)
    BY ChoiceCases DEF ServeLow, ServeNormal, ServeHigh
  <1>3. high_streak' \in 0 .. StreakModulus - 1 /\ normal_streak' \in 0 .. StreakModulus - 1
    BY <1>1, ChoiceCases, LongerInRange DEF Select, ServeLow, ServeNormal, ServeHigh
  <1>4. lora_tx_request_queues' \in [Priorities -> 0 .. RadioQueueDepth]
    BY <1>1, <1>2 DEF Select, Waiting
  <1>5. \A p \in Priorities \ {c} : Waiting(p)' <=> Waiting(p)
    BY <1>1, <1>2 DEF Select, Waiting
  <1>6. /\ overtaken' \in [{"HIGH", "LOW"} -> Nat]
        /\ overtaken'["HIGH"] = Overtaking("HIGH", c)
        /\ overtaken'["LOW"] = Overtaking("LOW", c)
    BY <1>1 DEF Select, Overtaking
  <1>7. RadioTypeOK'
    BY <1>2, <1>3, <1>4, <1>6 DEF Select, RadioIInv, RadioTypeOK
  <1>8. SeenIsWaiting'
    BY DEF Select, SeenIsWaiting
  <1>9. HighComesNext'
    <2> SUFFICES ASSUME overtaken'["HIGH"] > 0 PROVE HighComesNext'
      BY DEF HighComesNext
    <2>1. Waiting("HIGH") /\ c # "HIGH" /\ overtaken'["HIGH"] = overtaken["HIGH"] + 1
      BY <1>6 DEF Overtaking
    <2>2. Waiting("HIGH")' /\ radio'.pc = "serve"
      BY <1>5, <2>1 DEF Select
    <2>3. high_streak' = 0
      BY <2>1, ChoiceCases DEF Select, ServeLow, ServeNormal, ServeHigh
    <2>4. overtaken["HIGH"] = 0 \/ (overtaken["HIGH"] = 1 /\ normal_streak' = 0)
      <3>1. CASE overtaken["HIGH"] > 0
        <4>1. high_streak = 0 /\ "HIGH" \in seen
          BY <3>1 DEF RadioIInv, HighComesNext, Select
        <4>2. Choice = ServeLow /\ Waiting("LOW")
          BY <2>1, <4>1, ChoiceCases DEF ServeHigh
        <4>3. LowOvertakes
          BY <4>1, <4>2, <2>1 DEF Choice, LowOvertakes, NormalOvertakes, ServeLow, ServeNormal, ServeHigh
        <4>4. normal_streak >= 3
          BY <4>1, <4>3 DEF LowOvertakes
        <4> QED
          BY <3>1, <4>2, <4>4 DEF RadioIInv, HighComesNext, Select, ServeLow
      <3> QED
        BY <3>1, <1>1
    <2> QED
      BY <1>1, <2>1, <2>2, <2>3, <2>4 DEF HighComesNext
  <1>10. LowComesSoon'
    <2> SUFFICES ASSUME overtaken'["LOW"] > 0 PROVE LowComesSoon'
      BY DEF LowComesSoon
    <2>1. Waiting("LOW") /\ c # "LOW" /\ overtaken'["LOW"] = overtaken["LOW"] + 1
      BY <1>6 DEF Overtaking
    <2>2. Waiting("LOW")'
      BY <1>5, <2>1
    <2>3. high_streak < 4 /\ normal_streak < 3
      BY <1>1, <2>1, ChoiceCases DEF ServeLow, LowOvertakes
    <2>4. Longer(high_streak) = high_streak + 1 /\ Longer(normal_streak) = normal_streak + 1
      BY <1>1, <2>3, LongerInRange
    <2>5. overtaken["LOW"] <= 4 * normal_streak + high_streak
      BY <1>1 DEF RadioIInv, LowComesSoon
    <2>6. \/ high_streak' = 0 /\ normal_streak' = normal_streak + 1
          \/ high_streak' = high_streak + 1 /\ normal_streak' = normal_streak
      BY <2>1, <2>4, ChoiceCases DEF Select, ServeLow, ServeNormal, ServeHigh
    <2> QED
      BY <1>1, <2>1, <2>2, <2>3, <2>5, <2>6 DEF LowComesSoon
  <1> QED
    BY <1>7, <1>8, <1>9, <1>10 DEF RadioIInv

\* One step per action.
LEMMA RadioInductive == RadioIInv /\ [RadioNext]_radioVars => RadioIInv'
  <1> SUFFICES ASSUME RadioIInv, [RadioNext]_radioVars PROVE RadioIInv'
    OBVIOUS
  <1> USE RadioQueuesAssumption DEF Priorities
  <1>1. ASSUME NEW t \in Tasks, NEW p \in Priorities, lora_tx_submit(t, p) PROVE RadioIInv'
    <2>1. RadioTypeOK'
      BY <1>1 DEF RadioIInv, RadioTypeOK, lora_tx_submit
    <2>2. \A q \in Priorities : Waiting(q) => Waiting(q)'
      BY <1>1 DEF RadioIInv, RadioTypeOK, lora_tx_submit, Waiting
    <2>3. SeenIsWaiting'
      BY <1>1, <2>2 DEF RadioIInv, RadioTypeOK, SeenIsWaiting, lora_tx_submit
    <2>4. HighComesNext' /\ LowComesSoon'
      BY <1>1, <2>2 DEF RadioIInv, HighComesNext, LowComesSoon, lora_tx_submit
    <2> QED
      BY <2>1, <2>3, <2>4 DEF RadioIInv
  <1>2. ASSUME NEW t \in Tasks, xTaskNotifyGive(t) PROVE RadioIInv'
    BY <1>2 DEF RadioIInv, RadioTypeOK, SeenIsWaiting, HighComesNext, LowComesSoon, Waiting,
                xTaskNotifyGive
  <1>3. CASE Look("HIGH", "high", "normal")
    BY <1>3 DEF RadioIInv, RadioTypeOK, SeenIsWaiting, HighComesNext, LowComesSoon, Waiting, Look
  <1>4. CASE Look("NORMAL", "normal", "low")
    BY <1>4 DEF RadioIInv, RadioTypeOK, SeenIsWaiting, HighComesNext, LowComesSoon, Waiting, Look
  <1>5. CASE Select
    BY <1>5, SelectPreserves
  <1>6. CASE GoToSleep
    BY <1>6 DEF RadioIInv, RadioTypeOK, SeenIsWaiting, HighComesNext, LowComesSoon, Waiting, GoToSleep
  <1>7. CASE Wake
    BY <1>7 DEF RadioIInv, RadioTypeOK, SeenIsWaiting, HighComesNext, LowComesSoon, Waiting, Wake
  <1>8. CASE Served
    BY <1>8 DEF RadioIInv, RadioTypeOK, SeenIsWaiting, HighComesNext, LowComesSoon, Waiting, Served
  <1>9. CASE UNCHANGED radioVars
    BY <1>9 DEF RadioIInv, RadioTypeOK, SeenIsWaiting, HighComesNext, LowComesSoon, Waiting, radioVars
  <1> QED
    BY <1>1, <1>2, <1>3, <1>4, <1>5, <1>6, <1>7, <1>8, <1>9
       DEF RadioNext, Notify, lora_tx_task

\* The invariant holds throughout.
LEMMA RadioInvariant == RadioSpec => []RadioIInv
  BY RadioInitially, RadioInductive, PTL DEF RadioSpec

\* The invariant bounds the overtaking.
LEMMA BoundFromInvariant == RadioIInv => OvertakingBounded
  BY DEF RadioIInv, RadioTypeOK, HighComesNext, LowComesSoon, OvertakingBounded

\* Under any load, for queues of any depth and streaks of any width: while a LOW
\* request waits at most 12 others are served, while a HIGH one waits at most 2
\* (the selection of lora_tx_task).
THEOREM SelectionIsFair == RadioSpec => []OvertakingBounded
  BY RadioInvariant, BoundFromInvariant, PTL

-----------------------------------------------------------------------------
(* The two tasks and the chip                                              *)

\* The part of the types the argument needs: that assigning to a field of these
\* records has an effect.
TxAndChipTyped ==
    /\ {"mode", "flags", "dio", "configured"} \subseteq DOMAIN chip
    /\ {"pc", "attempt", "result"} \subseteq DOMAIN tx

\* From the end of CAD to the switch to TX the chip is in standby, and what it
\* flags afterwards is this transmission's.
FlagIsOwn ==
    /\ tx.pc \in {"write", "mode"} => chip.mode = "STDBY"
    /\ tx.pc = "mode" => "TX_DONE" \notin chip.flags
    /\ tx.pc = "wait" /\ "TX_DONE" \in chip.flags => onAir

\* The result of the request before is gone while the next one is at work.
ResultIsFresh ==
    /\ tx.pc \in {"cad_start", "cad_wait", "write", "mode", "wait"} => tx.result = "NONE"
    /\ tx.pc \in {"recover", "bring_up", "finish"} => tx.result \in {"SPI_ERROR", "TIMEOUT"}

LoraIInv == TxAndChipTyped /\ FlagIsOwn /\ ResultIsFresh /\ SuccessWasTransmitted

\* Initially the radio listens and nothing was sent.
LEMMA LoraInitially == LoraInit => LoraIInv
  BY DEF LoraInit, LoraIInv, TxAndChipTyped, FlagIsOwn, ResultIsFresh, SuccessWasTransmitted

\* Writes of lora_receive_mode, lost or not, leave a chip.
LEMMA PartlyReceivingTyped ==
    ASSUME NEW c, {"mode", "flags", "dio", "configured"} \subseteq DOMAIN c,
           NEW r \in PartlyReceiving(c)
    PROVE  {"mode", "flags", "dio", "configured"} \subseteq DOMAIN r
  <1>1. PICK d \in {c.dio, "RX_DONE"}, f \in {c.flags, {}}, m \in {c.mode, "RX_CONTINUOUS"} :
            r = [c EXCEPT !.dio = d, !.flags = f, !.mode = m]
    BY DEF PartlyReceiving
  <1>2. DOMAIN r = DOMAIN c
    BY <1>1
  <1> QED
    BY <1>2

\* So does lora_receive_mode as a whole.
LEMMA ReceiveModeTyped ==
    ASSUME TxAndChipTyped, NEW s, lora_receive_mode(s) \/ ReceiveModeOk(s) \/ ReceiveModePartly(s)
    PROVE  {"mode", "flags", "dio", "configured"} \subseteq DOMAIN chip'
  <1>1. CASE chip' = Receiving(chip)
    BY <1>1 DEF TxAndChipTyped, Receiving
  <1>2. CASE chip' \in PartlyReceiving(chip)
    BY <1>2, PartlyReceivingTyped DEF TxAndChipTyped
  <1> QED
    BY <1>1, <1>2 DEF lora_receive_mode, ReceiveModeOk, ReceiveModePartly, ChipBecomes

\* The chip on its own.
LEMMA ChipPreserves ==
    LoraIInv /\ (ChipReceives \/ ChipCadDone \/ ChipTxDone) => LoraIInv'
  <1> SUFFICES ASSUME LoraIInv, ChipReceives \/ ChipCadDone \/ ChipTxDone PROVE LoraIInv'
    OBVIOUS
  <1> USE DEF LoraIInv, TxAndChipTyped, FlagIsOwn, ResultIsFresh, SuccessWasTransmitted, ChipBecomes
  <1>1. CASE ChipReceives
    BY <1>1 DEF ChipReceives
  <1>2. CASE ChipCadDone
    BY <1>2 DEF ChipCadDone
  <1>3. CASE ChipTxDone
    BY <1>3 DEF ChipTxDone
  <1> QED
    BY <1>1, <1>2, <1>3

\* The receive task: it may clear the flag too early, never set it.
LEMMA RxPreserves == LoraIInv /\ lora_rx_task => LoraIInv'
  <1> SUFFICES ASSUME LoraIInv, lora_rx_task PROVE LoraIInv'
    OBVIOUS
  <1>1. /\ UNCHANGED <<tx, onAir>>
        /\ \/ UNCHANGED chip
           \/ \E f \in SUBSET chip.flags : chip' = [chip EXCEPT !.flags = f]
    <2>1. CASE RxWake
      BY <2>1 DEF RxWake
    <2>2. CASE RxLook
      BY <2>2 DEF RxLook, ChipBecomes
    <2>3. CASE RxRead
      BY <2>3 DEF RxRead
    <2>4. CASE RxClear
      BY <2>4 DEF RxClear, ChipBecomes
    <2>5. CASE RxHandled
      BY <2>5 DEF RxHandled
    <2> QED
      BY <2>1, <2>2, <2>3, <2>4, <2>5 DEF lora_rx_task
  <1> QED
    BY <1>1 DEF LoraIInv, TxAndChipTyped, FlagIsOwn, ResultIsFresh, SuccessWasTransmitted

\* The transmit task.
LEMMA TxPreserves == LoraIInv /\ (StartTx \/ lora_execute_tx) => LoraIInv'
  <1> SUFFICES ASSUME LoraIInv, StartTx \/ lora_execute_tx PROVE LoraIInv'
    OBVIOUS
  <1> USE DEF LoraIInv, TxAndChipTyped, FlagIsOwn, ResultIsFresh, SuccessWasTransmitted,
          TxAt, TxGoes, TxReturns
  <1>1. CASE StartTx
    <2>1. tx.pc = "idle" /\ UNCHANGED <<chip, onAir>>
      BY <1>1 DEF StartTx
    <2>2. \/ tx' = [pc |-> "cad_start", attempt |-> 0, result |-> "NONE"]
          \/ \E r \in {"RADIO_FAULT", "CHANNEL_BUSY", "ABORTED"} :
                tx' = [tx EXCEPT !.pc = "idle", !.result = r]
      BY <1>1 DEF StartTx
    <2>3. tx'.pc \in {"cad_start", "idle"} /\ tx'.result # "SUCCESS"
          /\ (tx'.pc = "cad_start" => tx'.result = "NONE")
          /\ {"pc", "attempt", "result"} \subseteq DOMAIN tx'
      <3>1. CASE tx' = [pc |-> "cad_start", attempt |-> 0, result |-> "NONE"]
        BY <3>1
      <3>2. ASSUME NEW r \in {"RADIO_FAULT", "CHANNEL_BUSY", "ABORTED"},
                   tx' = [tx EXCEPT !.pc = "idle", !.result = r]
            PROVE  /\ tx'.pc = "idle" /\ tx'.result = r
                   /\ {"pc", "attempt", "result"} \subseteq DOMAIN tx'
        BY <3>2
      <3> QED
        BY <2>2, <3>1, <3>2
    <2> QED
      BY <2>1, <2>3
  <1>2. CASE CadStart
    BY <1>2 DEF CadStart, CadFails, ChipBecomes
  <1>3. CASE CadEnd
    BY <1>3 DEF CadEnd, CadFails, ChipBecomes
  <1>4. CASE lora_transmit_raw_frame
    <2>1. CASE ReceiveModeOk(FALSE) \/ ReceiveModePartly(FALSE)
      BY <1>4, <2>1, ReceiveModeTyped
         DEF lora_transmit_raw_frame, FaultAndRecover, ChipBecomes
    <2>2. CASE ~(ReceiveModeOk(FALSE) \/ ReceiveModePartly(FALSE))
      BY <1>4, <2>2
         DEF lora_transmit_raw_frame, ChipBecomes
    <2> QED
      BY <2>1, <2>2
  <1>5. CASE SetModeTx
    BY <1>5 DEF SetModeTx, FaultAndRecover, ChipBecomes
  <1>6. CASE TxDone
    <2>1. CASE lora_receive_mode(FALSE)
      BY <1>6, <2>1, ReceiveModeTyped DEF TxDone, FaultAndRecover
    <2>2. CASE ~lora_receive_mode(FALSE)
      BY <1>6, <2>2 DEF TxDone, FaultAndRecover
    <2> QED
      BY <2>1, <2>2
  <1>7. CASE TxTimeout
    BY <1>7 DEF TxTimeout, FaultAndRecover
  <1>8. CASE lora_radio_recover
    BY <1>8 DEF lora_radio_recover, AfterRecovery, ChipBecomes
  <1>9. CASE lora_radio_bring_up
    <2>1. /\ tx.pc = "bring_up" /\ UNCHANGED onAir
          /\ tx' = [tx EXCEPT !.pc = AfterRecovery]
      BY <1>9 DEF lora_radio_bring_up
    <2>2. {"mode", "flags", "dio", "configured"} \subseteq DOMAIN chip'
      <3>1. CASE chip' = [Receiving(chip) EXCEPT !.configured = TRUE]
        BY <3>1 DEF Receiving
      <3>2. ASSUME NEW c \in PartlyReceiving([chip EXCEPT !.mode = "SLEEP"]), NEW d \in BOOLEAN,
                   chip' = [c EXCEPT !.configured = d]
            PROVE  {"mode", "flags", "dio", "configured"} \subseteq DOMAIN chip'
        BY <3>2, PartlyReceivingTyped
      <3>3. CASE \E m \in {chip.mode, "SLEEP"} : chip' = [chip EXCEPT !.mode = m]
        BY <3>3
      <3> QED
        BY <1>9, <3>1, <3>2, <3>3 DEF lora_radio_bring_up, ChipBecomes
    <2> QED
      BY <2>1, <2>2 DEF AfterRecovery
  <1>10. CASE TimeoutFinish
    BY <1>10, ReceiveModeTyped DEF TimeoutFinish
  <1> QED
    BY <1>1, <1>2, <1>3, <1>4, <1>5, <1>6, <1>7, <1>8, <1>9, <1>10 DEF lora_execute_tx

\* The chip, the transmit task and the receive task together.
LEMMA LoraInductive == LoraIInv /\ [LoraNext]_loraVars => LoraIInv'
  <1> SUFFICES ASSUME LoraIInv, [LoraNext]_loraVars PROVE LoraIInv'
    OBVIOUS
  <1>1. CASE LoraNext
    BY <1>1, ChipPreserves, TxPreserves, RxPreserves DEF LoraNext
  <1>2. CASE UNCHANGED loraVars
    BY <1>2 DEF loraVars, LoraIInv, TxAndChipTyped, FlagIsOwn, ResultIsFresh,
                SuccessWasTransmitted
  <1> QED
    BY <1>1, <1>2

\* A transmission reported as successful was one: signals the receive task takes,
\* flags it clears, lost writes and recoveries can only make a report worse than
\* the truth (lora_execute_tx).
THEOREM SuccessIsTrue == LoraSpec => []SuccessWasTransmitted
  <1>1. LoraIInv => SuccessWasTransmitted
    BY DEF LoraIInv
  <1> QED
    BY <1>1, LoraInitially, LoraInductive, PTL DEF LoraSpec

\* Only the end of a transmission or of a recovery makes the radio ready with one of
\* these results, and both put the chip into receive mode last.
LEMMA ReadyInductive == LoraIInv /\ ReadyMeansListening /\ [LoraNext]_loraVars => ReadyMeansListening'
  <1> SUFFICES ASSUME LoraIInv, ReadyMeansListening, [LoraNext]_loraVars PROVE ReadyMeansListening'
    OBVIOUS
  <1> USE DEF LoraIInv, TxAndChipTyped, ResultIsFresh, ReadyMeansListening, TxAt, TxGoes, TxReturns
  <1>1. CASE ChipReceives
    BY <1>1 DEF ChipReceives, ChipBecomes
  <1>2. CASE ChipCadDone
    BY <1>2 DEF ChipCadDone, ChipBecomes
  <1>3. CASE ChipTxDone
    BY <1>3 DEF ChipTxDone, ChipBecomes
  <1>4. CASE StartTx
    BY <1>4 DEF StartTx
  <1>5. CASE CadStart
    BY <1>5 DEF CadStart, CadFails
  <1>6. CASE CadEnd
    BY <1>6 DEF CadEnd, CadFails
  <1>7. CASE lora_transmit_raw_frame
    BY <1>7 DEF lora_transmit_raw_frame, FaultAndRecover
  <1>8. CASE SetModeTx
    BY <1>8 DEF SetModeTx, FaultAndRecover
  <1>9. CASE TxDone
    <2>1. CASE lora_receive_mode(FALSE) /\ tx' = [tx EXCEPT !.pc = "idle", !.result = "SUCCESS"]
      <3>1. tx'.result = "SUCCESS"
        BY <2>1
      <3>2. missed' \/ chip' = Receiving(chip)
        BY <2>1 DEF lora_receive_mode, ReceiveModeOk, ReceiveModePartly, ChipBecomes
      <3> QED
        BY <3>1, <3>2 DEF Receiving
    <2>2. CASE FaultAndRecover("SPI_ERROR")
      BY <2>2 DEF FaultAndRecover
    <2> QED
      BY <1>9, <2>1, <2>2 DEF TxDone
  <1>10. CASE TxTimeout
    BY <1>10 DEF TxTimeout, FaultAndRecover
  <1>11. CASE lora_radio_recover
    BY <1>11 DEF lora_radio_recover
  <1>12. CASE lora_radio_bring_up
    <2>1. \/ missed' \/ lora_state' = "FAULT"
          \/ chip' = [Receiving(chip) EXCEPT !.configured = TRUE]
      BY <1>12 DEF lora_radio_bring_up, ChipBecomes
    <2> QED
      BY <2>1 DEF Receiving
  <1>13. CASE TimeoutFinish
    BY <1>13 DEF TimeoutFinish
  <1>14. CASE lora_rx_task
    <2>1. /\ UNCHANGED <<tx, missed>>
          /\ lora_state' = "RX" => lora_state = "RX"
          /\ \/ UNCHANGED chip
             \/ \E f \in SUBSET chip.flags : chip' = [chip EXCEPT !.flags = f]
      <3>1. CASE RxWake
        BY <3>1 DEF RxWake
      <3>2. CASE RxLook
        BY <3>2 DEF RxLook, ChipBecomes
      <3>3. CASE RxRead
        BY <3>3 DEF RxRead
      <3>4. CASE RxClear
        BY <3>4 DEF RxClear, ChipBecomes
      <3>5. CASE RxHandled
        BY <3>5 DEF RxHandled
      <3> QED
        BY <1>14, <3>1, <3>2, <3>3, <3>4, <3>5 DEF lora_rx_task
    <2> QED
      BY <2>1
  <1>15. CASE UNCHANGED loraVars
    BY <1>15 DEF loraVars
  <1> QED
    BY <1>1, <1>2, <1>3, <1>4, <1>5, <1>6, <1>7, <1>8, <1>9, <1>10, <1>11, <1>12, <1>13, <1>14,
       <1>15 DEF LoraNext, lora_execute_tx

\* A radio that is ready after a successful transmission, or after an SPI error it has
\* recovered from, listens, however the tasks interleave and whatever was cleared,
\* reset or lost on the way, save a write that fails unnoticed.
THEOREM ReadyRadioListens == LoraSpec => []ReadyMeansListening
  <1>1. LoraInit => ReadyMeansListening
    BY DEF LoraInit, ReadyMeansListening
  <1> QED
    BY <1>1, LoraInitially, LoraInductive, ReadyInductive, PTL DEF LoraSpec

-----------------------------------------------------------------------------
(* The driver as a whole                                                   *)

\* What is proved of the queues and of the radio holds in the driver.
THEOREM DriverIsFairAndTrue ==
    DriverSpec => [](OvertakingBounded /\ SuccessWasTransmitted /\ ReadyMeansListening)
  <1>1. DriverInit => RadioInit /\ LoraInit
    BY DEF DriverInit
  <1>2. [DriverNext]_driverVars => [RadioNext]_radioVars /\ [LoraNext]_loraVars
    BY DEF DriverNext, driverVars, InQueues, InChip
  <1>3. LoraInit => ReadyMeansListening
    BY DEF LoraInit, ReadyMeansListening
  <1>4. LoraIInv => SuccessWasTransmitted
    BY DEF LoraIInv
  <1> QED
    BY <1>1, <1>2, <1>3, <1>4, RadioInitially, RadioInductive, BoundFromInvariant, LoraInitially,
       LoraInductive, ReadyInductive, PTL DEF DriverSpec
=============================================================================
