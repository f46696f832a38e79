----------------------------- MODULE TxScheduler -----------------------------
(***************************************************************************)
(* The outgoing path of a node: queue_message (app_runtime.c), called by   *)
(* the HTTP server task; the transmission scheduler (tx_scheduler.c) and   *)
(* its task; the message store it records every status in; the boundary to *)
(* the LoRa radio task (requests in, results out); the LoRa receive task,  *)
(* which acknowledges entries and competes for store slots; and power loss *)
(* at any moment, followed by a boot that restores pending messages.       *)
(*                                                                         *)
(* One action is one critical section of tx_mutex (or one call outside it, *)
(* for the calls the code makes without the lock), so the tasks interleave *)
(* exactly where the locks let them.  A store operation made under         *)
(* tx_mutex nests message_mutex and is part of the same action.            *)
(*                                                                         *)
(* Time is a set: `expired` holds the entries whose next_action_tick has   *)
(* passed.  Setting next_action_tick removes an entry, and time may put it *)
(* back at any moment.                                                     *)
(***************************************************************************)
EXTENDS MessageStore

CONSTANTS
    Me,                     \* this node's id
    Destinations,           \* what users of the portal enter as destination
    TX_RETRY_MAX_ATTEMPTS,
    RequestIds,             \* values of esp_random() for radio requests
    CounterOutcomes,        \* what a flash access to packet_ctr may do
    RxIds,                  \* bound: packet ids of messages from other nodes
    MaxId,                  \* bound: local packet ids
    MaxCrashes,             \* bound: power losses
    NoEntry, NoRequest      \* an inactive tx_entry_t; no radio request yet

NoSlot == -1

TxStates == {"QUEUED", "SUBMITTING", "WAITING_RADIO", "WAITING_ACK", "RETRY_BACKOFF"}

\* tx_entry_t of an active entry.  `error` is left out: every path that ends
\* in finalize_failure sets it just before.  So is remaining_hops: no step
\* changes it.
Entry == [message : Message, nvs_slot : Slots, state : TxStates,
          attempts : 0 .. TX_RETRY_MAX_ATTEMPTS,
          radio_request_id : RequestIds \cup {NoRequest}, generation : Nat]

ASSUME TxAssumption ==
    /\ Me \in Nodes
    /\ Destinations \subseteq Nodes \cup {ALL}
    /\ TX_RETRY_MAX_ATTEMPTS \in Nat \ {0}
    /\ CounterOutcomes \subseteq NvsOutcome /\ "ok" \in CounterOutcomes
    /\ MaxId \in Nat /\ Ids = 1 .. MaxId /\ RxIds \subseteq Ids
    /\ MaxCrashes \in Nat
    /\ NoRequest \notin RequestIds
    /\ NoEntry \notin Entry

\* lora_tx_request_t and lora_tx_result_t.  Every result but SUCCESS sends
\* the entry to RETRY_BACKOFF; they differ only in the length of the backoff.
Request == [message_id : Ids, request_id : RequestIds, destination : Nodes \cup {ALL}]
Result  == [message_id : Ids, request_id : RequestIds, result : {"SUCCESS", "FAILURE"}]

VARIABLES
    seq,                \* mesh_sequence's counter in RAM
    seqNvs,             \* packet_ctr in flash
    entries,            \* tx_entries
    expired,            \* entries whose next_action_tick has passed
    next_generation,
    sched,              \* scheduler_task: [pc, i], i the entry it looks at
    job,                \* locals of send_current_packet across lora_tx_submit
    radioq,             \* requests in the radio's queues
    results,            \* results the scheduler has not drained
    http,               \* queue_message in the HTTP task: [pc, message, slot]
    rx,                 \* slot store_received_packet has reserved, or NoSlot
    aired,              \* history: <<id, destination>> that were on the air
    accepted,           \* history: ids of the messages the store took over
    crashes

txVars == <<entries, expired, next_generation>>
schedVars == <<sched, job>>
seqVars == <<seq, seqNvs>>
vars == <<storeVars, txVars, schedVars, seqVars, radioq, results, http, rx, aired,
          accepted, crashes>>

NoJob == [message_id |-> 0, generation |-> 0, request_id |-> NoRequest]
HttpIdle == [pc |-> "idle", message |-> NoMessage, slot |-> NoSlot]

TxTypeOK ==
    /\ seq \in 0 .. MaxId /\ seqNvs \in 0 .. MaxId
    /\ entries \in [Slots -> Entry \cup {NoEntry}]
    /\ expired \in SUBSET Slots
    /\ next_generation \in Nat
    /\ sched \in [pc : {"drain", "scan", "send", "submit", "accepted", "refused"}, i : Slots]
    /\ job \in [message_id : Ids, generation : Nat, request_id : RequestIds] \cup {NoJob}
    /\ radioq \in SUBSET Request
    /\ results \in SUBSET Result
    /\ http \in [pc : {"idle", "numbered", "saved", "allocated", "written"},
                 message : Message \cup {NoMessage}, slot : Slots \cup {NoSlot}]
    /\ rx \in Slots \cup {NoSlot}
    /\ aired \in SUBSET (Ids \X (Nodes \cup {ALL}))
    /\ accepted \in SUBSET Ids
    /\ crashes \in 0 .. MaxCrashes

Active(e) == entries[e] # NoEntry

-----------------------------------------------------------------------------
(* Status changes.  The result of message_store_update is ignored.         *)

\* set_status, with the entry's other new fields in `entry`.
set_status(e, entry, status, outcome) ==
    /\ entries' = [entries EXCEPT ![e] = [entry EXCEPT !.message.status = status]]
    /\ message_store_update(entry.nvs_slot, [entry.message EXCEPT !.status = status], outcome)

\* A plausible bug: active = false is forgotten.
FinishStaysActive(e, status) ==
    /\ \E outcome \in NvsOutcomes :
          message_store_update(entries[e].nvs_slot,
                               [entries[e].message EXCEPT !.status = status], outcome)
    /\ UNCHANGED <<entries, expired>>

\* set_status with a final status, and active = false.
Finish(e, status) ==
    /\ \E outcome \in NvsOutcomes :
          message_store_update(entries[e].nvs_slot,
                               [entries[e].message EXCEPT !.status = status], outcome)
    /\ entries' = [entries EXCEPT ![e] = NoEntry]
    /\ expired' = expired \ {e}

finalize_failure(e, error) ==
    Finish(e, CASE error = "ACK_TIMEOUT"                   -> "FAILED_TIMEOUT"
                [] error \in {"QUEUE_FULL", "PACKET_BUILD"} -> "FAILED_QUEUE"
                [] OTHER                                   -> "FAILED_RADIO")

\* A new state with a new deadline, and nothing recorded in the store.
Wait(e, state) ==
    /\ entries' = [entries EXCEPT ![e].state = state]
    /\ expired' = expired \ {e}
    /\ UNCHANGED storeVars

-----------------------------------------------------------------------------
(* queue_message, step by step.                                            *)

\* mesh_sequence_next and the message built from it.
QueueMessage(destination, epoch) ==
    /\ http.pc = "idle"
    /\ seq < MaxId
    /\ seq' = seq + 1
    /\ http' = [pc |-> "numbered", slot |-> NoSlot,
                message |-> [id |-> seq + 1, direction |-> "TX", source |-> Me,
                             destination |-> destination, status |-> "PENDING",
                             stored_epoch |-> epoch]]
    /\ UNCHANGED <<storeVars, txVars, schedVars, seqNvs, radioq, results, rx, aired,
                   accepted, crashes>>

\* A failure to save the counter is only logged.
mesh_sequence_save ==
    /\ http.pc = "numbered"
    /\ \E outcome \in CounterOutcomes :
          seqNvs' = IF outcome = "failed" THEN seqNvs ELSE seq
    /\ http' = [http EXCEPT !.pc = "saved"]
    /\ UNCHANGED <<storeVars, txVars, schedVars, seq, radioq, results, rx, aired,
                   accepted, crashes>>

QueueAllocate ==
    /\ http.pc = "saved"
    /\ \/ \E s \in Slots, outcome \in NvsOutcomes :
             /\ message_store_allocate(s, outcome)
             /\ http' = [http EXCEPT !.pc = "allocated", !.slot = s]
       \/ /\ \E outcome \in NvsOutcomes : AllocateFails(outcome)
          /\ http' = HttpIdle
    /\ UNCHANGED <<txVars, schedVars, seqVars, radioq, results, rx, aired, accepted, crashes>>

QueueWrite ==
    /\ http.pc = "allocated"
    /\ \E outcome \in NvsOutcomes :
          /\ message_store_write(http.slot, http.message, outcome)
          /\ http' = IF outcome = "ok" THEN [http EXCEPT !.pc = "written"] ELSE HttpIdle
          /\ accepted' = IF outcome = "ok" THEN accepted \cup {http.message.id} ELSE accepted
    /\ UNCHANGED <<txVars, schedVars, seqVars, radioq, results, rx, aired, crashes>>

FreeEntries == {e \in Slots : ~Active(e)}

NewEntry(message, slot, generation) ==
    [message |-> message, nvs_slot |-> slot, state |-> "QUEUED", attempts |-> 0,
     radio_request_id |-> NoRequest, generation |-> generation]

\* tx_scheduler_submit; a refusal is recorded as FAILED by queue_message.
tx_scheduler_submit ==
    /\ http.pc = "written"
    /\ \E outcome \in NvsOutcomes :
          IF FreeEntries # {}
          THEN LET e == Min(FreeEntries)
               IN  /\ set_status(e, NewEntry(http.message, http.slot, next_generation + 1),
                                 "QUEUED", outcome)
                   /\ expired' = expired \ {e}
                   /\ next_generation' = next_generation + 1
          ELSE /\ message_store_update(http.slot, [http.message EXCEPT !.status = "FAILED"],
                                       outcome)
               /\ UNCHANGED txVars
    /\ http' = HttpIdle
    /\ UNCHANGED <<schedVars, seqVars, radioq, results, rx, aired, accepted, crashes>>

-----------------------------------------------------------------------------
(* The scheduler task.                                                     *)

\* The entries a radio result may belong to.
Matching(r) ==
    {e \in Slots : /\ Active(e)
                   /\ entries[e].state = "WAITING_RADIO"
                   /\ entries[e].message.id = r.message_id
                   /\ entries[e].radio_request_id = r.request_id}

\* A plausible bug: the result code is not looked at.
AnyResultIsSent(r) ==
    IF Matching(r) = {} THEN UNCHANGED <<storeVars, entries, expired>>
    ELSE LET e == Min(Matching(r))
         IN  /\ \E outcome \in NvsOutcomes :
                   set_status(e, [entries[e] EXCEPT !.state = "WAITING_ACK"], "SENT", outcome)
             /\ expired' = expired \ {e}

handle_radio_result(r) ==
    IF Matching(r) = {} THEN UNCHANGED <<storeVars, entries, expired>>
    ELSE LET e == Min(Matching(r))
         IN  IF r.result = "SUCCESS"
             THEN /\ \E outcome \in NvsOutcomes :
                        set_status(e, [entries[e] EXCEPT !.state = "WAITING_ACK"],
                                   "SENT", outcome)
                  /\ expired' = expired \ {e}
             ELSE Wait(e, "RETRY_BACKOFF")

DrainResult ==
    /\ sched.pc = "drain"
    /\ \E r \in results :
          /\ results' = results \ {r}
          /\ handle_radio_result(r)
    /\ UNCHANGED <<next_generation, schedVars, seqVars, radioq, http, rx, aired, accepted,
                   crashes>>

DrainDone ==
    /\ sched.pc = "drain"
    /\ results = {}
    /\ sched' = [pc |-> "scan", i |-> 0]
    /\ UNCHANGED <<storeVars, txVars, job, seqVars, radioq, results, http, rx, aired,
                   accepted, crashes>>

\* The next round of the loop over the entries; after the last one the task
\* sleeps a second and starts again with the results.
NextEntry ==
    sched' = IF sched.i = MAX_MESSAGES - 1 THEN [pc |-> "drain", i |-> 0]
             ELSE [pc |-> "scan", i |-> sched.i + 1]

Sendable(e) == Active(e) /\ entries[e].state \in {"QUEUED", "RETRY_BACKOFF"}

\* A plausible bug: one attempt too many.
ExhaustedTooLate(e) == entries[e].attempts > TX_RETRY_MAX_ATTEMPTS

Exhausted(e) == entries[e].attempts >= TX_RETRY_MAX_ATTEMPTS

\* One entry looked at under the lock: send it, time it out, or go on.
Scan ==
    LET e == sched.i
        due(state) == Active(e) /\ entries[e].state = state /\ e \in expired
    IN  /\ sched.pc = "scan"
        /\ CASE Sendable(e) /\ e \in expired ->
                    /\ sched' = [sched EXCEPT !.pc = "send"]
                    /\ UNCHANGED <<storeVars, entries, expired>>
             [] due("WAITING_ACK") ->
                    /\ NextEntry
                    /\ IF Exhausted(e) THEN finalize_failure(e, "ACK_TIMEOUT")
                       ELSE Wait(e, "RETRY_BACKOFF")
             [] due("WAITING_RADIO") ->
                    /\ NextEntry
                    /\ IF Exhausted(e) THEN finalize_failure(e, "RADIO_TIMEOUT")
                       ELSE Wait(e, "RETRY_BACKOFF")
             [] OTHER ->
                    /\ NextEntry
                    /\ UNCHANGED <<storeVars, entries, expired>>
        /\ UNCHANGED <<next_generation, job, seqVars, radioq, results, http, rx, aired,
                       accepted, crashes>>

\* Random request ids are only ever compared for equality, so which unused
\* one is drawn makes no difference; that two of the few outstanding ids out
\* of 2^32 collide is left out.
UsedRequestIds == {q.request_id : q \in radioq} \cup {r.request_id : r \in results}
                  \cup {entries[e].radio_request_id : e \in {x \in Slots : Active(x)}}

FreshRequestId == CHOOSE r \in RequestIds : r \notin UsedRequestIds

\* send_current_packet up to the unlock: give up, fail to build the packet,
\* or hand a request to lora_tx_submit.
SendCurrentPacket ==
    LET e == sched.i
    IN  /\ sched.pc = "send"
        /\ IF ~Sendable(e)
           THEN /\ NextEntry
                /\ UNCHANGED <<storeVars, entries, expired, job>>
           ELSE IF Exhausted(e)
           THEN /\ NextEntry
                /\ finalize_failure(e, "RADIO_TIMEOUT")
                /\ UNCHANGED job
           ELSE \/ /\ NextEntry
                   /\ finalize_failure(e, "PACKET_BUILD")
                   /\ UNCHANGED job
                \/ /\ RequestIds \ UsedRequestIds # {}
                   /\ entries' = [entries EXCEPT ![e].state = "SUBMITTING",
                                                 ![e].attempts = @ + 1,
                                                 ![e].radio_request_id = FreshRequestId]
                   /\ job' = [message_id |-> entries[e].message.id,
                              generation |-> entries[e].generation,
                              request_id |-> FreshRequestId]
                   /\ sched' = [sched EXCEPT !.pc = "submit"]
                   /\ UNCHANGED <<storeVars, expired>>
        /\ UNCHANGED <<next_generation, seqVars, radioq, results, http, rx, aired, accepted,
                       crashes>>

\* lora_tx_submit, outside the lock.  The radio's queues are shared with the
\* forwarding worker, so they may be full at any time.
lora_tx_submit ==
    /\ sched.pc = "submit"
    /\ \/ /\ sched' = [sched EXCEPT !.pc = "accepted"]
          /\ radioq' = radioq \cup {[message_id |-> job.message_id,
                                     request_id |-> job.request_id,
                                     destination |-> entries[sched.i].message.destination]}
       \/ /\ sched' = [sched EXCEPT !.pc = "refused"]
          /\ UNCHANGED radioq
    /\ UNCHANGED <<storeVars, txVars, job, seqVars, results, http, rx, aired, accepted, crashes>>

find_entry_by_generation ==
    {e \in Slots : /\ Active(e)
                   /\ entries[e].message.id = job.message_id
                   /\ entries[e].generation = job.generation
                   /\ entries[e].radio_request_id = job.request_id}

\* send_current_packet after it has taken the lock again.
SubmitReturns ==
    /\ sched.pc \in {"accepted", "refused"}
    /\ LET found == find_entry_by_generation
           e == Min(found)
       IN  IF found = {} \/ (found # {} /\ entries[e].state # "SUBMITTING")
           THEN UNCHANGED <<storeVars, entries, expired>>
           ELSE IF sched.pc = "accepted" THEN Wait(e, "WAITING_RADIO")
           ELSE IF Exhausted(e) THEN finalize_failure(e, "QUEUE_FULL")
           ELSE Wait(e, "RETRY_BACKOFF")
    /\ NextEntry
    /\ job' = NoJob
    /\ UNCHANGED <<next_generation, seqVars, radioq, results, http, rx, aired, accepted, crashes>>

\* Time passes next_action_tick of an entry that waits for it.
TimePasses(e) ==
    /\ Active(e)
    /\ entries[e].state # "SUBMITTING"
    /\ e \notin expired
    /\ expired' = expired \cup {e}
    /\ UNCHANGED <<storeVars, entries, next_generation, schedVars, seqVars, radioq, results,
                   http, rx, aired, accepted, crashes>>

-----------------------------------------------------------------------------
(* The other tasks: radio, LoRa receive, and power loss.                   *)

\* lora_tx_task serves one request.  A transmission that ends in an error may
\* still have been on the air (no TX_DONE seen); a result that finds the
\* result queue full is dropped.
Transmit(q) ==
    /\ q \in radioq
    /\ radioq' = radioq \ {q}
    /\ \E result \in {"SUCCESS", "FAILURE"}, onAir \in BOOLEAN, kept \in BOOLEAN :
          /\ result = "SUCCESS" => onAir
          /\ aired' = IF onAir THEN aired \cup {<<q.message_id, q.destination>>} ELSE aired
          /\ results' = IF kept THEN results \cup {[message_id |-> q.message_id,
                                                    request_id |-> q.request_id,
                                                    result |-> result]}
                        ELSE results
    /\ UNCHANGED <<storeVars, txVars, schedVars, seqVars, http, rx, accepted, crashes>>

\* find_entry: ACKs come from the destination of the message.
find_entry(id, ack_sender) ==
    {e \in Slots : /\ Active(e)
                   /\ entries[e].state = "WAITING_ACK"
                   /\ entries[e].message.id = id
                   /\ entries[e].message.destination = ack_sender}

\* An ACK from the destination of a message that was on the air, at any time
\* and any number of times; one that finds no entry changes nothing.  This is
\* the scheduler's interface; the receive handler's own test, which comes
\* before the call, is AckMatches in MeshNetwork.
tx_scheduler_acknowledge(id, ack_source) ==
    /\ <<id, ack_source>> \in aired
    /\ ack_source \in Nodes \ {Me}
    /\ find_entry(id, ack_source) # {}
    /\ Finish(Min(find_entry(id, ack_source)), "ACKED")
    /\ UNCHANGED <<next_generation, schedVars, seqVars, radioq, results, http, rx, aired,
                   accepted, crashes>>

\* store_received_packet for a packet addressed to this node.
RxAllocate ==
    /\ rx = NoSlot
    /\ \/ \E s \in Slots, outcome \in NvsOutcomes :
             /\ message_store_allocate(s, outcome)
             /\ rx' = s
       \/ /\ \E outcome \in NvsOutcomes : AllocateFails(outcome)
          /\ UNCHANGED rx
    /\ UNCHANGED <<txVars, schedVars, seqVars, radioq, results, http, aired, accepted, crashes>>

RxWrite(id, source, epoch) ==
    /\ rx # NoSlot
    /\ \E outcome \in NvsOutcomes :
          message_store_write(rx, [id |-> id, direction |-> "RX", source |-> source,
                                   destination |-> Me, status |-> "RECEIVED",
                                   stored_epoch |-> epoch], outcome)
    /\ rx' = NoSlot
    /\ UNCHANGED <<txVars, schedVars, seqVars, radioq, results, http, aired, accepted, crashes>>

\* The i-th pending slot, in slot order, goes to the i-th entry.
Rank(pending, s) == Cardinality({t \in pending : t < s})

RestoredEntry(slots, s) ==
    NewEntry(slots[s], s, Rank(message_store_copy_pending_tx(slots), s) + 1)

tx_scheduler_restore_pending(slots) ==
    LET pending == message_store_copy_pending_tx(slots)
    IN  [e \in Slots |->
           IF \E s \in pending : Rank(pending, s) = e
           THEN RestoredEntry(slots, CHOOSE s \in pending : Rank(pending, s) = e)
           ELSE NoEntry]

\* Power loss, and app_runtime_start up to the creation of the tasks.  A
\* counter that cannot be read back starts at 0.
Reboot ==
    /\ crashes < MaxCrashes
    /\ crashes' = crashes + 1
    /\ \E readable \in Readable : message_store_load_messages_from_nvs(Me, readable)
    /\ seq' \in IF CounterOutcomes = {"ok"} THEN {seqNvs} ELSE {seqNvs, 0}
    /\ entries' = tx_scheduler_restore_pending(ram')
    /\ next_generation' = Cardinality(message_store_copy_pending_tx(ram'))
    /\ expired' = {}
    /\ sched' = [pc |-> "drain", i |-> 0]
    /\ job' = NoJob
    /\ radioq' = {}
    /\ results' = {}
    /\ http' = HttpIdle
    /\ rx' = NoSlot
    /\ UNCHANGED <<seqNvs, aired, accepted>>

-----------------------------------------------------------------------------
Init ==
    /\ ram = [s \in Slots |-> NoMessage]
    /\ nvs = [s \in Slots |-> NoMessage]
    /\ reserved = {}
    /\ active_count = 0
    /\ seq = 0 /\ seqNvs = 0
    /\ entries = [e \in Slots |-> NoEntry]
    /\ expired = {}
    /\ next_generation = 0
    /\ sched = [pc |-> "drain", i |-> 0]
    /\ job = NoJob
    /\ radioq = {} /\ results = {}
    /\ http = HttpIdle
    /\ rx = NoSlot
    /\ aired = {} /\ accepted = {}
    /\ crashes = 0

HttpTask ==
    \/ \E d \in Destinations, epoch \in Epochs : QueueMessage(d, epoch)
    \/ mesh_sequence_save \/ QueueAllocate \/ QueueWrite \/ tx_scheduler_submit

SchedulerTask ==
    DrainResult \/ DrainDone \/ Scan \/ SendCurrentPacket \/ lora_tx_submit \/ SubmitReturns

RadioTask == \E q \in radioq : Transmit(q)

RxTask ==
    \/ \E id \in Ids, source \in Nodes : tx_scheduler_acknowledge(id, source)
    \/ RxAllocate
    \/ \E id \in RxIds, source \in Nodes \ {Me}, epoch \in Epochs : RxWrite(id, source, epoch)

Next ==
    \/ HttpTask
    \/ SchedulerTask
    \/ RadioTask
    \/ RxTask
    \/ \E e \in Slots : TimePasses(e)
    \/ Reboot

Spec == Init /\ [][Next]_vars

-----------------------------------------------------------------------------
(* Safety                                                                  *)

\* Every active entry owns the store slot it will record its outcome in: the
\* slot holds that very message, still pending, not reserved by anyone and not
\* given to another entry.  Eviction, the receive task, failing flash and
\* reboots never take the slot away (tx_scheduler.c:163, message_store.c:237).
EntryOwnsSlot ==
    \A e \in Slots : Active(e) =>
        LET s == entries[e].nvs_slot
        IN  /\ IsPendingTx(ram[s])
            /\ ram[s].id = entries[e].message.id
            /\ ram[s].destination = entries[e].message.destination
            /\ s \notin reserved
            /\ \A f \in Slots : Active(f) /\ f # e => entries[f].nvs_slot # s
            /\ http.pc = "written" => http.slot # s

\* A slot between allocate and write belongs to the one task that got it and is
\* empty; and from the write to tx_scheduler_submit the slot keeps the message
\* queue_message put there (message_store.c:237-327, app_runtime.c:287-296).
ReservationsHeld ==
    /\ \A s \in reserved : ram[s] = NoMessage
    /\ rx # NoSlot => rx \in reserved
    /\ http.pc = "allocated" => http.slot \in reserved /\ http.slot # rx
    /\ http.pc = "written" => http.slot \in Slots /\ ram[http.slot] = http.message

\* queue_message always finds a free scheduler entry once its message is in
\* the store: the "TX queue full" branch is unreachable (app_runtime.c:296).
SubmitHasRoom == http.pc = "written" => FreeEntries # {}

\* A record says SENT, ACKED or FAILED_TIMEOUT only if the message really was
\* on the air at least once, in RAM as in flash: late, lost and mixed-up radio
\* results never produce such a status (tx_scheduler.c:175-227).
SentWasOnAir ==
    \A s \in Slots, table \in {ram, nvs} :
        /\ table[s] \in Message
        /\ table[s].status \in {"SENT", "ACKED", "FAILED_TIMEOUT"}
        => <<table[s].id, table[s].destination>> \in aired

\* The scheduler is done with the message and recorded how it ended.
IsFinal(m) ==
    /\ m \in Message
    /\ m.direction = "TX"
    /\ state_for_message(m) \in {"ACKED", "FAILED"}

\* A final status in flash is never changed afterwards: a delivered message
\* does not turn FAILED, nor a failed one ACKED, and neither is queued again,
\* not even by a boot (tx_scheduler.c:337-348, 481-501).
FinalStatusIsFinal ==
    [][\A s \in Slots :
          /\ nvs'[s] # nvs[s]
          /\ IsFinal(nvs[s])
          /\ nvs'[s] \in Message
          /\ nvs'[s].id = nvs[s].id /\ nvs'[s].source = nvs[s].source
          => nvs'[s].status = nvs[s].status]_vars

\* With a flash that works: every message the store shows as pending is being
\* worked on, by an active entry or by queue_message on its way to the
\* scheduler (message_store.c:497-515, tx_scheduler.c:412-438).
PendingIsScheduled ==
    \A s \in Slots : IsPendingTx(ram[s]) =>
        \/ \E e \in Slots : Active(e) /\ entries[e].nvs_slot = s
        \/ http.pc = "written" /\ http.slot = s
=============================================================================
