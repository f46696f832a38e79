---------------------------- MODULE MessageStore ----------------------------
(***************************************************************************)
(* The message store (src/src/messages/message_store.c): MAX_MESSAGES      *)
(* fixed slots, each mirrored in RAM and in flash (NVS), and the           *)
(* reservations that bridge message_store_allocate and the write that      *)
(* follows it.  Every operation holds message_mutex from beginning to end, *)
(* so each one is a single action here.  Flash may fail at every access.   *)
(*                                                                         *)
(* The module has two uses: TxScheduler extends it and calls the           *)
(* operations below from the tasks that own them; MessageStoreApi          *)
(* exercises the whole interface from concurrent callers.                  *)
(***************************************************************************)
EXTENDS Integers, FiniteSetsExt

CONSTANTS
    MAX_MESSAGES,   \* slots of the store
    Ids,            \* packet ids a message may carry
    Nodes,          \* node ids
    ALL,            \* the reserved broadcast destination
    Epochs,         \* values of stored_epoch; 0 = clock not synchronised
    NvsOutcomes,    \* what one flash access may do, see NvsOutcome
    NoMessage,      \* an empty slot, or no blob under the slot's key
    Corrupt         \* a blob that fails persisted_record_valid

\* A flash access succeeds, fails before changing anything, or changes the
\* flash and then fails to commit (the caller sees an error).
NvsOutcome == {"ok", "failed", "uncommitted"}

FailedStatuses == {"FAILED", "FAILED_TIMEOUT", "FAILED_QUEUE", "FAILED_RADIO"}

Statuses == {"PENDING", "QUEUED", "SENT", "ACKED", "RECEIVED"} \cup FailedStatuses

\* emergency_message_t, without payload, location, signal and display fields.
Message == [id : Ids, direction : {"TX", "RX"}, source : Nodes,
            destination : Nodes \cup {ALL}, status : Statuses,
            stored_epoch : Epochs]

ASSUME StoreAssumption ==
    /\ MAX_MESSAGES \in Nat \ {0}
    /\ Ids \subseteq Nat \ {0}
    /\ Epochs \subseteq Nat
    /\ NvsOutcomes \subseteq NvsOutcome
    /\ "ok" \in NvsOutcomes
    /\ ALL \notin Nodes
    /\ NoMessage \notin Message
    /\ Corrupt \notin Message
    /\ Corrupt # NoMessage

Slots == 0 .. MAX_MESSAGES - 1

VARIABLES
    ram,            \* persisted_slots: what the firmware reads
    nvs,            \* the blobs msg_0, msg_1, ... in flash
    reserved,       \* reserved_slots, as the set of the reserved ones
    active_count    \* number of non-empty slots, kept for /status

storeVars == <<ram, nvs, reserved, active_count>>

StoreTypeOK ==
    /\ ram \in [Slots -> Message \cup {NoMessage}]
    /\ nvs \in [Slots -> Message \cup {NoMessage, Corrupt}]
    /\ reserved \in SUBSET Slots
    /\ active_count = Cardinality({s \in Slots : ram[s] # NoMessage})

-----------------------------------------------------------------------------
(* Reading a record                                                        *)

\* The direction is looked at first: a received message is RECEIVED whatever
\* its status says.
state_for_message(m) ==
    IF m.direction = "RX" THEN "RECEIVED"
    ELSE CASE m.status = "ACKED"            -> "ACKED"
           [] m.status \in FailedStatuses   -> "FAILED"
           [] m.status = "SENT"             -> "SENT"
           [] OTHER                         -> "QUEUED"

\* persisted_slots[s].state: zero for an empty slot, and otherwise what
\* write_record_locked derived from the message it stored.
SlotState(s) == IF ram[s] = NoMessage THEN "EMPTY" ELSE state_for_message(ram[s])

ActiveCount(slots) == Cardinality({s \in Slots : slots[s] # NoMessage})

recalculate_active_count == active_count' = ActiveCount(ram')

find_message_slot(id, source) ==
    LET matching == {s \in Slots : /\ ram[s] # NoMessage
                                   /\ ram[s].id = id
                                   /\ ram[s].source = source}
    IN  IF matching = {} THEN -1 ELSE Min(matching)

\* Records of this node that still have to be transmitted.
IsPendingTx(m) ==
    /\ m # NoMessage
    /\ m.direction = "TX"
    /\ state_for_message(m) \in {"QUEUED", "SENT"}

\* Plausible bugs: the records awaiting their ACK are forgotten; the tests of
\* direction and state are missing.
CopyOnlyQueued(slots) ==
    {s \in Slots : IsPendingTx(slots[s]) /\ state_for_message(slots[s]) = "QUEUED"}
CopyEveryRecord(slots) == {s \in Slots : slots[s] # NoMessage}

message_store_copy_pending_tx(slots) == {s \in Slots : IsPendingTx(slots[s])}

-----------------------------------------------------------------------------
(* Writing and erasing one record.  RAM follows the flash only when the    *)
(* whole sequence, commit included, reported success.                      *)

write_record_locked(s, m, outcome) ==
    /\ nvs' = IF outcome = "failed" THEN nvs ELSE [nvs EXCEPT ![s] = m]
    /\ ram' = IF outcome = "ok" THEN [ram EXCEPT ![s] = m] ELSE ram
    /\ recalculate_active_count

\* A plausible bug: the slot is emptied in RAM only.
DeleteRamOnly(s, outcome) ==
    /\ nvs' = nvs
    /\ ram' = IF outcome = "ok" THEN [ram EXCEPT ![s] = NoMessage] ELSE ram
    /\ recalculate_active_count

delete_record_locked(s, outcome) ==
    /\ nvs' = IF outcome = "failed" THEN nvs ELSE [nvs EXCEPT ![s] = NoMessage]
    /\ ram' = IF outcome = "ok" THEN [ram EXCEPT ![s] = NoMessage] ELSE ram
    /\ recalculate_active_count

-----------------------------------------------------------------------------
(* message_store_allocate: the first empty slot nobody reserved, else the  *)
(* slot of the oldest finished message.                                    *)

\* A plausible bug: a slot between allocate and write counts as free.
FreeIgnoringReserved == {s \in Slots : ram[s] = NoMessage}

FreeSlots == {s \in Slots : ram[s] = NoMessage /\ s \notin reserved}

\* A plausible bug: a SENT message, whose ACK is still awaited, counts as done.
EvictableAlsoSent == {s \in Slots \ reserved :
                        /\ ram[s] # NoMessage
                        /\ state_for_message(ram[s]) # "QUEUED"}

Evictable == {s \in Slots \ reserved :
                /\ ram[s] # NoMessage
                /\ state_for_message(ram[s]) \in {"ACKED", "FAILED", "RECEIVED"}}

\* An undated message (stored_epoch = 0) goes only when no dated one is left.
OldestSlot ==
    LET dated == {s \in Evictable : ram[s].stored_epoch # 0}
        first == Min({ram[s].stored_epoch : s \in dated})
    IN  IF dated = {} THEN Min(Evictable)
        ELSE Min({s \in dated : ram[s].stored_epoch = first})

\* Success: s is the slot handed to the caller.
message_store_allocate(s, outcome) ==
    /\ \/ /\ FreeSlots # {}
          /\ s = Min(FreeSlots)
          /\ UNCHANGED <<ram, nvs, active_count>>
       \/ /\ FreeSlots = {}
          /\ Evictable # {}
          /\ s = OldestSlot
          /\ outcome = "ok"
          /\ delete_record_locked(s, outcome)
    /\ reserved' = reserved \cup {s}

\* Failure: nothing to evict, or the eviction could not be made durable.
AllocateFails(outcome) ==
    /\ FreeSlots = {}
    /\ \/ /\ Evictable = {}
          /\ UNCHANGED <<ram, nvs, active_count>>
       \/ /\ Evictable # {}
          /\ outcome # "ok"
          /\ delete_record_locked(OldestSlot, outcome)
    /\ UNCHANGED reserved

-----------------------------------------------------------------------------
(* The other operations.                                                   *)

\* A plausible bug: the early return of a failed write keeps the reservation.
WriteKeepsReservation(s, m, outcome) ==
    IF s \in reserved
    THEN /\ write_record_locked(s, m, outcome)
         /\ reserved' = IF outcome = "ok" THEN reserved \ {s} ELSE reserved
    ELSE UNCHANGED storeVars

\* Needs the reservation, and gives it up even when the flash write fails.
message_store_write(s, m, outcome) ==
    IF s \in reserved
    THEN /\ write_record_locked(s, m, outcome)
         /\ reserved' = reserved \ {s}
    ELSE UNCHANGED storeVars

\* A plausible bug: the new status never reaches the flash.
UpdateRamOnly(s, m, outcome) ==
    IF ram[s] # NoMessage
    THEN /\ ram' = [ram EXCEPT ![s] = m]
         /\ UNCHANGED <<nvs, reserved, active_count>>
    ELSE UNCHANGED storeVars

message_store_update(s, m, outcome) ==
    IF ram[s] # NoMessage
    THEN /\ write_record_locked(s, m, outcome)
         /\ UNCHANGED reserved
    ELSE IF s \in reserved
         THEN /\ write_record_locked(s, m, outcome)
              /\ reserved' = reserved \ {s}
         ELSE UNCHANGED storeVars

message_store_delete(s, outcome) ==
    IF s \in reserved /\ ram[s] = NoMessage
    THEN /\ reserved' = reserved \ {s}
         /\ UNCHANGED <<ram, nvs, active_count>>
    ELSE /\ delete_record_locked(s, outcome)
         /\ UNCHANGED reserved

message_store_remove(id, source, outcome) ==
    LET s == find_message_slot(id, source)
    IN  IF s >= 0
        THEN /\ delete_record_locked(s, outcome)
             /\ UNCHANGED reserved
        ELSE UNCHANGED storeVars

message_store_update_status(id, source, status, outcome) ==
    LET s == find_message_slot(id, source)
    IN  IF s >= 0
        THEN /\ write_record_locked(s, [ram[s] EXCEPT !.status = status], outcome)
             /\ UNCHANGED reserved
        ELSE UNCHANGED storeVars

\* A plausible bug: whose message it is, is not asked.
LoadEveryRecord(blob, node) == IF blob \in Message THEN blob ELSE NoMessage

\* What a boot as `node` reads back from one blob: nothing for a missing or
\* invalid record, nor for a message that is neither from nor to this node.
load_persisted_slot(blob, node) ==
    IF /\ blob \in Message
       /\ blob.source = node \/ blob.destination = node
    THEN blob
    ELSE NoMessage

\* The namespace may fail to open when flash may fail at all.
Readable == IF NvsOutcomes = {"ok"} THEN {TRUE} ELSE BOOLEAN

message_store_load_messages_from_nvs(node, readable) ==
    /\ ram' = [s \in Slots |-> IF readable THEN load_persisted_slot(nvs[s], node)
                               ELSE NoMessage]
    /\ reserved' = {}
    /\ recalculate_active_count
    /\ UNCHANGED nvs
=============================================================================
