--------------------------- MODULE MessageStoreApi ---------------------------
(***************************************************************************)
(* The message store driven through its whole interface by concurrent      *)
(* tasks, across reboots (also under another node id) and flash failures.  *)
(* A caller respects the interface's one rule: a slot that another task    *)
(* has reserved is left alone.                                             *)
(*                                                                         *)
(* The blobs are in the namespace of the configuration (node_config.c), so *)
(* that a factory reset erases them without the store knowing.             *)
(***************************************************************************)
EXTENDS MessageStore

CONSTANTS
    Tasks,      \* callers: the HTTP server task, the LoRa receive task, ...
    MaxId       \* bound: messages written in one behaviour

ASSUME ApiAssumption == MaxId \in Nat /\ 1 .. MaxId \subseteq Ids

NoSlot == -1

VARIABLES
    identity,   \* the node this is, since the last boot
    holding,    \* slot each task got from message_store_allocate, or NoSlot
    lastId,     \* ids are handed out once
    doubtful,   \* history: slots whose last flash access was not a success, or whose blob
                \* a factory reset has erased
    deleted     \* history: ids whose deletion was reported as done

apiVars == <<storeVars, identity, holding, lastId, doubtful, deleted>>

\* What a node writes: its own messages as PENDING, and as RECEIVED those that
\* name it as their destination.
NewMessages(id, node) ==
    {m \in [id : {id}, direction : {"TX"}, source : {node}, destination : Nodes \cup {ALL},
            status : {"PENDING"}, stored_epoch : Epochs] : m.destination # node}
    \cup [id : {id}, direction : {"RX"}, source : Nodes \ {node}, destination : {node},
          status : {"RECEIVED"}, stored_epoch : Epochs]

Touched(s, outcome) ==
    doubtful' = IF outcome = "ok" THEN doubtful \ {s} ELSE doubtful \cup {s}

DeletionOf(s, outcome) ==
    deleted' = IF outcome = "ok" /\ ram[s] # NoMessage
               THEN deleted \cup {ram[s].id} ELSE deleted

Allocate(t) ==
    /\ holding[t] = NoSlot
    /\ \E s \in Slots, outcome \in NvsOutcomes :
          /\ message_store_allocate(s, outcome)
          /\ holding' = [holding EXCEPT ![t] = s]
          /\ DeletionOf(s, "ok")
          /\ doubtful' = IF FreeSlots = {} THEN doubtful \ {s} ELSE doubtful
    /\ UNCHANGED <<identity, lastId>>

AllocateDenied(t) ==
    /\ holding[t] = NoSlot
    /\ \E outcome \in NvsOutcomes :
          /\ AllocateFails(outcome)
          /\ IF Evictable = {} THEN UNCHANGED doubtful ELSE Touched(OldestSlot, outcome)
    /\ UNCHANGED <<identity, holding, lastId, deleted>>

Write(t) ==
    /\ holding[t] # NoSlot
    /\ lastId < MaxId
    /\ lastId' = lastId + 1
    /\ \E m \in NewMessages(lastId + 1, identity), outcome \in NvsOutcomes :
          /\ message_store_write(holding[t], m, outcome)
          /\ Touched(holding[t], outcome)
    /\ holding' = [holding EXCEPT ![t] = NoSlot]
    /\ UNCHANGED <<identity, deleted>>

\* message_store_delete of the caller's own reservation.
Release(t) ==
    /\ holding[t] # NoSlot
    /\ \E outcome \in NvsOutcomes : message_store_delete(holding[t], outcome)
    /\ holding' = [holding EXCEPT ![t] = NoSlot]
    /\ UNCHANGED <<identity, lastId, doubtful, deleted>>

Update(s) ==
    /\ ram[s] # NoMessage
    /\ \E status \in {"SENT", "ACKED"}, outcome \in NvsOutcomes :
          /\ message_store_update(s, [ram[s] EXCEPT !.status = status], outcome)
          /\ Touched(s, outcome)
    /\ UNCHANGED <<identity, holding, lastId, deleted>>

UpdateStatus(id, source) ==
    /\ find_message_slot(id, source) >= 0
    /\ \E outcome \in NvsOutcomes :
          /\ message_store_update_status(id, source, "FAILED", outcome)
          /\ Touched(find_message_slot(id, source), outcome)
    /\ UNCHANGED <<identity, holding, lastId, deleted>>

Delete(s) ==
    /\ s \notin reserved
    /\ \E outcome \in NvsOutcomes :
          /\ message_store_delete(s, outcome)
          /\ DeletionOf(s, outcome)
          /\ Touched(s, outcome)
    /\ UNCHANGED <<identity, holding, lastId>>

RemoveById(id, source) ==
    LET s == find_message_slot(id, source)
    IN  /\ s >= 0
        /\ \E outcome \in NvsOutcomes :
              /\ message_store_remove(id, source, outcome)
              /\ DeletionOf(s, outcome)
              /\ Touched(s, outcome)
        /\ UNCHANGED <<identity, holding, lastId>>

\* After a boot, the slots that differ from flash are those whose blob was
\* not taken over: unreadable, invalid, or not this node's.
Reboot(node) ==
    /\ identity' = node
    /\ \E readable \in Readable :
           /\ message_store_load_messages_from_nvs(node, readable)
           /\ holding' = [t \in Tasks |-> NoSlot]
           /\ doubtful' = {s \in Slots : /\ nvs[s] # NoMessage
                                         /\ \/ ~readable
                                            \/ nvs[s] = Corrupt
                                            \/ node \notin {nvs[s].source, nvs[s].destination}}
           /\ UNCHANGED <<lastId, deleted>>

\* node_config_erase, called by the tasks of a factory reset: the blobs go, all
\* but `kept` when the erase fails midway.  RAM stays as it is up to the reboot.
NamespaceErased(kept) ==
    /\ nvs' = [s \in Slots |-> IF s \in kept THEN nvs[s] ELSE NoMessage]
    /\ doubtful' = (doubtful \cap kept) \cup {s \in Slots \ kept : ram[s] # NoMessage}
    /\ UNCHANGED <<ram, reserved, active_count, identity, holding, lastId, deleted>>

\* Flash may hold records that an older firmware wrote in another format.
StoreInit ==
    /\ nvs \in [Slots -> {NoMessage, Corrupt}]
    /\ ram = [s \in Slots |-> NoMessage]
    /\ reserved = {}
    /\ active_count = 0
    /\ identity \in Nodes
    /\ holding = [t \in Tasks |-> NoSlot]
    /\ lastId = 0
    /\ doubtful = {s \in Slots : nvs[s] = Corrupt}
    /\ deleted = {}

\* What the tasks of a running node do to the store.
StoreOperation ==
    \/ \E t \in Tasks : Allocate(t) \/ AllocateDenied(t) \/ Write(t) \/ Release(t)
    \/ \E s \in Slots : Update(s) \/ Delete(s)
    \/ \E id \in 1 .. lastId, source \in Nodes : UpdateStatus(id, source) \/ RemoveById(id, source)

StoreNext ==
    \/ StoreOperation
    \/ \E node \in Nodes : Reboot(node)
    \/ \E kept \in SUBSET Slots : NamespaceErased(kept)

StoreSpec == StoreInit /\ [][StoreNext]_apiVars

-----------------------------------------------------------------------------
(* The eviction loop as written, against the declarative OldestSlot.       *)

\* The bug a reader of the loop suspects first: 0 compared as a date.
ScanWithoutZeroTest(best, s) ==
    IF \/ best.slot = NoSlot
       \/ ram[s].stored_epoch < best.epoch
    THEN [slot |-> s, epoch |-> ram[s].stored_epoch]
    ELSE best

\* One round of the loop over the slots.
ScanStep(best, s) ==
    IF \/ best.slot = NoSlot
       \/ /\ ram[s].stored_epoch # 0
          /\ best.epoch = 0 \/ ram[s].stored_epoch < best.epoch
    THEN [slot |-> s, epoch |-> ram[s].stored_epoch]
    ELSE best

\* The loop after n slots.
Scanned[n \in 0 .. MAX_MESSAGES] ==
    IF n = 0 THEN [slot |-> NoSlot, epoch |-> 0]
    ELSE IF n - 1 \in Evictable THEN ScanStep(Scanned[n - 1], n - 1)
    ELSE Scanned[n - 1]

EvictionScan == Scanned[MAX_MESSAGES].slot

-----------------------------------------------------------------------------
(* Properties                                                              *)

\* A slot is reserved exactly while one task is between allocate and write:
\* no reservation is shared, leaked or lost, whatever fails or reboots, and
\* a reserved slot holds nothing (message_store.c:237-327).
ReservationsExact ==
    /\ reserved = {holding[t] : t \in Tasks} \ {NoSlot}
    /\ \A t, u \in Tasks : t # u /\ holding[t] # NoSlot => holding[t] # holding[u]
    /\ \A s \in reserved : ram[s] = NoMessage

\* What the firmware shows for a slot is what the next boot will read, unless
\* the last flash access to that slot reported an error, its blob was not this
\* node's, or a factory reset has erased it, which the store is not told: until
\* the restart half a second later such a slot shows a message that flash does
\* not have, unless an update writes it back (message_store.c:12, 275-312,
\* node_config.c:13, 310).
CleanSlotIsDurable == \A s \in Slots \ doubtful : nvs[s] = ram[s]

\* A message whose deletion or eviction was reported as done never comes
\* back, neither in RAM nor after a reboot (message_store.c:124-162).
DeletedStaysDeleted ==
    \A s \in Slots :
        /\ ram[s] # NoMessage => ram[s].id \notin deleted
        /\ nvs[s] \in Message => nvs[s].id \notin deleted

\* Whoever the node was before a setup or a reset, it never shows a message
\* that is neither from it nor to it: not the mail of its former identity that
\* is still in flash (message_store.c:216-224, app_runtime.c:148-153, 387-394,
\* node_config.c:310).
ShowsOwnMail ==
    \A s \in Slots : ram[s] # NoMessage => identity \in {ram[s].source, ram[s].destination}

\* The loop of message_store_allocate picks the oldest dated message that may
\* be evicted, and an undated one only when there is no dated one
\* (message_store.c:252-264).
ScanFindsOldest == Evictable # {} => EvictionScan = OldestSlot
=============================================================================
