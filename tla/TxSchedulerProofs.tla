-------------------------- MODULE TxSchedulerProofs --------------------------
(***************************************************************************)
(* Proofs about TxScheduler for any number of slots, ids, nodes, attempts  *)
(* and power losses, and for a flash that may fail at every access:        *)
(*   - type correctness of the store and of the scheduler;                 *)
(*   - every active entry owns its store slot (EntryOwnsSlot);             *)
(*   - queue_message never meets a full scheduler (SubmitHasRoom).         *)
(* The second half builds on these, for what the outgoing path promises:   *)
(*   - on any flash, a record says SENT, ACKED or FAILED_TIMEOUT only if   *)
(*     the message was on the air (SentWasOnAir);                          *)
(*   - with a packet counter that is saved, a final status in flash is     *)
(*     final (FinalStatusIsFinal);                                         *)
(*   - on a flash that works, every pending message is being worked on     *)
(*     (PendingIsScheduled), and the node implements the safety part of    *)
(*     Outbox.                                                             *)
(***************************************************************************)
EXTENDS TxSchedulerLive, TLAPS, FiniteSetTheorems, WellFoundedInduction

-----------------------------------------------------------------------------
(* The inductive invariant.                                                *)

\* The message queue_message has built and not yet handed over.
MessageInHand ==
    http.pc # "idle" =>
        /\ http.message \in Message
        /\ http.message.direction = "TX"
        /\ http.message.status = "PENDING"

\* While send_current_packet is outside the lock nobody touches its entry.
SubmissionInHand ==
    sched.pc \in {"submit", "accepted", "refused"} =>
        /\ job \in [message_id : Ids, generation : Nat, request_id : RequestIds]
        /\ Active(sched.i)
        /\ entries[sched.i].state = "SUBMITTING"

\* The entry's own copy of the message is pending too.
EntriesPending == \A e \in Slots : Active(e) => IsPendingTx(entries[e].message)

Ownership == EntriesPending /\ ReservationsHeld /\ EntryOwnsSlot

IInv ==
    /\ StoreTypeOK
    /\ TxTypeOK
    /\ MessageInHand
    /\ SubmissionInHand
    /\ Ownership

-----------------------------------------------------------------------------
(* Minima and finite sets.                                                 *)

\* Min finds the least element of a non-empty set of naturals.
LEMMA MinOfNaturals ==
    ASSUME NEW S \in SUBSET Nat, S # {}
    PROVE  Min(S) \in S
<1> DEFINE LT == {p \in Nat \X Nat : p[1] < p[2]}
<1>1. IsWellFoundedOn(LT, Nat)
    BY NatLessThanWellFounded, Zenon DEF OpToRel
<1>2. \A x, y \in Nat : <<y, x>> \notin LT => x <= y
    <2>1. SUFFICES ASSUME NEW x \in Nat, NEW y \in Nat, y < x
                   PROVE  <<y, x>> \in LT
        OBVIOUS
    <2>2. <<y, x>> \in Nat \X Nat /\ <<y, x>>[1] < <<y, x>>[2]
        BY <2>1
    <2> QED
        BY <2>2
<1> HIDE DEF LT
<1>3. PICK x \in S : \A y \in S : <<y, x>> \notin LT
    BY <1>1, WFMin
<1>4. \A y \in S : x <= y
    BY <1>2, <1>3
<1> QED
    BY <1>4 DEF Min

\* The first of a non-empty set of slots (the linear scans of the code) is one of them.
LEMMA MinOfSlots ==
    ASSUME NEW S \in SUBSET Slots, S # {}
    PROVE  Min(S) \in S
<1>1. S \in SUBSET Nat
    BY StoreAssumption DEF Slots
<1> QED
    BY <1>1, MinOfNaturals

\* The store has finitely many slots, so its sets of slots have a cardinality.
LEMMA SlotsFinite ==
    /\ IsFiniteSet(Slots)
    /\ Cardinality(Slots) = MAX_MESSAGES
<1>1. MAX_MESSAGES \in Int /\ MAX_MESSAGES >= 1
    BY StoreAssumption
<1>2. 0 \in Int /\ MAX_MESSAGES - 1 \in Int
    BY <1>1
<1>3. /\ IsFiniteSet(0 .. MAX_MESSAGES - 1)
      /\ Cardinality(0 .. MAX_MESSAGES - 1)
            = IF 0 > MAX_MESSAGES - 1 THEN 0 ELSE (MAX_MESSAGES - 1) - 0 + 1
    BY <1>2, FS_Interval
<1> QED
    BY <1>1, <1>3 DEF Slots

-----------------------------------------------------------------------------
(* What the store's operations do to the slots.                            *)

\* message_store_update of a slot in use touches that slot only, and leaves
\* either the old or the new record in it.
LEMMA UpdateFrame ==
    ASSUME StoreTypeOK,
           NEW s \in Slots, ram[s] # NoMessage,
           NEW m \in Message, NEW outcome \in NvsOutcomes,
           message_store_update(s, m, outcome)
    PROVE  /\ StoreTypeOK'
           /\ reserved' = reserved
           /\ ram'[s] = m \/ ram'[s] = ram[s]
           /\ \A t \in Slots \ {s} : ram'[t] = ram[t]
BY DEF StoreTypeOK, message_store_update, write_record_locked,
       recalculate_active_count, ActiveCount

\* message_store_write of a reserved slot likewise, and gives up the
\* reservation; on success the slot holds the new record.
LEMMA WriteFrame ==
    ASSUME StoreTypeOK,
           NEW s \in reserved,
           NEW m \in Message, NEW outcome \in NvsOutcomes,
           message_store_write(s, m, outcome)
    PROVE  /\ StoreTypeOK'
           /\ reserved' = reserved \ {s}
           /\ ram'[s] = m \/ ram'[s] = ram[s]
           /\ outcome = "ok" => ram'[s] = m
           /\ \A t \in Slots \ {s} : ram'[t] = ram[t]
BY DEF StoreTypeOK, message_store_write, write_record_locked,
       recalculate_active_count, ActiveCount

\* The slot the eviction picks is one of those that may go.
LEMMA OldestIsEvictable ==
    ASSUME StoreTypeOK, Evictable # {}
    PROVE  OldestSlot \in Evictable
<1> DEFINE dated == {t \in Evictable : ram[t].stored_epoch # 0}
           first == Min({ram[t].stored_epoch : t \in dated})
<1>1. CASE dated = {}
    BY <1>1, MinOfSlots DEF OldestSlot, Evictable
<1>2. CASE dated # {}
    <2> DEFINE epochs == {ram[t].stored_epoch : t \in dated}
               oldest == {t \in dated : ram[t].stored_epoch = first}
    <2>1. \A t \in dated : ram[t] \in Message
        BY DEF Evictable, StoreTypeOK
    <2>2. \A t \in dated : ram[t].stored_epoch \in Nat
        BY <2>1, StoreAssumption DEF Message
    <2>3. epochs \in SUBSET Nat /\ epochs # {}
        <3> HIDE DEF dated
        <3> QED
            BY <1>2, <2>2
    <2>4. Min(epochs) \in epochs
        BY <2>3, MinOfNaturals
    <2>5. oldest # {} /\ oldest \in SUBSET Slots
        BY <2>4 DEF Evictable
    <2>6. Min(oldest) \in oldest
        BY <2>5, MinOfSlots
    <2>7. OldestSlot = Min(oldest)
        BY <1>2 DEF OldestSlot
    <2> QED
        BY <2>6, <2>7
<1> QED
    BY <1>1, <1>2

\* message_store_allocate hands out a slot that nobody had reserved and that
\* was empty or held a finished message; it is empty now.
LEMMA AllocateFrame ==
    ASSUME StoreTypeOK,
           NEW s \in Slots, NEW outcome \in NvsOutcomes,
           message_store_allocate(s, outcome)
    PROVE  /\ StoreTypeOK'
           /\ s \notin reserved
           /\ reserved' = reserved \cup {s}
           /\ ram'[s] = NoMessage
           /\ \A t \in Slots \ {s} : ram'[t] = ram[t]
           /\ ~IsPendingTx(ram[s])
<1>1. CASE FreeSlots # {}
    <2>1. s = Min(FreeSlots) /\ UNCHANGED <<ram, nvs, active_count>>
        BY <1>1 DEF message_store_allocate
    <2>2. s \in FreeSlots
        BY <1>1, <2>1, MinOfSlots DEF FreeSlots
    <2> QED
        BY <2>1, <2>2 DEF FreeSlots, StoreTypeOK, message_store_allocate, IsPendingTx
<1>2. CASE FreeSlots = {}
    <2>1. s = OldestSlot /\ Evictable # {} /\ outcome = "ok" /\ delete_record_locked(s, outcome)
        BY <1>2 DEF message_store_allocate
    <2>2. s \in Evictable
        BY <2>1, OldestIsEvictable
    <2> QED
        BY <2>1, <2>2 DEF Evictable, StoreTypeOK, message_store_allocate,
                          delete_record_locked, recalculate_active_count, ActiveCount,
                          IsPendingTx
<1> QED
    BY <1>1, <1>2

\* A failed allocation changes no slot the firmware reads.
LEMMA AllocateFailsFrame ==
    ASSUME StoreTypeOK, NEW outcome \in NvsOutcomes, AllocateFails(outcome)
    PROVE  StoreTypeOK' /\ ram' = ram /\ reserved' = reserved
<1>1. CASE Evictable = {}
    BY <1>1 DEF AllocateFails, StoreTypeOK
<1>2. CASE Evictable # {}
    <2>1. outcome # "ok" /\ delete_record_locked(OldestSlot, outcome) /\ UNCHANGED reserved
        BY <1>2 DEF AllocateFails
    <2> QED
        BY <2>1 DEF delete_record_locked, recalculate_active_count, ActiveCount, StoreTypeOK
<1> QED
    BY <1>1, <1>2

-----------------------------------------------------------------------------
(* Ownership under a change of one entry and its slot.                     *)

\* An active entry is changed and keeps its message, and the slot it owns
\* still holds that message, pending: everybody owns what they owned.
LEMMA EntryChange ==
    ASSUME StoreTypeOK, TxTypeOK, Ownership,
           NEW e \in Slots, Active(e),
           NEW n \in Entry,
           n.nvs_slot = entries[e].nvs_slot,
           n.message.id = entries[e].message.id,
           n.message.destination = entries[e].message.destination,
           IsPendingTx(n.message),
           entries' = [entries EXCEPT ![e] = n],
           reserved' = reserved,
           \A t \in Slots \ {n.nvs_slot} : ram'[t] = ram[t],
           ram'[n.nvs_slot] = ram[n.nvs_slot] \/ ram'[n.nvs_slot] = n.message,
           UNCHANGED <<http, rx>>
    PROVE  Ownership' /\ entries' \in [Slots -> Entry \cup {NoEntry}]
<1> DEFINE s == n.nvs_slot
<1>1. /\ entries \in [Slots -> Entry \cup {NoEntry}]
      /\ s \in Slots
    BY DEF TxTypeOK, Entry
<1>2. entries' \in [Slots -> Entry \cup {NoEntry}]
    BY <1>1
<1>3. /\ IsPendingTx(ram[s])
      /\ s \notin reserved
      /\ ram[s].id = n.message.id
      /\ ram[s].destination = n.message.destination
      /\ \A f \in Slots : Active(f) /\ f # e => entries[f].nvs_slot # s
      /\ http.pc = "written" => http.slot # s
    BY DEF Ownership, EntryOwnsSlot
<1>4. /\ IsPendingTx(ram'[s])
      /\ ram'[s].id = n.message.id
      /\ ram'[s].destination = n.message.destination
    BY <1>3
<1>5. EntriesPending'
    BY <1>1 DEF Ownership, EntriesPending, Active
<1>6. ReservationsHeld'
    BY <1>1, <1>3, <1>4 DEF Ownership, ReservationsHeld, StoreTypeOK
<1>7. EntryOwnsSlot'
    <2> SUFFICES ASSUME NEW f \in Slots, Active(f)'
                 PROVE  LET t == entries'[f].nvs_slot
                        IN  /\ IsPendingTx(ram'[t])
                            /\ ram'[t].id = entries'[f].message.id
                            /\ ram'[t].destination = entries'[f].message.destination
                            /\ t \notin reserved'
                            /\ \A g \in Slots : Active(g)' /\ g # f => entries'[g].nvs_slot # t
                            /\ http'.pc = "written" => http'.slot # t
        BY DEF EntryOwnsSlot
    <2>1. CASE f = e
        BY <1>1, <1>3, <1>4, <2>1 DEF Active
    <2>2. CASE f # e
        <3>1. Active(f) /\ entries'[f] = entries[f] /\ entries[f].nvs_slot \in Slots
            BY <1>1, <2>2 DEF Active, Entry
        <3>2. entries[f].nvs_slot # s
            BY <1>3, <2>2, <3>1
        <3> QED
            BY <1>1, <1>3, <2>2, <3>1, <3>2 DEF Active, Ownership, EntryOwnsSlot
    <2> QED
        BY <2>1, <2>2
<1> QED
    BY <1>2, <1>5, <1>6, <1>7 DEF Ownership

\* An entry that ends gives up its slot, whatever becomes of the record.
LEMMA EntryEnds ==
    ASSUME StoreTypeOK, TxTypeOK, Ownership,
           NEW e \in Slots, Active(e),
           NEW status \in Statuses,
           Finish(e, status),
           UNCHANGED <<http, rx>>
    PROVE  /\ StoreTypeOK'
           /\ Ownership'
           /\ entries' = [entries EXCEPT ![e] = NoEntry]
           /\ expired' \in SUBSET Slots
<1> DEFINE s == entries[e].nvs_slot
           m == [entries[e].message EXCEPT !.status = status]
<1>1. /\ entries \in [Slots -> Entry \cup {NoEntry}]
      /\ entries[e] \in Entry
      /\ s \in Slots
    BY DEF TxTypeOK, Entry, Active
<1>2. m \in Message
    BY <1>1 DEF Entry, Message
<1>3. /\ ram[s] # NoMessage
      /\ s \notin reserved
      /\ \A f \in Slots : Active(f) /\ f # e => entries[f].nvs_slot # s
      /\ http.pc = "written" => http.slot # s
    BY DEF Ownership, EntryOwnsSlot, IsPendingTx
<1>4. /\ StoreTypeOK'
      /\ reserved' = reserved
      /\ \A t \in Slots \ {s} : ram'[t] = ram[t]
    BY <1>1, <1>2, <1>3, UpdateFrame DEF Finish
<1>5. entries' = [entries EXCEPT ![e] = NoEntry]
    BY DEF Finish
<1>6. \A f \in Slots : Active(f)' => Active(f) /\ f # e /\ entries'[f] = entries[f]
    BY <1>1, <1>5 DEF Active
<1>7. EntriesPending'
    BY <1>6 DEF EntriesPending, Ownership
<1>8. ReservationsHeld'
    BY <1>3, <1>4 DEF Ownership, ReservationsHeld, StoreTypeOK
<1>9. EntryOwnsSlot'
    BY <1>1, <1>3, <1>4, <1>6 DEF Ownership, EntryOwnsSlot, Entry, Active
<1> QED
    BY <1>4, <1>5, <1>7, <1>8, <1>9 DEF Ownership, Finish, TxTypeOK

-----------------------------------------------------------------------------
(* Every step keeps the invariant: the HTTP task.                          *)

\* queue_message drawing a packet id keeps the invariant.
LEMMA QueueMessageStep ==
    ASSUME IInv, NEW d \in Destinations, NEW epoch \in Epochs, QueueMessage(d, epoch)
    PROVE  IInv'
<1> USE DEF IInv, QueueMessage, storeVars, txVars, schedVars
<1>1. [id |-> seq + 1, direction |-> "TX", source |-> Me, destination |-> d,
       status |-> "PENDING", stored_epoch |-> epoch] \in Message
    BY StoreAssumption, TxAssumption DEF TxTypeOK, Message, Statuses
<1>2. StoreTypeOK'
    BY DEF StoreTypeOK
<1>3. TxTypeOK'
    BY <1>1, TxAssumption DEF TxTypeOK, NoSlot
<1>4. MessageInHand'
    BY <1>1 DEF MessageInHand
<1>5. SubmissionInHand'
    BY DEF SubmissionInHand, Active
<1>6. Ownership'
    BY DEF Ownership, EntriesPending, ReservationsHeld, EntryOwnsSlot, Active
<1> QED
    BY <1>2, <1>3, <1>4, <1>5, <1>6

\* Saving the packet counter keeps the invariant.
LEMMA SequenceSaveStep ==
    ASSUME IInv, mesh_sequence_save
    PROVE  IInv'
<1> USE DEF IInv, mesh_sequence_save, storeVars, txVars, schedVars
<1>1. StoreTypeOK'
    BY DEF StoreTypeOK
<1>2. TxTypeOK'
    BY DEF TxTypeOK
<1>3. MessageInHand' /\ SubmissionInHand'
    BY DEF MessageInHand, SubmissionInHand, Active, TxTypeOK
<1>4. Ownership'
    BY DEF Ownership, EntriesPending, ReservationsHeld, EntryOwnsSlot, Active, TxTypeOK
<1> QED
    BY <1>1, <1>2, <1>3, <1>4

\* Ownership when a slot is reserved by a task.
LEMMA SlotReserved ==
    ASSUME StoreTypeOK, TxTypeOK, MessageInHand, Ownership,
           NEW s \in Slots, NEW outcome \in NvsOutcomes,
           message_store_allocate(s, outcome),
           UNCHANGED entries
    PROVE  /\ StoreTypeOK'
           /\ s \notin reserved /\ reserved' = reserved \cup {s}
           /\ \A t \in reserved' : ram'[t] = NoMessage
           /\ EntriesPending'
           /\ http.pc = "written" => http.slot # s /\ ram'[http.slot] = http.message
           /\ (http'.pc = "written" => http' = http) => EntryOwnsSlot'
<1>1. /\ StoreTypeOK'
      /\ s \notin reserved
      /\ reserved' = reserved \cup {s}
      /\ ram'[s] = NoMessage
      /\ \A t \in Slots \ {s} : ram'[t] = ram[t]
      /\ ~IsPendingTx(ram[s])
    BY AllocateFrame
<1>2. \A t \in reserved' : ram'[t] = NoMessage
    BY <1>1 DEF Ownership, ReservationsHeld, StoreTypeOK
<1>3. EntriesPending'
    BY DEF Ownership, EntriesPending, Active
<1>4. http.pc = "written" => http.slot # s /\ ram'[http.slot] = http.message
    <2>1. http.pc = "written" => http.slot \in Slots /\ ram[http.slot] = http.message
        BY DEF Ownership, ReservationsHeld
    <2>2. http.pc = "written" => IsPendingTx(http.message)
        BY StoreAssumption DEF MessageInHand, IsPendingTx, state_for_message, FailedStatuses
    <2> QED
        BY <1>1, <2>1, <2>2
<1>5. ASSUME http'.pc = "written" => http' = http
      PROVE  EntryOwnsSlot'
    <2>1. \A e \in Slots : Active(e) => /\ entries[e].nvs_slot \in Slots
                                       /\ entries[e].nvs_slot # s
        BY <1>1 DEF Ownership, EntryOwnsSlot, Active, TxTypeOK, Entry
    <2> QED
        BY <1>1, <1>5, <2>1 DEF Ownership, EntryOwnsSlot, Active
<1> QED
    BY <1>1, <1>2, <1>3, <1>4, <1>5

\* queue_message reserving a slot, by eviction or not, keeps the invariant.
LEMMA QueueAllocateStep ==
    ASSUME IInv, QueueAllocate
    PROVE  IInv'
<1> USE DEF IInv, txVars, schedVars, seqVars
<1>0. /\ http.pc = "saved"
      /\ UNCHANGED <<txVars, schedVars, seqVars, radioq, results, rx, aired, accepted, crashes>>
    BY DEF QueueAllocate
<1>1. ASSUME NEW s \in Slots, NEW outcome \in NvsOutcomes,
             message_store_allocate(s, outcome),
             http' = [http EXCEPT !.pc = "allocated", !.slot = s]
      PROVE  IInv'
    <2>1. TxTypeOK'
        BY <1>0, <1>1 DEF TxTypeOK
    <2>2. MessageInHand' /\ SubmissionInHand'
        BY <1>0, <1>1 DEF MessageInHand, SubmissionInHand, Active, TxTypeOK
    <2>3. http'.pc = "allocated" /\ http'.slot = s
        BY <1>1 DEF TxTypeOK
    <2>4. /\ StoreTypeOK'
          /\ s \notin reserved /\ reserved' = reserved \cup {s}
          /\ \A t \in reserved' : ram'[t] = NoMessage
          /\ EntriesPending'
          /\ EntryOwnsSlot'
        BY <1>0, <1>1, <2>3, SlotReserved
    <2>5. ReservationsHeld'
        <3>1. rx' = rx /\ (rx # NoSlot => rx \in reserved)
            BY <1>0 DEF Ownership, ReservationsHeld
        <3>2. s # NoSlot
            BY StoreAssumption DEF Slots, NoSlot
        <3>3. s # rx
            BY <2>4, <3>1, <3>2
        <3> QED
            BY <2>3, <2>4, <3>1, <3>3 DEF ReservationsHeld
    <2> QED
        BY <2>1, <2>2, <2>4, <2>5 DEF Ownership
<1>2. ASSUME NEW outcome \in NvsOutcomes, AllocateFails(outcome), http' = HttpIdle
      PROVE  IInv'
    <2>1. StoreTypeOK' /\ ram' = ram /\ reserved' = reserved
        BY <1>2, AllocateFailsFrame
    <2>2. TxTypeOK'
        BY <1>0, <1>2 DEF TxTypeOK, HttpIdle, NoSlot
    <2>3. MessageInHand' /\ SubmissionInHand'
        BY <1>0, <1>2 DEF MessageInHand, SubmissionInHand, Active, HttpIdle
    <2>4. Ownership'
        BY <1>0, <1>2, <2>1 DEF Ownership, EntriesPending, ReservationsHeld, EntryOwnsSlot,
                                Active, HttpIdle
    <2> QED
        BY <2>1, <2>2, <2>3, <2>4
<1> QED
    BY <1>1, <1>2 DEF QueueAllocate

\* queue_message writing its message into the reserved slot keeps the invariant.
LEMMA QueueWriteStep ==
    ASSUME IInv, QueueWrite
    PROVE  IInv'
<1> USE DEF IInv, txVars, schedVars, seqVars
<1> DEFINE s == http.slot
           m == http.message
<1>0. /\ http.pc = "allocated"
      /\ s \in reserved /\ s \in Slots /\ s # rx
      /\ ram[s] = NoMessage
      /\ m \in Message /\ m.id \in Ids
      /\ UNCHANGED <<txVars, schedVars, seqVars, radioq, results, rx, aired, crashes>>
    BY DEF QueueWrite, Ownership, ReservationsHeld, StoreTypeOK, MessageInHand, Message
<1>1. PICK outcome \in NvsOutcomes :
          /\ message_store_write(s, m, outcome)
          /\ http' = IF outcome = "ok" THEN [http EXCEPT !.pc = "written"] ELSE HttpIdle
          /\ accepted' = IF outcome = "ok" THEN accepted \cup {m.id} ELSE accepted
    BY DEF QueueWrite
<1>2. /\ StoreTypeOK'
      /\ reserved' = reserved \ {s}
      /\ outcome = "ok" => ram'[s] = m
      /\ \A t \in Slots \ {s} : ram'[t] = ram[t]
    BY <1>0, <1>1, WriteFrame
<1>3. TxTypeOK'
    BY <1>0, <1>1 DEF TxTypeOK, HttpIdle, NoSlot
<1>4. /\ http'.pc = "written" => http'.slot = s /\ http'.message = m /\ outcome = "ok"
      /\ http'.pc \in {"idle", "written"}
    BY <1>0, <1>1 DEF TxTypeOK, HttpIdle
<1>5. MessageInHand' /\ SubmissionInHand'
    BY <1>0, <1>4 DEF MessageInHand, SubmissionInHand, Active
<1>6. EntriesPending'
    BY <1>0 DEF Ownership, EntriesPending, Active
<1>7. ReservationsHeld'
    BY <1>0, <1>2, <1>4 DEF Ownership, ReservationsHeld, StoreTypeOK
<1>8. EntryOwnsSlot'
    <2>1. \A e \in Slots : Active(e) => /\ entries[e].nvs_slot \in Slots
                                       /\ entries[e].nvs_slot # s
        BY <1>0 DEF Ownership, EntryOwnsSlot, Active, TxTypeOK, Entry, IsPendingTx
    <2> QED
        BY <1>0, <1>2, <1>4, <2>1 DEF Ownership, EntryOwnsSlot, Active
<1> QED
    BY <1>2, <1>3, <1>5, <1>6, <1>7, <1>8 DEF Ownership

\* tx_scheduler_submit gives the new entry a slot no other entry has.
LEMMA SubmitStep ==
    ASSUME IInv, tx_scheduler_submit
    PROVE  IInv'
<1> USE DEF IInv, schedVars, seqVars
<1> DEFINE s == http.slot
           m == http.message
<1>0. /\ http.pc = "written"
      /\ s \in Slots /\ ram[s] = m
      /\ m \in Message /\ m.direction = "TX"
      /\ m # NoMessage
      /\ s \notin reserved
      /\ \A f \in Slots : Active(f) => entries[f].nvs_slot # s
      /\ http' = HttpIdle
      /\ UNCHANGED <<schedVars, seqVars, radioq, results, rx, aired, accepted, crashes>>
    BY StoreAssumption
       DEF tx_scheduler_submit, Ownership, ReservationsHeld, EntryOwnsSlot, MessageInHand
<1>1. entries \in [Slots -> Entry \cup {NoEntry}]
    BY DEF TxTypeOK
<1>2. CASE FreeEntries # {}
    <2> DEFINE e == Min(FreeEntries)
               n == NewEntry(m, s, next_generation + 1)
               q == [m EXCEPT !.status = "QUEUED"]
    <2>1. e \in Slots /\ ~Active(e)
        BY <1>2, MinOfSlots DEF FreeEntries
    <2>2. PICK outcome \in NvsOutcomes :
              /\ set_status(e, n, "QUEUED", outcome)
              /\ expired' = expired \ {e}
              /\ next_generation' = next_generation + 1
        BY <1>2 DEF tx_scheduler_submit
    <2>3. /\ q \in Message /\ q.id = m.id /\ q.destination = m.destination
          /\ q.direction = "TX" /\ q.status = "QUEUED"
        BY <1>0 DEF Message, Statuses
    <2>4. IsPendingTx(q) /\ IsPendingTx(m)
        BY <1>0, <2>3, StoreAssumption
           DEF IsPendingTx, state_for_message, FailedStatuses, MessageInHand
    <2>5. /\ n.nvs_slot = s
          /\ n.message = m
          /\ [n EXCEPT !.message.status = "QUEUED"]
               = [message |-> q, nvs_slot |-> s, state |-> "QUEUED", attempts |-> 0,
                  radio_request_id |-> NoRequest, generation |-> next_generation + 1]
        BY <1>0 DEF NewEntry, Message
    <2> DEFINE new == [message |-> q, nvs_slot |-> s, state |-> "QUEUED", attempts |-> 0,
                       radio_request_id |-> NoRequest, generation |-> next_generation + 1]
    <2>6. /\ entries' = [entries EXCEPT ![e] = new]
          /\ message_store_update(s, q, outcome)
        BY <2>2, <2>5 DEF set_status
    <2>7. new \in Entry
        BY <1>0, <2>3, TxAssumption DEF Entry, TxStates, TxTypeOK
    <2>8. /\ StoreTypeOK'
          /\ reserved' = reserved
          /\ ram'[s] = q \/ ram'[s] = m
          /\ \A t \in Slots \ {s} : ram'[t] = ram[t]
        BY <1>0, <2>3, <2>6, UpdateFrame
    <2> HIDE DEF new, q, n, e
    <2>9. TxTypeOK'
        BY <1>0, <1>1, <2>1, <2>2, <2>6, <2>7 DEF TxTypeOK, HttpIdle, NoSlot
    <2>10. MessageInHand'
        BY <1>0 DEF MessageInHand, HttpIdle
    <2>11. \A f \in Slots : /\ f = e => entries'[f] = new
                            /\ f # e => entries'[f] = entries[f]
        BY <1>1, <2>1, <2>6
    <2>12. SubmissionInHand'
        BY <1>0, <2>1, <2>11 DEF SubmissionInHand, Active, TxTypeOK
    <2>13. new.message = q /\ new.nvs_slot = s
        BY DEF new
    <2>14. EntriesPending'
        BY <2>4, <2>11, <2>13 DEF EntriesPending, Ownership, Active
    <2>15. ReservationsHeld'
        BY <1>0, <2>8 DEF ReservationsHeld, Ownership, HttpIdle, StoreTypeOK
    <2>16. EntryOwnsSlot'
        <3>1. \A f \in Slots : f # e /\ Active(f)' => /\ Active(f)
                                                     /\ entries'[f] = entries[f]
                                                     /\ entries[f].nvs_slot \in Slots \ {s}
            BY <1>0, <1>1, <2>11 DEF Active, Entry
        <3>2. http'.pc # "written"
            BY <1>0 DEF HttpIdle
        <3>3. /\ entries'[e].nvs_slot = s
              /\ entries'[e].message.id = m.id
              /\ entries'[e].message.destination = m.destination
              /\ IsPendingTx(ram'[s])
              /\ ram'[s].id = m.id
              /\ ram'[s].destination = m.destination
            BY <2>1, <2>3, <2>4, <2>8, <2>11, <2>13
        <3> QED
            BY <1>0, <2>8, <3>1, <3>2, <3>3 DEF Ownership, EntryOwnsSlot
    <2> QED
        BY <2>8, <2>9, <2>10, <2>12, <2>14, <2>15, <2>16 DEF Ownership
<1>3. CASE FreeEntries = {}
    <2>1. PICK outcome \in NvsOutcomes :
              message_store_update(s, [m EXCEPT !.status = "FAILED"], outcome)
        BY <1>3 DEF tx_scheduler_submit
    <2>2. UNCHANGED <<entries, expired, next_generation>>
        BY <1>3 DEF tx_scheduler_submit, txVars
    <2>3. [m EXCEPT !.status = "FAILED"] \in Message
        BY <1>0 DEF Message, Statuses, FailedStatuses
    <2>4. /\ StoreTypeOK'
          /\ reserved' = reserved
          /\ \A t \in Slots \ {s} : ram'[t] = ram[t]
        BY <1>0, <2>1, <2>3, UpdateFrame
    <2>5. TxTypeOK'
        BY <1>0, <2>2 DEF TxTypeOK, HttpIdle, NoSlot
    <2>6. MessageInHand' /\ SubmissionInHand' /\ EntriesPending'
        BY <1>0, <2>2 DEF MessageInHand, SubmissionInHand, EntriesPending, Ownership,
                          Active, HttpIdle
    <2>7. ReservationsHeld'
        BY <1>0, <2>4 DEF ReservationsHeld, Ownership, HttpIdle, StoreTypeOK
    <2>8. EntryOwnsSlot'
        BY <1>0, <1>1, <2>2, <2>4 DEF Ownership, EntryOwnsSlot, Active, Entry, HttpIdle
    <2> QED
        BY <2>4, <2>5, <2>6, <2>7, <2>8 DEF Ownership
<1> QED
    BY <1>2, <1>3

-----------------------------------------------------------------------------
(* The scheduler task.                                                     *)

\* An entry that only changes its state and deadline keeps its message and its slot.
LEMMA WaitFrame ==
    ASSUME StoreTypeOK, TxTypeOK, Ownership,
           NEW e \in Slots, Active(e),
           NEW state \in TxStates,
           Wait(e, state),
           UNCHANGED <<http, rx>>
    PROVE  /\ StoreTypeOK'
           /\ Ownership'
           /\ entries' \in [Slots -> Entry \cup {NoEntry}]
           /\ expired' \in SUBSET Slots
<1> DEFINE n == [entries[e] EXCEPT !.state = state]
<1>1. entries[e] \in Entry /\ entries \in [Slots -> Entry \cup {NoEntry}]
    BY DEF TxTypeOK, Active
<1>2. /\ n \in Entry
      /\ n.nvs_slot = entries[e].nvs_slot
      /\ n.message = entries[e].message
    BY <1>1 DEF Entry
<1>3. entries' = [entries EXCEPT ![e] = n] /\ UNCHANGED storeVars
    BY <1>1 DEF Wait
<1>4. IsPendingTx(n.message)
    BY <1>2 DEF Ownership, EntriesPending
<1>5. StoreTypeOK' /\ reserved' = reserved /\ ram' = ram
    BY <1>3 DEF StoreTypeOK, storeVars
<1> HIDE DEF n
<1>6. Ownership' /\ entries' \in [Slots -> Entry \cup {NoEntry}]
    BY <1>2, <1>3, <1>4, <1>5, EntryChange
<1> QED
    BY <1>5, <1>6 DEF Wait, TxTypeOK

\* The loop over the entries stays within the table.
LEMMA NextEntryType ==
    ASSUME TxTypeOK, NextEntry
    PROVE  /\ sched' \in [pc : {"drain", "scan", "send", "submit", "accepted", "refused"},
                           i : Slots]
           /\ sched'.pc \in {"drain", "scan"}
<1>1. sched.i \in Slots
    BY DEF TxTypeOK
<1>2. 0 \in Slots /\ (sched.i # MAX_MESSAGES - 1 => sched.i + 1 \in Slots)
    BY <1>1, StoreAssumption DEF Slots
<1>3. CASE sched.i = MAX_MESSAGES - 1
    BY <1>2, <1>3 DEF NextEntry
<1>4. CASE sched.i # MAX_MESSAGES - 1
    BY <1>2, <1>4 DEF NextEntry
<1> QED
    BY <1>3, <1>4

\* finalize_failure records one of the three failed statuses.
LEMMA FailureStatus ==
    ASSUME NEW e, NEW error, finalize_failure(e, error)
    PROVE  \E status \in Statuses : Finish(e, status)
<1> DEFINE status == CASE error = "ACK_TIMEOUT"                    -> "FAILED_TIMEOUT"
                       [] error \in {"QUEUE_FULL", "PACKET_BUILD"} -> "FAILED_QUEUE"
                       [] OTHER                                    -> "FAILED_RADIO"
<1>1. status \in Statuses
    BY DEF Statuses, FailedStatuses
<1>2. Finish(e, status)
    BY DEF finalize_failure
<1> HIDE DEF status
<1> QED
    BY <1>1, <1>2

\* Handling a radio result keeps the invariant, whichever result it is.
LEMMA DrainResultStep ==
    ASSUME IInv, DrainResult
    PROVE  IInv'
<1> USE DEF IInv, schedVars, seqVars
<1>0. /\ sched.pc = "drain"
      /\ UNCHANGED <<next_generation, schedVars, seqVars, radioq, http, rx, aired, accepted,
                     crashes>>
    BY DEF DrainResult
<1>1. PICK r \in results : results' = results \ {r} /\ handle_radio_result(r)
    BY DEF DrainResult
<1>2. /\ StoreTypeOK'
      /\ Ownership'
      /\ entries' \in [Slots -> Entry \cup {NoEntry}]
      /\ expired' \in SUBSET Slots
    <2>1. CASE Matching(r) = {}
        BY <1>0, <1>1, <2>1 DEF handle_radio_result, storeVars, StoreTypeOK, TxTypeOK, Ownership,
                           EntriesPending, ReservationsHeld, EntryOwnsSlot, Active
    <2>2. CASE Matching(r) # {}
        <3> DEFINE e == Min(Matching(r))
        <3>1. e \in Slots /\ Active(e)
            BY <2>2, MinOfSlots DEF Matching
        <3>2. entries[e] \in Entry
            BY <3>1 DEF TxTypeOK, Active
        <3>3. CASE r.result = "SUCCESS"
            <4>1. PICK outcome \in NvsOutcomes :
                      set_status(e, [entries[e] EXCEPT !.state = "WAITING_ACK"], "SENT", outcome)
                BY <1>1, <2>2, <3>3 DEF handle_radio_result
            <4> DEFINE m == [entries[e].message EXCEPT !.status = "SENT"]
                       n == [entries[e] EXCEPT !.state = "WAITING_ACK", !.message = m]
                       s == entries[e].nvs_slot
            <4>2. /\ m \in Message /\ m.id = entries[e].message.id
                  /\ m.destination = entries[e].message.destination
                  /\ m.direction = entries[e].message.direction
                  /\ m.status = "SENT"
                BY <3>2 DEF Entry, Message, Statuses
            <4>3. /\ n \in Entry /\ n.nvs_slot = s /\ n.message = m
                  /\ s \in Slots
                BY <3>2, <4>2 DEF Entry, TxStates
            <4>4. /\ entries' = [entries EXCEPT ![e] = n]
                  /\ message_store_update(s, m, outcome)
                BY <3>2, <4>1 DEF set_status, Entry
            <4>5. entries[e].message.direction = "TX" /\ IsPendingTx(ram[s])
                BY <3>1 DEF Ownership, EntriesPending, EntryOwnsSlot, IsPendingTx
            <4>6. IsPendingTx(m)
                BY <4>2, <4>5, StoreAssumption DEF IsPendingTx, state_for_message, FailedStatuses
            <4>7. /\ StoreTypeOK'
                  /\ reserved' = reserved
                  /\ ram'[s] = m \/ ram'[s] = ram[s]
                  /\ \A t \in Slots \ {s} : ram'[t] = ram[t]
                BY <4>2, <4>3, <4>4, <4>5, UpdateFrame DEF IsPendingTx
            <4>8. expired' \in SUBSET Slots
                BY <1>1, <2>2, <3>3 DEF handle_radio_result, TxTypeOK
            <4> HIDE DEF n, m, s, e
            <4>9. Ownership' /\ entries' \in [Slots -> Entry \cup {NoEntry}]
                BY <1>0, <3>1, <4>2, <4>3, <4>4, <4>6, <4>7, EntryChange DEF s
            <4> QED
                BY <4>7, <4>8, <4>9
        <3>4. CASE r.result # "SUCCESS"
            <4>1. Wait(e, "RETRY_BACKOFF")
                BY <1>1, <2>2, <3>4 DEF handle_radio_result
            <4> QED
                BY <1>0, <3>1, <4>1, WaitFrame DEF TxStates
        <3> QED
            BY <3>3, <3>4
    <2> QED
        BY <2>1, <2>2
<1>3. TxTypeOK'
    BY <1>0, <1>1, <1>2 DEF TxTypeOK
<1>4. MessageInHand' /\ SubmissionInHand'
    BY <1>0 DEF MessageInHand, SubmissionInHand
<1> QED
    BY <1>2, <1>3, <1>4

\* Going from the results to the entries keeps the invariant.
LEMMA DrainDoneStep ==
    ASSUME IInv, DrainDone
    PROVE  IInv'
<1> USE DEF IInv, DrainDone, storeVars, txVars, seqVars
<1>1. StoreTypeOK'
    BY DEF StoreTypeOK
<1>2. TxTypeOK'
    BY StoreAssumption DEF TxTypeOK, Slots
<1>3. MessageInHand' /\ SubmissionInHand'
    BY DEF MessageInHand, SubmissionInHand
<1>4. Ownership'
    BY DEF Ownership, EntriesPending, ReservationsHeld, EntryOwnsSlot, Active
<1> QED
    BY <1>1, <1>2, <1>3, <1>4

\* What a step of the scheduler on its current entry may do to the store and
\* the entries: nothing, wait with a new deadline, or end the entry.
EntryStep(e) ==
    \/ UNCHANGED <<storeVars, entries, expired>>
    \/ Active(e) /\ \E state \in TxStates : Wait(e, state)
    \/ Active(e) /\ \E status \in Statuses : Finish(e, status)

\* A step that ends or only delays entries keeps the invariant; used for the scheduler task.
LEMMA EntryStepFrame ==
    ASSUME StoreTypeOK, TxTypeOK, Ownership,
           NEW e \in Slots, EntryStep(e), UNCHANGED <<http, rx>>
    PROVE  /\ StoreTypeOK'
           /\ Ownership'
           /\ entries' \in [Slots -> Entry \cup {NoEntry}]
           /\ expired' \in SUBSET Slots
<1>1. CASE UNCHANGED <<storeVars, entries, expired>>
    BY <1>1 DEF storeVars, StoreTypeOK, TxTypeOK, Ownership, EntriesPending,
                ReservationsHeld, EntryOwnsSlot, Active
<1>2. CASE Active(e) /\ \E state \in TxStates : Wait(e, state)
    BY <1>2, WaitFrame
<1>3. CASE Active(e) /\ \E status \in Statuses : Finish(e, status)
    <2>1. /\ StoreTypeOK'
          /\ Ownership'
          /\ entries' = [entries EXCEPT ![e] = NoEntry]
          /\ expired' \in SUBSET Slots
        BY <1>3, EntryEnds
    <2> QED
        BY <2>1 DEF TxTypeOK
<1> QED
    BY <1>1, <1>2, <1>3 DEF EntryStep

\* Looking at one entry, timeouts included, keeps the invariant.
LEMMA ScanEntryStep ==
    ASSUME IInv, Scan
    PROVE  IInv'
<1> USE DEF IInv, seqVars
<1> DEFINE e == sched.i
<1>0. /\ sched.pc = "scan"
      /\ e \in Slots
      /\ UNCHANGED <<next_generation, job, seqVars, radioq, results, http, rx, aired, accepted,
                     crashes>>
    BY DEF Scan, TxTypeOK
<1>1. /\ EntryStep(e)
      /\ NextEntry \/ sched' = [sched EXCEPT !.pc = "send"]
    <2>1. CASE Sendable(e) /\ e \in expired
        BY <2>1 DEF Scan, EntryStep, Sendable
    <2>2. CASE /\ ~(Sendable(e) /\ e \in expired)
               /\ Active(e) /\ entries[e].state \in {"WAITING_ACK", "WAITING_RADIO"}
               /\ e \in expired
        <3>1. /\ NextEntry
              /\ Wait(e, "RETRY_BACKOFF") \/ \E error : finalize_failure(e, error)
            BY <2>2 DEF Scan
        <3>2. Wait(e, "RETRY_BACKOFF") \/ \E status \in Statuses : Finish(e, status)
            BY <3>1, FailureStatus
        <3>3. "RETRY_BACKOFF" \in TxStates
            BY DEF TxStates
        <3> QED
            BY <2>2, <3>1, <3>2, <3>3 DEF EntryStep
    <2>3. CASE /\ ~(Sendable(e) /\ e \in expired)
               /\ ~(/\ Active(e) /\ entries[e].state \in {"WAITING_ACK", "WAITING_RADIO"}
                    /\ e \in expired)
        BY <2>3 DEF Scan, EntryStep
    <2> QED
        BY <2>1, <2>2, <2>3
<1>2. /\ StoreTypeOK'
      /\ Ownership'
      /\ entries' \in [Slots -> Entry \cup {NoEntry}]
      /\ expired' \in SUBSET Slots
    BY <1>0, <1>1, EntryStepFrame
<1>3. /\ sched' \in [pc : {"drain", "scan", "send", "submit", "accepted", "refused"}, i : Slots]
      /\ sched'.pc \in {"drain", "scan", "send"}
    BY <1>1, NextEntryType DEF TxTypeOK
<1>4. TxTypeOK'
    BY <1>0, <1>2, <1>3 DEF TxTypeOK
<1>5. MessageInHand' /\ SubmissionInHand'
    BY <1>0, <1>3 DEF MessageInHand, SubmissionInHand
<1> QED
    BY <1>2, <1>4, <1>5

\* send_current_packet up to the unlock keeps the invariant.
LEMMA SendStep ==
    ASSUME IInv, SendCurrentPacket
    PROVE  IInv'
<1> USE DEF IInv, seqVars
<1> DEFINE e == sched.i
<1>0. /\ sched.pc = "send"
      /\ e \in Slots
      /\ UNCHANGED <<next_generation, seqVars, radioq, results, http, rx, aired, accepted,
                     crashes>>
    BY DEF SendCurrentPacket, TxTypeOK
<1>1. CASE NextEntry /\ UNCHANGED job /\ EntryStep(e)
    <2>1. /\ StoreTypeOK'
          /\ Ownership'
          /\ entries' \in [Slots -> Entry \cup {NoEntry}]
          /\ expired' \in SUBSET Slots
        BY <1>0, <1>1, EntryStepFrame
    <2>2. /\ sched' \in [pc : {"drain", "scan", "send", "submit", "accepted", "refused"},
                          i : Slots]
          /\ sched'.pc \in {"drain", "scan"}
        BY <1>1, NextEntryType
    <2>3. TxTypeOK'
        BY <1>0, <1>1, <2>1, <2>2 DEF TxTypeOK
    <2>4. MessageInHand' /\ SubmissionInHand'
        BY <1>0, <2>2 DEF MessageInHand, SubmissionInHand
    <2> QED
        BY <2>1, <2>3, <2>4
<1>2. CASE /\ Sendable(e) /\ ~Exhausted(e)
           /\ RequestIds \ UsedRequestIds # {}
           /\ entries' = [entries EXCEPT ![e].state = "SUBMITTING",
                                         ![e].attempts = @ + 1,
                                         ![e].radio_request_id = FreshRequestId]
           /\ job' = [message_id |-> entries[e].message.id,
                      generation |-> entries[e].generation,
                      request_id |-> FreshRequestId]
           /\ sched' = [sched EXCEPT !.pc = "submit"]
           /\ UNCHANGED <<storeVars, expired>>
    <2>1. FreshRequestId \in RequestIds
        BY <1>2 DEF FreshRequestId
    <2>2. entries[e] \in Entry /\ Active(e) /\ entries \in [Slots -> Entry \cup {NoEntry}]
        BY <1>0, <1>2 DEF Sendable, Active, TxTypeOK
    <2>3. entries[e].attempts + 1 \in 0 .. TX_RETRY_MAX_ATTEMPTS
        BY <1>2, <2>2, TxAssumption DEF Exhausted, Entry
    <2> DEFINE n == [entries[e] EXCEPT !.state = "SUBMITTING",
                                       !.attempts = entries[e].attempts + 1,
                                       !.radio_request_id = FreshRequestId]
    <2>4. /\ n \in Entry /\ n.nvs_slot = entries[e].nvs_slot
          /\ n.message = entries[e].message
          /\ n.state = "SUBMITTING"
        BY <2>1, <2>2, <2>3 DEF Entry, TxStates
    <2>5. entries' = [entries EXCEPT ![e] = n]
        BY <1>2, <2>2 DEF Entry
    <2>6. IsPendingTx(n.message)
        BY <1>0, <2>2, <2>4 DEF Ownership, EntriesPending
    <2>7. StoreTypeOK' /\ reserved' = reserved /\ ram' = ram
        BY <1>2 DEF StoreTypeOK, storeVars
    <2>8. job' \in [message_id : Ids, generation : Nat, request_id : RequestIds]
        BY <1>2, <2>1, <2>2 DEF Entry, Message
    <2> HIDE DEF n
    <2>9. Ownership' /\ entries' \in [Slots -> Entry \cup {NoEntry}]
        BY <1>0, <2>2, <2>4, <2>5, <2>6, <2>7, EntryChange
    <2>10. TxTypeOK'
        BY <1>0, <1>2, <2>8, <2>9 DEF TxTypeOK
    <2>11. MessageInHand'
        BY <1>0 DEF MessageInHand
    <2>12. SubmissionInHand'
        <3>1. sched'.i = e /\ entries'[e] = n
            BY <1>0, <1>2, <2>2, <2>5 DEF TxTypeOK
        <3> QED
            BY <2>4, <2>8, <3>1, TxAssumption DEF SubmissionInHand, Active
    <2> QED
        BY <2>7, <2>9, <2>10, <2>11, <2>12
<1>3. CASE ~Sendable(e)
    BY <1>1, <1>3 DEF SendCurrentPacket, EntryStep
<1>4. CASE Sendable(e) /\ (Exhausted(e) \/ ~(sched'.pc = "submit"))
    <2>1. \/ NextEntry /\ UNCHANGED job /\ \E error : finalize_failure(e, error)
          \/ sched' = [sched EXCEPT !.pc = "submit"] /\ ~Exhausted(e)
        BY <1>4 DEF SendCurrentPacket
    <2>2. NextEntry /\ UNCHANGED job /\ \E error : finalize_failure(e, error)
        BY <1>4, <2>1 DEF TxTypeOK
    <2>3. EntryStep(e)
        BY <1>4, <2>2, FailureStatus DEF EntryStep, Sendable
    <2> QED
        BY <1>1, <2>2, <2>3
<1>5. CASE Sendable(e) /\ ~Exhausted(e) /\ sched'.pc = "submit"
    <2>1. ~NextEntry
        BY <1>5, NextEntryType
    <2> QED
        BY <1>2, <1>5, <2>1 DEF SendCurrentPacket
<1> QED
    BY <1>3, <1>4, <1>5

\* Handing the request to the radio keeps the invariant.
LEMMA LoraSubmitStep ==
    ASSUME IInv, lora_tx_submit
    PROVE  IInv'
<1> USE DEF IInv, lora_tx_submit, storeVars, txVars, seqVars
<1>1. /\ sched.pc = "submit" /\ sched.i \in Slots
      /\ job \in [message_id : Ids, generation : Nat, request_id : RequestIds]
      /\ entries[sched.i] \in Entry
    BY DEF SubmissionInHand, Active, TxTypeOK
<1>2. [message_id |-> job.message_id, request_id |-> job.request_id,
       destination |-> entries[sched.i].message.destination] \in Request
    BY <1>1 DEF Request, Entry, Message
<1>3. radioq' \in SUBSET Request
    BY <1>2 DEF TxTypeOK
<1>4. /\ sched' \in [pc : {"drain", "scan", "send", "submit", "accepted", "refused"}, i : Slots]
      /\ sched'.i = sched.i
    BY <1>1 DEF TxTypeOK
<1>5. StoreTypeOK'
    BY DEF StoreTypeOK
<1>6. TxTypeOK'
    BY <1>3, <1>4 DEF TxTypeOK
<1>7. MessageInHand' /\ SubmissionInHand'
    BY <1>1, <1>4 DEF MessageInHand, SubmissionInHand, Active
<1>8. Ownership'
    BY DEF Ownership, EntriesPending, ReservationsHeld, EntryOwnsSlot, Active
<1> QED
    BY <1>5, <1>6, <1>7, <1>8

\* send_current_packet after the unlocked call keeps the invariant, even if the entry ended meanwhile.
LEMMA SubmitReturnsStep ==
    ASSUME IInv, SubmitReturns
    PROVE  IInv'
<1> USE DEF IInv, seqVars
<1> DEFINE found == find_entry_by_generation
           e == Min(found)
<1>0. /\ NextEntry
      /\ job' = NoJob
      /\ UNCHANGED <<next_generation, seqVars, radioq, results, http, rx, aired, accepted, crashes>>
    BY DEF SubmitReturns
<1>1. \E f \in Slots : EntryStep(f)
    <2>1. CASE UNCHANGED <<storeVars, entries, expired>>
        <3>1. 0 \in Slots
            BY StoreAssumption DEF Slots
        <3> QED
            BY <2>1, <3>1 DEF EntryStep
    <2>2. CASE found # {}
        <3>1. e \in Slots /\ Active(e)
            BY <2>2, MinOfSlots DEF find_entry_by_generation
        <3>2. \/ UNCHANGED <<storeVars, entries, expired>>
              \/ Wait(e, "WAITING_RADIO") \/ Wait(e, "RETRY_BACKOFF")
              \/ finalize_failure(e, "QUEUE_FULL")
            BY <2>2 DEF SubmitReturns
        <3>3. "WAITING_RADIO" \in TxStates /\ "RETRY_BACKOFF" \in TxStates
            BY DEF TxStates
        <3>4. EntryStep(e)
            BY <3>1, <3>2, <3>3, FailureStatus DEF EntryStep
        <3> QED
            BY <3>1, <3>4
    <2>3. CASE found = {}
        BY <2>1, <2>3 DEF SubmitReturns
    <2> QED
        BY <2>2, <2>3
<1>2. /\ StoreTypeOK'
      /\ Ownership'
      /\ entries' \in [Slots -> Entry \cup {NoEntry}]
      /\ expired' \in SUBSET Slots
    BY <1>0, <1>1, EntryStepFrame
<1>3. /\ sched' \in [pc : {"drain", "scan", "send", "submit", "accepted", "refused"}, i : Slots]
      /\ sched'.pc \in {"drain", "scan"}
    BY <1>0, NextEntryType
<1>4. TxTypeOK'
    BY <1>0, <1>2, <1>3 DEF TxTypeOK
<1>5. MessageInHand' /\ SubmissionInHand'
    BY <1>0, <1>3 DEF MessageInHand, SubmissionInHand
<1> QED
    BY <1>2, <1>4, <1>5

-----------------------------------------------------------------------------
(* Time, the radio, the receive task and power loss.                       *)

\* The passing of a deadline keeps the invariant.
LEMMA TimePassesStep ==
    ASSUME IInv, NEW e \in Slots, TimePasses(e)
    PROVE  IInv'
<1> USE DEF IInv, TimePasses, storeVars, schedVars, seqVars
<1>1. StoreTypeOK'
    BY DEF StoreTypeOK
<1>2. TxTypeOK'
    BY DEF TxTypeOK
<1>3. MessageInHand' /\ SubmissionInHand'
    BY DEF MessageInHand, SubmissionInHand, Active
<1>4. Ownership'
    BY DEF Ownership, EntriesPending, ReservationsHeld, EntryOwnsSlot, Active
<1> QED
    BY <1>1, <1>2, <1>3, <1>4

\* The radio task serving a request keeps the invariant.
LEMMA TransmitStep ==
    ASSUME IInv, NEW q \in radioq, Transmit(q)
    PROVE  IInv'
<1> USE DEF IInv, storeVars, txVars, schedVars, seqVars
<1>0. /\ UNCHANGED <<storeVars, txVars, schedVars, seqVars, http, rx, accepted, crashes>>
      /\ radioq' \in SUBSET Request
    BY DEF Transmit, TxTypeOK
<1>1. q.message_id \in Ids /\ q.request_id \in RequestIds /\ q.destination \in Nodes \cup {ALL}
    BY DEF TxTypeOK, Request
<1>2. \A result \in {"SUCCESS", "FAILURE"} :
          [message_id |-> q.message_id, request_id |-> q.request_id, result |-> result] \in Result
    BY <1>1 DEF Result
<1>3. results' \in SUBSET Result /\ aired' \in SUBSET (Ids \X (Nodes \cup {ALL}))
    BY <1>1, <1>2 DEF Transmit, TxTypeOK
<1>4. StoreTypeOK'
    BY <1>0 DEF StoreTypeOK
<1>5. TxTypeOK'
    BY <1>0, <1>3 DEF TxTypeOK
<1>6. MessageInHand' /\ SubmissionInHand'
    BY <1>0 DEF MessageInHand, SubmissionInHand, Active
<1>7. Ownership'
    BY <1>0 DEF Ownership, EntriesPending, ReservationsHeld, EntryOwnsSlot, Active
<1> QED
    BY <1>4, <1>5, <1>6, <1>7

\* tx_scheduler_acknowledge ends one entry and keeps the invariant.
LEMMA AcknowledgeStep ==
    ASSUME IInv, NEW id \in Ids, NEW source \in Nodes, tx_scheduler_acknowledge(id, source)
    PROVE  IInv'
<1> USE DEF IInv, schedVars, seqVars
<1> DEFINE e == Min(find_entry(id, source))
<1>0. /\ find_entry(id, source) # {}
      /\ Finish(e, "ACKED")
      /\ UNCHANGED <<next_generation, schedVars, seqVars, radioq, results, http, rx, aired,
                     accepted, crashes>>
    BY DEF tx_scheduler_acknowledge
<1>1. e \in Slots /\ Active(e) /\ entries[e].state = "WAITING_ACK"
    BY <1>0, MinOfSlots DEF find_entry
<1>2. "ACKED" \in Statuses
    BY DEF Statuses
<1>3. /\ StoreTypeOK'
      /\ Ownership'
      /\ entries' = [entries EXCEPT ![e] = NoEntry]
      /\ expired' \in SUBSET Slots
    BY <1>0, <1>1, <1>2, EntryEnds
<1> HIDE DEF e
<1>4. TxTypeOK'
    BY <1>0, <1>1, <1>3 DEF TxTypeOK
<1>5. MessageInHand' /\ SubmissionInHand'
    BY <1>0, <1>1, <1>3 DEF MessageInHand, SubmissionInHand, Active, TxTypeOK
<1> QED
    BY <1>3, <1>4, <1>5

\* The receive task reserving a slot takes none from an entry.
LEMMA RxAllocateStep ==
    ASSUME IInv, RxAllocate
    PROVE  IInv'
<1> USE DEF IInv, txVars, schedVars, seqVars
<1>0. /\ rx = NoSlot
      /\ UNCHANGED <<txVars, schedVars, seqVars, radioq, results, http, aired, accepted, crashes>>
    BY DEF RxAllocate
<1>1. MessageInHand' /\ SubmissionInHand'
    BY <1>0 DEF MessageInHand, SubmissionInHand, Active
<1>2. ASSUME NEW s \in Slots, NEW outcome \in NvsOutcomes,
             message_store_allocate(s, outcome), rx' = s
      PROVE  IInv'
    <2>1. TxTypeOK'
        BY <1>0, <1>2 DEF TxTypeOK
    <2>2. /\ StoreTypeOK'
          /\ s \notin reserved /\ reserved' = reserved \cup {s}
          /\ \A t \in reserved' : ram'[t] = NoMessage
          /\ EntriesPending'
          /\ http.pc = "written" => http.slot # s /\ ram'[http.slot] = http.message
          /\ EntryOwnsSlot'
        BY <1>0, <1>2, SlotReserved
    <2>3. ReservationsHeld'
        BY <1>0, <1>2, <2>2 DEF Ownership, ReservationsHeld
    <2> QED
        BY <1>1, <2>1, <2>2, <2>3 DEF Ownership
<1>3. ASSUME NEW outcome \in NvsOutcomes, AllocateFails(outcome), UNCHANGED rx
      PROVE  IInv'
    <2>1. StoreTypeOK' /\ ram' = ram /\ reserved' = reserved
        BY <1>3, AllocateFailsFrame
    <2>2. TxTypeOK'
        BY <1>0, <1>3 DEF TxTypeOK
    <2>3. Ownership'
        BY <1>0, <1>3, <2>1 DEF Ownership, EntriesPending, ReservationsHeld, EntryOwnsSlot, Active
    <2> QED
        BY <1>1, <2>1, <2>2, <2>3
<1> QED
    BY <1>2, <1>3 DEF RxAllocate

\* The receive task writing into its reserved slot keeps the invariant.
LEMMA RxWriteStep ==
    ASSUME IInv, NEW id \in RxIds, NEW source \in Nodes \ {Me}, NEW epoch \in Epochs,
           RxWrite(id, source, epoch)
    PROVE  IInv'
<1> USE DEF IInv, txVars, schedVars, seqVars
<1> DEFINE m == [id |-> id, direction |-> "RX", source |-> source, destination |-> Me,
                 status |-> "RECEIVED", stored_epoch |-> epoch]
<1>0. /\ rx \in reserved /\ rx \in Slots /\ rx' = NoSlot
      /\ ram[rx] = NoMessage
      /\ UNCHANGED <<txVars, schedVars, seqVars, radioq, results, http, aired, accepted, crashes>>
    BY DEF RxWrite, Ownership, ReservationsHeld, StoreTypeOK
<1>1. m \in Message
    BY TxAssumption DEF Message, Statuses
<1>2. PICK outcome \in NvsOutcomes : message_store_write(rx, m, outcome)
    BY DEF RxWrite
<1> HIDE DEF m
<1>3. /\ StoreTypeOK'
      /\ reserved' = reserved \ {rx}
      /\ \A t \in Slots \ {rx} : ram'[t] = ram[t]
    BY <1>0, <1>1, <1>2, WriteFrame
<1>4. TxTypeOK'
    BY <1>0 DEF TxTypeOK
<1>5. MessageInHand' /\ SubmissionInHand'
    BY <1>0 DEF MessageInHand, SubmissionInHand, Active
<1>6. EntriesPending'
    BY <1>0 DEF Ownership, EntriesPending, Active
<1>7. ReservationsHeld'
    <2>1. http.pc = "written" => http.slot # rx
        BY <1>0, StoreAssumption DEF Ownership, ReservationsHeld, MessageInHand
    <2>2. http.pc = "written" => http.slot \in Slots /\ ram'[http.slot] = http.message
        BY <1>0, <1>3, <2>1 DEF Ownership, ReservationsHeld
    <2>3. \A t \in reserved' : ram'[t] = NoMessage
        BY <1>3 DEF Ownership, ReservationsHeld, StoreTypeOK
    <2>4. http.pc = "allocated" => /\ http.slot \in reserved \ {rx}
                                   /\ http.slot # NoSlot
        BY StoreAssumption DEF Ownership, ReservationsHeld, StoreTypeOK, Slots, NoSlot
    <2> QED
        BY <1>0, <1>3, <2>2, <2>3, <2>4 DEF ReservationsHeld
<1>8. EntryOwnsSlot'
    <2>1. \A e \in Slots : Active(e) => /\ entries[e].nvs_slot \in Slots
                                       /\ entries[e].nvs_slot # rx
        BY <1>0 DEF Ownership, EntryOwnsSlot, Active, TxTypeOK, Entry, IsPendingTx
    <2> QED
        BY <1>0, <1>3, <2>1 DEF Ownership, EntryOwnsSlot, Active
<1> QED
    BY <1>3, <1>4, <1>5, <1>6, <1>7, <1>8 DEF Ownership

\* A boot gives each pending record an entry of its own.
LEMMA RebootStep ==
    ASSUME IInv, Reboot
    PROVE  IInv'
<1> USE DEF IInv
<1> DEFINE pending == message_store_copy_pending_tx(ram')
<1>1. /\ crashes < MaxCrashes /\ crashes' = crashes + 1
      /\ seq' \in {seqNvs, 0} /\ seqNvs' = seqNvs
      /\ entries' = tx_scheduler_restore_pending(ram')
      /\ next_generation' = Cardinality(pending)
      /\ expired' = {} /\ radioq' = {} /\ results' = {}
      /\ sched' = [pc |-> "drain", i |-> 0]
      /\ job' = NoJob /\ http' = HttpIdle /\ rx' = NoSlot
      /\ aired' = aired /\ accepted' = accepted
    BY DEF Reboot
<1>2. StoreTypeOK' /\ reserved' = {}
    <2>1. PICK readable \in Readable : message_store_load_messages_from_nvs(Me, readable)
        BY DEF Reboot
    <2>2. \A s \in Slots : load_persisted_slot(nvs[s], Me) \in Message \cup {NoMessage}
        BY DEF load_persisted_slot
    <2>3. ram' \in [Slots -> Message \cup {NoMessage}]
        BY <2>1, <2>2 DEF message_store_load_messages_from_nvs
    <2> QED
        BY <2>1, <2>3 DEF message_store_load_messages_from_nvs, recalculate_active_count,
                          ActiveCount, StoreTypeOK
<1>3. pending \subseteq Slots /\ \A s \in pending : IsPendingTx(ram'[s])
    BY DEF message_store_copy_pending_tx
<1>4. Cardinality(pending) \in Nat /\ \A s \in pending : Rank(pending, s) \in Nat
    <2>1. \A T \in SUBSET Slots : Cardinality(T) \in Nat
        BY SlotsFinite, FS_Subset, FS_CardinalityType
    <2>2. \A s \in pending : {t \in pending : t < s} \in SUBSET Slots
        BY <1>3
    <2> QED
        BY <1>3, <2>1, <2>2 DEF Rank
<1> HIDE DEF pending
<1>5. ASSUME NEW e \in Slots
      PROVE  \/ entries'[e] = NoEntry
             \/ \E s \in pending :
                    /\ Rank(pending, s) = e
                    /\ entries'[e] = NewEntry(ram'[s], s, Rank(pending, s) + 1)
    <2>1. entries'[e] = IF \E s \in pending : Rank(pending, s) = e
                        THEN RestoredEntry(ram', CHOOSE s \in pending : Rank(pending, s) = e)
                        ELSE NoEntry
        BY <1>1 DEF tx_scheduler_restore_pending, pending
    <2>2. CASE \E s \in pending : Rank(pending, s) = e
        <3> DEFINE c == CHOOSE s \in pending : Rank(pending, s) = e
        <3>1. c \in pending /\ Rank(pending, c) = e
            BY <2>2
        <3>2. entries'[e] = RestoredEntry(ram', c)
            BY <2>1, <2>2
        <3> HIDE DEF c
        <3> QED
            BY <3>1, <3>2 DEF RestoredEntry, pending
    <2> QED
        BY <2>1, <2>2
<1>6. \A s \in pending : /\ ram'[s] \in Message
                         /\ NewEntry(ram'[s], s, Rank(pending, s) + 1) \in Entry
    <2> SUFFICES ASSUME NEW s \in pending
                 PROVE  /\ ram'[s] \in Message
                        /\ NewEntry(ram'[s], s, Rank(pending, s) + 1) \in Entry
        OBVIOUS
    <2>1. ram'[s] \in Message
        BY <1>2, <1>3 DEF StoreTypeOK, IsPendingTx
    <2>2. Rank(pending, s) + 1 \in Nat
        BY <1>4
    <2> QED
        BY <1>3, <2>1, <2>2, TxAssumption DEF NewEntry, Entry, TxStates
<1>7. entries' \in [Slots -> Entry \cup {NoEntry}]
    <2>1. entries' = [e \in Slots |-> entries'[e]]
        BY <1>1 DEF tx_scheduler_restore_pending
    <2>2. \A e \in Slots : entries'[e] \in Entry \cup {NoEntry}
        BY <1>5, <1>6
    <2> QED
        BY <2>1, <2>2
<1>8. TxTypeOK'
    <2>1. 0 \in Slots
        BY StoreAssumption DEF Slots
    <2> QED
        BY <1>1, <1>4, <1>7, <2>1, TxAssumption DEF TxTypeOK, HttpIdle, NoSlot
<1>9. MessageInHand' /\ SubmissionInHand'
    BY <1>1 DEF MessageInHand, SubmissionInHand, HttpIdle
<1>10. \A e \in Slots : Active(e)' =>
          \E s \in pending : /\ Rank(pending, s) = e
                             /\ entries'[e].nvs_slot = s
                             /\ entries'[e].message = ram'[s]
    <2>1. \A s, g : /\ NewEntry(ram'[s], s, g).nvs_slot = s
                    /\ NewEntry(ram'[s], s, g).message = ram'[s]
        BY DEF NewEntry
    <2> SUFFICES ASSUME NEW e \in Slots, entries'[e] # NoEntry
                 PROVE  \E s \in pending : /\ Rank(pending, s) = e
                                           /\ entries'[e].nvs_slot = s
                                           /\ entries'[e].message = ram'[s]
        BY DEF Active
    <2>2. PICK s \in pending :
              /\ Rank(pending, s) = e
              /\ entries'[e] = NewEntry(ram'[s], s, Rank(pending, s) + 1)
        BY <1>5
    <2> QED
        BY <2>1, <2>2
<1>11. EntriesPending'
    BY <1>3, <1>10 DEF EntriesPending
<1>12. ReservationsHeld'
    BY <1>1, <1>2 DEF ReservationsHeld, HttpIdle
<1>13. EntryOwnsSlot'
    <2>1. http'.pc = "idle" /\ reserved' = {}
        BY <1>1, <1>2 DEF HttpIdle
    <2>2. \A e \in Slots : Active(e)' =>
              /\ IsPendingTx(ram'[entries'[e].nvs_slot])
              /\ ram'[entries'[e].nvs_slot] = entries'[e].message
              /\ Rank(pending, entries'[e].nvs_slot) = e
        BY <1>3, <1>10
    <2> QED
        BY <2>1, <2>2 DEF EntryOwnsSlot
<1> QED
    BY <1>2, <1>8, <1>9, <1>11, <1>12, <1>13 DEF Ownership

-----------------------------------------------------------------------------
(* The theorems.                                                           *)

\* The invariant holds when the node starts for the first time.
LEMMA InitIInv == Init => IInv
<1> SUFFICES ASSUME Init PROVE IInv
    OBVIOUS
<1> USE DEF Init
<1>1. StoreTypeOK
    <2>1. {s \in Slots : ram[s] # NoMessage} = {}
        OBVIOUS
    <2> QED
        BY <2>1, FS_EmptySet DEF StoreTypeOK
<1>2. TxTypeOK
    BY StoreAssumption, TxAssumption DEF TxTypeOK, Slots, HttpIdle, NoSlot
<1>3. MessageInHand /\ SubmissionInHand
    BY DEF MessageInHand, SubmissionInHand, HttpIdle
<1>4. Ownership
    BY DEF Ownership, EntriesPending, ReservationsHeld, EntryOwnsSlot, Active, HttpIdle
<1> QED
    BY <1>1, <1>2, <1>3, <1>4 DEF IInv

\* Every step of every task keeps the invariant.
LEMMA NextIInv == IInv /\ [Next]_vars => IInv'
<1> SUFFICES ASSUME IInv, [Next]_vars PROVE IInv'
    OBVIOUS
<1>1. CASE HttpTask
    BY <1>1, QueueMessageStep, SequenceSaveStep, QueueAllocateStep, QueueWriteStep, SubmitStep
       DEF HttpTask
<1>2. CASE SchedulerTask
    BY <1>2, DrainResultStep, DrainDoneStep, ScanEntryStep, SendStep, LoraSubmitStep,
       SubmitReturnsStep DEF SchedulerTask
<1>3. CASE RadioTask
    BY <1>3, TransmitStep DEF RadioTask
<1>4. CASE RxTask
    BY <1>4, AcknowledgeStep, RxAllocateStep, RxWriteStep DEF RxTask
<1>5. CASE \E e \in Slots : TimePasses(e)
    BY <1>5, TimePassesStep
<1>6. CASE Reboot
    BY <1>6, RebootStep
<1>7. CASE UNCHANGED vars
    BY <1>7 DEF vars, storeVars, txVars, schedVars, seqVars, IInv, StoreTypeOK, TxTypeOK,
                MessageInHand, SubmissionInHand, Ownership, EntriesPending, ReservationsHeld,
                EntryOwnsSlot, Active
<1> QED
    BY <1>1, <1>2, <1>3, <1>4, <1>5, <1>6, <1>7 DEF Next

\* The invariant holds throughout.
LEMMA Inductive == Spec => []IInv
BY InitIInv, NextIInv, PTL DEF Spec

\* The store and the scheduler never leave their types: in particular no entry
\* is sent more than TX_RETRY_MAX_ATTEMPTS times, and the count of stored
\* messages shown by the portal is always exact.
THEOREM TypeCorrect == Spec => [](StoreTypeOK /\ TxTypeOK)
<1>1. IInv => StoreTypeOK /\ TxTypeOK
    BY DEF IInv
<1> QED
    BY <1>1, Inductive, PTL

\* Every active entry owns the slot its outcome will be recorded in, whatever
\* the other tasks, the flash and power losses do.
THEOREM EntriesOwnTheirSlots == Spec => []EntryOwnsSlot
<1>1. IInv => EntryOwnsSlot
    BY DEF IInv, Ownership
<1> QED
    BY <1>1, Inductive, PTL

\* A slot between allocate and write belongs to the one task that got it, and
\* from the write to tx_scheduler_submit it keeps its message.
THEOREM ReservationsAreHeld == Spec => []ReservationsHeld
<1>1. IInv => ReservationsHeld
    BY DEF IInv, Ownership
<1> QED
    BY <1>1, Inductive, PTL

\* The "TX queue full" branch of queue_message cannot be taken: were every
\* entry active, they would own as many slots as there are, one of which
\* holds the message being submitted.
THEOREM RoomForEverySubmit == Spec => []SubmitHasRoom
<1>1. IInv => SubmitHasRoom
    <2> SUFFICES ASSUME IInv, http.pc = "written", FreeEntries = {}
                 PROVE  FALSE
        BY DEF SubmitHasRoom
    <2> DEFINE T == Slots \ {http.slot}
               f == [e \in Slots |-> entries[e].nvs_slot]
    <2>1. http.slot \in Slots
        BY DEF IInv, Ownership, ReservationsHeld
    <2>2. \A e \in Slots : Active(e)
        BY DEF FreeEntries
    <2>3. f \in [Slots -> T]
        BY <2>2 DEF IInv, Ownership, EntryOwnsSlot, TxTypeOK, Active, Entry
    <2>4. IsFiniteSet(T) /\ Cardinality(T) = Cardinality(Slots) - 1
        BY <2>1, SlotsFinite, FS_RemoveElement
    <2>5. Cardinality(T) < Cardinality(Slots)
        <3> HIDE DEF T
        <3>1. Cardinality(Slots) \in Nat
            BY SlotsFinite, StoreAssumption
        <3> QED
            BY <2>4, <3>1
    <2>6. \E x, y \in Slots : x # y /\ f[x] = f[y]
        <3> HIDE DEF T, f
        <3> QED
            BY <2>3, <2>4, <2>5, SlotsFinite, FS_PigeonHole
    <2> QED
        BY <2>2, <2>6 DEF IInv, Ownership, EntryOwnsSlot
<1> QED
    BY <1>1, Inductive, PTL

-----------------------------------------------------------------------------
(* The shapes of a step of the scheduler task, or of an ACK.               *)

\* The message of an entry as it is known on the air.
OnAir(e) == <<entries[e].message.id, entries[e].message.destination>>

\* The entry waits, not for an ACK, or nothing happens.
Delays(e) ==
    \/ UNCHANGED <<storeVars, entries, expired>>
    \/ Active(e) /\ \E state \in TxStates \ {"WAITING_ACK"} : Wait(e, state)

\* The radio said that the entry's message was transmitted.
Reports(e) ==
    /\ Active(e)
    /\ \E r \in results : r.result = "SUCCESS" /\ e \in Matching(r)
    /\ \E outcome \in NvsOutcomes :
          set_status(e, [entries[e] EXCEPT !.state = "WAITING_ACK"], "SENT", outcome)

\* The entry ends with a final status.
Ends(e, status) ==
    /\ Active(e)
    /\ entries[e].state # "SUBMITTING" \/ sched'.pc # "submit"
    /\ Finish(e, status)
    /\ status = "ACKED" => OnAir(e) \in aired
    /\ status = "FAILED_TIMEOUT" => entries[e].state = "WAITING_ACK"

\* A new request is about to be handed to the radio.
Submits(e) ==
    /\ e = sched.i /\ Active(e)
    /\ RequestIds \ UsedRequestIds # {}
    /\ entries' = [entries EXCEPT ![e].state = "SUBMITTING",
                                  ![e].attempts = @ + 1,
                                  ![e].radio_request_id = FreshRequestId]
    /\ job' = [message_id |-> entries[e].message.id,
               generation |-> entries[e].generation,
               request_id |-> FreshRequestId]
    /\ sched' = [sched EXCEPT !.pc = "submit"]
    /\ UNCHANGED <<storeVars, expired>>

FinalStatuses == FailedStatuses \cup {"ACKED"}

\* finalize_failure ends the entry, and says FAILED_TIMEOUT only for a missing ACK.
LEMMA FailureEnds ==
    ASSUME NEW e, Active(e), sched'.pc # "submit", NEW error, finalize_failure(e, error),
           error = "ACK_TIMEOUT" => entries[e].state = "WAITING_ACK"
    PROVE  \E status \in FinalStatuses : Ends(e, status)
<1> DEFINE status == CASE error = "ACK_TIMEOUT"                    -> "FAILED_TIMEOUT"
                       [] error \in {"QUEUE_FULL", "PACKET_BUILD"} -> "FAILED_QUEUE"
                       [] OTHER                                    -> "FAILED_RADIO"
<1>1. /\ status \in FailedStatuses /\ status # "ACKED"
      /\ status = "FAILED_TIMEOUT" => error = "ACK_TIMEOUT"
    BY DEF FailedStatuses
<1>2. Finish(e, status)
    BY DEF finalize_failure
<1> HIDE DEF status
<1> QED
    BY <1>1, <1>2 DEF Ends, FinalStatuses

EntryShape(e) == Delays(e) \/ Reports(e) \/ \E status \in FinalStatuses : Ends(e, status)

\* What every step of the scheduler task leaves alone.
SchedulerFrame == UNCHANGED <<next_generation, seqVars, http, rx, aired, accepted, crashes>>

\* Draining one result is one of the shapes.
LEMMA DrainShape ==
    ASSUME IInv, DrainResult
    PROVE  /\ \E e \in Slots : EntryShape(e)
           /\ SchedulerFrame /\ results' \subseteq results /\ UNCHANGED <<radioq, schedVars>>
<1>0. /\ sched.pc = "drain" /\ UNCHANGED schedVars
      /\ SchedulerFrame /\ UNCHANGED <<radioq, schedVars>>
    BY DEF DrainResult, SchedulerFrame
<1>1. PICK r \in results : results' = results \ {r} /\ handle_radio_result(r)
    BY DEF DrainResult
<1>2. CASE Matching(r) = {}
    <2>1. 0 \in Slots
        BY StoreAssumption DEF Slots
    <2>2. Delays(0)
        BY <1>1, <1>2 DEF handle_radio_result, Delays
    <2> QED
        BY <1>0, <1>1, <2>1, <2>2 DEF EntryShape
<1>3. CASE Matching(r) # {}
    <2> DEFINE e == Min(Matching(r))
    <2>1. e \in Slots /\ Active(e) /\ e \in Matching(r)
        BY <1>3, MinOfSlots DEF Matching
    <2>2. CASE r.result = "SUCCESS"
        BY <1>0, <1>1, <1>3, <2>1, <2>2 DEF handle_radio_result, EntryShape, Reports
    <2>3. CASE r.result # "SUCCESS"
        <3>1. Wait(e, "RETRY_BACKOFF")
            BY <1>1, <1>3, <2>3 DEF handle_radio_result
        <3>2. "RETRY_BACKOFF" \in TxStates \ {"WAITING_ACK"}
            BY DEF TxStates
        <3> QED
            BY <1>0, <1>1, <2>1, <3>1, <3>2 DEF EntryShape, Delays
    <2> QED
        BY <2>2, <2>3
<1> QED
    BY <1>2, <1>3

\* Looking at one entry is one of the shapes.
LEMMA ScanShape ==
    ASSUME IInv, Scan
    PROVE  /\ \E e \in Slots : EntryShape(e)
           /\ SchedulerFrame /\ UNCHANGED <<radioq, results>> /\ sched'.pc # "submit"
<1> DEFINE e == sched.i
<1>0. /\ e \in Slots
      /\ SchedulerFrame /\ UNCHANGED <<radioq, results>>
      /\ TxTypeOK
    BY DEF IInv, Scan, TxTypeOK, SchedulerFrame
<1>1. NextEntry \/ sched' = [sched EXCEPT !.pc = "send"]
    BY DEF Scan
<1>2. sched'.pc # "submit"
    BY <1>0, <1>1, NextEntryType DEF TxTypeOK
<1>3. "RETRY_BACKOFF" \in TxStates \ {"WAITING_ACK"}
    BY DEF TxStates
<1>4. CASE Sendable(e) /\ e \in expired
    BY <1>0, <1>2, <1>4 DEF Scan, EntryShape, Delays, Sendable
<1>5. CASE /\ ~(Sendable(e) /\ e \in expired)
           /\ Active(e) /\ entries[e].state \in {"WAITING_ACK", "WAITING_RADIO"}
           /\ e \in expired
    <2>1. \/ Wait(e, "RETRY_BACKOFF")
          \/ entries[e].state = "WAITING_ACK" /\ finalize_failure(e, "ACK_TIMEOUT")
          \/ finalize_failure(e, "RADIO_TIMEOUT")
        BY <1>5 DEF Scan
    <2>2. CASE Wait(e, "RETRY_BACKOFF")
        BY <1>0, <1>2, <1>3, <1>5, <2>2 DEF EntryShape, Delays
    <2>3. CASE entries[e].state = "WAITING_ACK" /\ finalize_failure(e, "ACK_TIMEOUT")
        <3>1. \E status \in FinalStatuses : Ends(e, status)
            BY <1>2, <1>5, <2>3, FailureEnds
        <3> QED
            BY <1>0, <1>2, <3>1 DEF EntryShape
    <2>4. CASE finalize_failure(e, "RADIO_TIMEOUT")
        <3>1. "RADIO_TIMEOUT" # "ACK_TIMEOUT"
            OBVIOUS
        <3>2. \E status \in FinalStatuses : Ends(e, status)
            BY <1>2, <1>5, <2>4, <3>1, FailureEnds
        <3> QED
            BY <1>0, <1>2, <3>2 DEF EntryShape
    <2> QED
        BY <2>1, <2>2, <2>3, <2>4
<1>6. CASE /\ ~(Sendable(e) /\ e \in expired)
           /\ ~(/\ Active(e) /\ entries[e].state \in {"WAITING_ACK", "WAITING_RADIO"}
                /\ e \in expired)
    BY <1>0, <1>2, <1>6 DEF Scan, EntryShape, Delays
<1> QED
    BY <1>4, <1>5, <1>6

\* send_current_packet up to the unlock is one of the shapes.
LEMMA SendShape ==
    ASSUME IInv, SendCurrentPacket
    PROVE  /\ \E e \in Slots : \/ Submits(e)
                               \/ EntryShape(e) /\ sched'.pc # "submit"
           /\ SchedulerFrame /\ UNCHANGED <<radioq, results>>
<1> DEFINE e == sched.i
<1>0. /\ e \in Slots
      /\ SchedulerFrame /\ UNCHANGED <<radioq, results>>
      /\ TxTypeOK
    BY DEF IInv, SendCurrentPacket, TxTypeOK, SchedulerFrame
<1>1. CASE ~Sendable(e)
    <2>1. NextEntry /\ UNCHANGED <<storeVars, entries, expired>>
        BY <1>1 DEF SendCurrentPacket
    <2>2. sched'.pc # "submit"
        BY <1>0, <2>1, NextEntryType
    <2> QED
        BY <1>0, <2>1, <2>2 DEF EntryShape, Delays
<1>2. CASE Sendable(e)
    <2>1. \/ NextEntry /\ finalize_failure(e, "RADIO_TIMEOUT")
          \/ NextEntry /\ finalize_failure(e, "PACKET_BUILD")
          \/ Submits(e)
        BY <1>2 DEF SendCurrentPacket, Submits, Sendable
    <2>2. CASE Submits(e)
        BY <1>0, <2>2
    <2>3. CASE NextEntry /\ \E error \in {"RADIO_TIMEOUT", "PACKET_BUILD"} :
                                finalize_failure(e, error)
        <3>1. sched'.pc # "submit"
            BY <1>0, <2>3, NextEntryType
        <3>2. PICK error \in {"RADIO_TIMEOUT", "PACKET_BUILD"} : finalize_failure(e, error)
            BY <2>3
        <3>3. error # "ACK_TIMEOUT"
            OBVIOUS
        <3>4. \E status \in FinalStatuses : Ends(e, status)
            BY <1>2, <3>1, <3>2, <3>3, FailureEnds DEF Sendable
        <3> QED
            BY <1>0, <3>1, <3>4 DEF EntryShape
    <2> QED
        BY <2>1, <2>2, <2>3
<1> QED
    BY <1>1, <1>2

\* send_current_packet after the unlocked call is one of the shapes.
LEMMA ReturnShape ==
    ASSUME IInv, SubmitReturns
    PROVE  /\ \E e \in Slots : EntryShape(e)
           /\ SchedulerFrame /\ UNCHANGED <<radioq, results>> /\ sched'.pc # "submit"
<1> DEFINE found == find_entry_by_generation
           e == Min(found)
<1>0. /\ NextEntry
      /\ SchedulerFrame /\ UNCHANGED <<radioq, results>>
      /\ TxTypeOK
    BY DEF IInv, SubmitReturns, SchedulerFrame
<1>1. sched'.pc # "submit"
    BY <1>0, NextEntryType
<1>2. CASE UNCHANGED <<storeVars, entries, expired>>
    <2>1. 0 \in Slots
        BY StoreAssumption DEF Slots
    <2> QED
        BY <1>0, <1>1, <1>2, <2>1 DEF EntryShape, Delays
<1>3. CASE found = {}
    BY <1>2, <1>3 DEF SubmitReturns
<1>4. CASE found # {}
    <2>1. e \in Slots /\ Active(e)
        BY <1>4, MinOfSlots DEF find_entry_by_generation
    <2>2. \/ UNCHANGED <<storeVars, entries, expired>>
          \/ Wait(e, "WAITING_RADIO") \/ Wait(e, "RETRY_BACKOFF")
          \/ finalize_failure(e, "QUEUE_FULL")
        BY <1>4 DEF SubmitReturns
    <2>3. /\ "WAITING_RADIO" \in TxStates \ {"WAITING_ACK"}
          /\ "RETRY_BACKOFF" \in TxStates \ {"WAITING_ACK"}
          /\ "QUEUE_FULL" # "ACK_TIMEOUT"
        BY DEF TxStates
    <2>4. CASE Wait(e, "WAITING_RADIO") \/ Wait(e, "RETRY_BACKOFF")
        BY <1>0, <1>1, <2>1, <2>3, <2>4 DEF EntryShape, Delays
    <2>5. CASE finalize_failure(e, "QUEUE_FULL")
        <3>1. \E status \in FinalStatuses : Ends(e, status)
            BY <1>1, <2>1, <2>3, <2>5, FailureEnds
        <3> QED
            BY <1>0, <1>1, <2>1, <3>1 DEF EntryShape
    <2> QED
        BY <1>2, <2>2, <2>4, <2>5
<1> QED
    BY <1>3, <1>4

\* An ACK ends the entry it is for.
LEMMA AcknowledgeShape ==
    ASSUME IInv, NEW id \in Ids, NEW source \in Nodes, tx_scheduler_acknowledge(id, source)
    PROVE  /\ \E e \in Slots : Ends(e, "ACKED")
           /\ SchedulerFrame /\ UNCHANGED <<radioq, results, schedVars>>
<1> DEFINE e == Min(find_entry(id, source))
<1>1. /\ <<id, source>> \in aired
      /\ find_entry(id, source) # {}
      /\ Finish(e, "ACKED")
      /\ SchedulerFrame /\ UNCHANGED <<radioq, results, schedVars>>
    BY DEF tx_scheduler_acknowledge, SchedulerFrame
<1>2. /\ e \in Slots /\ Active(e) /\ entries[e].state = "WAITING_ACK"
      /\ entries[e].message.id = id /\ entries[e].message.destination = source
    BY <1>1, MinOfSlots DEF find_entry
<1> QED
    BY <1>1, <1>2 DEF Ends, OnAir

-----------------------------------------------------------------------------
(* On the air before it is said so.                                        *)

\* The record makes no claim that the radio has not kept.
IsTrue(m) ==
    m \in Message /\ m.status \in {"SENT", "ACKED", "FAILED_TIMEOUT"}
    => <<m.id, m.destination>> \in aired

\* Who waits for an ACK was transmitted.
WaitersWereAired ==
    \A e \in Slots : Active(e) /\ entries[e].state = "WAITING_ACK" => OnAir(e) \in aired

\* A request in the radio's queue is for the destination of the entry that
\* still carries its id; a reported success is of that entry's message.
RequestsMatch ==
    \A e \in Slots, q \in radioq :
        Active(e) /\ entries[e].radio_request_id = q.request_id
        => entries[e].message.destination = q.destination
ResultsMatch ==
    \A e \in Slots, r \in results :
        /\ Active(e) /\ r.result = "SUCCESS"
        /\ entries[e].radio_request_id = r.request_id
        /\ entries[e].message.id = r.message_id
        => OnAir(e) \in aired

\* No two entries wait for the same request.
RequestsDiffer ==
    \A e, f \in Slots :
        /\ Active(e) /\ Active(f)
        /\ entries[e].radio_request_id = entries[f].radio_request_id
        /\ entries[e].radio_request_id # NoRequest
        => e = f

\* The locals of send_current_packet name the request of its entry.
JobMatches == sched.pc = "submit" => entries[sched.i].radio_request_id = job.request_id

Requests == WaitersWereAired /\ RequestsMatch /\ ResultsMatch /\ RequestsDiffer

AirInv == SentWasOnAir /\ Requests /\ JobMatches

\* SentWasOnAir, slot by slot.
LEMMA SentIsTrue ==
    SentWasOnAir <=> \A s \in Slots : IsTrue(ram[s]) /\ IsTrue(nvs[s])
BY DEF SentWasOnAir, IsTrue

\* A step that puts a true record, nothing, or what the flash holds into a
\* slot keeps the records true: what was on the air stays so.
LEMMA RecordsStayTrue ==
    ASSUME SentWasOnAir, aired \subseteq aired',
           NEW m, IsTrue(m)',
           \A s \in Slots : /\ ram'[s] \in {ram[s], nvs[s], NoMessage, m}
                            /\ nvs'[s] \in {nvs[s], NoMessage, m}
    PROVE  SentWasOnAir'
<1>1. \A s \in Slots : IsTrue(ram[s]) /\ IsTrue(nvs[s])
    BY SentIsTrue
<1>2. ASSUME NEW s \in Slots
      PROVE  /\ ram'[s] \in Message /\ ram'[s].status \in {"SENT", "ACKED", "FAILED_TIMEOUT"}
                => <<ram'[s].id, ram'[s].destination>> \in aired'
             /\ nvs'[s] \in Message /\ nvs'[s].status \in {"SENT", "ACKED", "FAILED_TIMEOUT"}
                => <<nvs'[s].id, nvs'[s].destination>> \in aired'
    BY <1>1, StoreAssumption DEF IsTrue
<1> QED
    BY <1>2 DEF SentWasOnAir

\* An entry that keeps its message and its request, and waits for an ACK only
\* if it did so before or was transmitted.
KeepsRequest(e) ==
    /\ Active(e)
    /\ entries'[e].message.id = entries[e].message.id
    /\ entries'[e].message.destination = entries[e].message.destination
    /\ entries'[e].radio_request_id = entries[e].radio_request_id
    /\ entries'[e].state = "WAITING_ACK" =>
          entries[e].state = "WAITING_ACK" \/ OnAir(e) \in aired

\* An entry that has not been sent yet.
IsUnsent(e) ==
    entries[e].radio_request_id = NoRequest /\ entries[e].state # "WAITING_ACK"

\* When entries keep their request or start anew, and requests and results
\* only disappear, these go on matching.
LEMMA RequestsKept ==
    ASSUME TxTypeOK, Requests,
           radioq' \subseteq radioq, results' \subseteq results, aired \subseteq aired',
           \A e \in Slots : Active(e)' => KeepsRequest(e) \/ IsUnsent(e)'
    PROVE  Requests'
<1>0. /\ \A q \in radioq : q.request_id # NoRequest
      /\ \A r \in results : r.request_id # NoRequest
    BY TxAssumption DEF TxTypeOK, Request, Result
<1>1. WaitersWereAired'
    BY DEF Requests, WaitersWereAired, KeepsRequest, IsUnsent, OnAir
<1>2. RequestsMatch'
    BY <1>0 DEF Requests, RequestsMatch, KeepsRequest, IsUnsent
<1>3. ResultsMatch'
    BY <1>0 DEF Requests, ResultsMatch, KeepsRequest, IsUnsent, OnAir
<1>4. RequestsDiffer'
    BY DEF Requests, RequestsDiffer, KeepsRequest, IsUnsent
<1> QED
    BY <1>1, <1>2, <1>3, <1>4 DEF Requests

\* The entries are the same, and so is what was on the air.
LEMMA RequestsSame ==
    ASSUME TxTypeOK, Requests, UNCHANGED <<entries, aired>>,
           radioq' \subseteq radioq, results' \subseteq results
    PROVE  Requests'
<1>1. \A e \in Slots : Active(e)' => KeepsRequest(e)
    BY DEF Active, KeepsRequest
<1> QED
    BY <1>1, RequestsKept

\* The store is the same, and what was on the air stays so.
LEMMA RecordsSame ==
    ASSUME SentWasOnAir, UNCHANGED storeVars, aired \subseteq aired'
    PROVE  SentWasOnAir'
BY DEF SentWasOnAir, storeVars

\* The entry's new message, after a status was recorded in its slot.
LEMMA UpdateMoves ==
    ASSUME NEW s \in Slots, NEW m, NEW outcome, StoreTypeOK,
           message_store_update(s, m, outcome)
    PROVE  \A t \in Slots : /\ ram'[t] \in {ram[t], m}
                            /\ nvs'[t] \in {nvs[t], m}
BY DEF message_store_update, write_record_locked, storeVars, StoreTypeOK

\* Delays, reports and ends keep the records true and the requests matching.
LEMMA ShapesAreTrue ==
    ASSUME IInv, AirInv, NEW e \in Slots, EntryShape(e),
           UNCHANGED <<radioq, aired>>, results' \subseteq results
    PROVE  SentWasOnAir' /\ Requests'
<1>0. /\ TxTypeOK /\ StoreTypeOK /\ SentWasOnAir /\ Requests
      /\ entries \in [Slots -> Entry \cup {NoEntry}]
    BY DEF IInv, AirInv, TxTypeOK
<1>1. CASE Delays(e)
    <2>1. UNCHANGED storeVars
        BY <1>1 DEF Delays, Wait
    <2>2. \A f \in Slots : Active(f)' => KeepsRequest(f)
        <3>1. CASE UNCHANGED entries
            BY <3>1 DEF Active, KeepsRequest
        <3>2. ASSUME Active(e), NEW state \in TxStates \ {"WAITING_ACK"}, Wait(e, state)
              PROVE  \A f \in Slots : Active(f)' => KeepsRequest(f)
            <4>1. entries[e] \in Entry
                BY <1>0, <3>2 DEF Active
            <4>2. /\ entries'[e] = [entries[e] EXCEPT !.state = state]
                  /\ \A f \in Slots \ {e} : entries'[f] = entries[f]
                BY <1>0, <3>2 DEF Wait
            <4>3. KeepsRequest(e)
                BY <3>2, <4>1, <4>2 DEF KeepsRequest, Entry
            <4> QED
                BY <4>2, <4>3 DEF Active, KeepsRequest
        <3> QED
            BY <1>1, <3>1, <3>2 DEF Delays
    <2> QED
        BY <1>0, <2>1, <2>2, RecordsSame, RequestsKept
<1>2. CASE Reports(e)
    <2>1. PICK r \in results : r.result = "SUCCESS" /\ e \in Matching(r)
        BY <1>2 DEF Reports
    <2>2. Active(e) /\ entries[e] \in Entry
        BY <1>0, <1>2 DEF Reports, Active
    <2>3. OnAir(e) \in aired
        BY <1>0, <2>1, <2>2 DEF Matching, Requests, ResultsMatch
    <2>4. PICK outcome \in NvsOutcomes :
              set_status(e, [entries[e] EXCEPT !.state = "WAITING_ACK"], "SENT", outcome)
        BY <1>2 DEF Reports
    <2>5. PICK m : m = [entries[e].message EXCEPT !.status = "SENT"]
        OBVIOUS
    <2>6. /\ m.id = entries[e].message.id /\ m.destination = entries[e].message.destination
          /\ m \in Message
          /\ entries[e].nvs_slot \in Slots
        BY <2>2, <2>5 DEF Entry, Message, Statuses
    <2>7. message_store_update(entries[e].nvs_slot, m, outcome)
        BY <2>2, <2>4, <2>5 DEF set_status, Entry
    <2>8. IsTrue(m)'
        BY <2>3, <2>6 DEF IsTrue, OnAir
    <2>9. \A t \in Slots : ram'[t] \in {ram[t], m} /\ nvs'[t] \in {nvs[t], m}
        BY <1>0, <2>6, <2>7, UpdateMoves
    <2>10. SentWasOnAir'
        BY <1>0, <2>8, <2>9, RecordsStayTrue
    <2>11. /\ entries'[e] = [[entries[e] EXCEPT !.state = "WAITING_ACK"] EXCEPT !.message = m]
           /\ \A f \in Slots \ {e} : entries'[f] = entries[f]
        BY <1>0, <2>2, <2>4, <2>5 DEF set_status, Entry
    <2>12. KeepsRequest(e)
        BY <2>2, <2>3, <2>6, <2>11 DEF KeepsRequest, Entry
    <2>13. \A f \in Slots : Active(f)' => KeepsRequest(f)
        BY <2>11, <2>12 DEF Active, KeepsRequest
    <2> QED
        BY <1>0, <2>10, <2>13, RequestsKept
<1>3. ASSUME NEW status \in FinalStatuses, Ends(e, status)
      PROVE  SentWasOnAir' /\ Requests'
    <2>1. Active(e) /\ entries[e] \in Entry
        BY <1>0, <1>3 DEF Ends, Active
    <2>2. PICK m : m = [entries[e].message EXCEPT !.status = status]
        OBVIOUS
    <2>3. PICK outcome \in NvsOutcomes : message_store_update(entries[e].nvs_slot, m, outcome)
        BY <1>3, <2>2 DEF Ends, Finish
    <2>4. /\ m.id = entries[e].message.id /\ m.destination = entries[e].message.destination
          /\ m.status = status
          /\ entries[e].nvs_slot \in Slots
        BY <2>1, <2>2 DEF Entry, Message
    <2>5. status \in {"ACKED", "FAILED_TIMEOUT"} => OnAir(e) \in aired
        BY <1>0, <1>3, <2>1 DEF Ends, Requests, WaitersWereAired
    <2>6. status # "SENT"
        BY DEF FinalStatuses, FailedStatuses
    <2>7. IsTrue(m)'
        BY <2>4, <2>5, <2>6 DEF IsTrue, OnAir
    <2>8. \A t \in Slots : ram'[t] \in {ram[t], m} /\ nvs'[t] \in {nvs[t], m}
        BY <1>0, <2>3, <2>4, UpdateMoves
    <2>9. SentWasOnAir'
        BY <1>0, <2>7, <2>8, RecordsStayTrue
    <2>10. \A f \in Slots : Active(f)' => KeepsRequest(f)
        BY <1>0, <1>3 DEF Ends, Finish, Active, KeepsRequest
    <2> QED
        BY <1>0, <2>9, <2>10, RequestsKept
<1> QED
    BY <1>1, <1>2, <1>3 DEF EntryShape

\* A fresh request matches nothing that is still under way.
LEMMA SubmitsAir ==
    ASSUME IInv, AirInv, NEW e \in Slots, Submits(e), SchedulerFrame, UNCHANGED <<radioq, results>>
    PROVE  AirInv'
<1>0. /\ TxTypeOK /\ SentWasOnAir /\ Requests
      /\ entries \in [Slots -> Entry \cup {NoEntry}]
      /\ Active(e) /\ entries[e] \in Entry
    BY DEF IInv, AirInv, TxTypeOK, Submits, Active
<1>1. PICK id : id = FreshRequestId
    OBVIOUS
<1>2. id \in RequestIds /\ id \notin UsedRequestIds
    BY <1>1 DEF Submits, FreshRequestId
<1>3. /\ id # NoRequest
      /\ \A q \in radioq : q.request_id # id
      /\ \A r \in results : r.request_id # id
      /\ \A f \in Slots : Active(f) => entries[f].radio_request_id # id
    BY <1>2, TxAssumption DEF UsedRequestIds
<1>4. /\ entries'[e] = [entries[e] EXCEPT !.state = "SUBMITTING", !.attempts = @ + 1,
                                          !.radio_request_id = id]
      /\ \A f \in Slots \ {e} : entries'[f] = entries[f]
    BY <1>0, <1>1 DEF Submits
<1>5. /\ entries'[e].state = "SUBMITTING" /\ entries'[e].radio_request_id = id
      /\ entries'[e].message = entries[e].message
      /\ \A f \in Slots \ {e} : entries'[f] = entries[f]
      /\ aired' = aired /\ radioq' = radioq /\ results' = results
    BY <1>0, <1>4 DEF Entry, SchedulerFrame
<1>6. WaitersWereAired'
    BY <1>0, <1>5 DEF Requests, WaitersWereAired, OnAir, Active
<1>7. RequestsMatch'
    BY <1>0, <1>3, <1>5 DEF Requests, RequestsMatch, Active
<1>8. ResultsMatch'
    BY <1>0, <1>3, <1>5 DEF Requests, ResultsMatch, OnAir, Active
<1>9. RequestsDiffer'
    BY <1>0, <1>3, <1>5 DEF Requests, RequestsDiffer, Active
<1>10. JobMatches'
    <2>1. sched'.i = e /\ job'.request_id = id
        BY <1>0, <1>1 DEF Submits, TxTypeOK
    <2> QED
        BY <1>5, <2>1 DEF JobMatches
<1>11. SentWasOnAir'
    BY <1>0, <1>5, RecordsSame DEF Submits
<1> QED
    BY <1>6, <1>7, <1>8, <1>9, <1>10, <1>11 DEF AirInv, Requests

\* The request handed to the radio is for its entry's destination.
LEMMA LoraSubmitAir ==
    ASSUME IInv, AirInv, lora_tx_submit
    PROVE  AirInv'
<1>0. /\ TxTypeOK /\ SentWasOnAir /\ Requests
      /\ UNCHANGED <<storeVars, entries, results, aired>>
      /\ sched.pc = "submit" /\ sched.i \in Slots /\ Active(sched.i)
      /\ entries[sched.i].radio_request_id = job.request_id
      /\ job.request_id \in RequestIds
      /\ sched'.pc # "submit"
    BY DEF IInv, AirInv, TxTypeOK, lora_tx_submit, txVars, SubmissionInHand, JobMatches
<1>1. PICK q : q = [message_id |-> job.message_id, request_id |-> job.request_id,
                    destination |-> entries[sched.i].message.destination]
    OBVIOUS
<1>2. radioq' \subseteq radioq \cup {q}
    BY <1>1 DEF lora_tx_submit
<1>3. SentWasOnAir'
    BY <1>0, RecordsSame
<1>4. \A f \in Slots : Active(f) /\ entries[f].radio_request_id = job.request_id => f = sched.i
    BY <1>0, TxAssumption DEF Requests, RequestsDiffer
<1>5. RequestsMatch'
    BY <1>0, <1>1, <1>2, <1>4 DEF Requests, RequestsMatch, Active
<1>6. WaitersWereAired' /\ ResultsMatch' /\ RequestsDiffer'
    BY <1>0 DEF Requests, WaitersWereAired, ResultsMatch, RequestsDiffer, OnAir, Active
<1>7. JobMatches'
    BY <1>0 DEF JobMatches
<1> QED
    BY <1>3, <1>5, <1>6, <1>7 DEF AirInv, Requests

\* Every step of the scheduler task.
LEMMA SchedulerAir ==
    ASSUME IInv, AirInv, SchedulerTask
    PROVE  AirInv'
<1>1. CASE DrainResult
    <2>1. sched.pc = "drain" /\ sched' = sched
        BY <1>1 DEF DrainResult, schedVars
    <2>2. JobMatches'
        BY <2>1 DEF JobMatches
    <2> QED
        BY <1>1, <2>2, DrainShape, ShapesAreTrue DEF AirInv, SchedulerFrame
<1>2. CASE DrainDone
    <2>1. UNCHANGED <<storeVars, entries, radioq, results, aired>> /\ sched'.pc # "submit"
        BY <1>2 DEF DrainDone, txVars
    <2> QED
        BY <2>1, RecordsSame, RequestsSame DEF AirInv, IInv, JobMatches
<1>3. CASE Scan
    BY <1>3, ScanShape, ShapesAreTrue DEF AirInv, SchedulerFrame, JobMatches
<1>4. CASE SendCurrentPacket
    <2>1. PICK e \in Slots : \/ Submits(e)
                             \/ EntryShape(e) /\ sched'.pc # "submit"
        BY <1>4, SendShape
    <2>2. SchedulerFrame /\ UNCHANGED <<radioq, results>>
        BY <1>4, SendShape
    <2>3. CASE Submits(e)
        BY <2>2, <2>3, SubmitsAir
    <2>4. CASE EntryShape(e) /\ sched'.pc # "submit"
        BY <2>2, <2>4, ShapesAreTrue DEF AirInv, SchedulerFrame, JobMatches
    <2> QED
        BY <2>1, <2>3, <2>4
<1>5. CASE lora_tx_submit
    BY <1>5, LoraSubmitAir
<1>6. CASE SubmitReturns
    BY <1>6, ReturnShape, ShapesAreTrue DEF AirInv, SchedulerFrame, JobMatches
<1> QED
    BY <1>1, <1>2, <1>3, <1>4, <1>5, <1>6 DEF SchedulerTask

\* A success is reported only of what was transmitted.
LEMMA TransmitAir ==
    ASSUME IInv, AirInv, NEW q \in radioq, Transmit(q)
    PROVE  AirInv'
<1>0. /\ TxTypeOK /\ SentWasOnAir /\ Requests
      /\ UNCHANGED <<storeVars, entries, sched, job>>
      /\ radioq' \subseteq radioq
    BY DEF IInv, AirInv, Transmit, txVars, schedVars
<1>1. PICK result \in {"SUCCESS", "FAILURE"}, onAir \in BOOLEAN, kept \in BOOLEAN :
          /\ result = "SUCCESS" => onAir
          /\ aired' = IF onAir THEN aired \cup {<<q.message_id, q.destination>>} ELSE aired
          /\ results' = IF kept THEN results \cup {[message_id |-> q.message_id,
                                                    request_id |-> q.request_id,
                                                    result |-> result]}
                        ELSE results
    BY DEF Transmit
<1>2. aired \subseteq aired'
    BY <1>1
<1>3. PICK new : new = [message_id |-> q.message_id, request_id |-> q.request_id,
                        result |-> result]
    OBVIOUS
<1>4. /\ results' \subseteq results \cup {new}
      /\ new.result = "SUCCESS" => <<q.message_id, q.destination>> \in aired'
      /\ new.message_id = q.message_id /\ new.request_id = q.request_id
    BY <1>1, <1>3
<1>5. ResultsMatch'
    <2> SUFFICES ASSUME NEW e \in Slots, NEW r \in results',
                        Active(e), r.result = "SUCCESS",
                        entries[e].radio_request_id = r.request_id,
                        entries[e].message.id = r.message_id
                 PROVE  OnAir(e) \in aired'
        BY <1>0 DEF ResultsMatch, OnAir, Active
    <2>1. CASE r \in results
        BY <1>0, <1>2, <2>1 DEF Requests, ResultsMatch
    <2>2. CASE r = new
        <3>1. entries[e].message.destination = q.destination
            BY <1>0, <1>4, <2>2 DEF Requests, RequestsMatch
        <3> QED
            BY <1>4, <2>2, <3>1 DEF OnAir
    <2> QED
        BY <1>4, <2>1, <2>2
<1>6. WaitersWereAired' /\ RequestsMatch' /\ RequestsDiffer'
    BY <1>0, <1>2 DEF Requests, WaitersWereAired, RequestsMatch, RequestsDiffer, OnAir, Active
<1>7. SentWasOnAir'
    BY <1>0, <1>2, RecordsSame
<1>8. JobMatches'
    BY <1>0 DEF AirInv, JobMatches
<1> QED
    BY <1>5, <1>6, <1>7, <1>8 DEF AirInv, Requests

\* Allocation only empties slots.
LEMMA AllocateMoves ==
    ASSUME StoreTypeOK, NEW outcome,
           AllocateFails(outcome) \/ \E s \in Slots : message_store_allocate(s, outcome)
    PROVE  \A t \in Slots : ram'[t] \in {ram[t], NoMessage} /\ nvs'[t] \in {nvs[t], NoMessage}
BY DEF AllocateFails, message_store_allocate, delete_record_locked, StoreTypeOK

\* message_store_write puts nothing but its record into a slot.
LEMMA WriteMoves ==
    ASSUME StoreTypeOK, NEW s, NEW m, NEW outcome, message_store_write(s, m, outcome)
    PROVE  \A t \in Slots : ram'[t] \in {ram[t], m} /\ nvs'[t] \in {nvs[t], m}
BY DEF message_store_write, write_record_locked, storeVars, StoreTypeOK

\* A record that does not claim to have been sent is true.
LEMMA UnsentIsTrue ==
    ASSUME NEW m, m.status \notin {"SENT", "ACKED", "FAILED_TIMEOUT"}
    PROVE  IsTrue(m)'
BY DEF IsTrue

\* Every step of queue_message.
LEMMA HttpAir ==
    ASSUME IInv, AirInv, HttpTask
    PROVE  AirInv'
<1>0. /\ TxTypeOK /\ StoreTypeOK /\ SentWasOnAir /\ Requests /\ JobMatches
      /\ entries \in [Slots -> Entry \cup {NoEntry}]
    BY DEF IInv, AirInv, TxTypeOK
<1>1. UNCHANGED <<radioq, results, aired, sched, job>>
    BY DEF HttpTask, QueueMessage, mesh_sequence_save, QueueAllocate, QueueWrite,
           tx_scheduler_submit, schedVars
<1>2. CASE UNCHANGED <<storeVars, entries>>
    BY <1>0, <1>1, <1>2, RecordsSame, RequestsSame DEF AirInv, JobMatches
<1>3. CASE QueueAllocate
    <2>1. UNCHANGED entries
        BY <1>3 DEF QueueAllocate, txVars
    <2>2. \A t \in Slots : ram'[t] \in {ram[t], NoMessage} /\ nvs'[t] \in {nvs[t], NoMessage}
        BY <1>0, <1>3, AllocateMoves DEF QueueAllocate
    <2>3. IsTrue(NoMessage)'
        BY StoreAssumption DEF IsTrue
    <2>4. SentWasOnAir'
        BY <1>0, <1>1, <2>2, <2>3, RecordsStayTrue
    <2> QED
        BY <1>0, <1>1, <2>1, <2>4, RequestsSame DEF AirInv, JobMatches
<1>4. CASE QueueWrite
    <2>1. UNCHANGED entries
        BY <1>4 DEF QueueWrite, txVars
    <2>2. PICK m : m = http.message
        OBVIOUS
    <2>3. m.status = "PENDING"
        BY <1>4, <2>2 DEF IInv, MessageInHand, QueueWrite
    <2>4. \A t \in Slots : ram'[t] \in {ram[t], m} /\ nvs'[t] \in {nvs[t], m}
        BY <1>0, <1>4, <2>2, WriteMoves DEF QueueWrite
    <2>5. SentWasOnAir'
        BY <1>0, <1>1, <2>3, <2>4, UnsentIsTrue, RecordsStayTrue
    <2> QED
        BY <1>0, <1>1, <2>1, <2>5, RequestsSame DEF AirInv, JobMatches
<1>5. CASE tx_scheduler_submit
    <2>1. /\ http.slot \in Slots /\ http.message \in Message
        BY <1>5 DEF tx_scheduler_submit, IInv, Ownership, ReservationsHeld, MessageInHand
    <2>2. CASE FreeEntries # {}
        <3>1. PICK e : e = Min(FreeEntries)
            OBVIOUS
        <3>2. e \in Slots /\ ~Active(e)
            BY <2>2, <3>1, MinOfSlots DEF FreeEntries
        <3>3. PICK m : m = [http.message EXCEPT !.status = "QUEUED"]
            OBVIOUS
        <3>4. m.status = "QUEUED"
            BY <2>1, <3>3 DEF Message
        <3>5. PICK outcome \in NvsOutcomes :
                  set_status(e, NewEntry(http.message, http.slot, next_generation + 1),
                             "QUEUED", outcome)
            BY <1>5, <2>2, <3>1 DEF tx_scheduler_submit
        <3>6. /\ message_store_update(http.slot, m, outcome)
              /\ entries'[e].radio_request_id = NoRequest
              /\ entries'[e].state = "QUEUED"
              /\ \A f \in Slots \ {e} : entries'[f] = entries[f]
            BY <1>0, <3>2, <3>3, <3>5 DEF set_status, NewEntry
        <3>7. \A t \in Slots : ram'[t] \in {ram[t], m} /\ nvs'[t] \in {nvs[t], m}
            BY <1>0, <2>1, <3>6, UpdateMoves
        <3>8. SentWasOnAir'
            BY <1>0, <1>1, <3>4, <3>7, UnsentIsTrue, RecordsStayTrue
        <3>9. \A f \in Slots : Active(f)' => KeepsRequest(f) \/ IsUnsent(f)'
            BY <3>6 DEF Active, KeepsRequest, IsUnsent
        <3>10. Requests'
            BY <1>0, <1>1, <3>9, RequestsKept
        <3>11. JobMatches'
            <4>1. sched.pc = "submit" => sched.i # e /\ sched.i \in Slots
                BY <3>2 DEF IInv, SubmissionInHand, TxTypeOK
            <4> QED
                BY <1>0, <1>1, <3>6, <4>1 DEF JobMatches
        <3> QED
            BY <3>8, <3>10, <3>11 DEF AirInv
    <2>3. CASE FreeEntries = {}
        <3>1. UNCHANGED entries
            BY <1>5, <2>3 DEF tx_scheduler_submit, txVars
        <3>2. PICK m : m = [http.message EXCEPT !.status = "FAILED"]
            OBVIOUS
        <3>3. m.status = "FAILED"
            BY <2>1, <3>2 DEF Message
        <3>4. \A t \in Slots : ram'[t] \in {ram[t], m} /\ nvs'[t] \in {nvs[t], m}
            BY <1>0, <1>5, <2>1, <2>3, <3>2, UpdateMoves DEF tx_scheduler_submit
        <3>5. SentWasOnAir'
            BY <1>0, <1>1, <3>3, <3>4, UnsentIsTrue, RecordsStayTrue
        <3> QED
            BY <1>0, <1>1, <3>1, <3>5, RequestsSame DEF AirInv, JobMatches
    <2> QED
        BY <2>2, <2>3
<1>6. CASE mesh_sequence_save \/ \E d \in Destinations, epoch \in Epochs : QueueMessage(d, epoch)
    BY <1>2, <1>6 DEF mesh_sequence_save, QueueMessage, txVars
<1> QED
    BY <1>3, <1>4, <1>5, <1>6 DEF HttpTask

\* Every step of the receive task.
LEMMA RxAir ==
    ASSUME IInv, AirInv, RxTask
    PROVE  AirInv'
<1>0. /\ TxTypeOK /\ StoreTypeOK /\ SentWasOnAir /\ Requests /\ JobMatches
      /\ entries \in [Slots -> Entry \cup {NoEntry}]
    BY DEF IInv, AirInv, TxTypeOK
<1>1. ASSUME NEW id \in Ids, NEW source \in Nodes, tx_scheduler_acknowledge(id, source)
      PROVE  AirInv'
    <2>1. PICK e \in Slots : Ends(e, "ACKED")
        BY <1>1, AcknowledgeShape
    <2>2. SchedulerFrame /\ UNCHANGED <<radioq, results, schedVars>>
        BY <1>1, AcknowledgeShape
    <2>3. EntryShape(e)
        BY <2>1 DEF EntryShape, FinalStatuses
    <2>4. SentWasOnAir' /\ Requests'
        BY <2>2, <2>3, ShapesAreTrue DEF SchedulerFrame
    <2>5. JobMatches'
        <3>1. sched.pc = "submit" => sched.i # e /\ sched.i \in Slots
            BY <2>1, <2>2 DEF Ends, schedVars, IInv, SubmissionInHand, TxTypeOK
        <3>2. \A f \in Slots \ {e} : entries'[f] = entries[f]
            BY <1>0, <2>1 DEF Ends, Finish
        <3> QED
            BY <1>0, <2>2, <3>1, <3>2 DEF JobMatches, schedVars
    <2> QED
        BY <2>4, <2>5 DEF AirInv
<1>2. CASE RxAllocate
    <2>1. UNCHANGED <<entries, radioq, results, aired, sched, job>>
        BY <1>2 DEF RxAllocate, txVars, schedVars
    <2>2. \A t \in Slots : ram'[t] \in {ram[t], NoMessage} /\ nvs'[t] \in {nvs[t], NoMessage}
        BY <1>0, <1>2, AllocateMoves DEF RxAllocate
    <2>3. IsTrue(NoMessage)'
        BY StoreAssumption DEF IsTrue
    <2>4. SentWasOnAir'
        BY <1>0, <2>1, <2>2, <2>3, RecordsStayTrue
    <2> QED
        BY <1>0, <2>1, <2>4, RequestsSame DEF AirInv, JobMatches
<1>3. ASSUME NEW id \in RxIds, NEW source \in Nodes \ {Me}, NEW epoch \in Epochs,
             RxWrite(id, source, epoch)
      PROVE  AirInv'
    <2>1. UNCHANGED <<entries, radioq, results, aired, sched, job>>
        BY <1>3 DEF RxWrite, txVars, schedVars
    <2>2. PICK m : m = [id |-> id, direction |-> "RX", source |-> source, destination |-> Me,
                        status |-> "RECEIVED", stored_epoch |-> epoch]
        OBVIOUS
    <2>3. m.status = "RECEIVED"
        BY <2>2
    <2>4. \A t \in Slots : ram'[t] \in {ram[t], m} /\ nvs'[t] \in {nvs[t], m}
        BY <1>0, <1>3, <2>2, WriteMoves DEF RxWrite
    <2>5. SentWasOnAir'
        BY <1>0, <2>1, <2>3, <2>4, UnsentIsTrue, RecordsStayTrue
    <2> QED
        BY <1>0, <2>1, <2>5, RequestsSame DEF AirInv, JobMatches
<1> QED
    BY <1>1, <1>2, <1>3 DEF RxTask

\* What a boot makes of the records and the entries.
LEMMA RebootShape ==
    ASSUME StoreTypeOK, Reboot
    PROVE  /\ \A s \in Slots : ram'[s] \in {nvs[s], NoMessage}
           /\ nvs' = nvs
           /\ \A e \in Slots : Active(e)' =>
                 \E s \in Slots :
                    /\ IsPendingTx(ram'[s])
                    /\ \E g : entries'[e] = NewEntry(ram'[s], s, g)
<1>1. PICK readable \in Readable : message_store_load_messages_from_nvs(Me, readable)
    BY DEF Reboot
<1>2. nvs' = nvs /\ \A s \in Slots : ram'[s] \in {nvs[s], NoMessage}
    BY <1>1 DEF message_store_load_messages_from_nvs, load_persisted_slot
<1>3. ASSUME NEW e \in Slots, Active(e)'
      PROVE  \E s \in Slots :
                 /\ IsPendingTx(ram'[s])
                 /\ \E g : entries'[e] = NewEntry(ram'[s], s, g)
    <2> DEFINE pending == message_store_copy_pending_tx(ram')
               c == CHOOSE s \in pending : Rank(pending, s) = e
    <2>1. entries'[e] = IF \E s \in pending : Rank(pending, s) = e
                        THEN RestoredEntry(ram', c) ELSE NoEntry
        BY DEF Reboot, tx_scheduler_restore_pending
    <2>2. \E s \in pending : Rank(pending, s) = e
        BY <1>3, <2>1 DEF Active
    <2>3. c \in pending
        BY <2>2
    <2>4. c \in Slots /\ IsPendingTx(ram'[c])
        BY <2>3 DEF message_store_copy_pending_tx
    <2>5. entries'[e] = RestoredEntry(ram', c)
        BY <2>1, <2>2
    <2> HIDE DEF c
    <2> QED
        BY <2>4, <2>5 DEF RestoredEntry
<1> QED
    BY <1>2, <1>3

\* A boot starts with no requests, and with the records of the flash.
LEMMA RebootAir ==
    ASSUME IInv, AirInv, Reboot
    PROVE  AirInv'
<1>0. /\ TxTypeOK /\ StoreTypeOK /\ SentWasOnAir /\ Requests
      /\ radioq' = {} /\ results' = {} /\ aired' = aired /\ sched'.pc = "drain"
    BY DEF IInv, AirInv, Reboot
<1>1. SentWasOnAir'
    <2>1. IsTrue(NoMessage)'
        BY StoreAssumption DEF IsTrue
    <2>2. \A s \in Slots : ram'[s] \in {nvs[s], NoMessage} /\ nvs'[s] = nvs[s]
        BY <1>0, RebootShape
    <2> QED
        BY <1>0, <2>1, <2>2, RecordsStayTrue
<1>2. ASSUME NEW e \in Slots, Active(e)'
      PROVE  IsUnsent(e)'
    <2>1. PICK s \in Slots : \E g : entries'[e] = NewEntry(ram'[s], s, g)
        BY <1>0, <1>2, RebootShape
    <2>2. PICK g : entries'[e] = NewEntry(ram'[s], s, g)
        BY <2>1
    <2> QED
        BY <2>2 DEF NewEntry, IsUnsent
<1>3. Requests'
    BY <1>0, <1>2, RequestsKept
<1> QED
    BY <1>0, <1>1, <1>3 DEF AirInv, JobMatches

\* Nothing is said to have been sent when the node starts for the first time.
LEMMA InitAir == Init => AirInv
BY StoreAssumption DEF Init, AirInv, SentWasOnAir, Requests, WaitersWereAired, RequestsMatch,
   ResultsMatch, RequestsDiffer, JobMatches, Active

\* Every step keeps the records true.
LEMMA NextAir == IInv /\ AirInv /\ [Next]_vars => AirInv'
<1> SUFFICES ASSUME IInv, AirInv, [Next]_vars PROVE AirInv'
    OBVIOUS
<1>1. CASE \E e \in Slots : TimePasses(e)
    <2>1. UNCHANGED <<storeVars, entries, radioq, results, aired, sched, job>>
        BY <1>1 DEF TimePasses, schedVars
    <2> QED
        BY <2>1, RecordsSame, RequestsSame DEF AirInv, IInv, JobMatches
<1>2. CASE UNCHANGED vars
    <2>1. UNCHANGED <<storeVars, entries, radioq, results, aired, sched, job>>
        BY <1>2 DEF vars, txVars, schedVars
    <2> QED
        BY <2>1, RecordsSame, RequestsSame DEF AirInv, IInv, JobMatches
<1> QED
    BY <1>1, <1>2, HttpAir, SchedulerAir, TransmitAir, RxAir, RebootAir DEF Next, RadioTask

\* No record, in RAM or in flash, says SENT, ACKED or FAILED_TIMEOUT of a
\* message that was never transmitted, whatever order requests, results,
\* timeouts, ACKs and power losses come in and however often the flash fails.
THEOREM SentMeansAired == Spec => []SentWasOnAir
<1>1. Spec => []AirInv
    BY InitAir, NextAir, Inductive, PTL DEF Spec
<1>2. AirInv => SentWasOnAir
    BY DEF AirInv
<1> QED
    BY <1>1, <1>2, PTL

-----------------------------------------------------------------------------
(* A final status is final.  The packet counter is taken to be saved: a    *)
(* counter that is lost gives a second message the id of a first one.      *)

CounterWorks == CounterOutcomes = {"ok"}

\* Records of this node carry ids the saved counter has passed.
IsNumbered(m) ==
    m \in Message => /\ m.direction = "TX" => m.source = Me
                     /\ m.source = Me => m.id <= seqNvs

RecordsAreNumbered == \A s \in Slots : IsNumbered(nvs[s])

CounterIsSaved == seq = IF http.pc = "numbered" THEN seqNvs + 1 ELSE seqNvs

\* queue_message holds the last id drawn, and no record has it before the write.
MailIsNew ==
    /\ http.pc # "idle" => http.message.source = Me /\ http.message.id = seq
    /\ http.pc \in {"saved", "allocated"} =>
          \A s \in Slots : nvs[s] \in Message /\ nvs[s].source = Me
                           => nvs[s].id < http.message.id

\* What the scheduler works on is pending in flash as well.
EntriesAreStored ==
    \A e \in Slots : Active(e) =>
        /\ entries[e].message.source = Me
        /\ nvs[entries[e].nvs_slot] \in Message
        /\ nvs[entries[e].nvs_slot].id = entries[e].message.id
        /\ IsPendingTx(nvs[entries[e].nvs_slot])

WrittenIsStored == http.pc = "written" => nvs[http.slot] = http.message

FinalInv ==
    RecordsAreNumbered /\ CounterIsSaved /\ MailIsNew /\ EntriesAreStored /\ WrittenIsStored

\* No final status is overwritten by another status of the same message.
KeepsFinal ==
    \A s \in Slots :
        /\ nvs'[s] # nvs[s]
        /\ IsFinal(nvs[s])
        /\ nvs'[s] \in Message
        /\ nvs'[s].id = nvs[s].id /\ nvs'[s].source = nvs[s].source
        => nvs'[s].status = nvs[s].status

\* The flash changes in one slot at most: it is erased there, or takes m.
FlashAt(s, m) ==
    /\ \A t \in Slots \ {s} : nvs'[t] = nvs[t]
    /\ nvs'[s] \in {nvs[s], NoMessage, m}

\* A pending record is not a final one.
LEMMA PendingIsNotFinal ==
    ASSUME NEW m, IsPendingTx(m) PROVE ~IsFinal(m)
BY DEF IsPendingTx, IsFinal

\* message_store_update reaches the flash in its slot only.
LEMMA UpdateFlash ==
    ASSUME StoreTypeOK, NEW s \in Slots, ram[s] # NoMessage, NEW m, NEW outcome,
           message_store_update(s, m, outcome)
    PROVE  /\ nvs'[s] \in {nvs[s], m}
           /\ \A t \in Slots \ {s} : nvs'[t] = nvs[t]
BY DEF message_store_update, write_record_locked, StoreTypeOK

\* So does message_store_write, and on success the flash holds the record.
LEMMA WriteFlash ==
    ASSUME StoreTypeOK, NEW s \in reserved, NEW m, NEW outcome,
           message_store_write(s, m, outcome)
    PROVE  /\ nvs'[s] \in {nvs[s], m}
           /\ outcome = "ok" => nvs'[s] = m
           /\ \A t \in Slots \ {s} : nvs'[t] = nvs[t]
BY DEF message_store_write, write_record_locked, StoreTypeOK

\* Making room erases a slot whose record is not pending, at most.
LEMMA AllocateFlash ==
    ASSUME StoreTypeOK, NEW outcome \in NvsOutcomes,
           AllocateFails(outcome) \/ \E s \in Slots : message_store_allocate(s, outcome)
    PROVE  \/ nvs' = nvs
           \/ \E s \in Slots : /\ ~IsPendingTx(ram[s])
                               /\ nvs'[s] \in {nvs[s], NoMessage}
                               /\ \A t \in Slots \ {s} : nvs'[t] = nvs[t]
<1>1. ASSUME NEW s \in Slots, message_store_allocate(s, outcome)
      PROVE  /\ ~IsPendingTx(ram[s])
             /\ nvs'[s] \in {nvs[s], NoMessage}
             /\ \A t \in Slots \ {s} : nvs'[t] = nvs[t]
    <2>1. ~IsPendingTx(ram[s])
        BY <1>1, AllocateFrame
    <2> QED
        BY <1>1, <2>1 DEF message_store_allocate, delete_record_locked, StoreTypeOK
<1>2. CASE AllocateFails(outcome) /\ Evictable # {}
    <2>1. OldestSlot \in Evictable
        BY <1>2, OldestIsEvictable
    <2>2. OldestSlot \in Slots /\ ~IsPendingTx(ram[OldestSlot])
        BY <2>1 DEF Evictable, IsPendingTx
    <2>3. delete_record_locked(OldestSlot, outcome)
        BY <1>2 DEF AllocateFails
    <2> QED
        BY <2>2, <2>3 DEF delete_record_locked, StoreTypeOK
<1>3. CASE AllocateFails(outcome) /\ Evictable = {}
    BY <1>3 DEF AllocateFails
<1> QED
    BY <1>1, <1>2, <1>3

\* A change of one slot of the flash keeps final statuses, if the record that
\* was there is not final or the new one is of another message.
LEMMA FinalKept ==
    ASSUME NEW s \in Slots, NEW m, FlashAt(s, m),
           IsFinal(nvs[s]) => m.id # nvs[s].id \/ m.source # nvs[s].source
    PROVE  KeepsFinal
BY StoreAssumption DEF KeepsFinal, FlashAt

\* An unchanged flash keeps everything.
LEMMA FinalUnchanged ==
    ASSUME nvs' = nvs PROVE KeepsFinal
BY DEF KeepsFinal

\* Records stay numbered when a numbered one is added.
LEMMA NumberedKept ==
    ASSUME RecordsAreNumbered, NEW s \in Slots, NEW m, FlashAt(s, m),
           IsNumbered(m)', UNCHANGED seqNvs
    PROVE  RecordsAreNumbered'
<1>1. ASSUME NEW t \in Slots
      PROVE  nvs'[t] \in Message =>
                 /\ nvs'[t].direction = "TX" => nvs'[t].source = Me
                 /\ nvs'[t].source = Me => nvs'[t].id <= seqNvs'
    BY StoreAssumption DEF RecordsAreNumbered, IsNumbered, FlashAt
<1> QED
    BY <1>1 DEF RecordsAreNumbered, IsNumbered

\* The scheduler's own steps: the entry's record is pending until it ends.
LEMMA ShapesKeepFinal ==
    ASSUME IInv, FinalInv, NEW e \in Slots, EntryShape(e), SchedulerFrame
    PROVE  FinalInv' /\ KeepsFinal
<1>0. /\ TxTypeOK /\ StoreTypeOK
      /\ entries \in [Slots -> Entry \cup {NoEntry}]
      /\ UNCHANGED <<seq, seqNvs, http>>
      /\ RecordsAreNumbered /\ MailIsNew /\ EntriesAreStored /\ WrittenIsStored
      /\ CounterIsSaved'
    BY DEF IInv, FinalInv, TxTypeOK, SchedulerFrame, seqVars, CounterIsSaved
<1>1. CASE Delays(e)
    <2>1. nvs' = nvs
        BY <1>1 DEF Delays, Wait, storeVars
    <2>2. \A f \in Slots : Active(f)' => /\ Active(f)
                                         /\ entries'[f].message = entries[f].message
                                         /\ entries'[f].nvs_slot = entries[f].nvs_slot
        <3>1. CASE UNCHANGED entries
            BY <3>1 DEF Active
        <3>2. ASSUME Active(e), NEW state \in TxStates, Wait(e, state)
              PROVE  \A f \in Slots : Active(f)' => /\ Active(f)
                                         /\ entries'[f].message = entries[f].message
                                         /\ entries'[f].nvs_slot = entries[f].nvs_slot
            <4>1. entries[e] \in Entry
                BY <1>0, <3>2 DEF Active
            <4> QED
                BY <1>0, <3>2, <4>1 DEF Wait, Entry, Active
        <3> QED
            BY <1>1, <3>1, <3>2 DEF Delays
    <2>3. EntriesAreStored'
        BY <1>0, <2>1, <2>2 DEF EntriesAreStored
    <2>4. RecordsAreNumbered' /\ MailIsNew' /\ WrittenIsStored'
        BY <1>0, <2>1 DEF RecordsAreNumbered, IsNumbered, MailIsNew, WrittenIsStored
    <2> QED
        BY <1>0, <2>1, <2>3, <2>4, FinalUnchanged DEF FinalInv
<1>2. CASE Reports(e) \/ \E status \in FinalStatuses : Ends(e, status)
    <2>1. Active(e) /\ entries[e] \in Entry
        BY <1>0, <1>2 DEF Ends, Reports, Active
    <2>2. PICK s \in Slots : s = entries[e].nvs_slot
        BY <2>1 DEF Entry
    <2>3. /\ ram[s] # NoMessage
          /\ nvs[s] \in Message /\ IsPendingTx(nvs[s])
          /\ \A f \in Slots : Active(f) /\ f # e => entries[f].nvs_slot # s
          /\ http.pc = "written" => http.slot # s /\ http.slot \in Slots
          /\ entries[e].message.source = Me
          /\ entries[e].message.direction = "TX"
          /\ nvs[s].id = entries[e].message.id
          /\ nvs[s].direction = "TX"
        BY <1>0, <2>1, <2>2 DEF IInv, Ownership, EntryOwnsSlot, EntriesPending, IsPendingTx,
                                EntriesAreStored, ReservationsHeld
    <2>4. \E status \in Statuses, outcome \in NvsOutcomes :
              /\ message_store_update(s, [entries[e].message EXCEPT !.status = status], outcome)
              /\ Active(e)' => status = "SENT"
              /\ entries'[e] # NoEntry =>
                    /\ entries'[e].message = [entries[e].message EXCEPT !.status = status]
                    /\ entries'[e].nvs_slot = s
              /\ \A f \in Slots \ {e} : entries'[f] = entries[f]
        <3>1. CASE Reports(e)
            <4>1. PICK outcome \in NvsOutcomes :
                      set_status(e, [entries[e] EXCEPT !.state = "WAITING_ACK"], "SENT", outcome)
                BY <3>1 DEF Reports
            <4>2. /\ message_store_update(s, [entries[e].message EXCEPT !.status = "SENT"], outcome)
                  /\ entries'[e].message = [entries[e].message EXCEPT !.status = "SENT"]
                  /\ entries'[e].nvs_slot = s
                  /\ \A f \in Slots \ {e} : entries'[f] = entries[f]
                BY <1>0, <2>1, <2>2, <4>1 DEF set_status, Entry
            <4>3. "SENT" \in Statuses
                BY DEF Statuses
            <4> QED
                BY <4>2, <4>3
        <3>2. ASSUME NEW status \in FinalStatuses, Ends(e, status)
              PROVE  /\ status \in Statuses /\ entries'[e] = NoEntry
                     /\ \E outcome \in NvsOutcomes :
                           message_store_update(s, [entries[e].message EXCEPT !.status = status],
                                                outcome)
                     /\ \A f \in Slots \ {e} : entries'[f] = entries[f]
            BY <1>0, <2>2, <3>2 DEF Ends, Finish, FinalStatuses, FailedStatuses, Statuses
        <3> QED
            BY <1>2, <3>1, <3>2 DEF Active
    <2>5. PICK status \in Statuses, outcome \in NvsOutcomes :
              /\ message_store_update(s, [entries[e].message EXCEPT !.status = status], outcome)
              /\ Active(e)' => status = "SENT"
              /\ entries'[e] # NoEntry =>
                    /\ entries'[e].message = [entries[e].message EXCEPT !.status = status]
                    /\ entries'[e].nvs_slot = s
              /\ \A f \in Slots \ {e} : entries'[f] = entries[f]
        BY <2>4
    <2>6. PICK m : m = [entries[e].message EXCEPT !.status = status]
        OBVIOUS
    <2>7. /\ m \in Message /\ m.direction = "TX" /\ m.source = Me
          /\ m.id = nvs[s].id /\ m.status = status
        BY <2>1, <2>3, <2>6 DEF Entry, Message
    <2>8. nvs'[s] \in {nvs[s], m} /\ \A t \in Slots \ {s} : nvs'[t] = nvs[t]
        BY <1>0, <2>3, <2>5, <2>6, UpdateFlash
    <2>9. FlashAt(s, m)
        BY <2>8 DEF FlashAt
    <2>10. KeepsFinal
        BY <2>3, <2>9, FinalKept, PendingIsNotFinal
    <2>11. nvs[s].source = Me /\ m.id <= seqNvs
        BY <1>0, <2>3, <2>7 DEF RecordsAreNumbered, IsNumbered
    <2>12. RecordsAreNumbered'
        <3>1. IsNumbered(m)'
            BY <1>0, <2>7, <2>11 DEF IsNumbered
        <3> QED
            BY <1>0, <2>9, <3>1, NumberedKept
    <2>13. MailIsNew'
        BY <1>0, <2>3, <2>7, <2>8, <2>11 DEF MailIsNew
    <2>14. WrittenIsStored'
        BY <1>0, <2>3, <2>8 DEF WrittenIsStored
    <2>15. EntriesAreStored'
        <3> SUFFICES ASSUME NEW f \in Slots, Active(f)'
                     PROVE  /\ entries'[f].message.source = Me
                            /\ nvs'[entries'[f].nvs_slot] \in Message
                            /\ nvs'[entries'[f].nvs_slot].id = entries'[f].message.id
                            /\ IsPendingTx(nvs'[entries'[f].nvs_slot])
            BY DEF EntriesAreStored, IsPendingTx, state_for_message
        <3>1. CASE f = e
            <4>1. status = "SENT" /\ entries'[e].message = m /\ entries'[e].nvs_slot = s
                BY <2>5, <2>6, <3>1 DEF Active
            <4>2. IsPendingTx(m)
                BY <2>7, <4>1, StoreAssumption DEF IsPendingTx, state_for_message, FailedStatuses
            <4> QED
                BY <2>3, <2>7, <2>8, <3>1, <4>1, <4>2
        <3>2. CASE f # e
            <4>1. entries'[f] = entries[f] /\ Active(f) /\ entries[f].nvs_slot \in Slots \ {s}
                BY <1>0, <2>3, <2>5, <3>2 DEF Active, Entry
            <4> QED
                BY <1>0, <2>8, <4>1 DEF EntriesAreStored
        <3> QED
            BY <3>1, <3>2
    <2> QED
        BY <1>0, <2>10, <2>12, <2>13, <2>14, <2>15 DEF FinalInv
<1> QED
    BY <1>1, <1>2 DEF EntryShape

\* Steps that touch neither the store, the counter, nor an entry's message.
LEMMA QuietKeepsFinal ==
    ASSUME FinalInv, UNCHANGED <<nvs, seq, seqNvs, http>>,
           \A f \in Slots : Active(f)' => /\ Active(f)
                                          /\ entries'[f].message = entries[f].message
                                          /\ entries'[f].nvs_slot = entries[f].nvs_slot
    PROVE  FinalInv' /\ KeepsFinal
<1>1. EntriesAreStored'
    BY DEF FinalInv, EntriesAreStored
<1>2. RecordsAreNumbered' /\ CounterIsSaved' /\ MailIsNew' /\ WrittenIsStored'
    BY DEF FinalInv, RecordsAreNumbered, IsNumbered, CounterIsSaved, MailIsNew, WrittenIsStored
<1> QED
    BY <1>1, <1>2, FinalUnchanged DEF FinalInv

\* Every step of the scheduler task.
LEMMA SchedulerKeepsFinal ==
    ASSUME IInv, FinalInv, SchedulerTask
    PROVE  FinalInv' /\ KeepsFinal
<1>1. CASE DrainResult \/ Scan \/ SubmitReturns
    BY <1>1, DrainShape, ScanShape, ReturnShape, ShapesKeepFinal
<1>2. CASE DrainDone \/ lora_tx_submit
    <2>1. UNCHANGED <<nvs, seq, seqNvs, http, entries>>
        BY <1>2 DEF DrainDone, lora_tx_submit, storeVars, txVars, seqVars
    <2> QED
        BY <2>1, QuietKeepsFinal DEF Active
<1>3. CASE SendCurrentPacket
    <2>1. PICK e \in Slots : Submits(e) \/ EntryShape(e)
        BY <1>3, SendShape
    <2>2. SchedulerFrame
        BY <1>3, SendShape
    <2>3. CASE Submits(e)
        <3>1. Active(e) /\ entries[e] \in Entry /\ entries \in [Slots -> Entry \cup {NoEntry}]
            BY <2>3 DEF Submits, IInv, TxTypeOK, Active
        <3>2. /\ entries'[e] = [entries[e] EXCEPT !.state = "SUBMITTING", !.attempts = @ + 1,
                                                  !.radio_request_id = FreshRequestId]
              /\ \A f \in Slots \ {e} : entries'[f] = entries[f]
            BY <2>3, <3>1 DEF Submits
        <3>3. \A f \in Slots : Active(f)' => /\ Active(f)
                                             /\ entries'[f].message = entries[f].message
                                             /\ entries'[f].nvs_slot = entries[f].nvs_slot
            <4>1. /\ entries'[e].message = entries[e].message
                  /\ entries'[e].nvs_slot = entries[e].nvs_slot
                <5>1. entries[e] \in Entry
                    BY <3>1
                <5> QED
                    BY <3>2, <5>1 DEF Entry
            <4>2. ASSUME NEW f \in Slots, f # e, Active(f)'
                  PROVE  Active(f) /\ entries'[f] = entries[f]
                BY <3>2, <4>2 DEF Active
            <4> QED
                BY <3>1, <4>1, <4>2
        <3>4. UNCHANGED <<nvs, seq, seqNvs, http>>
            BY <2>2, <2>3 DEF Submits, SchedulerFrame, storeVars, seqVars
        <3> QED
            BY <3>3, <3>4, QuietKeepsFinal
    <2>4. CASE EntryShape(e)
        BY <2>2, <2>4, ShapesKeepFinal
    <2> QED
        BY <2>1, <2>3, <2>4
<1> QED
    BY <1>1, <1>2, <1>3 DEF SchedulerTask

\* Making room drops records and touches none that is pending.
LEMMA AllocationKeepsFinal ==
    ASSUME IInv, FinalInv, NEW outcome \in NvsOutcomes,
           AllocateFails(outcome) \/ \E s \in Slots : message_store_allocate(s, outcome),
           UNCHANGED <<seq, seqNvs, entries>>,
           \/ http' = http
           \/ http'.pc = "idle" /\ http.pc # "numbered"
           \/ http.pc = "saved" /\ http'.pc = "allocated" /\ http'.message = http.message
    PROVE  FinalInv' /\ KeepsFinal
<1>0. /\ StoreTypeOK
      /\ RecordsAreNumbered /\ CounterIsSaved /\ MailIsNew /\ EntriesAreStored /\ WrittenIsStored
      /\ CounterIsSaved'
    BY DEF IInv, FinalInv, CounterIsSaved
<1>1. \A t \in Slots : nvs'[t] \in {nvs[t], NoMessage}
    BY <1>0, AllocateMoves
<1>2. \A t \in Slots : IsPendingTx(ram[t]) => nvs'[t] = nvs[t]
    BY <1>0, AllocateFlash
<1>3. KeepsFinal
    BY <1>1, StoreAssumption DEF KeepsFinal
<1>4. RecordsAreNumbered'
    BY <1>0, <1>1, StoreAssumption DEF RecordsAreNumbered, IsNumbered
<1>5. MailIsNew'
    BY <1>0, <1>1, StoreAssumption DEF MailIsNew
<1>6. EntriesAreStored'
    <2>1. \A e \in Slots : Active(e) => IsPendingTx(ram[entries[e].nvs_slot])
                                        /\ entries[e].nvs_slot \in Slots
        BY DEF IInv, Ownership, EntryOwnsSlot, TxTypeOK, Active, Entry
    <2> QED
        BY <1>0, <1>2, <2>1 DEF EntriesAreStored, Active
<1>7. WrittenIsStored'
    <2>1. http'.pc = "written" => http' = http
        OBVIOUS
    <2>2. http.pc = "written" => http.slot \in Slots /\ IsPendingTx(ram[http.slot])
        BY StoreAssumption DEF IInv, MessageInHand, IsPendingTx, state_for_message,
                               FailedStatuses, Ownership, ReservationsHeld
    <2> QED
        BY <1>0, <1>2, <2>1, <2>2 DEF WrittenIsStored
<1> QED
    BY <1>0, <1>3, <1>4, <1>5, <1>6, <1>7 DEF FinalInv

\* Writing into a reserved slot touches no entry's record.
LEMMA WriteKeepsEntries ==
    ASSUME IInv, EntriesAreStored, NEW s \in reserved, UNCHANGED entries,
           \A t \in Slots \ {s} : nvs'[t] = nvs[t]
    PROVE  EntriesAreStored'
<1>1. \A e \in Slots : Active(e) => entries[e].nvs_slot \in Slots \ {s}
    BY DEF IInv, Ownership, EntryOwnsSlot, TxTypeOK, Active, Entry
<1> QED
    BY <1>1 DEF EntriesAreStored, Active

\* queue_message drawing and saving an id.
LEMMA NumberingKeepsFinal ==
    ASSUME CounterWorks, IInv, FinalInv,
           mesh_sequence_save \/ \E d \in Destinations, epoch \in Epochs : QueueMessage(d, epoch)
    PROVE  FinalInv' /\ KeepsFinal
<1>0. /\ TxTypeOK /\ UNCHANGED <<nvs, entries>>
      /\ RecordsAreNumbered /\ CounterIsSaved /\ MailIsNew /\ EntriesAreStored
      /\ seq \in Nat /\ seqNvs \in Nat
    BY TxAssumption DEF IInv, FinalInv, TxTypeOK, mesh_sequence_save, QueueMessage, storeVars, txVars
<1>1. EntriesAreStored'
    BY <1>0 DEF EntriesAreStored, Active
<1>2. ASSUME NEW d \in Destinations, NEW epoch \in Epochs, QueueMessage(d, epoch)
      PROVE  FinalInv'
    <2>1. /\ http'.pc = "numbered" /\ http'.message.source = Me /\ http'.message.id = seq + 1
          /\ seq' = seq + 1 /\ seqNvs' = seqNvs /\ http.pc = "idle"
        BY <1>2 DEF QueueMessage
    <2> QED
        BY <1>0, <1>1, <2>1 DEF FinalInv, RecordsAreNumbered, IsNumbered, CounterIsSaved,
                                MailIsNew, WrittenIsStored
<1>3. CASE mesh_sequence_save
    <2>1. /\ http.pc = "numbered" /\ http'.pc = "saved" /\ http'.message = http.message
          /\ seq' = seq /\ seqNvs' = seq
        BY <1>0, <1>3 DEF mesh_sequence_save, CounterWorks, TxTypeOK
    <2>2. /\ seqNvs < seq
          /\ \A s \in Slots : nvs[s] \in Message => nvs[s].id \in Nat
        <3>1. seqNvs < seq
            BY <1>0, <2>1 DEF CounterIsSaved
        <3>2. \A s \in Slots : nvs[s] \in Message => nvs[s].id \in Nat
            BY StoreAssumption DEF Message
        <3> QED
            BY <3>1, <3>2
    <2>3. RecordsAreNumbered'
        BY <1>0, <2>1, <2>2 DEF RecordsAreNumbered, IsNumbered
    <2>4. MailIsNew'
        BY <1>0, <2>1, <2>2 DEF MailIsNew, RecordsAreNumbered, IsNumbered
    <2>5. CounterIsSaved' /\ WrittenIsStored'
        BY <2>1 DEF CounterIsSaved, WrittenIsStored
    <2> QED
        BY <1>0, <1>1, <2>3, <2>4, <2>5, FinalUnchanged DEF FinalInv
<1> QED
    BY <1>0, <1>2, <1>3, FinalUnchanged

\* queue_message writing its record: no other record has its id.
LEMMA QueueWriteKeepsFinal ==
    ASSUME IInv, FinalInv, QueueWrite
    PROVE  FinalInv' /\ KeepsFinal
<1>0. /\ StoreTypeOK
      /\ RecordsAreNumbered /\ CounterIsSaved /\ MailIsNew /\ EntriesAreStored
      /\ UNCHANGED <<seq, seqNvs, entries>> /\ http.pc = "allocated"
      /\ http.slot \in reserved /\ http.slot \in Slots
      /\ http.message \in Message /\ http.message.direction = "TX"
      /\ seqNvs \in Nat
    BY TxAssumption DEF IInv, FinalInv, QueueWrite, txVars, seqVars, Ownership, ReservationsHeld,
                        MessageInHand, StoreTypeOK, TxTypeOK
<1>1. PICK s \in Slots : s = http.slot
    BY <1>0
<1>2. PICK m : m = http.message
    OBVIOUS
<1>3. PICK outcome \in NvsOutcomes :
          /\ message_store_write(s, m, outcome)
          /\ http' = IF outcome = "ok" THEN [http EXCEPT !.pc = "written"] ELSE HttpIdle
    BY <1>1, <1>2 DEF QueueWrite
<1>4. /\ nvs'[s] \in {nvs[s], m}
      /\ outcome = "ok" => nvs'[s] = m
      /\ \A t \in Slots \ {s} : nvs'[t] = nvs[t]
    BY <1>0, <1>1, <1>3, WriteFlash
<1>5. FlashAt(s, m)
    BY <1>4 DEF FlashAt
<1>6. m.source = Me /\ m.id = seq /\ seq = seqNvs
    BY <1>0, <1>2 DEF MailIsNew, CounterIsSaved
<1>7. nvs[s] \in Message /\ nvs[s].source = Me => nvs[s].id # m.id
    <2>1. nvs[s] \in Message /\ nvs[s].source = Me => nvs[s].id < m.id /\ nvs[s].id \in Nat
        BY <1>0, <1>2, StoreAssumption DEF MailIsNew, Message
    <2> QED
        BY <1>0, <1>6, <2>1
<1>8. KeepsFinal
    BY <1>5, <1>6, <1>7, FinalKept DEF IsFinal
<1>9. RecordsAreNumbered'
    <2>1. IsNumbered(m)'
        BY <1>0, <1>6 DEF IsNumbered
    <2> QED
        BY <1>0, <1>5, <2>1, NumberedKept
<1>10. EntriesAreStored'
    BY <1>0, <1>1, <1>4, WriteKeepsEntries
<1>11. CASE outcome = "ok"
    <2>1. http'.pc = "written" /\ http'.slot = s /\ http'.message = m
        BY <1>0, <1>1, <1>2, <1>3, <1>11 DEF IInv, TxTypeOK
    <2> QED
        BY <1>0, <1>4, <1>6, <1>8, <1>9, <1>10, <1>11, <2>1
           DEF FinalInv, CounterIsSaved, MailIsNew, WrittenIsStored
<1>12. CASE outcome # "ok"
    <2>1. http'.pc = "idle"
        BY <1>3, <1>12 DEF HttpIdle
    <2> QED
        BY <1>0, <1>6, <1>8, <1>9, <1>10, <2>1 DEF FinalInv, CounterIsSaved, MailIsNew, WrittenIsStored
<1> QED
    BY <1>11, <1>12

\* tx_scheduler_submit gives the message to a free entry, or records FAILED.
SubmitsMail(e) ==
    /\ e \in FreeEntries
    /\ entries'[e] \in Entry
    /\ entries'[e].message = [http.message EXCEPT !.status = "QUEUED"]
    /\ entries'[e].nvs_slot = http.slot
    /\ \A f \in Slots \ {e} : entries'[f] = entries[f]

\* tx_scheduler_submit records QUEUED and enters the message, or records FAILED and enters nothing.
LEMMA SubmitShape ==
    ASSUME IInv, tx_scheduler_submit
    PROVE  \E outcome \in NvsOutcomes, status \in {"QUEUED", "FAILED"} :
              /\ message_store_update(http.slot, [http.message EXCEPT !.status = status], outcome)
              /\ status = "QUEUED" => \E e \in Slots : SubmitsMail(e)
              /\ status = "FAILED" => entries' = entries
<1>0. /\ entries \in [Slots -> Entry \cup {NoEntry}]
      /\ http.slot \in Slots /\ http.message \in Message
      /\ next_generation \in Nat
    BY DEF IInv, TxTypeOK, tx_scheduler_submit, Ownership, ReservationsHeld, MessageInHand
<1>1. CASE FreeEntries = {}
    <2>1. PICK outcome \in NvsOutcomes :
              message_store_update(http.slot, [http.message EXCEPT !.status = "FAILED"], outcome)
        BY <1>1 DEF tx_scheduler_submit
    <2>2. entries' = entries
        BY <1>1 DEF tx_scheduler_submit, txVars
    <2> QED
        BY <2>1, <2>2
<1>2. CASE FreeEntries # {}
    <2>1. PICK e : e = Min(FreeEntries)
        OBVIOUS
    <2>2. e \in FreeEntries /\ e \in Slots
        BY <1>2, <2>1, MinOfSlots DEF FreeEntries
    <2>3. PICK outcome \in NvsOutcomes :
              set_status(e, NewEntry(http.message, http.slot, next_generation + 1),
                         "QUEUED", outcome)
        BY <1>2, <2>1 DEF tx_scheduler_submit
    <2>4. PICK m : m = [http.message EXCEPT !.status = "QUEUED"]
        OBVIOUS
    <2>5. m \in Message
        BY <1>0, <2>4 DEF Message, Statuses
    <2>6. /\ message_store_update(http.slot, m, outcome)
          /\ entries'[e] = [message |-> m, nvs_slot |-> http.slot, state |-> "QUEUED",
                            attempts |-> 0, radio_request_id |-> NoRequest,
                            generation |-> next_generation + 1]
          /\ \A f \in Slots \ {e} : entries'[f] = entries[f]
        BY <1>0, <2>2, <2>3, <2>4 DEF set_status, NewEntry
    <2>7. entries'[e] \in Entry /\ entries'[e].message = m /\ entries'[e].nvs_slot = http.slot
        BY <1>0, <2>5, <2>6, TxAssumption DEF Entry, TxStates
    <2> QED
        BY <2>2, <2>4, <2>6, <2>7 DEF SubmitsMail
<1> QED
    BY <1>1, <1>2

\* tx_scheduler_submit: the record that is replaced is the pending one just written.
LEMMA SubmitKeepsFinal ==
    ASSUME IInv, FinalInv, tx_scheduler_submit
    PROVE  FinalInv' /\ KeepsFinal
<1>0. /\ StoreTypeOK /\ entries \in [Slots -> Entry \cup {NoEntry}]
      /\ RecordsAreNumbered /\ CounterIsSaved /\ MailIsNew /\ EntriesAreStored /\ WrittenIsStored
      /\ UNCHANGED <<seq, seqNvs>> /\ http.pc = "written" /\ http'.pc = "idle"
      /\ http.slot \in Slots /\ ram[http.slot] = http.message
      /\ http.message \in Message /\ http.message.direction = "TX"
      /\ http.message.status = "PENDING" /\ http.message # NoMessage
      /\ \A f \in Slots : Active(f) => entries[f].nvs_slot # http.slot
      /\ seqNvs \in Nat
    BY TxAssumption, StoreAssumption
       DEF IInv, FinalInv, tx_scheduler_submit, seqVars, Ownership, ReservationsHeld,
           MessageInHand, TxTypeOK, EntryOwnsSlot, HttpIdle
<1>1. PICK s \in Slots : s = http.slot
    BY <1>0
<1>2. PICK outcome \in NvsOutcomes, status \in {"QUEUED", "FAILED"} :
          /\ message_store_update(s, [http.message EXCEPT !.status = status], outcome)
          /\ status = "QUEUED" => \E e \in Slots : SubmitsMail(e)
          /\ status = "FAILED" => entries' = entries
    BY <1>1, SubmitShape
<1>3. PICK m : m = [http.message EXCEPT !.status = status]
    OBVIOUS
<1>4. /\ m \in Message /\ m.direction = "TX" /\ m.source = http.message.source
      /\ m.id = http.message.id /\ m.status = status
    BY <1>0, <1>3 DEF Message, Statuses, FailedStatuses
<1>5. nvs'[s] \in {nvs[s], m} /\ \A t \in Slots \ {s} : nvs'[t] = nvs[t]
    BY <1>0, <1>1, <1>2, <1>3, UpdateFlash
<1>6. FlashAt(s, m)
    BY <1>5 DEF FlashAt
<1>7. m.source = Me /\ m.id <= seqNvs /\ nvs[s] = http.message /\ http.message.source = Me
    BY <1>0, <1>1, <1>4 DEF MailIsNew, CounterIsSaved, WrittenIsStored
<1>8. KeepsFinal
    <2>1. ~IsFinal(nvs[s])
        BY <1>0, <1>7 DEF IsFinal, state_for_message, FailedStatuses
    <2> QED
        BY <1>6, <2>1, FinalKept
<1>9. RecordsAreNumbered'
    <2>1. IsNumbered(m)'
        BY <1>0, <1>7 DEF IsNumbered
    <2> QED
        BY <1>0, <1>6, <2>1, NumberedKept
<1>10. CounterIsSaved' /\ MailIsNew' /\ WrittenIsStored'
    BY <1>0 DEF CounterIsSaved, MailIsNew, WrittenIsStored
<1>11. EntriesAreStored'
    <2> SUFFICES ASSUME NEW f \in Slots, Active(f)'
                 PROVE  /\ entries'[f].message.source = Me
                        /\ nvs'[entries'[f].nvs_slot] \in Message
                        /\ nvs'[entries'[f].nvs_slot].id = entries'[f].message.id
                        /\ IsPendingTx(nvs'[entries'[f].nvs_slot])
        BY DEF EntriesAreStored, IsPendingTx, state_for_message
    <2>1. CASE Active(f) /\ entries'[f] = entries[f]
        <3>1. entries[f].nvs_slot \in Slots \ {s}
            BY <1>0, <1>1, <2>1 DEF Active, Entry
        <3> QED
            BY <1>0, <1>5, <2>1, <3>1 DEF EntriesAreStored
    <2>2. CASE status = "QUEUED" /\ SubmitsMail(f)
        <3>1. entries'[f].message = m /\ entries'[f].nvs_slot = s
            BY <1>1, <1>3, <2>2 DEF SubmitsMail
        <3>2. IsPendingTx(m) /\ IsPendingTx(http.message)
            BY <1>0, <1>4, <2>2, StoreAssumption DEF IsPendingTx, state_for_message, FailedStatuses
        <3> QED
            BY <1>0, <1>4, <1>5, <1>7, <3>1, <3>2
    <2> QED
        BY <1>2, <2>1, <2>2 DEF SubmitsMail, Active
<1> QED
    BY <1>8, <1>9, <1>10, <1>11 DEF FinalInv

\* A received message is never one of this node's own.
LEMMA RxKeepsFinal ==
    ASSUME IInv, FinalInv, RxTask
    PROVE  FinalInv' /\ KeepsFinal
<1>1. ASSUME NEW id \in Ids, NEW source \in Nodes, tx_scheduler_acknowledge(id, source)
      PROVE  FinalInv' /\ KeepsFinal
    <2>1. \E e \in Slots : EntryShape(e)
        BY <1>1, AcknowledgeShape DEF EntryShape, FinalStatuses
    <2> QED
        BY <1>1, <2>1, AcknowledgeShape, ShapesKeepFinal
<1>2. CASE RxAllocate
    <2>1. UNCHANGED <<seq, seqNvs, entries, http>>
        BY <1>2 DEF RxAllocate, txVars, seqVars
    <2>2. \E outcome \in NvsOutcomes :
              AllocateFails(outcome) \/ \E s \in Slots : message_store_allocate(s, outcome)
        BY <1>2 DEF RxAllocate
    <2> QED
        BY <2>1, <2>2, AllocationKeepsFinal
<1>3. ASSUME NEW id \in RxIds, NEW source \in Nodes \ {Me}, NEW epoch \in Epochs,
             RxWrite(id, source, epoch)
      PROVE  FinalInv' /\ KeepsFinal
    <2>0. /\ StoreTypeOK /\ rx \in reserved /\ rx \in Slots /\ ram[rx] = NoMessage
          /\ RecordsAreNumbered /\ CounterIsSaved /\ MailIsNew /\ EntriesAreStored
          /\ WrittenIsStored
          /\ UNCHANGED <<seq, seqNvs, entries, http>>
        BY <1>3 DEF IInv, FinalInv, RxWrite, txVars, seqVars, Ownership, ReservationsHeld,
                    StoreTypeOK
    <2>1. PICK s \in Slots : s = rx
        BY <2>0
    <2>2. PICK m : m = [id |-> id, direction |-> "RX", source |-> source, destination |-> Me,
                        status |-> "RECEIVED", stored_epoch |-> epoch]
        OBVIOUS
    <2>3. m.source # Me /\ m.direction = "RX"
        BY <2>2
    <2>4. PICK outcome \in NvsOutcomes : message_store_write(s, m, outcome)
        BY <1>3, <2>1, <2>2 DEF RxWrite
    <2>5. nvs'[s] \in {nvs[s], m} /\ \A t \in Slots \ {s} : nvs'[t] = nvs[t]
        BY <2>0, <2>1, <2>4, WriteFlash
    <2>6. FlashAt(s, m)
        BY <2>5 DEF FlashAt
    <2>7. KeepsFinal
        <3>1. IsFinal(nvs[s]) => nvs[s].source = Me
            BY <2>0 DEF IsFinal, RecordsAreNumbered, IsNumbered
        <3> QED
            BY <2>3, <2>6, <3>1, FinalKept
    <2>8. RecordsAreNumbered'
        <3>1. IsNumbered(m)'
            BY <2>3 DEF IsNumbered
        <3> QED
            BY <2>0, <2>6, <3>1, NumberedKept
    <2>9. EntriesAreStored'
        BY <2>0, <2>1, <2>5, WriteKeepsEntries
    <2>10. CounterIsSaved' /\ MailIsNew'
        BY <2>0, <2>3, <2>5 DEF CounterIsSaved, MailIsNew
    <2>11. WrittenIsStored'
        <3>1. http.pc = "written" => http.slot \in Slots \ {s}
            BY <2>0, <2>1, StoreAssumption DEF IInv, Ownership, ReservationsHeld, MessageInHand
        <3> QED
            BY <2>0, <2>5, <3>1 DEF WrittenIsStored
    <2> QED
        BY <2>7, <2>8, <2>9, <2>10, <2>11 DEF FinalInv
<1> QED
    BY <1>1, <1>2, <1>3 DEF RxTask

\* A boot takes up the pending records, and no other.
LEMMA RebootKeepsFinal ==
    ASSUME CounterWorks, IInv, FinalInv, Reboot
    PROVE  FinalInv' /\ KeepsFinal
<1>0. /\ StoreTypeOK /\ RecordsAreNumbered
      /\ http'.pc = "idle" /\ seqNvs' = seqNvs /\ seq' = seqNvs
    BY DEF IInv, FinalInv, Reboot, HttpIdle, CounterWorks
<1>1. nvs' = nvs /\ \A s \in Slots : ram'[s] \in {nvs[s], NoMessage}
    BY <1>0, RebootShape
<1>2. StoreTypeOK'
    BY RebootStep DEF IInv
<1>3. EntriesAreStored'
    <2> SUFFICES ASSUME NEW e \in Slots, Active(e)'
                 PROVE  /\ entries'[e].message.source = Me
                        /\ nvs'[entries'[e].nvs_slot] \in Message
                        /\ nvs'[entries'[e].nvs_slot].id = entries'[e].message.id
                        /\ IsPendingTx(nvs'[entries'[e].nvs_slot])
        BY DEF EntriesAreStored, IsPendingTx, state_for_message
    <2>1. PICK s \in Slots : /\ IsPendingTx(ram'[s])
                             /\ \E g : entries'[e] = NewEntry(ram'[s], s, g)
        BY <1>0, RebootShape
    <2>2. entries'[e].message = ram'[s] /\ entries'[e].nvs_slot = s
        BY <2>1 DEF NewEntry
    <2>3. ram'[s] = nvs[s] /\ nvs[s] \in Message /\ nvs[s].direction = "TX"
        BY <1>1, <1>2, <2>1 DEF IsPendingTx, StoreTypeOK
    <2>4. nvs[s].source = Me
        BY <1>0, <2>3 DEF RecordsAreNumbered, IsNumbered
    <2> QED
        BY <1>1, <2>1, <2>2, <2>3, <2>4
<1>4. RecordsAreNumbered' /\ CounterIsSaved' /\ MailIsNew' /\ WrittenIsStored'
    BY <1>0, <1>1 DEF RecordsAreNumbered, IsNumbered, CounterIsSaved, MailIsNew, WrittenIsStored
<1> QED
    BY <1>1, <1>3, <1>4, FinalUnchanged DEF FinalInv

\* The packet counter starts at zero, and nothing is stored.
LEMMA InitFinal == Init => FinalInv
BY StoreAssumption DEF Init, FinalInv, RecordsAreNumbered, IsNumbered, CounterIsSaved, MailIsNew,
   EntriesAreStored, WrittenIsStored, Active, HttpIdle

\* Every step keeps final statuses, and the invariant that says why.
LEMMA NextFinal ==
    ASSUME CounterWorks, IInv, FinalInv, [Next]_vars
    PROVE  FinalInv' /\ KeepsFinal
<1>1. CASE QueueAllocate
    <2>1. /\ UNCHANGED <<seq, seqNvs, entries>> /\ http.pc = "saved"
          /\ \E outcome \in NvsOutcomes :
                AllocateFails(outcome) \/ \E s \in Slots : message_store_allocate(s, outcome)
        BY <1>1 DEF QueueAllocate, txVars, seqVars
    <2>2. \/ http'.pc = "idle"
          \/ http'.pc = "allocated" /\ http'.message = http.message
        <3>1. \/ http' = HttpIdle
              \/ \E s \in Slots : http' = [http EXCEPT !.pc = "allocated", !.slot = s]
            BY <1>1 DEF QueueAllocate
        <3>2. http \in [pc : {"idle", "numbered", "saved", "allocated", "written"},
                        message : Message \cup {NoMessage}, slot : Slots \cup {NoSlot}]
            BY DEF IInv, TxTypeOK
        <3>3. CASE http' = HttpIdle
            BY <3>3 DEF HttpIdle
        <3>4. ASSUME NEW s \in Slots, http' = [http EXCEPT !.pc = "allocated", !.slot = s]
              PROVE  http'.pc = "allocated" /\ http'.message = http.message
            BY <3>2, <3>4
        <3> QED
            BY <3>1, <3>3, <3>4
    <2> QED
        BY <2>1, <2>2, AllocationKeepsFinal
<1>2. CASE HttpTask
    BY <1>1, <1>2, NumberingKeepsFinal, QueueWriteKeepsFinal, SubmitKeepsFinal DEF HttpTask
<1>3. CASE RadioTask \/ (\E e \in Slots : TimePasses(e)) \/ UNCHANGED vars
    <2>1. UNCHANGED <<nvs, seq, seqNvs, http, entries>>
        BY <1>3 DEF RadioTask, Transmit, TimePasses, vars, storeVars, txVars, seqVars
    <2> QED
        BY <2>1, QuietKeepsFinal DEF Active
<1> QED
    BY <1>2, <1>3, SchedulerKeepsFinal, RxKeepsFinal, RebootKeepsFinal DEF Next

\* A final status in flash is never replaced by another one for the same
\* message, by no task, no late result, no failing flash access and no boot,
\* as long as the packet counter itself is saved.
THEOREM FinalIsFinal ==
    ASSUME CounterOutcomes = {"ok"}
    PROVE  Spec => FinalStatusIsFinal
<1>0. CounterWorks
    BY DEF CounterWorks
<1>1. Init => FinalInv
    BY InitFinal
<1>2. IInv /\ FinalInv /\ [Next]_vars => FinalInv'
    BY <1>0, NextFinal
<1>3. IInv /\ FinalInv /\ [Next]_vars => [KeepsFinal]_vars
    BY <1>0, NextFinal
<1>4. Spec => [][KeepsFinal]_vars
    BY <1>1, <1>2, <1>3, Inductive, PTL DEF Spec
<1> QED
    BY <1>4 DEF FinalStatusIsFinal, KeepsFinal

-----------------------------------------------------------------------------
(* On a flash that works every pending message is being worked on.         *)

FlashWorks == NvsOutcomes = {"ok"}

\* message_store_update of a slot in use, message_store_write of a reserved
\* one and an eviction, when the flash works.
LEMMA OkUpdate ==
    ASSUME FlashWorks, StoreTypeOK, NEW s \in Slots, ram[s] # NoMessage, NEW m,
           NEW outcome \in NvsOutcomes, message_store_update(s, m, outcome)
    PROVE  ram' = [ram EXCEPT ![s] = m] /\ nvs' = [nvs EXCEPT ![s] = m]
BY DEF FlashWorks, message_store_update, write_record_locked

\* A write to a reserved slot, when the flash works.
LEMMA OkWrite ==
    ASSUME FlashWorks, NEW s \in reserved, NEW m,
           NEW outcome \in NvsOutcomes, message_store_write(s, m, outcome)
    PROVE  /\ ram' = [ram EXCEPT ![s] = m] /\ nvs' = [nvs EXCEPT ![s] = m]
           /\ outcome = "ok"
BY DEF FlashWorks, message_store_write, write_record_locked

\* An allocation, when the flash works: nothing is lost, or one finished record.
LEMMA OkAllocate ==
    ASSUME FlashWorks, StoreTypeOK, NEW outcome \in NvsOutcomes,
           AllocateFails(outcome) \/ \E s \in Slots : message_store_allocate(s, outcome)
    PROVE  \/ ram' = ram /\ nvs' = nvs
           \/ \E s \in Slots : /\ ram' = [ram EXCEPT ![s] = NoMessage]
                               /\ nvs' = [nvs EXCEPT ![s] = NoMessage]
                               /\ ram[s] # NoMessage /\ ~IsPendingTx(ram[s])
<1>1. CASE AllocateFails(outcome)
    BY <1>1 DEF AllocateFails, FlashWorks
<1>2. ASSUME NEW s \in Slots, message_store_allocate(s, outcome), FreeSlots = {}
      PROVE  /\ ram' = [ram EXCEPT ![s] = NoMessage]
             /\ nvs' = [nvs EXCEPT ![s] = NoMessage]
             /\ ram[s] # NoMessage /\ ~IsPendingTx(ram[s])
    <2>1. /\ Evictable # {} /\ s = OldestSlot
          /\ ram' = [ram EXCEPT ![s] = NoMessage] /\ nvs' = [nvs EXCEPT ![s] = NoMessage]
        BY <1>2 DEF message_store_allocate, delete_record_locked
    <2>2. s \in Evictable
        BY <2>1, OldestIsEvictable
    <2> QED
        BY <2>1, <2>2 DEF Evictable, IsPendingTx
<1>3. ASSUME NEW s \in Slots, message_store_allocate(s, outcome), FreeSlots # {}
      PROVE  ram' = ram /\ nvs' = nvs
    BY <1>3 DEF message_store_allocate
<1> QED
    BY <1>1, <1>2, <1>3

\* What the entries and queue_message are working on.
Scheduled(s) ==
    \/ \E e \in Slots : Active(e) /\ entries[e].nvs_slot = s
    \/ http.pc = "written" /\ http.slot = s

\* A final status is not pending; the statuses on the way are.
LEMMA StatusTells ==
    ASSUME NEW m \in Message, m.direction = "TX"
    PROVE  /\ m.status \in FinalStatuses => ~IsPendingTx(m)
           /\ m.status \in {"PENDING", "QUEUED", "SENT"} => IsPendingTx(m)
BY StoreAssumption DEF FinalStatuses, IsPendingTx, state_for_message, FailedStatuses

\* Pending records stay scheduled under the scheduler's own steps.
LEMMA ShapesSchedule ==
    ASSUME FlashWorks, IInv, PendingIsScheduled, NEW e \in Slots, EntryShape(e), UNCHANGED http
    PROVE  PendingIsScheduled'
<1>0. /\ StoreTypeOK /\ entries \in [Slots -> Entry \cup {NoEntry}]
      /\ ram \in [Slots -> Message \cup {NoMessage}]
    BY DEF IInv, TxTypeOK, StoreTypeOK
<1>1. SUFFICES ASSUME NEW s \in Slots, IsPendingTx(ram[s])', ~Scheduled(s)'
               PROVE  FALSE
    BY DEF PendingIsScheduled, Scheduled
<1>2. ~(http.pc = "written" /\ http.slot = s)
    BY <1>1 DEF Scheduled
<1>3. CASE Delays(e)
    <2>1. ram' = ram
        BY <1>3 DEF Delays, Wait, storeVars
    <2>2. \A f \in Slots : Active(f) => Active(f)' /\ entries'[f].nvs_slot = entries[f].nvs_slot
        <3>1. CASE UNCHANGED entries
            BY <3>1 DEF Active
        <3>2. ASSUME Active(e), NEW state \in TxStates, Wait(e, state)
              PROVE  \A f \in Slots : Active(f) =>
                        Active(f)' /\ entries'[f].nvs_slot = entries[f].nvs_slot
            <4>1. entries[e] \in Entry
                BY <1>0, <3>2 DEF Active
            <4>2. /\ entries'[e] = [entries[e] EXCEPT !.state = state]
                  /\ \A f \in Slots \ {e} : entries'[f] = entries[f]
                BY <1>0, <3>2 DEF Wait
            <4>3. entries'[e] \in Entry /\ entries'[e].nvs_slot = entries[e].nvs_slot
                BY <4>1, <4>2 DEF Entry
            <4> QED
                BY <4>2, <4>3, TxAssumption DEF Active
        <3> QED
            BY <1>3, <3>1, <3>2 DEF Delays
    <2>3. IsPendingTx(ram[s])
        BY <1>1, <2>1 DEF IsPendingTx, state_for_message
    <2> QED
        BY <1>1, <1>2, <2>2, <2>3 DEF PendingIsScheduled, Scheduled
<1>4. CASE Reports(e)
    <2>1. Active(e) /\ entries[e] \in Entry
        BY <1>0, <1>4 DEF Reports, Active
    <2>2. PICK outcome \in NvsOutcomes :
              set_status(e, [entries[e] EXCEPT !.state = "WAITING_ACK"], "SENT", outcome)
        BY <1>4 DEF Reports
    <2>3. PICK m : m = [entries[e].message EXCEPT !.status = "SENT"]
        OBVIOUS
    <2>4. m \in Message /\ entries[e].nvs_slot \in Slots
        BY <2>1, <2>3 DEF Entry, Message, Statuses
    <2>5. /\ entries'[e] = [[entries[e] EXCEPT !.state = "WAITING_ACK"] EXCEPT !.message = m]
          /\ \A f \in Slots \ {e} : entries'[f] = entries[f]
          /\ message_store_update(entries[e].nvs_slot, m, outcome)
        BY <1>0, <2>1, <2>2, <2>3 DEF set_status, Entry
    <2>6. entries'[e] \in Entry /\ entries'[e].nvs_slot = entries[e].nvs_slot
        BY <2>1, <2>4, <2>5 DEF Entry, TxStates
    <2>7. Active(e)'
        BY <2>6, TxAssumption DEF Active
    <2>8. s # entries[e].nvs_slot
        BY <1>1, <2>6, <2>7 DEF Scheduled
    <2>9. ram[entries[e].nvs_slot] # NoMessage
        BY <2>1 DEF IInv, Ownership, EntryOwnsSlot, IsPendingTx
    <2>10. ram'[s] = ram[s]
        BY <1>0, <2>4, <2>5, <2>8, <2>9, OkUpdate
    <2>11. IsPendingTx(ram[s])
        BY <1>1, <2>10 DEF IsPendingTx, state_for_message
    <2> QED
        BY <1>1, <1>2, <2>5, <2>6, <2>7, <2>8, <2>11 DEF PendingIsScheduled, Scheduled, Active
<1>5. ASSUME NEW status \in FinalStatuses, Ends(e, status)
      PROVE  FALSE
    <2>1. Active(e) /\ entries[e] \in Entry
        BY <1>0, <1>5 DEF Ends, Active
    <2>2. PICK m : m = [entries[e].message EXCEPT !.status = status]
        OBVIOUS
    <2>3. m \in Message /\ m.direction = "TX" /\ m.status = status /\ entries[e].nvs_slot \in Slots
        BY <2>1, <2>2 DEF Entry, Message, Statuses, FinalStatuses, IInv, Ownership,
                          EntriesPending, IsPendingTx
    <2>4. ram[entries[e].nvs_slot] # NoMessage
        BY <2>1 DEF IInv, Ownership, EntryOwnsSlot, IsPendingTx
    <2>5. ram' = [ram EXCEPT ![entries[e].nvs_slot] = m]
        BY <1>0, <1>5, <2>2, <2>3, <2>4, OkUpdate DEF Ends, Finish
    <2>6. ~IsPendingTx(m)
        BY <2>3, StatusTells
    <2>7. s # entries[e].nvs_slot
        BY <1>0, <1>1, <2>3, <2>5, <2>6 DEF IsPendingTx, state_for_message
    <2>8. IsPendingTx(ram[s])
        BY <1>0, <1>1, <2>3, <2>5, <2>7 DEF IsPendingTx, state_for_message
    <2>9. \A f \in Slots \ {e} : entries'[f] = entries[f]
        BY <1>0, <1>5 DEF Ends, Finish
    <2> QED
        BY <1>1, <1>2, <2>7, <2>8, <2>9 DEF PendingIsScheduled, Scheduled, Active
<1> QED
    BY <1>3, <1>4, <1>5 DEF EntryShape

\* Steps that change neither the records nor the entries' slots.
LEMMA QuietSchedules ==
    ASSUME PendingIsScheduled, ram' = ram,
           \A f \in Slots : Active(f) => Active(f)' /\ entries'[f].nvs_slot = entries[f].nvs_slot,
           http.pc = "written" => http' = http
    PROVE  PendingIsScheduled'
BY DEF PendingIsScheduled, IsPendingTx, state_for_message

\* Every step of the scheduler task.
LEMMA SchedulerSchedules ==
    ASSUME FlashWorks, IInv, PendingIsScheduled, SchedulerTask
    PROVE  PendingIsScheduled'
<1>1. CASE DrainResult \/ Scan \/ SubmitReturns
    BY <1>1, DrainShape, ScanShape, ReturnShape, ShapesSchedule DEF SchedulerFrame
<1>2. CASE DrainDone \/ lora_tx_submit
    <2>1. UNCHANGED <<ram, http, entries>>
        BY <1>2 DEF DrainDone, lora_tx_submit, storeVars, txVars
    <2> QED
        BY <2>1, QuietSchedules DEF Active
<1>3. CASE SendCurrentPacket
    <2>1. PICK e \in Slots : Submits(e) \/ EntryShape(e)
        BY <1>3, SendShape
    <2>2. http' = http
        BY <1>3, SendShape DEF SchedulerFrame
    <2>3. CASE Submits(e)
        <3>1. Active(e) /\ entries[e] \in Entry /\ entries \in [Slots -> Entry \cup {NoEntry}]
            BY <2>3 DEF Submits, IInv, TxTypeOK, Active
        <3>2. /\ entries'[e] = [entries[e] EXCEPT !.state = "SUBMITTING", !.attempts = @ + 1,
                                                  !.radio_request_id = FreshRequestId]
              /\ \A f \in Slots \ {e} : entries'[f] = entries[f]
              /\ sched'.i = e /\ sched'.pc = "submit"
            BY <2>3, <3>1 DEF Submits, IInv, TxTypeOK
        <3>3. Active(e)' /\ entries'[e].nvs_slot = entries[e].nvs_slot
            <4>1. SubmissionInHand'
                BY <1>3, SendStep DEF IInv
            <4> QED
                BY <3>1, <3>2, <4>1 DEF Entry, SubmissionInHand, Active
        <3>4. ram' = ram
            BY <2>3 DEF Submits, storeVars
        <3> QED
            BY <2>2, <3>2, <3>3, <3>4, QuietSchedules DEF Active
    <2>4. CASE EntryShape(e)
        BY <2>2, <2>4, ShapesSchedule
    <2> QED
        BY <2>1, <2>3, <2>4
<1> QED
    BY <1>1, <1>2, <1>3 DEF SchedulerTask

\* Making room takes no pending record.
LEMMA AllocationSchedules ==
    ASSUME FlashWorks, IInv, PendingIsScheduled, NEW outcome \in NvsOutcomes,
           AllocateFails(outcome) \/ \E s \in Slots : message_store_allocate(s, outcome),
           UNCHANGED entries, http.pc = "written" => http' = http
    PROVE  PendingIsScheduled'
<1>0. StoreTypeOK /\ ram \in [Slots -> Message \cup {NoMessage}]
    BY DEF IInv, StoreTypeOK
<1>1. \A t \in Slots : ram'[t] \in {ram[t], NoMessage}
    BY <1>0, OkAllocate
<1>2. SUFFICES ASSUME NEW t \in Slots, IsPendingTx(ram[t])'
               PROVE  \/ \E e \in Slots : Active(e) /\ entries[e].nvs_slot = t
                      \/ http.pc = "written" /\ http.slot = t
    BY DEF PendingIsScheduled, Active
<1>3. ram'[t] = ram[t]
    BY <1>1, <1>2 DEF IsPendingTx
<1> QED
    BY <1>2, <1>3 DEF PendingIsScheduled, IsPendingTx, state_for_message

\* Every step of queue_message.
LEMMA HttpSchedules ==
    ASSUME FlashWorks, IInv, PendingIsScheduled, HttpTask
    PROVE  PendingIsScheduled'
<1>0. /\ StoreTypeOK /\ ram \in [Slots -> Message \cup {NoMessage}]
      /\ entries \in [Slots -> Entry \cup {NoEntry}]
    BY DEF IInv, StoreTypeOK, TxTypeOK
<1>1. CASE mesh_sequence_save \/ \E d \in Destinations, epoch \in Epochs : QueueMessage(d, epoch)
    <2>1. UNCHANGED <<ram, entries>> /\ http.pc # "written"
        BY <1>1 DEF mesh_sequence_save, QueueMessage, storeVars, txVars
    <2> QED
        BY <2>1, QuietSchedules DEF Active
<1>2. CASE QueueAllocate
    <2>1. /\ UNCHANGED entries /\ http.pc = "saved"
          /\ \E outcome \in NvsOutcomes :
                AllocateFails(outcome) \/ \E s \in Slots : message_store_allocate(s, outcome)
        BY <1>2 DEF QueueAllocate, txVars
    <2> QED
        BY <2>1, AllocationSchedules
<1>3. CASE QueueWrite
    <2>1. /\ http.pc = "allocated" /\ http.slot \in reserved /\ UNCHANGED entries
        BY <1>3 DEF QueueWrite, IInv, Ownership, ReservationsHeld, txVars
    <2>2. PICK outcome \in NvsOutcomes :
              /\ message_store_write(http.slot, http.message, outcome)
              /\ http' = IF outcome = "ok" THEN [http EXCEPT !.pc = "written"] ELSE HttpIdle
        BY <1>3 DEF QueueWrite
    <2>3. ram' = [ram EXCEPT ![http.slot] = http.message] /\ outcome = "ok"
        BY <2>1, <2>2, OkWrite
    <2>4. http'.pc = "written" /\ http'.slot = http.slot
        BY <2>1, <2>2, <2>3 DEF IInv, TxTypeOK
    <2>5. \A t \in Slots : t # http.slot => ram'[t] = ram[t]
        BY <1>0, <2>3
    <2> QED
        BY <2>1, <2>4, <2>5 DEF PendingIsScheduled, Active, IsPendingTx, state_for_message
<1>4. CASE tx_scheduler_submit
    <2>1. /\ http.pc = "written" /\ http.slot \in Slots /\ ram[http.slot] # NoMessage
          /\ http.message \in Message /\ http.message.direction = "TX"
        BY <1>4, StoreAssumption DEF tx_scheduler_submit, IInv, Ownership, ReservationsHeld,
                                     MessageInHand
    <2>2. PICK outcome \in NvsOutcomes, status \in {"QUEUED", "FAILED"} :
              /\ message_store_update(http.slot, [http.message EXCEPT !.status = status], outcome)
              /\ status = "QUEUED" => \E e \in Slots : SubmitsMail(e)
              /\ status = "FAILED" => entries' = entries
        BY <1>4, SubmitShape
    <2>3. PICK m : m = [http.message EXCEPT !.status = status]
        OBVIOUS
    <2>4. m \in Message /\ m.direction = "TX" /\ m.status = status
        BY <2>1, <2>3 DEF Message, Statuses, FailedStatuses
    <2>5. ram' = [ram EXCEPT ![http.slot] = m]
        BY <1>0, <2>1, <2>2, <2>3, OkUpdate
    <2>6. \A t \in Slots : t # http.slot => ram'[t] = ram[t]
        BY <1>0, <2>5
    <2>7. ram'[http.slot] = m
        BY <1>0, <2>1, <2>5
    <2>8. \A f \in Slots : Active(f) => Active(f)' /\ entries'[f] = entries[f]
        BY <2>2 DEF SubmitsMail, FreeEntries, Active
    <2>9. status = "QUEUED" => \E e \in Slots : Active(e)' /\ entries'[e].nvs_slot = http.slot
        BY <2>2, TxAssumption DEF SubmitsMail, Active
    <2>10. status = "FAILED" => ~IsPendingTx(m)
        BY <2>4, StatusTells DEF FinalStatuses, FailedStatuses
    <2> SUFFICES ASSUME NEW t \in Slots, IsPendingTx(ram'[t])
                 PROVE  \E e \in Slots : Active(e)' /\ entries'[e].nvs_slot = t
        BY DEF PendingIsScheduled, IsPendingTx, state_for_message
    <2>11. CASE t = http.slot
        BY <2>7, <2>9, <2>10, <2>11
    <2>12. CASE t # http.slot
        BY <2>6, <2>8, <2>12 DEF PendingIsScheduled
    <2> QED
        BY <2>11, <2>12
<1> QED
    BY <1>1, <1>2, <1>3, <1>4 DEF HttpTask

\* Every step of the receive task.
LEMMA RxSchedules ==
    ASSUME FlashWorks, IInv, PendingIsScheduled, RxTask
    PROVE  PendingIsScheduled'
<1>0. /\ StoreTypeOK /\ ram \in [Slots -> Message \cup {NoMessage}]
    BY DEF IInv, StoreTypeOK
<1>1. ASSUME NEW id \in Ids, NEW source \in Nodes, tx_scheduler_acknowledge(id, source)
      PROVE  PendingIsScheduled'
    <2>1. \E e \in Slots : EntryShape(e)
        BY <1>1, AcknowledgeShape DEF EntryShape, FinalStatuses
    <2> QED
        BY <1>1, <2>1, AcknowledgeShape, ShapesSchedule DEF SchedulerFrame
<1>2. CASE RxAllocate
    <2>1. /\ UNCHANGED <<entries, http>>
          /\ \E outcome \in NvsOutcomes :
                AllocateFails(outcome) \/ \E s \in Slots : message_store_allocate(s, outcome)
        BY <1>2 DEF RxAllocate, txVars
    <2> QED
        BY <2>1, AllocationSchedules
<1>3. ASSUME NEW id \in RxIds, NEW source \in Nodes \ {Me}, NEW epoch \in Epochs,
             RxWrite(id, source, epoch)
      PROVE  PendingIsScheduled'
    <2>1. rx \in reserved /\ UNCHANGED <<entries, http>>
        BY <1>3 DEF RxWrite, IInv, Ownership, ReservationsHeld, txVars
    <2>2. PICK m : m = [id |-> id, direction |-> "RX", source |-> source, destination |-> Me,
                        status |-> "RECEIVED", stored_epoch |-> epoch]
        OBVIOUS
    <2>3. ram' = [ram EXCEPT ![rx] = m]
        BY <1>3, <2>1, <2>2, OkWrite DEF RxWrite
    <2>4. ~IsPendingTx(m)
        BY <2>2 DEF IsPendingTx
    <2>5. \A t \in Slots : IsPendingTx(ram'[t]) => IsPendingTx(ram[t])
        BY <1>0, <2>3, <2>4
    <2> QED
        BY <2>1, <2>5 DEF PendingIsScheduled, Active, IsPendingTx, state_for_message
<1> QED
    BY <1>1, <1>2, <1>3 DEF RxTask

\* The pending slots are numbered from zero on, each with its own number: a
\* boot finds an entry for every one of them.
LEMMA RankIsEntry ==
    ASSUME NEW P \in SUBSET Slots, NEW s \in P
    PROVE  Rank(P, s) \in Slots
<1> DEFINE below == {t \in P : t < s}
<1>1. Slots \in SUBSET Nat /\ MAX_MESSAGES \in Nat
    BY StoreAssumption DEF Slots
<1>2. below \in SUBSET (Slots \ {s})
    <2>1. \A t \in below : t \in Slots /\ t \in Nat /\ s \in Nat /\ t < s
        BY <1>1
    <2>2. \A t \in below : t # s
        BY <2>1
    <2> QED
        BY <2>1, <2>2
<1>3. IsFiniteSet(Slots \ {s}) /\ Cardinality(Slots \ {s}) = MAX_MESSAGES - 1
    BY SlotsFinite, FS_RemoveElement
<1> HIDE DEF below
<1>4. Cardinality(below) <= MAX_MESSAGES - 1 /\ IsFiniteSet(below)
    BY <1>2, <1>3, FS_Subset
<1>5. Cardinality(below) \in Nat
    BY <1>4, FS_CardinalityType
<1> QED
    BY <1>1, <1>4, <1>5 DEF Rank, Slots, below

\* No two pending slots have the same place in the order.
LEMMA RankIsOwn ==
    ASSUME NEW P \in SUBSET Slots, NEW s \in P, NEW t \in P, Rank(P, s) = Rank(P, t)
    PROVE  s = t
<1> DEFINE below(x) == {u \in P : u < x}
<1>1. Slots \in SUBSET Nat
    BY StoreAssumption DEF Slots
<1>2. ASSUME NEW x \in P, NEW y \in P, x < y, Rank(P, x) = Rank(P, y)
      PROVE  FALSE
    <2>1. below(x) \in SUBSET below(y) /\ below(y) \in SUBSET Slots
        <3>1. x \in Nat /\ y \in Nat /\ \A u \in P : u \in Nat
            BY <1>1, <1>2
        <3>2. \A u \in P : u < x => u < y
            BY <1>2, <3>1
        <3>3. \A u \in below(x) : u \in below(y)
            BY <3>2
        <3> QED
            BY <3>3
    <2>2. IsFiniteSet(below(y))
        BY <2>1, SlotsFinite, FS_Subset
    <2>3. Cardinality(below(y)) = Cardinality(below(x))
        BY <1>2 DEF Rank
    <2>4. below(y) = below(x)
        <3> HIDE DEF below
        <3> QED
            BY <2>1, <2>2, <2>3, FS_Subset
    <2>5. x \in below(y) /\ x \notin below(x)
        <3>1. x \in Nat /\ ~(x < x)
            BY <1>1, <1>2
        <3> QED
            BY <1>2, <3>1
    <2> QED
        BY <2>4, <2>5
<1> QED
    BY <1>1, <1>2

\* A boot schedules every pending record it reads back.
LEMMA RebootSchedules ==
    ASSUME IInv, Reboot
    PROVE  PendingIsScheduled'
<1> DEFINE P == message_store_copy_pending_tx(ram')
<1>1. SUFFICES ASSUME NEW s \in Slots, IsPendingTx(ram'[s])
               PROVE  \E e \in Slots : entries'[e] # NoEntry /\ entries'[e].nvs_slot = s
    BY DEF PendingIsScheduled, Active, IsPendingTx, state_for_message
<1>2. P \in SUBSET Slots /\ s \in P
    BY <1>1 DEF message_store_copy_pending_tx
<1>3. entries' = tx_scheduler_restore_pending(ram') /\ TxTypeOK'
    BY RebootStep DEF Reboot, IInv
<1>4. PICK e \in Slots : e = Rank(P, s)
    BY <1>2, RankIsEntry
<1> DEFINE c == CHOOSE t \in P : Rank(P, t) = e
<1>5. c \in P /\ Rank(P, c) = e
    BY <1>2, <1>4
<1>6. entries'[e] = RestoredEntry(ram', c)
    BY <1>2, <1>3, <1>4 DEF tx_scheduler_restore_pending
<1> HIDE DEF c, P
<1>7. c = s
    BY <1>2, <1>4, <1>5, RankIsOwn
<1>8. entries'[e].nvs_slot = s
    BY <1>6, <1>7 DEF RestoredEntry, NewEntry
<1>9. entries'[e] \in Entry
    <2>1. ram'[s] \in Message
        BY <1>1, RebootStep DEF IInv, StoreTypeOK, IsPendingTx
    <2>2. Rank(P, s) + 1 \in Nat
        BY <1>4, StoreAssumption DEF Slots
    <2>3. entries'[e] = NewEntry(ram'[s], s, Rank(P, s) + 1)
        BY <1>6, <1>7 DEF RestoredEntry, P
    <2> QED
        BY <2>1, <2>2, <2>3, TxAssumption DEF NewEntry, Entry, TxStates
<1> QED
    BY <1>8, <1>9, TxAssumption

\* Every step keeps pending records scheduled.
LEMMA NextSchedules ==
    ASSUME FlashWorks, IInv, PendingIsScheduled, [Next]_vars
    PROVE  PendingIsScheduled'
<1>1. CASE RadioTask \/ (\E e \in Slots : TimePasses(e)) \/ UNCHANGED vars
    <2>1. UNCHANGED <<ram, http, entries>>
        BY <1>1 DEF RadioTask, Transmit, TimePasses, vars, storeVars, txVars
    <2> QED
        BY <2>1, QuietSchedules DEF Active
<1> QED
    BY <1>1, HttpSchedules, SchedulerSchedules, RxSchedules, RebootSchedules DEF Next

\* On a flash that works no message is stored as pending and forgotten: an
\* entry of the scheduler or queue_message itself is working on it, across
\* evictions, late results and boots.
THEOREM PendingIsWorkedOn ==
    ASSUME NvsOutcomes = {"ok"}
    PROVE  Spec => []PendingIsScheduled
<1>0. FlashWorks
    BY DEF FlashWorks
<1>1. Init => PendingIsScheduled
    BY DEF Init, PendingIsScheduled, IsPendingTx
<1>2. IInv /\ PendingIsScheduled /\ [Next]_vars => PendingIsScheduled'
    BY <1>0, NextSchedules
<1> QED
    BY <1>1, <1>2, Inductive, PTL DEF Spec

-----------------------------------------------------------------------------
(* The promise of Outbox, on a flash and a packet counter that work.       *)

\* The record is of the outgoing message `id`.
IsMail(m, id) == m # NoMessage /\ m.direction = "TX" /\ m.id = id

\* Mail, of any table of records and set of accepted ids.
View(m) ==
    CASE IsPendingTx(m)                     -> "pending"
      [] state_for_message(m) = "ACKED"     -> "delivered"
      [] OTHER                              -> "failed"
MailIn(table, taken, id) ==
    IF id \notin taken THEN "new"
    ELSE IF {s \in Slots : IsMail(table[s], id)} = {} THEN "dropped"
    ELSE View(table[Min({s \in Slots : IsMail(table[s], id)})])

\* No two records are of the same outgoing message.
OneEach(table) ==
    \A s, t \in Slots : IsMail(table[s], table[s].id) /\ IsMail(table[t], table[s].id) => s = t

\* RAM shows what the flash holds, the records are this node's business, and
\* those it sent were accepted.
RecordsAreOwn ==
    \A s \in Slots : ram[s] # NoMessage =>
        /\ ram[s].source = Me \/ ram[s].destination = Me
        /\ ram[s].direction = "TX" => ram[s].id \in accepted
StoreInv == nvs = ram /\ RecordsAreOwn /\ OneEach(ram)

\* Accepted ids have been saved, and are not handed out again.
AcceptedIsSaved ==
    \A id \in accepted : /\ id <= seqNvs
                         /\ http.pc \in {"saved", "allocated"} => id # seq

\* The radio is given nothing but accepted messages.
RequestsAreAccepted ==
    /\ \A q \in radioq : q.message_id \in accepted
    /\ sched.pc = "submit" => job.message_id \in accepted

PromiseInv == StoreInv /\ AcceptedIsSaved /\ RequestsAreAccepted

Mails == [id \in Ids |-> Mail(id)]
Heard == {a[1] : a \in aired}

\* Mail reads the present table; primed, the next one.
LEMMA MailNow ==
    ASSUME NEW id
    PROVE  /\ Mail(id) = MailIn(ram, accepted, id)
           /\ Mail(id)' = MailIn(ram', accepted', id)
BY DEF Mail, MailIn, RecordOf, IsMail, View, IsPendingTx, state_for_message

\* The view of a message is that of its record.
LEMMA MailOfRecord ==
    ASSUME NEW table, OneEach(table), NEW taken, NEW id \in taken,
           NEW s \in Slots, IsMail(table[s], id)
    PROVE  MailIn(table, taken, id) = View(table[s])
<1> DEFINE S == {t \in Slots : IsMail(table[t], id)}
<1>1. S \in SUBSET Slots /\ s \in S
    OBVIOUS
<1>2. Min(S) \in S
    BY <1>1, MinOfSlots
<1>3. Min(S) = s
    BY <1>2 DEF OneEach, IsMail
<1> QED
    BY <1>1, <1>3 DEF MailIn

\* A change of one slot shows only in the message that was, or is, there.
LEMMA MailElsewhere ==
    ASSUME NEW table, NEW other, NEW taken, NEW also, NEW id, id \in taken <=> id \in also,
           NEW s \in Slots, \A t \in Slots \ {s} : other[t] = table[t],
           ~IsMail(table[s], id), ~IsMail(other[s], id)
    PROVE  MailIn(other, also, id) = MailIn(table, taken, id)
<1> DEFINE S == {t \in Slots : IsMail(table[t], id)}
           T == {t \in Slots : IsMail(other[t], id)}
<1>1. S = T
    <2>1. \A t \in Slots : IsMail(table[t], id) <=> IsMail(other[t], id)
        <3> SUFFICES ASSUME NEW t \in Slots PROVE IsMail(table[t], id) <=> IsMail(other[t], id)
            OBVIOUS
        <3>1. CASE t = s
            BY <3>1
        <3>2. CASE t # s
            BY <3>2
        <3> QED
            BY <3>1, <3>2
    <2> QED
        BY <2>1
<1>2. CASE S = {}
    BY <1>1, <1>2 DEF MailIn
<1>3. CASE S # {}
    <2>1. Min(S) \in S
        BY <1>3, MinOfSlots
    <2>2. Min(S) \in Slots \ {s}
        BY <2>1
    <2>3. other[Min(S)] = table[Min(S)]
        BY <2>2
    <2> QED
        BY <1>1, <1>3, <2>3 DEF MailIn
<1> QED
    BY <1>2, <1>3

\* What a record says is one of three things, none of them "new".
LEMMA ViewIs ==
    ASSUME NEW m
    PROVE  /\ View(m) \in {"pending", "delivered", "failed"}
           /\ IsPendingTx(m) => View(m) = "pending"
           /\ ~IsPendingTx(m) => View(m) # "pending"
BY DEF View, IsPendingTx

\* An accepted message is not new.
LEMMA AcceptedIsNotNew ==
    ASSUME NEW id \in accepted
    PROVE  Mail(id) # "new"
BY MailNow, ViewIs DEF MailIn

\* The function of all views changes where one view does.
LEMMA MailsChange ==
    ASSUME NEW id \in Ids, NEW v, Mail(id)' = v,
           \A x \in Ids \ {id} : Mail(x)' = Mail(x)
    PROVE  Mails' = [Mails EXCEPT ![id] = v]
<1>1. Mails' = [x \in Ids |-> Mail(x)']
    BY DEF Mails
<1>2. \A x \in Ids : [Mails EXCEPT ![id] = v][x] = Mail(x)'
    BY DEF Mails
<1> QED
    BY <1>1, <1>2 DEF Mails

\* Nothing changes where no view does.
LEMMA MailsSame ==
    ASSUME \A x \in Ids : Mail(x)' = Mail(x)
    PROVE  Mails' = Mails
BY DEF Mails

\* One slot takes a record, in RAM and in flash.
PutIn(s, m) == ram' = [ram EXCEPT ![s] = m] /\ nvs' = [nvs EXCEPT ![s] = m]

\* A record of the same message takes the place of the old one: the message is
\* seen as the new record shows it, and every other as before.
LEMMA Rewritten ==
    ASSUME StoreTypeOK, StoreInv, NEW s \in Slots, NEW id \in Ids, IsMail(ram[s], id),
           NEW m \in Message, IsMail(m, id), m.source = Me, PutIn(s, m), accepted' = accepted
    PROVE  /\ StoreInv'
           /\ Mail(id) = View(ram[s]) /\ Mail(id)' = View(m)
           /\ \A x \in Ids \ {id} : Mail(x)' = Mail(x)
<1>1. /\ ram'[s] = m /\ \A t \in Slots \ {s} : ram'[t] = ram[t]
      /\ nvs' = ram'
    BY DEF StoreTypeOK, PutIn, StoreInv
<1>2. id \in accepted
    BY DEF StoreInv, RecordsAreOwn, IsMail
<1>3. RecordsAreOwn'
    BY <1>1, <1>2 DEF StoreInv, RecordsAreOwn, IsMail
<1>4. OneEach(ram')
    BY <1>1 DEF StoreInv, OneEach, IsMail
<1>5. StoreInv'
    BY <1>1, <1>3, <1>4 DEF StoreInv, OneEach, IsMail
<1>6. Mail(id) = View(ram[s])
    BY <1>2, MailNow, MailOfRecord DEF StoreInv
<1>7. Mail(id)' = View(m)
    BY <1>1, <1>2, <1>4, MailNow, MailOfRecord
<1>8. ASSUME NEW x \in Ids \ {id}
      PROVE  Mail(x)' = Mail(x)
    <2>1. ~IsMail(ram[s], x) /\ ~IsMail(ram'[s], x)
        BY <1>1 DEF IsMail
    <2> QED
        BY <1>1, <2>1, MailNow, MailElsewhere
<1> QED
    BY <1>5, <1>6, <1>7, <1>8

\* A record is erased: its message, if it was an outgoing one, is dropped.
LEMMA Erased ==
    ASSUME StoreTypeOK, StoreInv, NEW s \in Slots, ram[s] # NoMessage, PutIn(s, NoMessage),
           accepted' = accepted, NEW id, id = ram[s].id
    PROVE  /\ StoreInv'
           /\ ram[s].direction = "TX" => Mail(id) = View(ram[s]) /\ Mail(id)' = "dropped"
           /\ \A x \in Ids : ram[s].direction # "TX" \/ x # id => Mail(x)' = Mail(x)
<1>1. /\ ram'[s] = NoMessage /\ \A t \in Slots \ {s} : ram'[t] = ram[t]
      /\ nvs' = ram'
    BY DEF StoreTypeOK, PutIn, StoreInv
<1>2. StoreInv'
    BY <1>1 DEF StoreInv, RecordsAreOwn, OneEach, IsMail
<1>3. ASSUME ram[s].direction = "TX"
      PROVE  Mail(id) = View(ram[s]) /\ Mail(id)' = "dropped"
    <2>1. id \in accepted /\ IsMail(ram[s], id)
        BY <1>3 DEF StoreInv, RecordsAreOwn, IsMail
    <2>2. Mail(id) = View(ram[s])
        BY <2>1, MailNow, MailOfRecord DEF StoreInv
    <2>3. \A t \in Slots : ~IsMail(ram'[t], id)
        BY <1>1, <2>1 DEF StoreInv, OneEach, IsMail
    <2>4. Mail(id)' = "dropped"
        BY <2>1, <2>3, MailNow DEF MailIn
    <2> QED
        BY <2>2, <2>4
<1>4. ASSUME NEW x \in Ids, ram[s].direction # "TX" \/ x # id
      PROVE  Mail(x)' = Mail(x)
    <2>1. ~IsMail(ram[s], x) /\ ~IsMail(ram'[s], x)
        BY <1>1, <1>4 DEF IsMail
    <2> QED
        BY <1>1, <2>1, MailNow, MailElsewhere
<1> QED
    BY <1>2, <1>3, <1>4

\* A record is put into an empty slot.
LEMMA Added ==
    ASSUME StoreTypeOK, StoreInv, NEW s \in Slots, ram[s] = NoMessage, NEW m \in Message,
           PutIn(s, m), m.source = Me \/ m.destination = Me,
           m.direction = "TX" => m.id \notin accepted,
           accepted' = IF m.direction = "TX" THEN accepted \cup {m.id} ELSE accepted
    PROVE  /\ StoreInv'
           /\ m.direction = "TX" => Mail(m.id) = "new" /\ Mail(m.id)' = View(m)
           /\ \A x \in Ids : m.direction # "TX" \/ x # m.id => Mail(x)' = Mail(x)
<1>1. /\ ram'[s] = m /\ \A t \in Slots \ {s} : ram'[t] = ram[t]
      /\ nvs' = ram' /\ m # NoMessage
    BY StoreAssumption DEF StoreTypeOK, PutIn, StoreInv
<1>2. \A t \in Slots : ram[t] # NoMessage /\ ram[t].direction = "TX" => ram[t].id \in accepted
    BY DEF StoreInv, RecordsAreOwn
<1>3. RecordsAreOwn'
    BY <1>1 DEF StoreInv, RecordsAreOwn
<1>4. OneEach(ram')
    <2> SUFFICES ASSUME NEW t \in Slots, NEW u \in Slots,
                        IsMail(ram'[t], ram'[t].id), IsMail(ram'[u], ram'[t].id)
                 PROVE  t = u
        BY DEF OneEach
    <2>1. CASE t # s /\ u # s
        BY <1>1, <2>1 DEF StoreInv, OneEach
    <2>2. CASE t = s /\ u # s
        BY <1>1, <1>2, <2>2 DEF IsMail
    <2>3. CASE t # s /\ u = s
        BY <1>1, <1>2, <2>3 DEF IsMail
    <2> QED
        BY <2>1, <2>2, <2>3
<1>5. StoreInv'
    BY <1>1, <1>3, <1>4 DEF StoreInv, OneEach, IsMail
<1>6. ASSUME m.direction = "TX"
      PROVE  Mail(m.id) = "new" /\ Mail(m.id)' = View(m)
    <2>1. IsMail(ram'[s], m.id) /\ m.id \in accepted' /\ m.id \notin accepted
        BY <1>1, <1>6 DEF IsMail
    <2>2. Mail(m.id) = "new"
        BY <2>1, MailNow DEF MailIn
    <2>3. Mail(m.id)' = View(m)
        BY <1>1, <1>4, <2>1, MailNow, MailOfRecord
    <2> QED
        BY <2>2, <2>3
<1>7. ASSUME NEW x \in Ids, m.direction # "TX" \/ x # m.id
      PROVE  Mail(x)' = Mail(x)
    <2>1. ~IsMail(ram[s], x) /\ ~IsMail(ram'[s], x)
        BY <1>1, <1>7 DEF IsMail
    <2>2. x \in accepted <=> x \in accepted'
        BY <1>7
    <2> QED
        BY <1>1, <2>1, <2>2, MailNow, MailElsewhere
<1> QED
    BY <1>5, <1>6, <1>7

\* A step of the promise, or one that the user does not see.
OutboxStep == Promise!OutboxNext \/ UNCHANGED <<Mails, Heard>>

\* The change of one view is a step of Outbox.
LEMMA OneMailStep ==
    ASSUME NEW id \in Ids, \A x \in Ids \ {id} : Mail(x)' = Mail(x), aired' = aired,
           \/ Mail(id) = "new" /\ Mail(id)' = "pending"
           \/ Mail(id) = "pending" /\ Mail(id)' = "failed"
           \/ Mail(id) = "pending" /\ Mail(id)' = "delivered" /\ id \in Heard
           \/ Mail(id) \in {"delivered", "failed"} /\ Mail(id)' = "dropped"
           \/ Mail(id)' = Mail(id)
    PROVE  OutboxStep
<1>1. Heard' = Heard /\ Mails[id] = Mail(id)
    BY DEF Heard, Mails
<1>2. ASSUME NEW v, Mail(id)' = v
      PROVE  Mails' = [Mails EXCEPT ![id] = v]
    BY <1>2, MailsChange
<1>3. CASE Mail(id) = "new" /\ Mail(id)' = "pending"
    <2>1. Promise!Take(id)
        BY <1>1, <1>2, <1>3 DEF Promise!Take, Mails, Heard
    <2> QED
        BY <2>1 DEF OutboxStep, Promise!OutboxNext
<1>4. CASE Mail(id) = "pending" /\ Mail(id)' = "failed"
    <2>1. Promise!GiveUp(id)
        BY <1>1, <1>2, <1>4 DEF Promise!GiveUp, Mails, Heard
    <2> QED
        BY <2>1 DEF OutboxStep, Promise!OutboxNext, Promise!Settle
<1>5. CASE Mail(id) = "pending" /\ Mail(id)' = "delivered" /\ id \in Heard
    <2>1. Promise!Deliver(id)
        BY <1>1, <1>2, <1>5 DEF Promise!Deliver, Mails, Heard
    <2> QED
        BY <2>1 DEF OutboxStep, Promise!OutboxNext, Promise!Settle
<1>6. CASE Mail(id) \in {"delivered", "failed"} /\ Mail(id)' = "dropped"
    <2>1. Promise!Drop(id)
        BY <1>1, <1>2, <1>6 DEF Promise!Drop, Mails, Heard
    <2> QED
        BY <2>1 DEF OutboxStep, Promise!OutboxNext
<1>7. CASE Mail(id)' = Mail(id)
    <2>1. Mails' = Mails
        BY <1>7, MailsSame
    <2> QED
        BY <1>1, <2>1 DEF OutboxStep
<1> QED
    BY <1>3, <1>4, <1>5, <1>6, <1>7

\* No view changes and nothing more was on the air.
LEMMA NoMailStep ==
    ASSUME \A x \in Ids : Mail(x)' = Mail(x), aired' = aired
    PROVE  OutboxStep
<1>1. Mails' = Mails
    BY MailsSame
<1>2. Heard' = Heard
    BY DEF Heard
<1> QED
    BY <1>1, <1>2 DEF OutboxStep

\* Neither the records nor the accepted ids change.
LEMMA SameRecords ==
    ASSUME StoreInv, UNCHANGED <<ram, nvs, accepted>>
    PROVE  StoreInv' /\ \A x \in Ids : Mail(x)' = Mail(x)
<1>1. StoreInv'
    BY DEF StoreInv, RecordsAreOwn, OneEach, IsMail
<1>2. \A x \in Ids : Mail(x)' = Mail(x)
    BY MailNow
<1> QED
    BY <1>1, <1>2

\* The scheduler's own steps: an ending entry delivers its message or gives
\* it up, and nothing else is seen.
LEMMA ShapesKeepPromise ==
    ASSUME FlashWorks, IInv, FinalInv, StoreInv, NEW e \in Slots, EntryShape(e),
           UNCHANGED <<aired, accepted>>
    PROVE  StoreInv' /\ OutboxStep
<1>0. /\ StoreTypeOK /\ entries \in [Slots -> Entry \cup {NoEntry}]
    BY DEF IInv, TxTypeOK
<1>1. CASE Delays(e)
    <2>1. UNCHANGED <<ram, nvs>>
        BY <1>1 DEF Delays, Wait, storeVars
    <2> QED
        BY <2>1, SameRecords, NoMailStep
<1>2. ASSUME Active(e), NEW status \in FinalStatuses \cup {"SENT"}, NEW outcome \in NvsOutcomes,
             message_store_update(entries[e].nvs_slot,
                                  [entries[e].message EXCEPT !.status = status], outcome),
             status = "ACKED" => OnAir(e) \in aired
      PROVE  StoreInv' /\ OutboxStep
    <2>1. PICK m : m = [entries[e].message EXCEPT !.status = status]
        OBVIOUS
    <2>2. PICK s \in Slots : s = entries[e].nvs_slot
        BY <1>0, <1>2 DEF Active, Entry
    <2>3. PICK id \in Ids : id = entries[e].message.id
        BY <1>0, <1>2 DEF Active, Entry, Message
    <2>4. /\ entries[e].message \in Message
          /\ entries[e].message.direction = "TX" /\ entries[e].message.source = Me
        BY <1>0, <1>2 DEF Active, Entry, IInv, Ownership, EntriesPending, IsPendingTx, FinalInv,
                          EntriesAreStored
    <2>5. /\ m \in Message /\ m.direction = "TX" /\ m.source = Me /\ m.id = id
          /\ m.status = status /\ m # NoMessage
        BY <2>1, <2>3, <2>4, StoreAssumption DEF Message, Statuses, FinalStatuses
    <2>6. IsPendingTx(ram[s]) /\ ram[s].id = id
        BY <1>2, <2>2, <2>3 DEF IInv, Ownership, EntryOwnsSlot
    <2>7. IsMail(ram[s], id) /\ IsMail(m, id) /\ ram[s] # NoMessage
        BY <2>5, <2>6 DEF IsMail, IsPendingTx
    <2>8. PutIn(s, m)
        BY <1>0, <1>2, <2>1, <2>2, <2>7, OkUpdate DEF PutIn
    <2>9. /\ StoreInv'
          /\ Mail(id) = View(ram[s]) /\ Mail(id)' = View(m)
          /\ \A x \in Ids \ {id} : Mail(x)' = Mail(x)
        BY <1>0, <2>5, <2>7, <2>8, Rewritten
    <2>10. Mail(id) = "pending"
        BY <2>6, <2>9, ViewIs
    <2>11. CASE status = "SENT"
        <3>1. View(m) = "pending"
            BY <2>5, <2>11, StatusTells, ViewIs
        <3> QED
            BY <2>9, <2>10, <3>1, OneMailStep
    <2>12. CASE status = "ACKED"
        <3>1. View(m) = "delivered"
            BY <2>5, <2>12 DEF View, IsPendingTx, state_for_message, FailedStatuses
        <3>2. id \in Heard
            <4>1. <<id, entries[e].message.destination>> \in aired
                BY <1>2, <2>3, <2>12 DEF OnAir
            <4>2. <<id, entries[e].message.destination>>[1] = id
                OBVIOUS
            <4> QED
                BY <4>1, <4>2 DEF Heard
        <3> QED
            BY <2>9, <2>10, <3>1, <3>2, OneMailStep
    <2>13. CASE status \in FailedStatuses
        <3>1. View(m) = "failed"
            BY <2>5, <2>13 DEF View, IsPendingTx, state_for_message, FailedStatuses
        <3> QED
            BY <2>9, <2>10, <3>1, OneMailStep
    <2> QED
        BY <2>11, <2>12, <2>13 DEF FinalStatuses
<1>3. CASE Reports(e)
    <2>1. Active(e) /\ entries[e] \in Entry
        BY <1>0, <1>3 DEF Reports, Active
    <2>2. PICK outcome \in NvsOutcomes :
              message_store_update(entries[e].nvs_slot,
                                   [entries[e].message EXCEPT !.status = "SENT"], outcome)
        BY <1>3, <2>1 DEF Reports, set_status, Entry
    <2> QED
        BY <1>2, <2>1, <2>2
<1>4. ASSUME NEW status \in FinalStatuses, Ends(e, status)
      PROVE  StoreInv' /\ OutboxStep
    BY <1>2, <1>4 DEF Ends, Finish
<1> QED
    BY <1>1, <1>3, <1>4 DEF EntryShape

\* Making room drops at most one message, and that one had ended.
LEMMA AllocationKeepsPromise ==
    ASSUME FlashWorks, IInv, StoreInv, NEW outcome \in NvsOutcomes,
           AllocateFails(outcome) \/ \E s \in Slots : message_store_allocate(s, outcome),
           UNCHANGED <<aired, accepted>>
    PROVE  StoreInv' /\ OutboxStep
<1>0. StoreTypeOK
    BY DEF IInv
<1>1. CASE UNCHANGED <<ram, nvs>>
    BY <1>1, SameRecords, NoMailStep
<1>2. ASSUME NEW s \in Slots, PutIn(s, NoMessage), ram[s] # NoMessage, ~IsPendingTx(ram[s])
      PROVE  StoreInv' /\ OutboxStep
    <2>1. PICK id \in Ids : id = ram[s].id
        BY <1>0, <1>2 DEF StoreTypeOK, Message
    <2>2. /\ StoreInv'
          /\ ram[s].direction = "TX" => Mail(id) = View(ram[s]) /\ Mail(id)' = "dropped"
          /\ \A x \in Ids : ram[s].direction # "TX" \/ x # id => Mail(x)' = Mail(x)
        BY <1>0, <1>2, <2>1, Erased
    <2>3. CASE ram[s].direction = "TX"
        <3>1. View(ram[s]) \in {"delivered", "failed"}
            BY <1>2, ViewIs
        <3> QED
            BY <2>2, <2>3, <3>1, OneMailStep
    <2>4. CASE ram[s].direction # "TX"
        BY <2>2, <2>4, NoMailStep
    <2> QED
        BY <2>3, <2>4
<1> QED
    BY <1>0, <1>1, <1>2, OkAllocate DEF PutIn

\* queue_message: the write is the moment a message is taken over.
LEMMA QueueWriteKeepsPromise ==
    ASSUME FlashWorks, IInv, FinalInv, StoreInv, AcceptedIsSaved, QueueWrite
    PROVE  /\ StoreInv' /\ OutboxStep
           /\ http'.pc = "written" /\ accepted' = accepted \cup {seq} /\ seq = seqNvs
<1>0. /\ StoreTypeOK /\ UNCHANGED aired /\ http.pc = "allocated"
      /\ http.slot \in reserved /\ http.slot \in Slots /\ ram[http.slot] = NoMessage
      /\ http.message \in Message /\ http.message.direction = "TX"
      /\ http.message.status = "PENDING"
      /\ http.message.source = Me /\ http.message.id = seq /\ seq = seqNvs
    BY DEF IInv, QueueWrite, Ownership, ReservationsHeld, MessageInHand, StoreTypeOK, FinalInv,
           MailIsNew, CounterIsSaved
<1>1. PICK m \in Message : m = http.message
    BY <1>0
<1>2. PICK s \in Slots : s = http.slot
    BY <1>0
<1>3. PICK outcome \in NvsOutcomes :
          /\ message_store_write(s, m, outcome)
          /\ http' = IF outcome = "ok" THEN [http EXCEPT !.pc = "written"] ELSE HttpIdle
          /\ accepted' = IF outcome = "ok" THEN accepted \cup {m.id} ELSE accepted
    BY <1>1, <1>2 DEF QueueWrite
<1>4. PutIn(s, m) /\ outcome = "ok"
    BY <1>0, <1>2, <1>3, OkWrite DEF PutIn
<1>5. m.id \notin accepted /\ m.id \in Ids
    BY <1>0, <1>1 DEF AcceptedIsSaved, Message
<1>6. accepted' = accepted \cup {m.id} /\ http'.pc = "written"
    BY <1>0, <1>3, <1>4 DEF IInv, TxTypeOK
<1>7. /\ StoreInv'
      /\ Mail(m.id) = "new" /\ Mail(m.id)' = View(m)
      /\ \A x \in Ids : x # m.id => Mail(x)' = Mail(x)
    BY <1>0, <1>1, <1>2, <1>4, <1>5, <1>6, Added
<1>8. View(m) = "pending"
    BY <1>0, <1>1, StatusTells, ViewIs
<1>9. OutboxStep
    BY <1>0, <1>5, <1>7, <1>8, OneMailStep
<1> QED
    BY <1>0, <1>1, <1>6, <1>7, <1>9

\* tx_scheduler_submit: queued is still pending; a refusal gives the message up.
LEMMA SubmitKeepsPromise ==
    ASSUME FlashWorks, IInv, FinalInv, StoreInv, tx_scheduler_submit
    PROVE  StoreInv' /\ OutboxStep
<1>0. /\ StoreTypeOK /\ UNCHANGED <<aired, accepted>>
      /\ http.slot \in Slots /\ ram[http.slot] = http.message
      /\ http.message \in Message /\ http.message.direction = "TX"
      /\ http.message.status = "PENDING" /\ http.message # NoMessage
      /\ http.message.source = Me
    BY StoreAssumption DEF IInv, tx_scheduler_submit, Ownership, ReservationsHeld, MessageInHand,
                           FinalInv, MailIsNew
<1>1. PICK outcome \in NvsOutcomes, status \in {"QUEUED", "FAILED"} :
          message_store_update(http.slot, [http.message EXCEPT !.status = status], outcome)
    BY SubmitShape
<1>2. PICK m : m = [http.message EXCEPT !.status = status]
    OBVIOUS
<1>3. PICK s \in Slots : s = http.slot
    BY <1>0
<1>4. PICK id \in Ids : id = http.message.id
    BY <1>0 DEF Message
<1>5. /\ m \in Message /\ m.direction = "TX" /\ m.source = Me /\ m.id = id
      /\ m.status = status /\ m # NoMessage
    BY <1>0, <1>2, <1>4, StoreAssumption DEF Message, Statuses, FailedStatuses
<1>6. IsMail(ram[s], id) /\ IsMail(m, id)
    BY <1>0, <1>3, <1>4, <1>5 DEF IsMail
<1>7. PutIn(s, m)
    BY <1>0, <1>1, <1>2, <1>3, OkUpdate DEF PutIn
<1>8. /\ StoreInv'
      /\ Mail(id) = View(ram[s]) /\ Mail(id)' = View(m)
      /\ \A x \in Ids \ {id} : Mail(x)' = Mail(x)
    BY <1>0, <1>5, <1>6, <1>7, Rewritten
<1>9. View(ram[s]) = "pending"
    BY <1>0, <1>3, StatusTells, ViewIs
<1>10. CASE status = "QUEUED"
    <2>1. View(m) = "pending"
        BY <1>5, <1>10, StatusTells, ViewIs
    <2> QED
        BY <1>0, <1>8, <1>9, <2>1, OneMailStep
<1>11. CASE status = "FAILED"
    <2>1. View(m) = "failed"
        BY <1>5, <1>11 DEF View, IsPendingTx, state_for_message, FailedStatuses
    <2> QED
        BY <1>0, <1>8, <1>9, <2>1, OneMailStep
<1> QED
    BY <1>10, <1>11

\* A received message shows in no outgoing one.
LEMMA RxWriteKeepsPromise ==
    ASSUME FlashWorks, IInv, StoreInv, NEW id \in RxIds, NEW source \in Nodes \ {Me},
           NEW epoch \in Epochs, RxWrite(id, source, epoch)
    PROVE  StoreInv' /\ OutboxStep
<1>0. /\ StoreTypeOK /\ UNCHANGED <<aired, accepted>>
      /\ rx \in reserved /\ rx \in Slots /\ ram[rx] = NoMessage
    BY DEF IInv, RxWrite, Ownership, ReservationsHeld, StoreTypeOK
<1>1. PICK m : m = [id |-> id, direction |-> "RX", source |-> source, destination |-> Me,
                    status |-> "RECEIVED", stored_epoch |-> epoch]
    OBVIOUS
<1>2. m \in Message /\ m.destination = Me /\ m.direction = "RX"
    BY <1>1, TxAssumption DEF Message, Statuses
<1>3. PICK s \in Slots : s = rx
    BY <1>0
<1>4. PutIn(s, m)
    BY <1>0, <1>1, <1>3, OkWrite DEF RxWrite, PutIn
<1>5. StoreInv' /\ \A x \in Ids : Mail(x)' = Mail(x)
    BY <1>0, <1>2, <1>3, <1>4, Added
<1> QED
    BY <1>0, <1>5, NoMailStep

\* A boot reads back what was there.
LEMMA RebootKeepsPromise ==
    ASSUME FlashWorks, IInv, StoreInv, Reboot
    PROVE  StoreInv' /\ OutboxStep
<1>0. StoreTypeOK /\ nvs = ram /\ RecordsAreOwn /\ UNCHANGED <<nvs, aired, accepted>>
    BY DEF IInv, StoreInv, Reboot, message_store_load_messages_from_nvs
<1>1. message_store_load_messages_from_nvs(Me, TRUE)
    BY DEF Reboot, FlashWorks, Readable
<1>2. \A s \in Slots : load_persisted_slot(nvs[s], Me) = ram[s]
    BY <1>0 DEF load_persisted_slot, RecordsAreOwn, StoreTypeOK
<1>3. ram' = ram
    BY <1>0, <1>1, <1>2 DEF message_store_load_messages_from_nvs, StoreTypeOK
<1> QED
    BY <1>0, <1>3, SameRecords, NoMailStep

\* The radio transmits accepted messages only.
LEMMA TransmitKeepsPromise ==
    ASSUME IInv, StoreInv, RequestsAreAccepted, NEW q \in radioq, Transmit(q)
    PROVE  StoreInv' /\ OutboxStep
<1>0. UNCHANGED <<ram, nvs, accepted>>
    BY DEF Transmit, storeVars
<1>1. StoreInv' /\ \A x \in Ids : Mail(x)' = Mail(x)
    BY <1>0, SameRecords DEF StoreInv
<1>2. CASE aired' = aired
    BY <1>1, <1>2, NoMailStep
<1>3. CASE aired' = aired \cup {<<q.message_id, q.destination>>}
    <2>1. PICK id \in Ids : id = q.message_id
        BY DEF IInv, TxTypeOK, Request
    <2>2. Heard' = Heard \cup {id}
        <3>1. <<id, q.destination>>[1] = id
            OBVIOUS
        <3> QED
            BY <1>3, <2>1, <3>1 DEF Heard
    <2>3. Mail(id) # "new"
        BY <2>1, AcceptedIsNotNew DEF RequestsAreAccepted
    <2>4. Mails' = Mails
        BY <1>1, MailsSame
    <2>5. Promise!GoOnAir(id)
        BY <2>2, <2>3, <2>4 DEF Promise!GoOnAir, Mails, Heard
    <2> QED
        BY <1>1, <2>5 DEF OutboxStep, Promise!OutboxNext
<1> QED
    BY <1>2, <1>3 DEF Transmit

\* Ids stay saved and requests accepted, where queue_message gets no further
\* and the radio no new request.
LEMMA PromiseFrame ==
    ASSUME AcceptedIsSaved, RequestsAreAccepted, accepted' = accepted
    PROVE  /\ UNCHANGED <<seq, seqNvs>> /\ (http'.pc \in {"saved", "allocated"} =>
                                               http.pc \in {"saved", "allocated"})
              => AcceptedIsSaved'
           /\ radioq' \subseteq radioq /\ (sched'.pc = "submit" => UNCHANGED schedVars)
              => RequestsAreAccepted'
<1>1. ASSUME UNCHANGED <<seq, seqNvs>>,
             http'.pc \in {"saved", "allocated"} => http.pc \in {"saved", "allocated"}
      PROVE  AcceptedIsSaved'
    BY <1>1 DEF AcceptedIsSaved
<1>2. ASSUME radioq' \subseteq radioq, sched'.pc = "submit" => UNCHANGED schedVars
      PROVE  RequestsAreAccepted'
    BY <1>2 DEF RequestsAreAccepted, schedVars
<1> QED
    BY <1>1, <1>2

\* The steps of the scheduler task keep the promise.
LEMMA SchedulerKeepsPromise ==
    ASSUME FlashWorks, IInv, FinalInv, PromiseInv, SchedulerTask
    PROVE  PromiseInv' /\ OutboxStep
<1>0. /\ UNCHANGED <<seq, seqNvs, http, aired, accepted>>
      /\ StoreInv /\ AcceptedIsSaved /\ RequestsAreAccepted
    BY DrainShape, ScanShape, SendShape, ReturnShape
       DEF SchedulerTask, DrainDone, lora_tx_submit, SchedulerFrame, seqVars, PromiseInv
<1>1. AcceptedIsSaved'
    BY <1>0, PromiseFrame
<1>2. CASE DrainResult \/ Scan \/ SubmitReturns
    <2>1. /\ \E e \in Slots : EntryShape(e)
          /\ radioq' = radioq /\ (sched'.pc = "submit" => UNCHANGED schedVars)
        BY <1>2, DrainShape, ScanShape, ReturnShape
    <2>2. StoreInv' /\ OutboxStep
        BY <1>0, <2>1, ShapesKeepPromise
    <2> QED
        BY <1>0, <1>1, <2>1, <2>2, PromiseFrame DEF PromiseInv
<1>3. CASE DrainDone \/ lora_tx_submit
    <2>1. UNCHANGED <<ram, nvs>> /\ sched'.pc # "submit"
        BY <1>3 DEF DrainDone, lora_tx_submit, storeVars, IInv, TxTypeOK
    <2>2. StoreInv' /\ OutboxStep
        BY <1>0, <2>1, SameRecords, NoMailStep
    <2>3. \A q \in radioq' : q.message_id \in accepted
        BY <1>0, <1>3 DEF DrainDone, lora_tx_submit, RequestsAreAccepted
    <2> QED
        BY <1>0, <1>1, <2>1, <2>2, <2>3 DEF PromiseInv, RequestsAreAccepted
<1>4. CASE SendCurrentPacket
    <2>1. PICK e \in Slots : \/ Submits(e)
                             \/ EntryShape(e) /\ sched'.pc # "submit"
        BY <1>4, SendShape
    <2>2. radioq' = radioq
        BY <1>4, SendShape
    <2>3. CASE EntryShape(e) /\ sched'.pc # "submit"
        BY <1>0, <1>1, <2>2, <2>3, ShapesKeepPromise, PromiseFrame DEF PromiseInv
    <2>4. CASE Submits(e)
        <3>1. UNCHANGED <<ram, nvs>> /\ Active(e) /\ job'.message_id = entries[e].message.id
            BY <2>4 DEF Submits, storeVars
        <3>2. entries[e].message.id \in accepted
            <4>1. PICK s \in Slots : s = entries[e].nvs_slot
                BY <3>1 DEF IInv, TxTypeOK, Active, Entry
            <4>2. IsPendingTx(ram[s]) /\ ram[s].id = entries[e].message.id
                BY <3>1, <4>1 DEF IInv, Ownership, EntryOwnsSlot
            <4> QED
                BY <1>0, <4>2 DEF StoreInv, RecordsAreOwn, IsPendingTx
        <3>3. StoreInv' /\ OutboxStep
            BY <1>0, <3>1, SameRecords, NoMailStep
        <3> QED
            BY <1>0, <1>1, <2>2, <3>1, <3>2, <3>3 DEF PromiseInv, RequestsAreAccepted
    <2> QED
        BY <2>1, <2>3, <2>4
<1> QED
    BY <1>2, <1>3, <1>4 DEF SchedulerTask

\* The steps of queue_message keep the promise.
LEMMA HttpKeepsPromise ==
    ASSUME FlashWorks, CounterWorks, IInv, FinalInv, PromiseInv, HttpTask
    PROVE  PromiseInv' /\ OutboxStep
<1>0. /\ UNCHANGED <<radioq, schedVars, aired>>
      /\ StoreInv /\ AcceptedIsSaved /\ RequestsAreAccepted
    BY DEF HttpTask, QueueMessage, mesh_sequence_save, QueueAllocate, QueueWrite,
           tx_scheduler_submit, PromiseInv
<1>1. CASE mesh_sequence_save \/ \E d \in Destinations, epoch \in Epochs : QueueMessage(d, epoch)
    <2>1. UNCHANGED <<ram, nvs, accepted>>
        BY <1>1 DEF mesh_sequence_save, QueueMessage, storeVars
    <2>2. StoreInv' /\ OutboxStep
        BY <1>0, <2>1, SameRecords, NoMailStep
    <2>3. seq \in Nat /\ seqNvs \in Nat /\ \A id \in accepted : id \in Nat
        BY StoreAssumption, TxAssumption DEF IInv, TxTypeOK
    <2>4. CASE mesh_sequence_save
        <3>1. seq = seqNvs + 1 /\ seq' = seq /\ seqNvs' = seq
            BY <2>4 DEF mesh_sequence_save, CounterWorks, FinalInv, CounterIsSaved
        <3>2. \A id \in accepted : id <= seq /\ id # seq
            BY <1>0, <2>3, <3>1 DEF AcceptedIsSaved
        <3>3. AcceptedIsSaved'
            BY <2>1, <3>1, <3>2 DEF AcceptedIsSaved
        <3> QED
            BY <1>0, <2>1, <2>2, <3>3, PromiseFrame DEF PromiseInv
    <2>5. CASE \E d \in Destinations, epoch \in Epochs : QueueMessage(d, epoch)
        <3>1. seqNvs' = seqNvs /\ http'.pc = "numbered"
            BY <2>5 DEF QueueMessage
        <3>2. AcceptedIsSaved'
            BY <1>0, <2>1, <3>1 DEF AcceptedIsSaved
        <3> QED
            BY <1>0, <2>1, <2>2, <3>2, PromiseFrame DEF PromiseInv
    <2> QED
        BY <1>1, <2>4, <2>5
<1>2. CASE QueueAllocate
    <2>1. /\ UNCHANGED <<seq, seqNvs, accepted>> /\ http.pc = "saved"
          /\ \E outcome \in NvsOutcomes :
                AllocateFails(outcome) \/ \E s \in Slots : message_store_allocate(s, outcome)
        BY <1>2 DEF QueueAllocate, seqVars
    <2>2. StoreInv' /\ OutboxStep
        BY <1>0, <2>1, AllocationKeepsPromise
    <2> QED
        BY <1>0, <2>1, <2>2, PromiseFrame DEF PromiseInv
<1>3. CASE QueueWrite
    <2>1. /\ StoreInv' /\ OutboxStep
          /\ http'.pc = "written" /\ accepted' = accepted \cup {seq} /\ seq = seqNvs
        BY <1>0, <1>3, QueueWriteKeepsPromise
    <2>2. UNCHANGED <<seq, seqNvs>> /\ seqNvs \in Nat
        BY <1>3, TxAssumption DEF QueueWrite, seqVars, IInv, TxTypeOK
    <2>3. AcceptedIsSaved'
        BY <1>0, <2>1, <2>2 DEF AcceptedIsSaved
    <2>4. RequestsAreAccepted'
        BY <1>0, <2>1 DEF RequestsAreAccepted, schedVars
    <2> QED
        BY <2>1, <2>3, <2>4 DEF PromiseInv
<1>4. CASE tx_scheduler_submit
    <2>1. UNCHANGED <<seq, seqNvs, accepted>> /\ http'.pc = "idle"
        BY <1>4 DEF tx_scheduler_submit, seqVars, HttpIdle
    <2>2. StoreInv' /\ OutboxStep
        BY <1>0, <1>4, SubmitKeepsPromise
    <2> QED
        BY <1>0, <2>1, <2>2, PromiseFrame DEF PromiseInv
<1> QED
    BY <1>1, <1>2, <1>3, <1>4 DEF HttpTask

\* Every other step keeps the promise.
LEMMA OthersKeepPromise ==
    ASSUME FlashWorks, IInv, FinalInv, PromiseInv,
           RxTask \/ RadioTask \/ Reboot \/ (\E e \in Slots : TimePasses(e)) \/ UNCHANGED vars
    PROVE  PromiseInv' /\ OutboxStep
<1>0. StoreInv /\ AcceptedIsSaved /\ RequestsAreAccepted
    BY DEF PromiseInv
<1>1. CASE RxTask
    <2>1. UNCHANGED <<seq, seqNvs, http, aired, accepted, radioq, schedVars>>
        BY <1>1 DEF RxTask, tx_scheduler_acknowledge, RxAllocate, RxWrite, seqVars
    <2>2. StoreInv' /\ OutboxStep
        <3>1. ASSUME NEW id \in Ids, NEW source \in Nodes, tx_scheduler_acknowledge(id, source)
              PROVE  StoreInv' /\ OutboxStep
            <4>1. \E e \in Slots : EntryShape(e)
                BY <3>1, AcknowledgeShape DEF EntryShape, FinalStatuses
            <4> QED
                BY <1>0, <2>1, <4>1, ShapesKeepPromise
        <3>2. CASE RxAllocate
            <4>1. \E outcome \in NvsOutcomes :
                      AllocateFails(outcome) \/ \E s \in Slots : message_store_allocate(s, outcome)
                BY <3>2 DEF RxAllocate
            <4> QED
                BY <1>0, <2>1, <4>1, AllocationKeepsPromise
        <3> QED
            BY <1>0, <1>1, <3>1, <3>2, RxWriteKeepsPromise DEF RxTask
    <2> QED
        BY <1>0, <2>1, <2>2, PromiseFrame DEF PromiseInv
<1>2. CASE RadioTask
    <2>1. UNCHANGED <<seq, seqNvs, http, accepted, schedVars>> /\ radioq' \subseteq radioq
        BY <1>2 DEF RadioTask, Transmit, seqVars
    <2>2. StoreInv' /\ OutboxStep
        BY <1>0, <1>2, TransmitKeepsPromise DEF RadioTask
    <2> QED
        BY <1>0, <2>1, <2>2, PromiseFrame DEF PromiseInv
<1>3. CASE Reboot
    <2>1. /\ seqNvs' = seqNvs /\ accepted' = accepted /\ radioq' = {}
          /\ http'.pc = "idle" /\ sched'.pc = "drain"
        BY <1>3 DEF Reboot, HttpIdle
    <2>2. StoreInv' /\ OutboxStep
        BY <1>0, <1>3, RebootKeepsPromise
    <2>3. AcceptedIsSaved' /\ RequestsAreAccepted'
        BY <1>0, <2>1 DEF AcceptedIsSaved, RequestsAreAccepted
    <2> QED
        BY <2>2, <2>3 DEF PromiseInv
<1>4. CASE (\E e \in Slots : TimePasses(e)) \/ UNCHANGED vars
    <2>1. UNCHANGED <<ram, nvs, seq, seqNvs, http, aired, accepted, radioq, schedVars>>
        BY <1>4 DEF TimePasses, vars, storeVars, seqVars
    <2>2. StoreInv' /\ OutboxStep
        BY <1>0, <2>1, SameRecords, NoMailStep
    <2> QED
        BY <1>0, <2>1, <2>2, PromiseFrame DEF PromiseInv
<1> QED
    BY <1>1, <1>2, <1>3, <1>4

\* The first start: nothing accepted, nothing stored, nothing heard.
LEMMA InitPromise == Init => PromiseInv /\ Promise!OutboxInit
<1> SUFFICES ASSUME Init PROVE PromiseInv /\ Promise!OutboxInit
    OBVIOUS
<1>1. PromiseInv
    BY DEF Init, PromiseInv, StoreInv, RecordsAreOwn, OneEach, IsMail, AcceptedIsSaved,
           RequestsAreAccepted
<1>2. \A id \in Ids : Mail(id) = "new"
    BY DEF Init, Mail
<1>3. Heard = {}
    BY DEF Init, Heard
<1>4. Mails = [id \in Ids |-> "new"]
    BY <1>2 DEF Mails
<1> QED
    BY <1>1, <1>3, <1>4 DEF Promise!OutboxInit, Mails, Heard

\* The outgoing path implements the safety part of Outbox, when flash and
\* packet counter work: an accepted message stays pending until it is
\* delivered or given up, ends once, is dropped only after it has ended, is
\* called delivered only if it was on the air, and a power loss at any moment
\* changes nothing of this.
THEOREM PromiseIsKept ==
    ASSUME NvsOutcomes = {"ok"}, CounterOutcomes = {"ok"}
    PROVE  Spec => Promise!OutboxSafety
<1>0. FlashWorks /\ CounterWorks
    BY DEF FlashWorks, CounterWorks
<1>1. Init => FinalInv /\ PromiseInv /\ Promise!OutboxInit
    BY InitFinal, InitPromise
<1>2. IInv /\ FinalInv /\ [Next]_vars => FinalInv'
    BY <1>0, NextFinal
<1>3. IInv /\ FinalInv /\ PromiseInv /\ [Next]_vars => PromiseInv' /\ OutboxStep
    BY <1>0, HttpKeepsPromise, SchedulerKeepsPromise, OthersKeepPromise DEF Next
<1>4. OutboxStep => [Promise!OutboxNext]_(Promise!outboxVars)
    BY DEF OutboxStep, Promise!outboxVars, Mails, Heard
<1> QED
    BY <1>1, <1>2, <1>3, <1>4, Inductive, PTL DEF Spec, Promise!OutboxSafety
=============================================================================
