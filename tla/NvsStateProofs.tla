--------------------------- MODULE NvsStateProofs ---------------------------
(***************************************************************************)
(* The promises of the flash: the message store keeps its reservations,    *)
(* its durability and its deletions for any number of slots, tasks and     *)
(* messages, and the configuration is whole whatever cuts a save short.    *)
(***************************************************************************)
EXTENDS NvsState, LoopTheorems, FiniteSetTheorems

-----------------------------------------------------------------------------
(* The inductive invariant of the message store                            *)

\* What a slot holds, in RAM or in flash.
Held(s) == {ram[s], nvs[s]} \cap Message

ApiTypeOK ==
    /\ StoreTypeOK
    /\ holding \in [Tasks -> Slots \cup {NoSlot}]
    /\ identity \in Nodes
    /\ lastId \in 0 .. MaxId
    /\ doubtful \in SUBSET Slots

\* Ids are handed out in order, and the copies of a message stay in one slot.
IdsAreUnique ==
    /\ \A s \in Slots : \A m \in Held(s) : m.id <= lastId
    /\ \A d \in deleted : d \in Nat /\ d <= lastId
    /\ \A s, t \in Slots : \A m \in Held(s), k \in Held(t) : m.id = k.id => s = t

StoreIInv ==
    /\ ApiTypeOK /\ ReservationsExact /\ CleanSlotIsDurable
    /\ IdsAreUnique /\ DeletedStaysDeleted

-----------------------------------------------------------------------------
(* The slots the operations choose                                         *)

\* Slots are numbers, and -1 is none of them.
LEMMA SlotsAreNatural == Slots \subseteq Nat /\ NoSlot \notin Slots
  BY StoreAssumption DEF Slots, NoSlot

\* The first free slot is free.
LEMMA FirstFree ==
    ASSUME FreeSlots # {}
    PROVE  Min(FreeSlots) \in FreeSlots
  BY MinIsLeast, SlotsAreNatural DEF FreeSlots

\* The oldest finished record is one of the finished records.
LEMMA OldestIsEvictable ==
    ASSUME StoreTypeOK, Evictable # {}
    PROVE  OldestSlot \in Evictable
  <1> DEFINE dated == {s \in Evictable : ram[s].stored_epoch # 0}
             epochs == {ram[s].stored_epoch : s \in dated}
             oldest == {s \in dated : ram[s].stored_epoch = Min(epochs)}
  <1>1. Evictable \in SUBSET Nat
    BY SlotsAreNatural DEF Evictable
  <1>2. CASE dated = {}
    BY <1>1, <1>2, MinIsLeast DEF OldestSlot
  <1>3. CASE dated # {}
    <2>1. epochs \in SUBSET Nat /\ epochs # {}
      <3>1. \A s \in dated : ram[s] \in Message
        BY DEF StoreTypeOK, Evictable
      <3>2. \A m \in Message : m.stored_epoch \in Nat
        BY StoreAssumption DEF Message
      <3> QED
        BY <1>3, <3>1, <3>2
    <2>2. Min(epochs) \in epochs
      BY <2>1, MinIsLeast
    <2>3. oldest \in SUBSET Nat /\ oldest # {}
      BY <1>1, <2>2
    <2>4. Min(oldest) \in oldest
      BY <2>3, MinIsLeast
    <2> QED
      BY <1>3, <2>4 DEF OldestSlot
  <1> QED
    BY <1>2, <1>3

\* The slot that is found holds a record.
LEMMA FoundSlot ==
    ASSUME NEW id, NEW source, find_message_slot(id, source) >= 0
    PROVE  /\ find_message_slot(id, source) \in Slots
           /\ ram[find_message_slot(id, source)] # NoMessage
  <1> DEFINE matching == {s \in Slots : /\ ram[s] # NoMessage
                                        /\ ram[s].id = id
                                        /\ ram[s].source = source}
  <1>1. matching # {}
    BY DEF find_message_slot
  <1>2. matching \in SUBSET Nat
    BY SlotsAreNatural
  <1>3. Min(matching) \in matching
    BY <1>1, <1>2, MinIsLeast
  <1> QED
    BY <1>1, <1>3 DEF find_message_slot

-----------------------------------------------------------------------------
(* Writing and erasing a record                                            *)

\* Erasing is writing NoMessage.
LEMMA DeleteIsWrite ==
    ASSUME NEW s, NEW outcome, delete_record_locked(s, outcome)
    PROVE  write_record_locked(s, NoMessage, outcome)
  BY DEF delete_record_locked, write_record_locked

\* Writing a record keeps the count exact.
LEMMA WriteTyped ==
    ASSUME StoreTypeOK, NEW s \in Slots, NEW m \in Message \cup {NoMessage}, NEW outcome,
           write_record_locked(s, m, outcome), reserved' \in SUBSET Slots
    PROVE  StoreTypeOK'
  <1>1. /\ ram' \in [Slots -> Message \cup {NoMessage}]
        /\ nvs' \in [Slots -> Message \cup {NoMessage, Corrupt}]
    BY DEF write_record_locked, StoreTypeOK
  <1> QED
    BY <1>1
    DEF write_record_locked, recalculate_active_count, ActiveCount, StoreTypeOK

\* A write leaves flash and RAM the same, or its slot in doubt.
LEMMA WriteIsDurable ==
    ASSUME ApiTypeOK, CleanSlotIsDurable, NEW s \in Slots, NEW m, NEW outcome \in NvsOutcomes,
           write_record_locked(s, m, outcome), Touched(s, outcome)
    PROVE  CleanSlotIsDurable' /\ doubtful' \in SUBSET Slots
  <1>1. ASSUME NEW t \in Slots, t \notin doubtful' PROVE nvs'[t] = ram'[t]
    <2>1. CASE outcome = "ok"
      BY <1>1, <2>1
      DEF ApiTypeOK, StoreTypeOK, CleanSlotIsDurable, write_record_locked, Touched
    <2>2. CASE outcome # "ok"
      BY <1>1, <2>2
      DEF ApiTypeOK, StoreTypeOK, CleanSlotIsDurable, write_record_locked, Touched
    <2> QED
      BY <2>1, <2>2
  <1> QED
    BY <1>1 DEF CleanSlotIsDurable, ApiTypeOK, Touched

\* A write brings only the record written into the slot; a successful erase
\* leaves nothing.
LEMMA WriteHeld ==
    ASSUME StoreTypeOK, NEW s \in Slots, NEW m, NEW outcome,
           write_record_locked(s, m, outcome)
    PROVE  /\ \A t \in Slots : \A k \in Held(t)' : k \in Held(t) \/ (t = s /\ k = m)
           /\ m = NoMessage /\ outcome = "ok" => Held(s)' = {}
  BY StoreAssumption DEF StoreTypeOK, write_record_locked, Held

\* Where no record changes, the same messages are held.
LEMMA UnchangedHeld ==
    ASSUME UNCHANGED <<ram, nvs>>
    PROVE  \A t \in Slots : Held(t)' = Held(t)
  BY DEF Held

\* What a slot holds is a message.
LEMMA HeldTyped == \A s \in Slots : \A m \in Held(s) : m \in Message /\ m.id \in Nat
  BY StoreAssumption DEF Held, Message

\* DeletedStaysDeleted, in terms of Held.
LEMMA DeletedByHeld ==
    ASSUME StoreTypeOK
    PROVE  DeletedStaysDeleted <=> \A s \in Slots : \A m \in Held(s) : m.id \notin deleted
  BY StoreAssumption DEF StoreTypeOK, DeletedStaysDeleted, Held

\* One slot changes, by an old message, a new one or none: ids stay unique, and
\* a deleted one does not come back.
LEMMA IdsStay ==
    ASSUME StoreIInv, StoreTypeOK', lastId' \in Nat, lastId <= lastId',
           NEW s \in Slots, NEW m,
           \A t \in Slots : \A k \in Held(t)' : k \in Held(t) \/ (t = s /\ k = m),
           m \in Message => \/ \E k \in Held(s) : k.id = m.id
                            \/ m.id > lastId /\ m.id <= lastId',
           \/ deleted' = deleted
           \/ \E k \in Held(s) : deleted' = deleted \cup {k.id} /\ Held(s)' = {}
    PROVE  IdsAreUnique' /\ DeletedStaysDeleted'
  <1>1. lastId \in Nat /\ StoreTypeOK
    BY ApiAssumption DEF StoreIInv, ApiTypeOK
  <1>2. ASSUME NEW t \in Slots, NEW k \in Held(t)'
        PROVE  /\ k \in Message /\ k.id \in Nat /\ k.id <= lastId' /\ k.id \notin deleted
               /\ \/ \E h \in Held(t) : h.id = k.id
                  \/ t = s /\ k.id > lastId
    <2>0. k \in Message /\ k.id \in Nat
      BY <1>2, StoreAssumption DEF Held, Message
    <2>1. ASSUME NEW h \in Held(t), h.id = k.id
          PROVE  k.id <= lastId' /\ k.id \notin deleted
      BY <1>1, <2>0, <2>1, DeletedByHeld DEF StoreIInv, IdsAreUnique
    <2>2. ASSUME t = s, k.id > lastId, k.id <= lastId'
          PROVE  k.id \notin deleted
      BY <1>1, <2>0, <2>2 DEF StoreIInv, IdsAreUnique
    <2> QED
      BY <2>0, <2>1, <2>2
  <1>3. IdsAreUnique'
    <2>1. ASSUME NEW d \in deleted' PROVE d \in Nat /\ d <= lastId'
      <3>1. d \in deleted \/ \E k \in Held(s) : d = k.id
        OBVIOUS
      <3> QED
        BY <1>1, <3>1, HeldTyped DEF StoreIInv, IdsAreUnique
    <2>2. ASSUME NEW t \in Slots, NEW u \in Slots, NEW k \in Held(t)', NEW h \in Held(u)',
                 k.id = h.id
          PROVE  t = u
      <3>1. k.id \in Nat /\ \A x \in Slots : \A y \in Held(x) : y.id <= lastId
        BY <1>2 DEF StoreIInv, IdsAreUnique
      <3>2. \A x, y \in Slots : \A a \in Held(x), b \in Held(y) : a.id = b.id => x = y
        BY DEF StoreIInv, IdsAreUnique
      <3> QED
        BY <1>1, <1>2, <2>2, <3>1, <3>2
    <2> QED
      BY <1>2, <2>1, <2>2 DEF IdsAreUnique
  <1>4. ASSUME NEW t \in Slots, NEW k \in Held(t)' PROVE k.id \notin deleted'
    <2>1. CASE deleted' = deleted
      BY <1>2, <2>1
    <2>2. ASSUME NEW h \in Held(s), deleted' = deleted \cup {h.id}, Held(s)' = {}
          PROVE  k.id \notin deleted'
      <3>1. t # s
        BY <2>2
      <3>2. k \in Held(t)
        BY <3>1
      <3>3. k.id # h.id
        BY <3>1, <3>2 DEF StoreIInv, IdsAreUnique
      <3> QED
        BY <1>2, <2>2, <3>3
    <2> QED
      BY <2>1, <2>2
  <1>5. DeletedStaysDeleted'
    <2>1. (StoreTypeOK => (DeletedStaysDeleted <=>
              \A t \in Slots : \A k \in Held(t) : k.id \notin deleted))'
      BY StoreAssumption DEF StoreTypeOK, DeletedStaysDeleted, Held
    <2> QED
      BY <1>4, <2>1
  <1> QED
    BY <1>3, <1>5

-----------------------------------------------------------------------------
(* Reservations                                                            *)

\* Reservations nobody touches stay exact.
LEMMA ReservationsStay ==
    ASSUME StoreIInv, UNCHANGED <<reserved, holding>>, \A s \in reserved : ram'[s] = ram[s]
    PROVE  ReservationsExact'
  BY DEF StoreIInv, ReservationsExact

\* A task without a reservation gets one.
LEMMA ReservationsGrow ==
    ASSUME StoreIInv, NEW t \in Tasks, holding[t] = NoSlot, NEW s \in Slots, s \notin reserved,
           holding' = [holding EXCEPT ![t] = s], reserved' = reserved \cup {s},
           ram'[s] = NoMessage, \A r \in reserved : ram'[r] = ram[r]
    PROVE  ReservationsExact' /\ holding' \in [Tasks -> Slots \cup {NoSlot}]
  <1>1. holding' \in [Tasks -> Slots \cup {NoSlot}] /\ s # NoSlot
    BY SlotsAreNatural DEF StoreIInv, ApiTypeOK
  <1>2. \A u \in Tasks : holding[u] # s
    BY <1>1 DEF StoreIInv, ReservationsExact
  <1>3. \A u \in Tasks : holding'[u] = IF u = t THEN s ELSE holding[u]
    BY DEF StoreIInv, ApiTypeOK
  <1>4. reserved' = {holding'[u] : u \in Tasks} \ {NoSlot}
    BY <1>1, <1>3 DEF StoreIInv, ReservationsExact
  <1>5. \A u, v \in Tasks : u # v /\ holding'[u] # NoSlot => holding'[u] # holding'[v]
    BY <1>1, <1>2, <1>3 DEF StoreIInv, ReservationsExact
  <1> QED
    BY <1>1, <1>4, <1>5 DEF StoreIInv, ReservationsExact

\* A task gives its reservation back.
LEMMA ReservationsShrink ==
    ASSUME StoreIInv, NEW t \in Tasks, holding[t] # NoSlot,
           holding' = [holding EXCEPT ![t] = NoSlot], reserved' = reserved \ {holding[t]},
           \A r \in reserved' : ram'[r] = ram[r]
    PROVE  ReservationsExact' /\ holding' \in [Tasks -> Slots \cup {NoSlot}]
  <1>1. holding' \in [Tasks -> Slots \cup {NoSlot}]
    BY DEF StoreIInv, ApiTypeOK
  <1>2. \A u \in Tasks : holding'[u] = IF u = t THEN NoSlot ELSE holding[u]
    BY DEF StoreIInv, ApiTypeOK
  <1>3. \A u \in Tasks : u # t => holding[u] # holding[t]
    BY DEF StoreIInv, ReservationsExact
  <1>4. reserved' = {holding'[u] : u \in Tasks} \ {NoSlot}
    BY <1>2, <1>3 DEF StoreIInv, ReservationsExact
  <1>5. \A u, v \in Tasks : u # v /\ holding'[u] # NoSlot => holding'[u] # holding'[v]
    BY <1>2 DEF StoreIInv, ReservationsExact
  <1> QED
    BY <1>1, <1>4, <1>5 DEF StoreIInv, ReservationsExact

\* A reservation is for an empty slot.
LEMMA HeldReservation ==
    ASSUME StoreIInv, NEW t \in Tasks, holding[t] # NoSlot
    PROVE  holding[t] \in Slots /\ holding[t] \in reserved /\ ram[holding[t]] = NoMessage
  BY DEF StoreIInv, ApiTypeOK, ReservationsExact

-----------------------------------------------------------------------------
(* One lemma per action of the store                                       *)

\* At the start flash holds nothing, or records of an older format.
LEMMA StoreInitially == StoreInit => StoreIInv
  <1> SUFFICES ASSUME StoreInit PROVE StoreIInv
    OBVIOUS
  <1>1. {x \in Slots : ram[x] # NoMessage} = {}
    BY DEF StoreInit
  <1>2. StoreTypeOK
    <2>1. active_count = Cardinality({x \in Slots : ram[x] # NoMessage})
      BY <1>1, FS_EmptySet DEF StoreInit
    <2> QED
      BY <2>1 DEF StoreInit, StoreTypeOK
  <1>3. ApiTypeOK
    BY <1>2, ApiAssumption DEF StoreInit, ApiTypeOK
  <1>4. ReservationsExact /\ CleanSlotIsDurable
    BY DEF StoreInit, ReservationsExact, CleanSlotIsDurable
  <1>5. \A x \in Slots : Held(x) = {}
    BY StoreAssumption DEF StoreInit, Held
  <1>6. IdsAreUnique /\ DeletedStaysDeleted
    BY <1>2, <1>5, DeletedByHeld DEF IdsAreUnique, StoreInit
  <1> QED
    BY <1>3, <1>4, <1>6 DEF StoreIInv

\* message_store_allocate, with or without an eviction.
LEMMA AllocatePreserves ==
    ASSUME StoreIInv, NEW t \in Tasks, Allocate(t)
    PROVE  StoreIInv'
  <1>1. PICK s \in Slots, outcome \in NvsOutcomes :
            /\ message_store_allocate(s, outcome)
            /\ holding' = [holding EXCEPT ![t] = s]
            /\ DeletionOf(s, "ok")
            /\ doubtful' = IF FreeSlots = {} THEN doubtful \ {s} ELSE doubtful
    BY DEF Allocate
  <1>2. holding[t] = NoSlot /\ UNCHANGED <<identity, lastId>> /\ reserved' = reserved \cup {s}
    BY <1>1 DEF Allocate, message_store_allocate
  <1>3. reserved' \in SUBSET Slots /\ StoreTypeOK /\ lastId \in Nat
    BY <1>2, ApiAssumption DEF StoreIInv, ApiTypeOK, StoreTypeOK
  <1>4. CASE FreeSlots # {}
    <2>1. s \in FreeSlots /\ UNCHANGED <<ram, nvs, active_count>>
      BY <1>1, <1>4, FirstFree DEF message_store_allocate
    <2>2. s \notin reserved /\ ram[s] = NoMessage
      BY <2>1 DEF FreeSlots
    <2>3. ReservationsExact' /\ holding' \in [Tasks -> Slots \cup {NoSlot}]
      BY <1>1, <1>2, <2>1, <2>2, ReservationsGrow
    <2>4. StoreTypeOK' /\ UNCHANGED <<doubtful, deleted>>
      BY <1>1, <1>3, <1>4, <2>1, <2>2 DEF StoreTypeOK, DeletionOf
    <2>5. IdsAreUnique' /\ DeletedStaysDeleted'
      BY <1>2, <1>3, <2>1, <2>4, UnchangedHeld
      DEF StoreIInv, IdsAreUnique, DeletedStaysDeleted
    <2> QED
      BY <1>2, <2>1, <2>3, <2>4, <2>5 DEF StoreIInv, ApiTypeOK, CleanSlotIsDurable
  <1>5. CASE FreeSlots = {}
    <2>1. /\ Evictable # {} /\ s = OldestSlot /\ outcome = "ok"
          /\ write_record_locked(s, NoMessage, outcome)
      BY <1>1, <1>5, DeleteIsWrite DEF message_store_allocate
    <2>2. s \notin reserved /\ ram[s] # NoMessage
      BY <1>3, <2>1, OldestIsEvictable DEF Evictable
    <2>3. ReservationsExact' /\ holding' \in [Tasks -> Slots \cup {NoSlot}]
      <3>1. ram' = [ram EXCEPT ![s] = NoMessage] /\ ram \in [Slots -> Message \cup {NoMessage}]
        BY <1>3, <2>1 DEF write_record_locked, StoreTypeOK
      <3>2. ram'[s] = NoMessage /\ \A r \in reserved : ram'[r] = ram[r]
        BY <1>3, <2>2, <3>1 DEF StoreTypeOK
      <3> QED
        BY <1>1, <1>2, <2>2, <3>2, ReservationsGrow
    <2>4. StoreTypeOK' /\ CleanSlotIsDurable' /\ doubtful' \in SUBSET Slots
      BY <1>1, <1>3, <1>5, <2>1, WriteTyped, WriteIsDurable DEF StoreIInv, Touched
    <2>5. /\ \A x \in Slots : \A k \in Held(x)' : k \in Held(x) \/ (x = s /\ k = NoMessage)
          /\ Held(s)' = {}
      BY <1>3, <2>1, WriteHeld
    <2>6. \E k \in Held(s) : deleted' = deleted \cup {k.id}
      BY <1>1, <1>3, <2>2 DEF Held, StoreTypeOK, DeletionOf
    <2>7. IdsAreUnique' /\ DeletedStaysDeleted'
      BY <1>2, <1>3, <2>4, <2>5, <2>6, IdsStay, StoreAssumption
    <2> QED
      BY <1>2, <2>3, <2>4, <2>7 DEF StoreIInv, ApiTypeOK
  <1> QED
    BY <1>4, <1>5

\* A slot that nobody reserved is written, or erased with success or not, and
\* what was written is a newer state of what the slot held.
LEMMA ChangePreserves ==
    ASSUME StoreIInv, NEW s \in Slots, s \notin reserved, NEW m \in Message \cup {NoMessage},
           NEW outcome \in NvsOutcomes, write_record_locked(s, m, outcome), Touched(s, outcome),
           m \in Message => \E k \in Held(s) : k.id = m.id,
           \/ deleted' = deleted
           \/ /\ m = NoMessage /\ outcome = "ok" /\ ram[s] # NoMessage
              /\ deleted' = deleted \cup {ram[s].id},
           UNCHANGED <<reserved, identity, holding, lastId>>
    PROVE  StoreIInv'
  <1>1. StoreTypeOK /\ reserved' \in SUBSET Slots /\ lastId \in Nat
    BY ApiAssumption DEF StoreIInv, ApiTypeOK, StoreTypeOK
  <1>2. StoreTypeOK' /\ CleanSlotIsDurable' /\ doubtful' \in SUBSET Slots
    BY <1>1, WriteTyped, WriteIsDurable DEF StoreIInv
  <1>3. ReservationsExact'
    <2>1. \A r \in reserved : ram'[r] = ram[r]
      BY <1>1 DEF write_record_locked, StoreTypeOK
    <2> QED
      BY <2>1, ReservationsStay
  <1>4. /\ \A x \in Slots : \A k \in Held(x)' : k \in Held(x) \/ (x = s /\ k = m)
        /\ m = NoMessage /\ outcome = "ok" => Held(s)' = {}
    BY <1>1, WriteHeld
  <1>5. \/ deleted' = deleted
        \/ \E k \in Held(s) : deleted' = deleted \cup {k.id} /\ Held(s)' = {}
    BY <1>1, <1>4 DEF Held, StoreTypeOK
  <1>6. IdsAreUnique' /\ DeletedStaysDeleted'
    BY <1>1, <1>2, <1>4, <1>5, IdsStay
  <1> QED
    BY <1>2, <1>3, <1>6 DEF StoreIInv, ApiTypeOK

\* A step that changes reservations alone.
LEMMA IdleStore ==
    ASSUME StoreIInv, UNCHANGED <<ram, nvs, active_count, identity, lastId, doubtful, deleted>>,
           reserved' \in SUBSET Slots, ReservationsExact',
           holding' \in [Tasks -> Slots \cup {NoSlot}]
    PROVE  StoreIInv'
  <1>1. IdsAreUnique' /\ DeletedStaysDeleted'
    BY UnchangedHeld DEF StoreIInv, IdsAreUnique, DeletedStaysDeleted
  <1> QED
    BY <1>1 DEF StoreIInv, ApiTypeOK, StoreTypeOK, CleanSlotIsDurable

\* An allocation that fails, in flash or for want of room.
LEMMA AllocateDeniedPreserves ==
    ASSUME StoreIInv, NEW t \in Tasks, AllocateDenied(t)
    PROVE  StoreIInv'
  <1>1. PICK outcome \in NvsOutcomes :
            /\ AllocateFails(outcome)
            /\ IF Evictable = {} THEN UNCHANGED doubtful ELSE Touched(OldestSlot, outcome)
    BY DEF AllocateDenied
  <1>2. UNCHANGED <<identity, holding, lastId, deleted, reserved>>
    BY <1>1 DEF AllocateDenied, AllocateFails
  <1>3. CASE Evictable = {}
    <2>1. UNCHANGED <<ram, nvs, active_count, doubtful>>
      BY <1>1, <1>3 DEF AllocateFails
    <2>2. ReservationsExact' /\ reserved' \in SUBSET Slots /\ holding' \in [Tasks -> Slots \cup {NoSlot}]
      BY <1>2, <2>1, ReservationsStay DEF StoreIInv, ApiTypeOK, StoreTypeOK
    <2> QED
      BY <1>2, <2>1, <2>2, IdleStore
  <1>4. CASE Evictable # {}
    <2>1. PICK s \in Slots \ reserved : s = OldestSlot
      BY <1>4, OldestIsEvictable DEF StoreIInv, ApiTypeOK, Evictable
    <2>2. write_record_locked(s, NoMessage, outcome) /\ Touched(s, outcome)
      BY <1>1, <1>4, <2>1, DeleteIsWrite DEF AllocateFails
    <2> QED
      BY <1>2, <2>1, <2>2, ChangePreserves, StoreAssumption
  <1> QED
    BY <1>3, <1>4

\* A new message is a message.
LEMMA NewMessageTyped ==
    ASSUME NEW id \in 1 .. MaxId, NEW node \in Nodes, NEW m \in NewMessages(id, node)
    PROVE  m \in Message /\ m.id = id
  BY ApiAssumption DEF NewMessages, Message, Statuses

\* message_store_write to the slot reserved before.
LEMMA WritePreserves ==
    ASSUME StoreIInv, NEW t \in Tasks, Write(t)
    PROVE  StoreIInv'
  <1>1. PICK id \in 1 .. MaxId : id = lastId + 1
    BY ApiAssumption DEF StoreIInv, ApiTypeOK, Write
  <1>2. PICK m \in NewMessages(id, identity), outcome \in NvsOutcomes :
            /\ message_store_write(holding[t], m, outcome)
            /\ Touched(holding[t], outcome)
    BY <1>1 DEF Write
  <1>3. PICK s \in Slots : s = holding[t] /\ s \in reserved /\ ram[s] = NoMessage
    BY HeldReservation DEF Write
  <1>4. /\ write_record_locked(s, m, outcome) /\ Touched(s, outcome)
        /\ reserved' = reserved \ {s}
    BY <1>2, <1>3 DEF message_store_write
  <1>5. m \in Message /\ m.id = id
    BY NewMessageTyped DEF StoreIInv, ApiTypeOK
  <1>6. /\ StoreTypeOK /\ reserved' \in SUBSET Slots /\ lastId \in Nat
        /\ lastId' = id /\ UNCHANGED <<identity, deleted>> /\ holding' = [holding EXCEPT ![t] = NoSlot]
    BY <1>1, <1>4, ApiAssumption DEF StoreIInv, ApiTypeOK, StoreTypeOK, Write
  <1>7. StoreTypeOK' /\ CleanSlotIsDurable' /\ doubtful' \in SUBSET Slots
    BY <1>4, <1>5, <1>6, WriteTyped, WriteIsDurable DEF StoreIInv
  <1>8. ReservationsExact' /\ holding' \in [Tasks -> Slots \cup {NoSlot}]
    <2>1. \A r \in reserved' : ram'[r] = ram[r]
      BY <1>4, <1>6 DEF write_record_locked, StoreTypeOK
    <2> QED
      BY <1>3, <1>4, <1>6, <2>1, ReservationsShrink DEF Write
  <1>9. \A x \in Slots : \A k \in Held(x)' : k \in Held(x) \/ (x = s /\ k = m)
    BY <1>4, <1>6, WriteHeld
  <1>10. IdsAreUnique' /\ DeletedStaysDeleted'
    <2>1. lastId' \in Nat /\ lastId <= lastId' /\ m.id > lastId /\ m.id <= lastId'
      BY <1>1, <1>5, <1>6
    <2> QED
      BY <1>6, <1>7, <1>9, <2>1, IdsStay
  <1> QED
    BY <1>1, <1>6, <1>7, <1>8, <1>10 DEF StoreIInv, ApiTypeOK

\* A reservation given back unused.
LEMMA ReleasePreserves ==
    ASSUME StoreIInv, NEW t \in Tasks, Release(t)
    PROVE  StoreIInv'
  <1>1. PICK outcome \in NvsOutcomes : message_store_delete(holding[t], outcome)
    BY DEF Release
  <1>2. holding[t] \in reserved /\ ram[holding[t]] = NoMessage /\ holding[t] # NoSlot
    BY HeldReservation DEF Release
  <1>3. reserved' = reserved \ {holding[t]} /\ UNCHANGED <<ram, nvs, active_count>>
    BY <1>1, <1>2 DEF message_store_delete
  <1>4. ReservationsExact' /\ holding' \in [Tasks -> Slots \cup {NoSlot}]
    BY <1>2, <1>3, ReservationsShrink DEF Release
  <1>5. reserved' \in SUBSET Slots
    BY <1>3 DEF StoreIInv, ApiTypeOK, StoreTypeOK
  <1> QED
    BY <1>3, <1>4, <1>5, IdleStore DEF Release

\* A message with another status is the same message.
LEMMA NewStatus ==
    ASSUME NEW m \in Message, NEW status \in Statuses
    PROVE  [m EXCEPT !.status = status] \in Message /\ [m EXCEPT !.status = status].id = m.id
  BY DEF Message

\* message_store_update.
LEMMA UpdatePreserves ==
    ASSUME StoreIInv, NEW s \in Slots, Update(s)
    PROVE  StoreIInv'
  <1>1. PICK status \in Statuses, outcome \in NvsOutcomes :
            /\ message_store_update(s, [ram[s] EXCEPT !.status = status], outcome)
            /\ Touched(s, outcome)
    BY DEF Update, Statuses
  <1>2. ram[s] \in Message /\ ram[s] \in Held(s) /\ s \notin reserved /\ ram[s] # NoMessage
    BY DEF Update, StoreIInv, ApiTypeOK, StoreTypeOK, Held, ReservationsExact
  <1>3. PICK m \in Message : m = [ram[s] EXCEPT !.status = status] /\ m.id = ram[s].id
    BY <1>2, NewStatus
  <1>4. write_record_locked(s, m, outcome) /\ UNCHANGED reserved
    BY <1>1, <1>2, <1>3 DEF message_store_update
  <1>5. UNCHANGED <<reserved, identity, holding, lastId, deleted>>
    BY <1>4 DEF Update
  <1> QED
    BY <1>1, <1>2, <1>3, <1>4, <1>5, ChangePreserves

\* message_store_update_status.
LEMMA UpdateStatusPreserves ==
    ASSUME StoreIInv, NEW id, NEW source, UpdateStatus(id, source)
    PROVE  StoreIInv'
  <1>1. PICK s \in Slots : s = find_message_slot(id, source) /\ ram[s] # NoMessage
    BY FoundSlot DEF UpdateStatus
  <1>2. PICK outcome \in NvsOutcomes :
            message_store_update_status(id, source, "FAILED", outcome) /\ Touched(s, outcome)
    BY <1>1 DEF UpdateStatus
  <1>3. ram[s] \in Message /\ ram[s] \in Held(s) /\ s \notin reserved
    BY <1>1 DEF StoreIInv, ApiTypeOK, StoreTypeOK, Held, ReservationsExact
  <1>4. PICK m \in Message : m = [ram[s] EXCEPT !.status = "FAILED"] /\ m.id = ram[s].id
    BY <1>3, NewStatus DEF Statuses, FailedStatuses
  <1>5. s >= 0
    BY <1>1 DEF UpdateStatus
  <1>6. write_record_locked(s, m, outcome) /\ UNCHANGED <<reserved, identity, holding, lastId, deleted>>
    BY <1>1, <1>2, <1>4, <1>5 DEF message_store_update_status, UpdateStatus
  <1> QED
    BY <1>2, <1>3, <1>4, <1>6, ChangePreserves

\* message_store_delete.
LEMMA DeletePreserves ==
    ASSUME StoreIInv, NEW s \in Slots, Delete(s)
    PROVE  StoreIInv'
  <1>1. PICK outcome \in NvsOutcomes : /\ message_store_delete(s, outcome)
                                       /\ DeletionOf(s, outcome)
                                       /\ Touched(s, outcome)
    BY DEF Delete
  <1>2. /\ s \notin reserved
        /\ write_record_locked(s, NoMessage, outcome) /\ UNCHANGED <<reserved, identity, holding, lastId>>
    BY <1>1, DeleteIsWrite DEF Delete, message_store_delete
  <1> QED
    BY <1>1, <1>2, ChangePreserves, StoreAssumption DEF DeletionOf

\* message_store_remove by id and source.
LEMMA RemoveByIdPreserves ==
    ASSUME StoreIInv, NEW id, NEW source, RemoveById(id, source)
    PROVE  StoreIInv'
  <1>1. PICK s \in Slots : s = find_message_slot(id, source) /\ ram[s] # NoMessage /\ s >= 0
    BY FoundSlot DEF RemoveById
  <1>2. PICK outcome \in NvsOutcomes :
            /\ message_store_remove(id, source, outcome)
            /\ DeletionOf(s, outcome)
            /\ Touched(s, outcome)
    BY <1>1 DEF RemoveById
  <1>3. /\ s \notin reserved
        /\ write_record_locked(s, NoMessage, outcome) /\ UNCHANGED <<reserved, identity, holding, lastId>>
    BY <1>1, <1>2, DeleteIsWrite
    DEF RemoveById, message_store_remove, StoreIInv, ReservationsExact
  <1> QED
    BY <1>2, <1>3, ChangePreserves, StoreAssumption DEF DeletionOf

\* A restart keeps what flash holds for the node it starts as.
LEMMA RebootPreserves ==
    ASSUME StoreIInv, NEW node \in Nodes, Reboot(node)
    PROVE  StoreIInv'
  <1>1. PICK readable \in BOOLEAN :
            /\ message_store_load_messages_from_nvs(node, readable)
            /\ doubtful' = {s \in Slots : /\ nvs[s] # NoMessage
                                          /\ \/ ~readable
                                             \/ nvs[s] = Corrupt
                                             \/ node \notin {nvs[s].source, nvs[s].destination}}
    BY DEF Reboot, Readable
  <1>2. /\ nvs' = nvs /\ reserved' = {} /\ holding' = [t \in Tasks |-> NoSlot]
        /\ identity' \in Nodes /\ UNCHANGED <<lastId, deleted>>
    BY <1>1 DEF Reboot, message_store_load_messages_from_nvs
  <1>3. ASSUME NEW s \in Slots
        PROVE  /\ ram'[s] \in Message => ram'[s] = nvs[s]
               /\ ram'[s] \in Message \cup {NoMessage}
               /\ s \notin doubtful' => ram'[s] = nvs[s]
    <2>1. nvs[s] \in Message \cup {NoMessage, Corrupt}
      BY DEF StoreIInv, ApiTypeOK, StoreTypeOK
    <2>2. ram'[s] = IF readable THEN load_persisted_slot(nvs[s], node) ELSE NoMessage
      BY <1>1 DEF message_store_load_messages_from_nvs
    <2> QED
      BY <1>1, <2>1, <2>2, StoreAssumption DEF load_persisted_slot
  <1>4. StoreTypeOK'
    <2>1. ram' \in [Slots -> Message \cup {NoMessage}]
      BY <1>1, <1>3 DEF message_store_load_messages_from_nvs
    <2> QED
      BY <1>1, <1>2, <2>1
      DEF StoreIInv, ApiTypeOK, StoreTypeOK, message_store_load_messages_from_nvs,
          recalculate_active_count, ActiveCount
  <1>5. ApiTypeOK' /\ ReservationsExact' /\ CleanSlotIsDurable'
    BY <1>1, <1>2, <1>3, <1>4
    DEF StoreIInv, ApiTypeOK, ReservationsExact, CleanSlotIsDurable
  <1>6. \A s \in Slots : Held(s)' \subseteq Held(s)
    BY <1>2, <1>3 DEF Held
  <1>7. IdsAreUnique' /\ DeletedStaysDeleted'
    <2>1. 0 \in Slots /\ lastId \in Nat /\ NoMessage \notin Message
      BY StoreAssumption, ApiAssumption DEF Slots, StoreIInv, ApiTypeOK
    <2> QED
      BY <1>2, <1>4, <1>6, <2>1, IdsStay
  <1> QED
    BY <1>5, <1>7 DEF StoreIInv

\* A factory reset takes blobs away and puts the slots that had one in doubt.
LEMMA ErasedPreserves ==
    ASSUME StoreIInv, NEW kept \in SUBSET Slots, NamespaceErased(kept)
    PROVE  StoreIInv'
  <1>1. /\ nvs' = [s \in Slots |-> IF s \in kept THEN nvs[s] ELSE NoMessage]
        /\ doubtful' = (doubtful \cap kept) \cup {s \in Slots \ kept : ram[s] # NoMessage}
        /\ UNCHANGED <<ram, reserved, active_count, identity, holding, lastId, deleted>>
    BY DEF NamespaceErased
  <1>2. StoreTypeOK'
    BY <1>1 DEF StoreIInv, ApiTypeOK, StoreTypeOK
  <1>3. ApiTypeOK' /\ ReservationsExact'
    BY <1>1, <1>2 DEF StoreIInv, ApiTypeOK, ReservationsExact
  <1>4. CleanSlotIsDurable'
    BY <1>1 DEF StoreIInv, CleanSlotIsDurable
  <1>5. \A s \in Slots : Held(s)' \subseteq Held(s)
    BY <1>1, StoreAssumption DEF Held
  <1>6. IdsAreUnique' /\ DeletedStaysDeleted'
    <2>1. 0 \in Slots /\ lastId \in Nat /\ NoMessage \notin Message
      BY StoreAssumption, ApiAssumption DEF Slots, StoreIInv, ApiTypeOK
    <2> QED
      BY <1>1, <1>2, <1>5, <2>1, IdsStay
  <1> QED
    BY <1>3, <1>4, <1>6 DEF StoreIInv

\* Every step of the store keeps the invariant.
LEMMA StoreStepPreserves == StoreIInv /\ [StoreNext]_apiVars => StoreIInv'
  <1> SUFFICES ASSUME StoreIInv, [StoreNext]_apiVars PROVE StoreIInv'
    OBVIOUS
  <1>1. CASE UNCHANGED apiVars
    <2>1. UNCHANGED <<ram, nvs, reserved, active_count, identity, holding, lastId, doubtful, deleted>>
      BY <1>1 DEF apiVars, storeVars
    <2>2. ReservationsExact' /\ reserved' \in SUBSET Slots /\ holding' \in [Tasks -> Slots \cup {NoSlot}]
      BY <2>1 DEF StoreIInv, ReservationsExact, ApiTypeOK, StoreTypeOK
    <2> QED
      BY <2>1, <2>2, IdleStore
  <1>2. CASE StoreNext
    BY <1>2, AllocatePreserves, AllocateDeniedPreserves, WritePreserves, ReleasePreserves,
       UpdatePreserves, DeletePreserves, UpdateStatusPreserves, RemoveByIdPreserves,
       RebootPreserves, ErasedPreserves
    DEF StoreNext, StoreOperation
  <1> QED
    BY <1>1, <1>2

\* The invariant of the store holds throughout.
LEMMA StoreInductive == StoreSpec => []StoreIInv
  BY StoreInitially, StoreStepPreserves, PTL DEF StoreSpec

-----------------------------------------------------------------------------
(* The eviction loop                                                       *)

\* One round, and the result after the slots below n.
Start0 == [slot |-> NoSlot, epoch |-> 0]
Round(best, s) == IF s \in Evictable THEN ScanStep(best, s) ELSE best

\* The loop's variables are defined for every number of rounds.
LEMMA ScanExists ==
    ASSUME NEW k \in Nat
    PROVE  \E f : f = [n \in 0 .. k |-> IF n = 0 THEN Start0 ELSE Round(f[n - 1], n - 1)]
  <1> DEFINE Has(j) == \E f : f = [n \in 0 .. j |-> IF n = 0 THEN Start0 ELSE Round(f[n - 1], n - 1)]
             bad == {j \in Nat : ~Has(j)}
  <1>1. SUFFICES ASSUME bad # {} PROVE FALSE
    OBVIOUS
  <1>2. PICK j \in bad : \A i \in bad : j <= i
    <2>1. bad \in SUBSET Nat
      OBVIOUS
    <2> HIDE DEF bad
    <2> QED
      BY <1>1, <2>1, LeastNumber
  <1>3. CASE j = 0
    <2> DEFINE f == [n \in 0 .. 0 |-> Start0]
    <2>1. f = [n \in 0 .. 0 |-> IF n = 0 THEN Start0 ELSE Round(f[n - 1], n - 1)]
      OBVIOUS
    <2> QED
      BY <1>3, <2>1
  <1>4. CASE j > 0
    <2>1. j - 1 \in Nat /\ ~(j - 1 \in bad)
      <3>1. j \in Nat
        BY <1>2
      <3> HIDE DEF bad
      <3> QED
        BY <1>2, <1>4, <3>1
    <2>2. PICK g : g = [n \in 0 .. j - 1 |-> IF n = 0 THEN Start0 ELSE Round(g[n - 1], n - 1)]
      BY <2>1
    <2> DEFINE f == [n \in 0 .. j |-> IF n = j THEN Round(g[j - 1], j - 1) ELSE g[n]]
    <2>3. ASSUME NEW n \in 0 .. j
          PROVE  f[n] = IF n = 0 THEN Start0 ELSE Round(f[n - 1], n - 1)
      <3>1. CASE n = j
        <4>1. f[n - 1] = g[j - 1] /\ n # 0
          BY <1>4, <3>1
        <4> QED
          BY <3>1, <4>1
      <3>2. CASE n = 0
        <4>1. g[0] = Start0
          BY <1>4, <2>2, <2>1
        <4> QED
          BY <1>4, <3>2, <4>1
      <3>3. CASE n # 0 /\ n # j
        <4>1. n \in 0 .. j - 1 /\ n - 1 \in 0 .. j - 1 /\ n - 1 # j
          BY <3>3
        <4>2. g[n] = Round(g[n - 1], n - 1)
          BY <2>2, <3>3, <4>1
        <4>3. f[n] = g[n] /\ f[n - 1] = g[n - 1]
          BY <3>3, <4>1
        <4> QED
          BY <3>3, <4>2, <4>3
      <3> QED
        BY <3>1, <3>2, <3>3
    <2>4. f = [n \in 0 .. j |-> IF n = 0 THEN Start0 ELSE Round(f[n - 1], n - 1)]
      BY <2>3
    <2> HIDE DEF f
    <2> QED
      BY <2>4
  <1> QED
    BY <1>2, <1>3, <1>4

\* The loop of the eviction, round by round.
LEMMA ScannedValues ==
    /\ Scanned[0] = Start0
    /\ \A n \in 1 .. MAX_MESSAGES : Scanned[n] = Round(Scanned[n - 1], n - 1)
  <1>1. MAX_MESSAGES \in Nat
    BY StoreAssumption
  <1>2. \E f : f = [n \in 0 .. MAX_MESSAGES |->
                     IF n = 0 THEN Start0 ELSE Round(f[n - 1], n - 1)]
    BY <1>1, ScanExists
  <1>3. Scanned = [n \in 0 .. MAX_MESSAGES |->
                     IF n = 0 THEN Start0 ELSE Round(Scanned[n - 1], n - 1)]
    BY <1>2 DEF Scanned, Start0, Round
  <1> QED
    BY <1>1, <1>3

\* `best` is what the loop should have found among the slots E.
BestOf(best, E) ==
    IF E = {} THEN best = Start0
    ELSE /\ best.slot \in E /\ best.epoch = ram[best.slot].stored_epoch
         /\ best.epoch = 0 => \A s \in E : ram[s].stored_epoch = 0 /\ best.slot <= s
         /\ best.epoch # 0 => \A s \in E :
                \/ ram[s].stored_epoch = 0
                \/ best.epoch < ram[s].stored_epoch
                \/ best.epoch = ram[s].stored_epoch /\ best.slot <= s

Below(n) == {s \in Evictable : s < n}

\* Slots and times of finished records are numbers.
LEMMA EvictableTyped ==
    ASSUME StoreTypeOK
    PROVE  \A s \in Evictable : s \in Slots /\ s \in Nat /\ ram[s].stored_epoch \in Nat
  <1>1. \A m \in Message : m.stored_epoch \in Nat
    BY StoreAssumption DEF Message
  <1> QED
    BY <1>1, SlotsAreNatural DEF Evictable, StoreTypeOK

\* A round finds the best of one slot more.
LEMMA RoundIsBest ==
    ASSUME StoreTypeOK, NEW n \in Nat, NEW best, BestOf(best, Below(n))
    PROVE  BestOf(Round(best, n), Below(n + 1))
  <1>1. CASE n \notin Evictable
    <2>1. Below(n + 1) = Below(n)
      BY <1>1, EvictableTyped DEF Below
    <2> QED
      BY <1>1, <2>1 DEF Round
  <1>2. CASE n \in Evictable
    <2>1. Below(n + 1) = Below(n) \cup {n} /\ \A s \in Below(n) : s < n /\ s \in Evictable
      <3>1. \A s \in Evictable : s \in Nat
        BY EvictableTyped
      <3>2. \A s \in Nat : s < n + 1 <=> s < n \/ s = n
        OBVIOUS
      <3> QED
        BY <1>2, <3>1, <3>2 DEF Below
    <2>2. Round(best, n) = ScanStep(best, n)
      BY <1>2 DEF Round
    <2>3. CASE Below(n) = {}
      <3>1. ScanStep(best, n) = [slot |-> n, epoch |-> ram[n].stored_epoch]
        BY <2>3 DEF ScanStep, BestOf, Start0
      <3> QED
        BY <1>2, <2>1, <2>2, <2>3, <3>1, EvictableTyped DEF BestOf
    <2>4. CASE Below(n) # {}
      <3>1. best.slot \in Evictable /\ best.slot # NoSlot
        BY <2>1, <2>4, EvictableTyped, SlotsAreNatural DEF BestOf
      <3>2. /\ best.epoch \in Nat /\ best.slot \in Nat /\ ram[n].stored_epoch \in Nat
            /\ best.slot < n /\ best.slot \in Below(n) /\ best.epoch = ram[best.slot].stored_epoch
        BY <1>2, <2>1, <2>4, <3>1, EvictableTyped DEF BestOf
      <3>3. \A s \in Below(n) : s \in Nat /\ ram[s].stored_epoch \in Nat /\ s < n
        BY <2>1, EvictableTyped
      <3>4. /\ best.epoch = 0 => \A s \in Below(n) : ram[s].stored_epoch = 0 /\ best.slot <= s
            /\ best.epoch # 0 => \A s \in Below(n) :
                  \/ ram[s].stored_epoch = 0
                  \/ best.epoch < ram[s].stored_epoch
                  \/ best.epoch = ram[s].stored_epoch /\ best.slot <= s
        BY <2>4 DEF BestOf
      <3>5. Below(n + 1) # {}
        BY <2>1
      <3>6. CASE /\ ram[n].stored_epoch # 0
                 /\ best.epoch = 0 \/ ram[n].stored_epoch < best.epoch
        <4>1. ScanStep(best, n) = [slot |-> n, epoch |-> ram[n].stored_epoch]
          BY <3>6 DEF ScanStep
        <4> QED
          BY <2>1, <2>2, <3>2, <3>3, <3>4, <3>5, <3>6, <4>1 DEF BestOf
      <3>7. CASE ~(/\ ram[n].stored_epoch # 0
                   /\ best.epoch = 0 \/ ram[n].stored_epoch < best.epoch)
        <4>1. ScanStep(best, n) = best
          BY <3>1, <3>7 DEF ScanStep
        <4> QED
          BY <2>1, <2>2, <3>2, <3>3, <3>4, <3>5, <3>7, <4>1 DEF BestOf
      <3> QED
        BY <3>6, <3>7
    <2> QED
      BY <2>3, <2>4
  <1> QED
    BY <1>1, <1>2

\* The whole loop finds the best of all.
LEMMA ScanIsBest ==
    ASSUME StoreTypeOK
    PROVE  BestOf(Scanned[MAX_MESSAGES], Evictable)
  <1> DEFINE bad == {n \in 0 .. MAX_MESSAGES : ~BestOf(Scanned[n], Below(n))}
  <1>0. MAX_MESSAGES \in Nat
    BY StoreAssumption
  <1>1. bad = {}
    <2> SUFFICES ASSUME bad # {} PROVE FALSE
      OBVIOUS
    <2>1. PICK n \in bad : \A i \in bad : n <= i
      <3>1. bad \in SUBSET Nat
        OBVIOUS
      <3> HIDE DEF bad
      <3> QED
        BY <3>1, LeastNumber
    <2>2. CASE n = 0
      <3>1. Below(0) = {}
        BY EvictableTyped DEF Below
      <3> QED
        BY <2>1, <2>2, <3>1, ScannedValues DEF BestOf
    <2>3. CASE n > 0
      <3>1. n \in 1 .. MAX_MESSAGES /\ n - 1 \in 0 .. MAX_MESSAGES /\ n - 1 \in Nat
        BY <1>0, <2>1, <2>3
      <3>2. BestOf(Scanned[n - 1], Below(n - 1))
        BY <2>1, <3>1
      <3>3. BestOf(Round(Scanned[n - 1], n - 1), Below(n - 1 + 1))
        BY <3>1, <3>2, RoundIsBest
      <3>4. n - 1 + 1 = n /\ Scanned[n] = Round(Scanned[n - 1], n - 1)
        BY <3>1, ScannedValues
      <3> QED
        BY <2>1, <3>3, <3>4
    <2> QED
      BY <2>1, <2>2, <2>3
  <1>2. BestOf(Scanned[MAX_MESSAGES], Below(MAX_MESSAGES))
    BY <1>0, <1>1
  <1>3. Below(MAX_MESSAGES) = Evictable
    BY <1>0, EvictableTyped DEF Below, Slots
  <1> QED
    BY <1>2, <1>3

\* The loop finds what the declarative definition names.
LEMMA ScanIsOldest == StoreTypeOK => ScanFindsOldest
  <1> SUFFICES ASSUME StoreTypeOK, Evictable # {} PROVE EvictionScan = OldestSlot
    BY DEF ScanFindsOldest
  <1> DEFINE best == Scanned[MAX_MESSAGES]
             dated == {s \in Evictable : ram[s].stored_epoch # 0}
             epochs == {ram[s].stored_epoch : s \in dated}
             oldest == {s \in dated : ram[s].stored_epoch = Min(epochs)}
  <1>1. /\ best.slot \in Evictable /\ best.epoch = ram[best.slot].stored_epoch
        /\ best.epoch = 0 => \A s \in Evictable : ram[s].stored_epoch = 0 /\ best.slot <= s
        /\ best.epoch # 0 => \A s \in Evictable :
                \/ ram[s].stored_epoch = 0
                \/ best.epoch < ram[s].stored_epoch
                \/ best.epoch = ram[s].stored_epoch /\ best.slot <= s
    BY ScanIsBest DEF BestOf
  <1>2. /\ Evictable \in SUBSET Nat /\ best.epoch \in Nat /\ best.slot \in Nat
        /\ \A s \in Evictable : ram[s].stored_epoch \in Nat
    BY <1>1, EvictableTyped
  <1> HIDE DEF best
  <1>3. CASE best.epoch = 0
    <2>1. dated = {} /\ OldestSlot = Min(Evictable)
      BY <1>1, <1>3 DEF OldestSlot
    <2>2. PICK least \in Evictable : least = Min(Evictable) /\ \A s \in Evictable : least <= s
      BY <1>1, <1>2, MinIsLeast
    <2>3. least = best.slot
      <3>1. least \in Nat /\ least <= best.slot /\ best.slot <= least
        BY <1>1, <1>2, <1>3, <2>2
      <3> QED
        BY <1>2, <3>1
    <2> QED
      BY <2>1, <2>2, <2>3 DEF EvictionScan, best
  <1>4. CASE best.epoch # 0
    <2>1. /\ best.slot \in dated /\ best.epoch \in epochs
          /\ epochs \in SUBSET Nat /\ epochs # {}
      BY <1>1, <1>2, <1>4
    <2>2. ASSUME NEW e \in epochs PROVE best.epoch <= e
      <3>1. PICK s \in Evictable : e = ram[s].stored_epoch /\ ram[s].stored_epoch # 0
        BY <2>2
      <3>2. e \in Nat /\ (best.epoch < e \/ best.epoch = e)
        BY <1>1, <1>2, <1>4, <3>1
      <3> QED
        BY <1>2, <3>2
    <2>3. PICK first \in epochs : first = Min(epochs) /\ \A e \in epochs : first <= e
      BY <2>1, MinIsLeast
    <2>4. Min(epochs) = best.epoch
      <3>1. first \in Nat /\ first <= best.epoch /\ best.epoch <= first
        BY <2>1, <2>2, <2>3
      <3> QED
        BY <1>2, <2>3, <3>1
    <2>5. best.slot \in oldest /\ oldest \in SUBSET Nat
      BY <1>1, <1>2, <2>1, <2>4
    <2>6. ASSUME NEW s \in oldest PROVE best.slot <= s
      <3>1. s \in Evictable /\ ram[s].stored_epoch = best.epoch
        BY <2>4, <2>6
      <3>2. \/ ram[s].stored_epoch = 0
            \/ best.epoch < ram[s].stored_epoch
            \/ best.slot <= s
        BY <1>1, <1>4, <3>1
      <3>3. ~(best.epoch < best.epoch)
        BY <1>2
      <3> QED
        BY <1>4, <3>1, <3>2, <3>3
    <2> HIDE DEF oldest
    <2>7. PICK least \in oldest : least = Min(oldest) /\ \A s \in oldest : least <= s
      BY <2>5, MinIsLeast
    <2>8. Min(oldest) = best.slot
      <3>1. least \in Nat /\ least <= best.slot /\ best.slot <= least
        BY <2>5, <2>6, <2>7
      <3> QED
        BY <1>2, <2>7, <3>1
    <2>9. OldestSlot = Min(oldest)
      BY <2>1 DEF OldestSlot, oldest
    <2> QED
      BY <2>8, <2>9 DEF EvictionScan, best
  <1> QED
    BY <1>3, <1>4

-----------------------------------------------------------------------------
(* The theorems about the message store                                    *)

\* However many tasks allocate, write, release and fail, a slot is reserved
\* exactly while one of them holds it (message_store.c:237-327).
THEOREM ReservationsAreExact == StoreSpec => []ReservationsExact
  <1>1. StoreIInv => ReservationsExact
    BY DEF StoreIInv
  <1> QED
    BY <1>1, StoreInductive, PTL

\* RAM and flash agree on every slot whose last flash access succeeded
\* (message_store.c:275-312).
THEOREM CleanSlotsAreDurable == StoreSpec => []CleanSlotIsDurable
  <1>1. StoreIInv => CleanSlotIsDurable
    BY DEF StoreIInv
  <1> QED
    BY <1>1, StoreInductive, PTL

\* No reboot, late write or failed flash access brings a deleted message back
\* (message_store.c:124-162).
THEOREM DeletionIsFinal == StoreSpec => []DeletedStaysDeleted
  <1>1. StoreIInv => DeletedStaysDeleted
    BY DEF StoreIInv
  <1> QED
    BY <1>1, StoreInductive, PTL

\* The eviction loop finds the oldest message of a store of any size
\* (message_store.c:252-264).
THEOREM EvictionFindsOldest == StoreSpec => []ScanFindsOldest
  <1>1. StoreIInv => ScanFindsOldest
    BY ScanIsOldest DEF StoreIInv, ApiTypeOK
  <1> QED
    BY <1>1, StoreInductive, PTL

-----------------------------------------------------------------------------
(* The inductive invariant of the configuration                            *)

Saved == ToSet(SaveOrder)

\* Which key is saved when.
LEMMA SaveOrderFacts ==
    /\ Len(SaveOrder) = 13 /\ Keys = Saved \cup {"location"} /\ Keys \ {"location"} = Saved
    /\ Saved = {"configured", "node_id", "node_name", "node_role", "sitio", "barangay",
                "municipality", "default_dest", "default_priority", "ap_password", "web_pin",
                "duress_pin", "network_key"}
    /\ Settings = {"node_id", "node_name", "node_role", "sitio", "barangay", "municipality",
                   "default_dest", "default_priority"}
    /\ \A i \in 1 .. 13 : /\ SaveOrder[i] \in Saved
                          /\ SaveOrder[i] = "barangay" => i = 6
                          /\ (SaveOrder[i] = "network_key") <=> (i = 13)
    /\ SaveOrder[5] = "sitio" /\ SaveOrder[6] = "barangay"
    /\ \A k \in Settings : \E i \in 1 .. 12 : SaveOrder[i] = k
  <1>1. Len(SaveOrder) = 13 /\ DOMAIN SaveOrder = 1 .. 13
    BY DEF SaveOrder
  <1>2. /\ SaveOrder[1] = "configured" /\ SaveOrder[2] = "node_id" /\ SaveOrder[3] = "node_name"
        /\ SaveOrder[4] = "node_role" /\ SaveOrder[5] = "sitio" /\ SaveOrder[6] = "barangay"
        /\ SaveOrder[7] = "municipality" /\ SaveOrder[8] = "default_dest"
        /\ SaveOrder[9] = "default_priority" /\ SaveOrder[10] = "ap_password"
        /\ SaveOrder[11] = "web_pin" /\ SaveOrder[12] = "duress_pin"
        /\ SaveOrder[13] = "network_key"
    BY DEF SaveOrder
  <1>3. \A i \in 1 .. 13 : \/ i = 1 \/ i = 2 \/ i = 3 \/ i = 4 \/ i = 5 \/ i = 6 \/ i = 7
                           \/ i = 8 \/ i = 9 \/ i = 10 \/ i = 11 \/ i = 12 \/ i = 13
    OBVIOUS
  <1>4. Saved = {SaveOrder[i] : i \in 1 .. 13}
    BY <1>1 DEF ToSet, Saved
  <1>5. Saved = {"configured", "node_id", "node_name", "node_role", "sitio", "barangay",
                 "municipality", "default_dest", "default_priority", "ap_password", "web_pin",
                 "duress_pin", "network_key"}
    BY <1>2, <1>3, <1>4
  <1>6. Keys = Saved \cup {"location"} /\ Keys \ {"location"} = Saved
    BY <1>5 DEF Keys, Saved
  <1>7. Settings = {"node_id", "node_name", "node_role", "sitio", "barangay", "municipality",
                    "default_dest", "default_priority"}
    BY <1>5 DEF Settings, Credentials, Saved
  <1>8. \A k \in Settings : \E i \in 1 .. 12 : SaveOrder[i] = k
    <2>1. {2, 3, 4, 5, 6, 7, 8, 9} \subseteq 1 .. 12
      OBVIOUS
    <2> QED
      BY <1>2, <1>7, <2>1
  <1>9. \A i \in 1 .. 13 : /\ SaveOrder[i] \in Saved
                           /\ SaveOrder[i] = "barangay" => i = 6
                           /\ (SaveOrder[i] = "network_key") <=> (i = 13)
    BY <1>2, <1>3, <1>4
  <1> QED
    BY <1>1, <1>2, <1>5, <1>6, <1>7, <1>8, <1>9

Configs == [Saved -> Values]

Task(task) ==
    /\ task \in [pc : {"idle", "saving", "restart"}, step : 1 .. 14, config : Configs \cup {NoForm}]
    /\ task.pc = "saving" => task.config \in Configs

NodeTyped ==
    /\ flash \in [Keys -> Values] /\ node_config \in Configs
    /\ Task(httpd) /\ Task(boot) /\ setups \in 0 .. MaxSetups /\ torn \in BOOLEAN
    /\ refused \subseteq {"default_priority"}

Chosen(value) == value \notin {Missing, Default}

\* The older firmware had no municipality, and NVS may refuse a name.
Excused == {"municipality"} \cup refused

\* The settings are in flash, the location in its new place or in the old one.
InPlace(stored) ==
    /\ \A k \in Settings \ (Excused \cup {"sitio", "barangay"}) : Chosen(stored[k])
    /\ IF stored["barangay"] = Missing THEN Chosen(stored["location"])
       ELSE Chosen(stored["barangay"]) /\ Chosen(stored["sitio"])

\* What is in flash without an erase that was torn.  The network key, which is
\* written last, or the location of the older firmware, is never there without
\* the settings, and the network key of a form not without all of them.
WellSaved(stored) ==
    /\ stored["network_key"] # Missing \/ stored["location"] # Missing => InPlace(stored)
    /\ stored["network_key"] \in Setups => \A k \in Settings : Chosen(stored[k])

\* What a save has written so far.
Written(task) == \A i \in 1 .. 13 : i < task.step => flash[SaveOrder[i]] = task.config[SaveOrder[i]]

\* Only a valid form is saved, ...
FormIsValid == httpd.pc = "saving" => \A k \in Saved \ {"duress_pin"} : httpd.config[k] \in Setups

\* ... or a configuration as it was loaded, before there is anything else to do.
LoadedIsUsable(config) ==
    /\ \A k \in Saved : config[k] # Missing
    /\ Configured(config) => \A c \in Credentials : Strong(config[c])

BootIsUsable == boot.pc = "saving" => httpd.pc # "saving" /\ LoadedIsUsable(boot.config)

\* The configuration that a boot puts in its new place.
Migrated ==
    /\ \A k \in Settings \ Excused : Chosen(boot.config[k])
    /\ boot.config["network_key"] \notin Setups /\ flash["network_key"] \notin Setups
    /\ flash["location"] # Missing
    /\ Written(boot)

FlashIsWhole ==
    ~torn => /\ WellSaved(flash)
             /\ httpd.pc = "saving" => Written(httpd)
             /\ boot.pc = "saving" => Migrated

\* The form that is complete is what is in flash, and will be loaded.
CompleteIsStored ==
    complete # NoForm =>
        /\ \A k \in Saved : flash[k] = complete[k]
        /\ \A k \in Saved \ {"duress_pin"} : complete[k] # Missing
        /\ complete["configured"] \in Setups
        /\ \A c \in Credentials : Strong(complete[c])

NodeIInv ==
    /\ NodeTyped /\ FormIsValid /\ BootIsUsable /\ FlashIsWhole
    /\ CompleteIsStored /\ ConfiguredIsWhole

\* The operators over what an unchanged state holds are unchanged.
LEMMA NodeStays ==
    ASSUME UNCHANGED refused
    PROVE  /\ \A f : InPlace(f)' <=> InPlace(f)
           /\ Excused' = Excused
  BY DEF InPlace, Excused, Chosen

-----------------------------------------------------------------------------
(* What loading makes of a flash                                           *)

\* Credentials are among the keys that are saved, and are no settings.
LEMMA CredentialsSaved ==
    /\ Credentials \subseteq Saved \ {"duress_pin", "configured"}
    /\ Credentials \cap Settings = {} /\ Settings \subseteq Saved \ {"duress_pin", "configured"}
  BY SaveOrderFacts DEF Credentials

\* What a boot loads is a configuration.
LEMMA LoadTyped ==
    ASSUME NEW stored \in [Keys -> Values]
    PROVE  node_config_load(stored) \in Configs /\ NotLoaded \in Configs
  <1>1. Missing \in Values /\ Random \in Values /\ Default \in Values
    BY DEF Values
  <1>2. ASSUME NEW k \in Saved PROVE node_config_load(stored)[k] \in Values
    <2>1. stored[k] \in Values /\ stored["location"] \in Values
      BY SaveOrderFacts
    <2> QED
      BY <1>1, <2>1, SaveOrderFacts DEF node_config_load, OrDefault
  <1>3. node_config_load(stored) = [k \in Saved |-> node_config_load(stored)[k]]
    BY SaveOrderFacts DEF node_config_load
  <1>4. NotLoaded \in Configs
    BY <1>1, SaveOrderFacts DEF NotLoaded, Configs
  <1> QED
    BY <1>2, <1>3, <1>4 DEF Configs

\* What a boot loads lacks no key, and no strong credential where it is configured.
LEMMA LoadUsable ==
    ASSUME NEW stored \in [Keys -> Values]
    PROVE  LoadedIsUsable(node_config_load(stored))
  <1> DEFINE config == node_config_load(stored)
  <1>1. ASSUME NEW k \in Saved PROVE config[k] # Missing
    BY SaveOrderFacts, NodeConfigAssumption DEF node_config_load, OrDefault, Migrates
  <1>2. ASSUME config["configured"] # Default, NEW c \in Credentials PROVE Strong(config[c])
    <2>1. "configured" \in Saved /\ c \in Saved /\ c \in {"ap_password", "web_pin", "network_key"}
      BY CredentialsSaved, SaveOrderFacts DEF Credentials
    <2>2. /\ stored["configured"] \notin {Missing, Default}
          /\ \A d \in Credentials : Strong(stored[d])
      BY <1>2, <2>1, SaveOrderFacts DEF node_config_load
    <2>3. config[c] = stored[c]
      BY <2>1, <2>2, SaveOrderFacts DEF node_config_load, OrDefault, Strong
    <2> QED
      BY <2>2, <2>3
  <1> QED
    BY <1>1, <1>2 DEF LoadedIsUsable, Configured

\* Settings that are in place are loaded.
LEMMA LoadInPlace ==
    ASSUME NEW stored \in [Keys -> Values], InPlace(stored), NEW k \in Settings \ Excused
    PROVE  Chosen(node_config_load(stored)[k])
  <1> DEFINE config == node_config_load(stored)
  <1>1. k \in Keys \ {"location"} /\ k \notin {"configured", "ap_password", "duress_pin"}
    BY SaveOrderFacts
  <1>2. CASE k \in {"sitio", "barangay"} /\ Migrates(stored)
    <2>1. config[k] = stored["location"]
      BY <1>1, <1>2 DEF node_config_load
    <2> QED
      BY <1>2, <2>1 DEF InPlace, Migrates
  <1>3. CASE ~(k \in {"sitio", "barangay"} /\ Migrates(stored))
    <2>1. config[k] = OrDefault(stored, k)
      BY <1>1, <1>3 DEF node_config_load
    <2>2. Chosen(stored[k])
      BY <1>3 DEF InPlace, Migrates, Chosen
    <2> QED
      BY <2>1, <2>2 DEF OrDefault, Chosen
  <1> QED
    BY <1>2, <1>3

\* Settings that are all in flash are loaded as they are.
LEMMA LoadChosen ==
    ASSUME NEW stored \in [Keys -> Values], \A k \in Settings : Chosen(stored[k])
    PROVE  ~Migrates(stored) /\ \A k \in Settings : Chosen(node_config_load(stored)[k])
  <1>1. "barangay" \in Settings /\ \A k \in Settings : /\ k \in Keys \ {"location"}
                                                       /\ k \notin {"configured", "ap_password", "duress_pin"}
    BY SaveOrderFacts
  <1>2. ~Migrates(stored)
    BY <1>1 DEF Migrates, Chosen
  <1> QED
    BY <1>1, <1>2 DEF node_config_load, OrDefault, Chosen

\* A network key that is loaded is the one in flash, and a node comes up
\* configured only with one.
LEMMA LoadNetworkKey ==
    ASSUME NEW stored \in [Keys -> Values]
    PROVE  /\ node_config_load(stored)["network_key"] \in Setups => stored["network_key"] \in Setups
           /\ Configured(node_config_load(stored)) => stored["network_key"] # Missing
  <1>1. node_config_load(stored)["network_key"] = OrDefault(stored, "network_key")
    BY SaveOrderFacts DEF node_config_load
  <1>2. Default \notin Setups
    BY NodeConfigAssumption
  <1>3. Configured(node_config_load(stored)) => Strong(stored["network_key"])
    BY SaveOrderFacts DEF Configured, node_config_load, Credentials
  <1> QED
    BY <1>1, <1>2, <1>3 DEF OrDefault, Strong

\* A complete configuration is loaded as it is.
LEMMA LoadExact ==
    ASSUME NEW stored \in [Keys -> Values], stored["configured"] \in Setups,
           \A c \in Credentials : Strong(stored[c]),
           \A k \in Saved \ {"duress_pin"} : stored[k] # Missing,
           NEW k \in Saved
    PROVE  node_config_load(stored)[k] =
               IF k = "duress_pin" /\ stored[k] = Missing THEN Random ELSE stored[k]
  <1>1. stored["configured"] \notin {Missing, Default}
    BY NodeConfigAssumption
  <1>2. ~Migrates(stored)
    BY SaveOrderFacts DEF Migrates
  <1> QED
    BY <1>1, <1>2, SaveOrderFacts DEF node_config_load, OrDefault

-----------------------------------------------------------------------------
(* One lemma per kind of step of the configuration                         *)

\* A task that is not saving.
LEMMA NotSavingTask == Task(NotSaving) /\ NotSaving.pc = "idle" /\ Task([NotSaving EXCEPT !.pc = "restart"])
                         /\ [NotSaving EXCEPT !.pc = "restart"].pc = "restart"
  BY DEF Task, NotSaving

\* What a form enters is chosen and strong.
LEMMA SetupValues == \A n \in Setups : Strong(n) /\ Chosen(n) /\ n # Missing
  BY NodeConfigAssumption DEF Strong, Chosen

\* A form that was accepted is a whole configuration.
LEMMA ValidFormWhole ==
    ASSUME NEW config, \A k \in Saved \ {"duress_pin"} : config[k] \in Setups
    PROVE  /\ \A k \in Settings : Chosen(config[k])
           /\ \A c \in Credentials : Strong(config[c])
  BY SetupValues, CredentialsSaved

\* What flash holds without a torn erase is loaded whole.
LEMMA LoadWhole ==
    ASSUME NEW stored \in [Keys -> Values], WellSaved(stored),
           stored["network_key"] # Missing \/ stored["location"] # Missing
    PROVE  /\ \A k \in Settings \ Excused : Chosen(node_config_load(stored)[k])
           /\ node_config_load(stored)["network_key"] \in Setups =>
                  \A k \in Settings : Chosen(node_config_load(stored)[k])
  <1>1. InPlace(stored)
    BY DEF WellSaved
  <1>2. \A k \in Settings \ Excused : Chosen(node_config_load(stored)[k])
    BY <1>1, LoadInPlace
  <1>3. ASSUME node_config_load(stored)["network_key"] \in Setups
        PROVE  \A k \in Settings : Chosen(node_config_load(stored)[k])
    BY <1>3, LoadNetworkKey, LoadChosen DEF WellSaved
  <1> QED
    BY <1>2, <1>3

\* The promise about a configuration as a boot loads it.
LEMMA LoadKeepsPromise ==
    ASSUME NEW stored \in [Keys -> Values], NEW config, config = node_config_load(stored),
           NEW erased \in BOOLEAN, ~erased => WellSaved(stored), Configured(config)
    PROVE  /\ \A c \in Credentials : Strong(config[c])
           /\ erased \/ \A k \in Settings : config[k] = Default =>
                            k \in Excused /\ config["network_key"] \notin Setups
  <1>1. \A c \in Credentials : Strong(config[c])
    BY LoadUsable DEF LoadedIsUsable
  <1>2. ASSUME ~erased, NEW k \in Settings, config[k] = Default
        PROVE  k \in Excused /\ config["network_key"] \notin Setups
    <2>1. stored["network_key"] # Missing
      BY LoadNetworkKey
    <2> QED
      BY <1>2, <2>1, LoadWhole DEF Chosen
  <1> QED
    BY <1>1, <1>2

\* A boot from `stored`.
LEMMA StartPreserves ==
    ASSUME NEW stored \in [Keys -> Values], flash' = stored,
           NEW readable \in BOOLEAN, Start(stored, readable),
           torn' \in BOOLEAN, setups' \in 0 .. MaxSetups, CompleteIsStored',
           refused \subseteq {"default_priority"}, ~torn' => WellSaved(stored)
    PROVE  NodeIInv'
  <1>1. PICK config \in Configs :
            config = IF readable THEN node_config_load(stored) ELSE NotLoaded
    BY LoadTyped
  <1>2. /\ node_config' = config /\ httpd' = NotSaving /\ refused' = refused
        /\ boot' = IF readable /\ Migrates(stored)
                   THEN [pc |-> "saving", step |-> 1, config |-> config] ELSE NotSaving
    BY <1>1 DEF Start
  <1>3. Excused' = Excused /\ (WellSaved(stored) => WellSaved(flash)')
    BY <1>2 DEF WellSaved, InPlace, Excused, Chosen
  <1>4. NodeTyped'
    <2>1. Task([pc |-> "saving", step |-> 1, config |-> config])
      BY DEF Task
    <2> QED
      BY <1>2, <2>1, NotSavingTask DEF NodeTyped, Task
  <1>5. FormIsValid' /\ BootIsUsable' /\ FlashIsWhole'
    <2>1. CASE readable /\ Migrates(stored)
      <3>1. /\ config = node_config_load(stored) /\ stored["location"] # Missing
            /\ boot' = [pc |-> "saving", step |-> 1, config |-> config]
        BY <1>1, <1>2, <2>1 DEF Migrates
      <3>2. LoadedIsUsable(config)
        BY <3>1, LoadUsable
      <3>3. FormIsValid' /\ BootIsUsable'
        BY <1>2, <3>1, <3>2, NotSavingTask
        DEF FormIsValid, BootIsUsable, LoadedIsUsable, Configured, Strong
      <3>4. ASSUME ~torn' PROVE Migrated'
        <4>1. \A k \in Settings \ Excused : Chosen(config[k])
          BY <3>1, <3>4, LoadWhole
        <4>2. stored["network_key"] \notin Setups
          BY <2>1, <3>4, LoadChosen DEF WellSaved
        <4>3. config["network_key"] \notin Setups
          BY <3>1, <4>2, LoadNetworkKey
        <4>4. Written(boot)'
          BY <3>1 DEF Written
        <4> QED
          BY <1>2, <1>3, <3>1, <4>1, <4>2, <4>3, <4>4 DEF Migrated, Chosen
      <3>5. FlashIsWhole'
        BY <1>2, <1>3, <3>4, NotSavingTask DEF FlashIsWhole
      <3> QED
        BY <3>3, <3>5
    <2>2. CASE ~(readable /\ Migrates(stored))
      <3>1. boot' = NotSaving
        BY <1>2, <2>2
      <3>2. FormIsValid' /\ BootIsUsable'
        BY <1>2, <3>1, NotSavingTask DEF FormIsValid, BootIsUsable
      <3>3. FlashIsWhole'
        BY <1>2, <1>3, <3>1, NotSavingTask DEF FlashIsWhole
      <3> QED
        BY <3>2, <3>3
    <2> QED
      BY <2>1, <2>2
  <1>6. ConfiguredIsWhole'
    <2>1. CASE readable
      <3>1. Configured(config) =>
                /\ \A c \in Credentials : Strong(config[c])
                /\ torn' \/ \A k \in Settings : config[k] = Default =>
                                 k \in Excused /\ config["network_key"] \notin Setups
        BY <1>1, <2>1, LoadKeepsPromise
      <3> QED
        BY <1>2, <3>1 DEF ConfiguredIsWhole, Configured, Strong, Excused
    <2>2. CASE ~readable
      <3>1. config["configured"] = Default
        BY <1>1, <2>2, SaveOrderFacts DEF NotLoaded
      <3> QED
        BY <1>2, <3>1 DEF ConfiguredIsWhole, Configured
    <2> QED
      BY <2>1, <2>2
  <1> QED
    BY <1>4, <1>5, <1>6 DEF NodeIInv

\* The first start, factory fresh or after the older firmware.
LEMMA NodeInitially == NodeInit => NodeIInv
  <1> SUFFICES ASSUME NodeInit PROVE NodeIInv
    OBVIOUS
  <1>1. PICK config : config = node_config_load(flash)
    OBVIOUS
  <1>2. refused \subseteq {"default_priority"}
    BY NodeConfigAssumption DEF NodeInit
  <1>3. flash \in [Keys -> Values]
    BY DEF NodeInit, FreshFlash, OldFlash, Values
  <1>4. WellSaved(flash) /\ flash["network_key"] \notin Setups
    <2>1. CASE flash = FreshFlash
      BY <2>1, SaveOrderFacts, NodeConfigAssumption DEF FreshFlash, WellSaved
    <2>2. ASSUME NEW credential \in {Legacy, Weak}, flash = OldFlash(credential)
          PROVE  WellSaved(flash) /\ flash["network_key"] \notin Setups
      <3>1. /\ flash["network_key"] = credential /\ flash["location"] = Legacy
            /\ flash["barangay"] = Missing
            /\ \A k \in Settings \ (Excused \cup {"sitio", "barangay"}) : flash[k] = Legacy
        BY <1>2, <2>2, SaveOrderFacts DEF OldFlash, Credentials, Excused
      <3>2. credential \notin Setups /\ Chosen(Legacy)
        BY NodeConfigAssumption DEF Chosen
      <3> QED
        BY <3>1, <3>2 DEF WellSaved, InPlace
    <2> QED
      BY <2>1, <2>2 DEF NodeInit
  <1>5. config \in Configs /\ LoadedIsUsable(config)
    BY <1>1, <1>3, LoadTyped, LoadUsable
  <1>6. /\ node_config = config /\ httpd = NotSaving /\ complete = NoForm /\ torn = FALSE
        /\ boot = IF Migrates(flash) THEN [pc |-> "saving", step |-> 1, config |-> config]
                  ELSE NotSaving
        /\ setups = 0
    BY <1>1 DEF NodeInit
  <1>7. NodeTyped
    <2>1. Task([pc |-> "saving", step |-> 1, config |-> config])
      BY <1>5 DEF Task
    <2>2. Task(httpd) /\ Task(boot)
      BY <1>6, <2>1, NotSavingTask
    <2>3. setups \in 0 .. MaxSetups
      BY <1>6, NodeConfigAssumption
    <2> QED
      BY <1>2, <1>3, <1>5, <1>6, <2>2, <2>3 DEF NodeTyped
  <1>8. FormIsValid /\ BootIsUsable /\ CompleteIsStored
    BY <1>5, <1>6, NotSavingTask DEF FormIsValid, BootIsUsable, CompleteIsStored
  <1>9. FlashIsWhole
    <2>1. ASSUME Migrates(flash) PROVE Migrated
      <3>1. boot = [pc |-> "saving", step |-> 1, config |-> config] /\ flash["location"] # Missing
        BY <1>6, <2>1 DEF Migrates
      <3>2. \A k \in Settings \ Excused : Chosen(config[k])
        BY <1>1, <1>3, <1>4, <3>1, LoadWhole
      <3>3. config["network_key"] \notin Setups
        BY <1>1, <1>3, <1>4, LoadNetworkKey
      <3>4. Written(boot)
        BY <3>1 DEF Written
      <3> QED
        BY <1>4, <3>1, <3>2, <3>3, <3>4 DEF Migrated
    <2> QED
      BY <1>4, <1>6, <2>1, NotSavingTask DEF FlashIsWhole
  <1>10. ConfiguredIsWhole
    BY <1>1, <1>3, <1>4, <1>6, LoadKeepsPromise DEF ConfiguredIsWhole, Excused
  <1> QED
    BY <1>7, <1>8, <1>9, <1>10 DEF NodeIInv

\* One key of a configuration is written.
LEMMA KeyIsWritten ==
    ASSUME NodeIInv, NEW task, Task(task), SetKey(task)
    PROVE  /\ task.step \in 1 .. 13 /\ task.config \in Configs
           /\ SaveOrder[task.step] \in Saved
           /\ flash' \in [Keys -> Values]
           /\ flash'[SaveOrder[task.step]] = task.config[SaveOrder[task.step]]
           /\ \A k \in Keys : k # SaveOrder[task.step] => flash'[k] = flash[k]
           /\ Task([task EXCEPT !.step = @ + 1])
           /\ [task EXCEPT !.step = @ + 1].step = task.step + 1
           /\ [task EXCEPT !.step = @ + 1].pc = task.pc
           /\ [task EXCEPT !.step = @ + 1].config = task.config
  <1>1. task.step \in 1 .. 13 /\ task.config \in Configs
    BY SaveOrderFacts DEF Task, SetKey
  <1>2. PICK key \in Saved : key = SaveOrder[task.step]
    BY <1>1, SaveOrderFacts
  <1>3. key \in Keys /\ task.config[key] \in Values
    BY <1>1, <1>2, SaveOrderFacts DEF Configs
  <1>4. flash' = [flash EXCEPT ![key] = task.config[key]] /\ flash \in [Keys -> Values]
    BY <1>2 DEF SetKey, NodeIInv, NodeTyped
  <1>5. /\ Task([task EXCEPT !.step = @ + 1])
        /\ [task EXCEPT !.step = @ + 1].step = task.step + 1
        /\ [task EXCEPT !.step = @ + 1].pc = task.pc
        /\ [task EXCEPT !.step = @ + 1].config = task.config
    BY <1>1 DEF Task
  <1> QED
    BY <1>1, <1>2, <1>3, <1>4, <1>5

\* A save that goes one key on has written that one too.
LEMMA WrittenGrows ==
    ASSUME NodeIInv, NEW task, Task(task), SetKey(task), Written(task)
    PROVE  \A i \in 1 .. 13 : i < task.step + 1 => flash'[SaveOrder[i]] = task.config[SaveOrder[i]]
  <1> SUFFICES ASSUME NEW i \in 1 .. 13, i < task.step + 1
               PROVE  flash'[SaveOrder[i]] = task.config[SaveOrder[i]]
    OBVIOUS
  <1>1. /\ task.step \in 1 .. 13 /\ SaveOrder[i] \in Keys
        /\ flash'[SaveOrder[task.step]] = task.config[SaveOrder[task.step]]
        /\ \A k \in Keys : k # SaveOrder[task.step] => flash'[k] = flash[k]
    BY KeyIsWritten, SaveOrderFacts
  <1>2. CASE SaveOrder[i] = SaveOrder[task.step]
    BY <1>1, <1>2
  <1>3. CASE SaveOrder[i] # SaveOrder[task.step]
    <2>1. i < task.step
      BY <1>1, <1>3
    <2> QED
      BY <1>1, <1>3, <2>1 DEF Written
  <1> QED
    BY <1>2, <1>3

\* Settings stay in place when one of them is written over by another, the
\* barangay after the sitio.
LEMMA PlaceStays ==
    ASSUME NodeIInv, NEW stored \in [Keys -> Values], NEW new \in [Keys -> Values],
           NEW key \in Saved, InPlace(stored), \A k \in Keys : k # key => new[k] = stored[k],
           key \in Settings \ Excused => Chosen(new[key]),
           key = "barangay" => Chosen(stored["sitio"])
    PROVE  InPlace(new)
  <1>1. /\ key # "location" /\ Settings \subseteq Keys /\ "location" \in Keys
        /\ {"sitio", "barangay"} \subseteq Settings \ Excused
    BY SaveOrderFacts DEF NodeIInv, NodeTyped, Excused
  <1>2. \A k \in Settings \ (Excused \cup {"sitio", "barangay"}) : Chosen(new[k])
    BY <1>1 DEF InPlace
  <1>3. CASE key = "barangay"
    BY <1>1, <1>2, <1>3 DEF InPlace, Chosen
  <1>4. CASE key = "sitio"
    BY <1>1, <1>2, <1>4 DEF InPlace
  <1>5. CASE key \notin {"sitio", "barangay"}
    BY <1>1, <1>2, <1>5 DEF InPlace
  <1> QED
    BY <1>3, <1>4, <1>5

\* One key of a form goes to flash.
LEMMA SetupStepPreserves ==
    ASSUME NodeIInv, SetupStep
    PROVE  NodeIInv'
  <1>1. /\ SetKey(httpd) /\ httpd.pc = "saving" /\ Task(httpd)
        /\ httpd' = [httpd EXCEPT !.step = @ + 1]
        /\ UNCHANGED <<refused, node_config, boot, setups, torn>>
    BY DEF SetupStep, SaveStep, SetKey, NodeIInv, NodeTyped
  <1>2. PICK config \in Configs, step \in 1 .. 13, key \in Saved :
            /\ config = httpd.config /\ step = httpd.step /\ key = SaveOrder[step]
            /\ flash'[key] = config[key]
    BY <1>1, KeyIsWritten
  <1>3. /\ flash' \in [Keys -> Values] /\ \A k \in Keys : k # key => flash'[k] = flash[k]
        /\ Task(httpd)' /\ httpd'.step = step + 1 /\ httpd'.pc = "saving" /\ httpd'.config = config
    BY <1>1, <1>2, KeyIsWritten DEF Task
  <1>4. /\ \A k \in Saved \ {"duress_pin"} : config[k] \in Setups
        /\ \A k \in Settings : Chosen(config[k])
        /\ \A c \in Credentials : Strong(config[c])
        /\ boot.pc # "saving"
    BY <1>1, <1>2, ValidFormWhole DEF NodeIInv, FormIsValid, BootIsUsable
  <1>5. NodeTyped' /\ FormIsValid' /\ BootIsUsable'
    BY <1>1, <1>3, <1>4 DEF NodeIInv, NodeTyped, FormIsValid, BootIsUsable, Task
  <1>6. CompleteIsStored'
    <2>1. complete' # NoForm => /\ complete' = config /\ config["configured"] \in Setups
                                /\ \A k \in Saved : flash'[k] = config[k]
      BY <1>2 DEF SetupStep, SaveStep, Saved
    <2> QED
      BY <1>4, <2>1, SetupValues DEF CompleteIsStored, Strong
  <1>7. FlashIsWhole'
    <2> SUFFICES ASSUME ~torn PROVE WellSaved(flash') /\ Written(httpd)'
      BY <1>1, <1>4, NodeStays DEF FlashIsWhole, WellSaved, Chosen
    <2>1. WellSaved(flash) /\ Written(httpd)
      BY <1>1 DEF NodeIInv, FlashIsWhole
    <2>2. \A i \in 1 .. 13 : i < step + 1 => flash'[SaveOrder[i]] = config[SaveOrder[i]]
      BY <1>1, <1>2, <2>1, WrittenGrows
    <2>3. Written(httpd)'
      BY <1>3, <2>2 DEF Written
    <2>4. /\ Settings \subseteq Saved /\ Saved \subseteq Keys /\ {"network_key", "location"} \subseteq Keys
          /\ (key = "network_key") <=> (step = 13)
          /\ key # "location" /\ {"sitio", "barangay"} \subseteq Settings
      BY <1>2, SaveOrderFacts
    <2>5. CASE step = 13
      <3>1. \A k \in Settings : Chosen(flash'[k])
        <4> SUFFICES ASSUME NEW k \in Settings PROVE Chosen(flash'[k])
          OBVIOUS
        <4>1. PICK i \in 1 .. 12 : SaveOrder[i] = k
          BY SaveOrderFacts
        <4> QED
          BY <1>4, <2>2, <2>5, <4>1
      <3> QED
        BY <2>3, <2>4, <3>1 DEF WellSaved, InPlace, Chosen
    <2>6. CASE step # 13
      <3>1. flash'["network_key"] = flash["network_key"] /\ flash'["location"] = flash["location"]
        BY <1>3, <2>4, <2>6
      <3>2. ASSUME key = "barangay" PROVE Chosen(flash["sitio"])
        <4>1. step = 6 /\ SaveOrder[5] = "sitio"
          BY <1>2, <3>2, SaveOrderFacts
        <4>2. flash["sitio"] = config["sitio"]
          BY <1>2, <2>1, <4>1 DEF Written
        <4> QED
          BY <1>4, <2>4, <4>2
      <3>3. key \in Settings => Chosen(flash'[key])
        BY <1>2, <1>4
      <3>4. InPlace(flash) => InPlace(flash')
        BY <1>3, <3>2, <3>3, PlaceStays DEF NodeIInv, NodeTyped
      <3> QED
        BY <1>3, <2>1, <2>3, <2>4, <3>1, <3>3, <3>4 DEF WellSaved
    <2> QED
      BY <2>5, <2>6
  <1>8. ConfiguredIsWhole'
    BY <1>1 DEF NodeIInv, ConfiguredIsWhole, Configured, Strong
  <1> QED
    BY <1>5, <1>6, <1>7, <1>8 DEF NodeIInv

\* One key of a migration goes to flash.
LEMMA MigrationStepPreserves ==
    ASSUME NodeIInv, MigrationStep
    PROVE  NodeIInv'
  <1>1. /\ SetKey(boot) /\ boot.pc = "saving" /\ Task(boot) /\ httpd.pc # "saving"
        /\ boot' = [boot EXCEPT !.step = @ + 1]
        /\ UNCHANGED <<refused, node_config, httpd, setups, torn>>
    BY DEF MigrationStep, SaveStep, SetKey, NodeIInv, NodeTyped, BootIsUsable
  <1>2. PICK config \in Configs, step \in 1 .. 13, key \in Saved :
            /\ config = boot.config /\ step = boot.step /\ key = SaveOrder[step]
            /\ flash'[key] = config[key]
    BY <1>1, KeyIsWritten
  <1>3. /\ flash' \in [Keys -> Values] /\ \A k \in Keys : k # key => flash'[k] = flash[k]
        /\ Task(boot)' /\ boot'.step = step + 1 /\ boot'.pc = "saving" /\ boot'.config = config
    BY <1>1, <1>2, KeyIsWritten DEF Task
  <1>4. LoadedIsUsable(config)
    BY <1>1, <1>2 DEF NodeIInv, BootIsUsable
  <1>5. NodeTyped' /\ FormIsValid' /\ BootIsUsable'
    BY <1>1, <1>3, <1>4
    DEF NodeIInv, NodeTyped, FormIsValid, BootIsUsable, Task, LoadedIsUsable, Configured, Strong
  <1>6. CompleteIsStored'
    <2>1. complete' # NoForm => /\ complete' = config /\ config["configured"] \in Setups
                                /\ \A k \in Saved : flash'[k] = config[k]
      BY <1>2 DEF MigrationStep, SaveStep, Saved
    <2> QED
      BY <1>4, <2>1, NodeConfigAssumption DEF CompleteIsStored, LoadedIsUsable, Configured, Strong
  <1>7. FlashIsWhole'
    <2> SUFFICES ASSUME ~torn PROVE WellSaved(flash') /\ Migrated'
      BY <1>1, NodeStays DEF FlashIsWhole, WellSaved, Chosen
    <2>1. /\ WellSaved(flash) /\ Written(boot)
          /\ \A k \in Settings \ Excused : Chosen(config[k])
          /\ config["network_key"] \notin Setups /\ flash["network_key"] \notin Setups
          /\ flash["location"] # Missing
      BY <1>1, <1>2 DEF NodeIInv, FlashIsWhole, Migrated
    <2>2. \A i \in 1 .. 13 : i < step + 1 => flash'[SaveOrder[i]] = config[SaveOrder[i]]
      BY <1>1, <1>2, <2>1, WrittenGrows
    <2>3. Written(boot)'
      BY <1>3, <2>2 DEF Written
    <2>4. /\ {"network_key", "location"} \subseteq Keys /\ key # "location"
          /\ {"sitio", "barangay"} \subseteq Settings \ Excused
      BY <1>2, SaveOrderFacts DEF NodeIInv, NodeTyped, Excused
    <2>5. flash'["network_key"] \notin Setups /\ flash'["location"] = flash["location"]
      BY <1>2, <1>3, <2>1, <2>4
    <2>6. Migrated'
      BY <1>1, <1>3, <2>1, <2>3, <2>5, NodeStays DEF Migrated, Chosen
    <2>7. ASSUME key = "barangay" PROVE Chosen(flash["sitio"])
      <3>1. step = 6 /\ SaveOrder[5] = "sitio"
        BY <1>2, <2>7, SaveOrderFacts
      <3>2. flash["sitio"] = config["sitio"]
        BY <1>2, <2>1, <3>1 DEF Written
      <3> QED
        BY <2>1, <2>4, <3>2
    <2>8. InPlace(flash')
      BY <1>2, <1>3, <2>1, <2>7, PlaceStays DEF NodeIInv, NodeTyped, WellSaved
    <2> QED
      BY <2>5, <2>6, <2>8 DEF WellSaved
  <1>8. ConfiguredIsWhole'
    BY <1>1 DEF NodeIInv, ConfiguredIsWhole, Configured, Strong
  <1> QED
    BY <1>5, <1>6, <1>7, <1>8 DEF NodeIInv

\* A step that changes at most what the tasks do next.
LEMMA IdleNode ==
    ASSUME NodeIInv, UNCHANGED <<flash, refused, node_config, setups, complete, torn>>,
           httpd' \in {httpd, NotSaving, [NotSaving EXCEPT !.pc = "restart"]},
           boot' \in {boot, NotSaving}
    PROVE  NodeIInv'
  <1>1. NodeTyped'
    BY NotSavingTask DEF NodeIInv, NodeTyped, Task
  <1>2. FormIsValid' /\ BootIsUsable'
    BY NotSavingTask
    DEF NodeIInv, FormIsValid, BootIsUsable, LoadedIsUsable, Configured, Strong
  <1>3. FlashIsWhole'
    <2>1. /\ httpd'.pc = "saving" => httpd' = httpd
          /\ boot'.pc = "saving" => boot' = boot
      BY NotSavingTask
    <2> QED
      BY <2>1, NodeStays
      DEF NodeIInv, FlashIsWhole, WellSaved, Written, Migrated, Chosen
  <1> QED
    BY <1>1, <1>2, <1>3 DEF NodeIInv, CompleteIsStored, ConfiguredIsWhole, Configured, Strong

\* A key cannot be written, and the save ends there.
LEMMA FailsPreserve ==
    ASSUME NodeIInv, SetupFails \/ MigrationFails
    PROVE  NodeIInv'
  BY IdleNode DEF SetupFails, MigrationFails, SaveFails

\* The location is erased; a form that was saved moves to RAM.
LEMMA EndsPreserve ==
    ASSUME NodeIInv, SetupEnds \/ MigrationEnds
    PROVE  NodeIInv'
  <1>1. /\ flash' = [flash EXCEPT !["location"] = Missing]
        /\ UNCHANGED <<refused, setups, complete, torn>>
        /\ httpd' \in {httpd, NotSaving, [NotSaving EXCEPT !.pc = "restart"]}
        /\ boot' \in {boot, NotSaving}
        /\ \/ node_config' = node_config
           \/ httpd.pc = "saving" /\ node_config' = httpd.config
    BY DEF SetupEnds, MigrationEnds, SaveEnds
  <1>2. /\ flash' \in [Keys -> Values] /\ "location" \notin Saved /\ Saved \subseteq Keys
        /\ flash'["location"] = Missing
        /\ \A k \in Saved : flash'[k] = flash[k]
    BY <1>1, SaveOrderFacts DEF NodeIInv, NodeTyped, Values
  <1>3. /\ httpd'.pc # "saving" /\ boot'.pc # "saving"
        /\ \/ httpd.pc = "saving" /\ httpd.step = 14
           \/ boot.pc = "saving" /\ boot.step = 14
    BY NotSavingTask, SaveOrderFacts
    DEF SetupEnds, MigrationEnds, SaveEnds, NodeIInv, NodeTyped, Task, BootIsUsable
  <1>4. NodeTyped'
    <2>1. node_config' \in Configs
      BY <1>1 DEF NodeIInv, NodeTyped, Task
    <2>2. Task(httpd)' /\ Task(boot)'
      BY <1>1, NotSavingTask DEF NodeIInv, NodeTyped, Task
    <2> QED
      BY <1>1, <1>2, <2>1, <2>2 DEF NodeIInv, NodeTyped
  <1>5. FormIsValid' /\ BootIsUsable'
    BY <1>3 DEF FormIsValid, BootIsUsable
  <1>6. FlashIsWhole'
    <2> SUFFICES ASSUME ~torn PROVE WellSaved(flash')
      BY <1>1, <1>3, NodeStays DEF FlashIsWhole, WellSaved, Chosen
    <2>1. /\ WellSaved(flash)
          /\ httpd.pc = "saving" => Written(httpd)
          /\ boot.pc = "saving" => Migrated
      BY DEF NodeIInv, FlashIsWhole
    <2>2. /\ {"sitio", "barangay"} \subseteq Settings \ Excused /\ Settings \subseteq Saved
          /\ "network_key" \in Saved
      BY SaveOrderFacts DEF NodeIInv, NodeTyped, Excused
    <2>3. Chosen(flash["sitio"]) /\ Chosen(flash["barangay"])
      <3>1. CASE httpd.pc = "saving" /\ httpd.step = 14
        <4>1. \A k \in Settings : Chosen(httpd.config[k])
          BY <3>1, ValidFormWhole DEF NodeIInv, FormIsValid
        <4> QED
          BY <2>1, <2>2, <3>1, <4>1, SaveOrderFacts DEF Written
      <3>2. CASE boot.pc = "saving" /\ boot.step = 14
        BY <2>1, <2>2, <3>2, SaveOrderFacts DEF Written, Migrated
      <3> QED
        BY <1>3, <3>1, <3>2
    <2> QED
      BY <1>2, <2>1, <2>2, <2>3 DEF WellSaved, InPlace, Chosen
  <1>7. CompleteIsStored'
    BY <1>1, <1>2 DEF NodeIInv, CompleteIsStored, Strong
  <1>8. ConfiguredIsWhole'
    <2>1. CASE node_config' = node_config
      BY <1>1, <2>1 DEF NodeIInv, ConfiguredIsWhole, Configured, Strong
    <2>2. CASE httpd.pc = "saving" /\ node_config' = httpd.config
      BY <2>2, ValidFormWhole
      DEF NodeIInv, FormIsValid, ConfiguredIsWhole, Configured, Strong, Chosen
    <2> QED
      BY <1>1, <2>1, <2>2
  <1> QED
    BY <1>4, <1>5, <1>6, <1>7, <1>8 DEF NodeIInv

\* A form that was accepted is a configuration.
LEMMA FormTyped ==
    ASSUME NEW n \in Setups, NEW form \in Forms(n), ValidForm(form)
    PROVE  form \in Configs /\ \A k \in Saved \ {"duress_pin"} : form[k] \in Setups
  <1>1. n \in Values /\ Missing \in Values /\ Weak \in Values
    BY DEF Values
  <1>2. Form(n) = [k \in Saved |-> n]
    BY DEF Form, Saved
  <1>3. form = Form(n) \/ form = [Form(n) EXCEPT !["duress_pin"] = Missing]
    <2>1. ASSUME NEW c \in Credentials, form = [Form(n) EXCEPT ![c] = Weak] PROVE FALSE
      BY <1>2, <2>1, CredentialsSaved DEF ValidForm, Strong
    <2>2. ASSUME form = [Form(n) EXCEPT !["duress_pin"] = Weak] PROVE FALSE
      BY <1>2, <2>2, SaveOrderFacts DEF ValidForm
    <2> QED
      BY <2>1, <2>2 DEF Forms
  <1> QED
    BY <1>1, <1>2, <1>3 DEF Configs

\* The setup handler begins a save.
LEMMA SetupHandlerPreserves ==
    ASSUME NodeIInv, http_setup_handler
    PROVE  NodeIInv'
  <1>1. PICK n \in Setups : n = setups + 1
    BY NodeConfigAssumption DEF NodeIInv, NodeTyped, http_setup_handler, Setups
  <1>2. PICK form \in Forms(n) :
            httpd' = IF ValidForm(form) THEN [pc |-> "saving", step |-> 1, config |-> form]
                     ELSE NotSaving
    BY <1>1 DEF http_setup_handler
  <1>3. /\ UNCHANGED <<flash, refused, node_config, boot, complete>> /\ setups' = n
        /\ torn' = (torn \/ button = "restart") /\ boot = NotSaving
    BY <1>1 DEF http_setup_handler, Running
  <1>4. /\ Task(httpd)'
        /\ httpd'.pc = "saving" => /\ httpd'.step = 1
                                   /\ \A k \in Saved \ {"duress_pin"} : httpd'.config[k] \in Setups
    <2>1. CASE ValidForm(form)
      BY <1>2, <2>1, FormTyped DEF Task
    <2>2. CASE ~ValidForm(form)
      BY <1>2, <2>2, NotSavingTask DEF Task
    <2> QED
      BY <2>1, <2>2
  <1>5. NodeTyped'
    <2>1. torn' \in BOOLEAN
      BY <1>3
    <2>2. setups' \in 0 .. MaxSetups
      BY <1>3, NodeConfigAssumption DEF Setups
    <2> QED
      BY <1>3, <1>4, <2>1, <2>2 DEF NodeIInv, NodeTyped, Task
  <1>6. FormIsValid' /\ BootIsUsable' /\ CompleteIsStored'
    BY <1>3, <1>4, NotSavingTask DEF NodeIInv, FormIsValid, BootIsUsable, CompleteIsStored, Strong
  <1>7. torn => torn'
    BY <1>3
  <1>8. FlashIsWhole'
    <2>1. httpd'.pc = "saving" => Written(httpd)'
      BY <1>4 DEF Written
    <2> QED
      BY <1>3, <1>7, <2>1, NotSavingTask, NodeStays DEF NodeIInv, FlashIsWhole, WellSaved, Chosen
  <1>9. ConfiguredIsWhole'
    BY <1>3, <1>7 DEF NodeIInv, ConfiguredIsWhole, Configured, Strong
  <1> QED
    BY <1>5, <1>6, <1>8, <1>9 DEF NodeIInv

\* What an erase leaves is a flash.
LEMMA PartlyErasedTyped ==
    ASSUME NEW stored \in [Keys -> Values], NEW new \in PartlyErased(stored)
    PROVE  new \in [Keys -> Values]
  BY DEF PartlyErased, Values

\* A factory reset erases all keys, some or none.
LEMMA ErasePreserves ==
    ASSUME NodeIInv, NEW done \in BOOLEAN,
           factory_reset_button_task(done) \/ http_reset_handler(done)
    PROVE  NodeIInv'
  <1>1. /\ node_config_erase(done) /\ boot = NotSaving
        /\ UNCHANGED <<refused, node_config, boot, setups>>
        /\ httpd' \in {httpd, [NotSaving EXCEPT !.pc = "restart"]}
    BY DEF factory_reset_button_task, http_reset_handler, Running
  <1>2. CASE UNCHANGED <<flash, complete, torn>>
    BY <1>1, <1>2, IdleNode
  <1>3. CASE /\ flash' \in [Keys -> Values] /\ complete' = NoForm /\ torn' \in BOOLEAN
             /\ torn \/ httpd.pc = "saving" => torn'
             /\ ~torn' => WellSaved(flash')
    <2>1. NodeTyped'
      BY <1>1, <1>3, NotSavingTask DEF NodeIInv, NodeTyped, Task
    <2>2. FormIsValid' /\ BootIsUsable' /\ CompleteIsStored'
      BY <1>1, <1>3, NotSavingTask DEF NodeIInv, FormIsValid, BootIsUsable, CompleteIsStored
    <2>3. FlashIsWhole'
      BY <1>1, <1>3, NotSavingTask, NodeStays DEF FlashIsWhole, WellSaved, Chosen
    <2>4. ConfiguredIsWhole'
      BY <1>1, <1>3 DEF NodeIInv, ConfiguredIsWhole, Configured, Strong
    <2> QED
      BY <2>1, <2>2, <2>3, <2>4 DEF NodeIInv
  <1>4. CASE done
    <2>1. /\ flash' = [k \in Keys |-> Missing] /\ complete' = NoForm
          /\ torn' = (torn \/ httpd.pc = "saving")
      BY <1>1, <1>4 DEF node_config_erase
    <2>2. flash' \in [Keys -> Values] /\ flash'["network_key"] = Missing /\ flash'["location"] = Missing
      BY <2>1, SaveOrderFacts DEF Values
    <2>3. WellSaved(flash')
      BY <2>2, NodeConfigAssumption DEF WellSaved
    <2>4. torn' \in BOOLEAN /\ (torn \/ httpd.pc = "saving" => torn')
      BY <2>1
    <2> QED
      BY <1>3, <2>1, <2>2, <2>3, <2>4
  <1>5. CASE ~done /\ flash' \in PartlyErased(flash) /\ complete' = NoForm /\ torn' = TRUE
    BY <1>3, <1>5, PartlyErasedTyped DEF NodeIInv, NodeTyped
  <1> QED
    BY <1>1, <1>2, <1>4, <1>5 DEF node_config_erase

\* A restart loads what flash holds.
LEMMA RestartPreserves ==
    ASSUME NodeIInv, NEW readable \in BOOLEAN, esp_restart(readable) \/ PowerLoss(readable)
    PROVE  NodeIInv'
  <1>1. Start(flash, readable) /\ UNCHANGED <<flash, setups, complete, torn>>
    BY DEF esp_restart, PowerLoss
  <1>2. PICK stored \in [Keys -> Values] : stored = flash
    BY DEF NodeIInv, NodeTyped
  <1>3. /\ torn' \in BOOLEAN /\ setups' \in 0 .. MaxSetups
        /\ ~torn' => WellSaved(stored)
        /\ refused \subseteq {"default_priority"}
    BY <1>1, <1>2 DEF NodeIInv, NodeTyped, FlashIsWhole
  <1>4. CompleteIsStored'
    BY <1>1 DEF NodeIInv, CompleteIsStored, Strong
  <1> QED
    BY <1>1, <1>2, <1>3, <1>4, StartPreserves

\* Every step of the configuration keeps the invariant.
LEMMA NodeStep == NodeIInv /\ [NodeNext]_nodeVars => NodeIInv'
  <1> SUFFICES ASSUME NodeIInv, [NodeNext]_nodeVars PROVE NodeIInv'
    OBVIOUS
  <1>1. CASE UNCHANGED nodeVars
    BY <1>1, IdleNode DEF nodeVars
  <1>2. CASE NodeNext
    BY <1>2, MigrationStepPreserves, SetupStepPreserves, FailsPreserve, EndsPreserve,
       SetupHandlerPreserves, ErasePreserves, RestartPreserves
    DEF NodeNext
  <1> QED
    BY <1>1, <1>2

\* The invariant of the configuration holds throughout.
LEMMA NodeInductive == NodeSpec => []NodeIInv
  BY NodeInitially, NodeStep, PTL DEF NodeSpec

-----------------------------------------------------------------------------
(* The theorems about the configuration                                    *)

\* However often a save is cut short by a power loss or a refused write, at any
\* of its 13 keys and for any number of forms: a node that comes up configured
\* has accepted credentials and all its settings, but for those the older
\* firmware lacked, unless an erase was torn (node_config.c:257, 278-291).
THEOREM ConfiguredNodesAreWhole == NodeSpec => []ConfiguredIsWhole
  <1>1. NodeIInv => ConfiguredIsWhole
    BY DEF NodeIInv
  <1> QED
    BY <1>1, NodeInductive, PTL

\* A form all of whose keys reached the flash is what every later boot that can
\* read its flash loads, whatever the save reported (node_config.c:247, 291).
THEOREM CompleteSetupSurvives == NodeSpec => SetupSurvives
  <1>1. ASSUME NodeIInv, esp_restart(TRUE) \/ PowerLoss(TRUE), complete # NoForm,
               NEW k \in ToSet(SaveOrder)
        PROVE  node_config'[k] = IF k = "duress_pin" /\ complete[k] = Missing
                                 THEN Random ELSE complete[k]
    <2>1. node_config' = node_config_load(flash)
      BY <1>1 DEF esp_restart, PowerLoss, Start
    <2>2. /\ flash \in [Keys -> Values] /\ k \in Saved
          /\ \A j \in Saved : flash[j] = complete[j]
          /\ \A j \in Saved \ {"duress_pin"} : complete[j] # Missing
          /\ complete["configured"] \in Setups
          /\ \A c \in Credentials : Strong(complete[c])
      BY <1>1 DEF NodeIInv, NodeTyped, CompleteIsStored, Saved
    <2>3. "configured" \in Saved
      BY SaveOrderFacts
    <2>4. \A c \in Credentials : Strong(flash[c])
      BY <2>2, CredentialsSaved
    <2> QED
      BY <2>1, <2>2, <2>3, <2>4, LoadExact
  <1>2. NodeIInv => [(esp_restart(TRUE) \/ PowerLoss(TRUE)) /\ complete # NoForm =>
                        \A k \in ToSet(SaveOrder) :
                            node_config'[k] = IF k = "duress_pin" /\ complete[k] = Missing
                                              THEN Random ELSE complete[k]]_nodeVars
    BY <1>1
  <1> QED
    BY <1>2, NodeInductive, PTL DEF SetupSurvives

-----------------------------------------------------------------------------
(* The store and the configuration together                                *)

\* A restart is as a node there is.
LEMMA RestartIdentity ==
    ASSUME NodeIInv, Restart
    PROVE  Identity[node_id'] \in Nodes
  <1>1. PICK readable \in BOOLEAN : Start(flash, readable)
    BY DEF Restart, esp_restart, PowerLoss
  <1>2. node_config' \in Configs /\ node_id' = node_config'["node_id"]
    BY <1>1, LoadTyped DEF Start, NodeIInv, NodeTyped
  <1>3. node_id' \in Values
    BY <1>2, SaveOrderFacts DEF Configs
  <1> QED
    BY <1>3, IdentityAssumption

\* Every behaviour of the two together is a behaviour of each, so that what is
\* proved of the store and of the configuration holds of the namespace they
\* share: a reset and a restart are steps of both (node_config.c:310,
\* app_runtime.c:387-394).
THEOREM NvsIsBoth == NvsSpec => StoreSpec /\ NodeSpec
  <1>1. NvsInit => StoreInit /\ NodeInit
    BY DEF NvsInit
  <1>2. ASSUME [NvsNext]_nvsVars PROVE [NodeNext]_nodeVars
    <2>1. CASE Configuration
      BY <2>1 DEF Configuration, NodeNext
    <2>2. CASE FactoryReset
      BY <2>2 DEF FactoryReset, NodeNext
    <2>3. CASE Restart
      BY <2>3 DEF Restart, NodeNext
    <2> QED
      BY <1>2, <2>1, <2>2, <2>3 DEF NvsNext, nvsVars, Messages
  <1>3. NvsSpec => NodeSpec
    BY <1>1, <1>2, PTL DEF NvsSpec, NodeSpec
  <1>4. ASSUME NodeIInv, [NvsNext]_nvsVars PROVE [StoreNext]_apiVars
    <2>1. CASE FactoryReset
      BY <2>1 DEF FactoryReset, StoreNext
    <2>2. CASE Restart
      <3>1. Identity[node_id'] \in Nodes
        BY <1>4, <2>2, RestartIdentity
      <3> QED
        BY <2>2, <3>1 DEF Restart, StoreNext
    <2> QED
      BY <1>4, <2>1, <2>2 DEF NvsNext, nvsVars, Messages, Configuration, StoreNext
  <1>5. NvsSpec => StoreSpec
    BY <1>1, <1>3, <1>4, NodeInductive, PTL DEF NvsSpec, StoreSpec
  <1> QED
    BY <1>3, <1>5

\* A write leaves the mail of this node where what it writes is that.
LEMMA WriteOwn ==
    ASSUME StoreTypeOK, ShowsOwnMail, UNCHANGED identity, NEW s \in Slots, NEW m, NEW outcome,
           write_record_locked(s, m, outcome),
           m # NoMessage => identity \in {m.source, m.destination}
    PROVE  ShowsOwnMail'
  BY DEF StoreTypeOK, ShowsOwnMail, write_record_locked

\* A status says nothing of whose a message is.
LEMMA StatusOwn ==
    ASSUME StoreTypeOK, ShowsOwnMail, UNCHANGED identity, NEW s \in Slots, ram[s] # NoMessage,
           NEW status, NEW outcome,
           write_record_locked(s, [ram[s] EXCEPT !.status = status], outcome)
    PROVE  ShowsOwnMail'
  <1>1. ram[s] \in Message
    BY DEF StoreTypeOK
  <1>2. PICK m : m = [ram[s] EXCEPT !.status = status]
    OBVIOUS
  <1>3. m.source = ram[s].source /\ m.destination = ram[s].destination
    BY <1>1, <1>2 DEF Message
  <1> QED
    BY <1>2, <1>3, WriteOwn DEF ShowsOwnMail

\* Nor does a step that writes nothing to RAM.
LEMMA IdleOwn ==
    ASSUME ShowsOwnMail, UNCHANGED <<ram, identity>>
    PROVE  ShowsOwnMail'
  BY DEF ShowsOwnMail

\* The store's own steps keep to the mail of this node.
LEMMA OperationOwn ==
    ASSUME StoreIInv, ShowsOwnMail, StoreOperation
    PROVE  ShowsOwnMail' /\ UNCHANGED identity
  <1>1. StoreTypeOK /\ identity \in Nodes
    BY DEF StoreIInv, ApiTypeOK
  <1>2. ASSUME NEW t \in Tasks, Allocate(t) PROVE ShowsOwnMail' /\ UNCHANGED identity
    <2>1. PICK s \in Slots, outcome \in NvsOutcomes : message_store_allocate(s, outcome)
      BY <1>2 DEF Allocate
    <2>2. UNCHANGED ram \/ write_record_locked(s, NoMessage, outcome)
      BY <2>1, DeleteIsWrite DEF message_store_allocate
    <2> QED
      BY <1>1, <1>2, <2>2, WriteOwn, IdleOwn DEF Allocate
  <1>3. ASSUME NEW t \in Tasks, AllocateDenied(t) PROVE ShowsOwnMail' /\ UNCHANGED identity
    <2>1. PICK outcome \in NvsOutcomes : AllocateFails(outcome)
      BY <1>3 DEF AllocateDenied
    <2>2. \/ UNCHANGED ram
          \/ OldestSlot \in Slots /\ write_record_locked(OldestSlot, NoMessage, outcome)
      BY <1>1, <2>1, DeleteIsWrite, OldestIsEvictable DEF AllocateFails, Evictable
    <2> QED
      BY <1>1, <1>3, <2>2, WriteOwn, IdleOwn DEF AllocateDenied
  <1>4. ASSUME NEW t \in Tasks, Write(t) PROVE ShowsOwnMail' /\ UNCHANGED identity
    <2>1. PICK m \in NewMessages(lastId + 1, identity), outcome \in NvsOutcomes :
              message_store_write(holding[t], m, outcome)
      BY <1>4 DEF Write
    <2>2. PICK s \in Slots : s = holding[t] /\ s \in reserved
      BY <1>4, HeldReservation DEF Write
    <2>3. identity \in {m.source, m.destination}
      BY DEF NewMessages
    <2>4. write_record_locked(s, m, outcome)
      BY <2>1, <2>2 DEF message_store_write
    <2> QED
      BY <1>1, <1>4, <2>3, <2>4, WriteOwn DEF Write
  <1>5. ASSUME NEW t \in Tasks, Release(t) PROVE ShowsOwnMail' /\ UNCHANGED identity
    <2>1. PICK outcome \in NvsOutcomes : message_store_delete(holding[t], outcome)
      BY <1>5 DEF Release
    <2>2. holding[t] \in reserved /\ ram[holding[t]] = NoMessage
      BY <1>5, HeldReservation DEF Release
    <2> QED
      BY <1>5, <2>1, <2>2, IdleOwn DEF Release, message_store_delete
  <1>6. ASSUME NEW s \in Slots, Update(s) PROVE ShowsOwnMail' /\ UNCHANGED identity
    <2>1. PICK status \in Statuses, outcome \in NvsOutcomes :
              message_store_update(s, [ram[s] EXCEPT !.status = status], outcome)
      BY <1>6 DEF Update, Statuses
    <2>2. ram[s] # NoMessage /\ UNCHANGED identity
      BY <1>6 DEF Update
    <2> QED
      BY <1>1, <2>1, <2>2, StatusOwn DEF message_store_update
  <1>7. ASSUME NEW s \in Slots, Delete(s) PROVE ShowsOwnMail' /\ UNCHANGED identity
    <2>1. PICK outcome \in NvsOutcomes : message_store_delete(s, outcome)
      BY <1>7 DEF Delete
    <2>2. UNCHANGED ram \/ write_record_locked(s, NoMessage, outcome)
      BY <2>1, DeleteIsWrite DEF message_store_delete
    <2> QED
      BY <1>1, <1>7, <2>2, WriteOwn, IdleOwn DEF Delete
  <1>8. ASSUME NEW id, NEW source, UpdateStatus(id, source)
        PROVE  ShowsOwnMail' /\ UNCHANGED identity
    <2>1. PICK s \in Slots : s = find_message_slot(id, source) /\ ram[s] # NoMessage /\ s >= 0
      BY <1>8, FoundSlot DEF UpdateStatus
    <2>2. PICK outcome \in NvsOutcomes : message_store_update_status(id, source, "FAILED", outcome)
      BY <1>8 DEF UpdateStatus
    <2>3. write_record_locked(s, [ram[s] EXCEPT !.status = "FAILED"], outcome)
      BY <2>1, <2>2 DEF message_store_update_status
    <2> QED
      BY <1>1, <1>8, <2>1, <2>3, StatusOwn DEF UpdateStatus
  <1>9. ASSUME NEW id, NEW source, RemoveById(id, source)
        PROVE  ShowsOwnMail' /\ UNCHANGED identity
    <2>1. PICK s \in Slots : s = find_message_slot(id, source) /\ s >= 0
      BY <1>9, FoundSlot DEF RemoveById
    <2>2. PICK outcome \in NvsOutcomes : message_store_remove(id, source, outcome)
      BY <1>9 DEF RemoveById
    <2>3. write_record_locked(s, NoMessage, outcome)
      BY <2>1, <2>2, DeleteIsWrite DEF message_store_remove
    <2> QED
      BY <1>1, <1>9, <2>3, WriteOwn DEF RemoveById
  <1> QED
    BY <1>2, <1>3, <1>4, <1>5, <1>6, <1>7, <1>8, <1>9 DEF StoreOperation

\* A boot takes over the mail of the node it boots as.
LEMMA RebootOwn ==
    ASSUME NEW node, Reboot(node)
    PROVE  ShowsOwnMail' /\ identity' = node
  <1>1. PICK readable : message_store_load_messages_from_nvs(node, readable)
    BY DEF Reboot
  <1>2. \A s \in Slots : ram'[s] # NoMessage => node \in {ram'[s].source, ram'[s].destination}
    BY <1>1 DEF message_store_load_messages_from_nvs, load_persisted_slot
  <1>3. identity' = node
    BY DEF Reboot
  <1> QED
    BY <1>2, <1>3 DEF ShowsOwnMail

\* No node ever shows the mail of the node it was before a setup or a reset,
\* although that is still in flash, and the node it is, is the one its
\* configuration names (message_store.c:216-224, node_config.c:310,
\* app_runtime.c:387-394).
THEOREM MailIsOwn == NvsSpec => [](ShowsOwnMail /\ identity = Identity[node_id])
  <1> DEFINE Own == ShowsOwnMail /\ identity = Identity[node_id]
  <1>1. NvsInit => Own
    BY DEF NvsInit, StoreInit, ShowsOwnMail
  <1>2. ASSUME StoreIInv, Own, [NvsNext]_nvsVars PROVE Own'
    <2>1. CASE UNCHANGED nvsVars
      BY <1>2, <2>1, IdleOwn DEF nvsVars, apiVars, storeVars, nodeVars
    <2>2. CASE Messages
      BY <1>2, <2>2, OperationOwn DEF Messages, nodeVars
    <2>3. CASE Configuration
      <3>1. UNCHANGED node_id
        BY <2>3
        DEF Configuration, MigrationStep, MigrationFails, MigrationEnds, http_setup_handler,
            SetupStep, SetupFails, SetupEnds, SaveStep, SaveFails
      <3> QED
        BY <1>2, <2>3, <3>1, IdleOwn DEF Configuration, apiVars, storeVars
    <2>4. CASE FactoryReset
      <3>1. UNCHANGED <<node_id, ram, identity>>
        BY <2>4 DEF FactoryReset, factory_reset_button_task, http_reset_handler, NamespaceErased
      <3> QED
        BY <1>2, <3>1, IdleOwn
    <2>5. CASE Restart
      BY <2>5, RebootOwn DEF Restart
    <2> QED
      BY <1>2, <2>1, <2>2, <2>3, <2>4, <2>5 DEF NvsNext
  <1> QED
    BY <1>1, <1>2, NvsIsBoth, StoreInductive, PTL DEF NvsSpec

=============================================================================
