------------------------------- MODULE Dedup -------------------------------
(***************************************************************************)
(* The table of packets seen in the last minute (mesh_protocol.c): a fixed *)
(* number of slots that are either free or in a hash chain and in a list   *)
(* of the expiry wheel, under a millisecond clock that wraps.              *)
(*                                                                         *)
(* The linked lists through the slots are sequences of slots here.  The    *)
(* tables have a lock, and every operation runs under it.                  *)
(***************************************************************************)
EXTENDS Integers, Sequences, FiniteSets, SequencesExt

CONSTANTS
    Packets,                    \* (source, id)
    seen_bucket_index,          \* the hash bucket of a packet
    MAX_SEEN_PACKETS,
    DEDUP_EXPIRY_BUCKET_MS, DEDUP_EXPIRY_BUCKET_COUNT,
    ClockModulus,               \* 2^32
    StartMs,                    \* clock at the first call
    MaxElapsed,                 \* bound on time
    Nothing

SEEN_PACKET_TTL_MS == DEDUP_EXPIRY_BUCKET_MS * DEDUP_EXPIRY_BUCKET_COUNT

ASSUME DedupAssumption ==
    /\ MAX_SEEN_PACKETS \in Nat \ {0}
    /\ DEDUP_EXPIRY_BUCKET_MS \in Nat \ {0, 1} /\ DEDUP_EXPIRY_BUCKET_COUNT \in Nat \ {0}
    /\ ClockModulus \in Nat /\ ClockModulus > 2 * SEEN_PACKET_TTL_MS
    /\ StartMs \in 0 .. ClockModulus - 1 /\ MaxElapsed \in Nat
    /\ DOMAIN seen_bucket_index = Packets /\ Nothing \notin Packets

Slots == 1 .. MAX_SEEN_PACKETS
Buckets == Range(seen_bucket_index)
Wheel == 0 .. DEDUP_EXPIRY_BUCKET_COUNT - 1

VARIABLES
    seen,               \* the table: its lists, its slots and last_expiry_bucket
    dedup_time,            \* time since the first call, without the wrap
    remembered          \* history: when the packets in the table were entered

dedupVars == <<seen, dedup_time, remembered>>

Clock(t) == (StartMs + t) % ClockModulus
dedup_now_ms == Clock(dedup_time)

\* uint32_t arithmetic and the sign of its int32_t reading.
Minus(a, b) == (a - b) % ClockModulus
Negative(a) == 2 * a >= ClockModulus

-----------------------------------------------------------------------------
ExpirationBucket(now) == (now - SEEN_PACKET_TTL_MS) \div DEDUP_EXPIRY_BUCKET_MS

dedup_init_storage(now) ==
    [free   |-> [i \in Slots |-> i],
     hash   |-> [b \in Buckets |-> <<>>],
     wheel  |-> [w \in Wheel |-> <<>>],
     packet |-> [i \in Slots |-> Nothing],
     ms     |-> [i \in Slots |-> 0],
     last   |-> IF now < SEEN_PACKET_TTL_MS THEN 0 ELSE ExpirationBucket(now)]

\* What a walk along a list leaves of it: the slots in S, in their order.
Sift(list, S) ==
    LET left[k \in 0 .. Len(list)] ==
            IF k = 0 THEN <<>>
            ELSE IF list[k] \in S THEN Append(left[k - 1], list[k]) ELSE left[k - 1]
    IN  left[Len(list)]

\* A plausible bug: the slot is freed and stays in its hash chain.
RemoveFromWheelOnly(s, gone) ==
    [s EXCEPT !.packet = [i \in Slots |-> IF i \in ToSet(gone) THEN Nothing ELSE @[i]],
              !.free = Reverse(gone) \o @]

\* remove_from_hash for each slot of `gone`, which then go to the free list.
Expire(s, gone) ==
    [s EXCEPT !.hash = [b \in Buckets |-> Sift(@[b], Slots \ ToSet(gone))],
              !.packet = [i \in Slots |-> IF i \in ToSet(gone) THEN Nothing ELSE @[i]],
              !.free = Reverse(gone) \o @]

\* One round of the loop for the wheel's list of bucket last_expiry_bucket.
\* Entries that are too young are retained; one of the bucket that is being
\* expired ends the loop before the bucket is counted as done.
ExpireBucket(s, now) ==
    LET w     == s.last % DEDUP_EXPIRY_BUCKET_COUNT
        old   == {i \in Slots : Minus(now, s.ms[i]) >= SEEN_PACKET_TTL_MS}
        kept  == Sift(s.wheel[w], Slots \ old)
        stays == \E i \in ToSet(kept) : s.ms[i] \div DEDUP_EXPIRY_BUCKET_MS <= ExpirationBucket(now)
        swept == [Expire(s, Sift(s.wheel[w], old)) EXCEPT !.wheel[w] = kept]
    IN  IF stays THEN swept ELSE [swept EXCEPT !.last = @ + 1]

\* A plausible bug: after a long silence only the buckets missed last are swept.
ExpireNoJump(s, now) ==
    IF now < SEEN_PACKET_TTL_MS \/ Negative(Minus(ExpirationBucket(now), s.last)) THEN s
    ELSE LET last == ExpirationBucket(now)
             from == [s EXCEPT !.last = IF last - @ >= DEDUP_EXPIRY_BUCKET_COUNT THEN last ELSE @]
             round[k \in 0 .. DEDUP_EXPIRY_BUCKET_COUNT] ==
                 IF k = 0 THEN from
                 ELSE IF Negative(Minus(last, round[k - 1].last)) THEN round[k - 1]
                 ELSE ExpireBucket(round[k - 1], now)
         IN  round[DEDUP_EXPIRY_BUCKET_COUNT]

\* Nothing expires in the first minute of the clock, nor while the bucket to
\* expire is behind the last one, as it is once the clock has wrapped.  A round
\* after the loop has ended repeats the last one and changes nothing.
expire_current_and_prior_buckets(s, now) ==
    IF now < SEEN_PACKET_TTL_MS \/ Negative(Minus(ExpirationBucket(now), s.last)) THEN s
    ELSE LET last == ExpirationBucket(now)
             from == [s EXCEPT !.last = IF last - @ >= DEDUP_EXPIRY_BUCKET_COUNT
                                        THEN last - DEDUP_EXPIRY_BUCKET_COUNT + 1 ELSE @]
             round[k \in 0 .. DEDUP_EXPIRY_BUCKET_COUNT] ==
                 IF k = 0 THEN from
                 ELSE IF Negative(Minus(last, round[k - 1].last)) THEN round[k - 1]
                 ELSE ExpireBucket(round[k - 1], now)
         IN  round[DEDUP_EXPIRY_BUCKET_COUNT]

\* The walk along the hash chain, seen_entry_matches on each entry.
Finds(s, p) == \E i \in ToSet(s.hash[seen_bucket_index[p]]) : s.packet[i] = p

\* insert_entry at the head of both lists, in the slot alloc_entry takes.
insert_entry(s, p, now) ==
    LET i == Head(s.free)
        w == (now \div DEDUP_EXPIRY_BUCKET_MS) % DEDUP_EXPIRY_BUCKET_COUNT
    IN  [s EXCEPT !.free = Tail(@), !.packet[i] = p, !.ms[i] = now,
                  !.hash[seen_bucket_index[p]] = <<i>> \o @, !.wheel[w] = <<i>> \o @]

InTable(s) == {s.packet[i] : i \in Slots} \ {Nothing}

\* A packet that is known keeps its time; one for a full table is not remembered.
remember_packet(p) ==
    LET s == expire_current_and_prior_buckets(seen, dedup_now_ms)
    IN  /\ seen' = IF Finds(s, p) \/ s.free = <<>> THEN s ELSE insert_entry(s, p, dedup_now_ms)
        /\ remembered' = [q \in Packets |->
                             IF q \notin InTable(seen') THEN Nothing
                             ELSE IF q \notin InTable(s) THEN dedup_time ELSE remembered[q]]
        /\ UNCHANGED dedup_time

\* packet_seen(p) answers Finds(seen', p).
packet_seen(p) ==
    /\ seen' = expire_current_and_prior_buckets(seen, dedup_now_ms)
    /\ remembered' = [q \in Packets |-> IF q \in InTable(seen') THEN remembered[q] ELSE Nothing]
    /\ UNCHANGED dedup_time

TimePasses ==
    /\ dedup_time < MaxElapsed
    /\ \E t \in dedup_time + 1 .. MaxElapsed : dedup_time' = t
    /\ UNCHANGED <<seen, remembered>>

DedupInit ==
    /\ dedup_time = 0
    /\ seen = dedup_init_storage(dedup_now_ms)
    /\ remembered = [p \in Packets |-> Nothing]

DedupNext ==
    \/ \E p \in Packets : remember_packet(p) \/ packet_seen(p)
    \/ TimePasses

DedupSpec == DedupInit /\ [][DedupNext]_dedupVars

-----------------------------------------------------------------------------
(* Properties                                                              *)

\* The positions of slot i in the lists of a family.
Places(lists, i) ==
    {at \in UNION {{l} \X DOMAIN lists[l] : l \in DOMAIN lists} : lists[at[1]][at[2]] = i}

\* A slot is once in the free list, or else once in the chain of its packet and
\* once in the wheel's list of its second: none is lost, none is in two lists
\* (mesh_protocol.c:130-148, 198-218, 238-255).
EverySlotHasItsLists ==
    \A i \in Slots :
        IF seen.packet[i] = Nothing
        THEN /\ Cardinality({n \in DOMAIN seen.free : seen.free[n] = i}) = 1
             /\ Places(seen.hash, i) = {} /\ Places(seen.wheel, i) = {}
        ELSE /\ i \notin ToSet(seen.free)
             /\ Cardinality(Places(seen.hash, i)) = 1
             /\ i \in ToSet(seen.hash[seen_bucket_index[seen.packet[i]]])
             /\ Cardinality(Places(seen.wheel, i)) = 1
             /\ i \in ToSet(seen.wheel[(seen.ms[i] \div DEDUP_EXPIRY_BUCKET_MS)
                                           % DEDUP_EXPIRY_BUCKET_COUNT])

Wrapped == StartMs + dedup_time >= ClockModulus

\* Right after a call a packet is known exactly if it was entered less than a
\* minute ago, after any silence and at any phase of the seconds.  A packet that
\* meets a full table is not entered at all (732-737), which keeps the minute of
\* the others; test_dedup_evicts_old_entries_when_full (test_main.c:225) expects
\* the oldest to give way.  Once the clock has wrapped, packets are still never
\* forgotten early, but are no longer forgotten at all (mesh_protocol.c:177-224).
KnownForAMinute ==
    [][UNCHANGED dedup_time =>
          \A p \in Packets :
              /\ remembered[p] # Nothing /\ dedup_time - remembered[p] < SEEN_PACKET_TTL_MS
                     => Finds(seen', p)
              /\ Finds(seen', p) /\ ~Wrapped => dedup_time - remembered'[p] < SEEN_PACKET_TTL_MS]_dedupVars
=============================================================================
