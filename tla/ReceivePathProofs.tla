------------------------- MODULE ReceivePathProofs -------------------------
(***************************************************************************)
(* The parts of the receive path for every size of their tables, windows   *)
(* and queues: the replay window, the route table, the roster, the forward *)
(* queues and the table of packets seen; and the packet formats, for every *)
(* packet.                                                                 *)
(***************************************************************************)
EXTENDS ReceivePath, LoopTheorems, FiniteSetTheorems, SequenceTheorems

-----------------------------------------------------------------------------
(* Arithmetic of counters that wrap                                        *)

\* One wrap downwards.
LEMMA ModBelow ==
    ASSUME NEW m \in Nat \ {0}, NEW x \in Int, -m <= x, x < 0 PROVE x % m = x + m
  OBVIOUS

\* At most one wrap either way.
LEMMA ModOnce ==
    ASSUME NEW m \in Nat \ {0}, NEW x \in Int, -m <= x, x < 2 * m
    PROVE  x % m \in {x - m, x, x + m} /\ x % m \in 0 .. m - 1
  <1>1. CASE x < 0
    BY <1>1, ModBelow
  <1>2. CASE 0 <= x /\ x < m
    BY <1>2, ModSmall
  <1>3. CASE m <= x
    <2>1. x % m = x - m
      BY <1>3, ModAbove
    <2> QED
      BY <1>3, <2>1
  <1> QED
    BY <1>1, <1>2, <1>3

\* Two readings of a counter, taken less than one turn apart, differ by the time
\* between them, wherever the counter wraps.
LEMMA WrappedDifference ==
    ASSUME NEW m \in Nat \ {0}, NEW c \in Int, -m <= c, c < m,
           NEW x \in Nat, NEW y \in Nat, x < m, y < m, c + x < 2 * m, c + y < 2 * m
    PROVE  (((c + x) % m) - ((c + y) % m)) % m = IF x >= y THEN x - y ELSE m + x - y
  <1> DEFINE X == (c + x) % m
             Y == (c + y) % m
  <1>1. X \in {c + x - m, c + x, c + x + m} /\ X \in 0 .. m - 1
    <2>1. PICK z \in Int : z = c + x
      OBVIOUS
    <2>2. -m <= z /\ z < 2 * m
      BY <2>1
    <2>3. z % m \in {z - m, z, z + m} /\ z % m \in 0 .. m - 1
      BY <2>2, ModOnce
    <2> QED
      BY <2>1, <2>3
  <1>2. Y \in {c + y - m, c + y, c + y + m} /\ Y \in 0 .. m - 1
    <2>1. PICK z \in Int : z = c + y
      OBVIOUS
    <2>2. -m <= z /\ z < 2 * m
      BY <2>1
    <2>3. z % m \in {z - m, z, z + m} /\ z % m \in 0 .. m - 1
      BY <2>2, ModOnce
    <2> QED
      BY <2>1, <2>3
  <1> HIDE DEF X, Y
  <1>3. X \in Int /\ Y \in Int /\ X - Y \in Int /\ -m <= X - Y /\ X - Y < m
    BY <1>1, <1>2
  <1>4. X - Y \in {x - y - m, x - y, x - y + m}
    BY <1>1, <1>2
  <1>5. CASE X - Y < 0
    <2>1. (X - Y) % m = X - Y + m
      BY <1>3, <1>5, ModBelow
    <2> QED
      BY <1>3, <1>4, <1>5, <2>1 DEF X, Y
  <1>6. CASE X - Y >= 0
    <2>1. (X - Y) % m = X - Y
      BY <1>3, <1>6, ModSmall
    <2> QED
      BY <1>3, <1>4, <1>6, <2>1 DEF X, Y
  <1> QED
    BY <1>3, <1>5, <1>6

\* A product with a positive factor keeps the order.
LEMMA TimesMonotone ==
    ASSUME NEW m \in Nat \ {0}, NEW a \in Int, NEW b \in Int, a <= b
    PROVE  m * a <= m * b
  OBVIOUS

\* Quotient and remainder keep the order of numbers, so there is one of each.
LEMMA QuotientOrder ==
    ASSUME NEW m \in Nat \ {0}, NEW p \in Int, NEW q \in Int, NEW r \in 0 .. m - 1, NEW s \in 0 .. m - 1,
           m * p + r <= m * q + s
    PROVE  p <= q
  <1>1. ASSUME q + 1 <= p PROVE FALSE
    <2>1. m * (q + 1) <= m * p
      BY <1>1, TimesMonotone
    <2>2. m * (q + 1) = m * q + m
      OBVIOUS
    <2>3. PICK u \in Int, v \in Int : u = m * p /\ v = m * q
      OBVIOUS
    <2> QED
      BY <2>1, <2>2, <2>3
  <1> QED
    BY <1>1

\* Division keeps the order.
LEMMA DivMonotone ==
    ASSUME NEW m \in Nat \ {0}, NEW x \in Int, NEW y \in Int, x <= y
    PROVE  x \div m <= y \div m
  <1>1. PICK p \in Int, r \in 0 .. m - 1 : p = x \div m /\ x = m * p + r
    BY DivMod
  <1>2. PICK q \in Int, s \in 0 .. m - 1 : q = y \div m /\ y = m * q + s
    BY DivMod
  <1>3. p <= q
    BY <1>1, <1>2, QuotientOrder
  <1> QED
    BY <1>1, <1>2, <1>3

\* Adding whole turns changes the quotient by their number, and not the remainder.
LEMMA WholeTurns ==
    ASSUME NEW m \in Nat \ {0}, NEW x \in Int, NEW c \in Int
    PROVE  (x + m * c) \div m = (x \div m) + c /\ (x + m * c) % m = x % m
  <1>1. PICK p \in Int, r \in 0 .. m - 1 : p = x \div m /\ r = x % m /\ x = m * p + r
    BY DivMod
  <1>2. PICK z \in Int : z = x + m * c
    OBVIOUS
  <1>3. PICK q \in Int, s \in 0 .. m - 1 : q = z \div m /\ s = z % m /\ z = m * q + s
    BY DivMod
  <1>4. PICK d \in Int : d = p + c
    OBVIOUS
  <1>5. m * d = m * p + m * c
    BY <1>4
  <1>6. m * d + r = m * q + s
    BY <1>1, <1>2, <1>3, <1>5
  <1>7. d <= q /\ q <= d
    BY <1>6, QuotientOrder
  <1>8. d = q
    BY <1>7
  <1>9. r = s
    BY <1>6, <1>8
  <1> QED
    BY <1>1, <1>2, <1>3, <1>4, <1>8, <1>9

\* Equal remainders of numbers less than a turn apart.
LEMMA ModEqual ==
    ASSUME NEW m \in Nat \ {0}, NEW x \in Int, NEW y \in Int, x % m = y % m, x <= y, y < x + m
    PROVE  x = y
  <1>1. PICK p \in Int, r \in 0 .. m - 1 : r = x % m /\ x = m * p + r
    BY DivMod
  <1>2. PICK q \in Int, s \in 0 .. m - 1 : s = y % m /\ y = m * q + s
    BY DivMod
  <1>3. r = s
    BY <1>1, <1>2
  <1>4. PICK e \in Int : e = p + 1
    OBVIOUS
  <1>5. m * e = m * p + m
    BY <1>4
  <1>6. ASSUME p + 1 <= q PROVE FALSE
    <2>1. m * e <= m * q
      BY <1>4, <1>6, TimesMonotone
    <2>2. PICK u \in Int, v \in Int : u = m * p /\ v = m * q
      OBVIOUS
    <2> QED
      BY <1>1, <1>2, <1>3, <1>5, <2>1, <2>2
  <1>7. p <= q
    BY <1>1, <1>2, QuotientOrder
  <1>8. p = q
    BY <1>6, <1>7
  <1> QED
    BY <1>1, <1>2, <1>3, <1>8

\* Every remainder is found among m numbers in a row.
LEMMA EveryRemainder ==
    ASSUME NEW m \in Nat \ {0}, NEW x \in Int, NEW y \in Int
    PROVE  \E z \in Int : y <= z /\ z <= y + m - 1 /\ z % m = x % m
  <1>1. PICK w \in Int : w = x - y
    OBVIOUS
  <1>2. PICK q \in Int, d \in 0 .. m - 1 : w = m * q + d
    BY <1>1, DivMod, ZenonT(30)
  <1>3. PICK z \in Int : z = y + d
    OBVIOUS
  <1>4. z + m * q = x
    <2>1. PICK u \in Int : u = m * q
      OBVIOUS
    <2> QED
      BY <1>1, <1>2, <1>3, <2>1
  <1>5. (z + m * q) % m = z % m
    BY WholeTurns
  <1> QED
    <2>1. y <= z /\ z <= y + m - 1
      BY <1>2, <1>3
    <2>2. z % m = x % m
      BY <1>4, <1>5
    <2> QED
      BY <2>1, <2>2

\* Two readings of a counter, taken less than one turn apart, differ by the time
\* between them, however often it has wrapped.
LEMMA DifferenceOfReadings ==
    ASSUME NEW m \in Nat \ {0}, NEW c \in Int, NEW x \in Int, NEW y \in Int, y <= x, x < y + m
    PROVE  (((c + x) % m) - ((c + y) % m)) % m = x - y
  <1>1. PICK a \in Int, b \in Int : a = c + x /\ b = c + y
    OBVIOUS
  <1>2. PICK p \in Int, r \in 0 .. m - 1 : p = a \div m /\ r = a % m /\ a = m * p + r
    BY DivMod, Zenon
  <1>3. PICK q \in Int, s \in 0 .. m - 1 : q = b \div m /\ s = b % m /\ b = m * q + s
    BY DivMod, Zenon
  <1>4. PICK k \in Int, d \in Int : k = q - p /\ d = x - y
    OBVIOUS
  <1>5. m * k = m * q - m * p
    BY <1>4
  <1>6. r - s = d + m * k
    <2>1. PICK u \in Int, v \in Int, w \in Int : u = m * p /\ v = m * q /\ w = m * k
      OBVIOUS
    <2>2. w = v - u
      BY <1>5, <2>1
    <2>3. a = u + r /\ b = v + s
      BY <1>2, <1>3, <2>1
    <2>4. r - s = d + w
      BY <1>1, <1>4, <2>2, <2>3
    <2> QED
      BY <2>1, <2>4
  <1>7. (d + m * k) % m = d % m
    BY WholeTurns
  <1>8. d % m = d
    BY <1>4
  <1> QED
    BY <1>1, <1>2, <1>3, <1>4, <1>6, <1>7, <1>8

-----------------------------------------------------------------------------
(* Replay protection                                                       *)

\* An entry says of its source what the history says: its highest number is that
\* of the newest packet accepted, and its bits are the packets accepted up to
\* WINDOW numbers behind.
Mirrors(state, accepted) ==
    \E h \in accepted :
        /\ \A n \in accepted : n <= h
        /\ state.highest_sequence = OnAir(h)
        /\ \A d \in Offsets : d \in state.window_bits <=> h - d \in accepted

\* No source has two entries.
OneEntryEach ==
    \A i, j \in Indices :
        Used(i) /\ Used(j) /\ replay_sources[i].source = replay_sources[j].source => i = j

TakenWasSent == \A s \in Sources : taken[s] \subseteq 0 .. sent[s] - 1

EntriesMirror ==
    \A i \in Indices : Used(i) => Mirrors(replay_sources[i], taken[replay_sources[i].source])

\* The tick of an entry is one that has passed.
TicksArePast ==
    \A i \in Indices : Used(i) =>
        \E t \in 0 .. elapsed : replay_sources[i].last_activity_ticks = TickCount(t)

ReplayIInv == ReplayTypeOK /\ OneEntryEach /\ TakenWasSent /\ EntriesMirror /\ TicksArePast

\* The distance of two packets of a source, forwards from m to n.
LEMMA OnAirDistance ==
    ASSUME NEW n \in 0 .. MaxSent - 1, NEW m \in 0 .. MaxSent - 1
    PROVE  /\ (OnAir(n) - OnAir(m)) % Modulus = IF n >= m THEN n - m ELSE Modulus + n - m
           /\ OnAir(n) \in 0 .. Modulus - 1
           /\ OnAir(n) = OnAir(m) <=> n = m
  <1>1. Modulus \in Nat \ {0} /\ FirstSequence \in 0 .. Modulus - 1 /\ MaxSent \in Nat /\ 2 * MaxSent <= Modulus
    BY ReplayAssumption DEF Modulus
  <1>2. (OnAir(n) - OnAir(m)) % Modulus = IF n >= m THEN n - m ELSE Modulus + n - m
    <2>1. (((FirstSequence + n) % Modulus) - ((FirstSequence + m) % Modulus)) % Modulus
              = IF n >= m THEN n - m ELSE Modulus + n - m
      BY <1>1, WrappedDifference
    <2>2. OnAir(n) = (FirstSequence + n) % Modulus /\ OnAir(m) = (FirstSequence + m) % Modulus
      BY DEF OnAir
    <2> QED
      BY <1>1, <2>1, <2>2
  <1>3. OnAir(n) \in 0 .. Modulus - 1 /\ OnAir(m) \in 0 .. Modulus - 1
    BY <1>1 DEF OnAir
  <1>4. OnAir(n) = OnAir(m) => n = m
    <2> HAVE OnAir(n) = OnAir(m)
    <2>1. (OnAir(n) - OnAir(m)) % Modulus = 0
      BY <1>1, <1>3, ModSmall
    <2> QED
      BY <1>1, <1>2, <2>1
  <1> QED
    BY <1>2, <1>3, <1>4

\* The comparison of the code orders the packets of a source as they were sent.
LEMMA NewerIsLater ==
    ASSUME NEW n \in 0 .. MaxSent - 1, NEW m \in 0 .. MaxSent - 1
    PROVE  sequence_is_newer(OnAir(n), OnAir(m)) <=> n > m
  <1>1. MaxSent \in Nat /\ HalfSequence \in Nat /\ Modulus = 2 * HalfSequence /\ MaxSent <= HalfSequence
    BY ReplayAssumption DEF Modulus
  <1> QED
    BY <1>1, OnAirDistance DEF sequence_is_newer

\* Max of a set that has a greatest element.
LEMMA MaxIsUnique ==
    ASSUME NEW S \in SUBSET Int, NEW h \in S, \A n \in S : n <= h
    PROVE  Max(S) = h
  <1>1. Max(S) \in S /\ \A n \in S : Max(S) >= n
    BY DEF Max
  <1>2. Max(S) \in Int /\ h \in Int /\ Max(S) >= h /\ Max(S) <= h
    BY <1>1
  <1> QED
    BY <1>2

\* The entry of a source that is known.
LEMMA FoundEntry ==
    ASSUME ReplayIInv, NEW s \in Sources, find_source_index(s) # {}
    PROVE  /\ Min(find_source_index(s)) \in Indices
           /\ Used(Min(find_source_index(s)))
           /\ replay_sources[Min(find_source_index(s))].source = s
           /\ find_source_index(s) = {Min(find_source_index(s))}
  <1>1. find_source_index(s) \subseteq Nat
    BY ReplayAssumption DEF find_source_index, Indices
  <1>2. Min(find_source_index(s)) \in find_source_index(s)
    BY <1>1, MinIsLeast
  <1> QED
    BY <1>2 DEF find_source_index, ReplayIInv, OneEntryEach

\* The code's verdict on packet n of a source whose entry mirrors the history.
LEMMA VerdictOnEntry ==
    ASSUME NEW state \in SourceState, NEW accepted \in SUBSET (0 .. MaxSent - 1),
           Mirrors(state, accepted), NEW n \in 0 .. MaxSent - 1
    PROVE  (\/ sequence_is_newer(OnAir(n), state.highest_sequence)
            \/ /\ sequence_is_newer(state.highest_sequence, OnAir(n))
               /\ accept_older_sequence(state, OnAir(n)))
           <=> n \notin accepted /\ n > Max(accepted) - REPLAY_WINDOW_SIZE
  <1>1. PICK h \in accepted : /\ \A k \in accepted : k <= h
                              /\ state.highest_sequence = OnAir(h)
                              /\ \A d \in Offsets : d \in state.window_bits <=> h - d \in accepted
    BY DEF Mirrors
  <1>2. h \in 0 .. MaxSent - 1 /\ MaxSent \in Nat /\ REPLAY_WINDOW_SIZE \in Nat \ {0}
    BY <1>1, ReplayAssumption
  <1>3. Max(accepted) = h
    <2>1. accepted \in SUBSET Int
      BY ReplayAssumption
    <2> QED
      BY <1>1, <2>1, MaxIsUnique
  <1>4. sequence_is_newer(OnAir(n), OnAir(h)) <=> n > h
    BY <1>2, NewerIsLater
  <1>5. sequence_is_newer(OnAir(h), OnAir(n)) <=> h > n
    BY <1>2, NewerIsLater
  <1>6. ASSUME h > n
        PROVE  accept_older_sequence(state, OnAir(n))
                   <=> h - n < REPLAY_WINDOW_SIZE /\ n \notin accepted
    <2>1. (OnAir(h) - OnAir(n)) % Modulus = h - n
      BY <1>2, <1>6, OnAirDistance
    <2>2. h - n < REPLAY_WINDOW_SIZE => h - n \in Offsets /\ h - (h - n) = n
      BY <1>2, <1>6 DEF Offsets
    <2> QED
      BY <1>1, <2>1, <2>2 DEF accept_older_sequence
  <1>7. CASE n > h
    BY <1>1, <1>2, <1>3, <1>4, <1>7
  <1>8. CASE n <= h
    BY <1>1, <1>2, <1>3, <1>4, <1>5, <1>6, <1>8
  <1> QED
    BY <1>2, <1>7, <1>8

\* The invariant has VerdictIsIdeal.
LEMMA IdealFromInvariant == ReplayIInv => VerdictIsIdeal
  <1> SUFFICES ASSUME ReplayIInv, NEW s \in Sources, NEW n \in 0 .. sent[s] - 1
               PROVE  Accepts(s, OnAir(n)) <=>
                          \/ find_source_index(s) = {}
                          \/ n \notin taken[s] /\ n > Max(taken[s]) - REPLAY_WINDOW_SIZE
    BY DEF VerdictIsIdeal
  <1>1. CASE find_source_index(s) = {}
    BY <1>1 DEF Accepts
  <1>2. CASE find_source_index(s) # {}
    <2> DEFINE i == Min(find_source_index(s))
    <2>1. i \in Indices /\ Used(i) /\ replay_sources[i].source = s /\ find_source_index(s) = {i}
      BY <1>2, FoundEntry
    <2>2. replay_sources[i] \in SourceState /\ Mirrors(replay_sources[i], taken[s])
      BY <2>1 DEF ReplayIInv, ReplayTypeOK, EntriesMirror, Used
    <2>3. taken[s] \in SUBSET (0 .. MaxSent - 1) /\ n \in 0 .. MaxSent - 1
      BY ReplayAssumption DEF ReplayIInv, ReplayTypeOK
    <2> HIDE DEF i
    <2>4. Accepts(s, OnAir(n)) <=>
              \/ sequence_is_newer(OnAir(n), replay_sources[i].highest_sequence)
              \/ /\ sequence_is_newer(replay_sources[i].highest_sequence, OnAir(n))
                 /\ accept_older_sequence(replay_sources[i], OnAir(n))
      BY <2>1 DEF Accepts
    <2> QED
      BY <1>2, <2>2, <2>3, <2>4, VerdictOnEntry
  <1> QED
    BY <1>1, <1>2

\* The entry after an acceptance mirrors the history after it.
LEMMA MirrorsAfter ==
    ASSUME ReplayTypeOK, NEW state \in SourceState, NEW accepted \in SUBSET (0 .. MaxSent - 1),
           Mirrors(state, accepted), NEW n \in 0 .. MaxSent - 1,
           n \notin accepted, n > Max(accepted) - REPLAY_WINDOW_SIZE
    PROVE  /\ Accepted(state, OnAir(n)) \in SourceState
           /\ Accepted(state, OnAir(n)).source = state.source
           /\ Accepted(state, OnAir(n)).last_activity_ticks = now_ticks
           /\ Mirrors(Accepted(state, OnAir(n)), accepted \cup {n})
  <1>1. PICK h \in accepted : /\ \A k \in accepted : k <= h
                              /\ state.highest_sequence = OnAir(h)
                              /\ \A d \in Offsets : d \in state.window_bits <=> h - d \in accepted
    BY DEF Mirrors
  <1>2. h \in 0 .. MaxSent - 1 /\ MaxSent \in Nat /\ REPLAY_WINDOW_SIZE \in Nat \ {0}
    BY <1>1, ReplayAssumption
  <1>3. n > h - REPLAY_WINDOW_SIZE
    <2>1. accepted \in SUBSET Int
      BY ReplayAssumption
    <2> QED
      BY <1>1, <2>1, MaxIsUnique
  <1>4. now_ticks \in 0 .. TickModulus - 1 /\ OnAir(n) \in 0 .. Modulus - 1
    <2>1. TickModulus \in Nat \ {0} /\ elapsed \in Nat
      BY ReplayAssumption DEF ReplayTypeOK
    <2> QED
      BY <2>1, OnAirDistance DEF now_ticks, TickCount
  <1>5. state.window_bits \subseteq Offsets /\ DOMAIN state = {"source", "highest_sequence", "window_bits", "last_activity_ticks"}
    BY DEF SourceState
  <1>6. CASE n > h
    <2>1. sequence_is_newer(OnAir(n), state.highest_sequence)
      BY <1>1, <1>2, <1>6, NewerIsLater
    <2>2. (OnAir(n) - state.highest_sequence) % Modulus = n - h
      BY <1>1, <1>2, <1>6, OnAirDistance
    <2> DEFINE bits == IF n - h >= REPLAY_WINDOW_SIZE THEN {0}
                       ELSE ShiftLeft(state.window_bits, n - h) \cup {0}
    <2>3. Accepted(state, OnAir(n)) =
              [state EXCEPT !.highest_sequence = OnAir(n), !.window_bits = bits,
                            !.last_activity_ticks = now_ticks]
      BY <2>1, <2>2 DEF Accepted, accept_new_sequence
    <2>4. bits \subseteq Offsets
      BY <1>2 DEF ShiftLeft, Offsets
    <2>5. ASSUME NEW d \in Offsets PROVE d \in bits <=> n - d \in accepted \cup {n}
      <3>1. d \in Nat /\ d < REPLAY_WINDOW_SIZE
        BY <1>2 DEF Offsets
      <3>2. CASE d = 0
        BY <1>2, <3>2
      <3>3. CASE d # 0 /\ d < n - h
        <4>1. n - d > h /\ n - d # n
          BY <1>2, <3>1, <3>3
        <4>2. \A k \in accepted : k # n - d
          BY <1>1, <1>2, <3>1, <4>1
        <4>3. \A b \in Offsets : b + (n - h) # d
          BY <1>2, <3>1, <3>3 DEF Offsets
        <4>4. d \notin ShiftLeft(state.window_bits, n - h)
          BY <1>5, <4>3 DEF ShiftLeft
        <4> QED
          BY <3>3, <4>1, <4>2, <4>4
      <3>4. CASE d >= n - h
        <4>1. n - h < REPLAY_WINDOW_SIZE /\ d - (n - h) \in Offsets /\ h - (d - (n - h)) = n - d /\ d # 0
          BY <1>2, <1>6, <3>1, <3>4 DEF Offsets
        <4>2. d - (n - h) \in state.window_bits <=> n - d \in accepted
          BY <1>1, <4>1
        <4>3. d \in ShiftLeft(state.window_bits, n - h) <=> d - (n - h) \in state.window_bits
          <5>1. \A b \in Offsets : b + (n - h) = d <=> b = d - (n - h)
            BY <1>2, <3>1 DEF Offsets
          <5> QED
            BY <1>5, <4>1, <5>1 DEF ShiftLeft
        <4>4. n - d # n
          BY <1>2, <3>1, <4>1
        <4> QED
          BY <1>2, <4>1, <4>2, <4>3, <4>4
      <3> QED
        BY <1>2, <3>1, <3>2, <3>3, <3>4
    <2> HIDE DEF bits
    <2>6. /\ Accepted(state, OnAir(n)) \in SourceState
          /\ Accepted(state, OnAir(n)).source = state.source
          /\ Accepted(state, OnAir(n)).highest_sequence = OnAir(n)
          /\ Accepted(state, OnAir(n)).window_bits = bits
          /\ Accepted(state, OnAir(n)).last_activity_ticks = now_ticks
      BY <1>4, <2>3, <2>4 DEF SourceState
    <2>7. \A k \in accepted \cup {n} : k <= n
      BY <1>1, <1>2, <1>6
    <2> QED
      BY <2>5, <2>6, <2>7 DEF Mirrors
  <1>7. CASE n < h
    <2>1. ~sequence_is_newer(OnAir(n), state.highest_sequence)
      BY <1>1, <1>2, <1>7, NewerIsLater
    <2>2. (state.highest_sequence - OnAir(n)) % Modulus = h - n
      BY <1>1, <1>2, <1>7, OnAirDistance
    <2> DEFINE bits == state.window_bits \cup {h - n}
    <2>3. Accepted(state, OnAir(n)) =
              [state EXCEPT !.window_bits = bits, !.last_activity_ticks = now_ticks]
      BY <2>1, <2>2 DEF Accepted
    <2>4. bits \subseteq Offsets
      BY <1>2, <1>3, <1>5, <1>7 DEF Offsets
    <2>5. ASSUME NEW d \in Offsets PROVE d \in bits <=> h - d \in accepted \cup {n}
      <3>1. d = h - n <=> h - d = n
        BY <1>2 DEF Offsets
      <3> QED
        BY <1>1, <3>1
    <2> HIDE DEF bits
    <2>6. /\ Accepted(state, OnAir(n)) \in SourceState
          /\ Accepted(state, OnAir(n)).source = state.source
          /\ Accepted(state, OnAir(n)).highest_sequence = OnAir(h)
          /\ Accepted(state, OnAir(n)).window_bits = bits
          /\ Accepted(state, OnAir(n)).last_activity_ticks = now_ticks
      BY <1>1, <1>4, <2>3, <2>4 DEF SourceState
    <2>7. \A k \in accepted \cup {n} : k <= h
      BY <1>1, <1>2, <1>7
    <2> QED
      BY <1>1, <2>5, <2>6, <2>7 DEF Mirrors
  <1> QED
    BY <1>1, <1>2, <1>6, <1>7

\* The age of an entry is the time since it was last active, across the wrap.
LEMMA AgeIsElapsed ==
    ASSUME ReplayIInv, NEW i \in Indices, Used(i)
    PROVE  /\ LastHeard(i) \in 0 .. elapsed
           /\ replay_sources[i].last_activity_ticks = TickCount(LastHeard(i))
           /\ Age(i) = elapsed - LastHeard(i)
  <1>1. /\ TickModulus \in Nat \ {0} /\ MaxTicks \in Nat /\ MaxTicks < TickModulus
        /\ elapsed \in 0 .. MaxTicks
    BY ReplayAssumption DEF ReplayIInv, ReplayTypeOK
  <1>2. PICK t \in 0 .. elapsed : replay_sources[i].last_activity_ticks = TickCount(t)
    BY DEF ReplayIInv, TicksArePast
  <1>3. ASSUME NEW x \in 0 .. MaxTicks, NEW y \in 0 .. MaxTicks
        PROVE  (TickCount(x) - TickCount(y)) % TickModulus
                   = IF x >= y THEN x - y ELSE TickModulus + x - y
    <2>1. PICK c \in Int : c = TickModulus - 2
      BY <1>1
    <2>2. /\ -TickModulus <= c /\ c < TickModulus /\ x \in Nat /\ y \in Nat /\ x < TickModulus
          /\ y < TickModulus /\ c + x < 2 * TickModulus /\ c + y < 2 * TickModulus
      BY <1>1, <2>1
    <2>3. (((c + x) % TickModulus) - ((c + y) % TickModulus)) % TickModulus
              = IF x >= y THEN x - y ELSE TickModulus + x - y
      BY <1>1, <2>2, WrappedDifference
    <2>4. TickCount(x) = (c + x) % TickModulus /\ TickCount(y) = (c + y) % TickModulus
      BY <2>1 DEF TickCount
    <2> QED
      BY <1>1, <2>1, <2>2, <2>3, <2>4
  <1>4. ASSUME NEW x \in 0 .. MaxTicks, TickCount(x) = TickCount(t) PROVE x = t
    <2>1. t \in 0 .. MaxTicks /\ TickCount(t) \in Int
      BY <1>1 DEF TickCount
    <2>2. (TickCount(x) - TickCount(t)) % TickModulus = 0
      BY <1>1, <1>4, <2>1, ModSmall
    <2> QED
      BY <1>1, <1>3, <2>1, <2>2
  <1>5. LastHeard(i) = t
    <2>1. t \in 0 .. MaxTicks
      BY <1>1
    <2>2. LastHeard(i) \in 0 .. MaxTicks /\ TickCount(LastHeard(i)) = TickCount(t)
      BY <1>2, <2>1 DEF LastHeard
    <2> QED
      BY <1>4, <2>2
  <1>6. Age(i) = elapsed - t
    BY <1>1, <1>2, <1>3 DEF Age, now_ticks
  <1> QED
    BY <1>2, <1>5, <1>6

\* The entry that is taken for a new source: free, or silent for longest.
LEMMA AllocatedEntry ==
    ASSUME ReplayIInv
    PROVE  /\ allocate_source_index \in Indices
           /\ Used(allocate_source_index) =>
                  \A j \in Indices : Used(j) /\ LastHeard(allocate_source_index) <= LastHeard(j)
  <1> DEFINE unused == {i \in Indices : ~Used(i)}
             silent == {i \in Indices : \A j \in Indices : Age(j) <= Age(i)}
  <1>1. Indices \subseteq Nat /\ 0 \in Indices
    BY ReplayAssumption DEF Indices
  <1>2. CASE unused # {}
    <2>1. Min(unused) \in unused
      BY <1>1, <1>2, MinIsLeast
    <2> QED
      BY <1>2, <2>1 DEF allocate_source_index
  <1>3. CASE unused = {}
    <2>1. elapsed \in Nat /\ \A j \in Indices : /\ Used(j) /\ LastHeard(j) \in 0 .. elapsed
                                                /\ Age(j) = elapsed - LastHeard(j)
      BY <1>3, ReplayAssumption, AgeIsElapsed DEF ReplayIInv, ReplayTypeOK
    <2> DEFINE times == {LastHeard(j) : j \in Indices}
    <2>2. times \in SUBSET Nat /\ times # {}
      BY <1>1, <2>1
    <2>3. PICK i \in Indices : \A j \in Indices : LastHeard(i) <= LastHeard(j)
      <3>1. PICK x \in times : \A y \in times : x <= y
        BY <2>2, LeastNumber, Zenon
      <3> QED
        BY <3>1
    <2>4. \A j \in Indices : Age(j) <= Age(i)
      BY <2>1, <2>3
    <2>5. Min(silent) \in silent
      BY <1>1, <2>4, MinIsLeast
    <2>6. allocate_source_index = Min(silent)
      BY <1>3 DEF allocate_source_index
    <2>7. \A j \in Indices : Age(j) <= Age(allocate_source_index)
      BY <2>5, <2>6
    <2> QED
      <3>1. PICK a \in Indices : a = allocate_source_index
        BY <2>5, <2>6
      <3>2. \A j \in Indices : LastHeard(a) <= LastHeard(j)
        BY <2>1, <2>7, <3>1
      <3> QED
        BY <2>1, <3>1, <3>2
  <1> QED
    BY <1>2, <1>3

\* A packet arrives: refused, accepted from a known source, or from a new one.
LEMMA AcceptPreserves ==
    ASSUME ReplayIInv, NEW s \in Sources, NEW n \in 0 .. sent[s] - 1,
           replay_protection_accept(s, n)
    PROVE  ReplayIInv'
  <1>1. elapsed' = elapsed /\ sent' = sent /\ now_ticks' = now_ticks
    BY DEF replay_protection_accept, now_ticks
  <1>2. n \in 0 .. MaxSent - 1 /\ MaxSent \in Nat /\ elapsed \in 0 .. MaxTicks /\ MaxTicks \in Nat
    BY ReplayAssumption DEF ReplayIInv, ReplayTypeOK
  <1>3. CASE ~Accepts(s, OnAir(n))
    BY <1>1, <1>3
       DEF replay_protection_accept, ReplayIInv, ReplayTypeOK, OneEntryEach, TakenWasSent,
           EntriesMirror, TicksArePast, Used
  <1>4. CASE Accepts(s, OnAir(n)) /\ find_source_index(s) # {}
    <2>1. PICK i \in Indices : /\ i = Min(find_source_index(s)) /\ Used(i)
                               /\ replay_sources[i].source = s
      BY <1>4, FoundEntry
    <2>2. PICK new : new = Accepted(replay_sources[i], OnAir(n))
      OBVIOUS
    <2>3. /\ replay_sources' = [replay_sources EXCEPT ![i] = new]
          /\ taken' = [taken EXCEPT ![s] = @ \cup {n}]
      BY <1>4, <2>1, <2>2 DEF replay_protection_accept
    <2>4. /\ replay_sources[i] \in SourceState /\ Mirrors(replay_sources[i], taken[s])
          /\ taken[s] \in SUBSET (0 .. MaxSent - 1)
      BY <2>1 DEF ReplayIInv, ReplayTypeOK, EntriesMirror, Used
    <2>5. n \notin taken[s] /\ n > Max(taken[s]) - REPLAY_WINDOW_SIZE
      BY <1>4, IdealFromInvariant DEF VerdictIsIdeal
    <2>6. /\ new \in SourceState /\ new.source = s /\ new.last_activity_ticks = now_ticks
          /\ Mirrors(new, taken[s] \cup {n}) /\ new # Free
      BY <1>2, <2>1, <2>2, <2>4, <2>5, MirrorsAfter, FreeAssumption DEF ReplayIInv
    <2>7. ReplayTypeOK'
      BY <1>1, <1>2, <2>3, <2>6 DEF ReplayIInv, ReplayTypeOK
    <2>8. \A j \in Indices : j # i => /\ replay_sources'[j] = replay_sources[j] /\ (Used(j)' <=> Used(j))
                                      /\ Used(j) => /\ replay_sources[j].source # s
                                                    /\ replay_sources[j].source \in Sources
      BY <2>1, <2>3 DEF ReplayIInv, ReplayTypeOK, OneEntryEach, Used, SourceState
    <2>9. replay_sources'[i] = new /\ Used(i)'
      BY <2>3, <2>6 DEF ReplayIInv, ReplayTypeOK, Used
    <2>10. OneEntryEach'
      BY <2>6, <2>8, <2>9 DEF ReplayIInv, OneEntryEach
    <2>11. taken'[s] = taken[s] \cup {n} /\ \A x \in Sources : x # s => taken'[x] = taken[x]
      BY <2>3 DEF ReplayIInv, ReplayTypeOK
    <2>12. TakenWasSent'
      BY <1>1, <2>11 DEF ReplayIInv, TakenWasSent
    <2>13. EntriesMirror'
      BY <2>6, <2>8, <2>9, <2>11 DEF ReplayIInv, EntriesMirror, Mirrors
    <2>14. TicksArePast'
      BY <1>1, <1>2, <2>6, <2>8, <2>9 DEF ReplayIInv, TicksArePast, now_ticks
    <2> QED
      BY <2>7, <2>10, <2>12, <2>13, <2>14 DEF ReplayIInv
  <1>5. CASE Accepts(s, OnAir(n)) /\ find_source_index(s) = {}
    <2>1. PICK i \in Indices : i = allocate_source_index
      BY AllocatedEntry
    <2>2. PICK new : new = [source |-> s, highest_sequence |-> OnAir(n),
                            window_bits |-> {0}, last_activity_ticks |-> now_ticks]
      OBVIOUS
    <2>3. /\ replay_sources' = [replay_sources EXCEPT ![i] = new]
          /\ taken' = [x \in Sources |->
                          IF x = s THEN {n}
                          ELSE IF Used(i) /\ x = replay_sources[i].source THEN {}
                          ELSE taken[x]]
      BY <1>5, <2>1, <2>2 DEF replay_protection_accept
    <2>4. now_ticks \in 0 .. TickModulus - 1 /\ OnAir(n) \in 0 .. Modulus - 1 /\ 0 \in Offsets
      <3>1. TickModulus \in Nat \ {0} /\ REPLAY_WINDOW_SIZE \in Nat \ {0}
        BY ReplayAssumption
      <3> QED
        BY <1>2, <3>1, OnAirDistance DEF now_ticks, TickCount, Offsets
    <2>5. /\ new \in SourceState /\ new.source = s /\ new.last_activity_ticks = now_ticks
          /\ new # Free
      BY <2>2, <2>4, FreeAssumption DEF SourceState
    <2>6. Mirrors(new, {n})
      <3>1. \A d \in Offsets : d \in {0} <=> n - d \in {n}
        BY <1>2, ReplayAssumption DEF Offsets
      <3> QED
        BY <1>2, <2>2, <3>1 DEF Mirrors
    <2>7. ReplayTypeOK'
      BY <1>1, <1>2, <2>3, <2>5 DEF ReplayIInv, ReplayTypeOK
    <2>8. \A j \in Indices : j # i =>
              /\ replay_sources'[j] = replay_sources[j] /\ (Used(j)' <=> Used(j))
              /\ Used(j) => /\ replay_sources[j].source # s
                            /\ replay_sources[j].source \in Sources
                            /\ Used(i) => replay_sources[j].source # replay_sources[i].source
      BY <1>5, <2>1, <2>3
         DEF ReplayIInv, ReplayTypeOK, OneEntryEach, Used, SourceState, find_source_index
    <2>9. replay_sources'[i] = new /\ Used(i)'
      BY <2>3, <2>5 DEF ReplayIInv, ReplayTypeOK, Used
    <2>10. OneEntryEach'
      BY <2>5, <2>8, <2>9 DEF ReplayIInv, OneEntryEach
    <2>11. TakenWasSent'
      BY <1>1, <2>3 DEF ReplayIInv, TakenWasSent
    <2>12. taken'[s] = {n}
      BY <2>3
    <2>13. EntriesMirror'
      <3> SUFFICES ASSUME NEW j \in Indices, Used(j)'
                   PROVE  Mirrors(replay_sources'[j], taken'[replay_sources'[j].source])
        BY DEF EntriesMirror, Mirrors
      <3>1. CASE j = i
        BY <2>5, <2>6, <2>9, <2>12, <3>1
      <3>2. CASE j # i
        BY <2>3, <2>8, <3>2 DEF ReplayIInv, EntriesMirror
      <3> QED
        BY <3>1, <3>2
    <2>14. TicksArePast'
      BY <1>1, <1>2, <2>5, <2>8, <2>9 DEF ReplayIInv, TicksArePast, now_ticks
    <2> QED
      BY <2>7, <2>10, <2>11, <2>13, <2>14 DEF ReplayIInv
  <1> QED
    BY <1>3, <1>4, <1>5

\* Initially the table is empty.
LEMMA ReplayInitially == ReplayInit => ReplayIInv
  BY ReplayAssumption
     DEF ReplayInit, ReplayIInv, ReplayTypeOK, OneEntryEach, TakenWasSent, EntriesMirror,
         TicksArePast, Used

\* One step per operation and per step of the environment.
LEMMA ReplayInductive == ReplayIInv /\ [ReplayNext]_replayVars => ReplayIInv'
  <1> SUFFICES ASSUME ReplayIInv, [ReplayNext]_replayVars PROVE ReplayIInv'
    OBVIOUS
  <1>1. ASSUME NEW s \in Sources, Send(s) PROVE ReplayIInv'
    <2>1. replay_sources' = replay_sources /\ elapsed' = elapsed /\ taken' = taken
      BY <1>1 DEF Send
    <2>2. sent' \in [Sources -> 0 .. MaxSent] /\ \A x \in Sources : sent'[x] >= sent[x]
      BY <1>1, ReplayAssumption DEF Send, ReplayIInv, ReplayTypeOK
    <2>3. TakenWasSent'
      BY <2>1, <2>2, ReplayAssumption DEF ReplayIInv, ReplayTypeOK, TakenWasSent
    <2>4. ReplayTypeOK'
      BY <2>1, <2>2 DEF ReplayIInv, ReplayTypeOK
    <2>5. OneEntryEach' /\ EntriesMirror' /\ TicksArePast'
      BY <2>1 DEF ReplayIInv, OneEntryEach, EntriesMirror, TicksArePast, Used
    <2> QED
      BY <2>3, <2>4, <2>5 DEF ReplayIInv
  <1>2. ASSUME NEW s \in Sources, NEW n \in 0 .. sent[s] - 1, replay_protection_accept(s, n)
        PROVE  ReplayIInv'
    BY <1>2, AcceptPreserves
  <1>3. CASE Tick
    <2>1. replay_sources' = replay_sources /\ sent' = sent /\ taken' = taken
      BY <1>3 DEF Tick
    <2>2. elapsed' \in 0 .. MaxTicks /\ 0 .. elapsed \subseteq 0 .. elapsed'
      BY <1>3, ReplayAssumption DEF Tick, ReplayIInv, ReplayTypeOK
    <2>3. ReplayTypeOK' /\ OneEntryEach' /\ EntriesMirror' /\ TakenWasSent'
      BY <2>1, <2>2 DEF ReplayIInv, ReplayTypeOK, OneEntryEach, EntriesMirror, TakenWasSent, Used
    <2>4. TicksArePast'
      BY <2>1, <2>2 DEF ReplayIInv, TicksArePast, Used
    <2> QED
      BY <2>3, <2>4 DEF ReplayIInv
  <1>4. CASE replay_protection_reset
    BY <1>4, ReplayAssumption
       DEF replay_protection_reset, ReplayIInv, ReplayTypeOK, OneEntryEach, TakenWasSent,
           EntriesMirror, TicksArePast, Used
  <1>5. CASE UNCHANGED replayVars
    BY <1>5 DEF replayVars, ReplayIInv, ReplayTypeOK, OneEntryEach, TakenWasSent, EntriesMirror,
                TicksArePast, Used
  <1> QED
    BY <1>1, <1>2, <1>3, <1>4, <1>5 DEF ReplayNext

\* A source loses its entry only to a new source in a full table.
LEMMA EvictionStep ==
    ASSUME ReplayIInv, [ReplayNext]_replayVars, NEW i \in Indices,
           Used(i), replay_sources'[i] # Free,
           replay_sources'[i].source # replay_sources[i].source
    PROVE  \A j \in Indices : Used(j) /\ LastHeard(i) <= LastHeard(j)
  <1>0. PICK s \in Sources : \E n \in 0 .. sent[s] - 1 : replay_protection_accept(s, n)
    BY DEF ReplayNext, Send, Tick, replay_protection_reset, replayVars
  <1>1. PICK n \in 0 .. sent[s] - 1 : replay_protection_accept(s, n)
    BY <1>0
  <1>2. CASE find_source_index(s) # {}
    <2>1. PICK k \in Indices : k = Min(find_source_index(s)) /\ Used(k) /\ replay_sources[k].source = s
      BY <1>2, FoundEntry
    <2>2. CASE ~Accepts(s, OnAir(n))
      BY <1>1, <2>2 DEF replay_protection_accept
    <2>3. CASE Accepts(s, OnAir(n))
      <3>1. replay_sources' = [replay_sources EXCEPT ![k] = Accepted(@, OnAir(n))]
        BY <1>1, <1>2, <2>1, <2>3 DEF replay_protection_accept
      <3>2. n \in 0 .. MaxSent - 1
        BY ReplayAssumption DEF ReplayIInv, ReplayTypeOK
      <3>3. /\ replay_sources[k] \in SourceState /\ Mirrors(replay_sources[k], taken[s])
            /\ taken[s] \in SUBSET (0 .. MaxSent - 1)
        BY <2>1 DEF ReplayIInv, ReplayTypeOK, EntriesMirror, Used
      <3>4. n \notin taken[s] /\ n > Max(taken[s]) - REPLAY_WINDOW_SIZE
        BY <1>2, <2>3, IdealFromInvariant DEF VerdictIsIdeal
      <3>5. Accepted(replay_sources[k], OnAir(n)).source = s
        BY <2>1, <3>2, <3>3, <3>4, MirrorsAfter DEF ReplayIInv
      <3> QED
        BY <2>1, <3>1, <3>5 DEF ReplayIInv, ReplayTypeOK
    <2> QED
      BY <2>2, <2>3
  <1>3. CASE find_source_index(s) = {}
    <2>1. Accepts(s, OnAir(n))
      BY <1>3 DEF Accepts
    <2>2. i = allocate_source_index
      BY <1>1, <1>3, <2>1, AllocatedEntry DEF replay_protection_accept, ReplayIInv, ReplayTypeOK
    <2> QED
      BY <2>2, AllocatedEntry
  <1> QED
    BY <1>2, <1>3

\* The invariant holds throughout.
LEMMA ReplayInvariant == ReplaySpec => []ReplayIInv
  BY ReplayInitially, ReplayInductive, PTL DEF ReplaySpec

\* For every window and table size, every width of sequence numbers and ticks, and
\* every order in which packets come, the replay window of replay_protection.c gives
\* the verdict of an ideal window over unbounded numbers.
THEOREM WindowIsIdeal == ReplaySpec => []VerdictIsIdeal
  BY ReplayInvariant, IdealFromInvariant, PTL

\* A source loses its entry of the table only to a new one, in a full table, and
\* when none was silent for longer, also across the wrap of the tick counter.
THEOREM EvictionIsLeastRecent == ReplaySpec => LeastRecentIsEvicted
  <1>1. ReplayIInv /\ [ReplayNext]_replayVars =>
            [\A i \in Indices :
                /\ Used(i) /\ replay_sources'[i] # Free
                /\ replay_sources'[i].source # replay_sources[i].source
                => \A j \in Indices : Used(j) /\ LastHeard(i) <= LastHeard(j)]_replayVars
    BY EvictionStep
  <1> QED
    BY <1>1, ReplayInvariant, PTL DEF ReplaySpec, LeastRecentIsEvicted

-----------------------------------------------------------------------------
(* Tables that are sequences                                               *)

\* Tables of n entries in which the one at i is written.
Written(S, n, i) == [1 .. n \cup {i} -> S]

\* A table in which the entry at i is written, where i may be the place behind
\* the last one, is a table again.
LEMMA PutEntry ==
    ASSUME NEW S, NEW n \in Nat, NEW i \in 1 .. n + 1, NEW r \in Written(S, n, i)
    PROVE  r \in Seq(S) /\ 1 .. Len(r) = 1 .. n \cup {i}
  <1>1. PICK k \in Nat : k = IF i = n + 1 THEN n + 1 ELSE n
    OBVIOUS
  <1>2. 1 .. k = 1 .. n \cup {i}
    BY <1>1
  <1>3. r \in [1 .. k -> S]
    BY <1>2 DEF Written
  <1>4. r \in Seq(S)
    <2>1. Seq(S) = UNION {[1 .. m -> S] : m \in Nat}
      BY SeqDef
    <2>2. [1 .. k -> S] \in {[1 .. m -> S] : m \in Nat}
      BY <1>2
    <2> QED
      BY <1>3, <2>1, <2>2, Zenon
  <1>5. Len(r) = k
    BY <1>2, <1>3, <1>4, LenProperties
  <1> QED
    BY <1>2, <1>4, <1>5

-----------------------------------------------------------------------------
(* The roster                                                              *)

RosterEntry == [node_id : RosterNodes, last_seen_tick_ms : 0 .. RosterModulus - 1, online : BOOLEAN]

RosterTypeOK ==
    /\ roster \in Seq(RosterEntry)
    /\ roster_time \in 0 .. MaxRosterTime
    /\ touched \in [RosterNodes -> Int]
    /\ \A n \in RosterNodes : -1 <= touched[n] /\ touched[n] <= roster_time

\* No node is there twice.
NodesDiffer ==
    \A i, j \in 1 .. Len(roster) : roster[i].node_id = roster[j].node_id => i = j

\* An entry has the time, as the clock shows it, at which its node was heard last.
EntriesHaveTheirTime ==
    \A i \in 1 .. Len(roster) :
        /\ touched[roster[i].node_id] >= 0
        /\ roster[i].last_seen_tick_ms = RosterMs(touched[roster[i].node_id])

\* Who has lost the entry was not heard after any node that has one.
MissingAreOlder ==
    \A n \in RosterNodes :
        touched[n] >= 0 /\ (\A i \in 1 .. Len(roster) : roster[i].node_id # n) =>
            \A i \in 1 .. Len(roster) : touched[n] <= touched[roster[i].node_id]

RosterIInv == RosterTypeOK /\ NodesDiffer /\ EntriesHaveTheirTime /\ MissingAreOlder

\* The entries by their places.
LEMMA RosterPlaces ==
    ASSUME RosterTypeOK
    PROVE  /\ Len(roster) \in Nat /\ DOMAIN roster = 1 .. Len(roster)
           /\ \A i \in 1 .. Len(roster) : roster[i] \in RosterEntry /\ roster[i].node_id \in RosterNodes
  <1>1. roster \in Seq(RosterEntry)
    BY DEF RosterTypeOK
  <1>2. Len(roster) \in Nat /\ DOMAIN roster = 1 .. Len(roster)
    BY <1>1, LenProperties
  <1>3. \A i \in 1 .. Len(roster) : roster[i] \in RosterEntry
    BY <1>1, ElementOfSeq
  <1> QED
    BY <1>2, <1>3 DEF RosterEntry

\* The age of an entry is the time since its node was heard, across the wrap.
LEMMA RosterAgeIsElapsed ==
    ASSUME RosterIInv, NEW i \in 1 .. Len(roster)
    PROVE  RosterAge(roster[i]) = roster_time - touched[roster[i].node_id]
  <1>1. /\ RosterModulus \in Nat \ {0} /\ MaxRosterTime \in Nat /\ MaxRosterTime < RosterModulus
        /\ roster_time \in 0 .. MaxRosterTime
    BY RosterAssumption DEF RosterIInv, RosterTypeOK
  <1>2. PICK y \in 0 .. roster_time : y = touched[roster[i].node_id]
    BY RosterPlaces DEF RosterIInv, RosterTypeOK, EntriesHaveTheirTime
  <1>3. PICK c \in Int : c = RosterModulus - 2
    BY <1>1
  <1>4. PICK x \in Nat : x = roster_time
    BY <1>1
  <1>5. /\ -RosterModulus <= c /\ c < RosterModulus /\ y \in Nat /\ x < RosterModulus
        /\ y < RosterModulus /\ c + x < 2 * RosterModulus /\ c + y < 2 * RosterModulus /\ x >= y
    BY <1>1, <1>2, <1>3, <1>4
  <1>6. (((c + x) % RosterModulus) - ((c + y) % RosterModulus)) % RosterModulus = x - y
    BY <1>1, <1>5, WrappedDifference
  <1>7. RosterMs(x) = (c + x) % RosterModulus /\ RosterMs(y) = (c + y) % RosterModulus
    BY <1>3 DEF RosterMs
  <1>8. (RosterMs(x) - RosterMs(y)) % RosterModulus = x - y
    BY <1>1, <1>3, <1>5, <1>6, <1>7
  <1> QED
    BY <1>2, <1>4, <1>8 DEF RosterAge, RosterIInv, EntriesHaveTheirTime

\* The entry that is replaced in a full roster.
LEMMA OldestOfRoster ==
    ASSUME RosterIInv, Len(roster) # 0
    PROVE  /\ OldestRosterEntry \in 1 .. Len(roster)
           /\ \A j \in 1 .. Len(roster) :
                  touched[roster[OldestRosterEntry].node_id] <= touched[roster[j].node_id]
  <1> DEFINE last(j) == touched[roster[j].node_id]
             oldest == {i \in DOMAIN roster : \A j \in DOMAIN roster :
                           RosterAge(roster[j]) <= RosterAge(roster[i])}
             times == {last(j) : j \in 1 .. Len(roster)}
  <1>1. /\ Len(roster) \in Nat /\ DOMAIN roster = 1 .. Len(roster)
        /\ roster_time \in Nat
        /\ \A j \in 1 .. Len(roster) : last(j) \in Nat /\ RosterAge(roster[j]) = roster_time - last(j)
    BY RosterPlaces, RosterAgeIsElapsed, RosterAssumption
       DEF RosterIInv, RosterTypeOK, EntriesHaveTheirTime
  <1> HIDE DEF last
  <1>2. times \in SUBSET Nat /\ times # {}
    BY <1>1
  <1>3. PICK i \in 1 .. Len(roster) : \A j \in 1 .. Len(roster) : last(i) <= last(j)
    <2>1. PICK x \in times : \A y \in times : x <= y
      BY <1>2, LeastNumber, Zenon
    <2> QED
      BY <2>1
  <1>4. i \in oldest
    BY <1>1, <1>3
  <1>5. oldest \in SUBSET Nat
    BY <1>1
  <1>6. Min(oldest) \in oldest
    BY <1>4, <1>5, MinIsLeast
  <1>7. PICK a \in oldest : a = OldestRosterEntry
    BY <1>6 DEF OldestRosterEntry
  <1>8. a \in 1 .. Len(roster) /\ \A j \in 1 .. Len(roster) : last(a) <= last(j)
    <2>1. a \in 1 .. Len(roster)
      BY <1>1, <1>7
    <2>2. ASSUME NEW j \in 1 .. Len(roster) PROVE last(a) <= last(j)
      <3>1. RosterAge(roster[j]) <= RosterAge(roster[a])
        BY <1>1, <1>7
      <3> QED
        BY <1>1, <2>1, <3>1
    <2> QED
      BY <2>1, <2>2
  <1> QED
    BY <1>7, <1>8 DEF last

\* Where the entry of a node is written.
RosterPlace(n) ==
    IF find_roster_index(n) # {} THEN Min(find_roster_index(n))
    ELSE IF Len(roster) < MAX_ROSTER_ENTRIES THEN Len(roster) + 1
    ELSE OldestRosterEntry

\* The place is that of the node, or no entry is of the node and the place is
\* behind the last one or that of the entry heard longest ago.
LEMMA RosterPlaceFor ==
    ASSUME RosterIInv, NEW n \in RosterNodes
    PROVE  /\ RosterPlace(n) \in 1 .. Len(roster) + 1
           /\ \A j \in 1 .. Len(roster) : j # RosterPlace(n) => roster[j].node_id # n
           /\ RosterPlace(n) \in 1 .. Len(roster) /\ roster[RosterPlace(n)].node_id # n =>
                  \A j \in 1 .. Len(roster) :
                      touched[roster[RosterPlace(n)].node_id] <= touched[roster[j].node_id]
  <1>1. Len(roster) \in Nat /\ DOMAIN roster = 1 .. Len(roster)
    BY RosterPlaces DEF RosterIInv
  <1>2. CASE find_roster_index(n) # {}
    <2>1. find_roster_index(n) \in SUBSET Nat
      BY <1>1 DEF find_roster_index
    <2>2. Min(find_roster_index(n)) \in find_roster_index(n)
      BY <1>2, <2>1, MinIsLeast
    <2>3. PICK i \in find_roster_index(n) : i = RosterPlace(n)
      BY <1>2, <2>2 DEF RosterPlace
    <2>4. i \in 1 .. Len(roster) /\ roster[i].node_id = n
      BY <1>1, <2>3 DEF find_roster_index
    <2>5. \A j \in 1 .. Len(roster) : j # i => roster[j].node_id # n
      BY <2>4 DEF RosterIInv, NodesDiffer
    <2> QED
      BY <1>1, <2>3, <2>4, <2>5
  <1>3. CASE find_roster_index(n) = {}
    <2>1. \A j \in 1 .. Len(roster) : roster[j].node_id # n
      BY <1>1, <1>3 DEF find_roster_index
    <2>2. CASE Len(roster) < MAX_ROSTER_ENTRIES
      <3>1. RosterPlace(n) = Len(roster) + 1
        BY <1>3, <2>2 DEF RosterPlace
      <3> QED
        BY <1>1, <2>1, <3>1
    <2>3. CASE ~(Len(roster) < MAX_ROSTER_ENTRIES)
      <3>1. Len(roster) # 0
        BY <2>3, RosterAssumption
      <3>2. RosterPlace(n) = OldestRosterEntry
        BY <1>3, <2>3 DEF RosterPlace
      <3> QED
        BY <1>1, <2>1, <3>1, <3>2, OldestOfRoster
    <2> QED
      BY <2>2, <2>3
  <1> QED
    BY <1>2, <1>3

\* A node is heard.
LEMMA TouchPreserves ==
    ASSUME RosterIInv, NEW n \in RosterNodes, roster_touch(n)
    PROVE  RosterIInv'
  <1>1. PICK i \in 1 .. Len(roster) + 1 : i = RosterPlace(n)
    BY RosterPlaceFor
  <1>2. PICK entry : entry = [node_id |-> n, last_seen_tick_ms |-> RosterMs(roster_time), online |-> TRUE]
    OBVIOUS
  <1>3. /\ Len(roster) \in Nat /\ DOMAIN roster = 1 .. Len(roster)
        /\ \A j \in 1 .. Len(roster) : roster[j] \in RosterEntry /\ roster[j].node_id \in RosterNodes
        /\ roster \in Seq(RosterEntry)
    BY RosterPlaces DEF RosterIInv, RosterTypeOK
  <1>4. /\ roster' = [k \in 1 .. Len(roster) \cup {i} |-> IF k = i THEN entry ELSE roster[k]]
        /\ touched' = [touched EXCEPT ![n] = roster_time]
        /\ roster_time' = roster_time
    BY <1>1, <1>2, <1>3 DEF roster_touch, RosterPlace
  <1>5. entry \in RosterEntry /\ entry.node_id = n /\ entry.last_seen_tick_ms = RosterMs(roster_time)
    <2>1. RosterModulus \in Nat \ {0} /\ roster_time \in Int
      BY RosterAssumption DEF RosterIInv, RosterTypeOK
    <2>2. RosterMs(roster_time) \in 0 .. RosterModulus - 1
      BY <2>1 DEF RosterMs
    <2> QED
      BY <1>2, <2>2 DEF RosterEntry
  <1>6. /\ roster' \in Seq(RosterEntry) /\ roster'[i] = entry
        /\ \A k \in 1 .. Len(roster) : k # i => roster'[k] = roster[k]
        /\ 1 .. Len(roster') = 1 .. Len(roster) \cup {i}
    <2>1. roster' \in [1 .. Len(roster) \cup {i} -> RosterEntry]
      BY <1>3, <1>4, <1>5
    <2>2. PICK r, k : r = roster' /\ k = Len(roster)
      OBVIOUS
    <2>3. k \in Nat
      BY <1>3, <2>2
    <2>4. i \in 1 .. k + 1
      BY <2>2
    <2>5. r \in Written(RosterEntry, k, i)
      BY <2>1, <2>2 DEF Written
    <2>6. r \in Seq(RosterEntry) /\ 1 .. Len(r) = 1 .. k \cup {i}
      BY <2>3, <2>4, <2>5, PutEntry
    <2> QED
      BY <1>4, <2>2, <2>6
  <1>7. \A j \in 1 .. Len(roster) : j # i => roster[j].node_id # n
    BY <1>1, RosterPlaceFor
  <1>8. /\ touched'[n] = roster_time
        /\ \A m \in RosterNodes : m # n => touched'[m] = touched[m]
    BY <1>4 DEF RosterIInv, RosterTypeOK
  <1>9. roster_time \in Nat /\ \A m \in RosterNodes : touched[m] \in Int /\ touched[m] <= roster_time
    BY RosterAssumption DEF RosterIInv, RosterTypeOK
  <1>10. RosterTypeOK'
    <2>1. touched' \in [RosterNodes -> Int]
      BY <1>4, <1>9 DEF RosterIInv, RosterTypeOK
    <2>2. \A m \in RosterNodes : -1 <= touched'[m] /\ touched'[m] <= roster_time'
      BY <1>4, <1>8, <1>9 DEF RosterIInv, RosterTypeOK
    <2> QED
      BY <1>4, <1>6, <2>1, <2>2 DEF RosterIInv, RosterTypeOK
  <1>11. NodesDiffer'
    BY <1>5, <1>6, <1>7 DEF RosterIInv, NodesDiffer
  <1>12. EntriesHaveTheirTime'
    <2> SUFFICES ASSUME NEW j \in 1 .. Len(roster')
                 PROVE  /\ touched'[roster'[j].node_id] >= 0
                        /\ roster'[j].last_seen_tick_ms = RosterMs(touched'[roster'[j].node_id])
      BY DEF EntriesHaveTheirTime, RosterMs
    <2>1. CASE j = i
      BY <1>5, <1>6, <1>8, <1>9, <2>1
    <2>2. CASE j # i
      <3>1. /\ j \in 1 .. Len(roster) /\ roster'[j] = roster[j]
            /\ touched'[roster'[j].node_id] = touched[roster[j].node_id]
        BY <1>3, <1>6, <1>7, <1>8, <2>2
      <3> QED
        BY <3>1 DEF RosterIInv, EntriesHaveTheirTime
    <2> QED
      BY <2>1, <2>2
  <1>13. MissingAreOlder'
    <2> SUFFICES ASSUME NEW m \in RosterNodes, touched'[m] >= 0,
                        \A k \in 1 .. Len(roster') : roster'[k].node_id # m,
                        NEW j \in 1 .. Len(roster')
                 PROVE  touched'[m] <= touched'[roster'[j].node_id]
      BY DEF MissingAreOlder
    <2>1. m # n /\ touched'[m] = touched[m] /\ touched[m] >= 0
      BY <1>5, <1>6, <1>8
    <2>2. CASE j = i
      BY <1>5, <1>6, <1>8, <1>9, <2>1, <2>2
    <2>3. CASE j # i
      <3>1. /\ j \in 1 .. Len(roster) /\ roster'[j] = roster[j]
            /\ touched'[roster'[j].node_id] = touched[roster[j].node_id]
        BY <1>3, <1>6, <1>7, <1>8, <2>3
      <3>2. CASE \A k \in 1 .. Len(roster) : roster[k].node_id # m
        BY <2>1, <3>1, <3>2 DEF RosterIInv, MissingAreOlder
      <3>3. CASE \E k \in 1 .. Len(roster) : roster[k].node_id = m
        <4>1. i \in 1 .. Len(roster) /\ roster[i].node_id = m
          BY <1>6, <3>3
        <4>2. \A k \in 1 .. Len(roster) : touched[m] <= touched[roster[k].node_id]
          BY <1>1, <2>1, <4>1, RosterPlaceFor
        <4> QED
          BY <2>1, <3>1, <4>2
      <3> QED
        BY <3>2, <3>3
    <2> QED
      BY <2>2, <2>3
  <1> QED
    BY <1>10, <1>11, <1>12, <1>13 DEF RosterIInv

\* The snapshot for the portal changes what is shown, not who is there.
LEMMA SnapshotPreserves ==
    ASSUME RosterIInv, roster_get_snapshot
    PROVE  RosterIInv'
  <1>1. /\ Len(roster) \in Nat /\ DOMAIN roster = 1 .. Len(roster)
        /\ \A j \in 1 .. Len(roster) : roster[j] \in RosterEntry
    BY RosterPlaces DEF RosterIInv
  <1>2. /\ roster' = [i \in 1 .. Len(roster) |-> [roster[i] EXCEPT !.online = ShownOnline(roster[i])]]
        /\ roster_time' = roster_time /\ touched' = touched
    BY <1>1 DEF roster_get_snapshot
  <1>3. \A i \in 1 .. Len(roster) : ShownOnline(roster[i]) \in BOOLEAN
    BY DEF ShownOnline, roster_is_stale_locked
  <1>4. \A i \in 1 .. Len(roster) :
            /\ roster'[i] \in RosterEntry
            /\ roster'[i].node_id = roster[i].node_id
            /\ roster'[i].last_seen_tick_ms = roster[i].last_seen_tick_ms
    BY <1>1, <1>2, <1>3 DEF RosterEntry
  <1>5. roster' \in [1 .. Len(roster) -> RosterEntry]
    BY <1>2, <1>4
  <1>6. roster' \in Seq(RosterEntry) /\ Len(roster') = Len(roster)
    <2>1. PICK r, k : r = roster' /\ k = Len(roster)
      OBVIOUS
    <2>2. Seq(RosterEntry) = UNION {[1 .. m -> RosterEntry] : m \in Nat}
      BY SeqDef
    <2>3. [1 .. k -> RosterEntry] \in {[1 .. m -> RosterEntry] : m \in Nat} /\ k \in Nat
      BY <1>1, <2>1
    <2>4. r \in [1 .. k -> RosterEntry]
      BY <1>5, <2>1
    <2>5. r \in Seq(RosterEntry)
      BY <2>2, <2>3, <2>4, Zenon
    <2>6. Len(r) = k
      BY <2>3, <2>4, <2>5, LenProperties
    <2> QED
      BY <2>1, <2>5, <2>6
  <1>7. RosterTypeOK'
    BY <1>2, <1>6 DEF RosterIInv, RosterTypeOK
  <1>8. NodesDiffer' /\ MissingAreOlder'
    <2>1. NodesDiffer'
      BY <1>4, <1>6 DEF RosterIInv, NodesDiffer
    <2> SUFFICES ASSUME NEW n \in RosterNodes, touched[n] >= 0,
                        \A i \in 1 .. Len(roster) : roster'[i].node_id # n,
                        NEW i \in 1 .. Len(roster)
                 PROVE  touched[n] <= touched[roster'[i].node_id]
      BY <1>2, <1>6, <2>1 DEF MissingAreOlder
    <2>2. \A j \in 1 .. Len(roster) : roster[j].node_id # n
      BY <1>4
    <2> QED
      BY <1>4, <2>2 DEF RosterIInv, MissingAreOlder
  <1>9. EntriesHaveTheirTime'
    BY <1>2, <1>4, <1>6 DEF RosterIInv, EntriesHaveTheirTime, RosterMs
  <1> QED
    BY <1>7, <1>8, <1>9 DEF RosterIInv

\* Initially the roster is empty.
LEMMA RosterInitially == RosterInit => RosterIInv
  <1> SUFFICES ASSUME RosterInit PROVE RosterIInv
    OBVIOUS
  <1>1. roster \in Seq(RosterEntry) /\ Len(roster) = 0
    BY EmptySeq DEF RosterInit
  <1> QED
    BY <1>1, RosterAssumption
       DEF RosterInit, RosterIInv, RosterTypeOK, NodesDiffer, EntriesHaveTheirTime, MissingAreOlder

\* One step per operation.
LEMMA RosterInductive == RosterIInv /\ [RosterNext]_rosterVars => RosterIInv'
  <1> SUFFICES ASSUME RosterIInv, [RosterNext]_rosterVars PROVE RosterIInv'
    OBVIOUS
  <1>1. ASSUME NEW n \in RosterNodes, roster_touch(n) PROVE RosterIInv'
    BY <1>1, TouchPreserves
  <1>2. CASE roster_get_snapshot
    BY <1>2, SnapshotPreserves
  <1>3. CASE RosterTimePasses
    <2>1. /\ roster' = roster /\ touched' = touched /\ roster_time' \in 0 .. MaxRosterTime
          /\ roster_time' >= roster_time /\ roster_time \in Int
      BY <1>3, RosterAssumption DEF RosterTimePasses, RosterIInv, RosterTypeOK
    <2>2. RosterTypeOK'
      BY <2>1 DEF RosterIInv, RosterTypeOK
    <2> QED
      BY <2>1, <2>2 DEF RosterIInv, NodesDiffer, EntriesHaveTheirTime, MissingAreOlder
  <1>4. CASE UNCHANGED rosterVars
    BY <1>4 DEF rosterVars, RosterIInv, RosterTypeOK, NodesDiffer, EntriesHaveTheirTime, MissingAreOlder
  <1> QED
    BY <1>1, <1>2, <1>3, <1>4 DEF RosterNext

\* The invariant has RosterHasTheLatest.
LEMMA LatestFromInvariant == RosterIInv => RosterHasTheLatest
  <1> SUFFICES ASSUME RosterIInv PROVE RosterHasTheLatest
    OBVIOUS
  <1>1. Len(roster) \in Nat /\ DOMAIN roster = 1 .. Len(roster)
    BY RosterPlaces DEF RosterIInv
  <1>2. ASSUME NEW n \in RosterNodes PROVE Cardinality(find_roster_index(n)) <= 1
    <2>1. CASE find_roster_index(n) = {}
      BY <2>1, FS_EmptySet
    <2>2. CASE find_roster_index(n) # {}
      <3>1. PICK i : find_roster_index(n) = {i}
        BY <1>1, <2>2 DEF find_roster_index, RosterIInv, NodesDiffer
      <3> QED
        BY <3>1, FS_Singleton
    <2> QED
      BY <2>1, <2>2
  <1>3. ASSUME NEW n \in RosterNodes, touched[n] >= 0, find_roster_index(n) = {},
               NEW e \in Range(roster)
        PROVE  touched[n] <= touched[e.node_id]
    <2>1. PICK i \in 1 .. Len(roster) : e = roster[i]
      BY <1>1, <1>3 DEF Range
    <2>2. \A j \in 1 .. Len(roster) : roster[j].node_id # n
      BY <1>1, <1>3 DEF find_roster_index
    <2> QED
      BY <1>3, <2>1, <2>2 DEF RosterIInv, MissingAreOlder
  <1> QED
    BY <1>2, <1>3 DEF RosterHasTheLatest

\* For every size of the roster, every staleness limit and across the wrap of the
\* millisecond clock: the roster has each node at most once, and the nodes it has
\* no room for were heard before those it has.
THEOREM RosterIsLatest == RosterSpec => []RosterHasTheLatest
  BY RosterInitially, RosterInductive, LatestFromInvariant, PTL DEF RosterSpec

-----------------------------------------------------------------------------
(* The route table                                                         *)

RouteEntry == [destination : Destinations, next_hop : NextHops, hop_count : Int, best_rssi : Int,
               last_seen_tick_ms : Int]

Heard == [best : Int \X Int, at : Int]

RouteTypeOK ==
    /\ route_table \in Seq(RouteEntry)
    /\ route_now \in 0 .. MaxRouteTime
    /\ heard \in [Pairs -> Heard]

PairOf(e) == <<e.destination, e.next_hop>>

\* No pair is there twice.
PairsDiffer ==
    \A i, j \in 1 .. Len(route_table) : PairOf(route_table[i]) = PairOf(route_table[j]) => i = j

\* An entry has what the history has of its pair.
EntriesAreHeard ==
    \A i \in 1 .. Len(route_table) :
        /\ route_table[i].hop_count > 0
        /\ 0 <= route_table[i].last_seen_tick_ms /\ route_table[i].last_seen_tick_ms <= route_now
        /\ heard[PairOf(route_table[i])].best = <<route_table[i].hop_count, route_table[i].best_rssi>>
        /\ heard[PairOf(route_table[i])].at = route_table[i].last_seen_tick_ms

\* A pair without entry is as never heard.
MissingAreForgotten ==
    \A p \in Pairs :
        (\A i \in 1 .. Len(route_table) : PairOf(route_table[i]) # p) => heard[p].at = -1

RouteIInv == RouteTypeOK /\ PairsDiffer /\ EntriesAreHeard /\ MissingAreForgotten

\* The entries by their places.
LEMMA RoutePlaces ==
    ASSUME RouteTypeOK
    PROVE  /\ Len(route_table) \in Nat /\ DOMAIN route_table = 1 .. Len(route_table)
           /\ \A i \in 1 .. Len(route_table) :
                  /\ route_table[i] \in RouteEntry /\ PairOf(route_table[i]) \in Pairs
                  /\ route_table[i].destination \in Destinations
                  /\ route_table[i].next_hop \in NextHops
                  /\ route_table[i].hop_count \in Int /\ route_table[i].best_rssi \in Int
                  /\ route_table[i].last_seen_tick_ms \in Int
           /\ route_now \in Nat
  <1>1. route_table \in Seq(RouteEntry)
    BY DEF RouteTypeOK
  <1>2. Len(route_table) \in Nat /\ DOMAIN route_table = 1 .. Len(route_table)
    BY <1>1, LenProperties
  <1>3. \A i \in 1 .. Len(route_table) : route_table[i] \in RouteEntry
    BY <1>1, ElementOfSeq
  <1>4. route_now \in Nat
    BY RouteAssumption DEF RouteTypeOK
  <1> QED
    BY <1>2, <1>3, <1>4 DEF RouteEntry, PairOf, Pairs

\* The entry that is replaced in a full table.
LEMMA OldestOfRoutes ==
    ASSUME RouteIInv, Len(route_table) # 0
    PROVE  /\ OldestEntry \in 1 .. Len(route_table)
           /\ \A j \in 1 .. Len(route_table) :
                  route_table[OldestEntry].last_seen_tick_ms <= route_table[j].last_seen_tick_ms
  <1> DEFINE last(j) == route_table[j].last_seen_tick_ms
             oldest == {i \in Entries : \A j \in Entries :
                           RouteAge(route_table[j]) <= RouteAge(route_table[i])}
             times == {last(j) : j \in 1 .. Len(route_table)}
  <1>1. /\ Len(route_table) \in Nat /\ Entries = 1 .. Len(route_table) /\ route_now \in Nat
        /\ \A j \in 1 .. Len(route_table) :
               last(j) \in Nat /\ RouteAge(route_table[j]) = route_now - last(j)
    BY RoutePlaces DEF RouteIInv, EntriesAreHeard, Entries, RouteAge
  <1> HIDE DEF last
  <1>2. times \in SUBSET Nat /\ times # {}
    BY <1>1
  <1>3. PICK i \in 1 .. Len(route_table) : \A j \in 1 .. Len(route_table) : last(i) <= last(j)
    <2>1. PICK x \in times : \A y \in times : x <= y
      BY <1>2, LeastNumber, Zenon
    <2> QED
      BY <2>1
  <1>4. i \in oldest
    BY <1>1, <1>3
  <1>5. oldest \in SUBSET Nat
    BY <1>1
  <1>6. Min(oldest) \in oldest
    BY <1>4, <1>5, MinIsLeast
  <1>7. PICK k : k = OldestEntry
    OBVIOUS
  <1>8. k \in oldest
    BY <1>6, <1>7 DEF OldestEntry
  <1>9. \A j \in 1 .. Len(route_table) : last(k) <= last(j)
    BY <1>1, <1>8
  <1> QED
    BY <1>1, <1>7, <1>8, <1>9 DEF last

\* Where a pair is written, and whether it had the place before.
LEMMA RoutePlaceFor ==
    ASSUME RouteIInv, NEW d \in Destinations, NEW n \in NextHops
    PROVE  /\ IndexFor(d, n) \in 1 .. Len(route_table) + 1
           /\ \A j \in 1 .. Len(route_table) : j # IndexFor(d, n) => PairOf(route_table[j]) # <<d, n>>
           /\ find_route_index(d, n) # {} =>
                  /\ IndexFor(d, n) \in 1 .. Len(route_table)
                  /\ PairOf(route_table[IndexFor(d, n)]) = <<d, n>>
           /\ find_route_index(d, n) = {} =>
                  \A j \in 1 .. Len(route_table) : PairOf(route_table[j]) # <<d, n>>
  <1>1. Len(route_table) \in Nat /\ Entries = 1 .. Len(route_table)
    BY RoutePlaces DEF RouteIInv, Entries
  <1>2. CASE find_route_index(d, n) # {}
    <2>1. find_route_index(d, n) \in SUBSET Nat
      BY <1>1 DEF find_route_index
    <2>2. Min(find_route_index(d, n)) \in find_route_index(d, n)
      BY <1>2, <2>1, MinIsLeast
    <2>3. PICK i \in find_route_index(d, n) : i = IndexFor(d, n)
      BY <1>2, <2>2 DEF IndexFor
    <2>4. i \in 1 .. Len(route_table) /\ PairOf(route_table[i]) = <<d, n>>
      BY <1>1, <2>3 DEF find_route_index, PairOf
    <2>5. \A j \in 1 .. Len(route_table) : j # i => PairOf(route_table[j]) # <<d, n>>
      BY <2>4 DEF RouteIInv, PairsDiffer
    <2> QED
      BY <1>1, <1>2, <2>3, <2>4, <2>5
  <1>3. CASE find_route_index(d, n) = {}
    <2>1. \A j \in 1 .. Len(route_table) : PairOf(route_table[j]) # <<d, n>>
      BY <1>1, <1>3 DEF find_route_index, PairOf
    <2>2. CASE Len(route_table) < MAX_ROUTE_ENTRIES
      BY <1>1, <1>3, <2>1, <2>2 DEF IndexFor
    <2>3. CASE ~(Len(route_table) < MAX_ROUTE_ENTRIES)
      <3>1. Len(route_table) # 0
        BY <2>3, RouteAssumption
      <3>2. IndexFor(d, n) = OldestEntry
        BY <1>3, <2>3 DEF IndexFor
      <3> QED
        BY <1>1, <1>3, <2>1, <3>1, <3>2, OldestOfRoutes
    <2> QED
      BY <2>2, <2>3
  <1> QED
    BY <1>2, <1>3

\* The entry a pair has before it learns, and after.
Before(d, n) == IF find_route_index(d, n) # {} THEN route_table[IndexFor(d, n)] ELSE EmptyRoute(d, n)
Learned(e, hops, rssi) ==
    [IF Better(e, hops, rssi) THEN [e EXCEPT !.hop_count = hops, !.best_rssi = rssi] ELSE e
     EXCEPT !.last_seen_tick_ms = route_now]
Remembered(old, hops, rssi) ==
    [best |-> IF old.at < 0 \/ route_now - old.at >= ROUTE_STALE_MS
              THEN <<hops, rssi>>
              ELSE IF hops < old.best[1] \/ (hops = old.best[1] /\ rssi > old.best[2])
              THEN <<hops, rssi>> ELSE old.best,
     at |-> route_now]

\* An entry of the pair, and the history of the pair, just after a packet.
Agree(e, h, d, n) ==
    /\ e \in RouteEntry /\ PairOf(e) = <<d, n>> /\ e.hop_count > 0
    /\ e.last_seen_tick_ms = route_now
    /\ h \in Heard /\ h.best = <<e.hop_count, e.best_rssi>> /\ h.at = route_now

\* What the entry learns is what the history remembers of the pair.
LEMMA LearnedIsRemembered ==
    ASSUME RouteIInv, NEW d \in Destinations, NEW n \in NextHops,
           NEW hops \in Int, NEW rssi \in Int, hops > 0
    PROVE  Agree(Learned(Before(d, n), hops, rssi), Remembered(heard[<<d, n>>], hops, rssi), d, n)
  <1> DEFINE e == Learned(Before(d, n), hops, rssi)
             h == Remembered(heard[<<d, n>>], hops, rssi)
  <1> SUFFICES /\ e \in RouteEntry /\ PairOf(e) = <<d, n>> /\ e.hop_count > 0
               /\ e.last_seen_tick_ms = route_now
               /\ h \in Heard /\ h.best = <<e.hop_count, e.best_rssi>> /\ h.at = route_now
    BY Zenon DEF Agree
  <1> HIDE DEF e, h
  <1>1. <<d, n>> \in Pairs /\ heard[<<d, n>>] \in Heard /\ route_now \in Nat
    BY RoutePlaces DEF Pairs, RouteIInv, RouteTypeOK
  <1>2. ROUTE_STALE_MS \in Nat \ {0}
    BY RouteAssumption
  <1>3. CASE find_route_index(d, n) # {}
    <2>1. PICK i \in 1 .. Len(route_table) : i = IndexFor(d, n) /\ PairOf(route_table[i]) = <<d, n>>
      BY <1>3, RoutePlaceFor
    <2>2. PICK b : b = route_table[i]
      OBVIOUS
    <2>3. /\ b \in RouteEntry /\ b.hop_count > 0 /\ b.hop_count \in Int /\ b.best_rssi \in Int
          /\ b.last_seen_tick_ms \in Int /\ 0 <= b.last_seen_tick_ms
          /\ b.destination = d /\ b.next_hop = n
          /\ heard[<<d, n>>].best = <<b.hop_count, b.best_rssi>>
          /\ heard[<<d, n>>].at = b.last_seen_tick_ms
      BY <2>1, <2>2, RoutePlaces DEF RouteIInv, EntriesAreHeard, PairOf
    <2>4. Before(d, n) = b
      BY <1>3, <2>1, <2>2 DEF Before
    <2>5. Better(b, hops, rssi) <=>
              \/ heard[<<d, n>>].at < 0 \/ route_now - heard[<<d, n>>].at >= ROUTE_STALE_MS
              \/ hops < b.hop_count \/ (hops = b.hop_count /\ rssi > b.best_rssi)
      BY <1>1, <1>2, <2>3 DEF Better, route_is_stale, RouteAge
    <2>6. CASE Better(b, hops, rssi)
      <3>1. e = [[b EXCEPT !.hop_count = hops, !.best_rssi = rssi] EXCEPT !.last_seen_tick_ms = route_now]
        BY <2>4, <2>6 DEF Learned, e
      <3>2. h = [best |-> <<hops, rssi>>, at |-> route_now]
        BY <2>3, <2>5, <2>6 DEF Remembered, h
      <3>3. /\ e \in RouteEntry /\ e.destination = d /\ e.next_hop = n /\ e.hop_count = hops
            /\ e.best_rssi = rssi /\ e.last_seen_tick_ms = route_now
        <4>1. PICK c : c = [b EXCEPT !.hop_count = hops, !.best_rssi = rssi]
          OBVIOUS
        <4>2. /\ c \in RouteEntry /\ c.destination = d /\ c.next_hop = n /\ c.hop_count = hops
              /\ c.best_rssi = rssi
          BY <2>3, <4>1 DEF RouteEntry
        <4>3. e = [c EXCEPT !.last_seen_tick_ms = route_now] /\ route_now \in Int
          BY <1>1, <3>1, <4>1
        <4> QED
          BY <4>2, <4>3 DEF RouteEntry
      <3> QED
        BY <1>1, <3>2, <3>3 DEF PairOf, Heard
    <2>7. CASE ~Better(b, hops, rssi)
      <3>1. e = [b EXCEPT !.last_seen_tick_ms = route_now]
        BY <2>4, <2>7 DEF Learned, e
      <3>2. h = [best |-> <<b.hop_count, b.best_rssi>>, at |-> route_now]
        BY <2>3, <2>5, <2>7 DEF Remembered, h
      <3>3. /\ e \in RouteEntry /\ e.destination = d /\ e.next_hop = n /\ e.hop_count = b.hop_count
            /\ e.best_rssi = b.best_rssi /\ e.last_seen_tick_ms = route_now
        BY <1>1, <2>3, <3>1 DEF RouteEntry
      <3> QED
        BY <1>1, <2>3, <3>2, <3>3 DEF PairOf, Heard
    <2> QED
      BY <2>6, <2>7
  <1>4. CASE find_route_index(d, n) = {}
    <2>1. heard[<<d, n>>].at = -1
      BY <1>1, <1>4, RoutePlaceFor DEF RouteIInv, MissingAreForgotten
    <2>2. Better(EmptyRoute(d, n), hops, rssi)
      BY DEF Better, EmptyRoute
    <2>3. e = [destination |-> d, next_hop |-> n, hop_count |-> hops, best_rssi |-> rssi,
               last_seen_tick_ms |-> route_now]
      <3>1. PICK b : b = EmptyRoute(d, n)
        OBVIOUS
      <3>2. Before(d, n) = b
        BY <1>4, <3>1 DEF Before
      <3>3. e = [[b EXCEPT !.hop_count = hops, !.best_rssi = rssi] EXCEPT !.last_seen_tick_ms = route_now]
        BY <2>2, <3>1, <3>2 DEF Learned, e
      <3> QED
        BY <3>1, <3>3 DEF EmptyRoute
    <2>4. h = [best |-> <<hops, rssi>>, at |-> route_now]
      BY <2>1 DEF Remembered, h
    <2> QED
      BY <1>1, <2>3, <2>4 DEF RouteEntry, PairOf, Heard
  <1> QED
    BY <1>3, <1>4

\* A packet is heard.
LEMMA LearnPreserves ==
    ASSUME RouteIInv, NEW d \in Destinations, NEW n \in NextHops, NEW hops \in HopCounts,
           NEW rssi \in Rssi, route_table_learn(d, n, hops, rssi)
    PROVE  RouteIInv'
  <1>1. hops \in Int /\ rssi \in Int /\ hops > 0
    BY RouteAssumption DEF route_table_learn, route_is_valid
  <1>2. PICK i \in 1 .. Len(route_table) + 1 : i = IndexFor(d, n)
    BY RoutePlaceFor
  <1>3. PICK e : e = Learned(Before(d, n), hops, rssi)
    OBVIOUS
  <1>4. PICK h : h = Remembered(heard[<<d, n>>], hops, rssi)
    OBVIOUS
  <1>5. /\ e \in RouteEntry /\ PairOf(e) = <<d, n>> /\ e.hop_count > 0
        /\ e.last_seen_tick_ms = route_now
        /\ h \in Heard /\ h.best = <<e.hop_count, e.best_rssi>> /\ h.at = route_now
    <2>1. hops \in Int
      BY <1>1
    <2>2. rssi \in Int
      BY <1>1
    <2>3. hops > 0
      BY <1>1
    <2>4. Agree(Learned(Before(d, n), hops, rssi), Remembered(heard[<<d, n>>], hops, rssi), d, n)
      BY <2>1, <2>2, <2>3, LearnedIsRemembered
    <2>5. Agree(e, h, d, n)
      BY <1>3, <1>4, <2>4, Zenon
    <2> QED
      BY <2>5, Zenon DEF Agree
  <1>6. route_table' = [k \in 1 .. Len(route_table) \cup {i} |-> IF k = i THEN e ELSE route_table[k]]
    BY <1>2, <1>3 DEF route_table_learn, Learned, Before, Entries
  <1>7. PICK left, evicted :
            /\ left = {PairOf(x) : x \in Range(route_table)} \ {PairOf(x) : x \in Range(route_table')}
            /\ evicted = IF Len(route_table) < MAX_ROUTE_ENTRIES THEN {} ELSE left \cap LongestUnheard
    OBVIOUS
  <1>8. heard' = [p \in Pairs |-> IF p = <<d, n>> THEN h
                                  ELSE IF p \in evicted THEN [best |-> <<0, 0>>, at |-> -1]
                                  ELSE heard[p]]
    BY <1>4, <1>7 DEF route_table_learn, Remembered, PairOf
  <1>9. /\ Len(route_table) \in Nat /\ DOMAIN route_table = 1 .. Len(route_table)
        /\ \A j \in 1 .. Len(route_table) :
               route_table[j] \in RouteEntry /\ PairOf(route_table[j]) \in Pairs
        /\ route_now \in Nat
    BY RoutePlaces DEF RouteIInv
  <1>10. /\ route_table' \in Seq(RouteEntry) /\ route_table'[i] = e
         /\ \A k \in 1 .. Len(route_table) : k # i => route_table'[k] = route_table[k]
         /\ 1 .. Len(route_table') = 1 .. Len(route_table) \cup {i}
    <2>1. route_table' \in [1 .. Len(route_table) \cup {i} -> RouteEntry]
      BY <1>5, <1>6, <1>9
    <2>2. PICK r, k : r = route_table' /\ k = Len(route_table)
      OBVIOUS
    <2>3. k \in Nat
      BY <1>9, <2>2
    <2>4. i \in 1 .. k + 1
      BY <2>2
    <2>5. r \in Written(RouteEntry, k, i)
      BY <2>1, <2>2 DEF Written
    <2>6. r \in Seq(RouteEntry) /\ 1 .. Len(r) = 1 .. k \cup {i}
      BY <2>3, <2>4, <2>5, PutEntry
    <2> QED
      BY <1>6, <2>2, <2>6
  <1>11. DOMAIN route_table' = 1 .. Len(route_table')
    BY <1>6, <1>10
  <1>12. \A j \in 1 .. Len(route_table) : j # i => PairOf(route_table[j]) # <<d, n>>
    BY <1>2, RoutePlaceFor
  <1>13. route_now' = route_now
    BY DEF route_table_learn
  <1>14. \A p \in evicted : i \in 1 .. Len(route_table) /\ p = PairOf(route_table[i])
    <2> SUFFICES ASSUME NEW p \in evicted PROVE i \in 1 .. Len(route_table) /\ p = PairOf(route_table[i])
      OBVIOUS
    <2>1. PICK k \in 1 .. Len(route_table) : p = PairOf(route_table[k])
      BY <1>7, <1>9 DEF Range
    <2>2. \A j \in 1 .. Len(route_table') : PairOf(route_table'[j]) # p
      BY <1>7, <1>11 DEF Range
    <2>3. k = i
      BY <1>10, <2>1, <2>2
    <2> QED
      BY <2>1, <2>3
  <1>15. ASSUME NEW p \in Pairs, p # <<d, n>>, i \in 1 .. Len(route_table), p = PairOf(route_table[i])
         PROVE  p \in evicted
    <2>1. ~(Len(route_table) < MAX_ROUTE_ENTRIES) /\ i = OldestEntry
      <3>1. find_route_index(d, n) = {}
        BY <1>2, <1>15, RoutePlaceFor
      <3> QED
        BY <1>2, <1>9, <1>15, <3>1, RouteAssumption DEF IndexFor
    <2>2. p \in LongestUnheard
      <3>1. heard[p].at = route_table[i].last_seen_tick_ms /\ heard[p].at >= 0
        BY <1>15 DEF RouteIInv, EntriesAreHeard
      <3>2. ASSUME NEW q \in Pairs, heard[q].at >= 0 PROVE heard[p].at <= heard[q].at
        <4>1. heard[q].at # -1
          BY <3>2
        <4>2. PICK j \in 1 .. Len(route_table) : PairOf(route_table[j]) = q
          BY <4>1 DEF RouteIInv, MissingAreForgotten
        <4>3. heard[q].at = route_table[j].last_seen_tick_ms
          BY <4>2 DEF RouteIInv, EntriesAreHeard
        <4>4. Len(route_table) # 0
          BY <1>9
        <4> QED
          BY <2>1, <3>1, <4>3, <4>4, OldestOfRoutes
      <3> QED
        BY <3>1, <3>2 DEF LongestUnheard
    <2>3. p \in {PairOf(x) : x \in Range(route_table)}
      BY <1>9, <1>15 DEF Range
    <2>4. ASSUME NEW j \in 1 .. Len(route_table') PROVE PairOf(route_table'[j]) # p
      <3>1. CASE j = i
        BY <1>5, <1>10, <1>15, <3>1
      <3>2. CASE j # i
        BY <1>10, <1>15, <3>2 DEF RouteIInv, PairsDiffer
      <3> QED
        BY <3>1, <3>2
    <2>5. p \in left
      BY <1>7, <1>11, <2>3, <2>4 DEF Range
    <2> QED
      BY <1>7, <2>1, <2>2, <2>5
  <1>16. RouteTypeOK'
    <2>1. [best |-> <<0, 0>>, at |-> -1] \in Heard
      BY DEF Heard
    <2>2. heard' \in [Pairs -> Heard]
      BY <1>5, <1>8, <2>1 DEF RouteIInv, RouteTypeOK
    <2> QED
      BY <1>10, <1>13, <2>2 DEF RouteIInv, RouteTypeOK
  <1>17. PairsDiffer'
    <2> SUFFICES ASSUME NEW a \in 1 .. Len(route_table'), NEW b \in 1 .. Len(route_table'),
                        PairOf(route_table'[a]) = PairOf(route_table'[b])
                 PROVE  a = b
      BY DEF PairsDiffer, PairOf
    <2> QED
      BY <1>5, <1>10, <1>12 DEF RouteIInv, PairsDiffer
  <1>18. EntriesAreHeard'
    <2> SUFFICES ASSUME NEW j \in 1 .. Len(route_table')
                 PROVE  LET x == route_table'[j] IN
                        /\ x.hop_count > 0 /\ 0 <= x.last_seen_tick_ms
                        /\ x.last_seen_tick_ms <= route_now
                        /\ heard'[PairOf(x)].best = <<x.hop_count, x.best_rssi>>
                        /\ heard'[PairOf(x)].at = x.last_seen_tick_ms
      BY <1>13 DEF EntriesAreHeard, PairOf
    <2>1. CASE j = i
      <3>1. heard'[<<d, n>>] = h
        BY <1>8 DEF Pairs
      <3>2. route_table'[j] = e /\ PairOf(e) = <<d, n>>
        BY <1>5, <1>10, <2>1
      <3>3. e.last_seen_tick_ms = route_now /\ 0 <= route_now /\ route_now <= route_now
        BY <1>5, <1>9
      <3> QED
        BY <1>5, <3>1, <3>2, <3>3
    <2>2. CASE j # i
      <3>1. j \in 1 .. Len(route_table) /\ route_table'[j] = route_table[j]
        BY <1>10, <2>2
      <3>2. PairOf(route_table[j]) # <<d, n>> /\ PairOf(route_table[j]) \notin evicted
        BY <1>12, <1>14, <2>2, <3>1 DEF RouteIInv, PairsDiffer
      <3>3. heard'[PairOf(route_table[j])] = heard[PairOf(route_table[j])]
        BY <1>8, <1>9, <3>1, <3>2
      <3> QED
        BY <3>1, <3>3 DEF RouteIInv, EntriesAreHeard
    <2> QED
      BY <2>1, <2>2
  <1>19. MissingAreForgotten'
    <2> SUFFICES ASSUME NEW p \in Pairs, \A j \in 1 .. Len(route_table') : PairOf(route_table'[j]) # p
                 PROVE  heard'[p].at = -1
      BY DEF MissingAreForgotten, PairOf
    <2>1. p # <<d, n>>
      BY <1>5, <1>10
    <2>2. CASE p \in evicted
      BY <1>8, <2>1, <2>2
    <2>3. CASE p \notin evicted
      <3>1. heard'[p] = heard[p]
        BY <1>8, <2>1, <2>3
      <3>2. \A j \in 1 .. Len(route_table) : PairOf(route_table[j]) # p
        BY <1>10, <1>15, <2>1, <2>3
      <3> QED
        BY <3>1, <3>2 DEF RouteIInv, MissingAreForgotten
    <2> QED
      BY <2>2, <2>3
  <1> QED
    BY <1>16, <1>17, <1>18, <1>19 DEF RouteIInv

\* An entry of destination d that route_table_get_best looks at.
Usable(i, d) ==
    route_table[i].destination = d /\ ~route_is_stale(route_table[i]) /\ route_table[i].hop_count > 0

\* The preference compares any two entries, and is transitive.
LEMMA PreferenceIsTotal ==
    ASSUME RouteIInv, NEW i \in 1 .. Len(route_table), NEW j \in 1 .. Len(route_table)
    PROVE  /\ Preferred(route_table[i], route_table[j]) \/ Preferred(route_table[j], route_table[i])
           /\ \A k \in 1 .. Len(route_table) :
                  Preferred(route_table[i], route_table[j]) /\ Preferred(route_table[j], route_table[k])
                      => Preferred(route_table[i], route_table[k])
  <1>1. \A k \in 1 .. Len(route_table) :
            /\ route_table[k].next_hop \in Nat
            /\ route_table[k].hop_count \in Int /\ route_table[k].best_rssi \in Int
    BY RoutePlaces, RouteAssumption DEF RouteIInv
  <1>2. Preferred(route_table[i], route_table[j]) \/ Preferred(route_table[j], route_table[i])
    BY <1>1 DEF Preferred
  <1>3. ASSUME NEW k \in 1 .. Len(route_table), Preferred(route_table[i], route_table[j]),
               Preferred(route_table[j], route_table[k])
        PROVE  Preferred(route_table[i], route_table[k])
    <2>1. PICK a, b, c : a = route_table[i] /\ b = route_table[j] /\ c = route_table[k]
      OBVIOUS
    <2>2. /\ a.next_hop \in Nat /\ a.hop_count \in Int /\ a.best_rssi \in Int
          /\ b.next_hop \in Nat /\ b.hop_count \in Int /\ b.best_rssi \in Int
          /\ c.next_hop \in Nat /\ c.hop_count \in Int /\ c.best_rssi \in Int
      BY <1>1, <2>1
    <2>3. Preferred(a, b) /\ Preferred(b, c)
      BY <1>3, <2>1
    <2>4. a.hop_count <= b.hop_count /\ b.hop_count <= c.hop_count
      BY <2>2, <2>3 DEF Preferred
    <2>5. ASSUME a.hop_count < c.hop_count PROVE Preferred(a, c)
      BY <2>5 DEF Preferred
    <2>6. ASSUME a.hop_count = b.hop_count, b.hop_count = c.hop_count PROVE Preferred(a, c)
      <3>1. /\ a.best_rssi > b.best_rssi \/ (a.best_rssi = b.best_rssi /\ a.next_hop <= b.next_hop)
            /\ b.best_rssi > c.best_rssi \/ (b.best_rssi = c.best_rssi /\ b.next_hop <= c.next_hop)
        BY <2>2, <2>3, <2>6 DEF Preferred
      <3>2. a.best_rssi > c.best_rssi \/ (a.best_rssi = c.best_rssi /\ a.next_hop <= c.next_hop)
        <4>1. PICK x, y, z, k1, k2, k3 :
                /\ x = a.best_rssi /\ y = b.best_rssi /\ z = c.best_rssi
                /\ k1 = a.next_hop /\ k2 = b.next_hop /\ k3 = c.next_hop
          OBVIOUS
        <4>2. x \in Int /\ y \in Int /\ z \in Int /\ k1 \in Nat /\ k2 \in Nat /\ k3 \in Nat
          BY <2>2, <4>1, Zenon
        <4>3. (x > y \/ (x = y /\ k1 <= k2)) /\ (y > z \/ (y = z /\ k2 <= k3))
          BY <3>1, <4>1, Zenon
        <4>4. x > z \/ (x = z /\ k1 <= k3)
          BY <4>2, <4>3
        <4> QED
          BY <4>1, <4>4, Zenon
      <3> QED
        BY <2>6, <3>2 DEF Preferred
    <2>7. Preferred(a, c)
      <3>1. a.hop_count < c.hop_count \/ (a.hop_count = b.hop_count /\ b.hop_count = c.hop_count)
        BY <2>2, <2>4
      <3> QED
        BY <2>5, <2>6, <3>1, Zenon
    <2> QED
      BY <2>1, <2>7
  <1> QED
    BY <1>2, <1>3

\* Among the first entries of the table, if any is usable, one is preferred to all
\* that are; by induction over how many the loop has looked at.
LEMMA BestAmong ==
    ASSUME RouteIInv, NEW d \in Destinations, NEW m \in 0 .. Len(route_table),
           \E i \in 1 .. m : Usable(i, d)
    PROVE  \E i \in 1 .. m : Usable(i, d) /\ \A j \in 1 .. m :
               Usable(j, d) => Preferred(route_table[i], route_table[j])
  <1> DEFINE Best(k) ==
                 (\E i \in 1 .. k : Usable(i, d)) =>
                     \E i \in 1 .. k : Usable(i, d) /\ \A j \in 1 .. k :
                         Usable(j, d) => Preferred(route_table[i], route_table[j])
             bad == {k \in 0 .. Len(route_table) : ~Best(k)}
  <1>1. Len(route_table) \in Nat
    BY RoutePlaces DEF RouteIInv
  <1>2. ASSUME bad # {} PROVE FALSE
    <2>1. bad \in SUBSET Nat
      BY <1>1
    <2>2. PICK k \in bad : \A x \in bad : k <= x
      BY <1>2, <2>1, LeastNumber
    <2>3. k \in 0 .. Len(route_table) /\ ~Best(k)
      BY <2>2
    <2>4. k # 0
      BY <2>3
    <2>5. PICK p : p = k - 1
      OBVIOUS
    <2>6. p \in 0 .. Len(route_table) /\ 1 .. k = 1 .. p \cup {k} /\ k \in 1 .. Len(route_table)
      BY <1>1, <2>3, <2>4, <2>5
    <2>7. Best(p)
      <3>1. k \in Nat /\ ~(k <= p)
        BY <1>1, <2>3, <2>5
      <3>2. p \notin bad
        BY <2>2, <3>1
      <3> QED
        BY <2>6, <3>2
    <2>8. CASE \A i \in 1 .. p : ~Usable(i, d)
      <3>1. \A i \in 1 .. k : Usable(i, d) => i = k
        BY <2>6, <2>8
      <3>2. Preferred(route_table[k], route_table[k])
        BY <2>6, PreferenceIsTotal
      <3> QED
        BY <2>3, <2>6, <3>1, <3>2
    <2>9. CASE \E i \in 1 .. p : Usable(i, d)
      <3>1. PICK i \in 1 .. p : Usable(i, d) /\ \A j \in 1 .. p :
                Usable(j, d) => Preferred(route_table[i], route_table[j])
        BY <2>7, <2>9
      <3>2. i \in 1 .. k /\ i \in 1 .. Len(route_table) /\ 1 .. p \subseteq 1 .. Len(route_table)
        <4>1. k \in Nat /\ p \in Nat /\ p < k /\ p <= Len(route_table) /\ k <= Len(route_table)
          BY <1>1, <2>3, <2>4, <2>5
        <4> QED
          BY <1>1, <4>1
      <3>3. CASE ~Usable(k, d) \/ Preferred(route_table[i], route_table[k])
        <4>1. \A j \in 1 .. k : Usable(j, d) => Preferred(route_table[i], route_table[j])
          BY <2>6, <3>1, <3>3
        <4> QED
          BY <2>3, <3>1, <3>2, <4>1
      <3>4. CASE Usable(k, d) /\ ~Preferred(route_table[i], route_table[k])
        <4>1. Preferred(route_table[k], route_table[i]) /\ Preferred(route_table[k], route_table[k])
          BY <2>6, <3>2, <3>4, PreferenceIsTotal
        <4>2. \A j \in 1 .. p : Usable(j, d) => Preferred(route_table[k], route_table[j])
          BY <2>6, <3>1, <3>2, <4>1, PreferenceIsTotal
        <4>3. \A j \in 1 .. k : Usable(j, d) => Preferred(route_table[k], route_table[j])
          BY <2>6, <4>1, <4>2
        <4> QED
          BY <2>3, <2>6, <3>4, <4>3
      <3> QED
        BY <3>3, <3>4
    <2> QED
      BY <2>8, <2>9
  <1>3. Best(m)
    BY <1>2
  <1> QED
    BY <1>3

\* The invariant has BestOfWhatWasHeard.
LEMMA BestFromInvariant == RouteIInv => BestOfWhatWasHeard
  <1> SUFFICES ASSUME RouteIInv, NEW d \in Destinations
               PROVE  LET live == {n \in NextHops : heard[<<d, n>>].at >= 0
                                     /\ route_now - heard[<<d, n>>].at < ROUTE_STALE_MS}
                          best == route_table_get_best(d)
                      IN  /\ (best = {}) <=> (live = {})
                          /\ \A e \in best :
                                 /\ best = {e} /\ e.next_hop \in live
                                 /\ <<e.hop_count, e.best_rssi>> = heard[<<d, e.next_hop>>].best
                                 /\ \A n \in live :
                                        LET h == heard[<<d, n>>].best
                                        IN  \/ e.hop_count < h[1]
                                            \/ e.hop_count = h[1] /\ e.best_rssi > h[2]
                                            \/ <<e.hop_count, e.best_rssi>> = h /\ e.next_hop <= n
    BY DEF BestOfWhatWasHeard
  <1> DEFINE live == {n \in NextHops : heard[<<d, n>>].at >= 0
                         /\ route_now - heard[<<d, n>>].at < ROUTE_STALE_MS}
             best == route_table_get_best(d)
  <1>1. /\ Len(route_table) \in Nat /\ DOMAIN route_table = 1 .. Len(route_table)
        /\ \A i \in 1 .. Len(route_table) :
               /\ route_table[i].next_hop \in NextHops /\ route_table[i].next_hop \in Nat
               /\ route_table[i].hop_count \in Int /\ route_table[i].best_rssi \in Int
               /\ route_table[i].last_seen_tick_ms \in Int
        /\ route_now \in Nat /\ ROUTE_STALE_MS \in Nat /\ NextHops \subseteq Nat
    BY RoutePlaces, RouteAssumption DEF RouteIInv
  <1>2. Fresh(d) = {route_table[i] : i \in {j \in 1 .. Len(route_table) : Usable(j, d)}}
    BY <1>1 DEF Fresh, Usable, Range
  <1>3. ASSUME NEW i \in 1 .. Len(route_table), Usable(i, d)
        PROVE  /\ route_table[i].next_hop \in live
               /\ heard[<<d, route_table[i].next_hop>>].best
                      = <<route_table[i].hop_count, route_table[i].best_rssi>>
    <2>1. PairOf(route_table[i]) = <<d, route_table[i].next_hop>>
      BY <1>3 DEF PairOf, Usable
    <2>2. /\ heard[<<d, route_table[i].next_hop>>].best
                 = <<route_table[i].hop_count, route_table[i].best_rssi>>
          /\ heard[<<d, route_table[i].next_hop>>].at = route_table[i].last_seen_tick_ms
          /\ 0 <= route_table[i].last_seen_tick_ms
      BY <2>1 DEF RouteIInv, EntriesAreHeard
    <2>3. route_now - route_table[i].last_seen_tick_ms < ROUTE_STALE_MS
      BY <1>1, <1>3 DEF Usable, route_is_stale, RouteAge
    <2> QED
      BY <1>1, <2>2, <2>3
  <1>4. ASSUME NEW n \in live
        PROVE  \E i \in 1 .. Len(route_table) : Usable(i, d) /\ route_table[i].next_hop = n
    <2>1. <<d, n>> \in Pairs
      BY DEF Pairs
    <2>2. heard[<<d, n>>].at # -1
      OBVIOUS
    <2>3. PICK i \in 1 .. Len(route_table) : PairOf(route_table[i]) = <<d, n>>
      BY <2>1, <2>2 DEF RouteIInv, MissingAreForgotten
    <2>4. route_table[i].destination = d /\ route_table[i].next_hop = n
      BY <2>3 DEF PairOf
    <2>5. heard[<<d, n>>].at = route_table[i].last_seen_tick_ms /\ route_table[i].hop_count > 0
      BY <2>3 DEF RouteIInv, EntriesAreHeard
    <2>6. ~route_is_stale(route_table[i])
      BY <1>1, <2>5 DEF route_is_stale, RouteAge
    <2> QED
      BY <2>4, <2>5, <2>6 DEF Usable
  <1>5. ASSUME NEW e \in best
        PROVE  \E i \in 1 .. Len(route_table) : /\ e = route_table[i] /\ Usable(i, d)
                   /\ \A j \in 1 .. Len(route_table) : Usable(j, d) => Preferred(e, route_table[j])
    BY <1>2 DEF route_table_get_best
  <1> HIDE DEF live
  <1>6. ASSUME live # {} PROVE best # {}
    <2>1. \E i \in 1 .. Len(route_table) : Usable(i, d)
      BY <1>4, <1>6
    <2>2. PICK i \in 1 .. Len(route_table) : Usable(i, d) /\ \A j \in 1 .. Len(route_table) :
              Usable(j, d) => Preferred(route_table[i], route_table[j])
      <3>1. Len(route_table) \in Nat
        BY <1>1
      <3>2. PICK m \in 0 .. Len(route_table) : m = Len(route_table)
        BY <3>1
      <3> QED
        BY <2>1, <3>2, BestAmong
    <2>3. route_table[i] \in best
      BY <1>2, <2>2 DEF route_table_get_best
    <2> QED
      BY <2>3
  <1>7. ASSUME best # {} PROVE live # {}
    BY <1>3, <1>5, <1>7
  <1>8. ASSUME NEW e \in best, NEW f \in best PROVE e = f
    <2>1. PICK i \in 1 .. Len(route_table) : /\ e = route_table[i] /\ Usable(i, d)
              /\ \A j \in 1 .. Len(route_table) : Usable(j, d) => Preferred(e, route_table[j])
      BY <1>5
    <2>2. PICK j \in 1 .. Len(route_table) : /\ f = route_table[j] /\ Usable(j, d)
              /\ \A k \in 1 .. Len(route_table) : Usable(k, d) => Preferred(f, route_table[k])
      BY <1>5
    <2>3. Preferred(e, f) /\ Preferred(f, e)
      BY <2>1, <2>2
    <2>4. e.next_hop = f.next_hop /\ e.destination = d /\ f.destination = d
      BY <1>1, <2>1, <2>2, <2>3 DEF Preferred, Usable
    <2> QED
      BY <2>1, <2>2, <2>4 DEF RouteIInv, PairsDiffer, PairOf
  <1>9. ASSUME NEW e \in best
        PROVE  /\ best = {e} /\ e.next_hop \in live
               /\ <<e.hop_count, e.best_rssi>> = heard[<<d, e.next_hop>>].best
               /\ \A n \in live :
                      LET h == heard[<<d, n>>].best
                      IN  \/ e.hop_count < h[1]
                          \/ e.hop_count = h[1] /\ e.best_rssi > h[2]
                          \/ <<e.hop_count, e.best_rssi>> = h /\ e.next_hop <= n
    <2>1. PICK i \in 1 .. Len(route_table) : /\ e = route_table[i] /\ Usable(i, d)
              /\ \A j \in 1 .. Len(route_table) : Usable(j, d) => Preferred(e, route_table[j])
      BY <1>5
    <2>2. e.next_hop \in live /\ <<e.hop_count, e.best_rssi>> = heard[<<d, e.next_hop>>].best
      BY <1>3, <2>1
    <2>3. best = {e}
      BY <1>8
    <2>4. ASSUME NEW n \in live
          PROVE  LET h == heard[<<d, n>>].best
                 IN  \/ e.hop_count < h[1]
                     \/ e.hop_count = h[1] /\ e.best_rssi > h[2]
                     \/ <<e.hop_count, e.best_rssi>> = h /\ e.next_hop <= n
      <3>1. PICK j \in 1 .. Len(route_table) : Usable(j, d) /\ route_table[j].next_hop = n
        BY <1>4
      <3>2. heard[<<d, n>>].best = <<route_table[j].hop_count, route_table[j].best_rssi>>
        BY <1>3, <3>1
      <3>3. Preferred(e, route_table[j])
        BY <2>1, <3>1
      <3> QED
        BY <3>1, <3>2, <3>3 DEF Preferred
    <2> QED
      BY <2>2, <2>3, <2>4
  <1> QED
    BY <1>6, <1>7, <1>9 DEF live

\* Initially the table is empty.
LEMMA RouteInitially == RouteInit => RouteIInv
  <1> SUFFICES ASSUME RouteInit PROVE RouteIInv
    OBVIOUS
  <1>1. route_table \in Seq(RouteEntry) /\ Len(route_table) = 0
    BY EmptySeq DEF RouteInit
  <1>2. [best |-> <<0, 0>>, at |-> -1] \in Heard
    BY DEF Heard
  <1>3. heard \in [Pairs -> Heard] /\ \A p \in Pairs : heard[p].at = -1
    BY <1>2 DEF RouteInit
  <1> QED
    BY <1>1, <1>3, RouteAssumption
       DEF RouteInit, RouteIInv, RouteTypeOK, PairsDiffer, EntriesAreHeard, MissingAreForgotten

\* One step per operation.
LEMMA RouteInductive == RouteIInv /\ [RouteNext]_routeVars => RouteIInv'
  <1> SUFFICES ASSUME RouteIInv, [RouteNext]_routeVars PROVE RouteIInv'
    OBVIOUS
  <1>1. ASSUME NEW d \in Destinations, NEW n \in NextHops, NEW h \in HopCounts, NEW r \in Rssi,
               route_table_learn(d, n, h, r)
        PROVE  RouteIInv'
    BY <1>1, LearnPreserves
  <1>2. CASE RouteTimePasses
    <2>1. /\ route_table' = route_table /\ heard' = heard /\ route_now' \in 0 .. MaxRouteTime
          /\ route_now' >= route_now /\ route_now \in Int
      BY <1>2, RouteAssumption DEF RouteTimePasses, RouteIInv, RouteTypeOK
    <2>2. RouteTypeOK' /\ PairsDiffer' /\ MissingAreForgotten'
      BY <2>1 DEF RouteIInv, RouteTypeOK, PairsDiffer, MissingAreForgotten, PairOf
    <2>3. EntriesAreHeard'
      <3>1. PICK now \in Int, then \in Int : now = route_now /\ then = route_now' /\ now <= then
        BY <2>1
      <3>2. \A i \in 1 .. Len(route_table) :
                route_table[i].last_seen_tick_ms \in Int /\ route_table[i].last_seen_tick_ms <= now
        BY <3>1, RoutePlaces DEF RouteIInv, EntriesAreHeard
      <3>3. \A i \in 1 .. Len(route_table) : route_table[i].last_seen_tick_ms <= then
        BY <3>1, <3>2
      <3> QED
        BY <2>1, <3>1, <3>3 DEF RouteIInv, EntriesAreHeard, PairOf
    <2> QED
      BY <2>2, <2>3 DEF RouteIInv
  <1>3. CASE UNCHANGED routeVars
    BY <1>3 DEF routeVars, RouteIInv, RouteTypeOK, PairsDiffer, EntriesAreHeard,
                MissingAreForgotten, PairOf
  <1> QED
    BY <1>1, <1>2, <1>3 DEF RouteNext

\* For every size of the table and every staleness limit, the route that is chosen
\* is unique and is the best that was heard of the destination.
THEOREM RouteIsBest == RouteSpec => []BestOfWhatWasHeard
  BY RouteInitially, RouteInductive, BestFromInvariant, PTL DEF RouteSpec

-----------------------------------------------------------------------------
(* The forward queues                                                      *)

\* A HIGH job is overtaken only by the job in the worker's hands: the next
\* poll begins with HIGH.
HighIsNext ==
    overtaken["HIGH"] > 0 =>
        /\ overtaken["HIGH"] = 1
        /\ forward_queues["HIGH"] > 0
        /\ worker \in {"holding", "high"}

\* Each NORMAL job that overtakes a LOW one costs budget and grants LOW its own,
\* so that the worker does not come to wait for NORMAL.
LowIsSoon ==
    overtaken["LOW"] > 0 =>
        /\ overtaken["LOW"] + normal_budget <= 2
        /\ low_budget = 1
        /\ forward_queues["LOW"] > 0
        /\ worker # "wait"

ForwardIInv == ForwardTypeOK /\ HighIsNext /\ LowIsSoon

\* The worker receiving a job, with what overtaking it counts.
LEMMA ReceiveCounts ==
    ASSUME ForwardIInv, NEW p \in Priorities, xQueueReceive(p)
    PROVE  /\ forward_queues' \in [Priorities -> 0 .. FORWARD_QUEUE_DEPTH]
           /\ \A q \in Priorities \ {p} : forward_queues'[q] = forward_queues[q]
           /\ worker' = "holding" /\ holding' \in Priorities
           /\ overtaken' \in [{"HIGH", "LOW"} -> Nat]
           /\ overtaken'["HIGH"] = Overtaking("HIGH", p)
           /\ overtaken'["LOW"] = Overtaking("LOW", p)
  <1>1. forward_queues' \in [Priorities -> 0 .. FORWARD_QUEUE_DEPTH]
    BY ForwardQueuesAssumption DEF ForwardIInv, ForwardTypeOK, xQueueReceive
  <1>2. \A q \in Priorities \ {p} : forward_queues'[q] = forward_queues[q]
    BY DEF ForwardIInv, ForwardTypeOK, xQueueReceive
  <1>3. \A q \in {"HIGH", "LOW"} : Overtaking(q, p) \in Nat
    BY DEF ForwardIInv, ForwardTypeOK, Overtaking
  <1>4. /\ overtaken' \in [{"HIGH", "LOW"} -> Nat]
        /\ overtaken'["HIGH"] = Overtaking("HIGH", p)
        /\ overtaken'["LOW"] = Overtaking("LOW", p)
    BY <1>3 DEF xQueueReceive
  <1>5. worker' = "holding" /\ holding' \in Priorities
    BY DEF xQueueReceive
  <1> QED
    BY <1>1, <1>2, <1>4, <1>5

\* Initially nothing waits.
LEMMA ForwardInitially == ForwardInit => ForwardIInv
  BY ForwardQueuesAssumption
     DEF ForwardInit, ForwardIInv, ForwardTypeOK, HighIsNext, LowIsSoon, Priorities

\* One step per operation and per poll of the worker.
LEMMA ForwardInductive == ForwardIInv /\ [ForwardNext]_forwardVars => ForwardIInv'
  <1> SUFFICES ASSUME ForwardIInv, [ForwardNext]_forwardVars PROVE ForwardIInv'
    OBVIOUS
  <1> USE ForwardQueuesAssumption DEF Priorities
  <1>1. ASSUME NEW p \in Priorities, forward_queue_enqueue(p) PROVE ForwardIInv'
    BY <1>1 DEF ForwardIInv, ForwardTypeOK, HighIsNext, LowIsSoon, forward_queue_enqueue
  <1>2. CASE ReceiveHigh
    <2>1. xQueueReceive("HIGH")
      BY <1>2 DEF ReceiveHigh
    <2>2. ForwardTypeOK'
      BY <1>2, <2>1, ReceiveCounts DEF ReceiveHigh, ForwardIInv, ForwardTypeOK
    <2>3. HighIsNext'
      BY <2>1, ReceiveCounts DEF HighIsNext, Overtaking
    <2>4. LowIsSoon'
      BY <1>2, <2>1, ReceiveCounts
         DEF ReceiveHigh, ForwardIInv, ForwardTypeOK, LowIsSoon, Overtaking
    <2> QED
      BY <2>2, <2>3, <2>4 DEF ForwardIInv
  <1>3. CASE ReceiveNormal
    <2>1. xQueueReceive("NORMAL")
      BY <1>3 DEF ReceiveNormal
    <2>2. ForwardTypeOK'
      BY <1>3, <2>1, ReceiveCounts DEF ReceiveNormal, ForwardIInv, ForwardTypeOK
    <2>3. HighIsNext'
      BY <1>3, <2>1, ReceiveCounts
         DEF ReceiveNormal, ForwardIInv, ForwardTypeOK, HighIsNext, Overtaking
    <2>4. LowIsSoon'
      BY <1>3, <2>1, ReceiveCounts
         DEF ReceiveNormal, ForwardIInv, ForwardTypeOK, LowIsSoon, Overtaking
    <2> QED
      BY <2>2, <2>3, <2>4 DEF ForwardIInv
  <1>4. CASE ReceiveLow
    <2>1. xQueueReceive("LOW")
      BY <1>4 DEF ReceiveLow
    <2>2. ForwardTypeOK'
      BY <1>4, <2>1, ReceiveCounts DEF ReceiveLow, ForwardIInv, ForwardTypeOK
    <2>3. HighIsNext'
      BY <1>4, <2>1, ReceiveCounts
         DEF ReceiveLow, ForwardIInv, ForwardTypeOK, HighIsNext, Overtaking
    <2>4. LowIsSoon'
      BY <2>1, ReceiveCounts DEF LowIsSoon, Overtaking
    <2> QED
      BY <2>2, <2>3, <2>4 DEF ForwardIInv
  <1>5. CASE WaitForNormal
    <2>1. xQueueReceive("NORMAL")
      BY <1>5 DEF WaitForNormal
    <2>2. ForwardTypeOK'
      BY <1>5, <2>1, ReceiveCounts DEF WaitForNormal, ForwardIInv, ForwardTypeOK
    <2>3. HighIsNext'
      BY <1>5, <2>1, ReceiveCounts
         DEF WaitForNormal, ForwardIInv, ForwardTypeOK, HighIsNext, Overtaking
    <2>4. LowIsSoon'
      BY <1>5, <2>1, ReceiveCounts
         DEF WaitForNormal, ForwardIInv, ForwardTypeOK, LowIsSoon, Overtaking
    <2> QED
      BY <2>2, <2>3, <2>4 DEF ForwardIInv
  <1>6. CASE GoOn("high", "normal", forward_queues["HIGH"] = 0)
    BY <1>6 DEF GoOn, ForwardIInv, ForwardTypeOK, HighIsNext, LowIsSoon
  <1>7. CASE GoOn("normal", "low", normal_budget = 0 \/ forward_queues["NORMAL"] = 0)
    BY <1>7 DEF GoOn, ForwardIInv, ForwardTypeOK, HighIsNext, LowIsSoon
  <1>8. CASE GoOn("low", "wait", low_budget = 0 \/ forward_queues["LOW"] = 0)
    BY <1>8 DEF GoOn, ForwardIInv, ForwardTypeOK, HighIsNext, LowIsSoon
  <1>9. CASE JobDone
    BY <1>9 DEF JobDone, ForwardIInv, ForwardTypeOK, HighIsNext, LowIsSoon
  <1>10. CASE UNCHANGED forwardVars
    BY <1>10 DEF forwardVars, ForwardIInv, ForwardTypeOK, HighIsNext, LowIsSoon
  <1> QED
    BY <1>1, <1>2, <1>3, <1>4, <1>5, <1>6, <1>7, <1>8, <1>9, <1>10
       DEF ForwardNext, forward_worker_task

\* The invariant bounds the overtaking.
LEMMA BoundFromInvariant == ForwardIInv => ForwardOvertakingBounded
  BY DEF ForwardIInv, ForwardTypeOK, HighIsNext, LowIsSoon, ForwardOvertakingBounded

\* Whatever arrives in the forward queues, of any depth, and in whichever state
\* the budgets are: a HIGH job is overtaken at most once, a LOW one by at most
\* two NORMAL ones (forward_queue_receive).
THEOREM ForwardingIsFair == ForwardSpec => []ForwardOvertakingBounded
  BY ForwardInitially, ForwardInductive, BoundFromInvariant, PTL DEF ForwardSpec

-----------------------------------------------------------------------------
(* The table of packets seen                                               *)

\* No slot is twice in the list.
OnceIn(list) == \A j, k \in DOMAIN list : list[j] = list[k] => j = k

\* Appending to a list.
LEMMA AppendedList ==
    ASSUME NEW G, NEW list \in Seq(G), NEW x \in G
    PROVE  /\ Append(list, x) \in Seq(G)
           /\ ToSet(Append(list, x)) = ToSet(list) \cup {x}
           /\ OnceIn(list) /\ x \notin ToSet(list) => OnceIn(Append(list, x))
  <1> DEFINE new == Append(list, x)
             n == Len(list)
  <1>1. n \in Nat /\ DOMAIN list = 1 .. n /\ DOMAIN new = 1 .. n + 1 /\ new[n + 1] = x
    OBVIOUS
  <1>2. \A i \in 1 .. n : new[i] = list[i]
    OBVIOUS
  <1>3. new \in Seq(G)
    OBVIOUS
  <1> HIDE DEF new, n
  <1>4. \A i \in 1 .. n + 1 : i = n + 1 \/ i \in 1 .. n
    BY <1>1
  <1>5. ToSet(new) = ToSet(list) \cup {x}
    BY <1>1, <1>2, <1>4 DEF ToSet
  <1>6. OnceIn(list) /\ x \notin ToSet(list) => OnceIn(new)
    BY <1>1, <1>2, <1>4 DEF ToSet, OnceIn
  <1> QED
    BY <1>3, <1>5, <1>6 DEF new

\* Two lists, one after the other.
LEMMA JoinedLists ==
    ASSUME NEW G, NEW a \in Seq(G), NEW b \in Seq(G)
    PROVE  /\ a \o b \in Seq(G)
           /\ ToSet(a \o b) = ToSet(a) \cup ToSet(b)
           /\ OnceIn(a) /\ OnceIn(b) /\ ToSet(a) \cap ToSet(b) = {} => OnceIn(a \o b)
  <1> DEFINE new == a \o b
             n == Len(a)
             m == Len(b)
  <1>1. n \in Nat /\ m \in Nat /\ DOMAIN a = 1 .. n /\ DOMAIN b = 1 .. m /\ DOMAIN new = 1 .. n + m
    OBVIOUS
  <1>2. \A i \in 1 .. n : new[i] = a[i]
    OBVIOUS
  <1>3. \A i \in n + 1 .. n + m : new[i] = b[i - n]
    OBVIOUS
  <1>4. new \in Seq(G)
    OBVIOUS
  <1> HIDE DEF new, n, m
  <1>5. \A i \in 1 .. n + m : i \in 1 .. n \/ (i \in n + 1 .. n + m /\ i - n \in 1 .. m)
    BY <1>1
  <1>6. \A i \in 1 .. n : i \in 1 .. n + m
    BY <1>1
  <1>7. \A i \in 1 .. m : i + n \in n + 1 .. n + m /\ i + n \in 1 .. n + m /\ i + n - n = i
    BY <1>1
  <1>8. ToSet(new) = ToSet(a) \cup ToSet(b)
    <2>1. ToSet(new) \subseteq ToSet(a) \cup ToSet(b)
      BY <1>1, <1>2, <1>3, <1>5 DEF ToSet
    <2>2. ToSet(a) \subseteq ToSet(new)
      BY <1>1, <1>2, <1>6 DEF ToSet
    <2>3. ToSet(b) \subseteq ToSet(new)
      <3>1. ASSUME NEW i \in 1 .. m PROVE new[i + n] = b[i]
        <4> DEFINE j == i + n
        <4>1. j \in n + 1 .. n + m /\ j - n = i
          BY <1>1
        <4> HIDE DEF j
        <4>2. new[j] = b[i]
          BY <1>3, <4>1
        <4> QED
          BY <4>2 DEF j
      <3> QED
        BY <1>1, <1>7, <3>1 DEF ToSet
    <2> QED
      BY <2>1, <2>2, <2>3
  <1>9. ASSUME OnceIn(a), OnceIn(b), ToSet(a) \cap ToSet(b) = {} PROVE OnceIn(new)
    <2> SUFFICES ASSUME NEW j \in 1 .. n + m, NEW k \in 1 .. n + m, new[j] = new[k]
                 PROVE  j = k
      BY <1>1 DEF OnceIn
    <2>1. CASE j \in 1 .. n /\ k \in 1 .. n
      BY <1>1, <1>2, <1>9, <2>1 DEF OnceIn
    <2>2. CASE j \in n + 1 .. n + m /\ k \in n + 1 .. n + m
      <3>1. j - n \in 1 .. m /\ k - n \in 1 .. m /\ b[j - n] = b[k - n]
        BY <1>1, <1>3, <2>2
      <3>2. j - n = k - n
        BY <1>1, <1>9, <3>1 DEF OnceIn
      <3> QED
        BY <1>1, <2>2, <3>2
    <2>3. CASE j \in 1 .. n /\ k \in n + 1 .. n + m
      <3>1. k - n \in 1 .. m /\ new[k] = b[k - n]
        BY <1>1, <1>3, <2>3
      <3>2. new[j] \in ToSet(a) /\ new[k] \in ToSet(b)
        BY <1>1, <1>2, <2>3, <3>1 DEF ToSet
      <3> QED
        BY <1>9, <3>2
    <2>4. CASE k \in 1 .. n /\ j \in n + 1 .. n + m
      <3>1. j - n \in 1 .. m /\ new[j] = b[j - n]
        BY <1>1, <1>3, <2>4
      <3>2. new[k] \in ToSet(a) /\ new[j] \in ToSet(b)
        BY <1>1, <1>2, <2>4, <3>1 DEF ToSet
      <3> QED
        BY <1>9, <3>2
    <2> QED
      BY <1>5, <2>1, <2>2, <2>3, <2>4
  <1> QED
    BY <1>4, <1>8, <1>9 DEF new

\* A slot in front of a list.
LEMMA HeadedList ==
    ASSUME NEW G, NEW x \in G, NEW list \in Seq(G)
    PROVE  /\ <<x>> \o list \in Seq(G)
           /\ ToSet(<<x>> \o list) = ToSet(list) \cup {x}
           /\ OnceIn(list) /\ x \notin ToSet(list) => OnceIn(<<x>> \o list)
  <1>1. <<x>> \in Seq(G) /\ ToSet(<<x>>) = {x} /\ OnceIn(<<x>>)
    BY DEF ToSet, OnceIn
  <1>2. PICK one \in Seq(G) : one = <<x>> /\ ToSet(one) = {x} /\ OnceIn(one)
    BY <1>1
  <1>3. /\ one \o list \in Seq(G)
        /\ ToSet(one \o list) = ToSet(one) \cup ToSet(list)
        /\ OnceIn(one) /\ OnceIn(list) /\ ToSet(one) \cap ToSet(list) = {} => OnceIn(one \o list)
    BY JoinedLists
  <1> QED
    BY <1>2, <1>3

\* A list without its head.
LEMMA HeadlessList ==
    ASSUME NEW G, NEW list \in Seq(G), list # << >>
    PROVE  /\ Head(list) \in ToSet(list) /\ Tail(list) \in Seq(G)
           /\ OnceIn(list) => /\ OnceIn(Tail(list))
                              /\ ToSet(Tail(list)) = ToSet(list) \ {Head(list)}
  <1> DEFINE t == Tail(list)
             n == Len(list)
  <1>1. n \in Nat \ {0} /\ DOMAIN list = 1 .. n /\ DOMAIN t = 1 .. n - 1 /\ Head(list) = list[1]
    OBVIOUS
  <1>2. \A i \in 1 .. n - 1 : t[i] = list[i + 1]
    OBVIOUS
  <1>3. t \in Seq(G)
    OBVIOUS
  <1> HIDE DEF t, n
  <1>4. \A i \in 1 .. n - 1 : i + 1 \in 1 .. n /\ i + 1 # 1
    BY <1>1
  <1>5. ASSUME NEW i \in 1 .. n, i # 1 PROVE i - 1 \in 1 .. n - 1 /\ t[i - 1] = list[i]
    <2>1. PICK j \in 1 .. n - 1 : j = i - 1 /\ j + 1 = i
      BY <1>1, <1>5
    <2> QED
      BY <1>2, <2>1
  <1>6. Head(list) \in ToSet(list)
    BY <1>1 DEF ToSet
  <1>7. ASSUME OnceIn(list) PROVE OnceIn(t) /\ ToSet(t) = ToSet(list) \ {Head(list)}
    <2>1. OnceIn(t)
      <3> SUFFICES ASSUME NEW j \in 1 .. n - 1, NEW k \in 1 .. n - 1, t[j] = t[k] PROVE j = k
        BY <1>1 DEF OnceIn
      <3>1. PICK a \in 1 .. n, b \in 1 .. n : a = j + 1 /\ b = k + 1
        BY <1>4
      <3>2. list[a] = list[b]
        BY <1>2, <3>1
      <3>3. a = b
        BY <1>1, <1>7, <3>2 DEF OnceIn
      <3> QED
        BY <3>1, <3>3
    <2>2. ToSet(t) \subseteq ToSet(list) \ {Head(list)}
      <3> SUFFICES ASSUME NEW j \in 1 .. n - 1 PROVE t[j] \in ToSet(list) /\ t[j] # list[1]
        BY <1>1 DEF ToSet
      <3>1. t[j] = list[j + 1] /\ j + 1 \in 1 .. n /\ j + 1 # 1 /\ 1 \in 1 .. n
        BY <1>1, <1>2, <1>4
      <3> QED
        BY <1>1, <1>7, <3>1 DEF ToSet, OnceIn
    <2>3. ToSet(list) \ {Head(list)} \subseteq ToSet(t)
      BY <1>1, <1>5 DEF ToSet
    <2> QED
      BY <2>1, <2>2, <2>3
  <1> QED
    BY <1>3, <1>6, <1>7 DEF t

\* A list backwards.
LEMMA ReversedList ==
    ASSUME NEW G, NEW list \in Seq(G)
    PROVE  /\ Reverse(list) \in Seq(G)
           /\ ToSet(Reverse(list)) = ToSet(list)
           /\ OnceIn(list) => OnceIn(Reverse(list))
  <1> DEFINE new == Reverse(list)
             n == Len(list)
  <1>1. n \in Nat /\ DOMAIN list = 1 .. n /\ \A i \in 1 .. n : list[i] \in G
    OBVIOUS
  <1>2. new = [i \in 1 .. n |-> list[(n - i) + 1]]
    BY DEF Reverse
  <1> HIDE DEF new, n
  <1>3. \A i \in 1 .. n : (n - i) + 1 \in 1 .. n /\ (n - ((n - i) + 1)) + 1 = i
    BY <1>1
  <1>4. DOMAIN new = 1 .. n /\ \A i \in 1 .. n : new[i] = list[(n - i) + 1]
    BY <1>2
  <1>5. \A i \in 1 .. n : list[i] = new[(n - i) + 1]
    BY <1>3, <1>4
  <1>6. new \in Seq(G)
    <2>1. \A i \in 1 .. n : new[i] \in G
      BY <1>1, <1>3, <1>4
    <2> QED
      BY <1>1, <1>2, <2>1
  <1>7. ToSet(new) = ToSet(list)
    BY <1>1, <1>3, <1>4, <1>5 DEF ToSet
  <1>8. ASSUME OnceIn(list) PROVE OnceIn(new)
    <2> SUFFICES ASSUME NEW j \in 1 .. n, NEW k \in 1 .. n, new[j] = new[k] PROVE j = k
      BY <1>4 DEF OnceIn
    <2>1. (n - j) + 1 = (n - k) + 1
      BY <1>1, <1>3, <1>4, <1>8 DEF OnceIn
    <2> QED
      BY <1>1, <2>1
  <1> QED
    BY <1>6, <1>7, <1>8 DEF new

\* Sifting leaves the slots of S that are in the list, each as often as before.
LEMMA SiftedList ==
    ASSUME NEW G, NEW list \in Seq(G), NEW S
    PROVE  /\ Sift(list, S) \in Seq(G)
           /\ ToSet(Sift(list, S)) = ToSet(list) \cap S
           /\ OnceIn(list) => OnceIn(Sift(list, S))
  <1> DEFINE T == Seq(G)
             n == Len(list)
             Upto(k) == {list[j] : j \in 1 .. k}
             Walk(x, k) == IF list[k] \in S THEN Append(x, list[k]) ELSE x
             Loop(f) == f = [k \in 0 .. n |->
                                IF k = 0 THEN << >>
                                ELSE IF list[k] \in S THEN Append(f[k - 1], list[k]) ELSE f[k - 1]]
             left == CHOOSE f : Loop(f)
             Right(x, k) == /\ x \in Seq(G) /\ ToSet(x) = Upto(k) \cap S
                            /\ OnceIn(list) => OnceIn(x)
  <1>1. n \in Nat /\ << >> \in T /\ DOMAIN list = 1 .. n /\ \A k \in 1 .. n : list[k] \in G
    OBVIOUS
  <1>2. \A k \in 1 .. n : \A x \in T : Walk(x, k) \in T
    BY <1>1, AppendedList
  <1> HIDE DEF T, n, Walk
  <1>3. \E f : Loop(f)
    <2> DEFINE step == [k \in 1 .. n |-> [x \in T |-> Walk(x, k)]]
    <2>1. step \in Rounds(n, T)
      BY <1>2 DEF Rounds
    <2>2. PICK f : f \in [0 .. n -> T] /\ f[0] = << >> /\ \A k \in 1 .. n : f[k] = step[k][f[k - 1]]
      <3> HIDE DEF step
      <3>1. \E f : IsRun(f, n, T, << >>, step)
        BY <1>1, <2>1, LoopExists, Zenon
      <3> QED
        BY <3>1, Zenon DEF IsRun
    <2>3. \A k \in 1 .. n : k - 1 \in 0 .. n /\ f[k - 1] \in T
      BY <1>1, <2>2
    <2>4. \A k \in 1 .. n : f[k] = Walk(f[k - 1], k)
      BY <2>2, <2>3
    <2>5. \A k \in 0 .. n : k = 0 \/ k \in 1 .. n
      BY <1>1
    <2>6. f = [k \in 0 .. n |-> IF k = 0 THEN << >> ELSE Walk(f[k - 1], k)]
      BY <2>2, <2>4, <2>5
    <2> QED
      BY <2>6, Zenon DEF Walk
  <1>4. Loop(left)
    BY <1>3
  <1>5. Sift(list, S) = left[n]
    BY DEF Sift, n
  <1>6. left = [k \in 0 .. n |-> IF k = 0 THEN << >> ELSE Walk(left[k - 1], k)]
    BY <1>4, Zenon DEF Walk
  <1> HIDE DEF left, Loop
  <1>7. left[0] = << >> /\ \A k \in 1 .. n : left[k] = Walk(left[k - 1], k)
    BY <1>1, <1>6
  <1>8. Right(left[0], 0)
    BY <1>1, <1>7 DEF ToSet, OnceIn, T
  <1>9. ASSUME NEW k \in 1 .. n, Right(left[k - 1], k - 1) PROVE Right(left[k], k)
    <2>1. PICK x \in Seq(G) : x = left[k - 1]
      BY <1>9
    <2>2. left[k] = Walk(x, k)
      BY <1>7, <2>1
    <2>3. Upto(k) = Upto(k - 1) \cup {list[k]}
      <3>1. \A j \in 1 .. k : j = k \/ j \in 1 .. k - 1
        BY <1>1
      <3>2. \A j \in 1 .. k - 1 : j \in 1 .. k
        BY <1>1
      <3>3. k \in 1 .. k
        BY <1>1
      <3> QED
        BY <3>1, <3>2, <3>3
    <2>4. OnceIn(list) => list[k] \notin Upto(k - 1)
      <3>1. \A j \in 1 .. k - 1 : j \in 1 .. n /\ j # k
        BY <1>1
      <3> QED
        BY <1>1, <3>1 DEF OnceIn
    <2>5. ToSet(x) = Upto(k - 1) \cap S /\ (OnceIn(list) => OnceIn(x))
      BY <1>9, <2>1
    <2> HIDE DEF Upto
    <2>6. CASE list[k] \in S
      <3>1. left[k] = Append(x, list[k])
        BY <2>2, <2>6 DEF Walk
      <3>2. /\ Append(x, list[k]) \in Seq(G) /\ ToSet(Append(x, list[k])) = ToSet(x) \cup {list[k]}
            /\ OnceIn(x) /\ list[k] \notin ToSet(x) => OnceIn(Append(x, list[k]))
        BY <1>1, AppendedList
      <3> QED
        BY <2>3, <2>4, <2>5, <2>6, <3>1, <3>2
    <2>7. CASE list[k] \notin S
      BY <2>2, <2>3, <2>5, <2>7 DEF Walk
    <2> QED
      BY <2>6, <2>7
  <1> HIDE DEF Right
  <1>10. Right(left[n], n)
    <2> DEFINE R == {p \in Nat \X {left[k] : k \in 0 .. n} : Right(p[2], p[1])}
               g == [k \in 0 .. n |-> <<k, left[k]>>]
    <2>1. \A k \in 0 .. n : g[k] \in R <=> Right(left[k], k)
      BY <1>1
    <2>2. g[0] \in R
      BY <1>1, <1>8, <2>1
    <2>3. ASSUME NEW k \in 1 .. n, g[k - 1] \in R PROVE g[k] \in R
      <3>1. k \in 0 .. n /\ k - 1 \in 0 .. n
        BY <1>1
      <3>2. Right(left[k - 1], k - 1)
        BY <2>1, <2>3, <3>1
      <3> QED
        BY <1>9, <2>1, <3>1, <3>2
    <2> HIDE DEF R, g
    <2>4. g[n] \in R
      BY <1>1, <2>2, <2>3, LoopKeeps
    <2> QED
      BY <1>1, <2>1, <2>4
  <1>11. Upto(n) = ToSet(list)
    BY <1>1 DEF ToSet
  <1> QED
    BY <1>5, <1>10, <1>11 DEF Right

DedupState ==
    [free : Seq(Slots), hash : [Buckets -> Seq(Slots)], wheel : [Wheel -> Seq(Slots)],
     packet : [Slots -> Packets \cup {Nothing}], ms : [Slots -> Nat], last : Int]

\* The wheel's list of the second in which a packet was entered.
WheelAt(ms) == (ms \div DEDUP_EXPIRY_BUCKET_MS) % DEDUP_EXPIRY_BUCKET_COUNT

\* A list holds the slots of S and no slot twice.
Lists(list, S) == OnceIn(list) /\ ToSet(list) = S

FreeOf(packet) == {i \in Slots : packet[i] = Nothing}
ChainOf(packet, b) == {i \in Slots : packet[i] # Nothing /\ seen_bucket_index[packet[i]] = b}
SecondOf(packet, ms, w) == {i \in Slots : packet[i] # Nothing /\ WheelAt(ms[i]) = w}

\* The tables whose lists hold what the slots say: the invariant of the table.
Tidy ==
    {s \in DedupState :
        /\ Lists(s.free, FreeOf(s.packet))
        /\ \A b \in Buckets : Lists(s.hash[b], ChainOf(s.packet, b))
        /\ \A w \in Wheel : Lists(s.wheel[w], SecondOf(s.packet, s.ms, w))}

\* The constants, in the form the proofs use.
LEMMA DedupConstants ==
    /\ DEDUP_EXPIRY_BUCKET_COUNT \in Nat \ {0} /\ DEDUP_EXPIRY_BUCKET_MS \in Nat \ {0}
    /\ ClockModulus \in Nat \ {0} /\ MAX_SEEN_PACKETS \in Nat \ {0}
    /\ StartMs \in Nat /\ SEEN_PACKET_TTL_MS \in Int
    /\ \A x \in Int : x % DEDUP_EXPIRY_BUCKET_COUNT \in Wheel
    /\ \A x \in Nat : WheelAt(x) \in Wheel
    /\ \A x \in Int : ExpirationBucket(x) \in Int
    /\ \A p \in Packets : seen_bucket_index[p] \in Buckets
    /\ Nothing \notin Packets
  <1>1. /\ DEDUP_EXPIRY_BUCKET_COUNT \in Nat \ {0} /\ DEDUP_EXPIRY_BUCKET_MS \in Nat \ {0}
        /\ ClockModulus \in Nat /\ MAX_SEEN_PACKETS \in Nat \ {0}
        /\ StartMs \in 0 .. ClockModulus - 1
        /\ DOMAIN seen_bucket_index = Packets /\ Nothing \notin Packets
    BY DedupAssumption
  <1>2. SEEN_PACKET_TTL_MS \in Int
    BY <1>1 DEF SEEN_PACKET_TTL_MS
  <1>3. \A x \in Int : x % DEDUP_EXPIRY_BUCKET_COUNT \in Wheel
    BY <1>1 DEF Wheel
  <1>4. \A x \in Int : x \div DEDUP_EXPIRY_BUCKET_MS \in Int
    BY <1>1
  <1>5. \A x \in Nat : WheelAt(x) \in Wheel
    BY <1>1, <1>3, <1>4 DEF WheelAt
  <1>6. \A x \in Int : ExpirationBucket(x) \in Int
    BY <1>2, <1>4 DEF ExpirationBucket
  <1>7. \A p \in Packets : seen_bucket_index[p] \in Buckets
    BY <1>1 DEF Buckets, Range
  <1> QED
    BY <1>1, <1>2, <1>3, <1>5, <1>6, <1>7

\* The slots in the wheel's list of bucket b, and those of a minute's age.
InList(s, b) ==
    {i \in Slots : s.packet[i] # Nothing /\ WheelAt(s.ms[i]) = b % DEDUP_EXPIRY_BUCKET_COUNT}
IsOld(s, now, i) == Minus(now, s.ms[i]) >= SEEN_PACKET_TTL_MS

\* A round of the expiry leaves a tidy table, from whose list of the bucket the old
\* entries are gone; it ends at the bucket if one remains that is due.
LEMMA ExpireBucketTidy ==
    ASSUME NEW s \in Tidy, NEW now \in Nat
    PROVE  LET new == ExpireBucket(s, now)
               Due(i) == s.ms[i] \div DEDUP_EXPIRY_BUCKET_MS <= ExpirationBucket(now)
           IN  /\ new \in Tidy /\ new.ms = s.ms
               /\ \A i \in Slots : new.packet[i] = IF i \in InList(s, s.last) /\ IsOld(s, now, i)
                                                   THEN Nothing ELSE s.packet[i]
               /\ new.last = IF \E i \in InList(s, s.last) : ~IsOld(s, now, i) /\ Due(i)
                             THEN s.last ELSE s.last + 1
  <1> DEFINE w == s.last % DEDUP_EXPIRY_BUCKET_COUNT
             old == {i \in Slots : Minus(now, s.ms[i]) >= SEEN_PACKET_TTL_MS}
             kept == Sift(s.wheel[w], Slots \ old)
             gone == Sift(s.wheel[w], old)
             out == ToSet(gone)
             Due(i) == s.ms[i] \div DEDUP_EXPIRY_BUCKET_MS <= ExpirationBucket(now)
             stays == \E i \in ToSet(kept) : Due(i)
             packet == [i \in Slots |-> IF i \in out THEN Nothing ELSE s.packet[i]]
             Chain(b) == Sift(s.hash[b], Slots \ out)
             chains == [b \in Buckets |-> Chain(b)]
             seconds == [s.wheel EXCEPT ![w] = kept]
             first == Reverse(gone) \o s.free
             new == ExpireBucket(s, now)
  <1>1. /\ s \in DedupState /\ Lists(s.free, FreeOf(s.packet))
        /\ \A b \in Buckets : Lists(s.hash[b], ChainOf(s.packet, b))
        /\ \A v \in Wheel : Lists(s.wheel[v], SecondOf(s.packet, s.ms, v))
    BY DEF Tidy
  <1>2. /\ s.free \in Seq(Slots) /\ s.hash \in [Buckets -> Seq(Slots)]
        /\ s.wheel \in [Wheel -> Seq(Slots)] /\ s.packet \in [Slots -> Packets \cup {Nothing}]
        /\ s.ms \in [Slots -> Nat] /\ s.last \in Int
    BY <1>1 DEF DedupState
  <1>3. w \in Wheel /\ s.wheel[w] \in Seq(Slots)
    BY <1>2, DedupConstants
  <1>4. /\ new.free = first /\ new.hash = chains /\ new.wheel = seconds
        /\ new.packet = packet /\ new.ms = s.ms /\ new.last = IF stays THEN s.last ELSE s.last + 1
        /\ new = [free |-> new.free, hash |-> new.hash, wheel |-> new.wheel,
                  packet |-> new.packet, ms |-> new.ms, last |-> new.last]
    <2> DEFINE swept == [Expire(s, gone) EXCEPT !.wheel[w] = kept]
    <2>1. s = [free |-> s.free, hash |-> s.hash, wheel |-> s.wheel,
               packet |-> s.packet, ms |-> s.ms, last |-> s.last]
      BY <1>1 DEF DedupState
    <2>2. Expire(s, gone) = [free |-> first, hash |-> chains, wheel |-> s.wheel,
                             packet |-> packet, ms |-> s.ms, last |-> s.last]
      <3>1. Expire(s, gone) = [s EXCEPT !.hash = chains, !.packet = packet, !.free = first]
        BY DEF Expire
      <3> HIDE DEF gone, kept, chains, packet, first
      <3> QED
        BY <2>1, <3>1
    <2>3. swept = [free |-> first, hash |-> chains, wheel |-> seconds,
                   packet |-> packet, ms |-> s.ms, last |-> s.last]
      <3> HIDE DEF gone, kept, chains, packet, first
      <3> QED
        BY <2>2
    <2>4. new = IF stays THEN swept ELSE [swept EXCEPT !.last = @ + 1]
      BY DEF ExpireBucket
    <2> HIDE DEF gone, kept, chains, packet, first, seconds, swept, new, stays
    <2> QED
      BY <2>3, <2>4
  <1>5. Lists(kept, SecondOf(s.packet, s.ms, w) \cap (Slots \ old)) /\ kept \in Seq(Slots)
    BY <1>1, <1>3, SiftedList DEF Lists
  <1>6. Lists(gone, SecondOf(s.packet, s.ms, w) \cap old) /\ gone \in Seq(Slots)
    BY <1>1, <1>3, SiftedList DEF Lists
  <1>15. SecondOf(s.packet, s.ms, w) = InList(s, s.last)
    BY DEF SecondOf, InList
  <1>16. \A i \in Slots : i \in old <=> IsOld(s, now, i)
    BY DEF IsOld
  <1>17. stays <=> \E i \in InList(s, s.last) : ~IsOld(s, now, i) /\ Due(i)
    <2>1. ToSet(kept) = InList(s, s.last) \cap (Slots \ old)
      BY <1>5, <1>15 DEF Lists
    <2>2. InList(s, s.last) \subseteq Slots
      BY DEF InList
    <2> HIDE DEF old, kept, Due
    <2> QED
      BY <1>16, <2>1, <2>2
  <1> HIDE DEF w, new, old, kept, gone, stays, Due
  <1>7. packet \in [Slots -> Packets \cup {Nothing}]
    BY <1>2
  <1>8. /\ out = SecondOf(s.packet, s.ms, w) \cap old /\ out \subseteq Slots
        /\ \A i \in out : s.packet[i] # Nothing /\ WheelAt(s.ms[i]) = w
    BY <1>6 DEF Lists, SecondOf
  <1>9. first \in Seq(Slots) /\ Lists(first, FreeOf(packet))
    <2>1. /\ Reverse(gone) \in Seq(Slots) /\ ToSet(Reverse(gone)) = out
          /\ OnceIn(Reverse(gone))
      BY <1>6, ReversedList DEF Lists
    <2>2. out \cap ToSet(s.free) = {}
      BY <1>1, <1>8 DEF Lists, FreeOf
    <2>3. /\ first \in Seq(Slots) /\ OnceIn(first) /\ ToSet(first) = out \cup ToSet(s.free)
      BY <1>1, <1>2, <2>1, <2>2, JoinedLists DEF Lists
    <2>4. ToSet(s.free) = FreeOf(s.packet)
      BY <1>1 DEF Lists
    <2>5. out \cup FreeOf(s.packet) = FreeOf(packet)
      BY <1>8 DEF FreeOf
    <2> QED
      BY <2>3, <2>4, <2>5 DEF Lists
  <1>10. ASSUME NEW b \in Buckets PROVE Chain(b) \in Seq(Slots) /\ Lists(Chain(b), ChainOf(packet, b))
    <2>1. /\ Chain(b) \in Seq(Slots) /\ OnceIn(Chain(b))
          /\ ToSet(Chain(b)) = ChainOf(s.packet, b) \cap (Slots \ out)
      BY <1>1, <1>2, SiftedList DEF Lists
    <2>2. ChainOf(s.packet, b) \cap (Slots \ out) = ChainOf(packet, b)
      BY <1>8 DEF ChainOf
    <2> QED
      BY <2>1, <2>2 DEF Lists
  <1>11. seconds \in [Wheel -> Seq(Slots)]
    BY <1>2, <1>3, <1>5
  <1>12. ASSUME NEW v \in Wheel PROVE Lists(seconds[v], SecondOf(packet, s.ms, v))
    <2>1. CASE v = w
      <3>1. SecondOf(s.packet, s.ms, w) \cap (Slots \ old) = SecondOf(packet, s.ms, w)
        BY <1>8 DEF SecondOf
      <3> QED
        BY <1>2, <1>3, <1>5, <2>1, <3>1
    <2>2. CASE v # w
      <3>1. SecondOf(s.packet, s.ms, v) = SecondOf(packet, s.ms, v)
        BY <1>8, <2>2 DEF SecondOf
      <3> QED
        BY <1>1, <1>2, <2>2, <3>1
    <2> QED
      BY <2>1, <2>2
  <1>13. chains \in [Buckets -> Seq(Slots)] /\ \A b \in Buckets : chains[b] = Chain(b)
    BY <1>10
  <1> HIDE DEF first, Chain, chains, seconds, packet
  <1>14. new \in DedupState
    BY <1>2, <1>4, <1>7, <1>9, <1>11, <1>13 DEF DedupState
  <1>18. new \in Tidy
    BY <1>4, <1>9, <1>10, <1>12, <1>13, <1>14 DEF Tidy
  <1>19. \A i \in Slots : new.packet[i] = IF i \in InList(s, s.last) /\ IsOld(s, now, i)
                                        THEN Nothing ELSE s.packet[i]
    BY <1>4, <1>8, <1>15, <1>16 DEF packet
  <1> QED
    BY <1>4, <1>17, <1>18, <1>19 DEF new, Due

\* The loop of the expiry: where it starts, a turn of it, and that it does not.
From(s, now) ==
    [s EXCEPT !.last = IF ExpirationBucket(now) - @ >= DEDUP_EXPIRY_BUCKET_COUNT
                       THEN ExpirationBucket(now) - DEDUP_EXPIRY_BUCKET_COUNT + 1 ELSE @]
Turn(x, now) == IF Negative(Minus(ExpirationBucket(now), x.last)) THEN x ELSE ExpireBucket(x, now)
Stops(s, now) == now < SEEN_PACKET_TTL_MS \/ Negative(Minus(ExpirationBucket(now), s.last))

\* What the loop has reached after each of its turns.
IsExpiry(f, s, now) ==
    /\ f[0] = From(s, now) /\ f[0] \in Tidy
    /\ \A k \in 1 .. DEDUP_EXPIRY_BUCKET_COUNT : f[k] = Turn(f[k - 1], now)

\* The table the loop starts from.
LEMMA FromTidy ==
    ASSUME NEW s \in Tidy, NEW now \in Nat
    PROVE  LET from == From(s, now)
           IN  /\ from \in Tidy /\ from.packet = s.packet /\ from.ms = s.ms
               /\ from.last = IF ExpirationBucket(now) - s.last >= DEDUP_EXPIRY_BUCKET_COUNT
                              THEN ExpirationBucket(now) - DEDUP_EXPIRY_BUCKET_COUNT + 1 ELSE s.last
  <1> DEFINE from == From(s, now)
  <1>1. ExpirationBucket(now) \in Int /\ DEDUP_EXPIRY_BUCKET_COUNT \in Int
    BY DedupConstants
  <1>2. s \in DedupState
    BY DEF Tidy
  <1>3. PICK l \in Int : l = IF ExpirationBucket(now) - s.last >= DEDUP_EXPIRY_BUCKET_COUNT
                             THEN ExpirationBucket(now) - DEDUP_EXPIRY_BUCKET_COUNT + 1 ELSE s.last
    <2>1. s.last \in Int
      BY <1>2 DEF DedupState
    <2>2. ExpirationBucket(now) - DEDUP_EXPIRY_BUCKET_COUNT + 1 \in Int
      BY <1>1
    <2> QED
      BY <2>1, <2>2, Zenon
  <1>4. from = [s EXCEPT !.last = l]
    BY <1>3 DEF From
  <1> HIDE DEF from
  <1>5. /\ from \in DedupState /\ from.free = s.free /\ from.hash = s.hash /\ from.wheel = s.wheel
        /\ from.packet = s.packet /\ from.ms = s.ms /\ from.last = l
    BY <1>2, <1>4 DEF DedupState
  <1>6. from \in Tidy
    BY <1>5 DEF Tidy
  <1> QED
    BY <1>3, <1>5, <1>6 DEF from

\* The expiry is that loop.
LEMMA ExpiryRuns ==
    ASSUME NEW s \in Tidy, NEW now \in Nat
    PROVE  \E f : /\ IsExpiry(f, s, now)
                 /\ expire_current_and_prior_buckets(s, now) =
                        IF Stops(s, now) THEN s ELSE f[DEDUP_EXPIRY_BUCKET_COUNT]
  <1> DEFINE n == DEDUP_EXPIRY_BUCKET_COUNT
             from == From(s, now)
             Loop(f) == f = [k \in 0 .. n |->
                                IF k = 0 THEN from
                                ELSE IF Negative(Minus(ExpirationBucket(now), f[k - 1].last))
                                THEN f[k - 1] ELSE ExpireBucket(f[k - 1], now)]
             round == CHOOSE f : Loop(f)
  <1>1. expire_current_and_prior_buckets(s, now) = IF Stops(s, now) THEN s ELSE round[n]
    BY DEF expire_current_and_prior_buckets, Stops, From
  <1>2. from \in Tidy
    BY FromTidy
  <1>3. \A x \in Tidy : Turn(x, now) \in Tidy
    BY ExpireBucketTidy DEF Turn
  <1>4. n \in Nat
    BY DedupConstants
  <1> HIDE DEF n, from
  <1>5. \E f : Loop(f)
    <2> DEFINE step == [k \in 1 .. n |-> [x \in Tidy |-> Turn(x, now)]]
    <2>1. step \in Rounds(n, Tidy)
      BY <1>3 DEF Rounds
    <2>2. PICK f : f \in [0 .. n -> Tidy] /\ f[0] = from /\ \A k \in 1 .. n : f[k] = step[k][f[k - 1]]
      <3> HIDE DEF step
      <3>1. \E f : IsRun(f, n, Tidy, from, step)
        BY <1>2, <1>4, <2>1, LoopExists, Zenon
      <3> QED
        BY <3>1, Zenon DEF IsRun
    <2>3. \A k \in 1 .. n : k - 1 \in 0 .. n /\ f[k - 1] \in Tidy
      BY <1>4, <2>2
    <2>4. \A k \in 1 .. n : f[k] = Turn(f[k - 1], now)
      BY <2>2, <2>3
    <2>5. \A k \in 0 .. n : k = 0 \/ k \in 1 .. n
      BY <1>4
    <2>6. f = [k \in 0 .. n |-> IF k = 0 THEN from ELSE Turn(f[k - 1], now)]
      BY <2>2, <2>4, <2>5
    <2> QED
      BY <2>6, Zenon DEF Turn
  <1>6. Loop(round)
    BY <1>5
  <1>7. round = [k \in 0 .. n |-> IF k = 0 THEN from ELSE Turn(round[k - 1], now)]
    BY <1>6, Zenon DEF Turn
  <1> HIDE DEF round, Loop
  <1>8. round[0] = from /\ \A k \in 1 .. n : round[k] = Turn(round[k - 1], now)
    BY <1>4, <1>7
  <1>9. IsExpiry(round, s, now)
    BY <1>2, <1>8 DEF IsExpiry, n, from
  <1> QED
    BY <1>1, <1>9 DEF n

\* What an expiry may do: entries go, and only old ones.
Expires(s, e, now) ==
    /\ e \in Tidy /\ e.ms = s.ms
    /\ \A i \in Slots : /\ e.packet[i] = s.packet[i] \/ e.packet[i] = Nothing
                        /\ ~IsOld(s, now, i) => e.packet[i] = s.packet[i]

\* An expiry leaves the table tidy.
LEMMA ExpiryTidy ==
    ASSUME NEW s \in Tidy, NEW now \in Nat
    PROVE  Expires(s, expire_current_and_prior_buckets(s, now), now)
  <1> DEFINE n == DEDUP_EXPIRY_BUCKET_COUNT
             S == {x \in Tidy : Expires(s, x, now)}
  <1>1. PICK f : /\ IsExpiry(f, s, now)
                 /\ expire_current_and_prior_buckets(s, now) = IF Stops(s, now) THEN s ELSE f[n]
    BY ExpiryRuns
  <1>2. Expires(s, s, now)
    BY DEF Expires
  <1>3. f[0] \in S
    BY <1>1, FromTidy DEF IsExpiry, Expires
  <1>4. ASSUME NEW x \in S PROVE Turn(x, now) \in S
    <2>1. x \in Tidy /\ Expires(s, x, now)
      OBVIOUS
    <2>2. PICK e : e = ExpireBucket(x, now)
      OBVIOUS
    <2>3. /\ e \in Tidy /\ e.ms = x.ms
          /\ \A i \in Slots : e.packet[i] = IF i \in InList(x, x.last) /\ IsOld(x, now, i)
                                            THEN Nothing ELSE x.packet[i]
      BY <2>1, <2>2, ExpireBucketTidy
    <2>4. \A i \in Slots : IsOld(x, now, i) <=> IsOld(s, now, i)
      BY <2>1 DEF IsOld, Expires
    <2>5. Expires(s, e, now)
      BY <2>1, <2>3, <2>4 DEF Expires
    <2> QED
      BY <2>1, <2>2, <2>3, <2>5 DEF Turn
  <1>5. n \in Nat
    BY DedupConstants
  <1>6. \A k \in 1 .. n : f[k] = Turn(f[k - 1], now)
    BY <1>1 DEF IsExpiry
  <1> HIDE DEF S, n
  <1>7. \A k \in 1 .. n : f[k - 1] \in S => f[k] \in S
    BY <1>4, <1>6
  <1>8. f[n] \in S
    BY <1>3, <1>5, <1>7, LoopKeeps
  <1> QED
    BY <1>1, <1>2, <1>8 DEF S

\* What an entry changes: a slot that was free.
Enters(s, e, p, now) ==
    /\ e \in Tidy /\ e.last = s.last
    /\ \E i \in FreeOf(s.packet) : /\ e.packet = [s.packet EXCEPT ![i] = p]
                                   /\ e.ms = [s.ms EXCEPT ![i] = now]

\* A packet entered into a free slot leaves a tidy table.
LEMMA InsertTidy ==
    ASSUME NEW s \in Tidy, NEW p \in Packets, NEW now \in Nat, s.free # << >>
    PROVE  Enters(s, insert_entry(s, p, now), p, now)
  <1> DEFINE i == Head(s.free)
             c == seen_bucket_index[p]
             w == WheelAt(now)
             packet == [s.packet EXCEPT ![i] = p]
             ms == [s.ms EXCEPT ![i] = now]
             chain == <<i>> \o s.hash[c]
             second == <<i>> \o s.wheel[w]
             chains == [s.hash EXCEPT ![c] = chain]
             seconds == [s.wheel EXCEPT ![w] = second]
             new == insert_entry(s, p, now)
  <1>1. /\ s \in DedupState /\ Lists(s.free, FreeOf(s.packet))
        /\ \A b \in Buckets : Lists(s.hash[b], ChainOf(s.packet, b))
        /\ \A v \in Wheel : Lists(s.wheel[v], SecondOf(s.packet, s.ms, v))
    BY DEF Tidy
  <1>2. /\ s.free \in Seq(Slots) /\ s.hash \in [Buckets -> Seq(Slots)]
        /\ s.wheel \in [Wheel -> Seq(Slots)] /\ s.packet \in [Slots -> Packets \cup {Nothing}]
        /\ s.ms \in [Slots -> Nat] /\ s.last \in Int
    BY <1>1 DEF DedupState
  <1>3. c \in Buckets /\ w \in Wheel /\ p # Nothing
    BY DedupConstants
  <1>4. /\ i \in FreeOf(s.packet) /\ Tail(s.free) \in Seq(Slots)
        /\ Lists(Tail(s.free), FreeOf(s.packet) \ {i})
    BY <1>1, <1>2, HeadlessList DEF Lists
  <1>5. i \in Slots /\ s.packet[i] = Nothing
    BY <1>4 DEF FreeOf
  <1>6. new = [free |-> Tail(s.free), hash |-> chains, wheel |-> seconds,
               packet |-> packet, ms |-> ms, last |-> s.last]
    <2>1. s = [free |-> s.free, hash |-> s.hash, wheel |-> s.wheel,
               packet |-> s.packet, ms |-> s.ms, last |-> s.last]
      BY <1>1 DEF DedupState
    <2>2. new = [s EXCEPT !.free = Tail(s.free), !.packet = packet, !.ms = ms,
                          !.hash = chains, !.wheel = seconds]
      BY DEF insert_entry, WheelAt
    <2> HIDE DEF new, packet, ms, chains, seconds
    <2> QED
      BY <2>1, <2>2
  <1> HIDE DEF i, c, w, new
  <1>7. packet \in [Slots -> Packets \cup {Nothing}] /\ ms \in [Slots -> Nat]
    BY <1>2, <1>5
  <1>8. /\ packet[i] = p /\ ms[i] = now
        /\ \A k \in Slots : k # i => packet[k] = s.packet[k] /\ ms[k] = s.ms[k]
    BY <1>2, <1>5
  <1>9. chain \in Seq(Slots) /\ Lists(chain, ChainOf(s.packet, c) \cup {i})
    <2>1. s.hash[c] \in Seq(Slots) /\ Lists(s.hash[c], ChainOf(s.packet, c)) /\ i \notin ChainOf(s.packet, c)
      BY <1>1, <1>2, <1>3, <1>5 DEF ChainOf
    <2> QED
      BY <1>5, <2>1, HeadedList DEF Lists
  <1>10. second \in Seq(Slots) /\ Lists(second, SecondOf(s.packet, s.ms, w) \cup {i})
    <2>1. /\ s.wheel[w] \in Seq(Slots) /\ Lists(s.wheel[w], SecondOf(s.packet, s.ms, w))
          /\ i \notin SecondOf(s.packet, s.ms, w)
      BY <1>1, <1>2, <1>3, <1>5 DEF SecondOf
    <2> QED
      BY <1>5, <2>1, HeadedList DEF Lists
  <1> HIDE DEF packet, ms, chain, second
  <1>11. FreeOf(packet) = FreeOf(s.packet) \ {i}
    BY <1>3, <1>5, <1>8 DEF FreeOf
  <1>12. /\ ChainOf(packet, c) = ChainOf(s.packet, c) \cup {i}
         /\ \A b \in Buckets : b # c => ChainOf(packet, b) = ChainOf(s.packet, b)
    <2>1. seen_bucket_index[p] = c
      BY DEF c
    <2> QED
      BY <1>3, <1>5, <1>8, <2>1 DEF ChainOf
  <1>13. /\ SecondOf(packet, ms, w) = SecondOf(s.packet, s.ms, w) \cup {i}
         /\ \A v \in Wheel : v # w => SecondOf(packet, ms, v) = SecondOf(s.packet, s.ms, v)
    <2>1. WheelAt(now) = w
      BY DEF w
    <2> QED
      BY <1>3, <1>5, <1>8, <2>1 DEF SecondOf
  <1>14. /\ chains \in [Buckets -> Seq(Slots)]
         /\ \A b \in Buckets : Lists(chains[b], ChainOf(packet, b))
    BY <1>1, <1>2, <1>3, <1>9, <1>12
  <1>15. /\ seconds \in [Wheel -> Seq(Slots)]
         /\ \A v \in Wheel : Lists(seconds[v], SecondOf(packet, ms, v))
    BY <1>1, <1>2, <1>3, <1>10, <1>13
  <1> HIDE DEF chains, seconds
  <1>16. new \in DedupState /\ new.free = Tail(s.free) /\ new.hash = chains /\ new.wheel = seconds
         /\ new.packet = packet /\ new.ms = ms /\ new.last = s.last
    BY <1>2, <1>4, <1>6, <1>7, <1>14, <1>15 DEF DedupState
  <1>17. new \in Tidy
    BY <1>4, <1>11, <1>14, <1>15, <1>16 DEF Tidy
  <1> QED
    BY <1>4, <1>16, <1>17 DEF Enters, new, packet, ms

\* The table is tidy, and the clock counts.
DedupIInv == seen \in Tidy /\ dedup_time \in Nat

\* The clock is a number, also after it has wrapped.
LEMMA NowIsNatural == ASSUME dedup_time \in Nat PROVE dedup_now_ms \in Nat
  <1>1. \A x \in Nat : x % ClockModulus \in Nat
    BY DedupConstants
  <1> QED
    BY <1>1, DedupConstants DEF dedup_now_ms, Clock

\* All slots are free at the start.
LEMMA DedupInitially == DedupInit => DedupIInv
  <1> SUFFICES ASSUME DedupInit PROVE DedupIInv
    OBVIOUS
  <1>1. dedup_time \in Nat /\ seen = dedup_init_storage(dedup_now_ms)
    BY DEF DedupInit
  <1>2. PICK now \in Nat : now = dedup_now_ms
    BY <1>1, NowIsNatural
  <1> DEFINE first == IF now < SEEN_PACKET_TTL_MS THEN 0 ELSE ExpirationBucket(now)
             all == [i \in Slots |-> i]
             none == [i \in Slots |-> Nothing]
             zero == [i \in Slots |-> 0]
  <1>3. seen = [free |-> all, hash |-> [b \in Buckets |-> << >>], wheel |-> [w \in Wheel |-> << >>],
                packet |-> none, ms |-> zero, last |-> first]
    BY <1>1, <1>2 DEF dedup_init_storage
  <1>4. first \in Int
    BY DedupConstants
  <1>5. << >> \in Seq(Slots) /\ Lists(<< >>, {})
    BY DEF Lists, ToSet, OnceIn
  <1>6. all \in Seq(Slots) /\ Lists(all, Slots)
    <2>1. all \in Seq(Slots)
      BY DedupConstants DEF Slots
    <2> QED
      BY <2>1 DEF Lists, ToSet, OnceIn
  <1>7. /\ FreeOf(none) = Slots /\ \A b \in Buckets : ChainOf(none, b) = {}
        /\ \A w \in Wheel : SecondOf(none, zero, w) = {}
    BY DEF FreeOf, ChainOf, SecondOf
  <1>8. none \in [Slots -> Packets \cup {Nothing}] /\ zero \in [Slots -> Nat]
    OBVIOUS
  <1> HIDE DEF first, all, none, zero
  <1>9. seen \in DedupState
    BY <1>3, <1>4, <1>5, <1>6, <1>8 DEF DedupState
  <1>10. seen \in Tidy
    BY <1>3, <1>5, <1>6, <1>7, <1>9 DEF Tidy
  <1> QED
    BY <1>1, <1>10 DEF DedupIInv

\* Every step of the table keeps it tidy.
LEMMA DedupInductive == DedupIInv /\ [DedupNext]_dedupVars => DedupIInv'
  <1> SUFFICES ASSUME DedupIInv, [DedupNext]_dedupVars PROVE DedupIInv'
    OBVIOUS
  <1>1. seen \in Tidy /\ dedup_time \in Nat /\ MaxElapsed \in Nat
    BY DedupAssumption DEF DedupIInv
  <1>2. PICK now \in Nat : now = dedup_now_ms
    BY <1>1, NowIsNatural
  <1> DEFINE s == expire_current_and_prior_buckets(seen, now)
  <1>3. s \in Tidy
    BY <1>1, ExpiryTidy DEF Expires
  <1> HIDE DEF s
  <1>4. ASSUME NEW p \in Packets, remember_packet(p) PROVE DedupIInv'
    <2>1. /\ seen' = IF Finds(s, p) \/ s.free = << >> THEN s ELSE insert_entry(s, p, now)
          /\ dedup_time' = dedup_time
      BY <1>2, <1>4 DEF remember_packet, s
    <2>2. s.free # << >> => insert_entry(s, p, now) \in Tidy
      BY <1>3, InsertTidy DEF Enters
    <2>3. seen' \in Tidy
      BY <1>3, <2>1, <2>2
    <2> QED
      BY <1>1, <2>1, <2>3 DEF DedupIInv
  <1>5. ASSUME NEW p \in Packets, packet_seen(p) PROVE DedupIInv'
    BY <1>1, <1>2, <1>3, <1>5 DEF packet_seen, DedupIInv, s
  <1>6. CASE TimePasses
    <2>1. seen' = seen /\ dedup_time' \in Nat
      BY <1>1, <1>6 DEF TimePasses
    <2> QED
      BY <1>1, <2>1 DEF DedupIInv
  <1>7. CASE UNCHANGED dedupVars
    BY <1>1, <1>7 DEF dedupVars, DedupIInv
  <1> QED
    BY <1>4, <1>5, <1>6, <1>7 DEF DedupNext

\* A slot that is once in one list of a family, and in none of the others, has
\* one place there.
LEMMA OnePlace ==
    ASSUME NEW D, NEW lists, DOMAIN lists = D, NEW i, NEW d \in D, OnceIn(lists[d]),
           \A e \in D : i \in ToSet(lists[e]) <=> e = d
    PROVE  Cardinality(Places(lists, i)) = 1
  <1>1. PICK k \in DOMAIN lists[d] : lists[d][k] = i
    BY DEF ToSet
  <1>2. <<d, k>> \in Places(lists, i)
    BY <1>1 DEF Places
  <1>3. ASSUME NEW at \in Places(lists, i) PROVE at = <<d, k>>
    <2>1. PICK e \in D : at \in {e} \X DOMAIN lists[e]
      BY <1>3 DEF Places
    <2>2. at[1] = e /\ at[2] \in DOMAIN lists[e] /\ lists[e][at[2]] = i /\ at = <<at[1], at[2]>>
      BY <1>3, <2>1 DEF Places
    <2>3. e = d
      BY <2>2 DEF ToSet
    <2> QED
      BY <1>1, <2>2, <2>3 DEF OnceIn
  <1>4. Places(lists, i) = {<<d, k>>}
    BY <1>2, <1>3
  <1> QED
    BY <1>4, FS_Singleton

\* A slot in no list of a family has no place there.
LEMMA NoPlace ==
    ASSUME NEW D, NEW lists, DOMAIN lists = D, NEW i, \A e \in D : i \notin ToSet(lists[e])
    PROVE  Places(lists, i) = {}
  <1> SUFFICES ASSUME NEW at \in Places(lists, i) PROVE FALSE
    OBVIOUS
  <1>1. PICK e \in D : at \in {e} \X DOMAIN lists[e]
    BY DEF Places
  <1>2. at[1] = e /\ at[2] \in DOMAIN lists[e] /\ lists[e][at[2]] = i
    BY <1>1 DEF Places
  <1> QED
    BY <1>2 DEF ToSet

\* In a tidy table every slot has its lists.
LEMMA ListsFromInvariant == DedupIInv => EverySlotHasItsLists
  <1> SUFFICES ASSUME DedupIInv, NEW i \in Slots
               PROVE  IF seen.packet[i] = Nothing
                      THEN /\ Cardinality({n \in DOMAIN seen.free : seen.free[n] = i}) = 1
                           /\ Places(seen.hash, i) = {} /\ Places(seen.wheel, i) = {}
                      ELSE /\ i \notin ToSet(seen.free)
                           /\ Cardinality(Places(seen.hash, i)) = 1
                           /\ i \in ToSet(seen.hash[seen_bucket_index[seen.packet[i]]])
                           /\ Cardinality(Places(seen.wheel, i)) = 1
                           /\ i \in ToSet(seen.wheel[WheelAt(seen.ms[i])])
    BY DEF EverySlotHasItsLists, WheelAt
  <1>1. /\ seen \in DedupState /\ Lists(seen.free, FreeOf(seen.packet))
        /\ \A b \in Buckets : Lists(seen.hash[b], ChainOf(seen.packet, b))
        /\ \A w \in Wheel : Lists(seen.wheel[w], SecondOf(seen.packet, seen.ms, w))
    BY DEF DedupIInv, Tidy
  <1>2. /\ DOMAIN seen.hash = Buckets /\ DOMAIN seen.wheel = Wheel
        /\ seen.packet[i] \in Packets \cup {Nothing} /\ seen.ms[i] \in Nat
    BY <1>1 DEF DedupState
  <1>3. CASE seen.packet[i] = Nothing
    <2>1. \A b \in Buckets : i \notin ToSet(seen.hash[b])
      BY <1>1, <1>3 DEF Lists, ChainOf
    <2>2. \A w \in Wheel : i \notin ToSet(seen.wheel[w])
      BY <1>1, <1>3 DEF Lists, SecondOf
    <2>3. Places(seen.hash, i) = {} /\ Places(seen.wheel, i) = {}
      BY <1>2, <2>1, <2>2, NoPlace
    <2>4. Cardinality({n \in DOMAIN seen.free : seen.free[n] = i}) = 1
      <3>1. OnceIn(seen.free) /\ i \in ToSet(seen.free)
        BY <1>1, <1>3 DEF Lists, FreeOf
      <3>2. PICK k \in DOMAIN seen.free : seen.free[k] = i
        BY <3>1 DEF ToSet
      <3>3. {n \in DOMAIN seen.free : seen.free[n] = i} = {k}
        BY <3>1, <3>2 DEF OnceIn
      <3> QED
        BY <3>3, FS_Singleton
    <2> QED
      BY <1>3, <2>3, <2>4
  <1>4. CASE seen.packet[i] # Nothing
    <2>1. PICK c \in Buckets : c = seen_bucket_index[seen.packet[i]]
      BY <1>2, <1>4, DedupConstants
    <2>2. PICK w \in Wheel : w = WheelAt(seen.ms[i])
      BY <1>2, DedupConstants
    <2>3. OnceIn(seen.hash[c]) /\ \A b \in Buckets : i \in ToSet(seen.hash[b]) <=> b = c
      BY <1>1, <1>4, <2>1 DEF Lists, ChainOf
    <2>4. OnceIn(seen.wheel[w]) /\ \A v \in Wheel : i \in ToSet(seen.wheel[v]) <=> v = w
      BY <1>1, <1>4, <2>2 DEF Lists, SecondOf
    <2>5. Cardinality(Places(seen.hash, i)) = 1 /\ Cardinality(Places(seen.wheel, i)) = 1
      BY <1>2, <2>3, <2>4, OnePlace
    <2>6. i \notin ToSet(seen.free)
      BY <1>1, <1>4 DEF Lists, FreeOf
    <2> QED
      BY <1>4, <2>1, <2>2, <2>3, <2>4, <2>5, <2>6
  <1> QED
    BY <1>3, <1>4

\* For every number of slots, buckets and seconds: a slot of the table is free or
\* in its chain and in its second, once in each, through every expiry.
THEOREM SlotsAreInTheirLists == DedupSpec => []EverySlotHasItsLists
  BY DedupInitially, DedupInductive, ListsFromInvariant, PTL DEF DedupSpec

-----------------------------------------------------------------------------
(* The minute of the table of packets seen                                 *)

\* The second in which an entry was made; the wheel has one list for those that
\* are a wheel's turn apart.
Second(ms) == ms \div DEDUP_EXPIRY_BUCKET_MS
Filled(s) == {i \in Slots : s.packet[i] # Nothing}

\* While the clock has not wrapped: entries are of the past, of no second that was
\* expired, and no second is expired before its time.
InTime(s, now) ==
    /\ s.last \in Nat /\ (s.last = 0 \/ s.last <= ExpirationBucket(now) + 1)
    /\ \A i \in Filled(s) : s.ms[i] <= now /\ Second(s.ms[i]) >= s.last

\* A minute is some time.
LEMMA MinuteIsPositive == 0 < SEEN_PACKET_TTL_MS
  <1>1. PICK b \in Nat \ {0}, n \in Nat \ {0} :
            b = DEDUP_EXPIRY_BUCKET_MS /\ n = DEDUP_EXPIRY_BUCKET_COUNT
    BY DedupConstants
  <1>2. b * 1 <= b * n
    BY TimesMonotone
  <1> QED
    BY <1>1, <1>2 DEF SEEN_PACKET_TTL_MS

\* The bucket to expire, as a number.
LEMMA BucketOfNow ==
    ASSUME NEW now \in 0 .. ClockModulus - 1
    PROVE  /\ ExpirationBucket(now) = Second(now) - DEDUP_EXPIRY_BUCKET_COUNT
           /\ ExpirationBucket(now) \in Int /\ Second(now) \in Nat
           /\ now >= SEEN_PACKET_TTL_MS =>
                  ExpirationBucket(now) >= 0 /\ 2 * ExpirationBucket(now) < ClockModulus
  <1>1. PICK m \in Nat \ {0, 1}, n \in Nat \ {0} :
            m = DEDUP_EXPIRY_BUCKET_MS /\ n = DEDUP_EXPIRY_BUCKET_COUNT
    BY DedupAssumption
  <1>2. PICK ttl \in Int : ttl = SEEN_PACKET_TTL_MS /\ ttl = m * n
    BY <1>1 DEF SEEN_PACKET_TTL_MS
  <1>3. ClockModulus \in Nat /\ ttl >= 0 /\ now \in Nat
    <2>1. m * 0 <= m * n
      BY TimesMonotone
    <2>2. m * 0 = 0
      OBVIOUS
    <2> QED
      BY <1>2, <2>1, <2>2, DedupConstants
  <1>4. (now - ttl) \div m = (now \div m) - n
    <2>1. PICK c \in Int : c = -n
      OBVIOUS
    <2>2. m * c = -ttl
      BY <1>2, <2>1
    <2>3. (now + m * c) \div m = (now \div m) + c
      BY <1>3, WholeTurns
    <2>4. now + m * c = now - ttl
      BY <1>3, <2>2
    <2> QED
      BY <2>1, <2>3, <2>4
  <1>5. 0 \div m = 0
    OBVIOUS
  <1>6. now \div m >= 0 /\ now \div m \in Int
    BY <1>3, <1>5, DivMod, DivMonotone
  <1>7. ASSUME now >= ttl
        PROVE  (now - ttl) \div m >= 0 /\ 2 * ((now - ttl) \div m) < ClockModulus
    <2>1. PICK z \in Nat : z = now - ttl
      BY <1>3, <1>7
    <2>2. PICK q \in Int, r \in 0 .. m - 1 : q = z \div m /\ z = m * q + r
      BY DivMod
    <2>3. q >= 0
      BY <1>5, <2>1, <2>2, DivMonotone
    <2>4. q * 2 <= q * m
      <3>1. CASE q = 0
        BY <3>1
      <3>2. CASE q > 0
        BY <2>3, <3>2, TimesMonotone
      <3> QED
        BY <2>3, <3>1, <3>2
    <2>5. PICK u \in Int : u = m * q /\ u = q * m
      OBVIOUS
    <2>6. 2 * q <= u
      BY <2>4, <2>5
    <2>7. u <= now /\ now < ClockModulus
      BY <1>3, <2>1, <2>2, <2>5
    <2>8. 2 * q < ClockModulus
      BY <1>3, <2>6, <2>7
    <2>9. (now - ttl) \div m = q
      BY <2>1, <2>2
    <2> QED
      BY <2>3, <2>8, <2>9
  <1> QED
    BY <1>1, <1>2, <1>4, <1>6, <1>7 DEF ExpirationBucket, Second

\* The age of an entry of the past, and its second.
LEMMA AgeAndSecond ==
    ASSUME NEW now \in 0 .. ClockModulus - 1, NEW ms \in Nat, ms <= now
    PROVE  /\ Minus(now, ms) = now - ms /\ Second(ms) \in Nat
           /\ now - ms >= SEEN_PACKET_TTL_MS => Second(ms) <= ExpirationBucket(now)
           /\ now - ms < SEEN_PACKET_TTL_MS => Second(ms) >= ExpirationBucket(now)
  <1>1. PICK m \in Nat \ {0} : m = DEDUP_EXPIRY_BUCKET_MS
    BY DedupConstants
  <1>2. PICK ttl \in Int : ttl = SEEN_PACKET_TTL_MS
    BY DedupConstants
  <1>3. ClockModulus \in Nat \ {0} /\ now \in Nat /\ now < ClockModulus
    BY DedupConstants
  <1>4. Minus(now, ms) = now - ms
    <2>1. PICK x \in Int : x = now - ms
      BY <1>3
    <2>2. 0 <= x /\ x < ClockModulus
      BY <1>3, <2>1
    <2> QED
      BY <1>3, <2>1, <2>2, ModSmall DEF Minus
  <1>5. PICK x \in Int : x = now - ttl
    BY <1>3
  <1>6. ExpirationBucket(now) = x \div m
    BY <1>1, <1>2, <1>5 DEF ExpirationBucket
  <1>7. ms <= x => ms \div m <= x \div m
    BY DivMonotone
  <1>8. x <= ms => x \div m <= ms \div m
    BY DivMonotone
  <1>9. ms \div m \in Nat
    <2>1. 0 \div m = 0
      OBVIOUS
    <2> QED
      BY <2>1, DivMod, DivMonotone
  <1> QED
    BY <1>1, <1>2, <1>3, <1>4, <1>5, <1>6, <1>7, <1>8, <1>9 DEF Second

\* The loop ends once the bucket to expire has been done.
LEMMA EndsAfterTarget ==
    ASSUME NEW now \in 0 .. ClockModulus - 1, now >= SEEN_PACKET_TTL_MS,
           NEW last \in Nat, last <= ExpirationBucket(now) + 1
    PROVE  Negative(Minus(ExpirationBucket(now), last)) <=> last = ExpirationBucket(now) + 1
  <1>1. PICK t \in Nat : t = ExpirationBucket(now) /\ 2 * t < ClockModulus
    BY BucketOfNow
  <1>2. PICK m \in Nat \ {0} : m = ClockModulus /\ m >= 2
    <2>1. SEEN_PACKET_TTL_MS >= 1
      BY MinuteIsPositive, DedupConstants
    <2> QED
      BY <2>1, DedupAssumption, DedupConstants
  <1>3. PICK x \in Int : x = t - last
    OBVIOUS
  <1>4. CASE last = t + 1
    <2>1. x = -1
      BY <1>3, <1>4
    <2>2. x % m = x + m
      BY <1>2, <2>1, ModBelow
    <2> QED
      BY <1>1, <1>2, <1>3, <1>4, <2>1, <2>2 DEF Negative, Minus
  <1>5. CASE last <= t
    <2>1. 0 <= x /\ x <= t /\ x < m
      BY <1>1, <1>2, <1>3, <1>5
    <2>2. x % m = x
      BY <1>2, <2>1, ModSmall
    <2> QED
      BY <1>1, <1>2, <1>3, <1>5, <2>1, <2>2 DEF Negative, Minus
  <1> QED
    BY <1>1, <1>4, <1>5

\* The entries that are due to go.
OldIn(x, now) == {i \in Filled(x) : IsOld(x, now, i)}

\* After k turns: each entry that is still due to go has its bucket ahead, the last
\* bucket has been done if it is counted as done, and one more was swept in each turn.
Sweeps(k, x, s, now) ==
    LET T == ExpirationBucket(now)
        N == DEDUP_EXPIRY_BUCKET_COUNT
    IN  /\ x \in Tidy /\ x.ms = s.ms /\ Filled(x) \subseteq Filled(s)
        /\ x.last \in Nat /\ T - N + 1 <= x.last /\ x.last <= T + 1
        /\ \A i \in OldIn(x, now) : \E b \in Int : x.last <= b /\ b <= T /\ b % N = WheelAt(x.ms[i])
        /\ x.last = T + 1 => \A i \in Filled(x) : Second(x.ms[i]) # T
        /\ OldIn(x, now) = {} \/ x.last >= T - N + 1 + k

\* The loop starts with every bucket ahead that an old entry can be in.
LEMMA SweepStarts ==
    ASSUME NEW now \in 0 .. ClockModulus - 1, NEW s \in Tidy, InTime(s, now), ~Stops(s, now)
    PROVE  Sweeps(0, From(s, now), s, now)
  <1>1. PICK t \in Nat, n \in Nat \ {0} : t = ExpirationBucket(now) /\ n = DEDUP_EXPIRY_BUCKET_COUNT
    BY BucketOfNow, DedupConstants DEF Stops
  <1>2. now \in Nat
    BY DedupConstants
  <1>3. s \in DedupState /\ s.ms \in [Slots -> Nat]
    BY DEF Tidy, DedupState
  <1>4. s.last \in Nat /\ s.last <= t
    <2>1. PICK last \in Nat : last = s.last /\ last <= t + 1
      BY <1>1 DEF InTime
    <2>2. last # t + 1
      <3>1. now >= SEEN_PACKET_TTL_MS /\ ~Negative(Minus(ExpirationBucket(now), last))
        BY <1>2, <2>1, DedupConstants DEF Stops
      <3> QED
        BY <1>1, <2>1, <3>1, EndsAfterTarget
    <2> QED
      BY <2>1, <2>2
  <1>5. PICK x : x = From(s, now)
    OBVIOUS
  <1>6. /\ x \in Tidy /\ x.packet = s.packet /\ x.ms = s.ms
        /\ x.last = IF t - s.last >= n THEN t - n + 1 ELSE s.last
    BY <1>1, <1>2, <1>5, FromTidy
  <1>7. x.last \in Nat /\ t - n + 1 <= x.last /\ x.last <= t
    BY <1>4, <1>6
  <1>8. Filled(x) = Filled(s)
    BY <1>6 DEF Filled
  <1>9. ASSUME NEW i \in OldIn(x, now)
        PROVE  \E b \in Int : x.last <= b /\ b <= t /\ b % n = WheelAt(x.ms[i])
    <2>1. i \in Slots /\ i \in Filled(s) /\ IsOld(s, now, i)
      BY <1>6, <1>8, <1>9 DEF OldIn, Filled, IsOld
    <2>2. PICK ms \in Nat : ms = s.ms[i] /\ ms = x.ms[i] /\ ms <= now /\ Second(ms) >= s.last
      BY <1>3, <1>6, <2>1 DEF InTime
    <2>3. PICK e \in Nat : e = Second(ms) /\ e <= t /\ e >= s.last
      <3>1. now - ms >= SEEN_PACKET_TTL_MS
        BY <2>1, <2>2, AgeAndSecond DEF IsOld
      <3> QED
        BY <1>1, <2>2, <3>1, AgeAndSecond
    <2>4. e % n = WheelAt(ms)
      BY <1>1, <2>3 DEF WheelAt, Second
    <2>5. CASE t - s.last >= n
      <3>1. PICK y \in Int : y = t - n + 1
        OBVIOUS
      <3>2. PICK z \in Int : y <= z /\ z <= y + n - 1 /\ z % n = e % n
        <4>1. e \in Int
          OBVIOUS
        <4> QED
          BY <4>1, EveryRemainder, Zenon
      <3>3. x.last = y /\ z <= t
        BY <1>6, <2>5, <3>1, <3>2
      <3> QED
        BY <2>2, <2>4, <3>2, <3>3
    <2>6. CASE ~(t - s.last >= n)
      <3>1. x.last = s.last
        BY <1>6, <2>6
      <3> QED
        BY <2>2, <2>3, <2>4, <3>1
    <2> QED
      BY <2>5, <2>6
  <1>10. x.last # t + 1 /\ x.last >= t - n + 1 + 0
    BY <1>7
  <1> QED
    BY <1>1, <1>5, <1>6, <1>7, <1>8, <1>9, <1>10 DEF Sweeps

\* A turn of the loop.
LEMMA SweepTurns ==
    ASSUME NEW now \in 0 .. ClockModulus - 1, now >= SEEN_PACKET_TTL_MS,
           NEW s \in Tidy, InTime(s, now), NEW k \in Nat, k < DEDUP_EXPIRY_BUCKET_COUNT,
           NEW x, Sweeps(k, x, s, now)
    PROVE  Sweeps(k + 1, Turn(x, now), s, now)
  <1>1. PICK t \in Nat, n \in Nat \ {0} : t = ExpirationBucket(now) /\ n = DEDUP_EXPIRY_BUCKET_COUNT
    BY BucketOfNow, DedupConstants
  <1>2. now \in Nat
    BY DedupConstants
  <1>3. /\ x \in Tidy /\ x.ms = s.ms /\ Filled(x) \subseteq Filled(s)
        /\ x.last \in Nat /\ t - n + 1 <= x.last /\ x.last <= t + 1
        /\ \A i \in OldIn(x, now) : \E b \in Int : x.last <= b /\ b <= t /\ b % n = WheelAt(x.ms[i])
        /\ x.last = t + 1 => \A i \in Filled(x) : Second(x.ms[i]) # t
        /\ OldIn(x, now) = {} \/ x.last >= t - n + 1 + k
    BY <1>1 DEF Sweeps
  <1>4. PICK last \in Nat : last = x.last /\ t - n + 1 <= last /\ last <= t + 1
    BY <1>3
  <1>5. Negative(Minus(ExpirationBucket(now), last)) <=> last = t + 1
    BY <1>1, <1>4, EndsAfterTarget
  <1>6. CASE last = t + 1
    <2>1. Turn(x, now) = x
      BY <1>4, <1>5, <1>6 DEF Turn
    <2>2. last >= t - n + 1 + (k + 1)
      BY <1>1, <1>6
    <2> QED
      BY <1>1, <1>3, <1>4, <2>1, <2>2 DEF Sweeps
  <1>7. CASE last # t + 1
    <2>1. last <= t
      BY <1>4, <1>7
    <2>2. PICK new : new = ExpireBucket(x, now) /\ new = Turn(x, now)
      BY <1>4, <1>5, <1>7 DEF Turn
    <2> DEFINE Due(i) == x.ms[i] \div DEDUP_EXPIRY_BUCKET_MS <= ExpirationBucket(now)
               stays == \E i \in InList(x, x.last) : ~IsOld(x, now, i) /\ Due(i)
    <2>3. /\ new \in Tidy /\ new.ms = x.ms
          /\ \A i \in Slots : new.packet[i] = IF i \in InList(x, x.last) /\ IsOld(x, now, i)
                                              THEN Nothing ELSE x.packet[i]
          /\ new.last = IF stays THEN last ELSE last + 1
      <3>1. x \in Tidy
        BY <1>3
      <3>2. /\ ExpireBucket(x, now) \in Tidy /\ ExpireBucket(x, now).ms = x.ms
            /\ \A i \in Slots : ExpireBucket(x, now).packet[i] =
                                   IF i \in InList(x, x.last) /\ IsOld(x, now, i)
                                   THEN Nothing ELSE x.packet[i]
        BY <1>2, <3>1, ExpireBucketTidy
      <3>3. ExpireBucket(x, now).last = IF stays THEN x.last ELSE x.last + 1
        BY <1>2, <3>1, ExpireBucketTidy
      <3> HIDE DEF stays
      <3> QED
        BY <1>4, <2>2, <3>2, <3>3
    <2>4. \A i \in Filled(new) : i \in Filled(x) /\ ~(i \in InList(x, last) /\ IsOld(x, now, i))
      BY <1>4, <2>3 DEF Filled
    <2>5. \A i \in Filled(x) : i \in InList(x, last) <=> WheelAt(x.ms[i]) = last % n
      BY <1>1 DEF Filled, InList
    <2>6. \A i \in OldIn(new, now) : /\ i \in OldIn(x, now) /\ i \in Filled(new)
                                     /\ WheelAt(x.ms[i]) # last % n
      BY <2>3, <2>4, <2>5 DEF OldIn, IsOld
    <2>7. \A i \in Filled(x) : ~IsOld(x, now, i) => Second(x.ms[i]) \in Nat /\ Second(x.ms[i]) >= t
      <3> SUFFICES ASSUME NEW i \in Filled(x), ~IsOld(x, now, i)
                   PROVE  Second(x.ms[i]) \in Nat /\ Second(x.ms[i]) >= t
        OBVIOUS
      <3>1. PICK ms \in Nat : ms = x.ms[i] /\ ms <= now
        <4>1. s.ms \in [Slots -> Nat] /\ i \in Slots
          BY DEF Tidy, DedupState, Filled
        <4> QED
          BY <1>3, <4>1 DEF InTime
      <3>2. Minus(now, ms) = now - ms
        BY <3>1, AgeAndSecond
      <3>3. now - ms < SEEN_PACKET_TTL_MS
        BY <1>2, <3>1, <3>2, DedupConstants DEF IsOld
      <3> QED
        BY <1>1, <3>1, <3>3, AgeAndSecond
    <2>8. \A i \in InList(x, last) : i \in Filled(x)
      BY DEF InList, Filled
    <2>9. \A i \in Slots : WheelAt(x.ms[i]) = Second(x.ms[i]) % n
      BY <1>1 DEF WheelAt, Second
    <2> HIDE DEF stays
    <2>10. CASE stays
      <3>1. PICK i \in InList(x, last) : ~IsOld(x, now, i) /\ Second(x.ms[i]) <= t
        BY <1>1, <1>4, <2>10 DEF stays, Second
      <3>2. Second(x.ms[i]) = t
        BY <2>7, <2>8, <3>1
      <3>3. t % n = last % n
        <4>1. i \in Slots
          BY <3>1 DEF InList
        <4> QED
          BY <1>1, <2>5, <2>8, <2>9, <3>1, <3>2, <4>1
      <3>4. last = t
        <4>1. t < last + n /\ last \in Int /\ t \in Int /\ last % n = t % n
          BY <1>4, <3>3
        <4> QED
          BY <2>1, <4>1, ModEqual, Zenon
      <3>5. OldIn(new, now) = {}
        <4> SUFFICES ASSUME NEW j \in OldIn(new, now) PROVE FALSE
          OBVIOUS
        <4>1. j \in OldIn(x, now) /\ WheelAt(x.ms[j]) # last % n
          BY <2>6
        <4>2. PICK b \in Int : last <= b /\ b <= t /\ b % n = WheelAt(x.ms[j])
          BY <1>3, <1>4, <4>1
        <4> QED
          BY <3>4, <4>1, <4>2
      <3>6. new.last = last /\ last # t + 1
        BY <1>7, <2>3, <2>10
      <3>7. Filled(new) \subseteq Filled(s) /\ new.ms = s.ms
        BY <1>3, <2>3, <2>4
      <3> QED
        BY <1>1, <1>4, <2>2, <2>3, <3>5, <3>6, <3>7 DEF Sweeps
    <2>11. CASE ~stays
      <3>1. new.last = last + 1
        BY <2>3, <2>11
      <3>2. ASSUME NEW j \in OldIn(new, now)
            PROVE  \E b \in Int : new.last <= b /\ b <= t /\ b % n = WheelAt(new.ms[j])
        <4>1. j \in OldIn(x, now) /\ WheelAt(x.ms[j]) # last % n
          BY <2>6
        <4>2. PICK b \in Int : last <= b /\ b <= t /\ b % n = WheelAt(x.ms[j])
          BY <1>3, <1>4, <4>1
        <4>3. b # last
          BY <4>1, <4>2
        <4>4. last + 1 <= b
          BY <4>2, <4>3
        <4> QED
          BY <2>3, <3>1, <4>2, <4>4
      <3>3. ASSUME new.last = t + 1, NEW i \in Filled(new) PROVE Second(new.ms[i]) # t
        <4> SUFFICES ASSUME Second(new.ms[i]) = t PROVE FALSE
          OBVIOUS
        <4>1. last = t
          BY <3>1, <3>3
        <4>2. i \in Filled(x) /\ i \in Slots /\ Second(x.ms[i]) = t
          BY <2>3, <2>4, <3>3 DEF Filled
        <4>3. i \in InList(x, last)
          BY <2>5, <2>9, <4>1, <4>2
        <4>4. ~IsOld(x, now, i)
          BY <2>4, <3>3, <4>3
        <4>5. Due(i)
          BY <1>1, <4>2 DEF Second
        <4> QED
          BY <1>4, <2>11, <4>3, <4>4, <4>5 DEF stays
      <3>4. OldIn(new, now) = {} \/ new.last >= t - n + 1 + (k + 1)
        <4>1. CASE OldIn(x, now) = {}
          BY <2>6, <4>1
        <4>2. CASE last >= t - n + 1 + k
          BY <3>1, <4>2
        <4> QED
          BY <1>3, <1>4, <4>1, <4>2
      <3>5. new.last \in Nat /\ t - n + 1 <= new.last /\ new.last <= t + 1
        BY <1>4, <2>1, <3>1
      <3>6. Filled(new) \subseteq Filled(s) /\ new.ms = s.ms
        BY <1>3, <2>3, <2>4
      <3> QED
        BY <1>1, <2>2, <2>3, <3>2, <3>3, <3>4, <3>5, <3>6 DEF Sweeps
    <2> QED
      BY <2>10, <2>11
  <1> QED
    BY <1>6, <1>7

\* Before the clock wraps an expiry leaves exactly the entries of the last minute.
LEMMA ExpiryIsExact ==
    ASSUME NEW now \in 0 .. ClockModulus - 1, NEW s \in Tidy, InTime(s, now)
    PROVE  LET e == expire_current_and_prior_buckets(s, now)
           IN  InTime(e, now) /\ \A i \in Filled(e) : now - e.ms[i] < SEEN_PACKET_TTL_MS
  <1>1. PICK n \in Nat \ {0} : n = DEDUP_EXPIRY_BUCKET_COUNT
    BY DedupConstants
  <1>2. PICK t \in Int : t = ExpirationBucket(now)
    BY BucketOfNow
  <1>3. now \in Nat /\ SEEN_PACKET_TTL_MS \in Int
    BY DedupConstants
  <1>4. PICK f : /\ IsExpiry(f, s, now)
                 /\ expire_current_and_prior_buckets(s, now) = IF Stops(s, now) THEN s ELSE f[n]
    BY <1>1, <1>3, ExpiryRuns
  <1>5. s.ms \in [Slots -> Nat] /\ s.last \in Nat
    BY DEF Tidy, DedupState, InTime
  <1>6. \A i \in Filled(s) : i \in Slots /\ s.ms[i] \in Nat /\ s.ms[i] <= now /\ Second(s.ms[i]) >= s.last
    BY <1>5 DEF InTime, Filled
  <1>7. CASE Stops(s, now)
    <2>1. ASSUME NEW i \in Filled(s) PROVE now - s.ms[i] < SEEN_PACKET_TTL_MS
      <3>1. PICK ms \in Nat : ms = s.ms[i] /\ ms <= now /\ Second(ms) >= s.last
        BY <1>6
      <3>2. CASE now < SEEN_PACKET_TTL_MS
        BY <1>3, <3>1, <3>2
      <3>3. CASE now >= SEEN_PACKET_TTL_MS
        <4>1. PICK last \in Nat : last = s.last /\ last <= t + 1
          <5>1. t >= 0
            BY <1>2, <3>3, BucketOfNow
          <5> QED
            BY <1>2, <1>5, <5>1 DEF InTime
        <4>2. Negative(Minus(ExpirationBucket(now), last))
          BY <1>3, <1>7, <3>3, <4>1 DEF Stops
        <4>3. last = t + 1
          BY <1>2, <3>3, <4>1, <4>2, EndsAfterTarget
        <4>4. /\ now - ms >= SEEN_PACKET_TTL_MS => Second(ms) <= t
              /\ Second(ms) \in Nat
          BY <1>2, <3>1, AgeAndSecond
        <4> QED
          BY <1>3, <3>1, <4>1, <4>3, <4>4
      <3> QED
        BY <1>3, <3>2, <3>3
    <2> QED
      BY <1>4, <1>7, <2>1
  <1>8. CASE ~Stops(s, now)
    <2>1. now >= SEEN_PACKET_TTL_MS
      BY <1>3, <1>8 DEF Stops
    <2> DEFINE g == [k \in 0 .. n |-> <<k, f[k]>>]
               S == {y \in (0 .. n) \X Tidy : Sweeps(y[1], y[2], s, now)}
    <2>2. f[0] = From(s, now) /\ \A k \in 1 .. n : f[k] = Turn(f[k - 1], now)
      BY <1>1, <1>4 DEF IsExpiry
    <2>3. \A k, x : Sweeps(k, x, s, now) => x \in Tidy
      BY DEF Sweeps
    <2>4. g[0] \in S
      <3>1. Sweeps(0, f[0], s, now)
        BY <1>8, <2>2, SweepStarts
      <3>2. f[0] \in Tidy
        BY <2>3, <3>1
      <3> QED
        BY <3>1, <3>2
    <2>5. ASSUME NEW k \in 1 .. n, g[k - 1] \in S PROVE g[k] \in S
      <3>1. PICK j \in Nat : j = k - 1 /\ j \in 0 .. n /\ j + 1 = k /\ j < n
        OBVIOUS
      <3>2. Sweeps(j, f[j], s, now)
        BY <2>5, <3>1
      <3>3. Sweeps(j + 1, Turn(f[j], now), s, now)
        BY <1>1, <2>1, <3>1, <3>2, SweepTurns
      <3>4. Sweeps(k, f[k], s, now)
        BY <2>2, <3>1, <3>3
      <3>5. f[k] \in Tidy
        BY <2>3, <3>4
      <3> QED
        BY <3>4, <3>5
    <2>6. g[n] \in S
      <3> HIDE DEF g, S
      <3> QED
        BY <2>4, <2>5, LoopKeeps
    <2>7. Sweeps(n, f[n], s, now)
      BY <2>6
    <2>8. PICK e : e = f[n]
      OBVIOUS
    <2>9. /\ e.ms = s.ms /\ Filled(e) \subseteq Filled(s)
          /\ e.last \in Nat /\ e.last <= t + 1
          /\ \A i \in OldIn(e, now) : \E b \in Int : e.last <= b /\ b <= t /\ b % n = WheelAt(e.ms[i])
          /\ e.last = t + 1 => \A i \in Filled(e) : Second(e.ms[i]) # t
          /\ OldIn(e, now) = {} \/ e.last >= t - n + 1 + n
      BY <1>1, <1>2, <2>7, <2>8 DEF Sweeps
    <2>10. OldIn(e, now) = {}
      <3> SUFFICES ASSUME NEW i \in OldIn(e, now) PROVE FALSE
        OBVIOUS
      <3>1. e.last \in Nat /\ e.last >= t + 1
        BY <2>9
      <3>2. PICK b \in Int : e.last <= b /\ b <= t
        BY <2>9
      <3> QED
        BY <3>1, <3>2
    <2>11. ASSUME NEW i \in Filled(e)
           PROVE  /\ e.ms[i] <= now /\ Second(e.ms[i]) >= e.last
                  /\ now - e.ms[i] < SEEN_PACKET_TTL_MS
      <3>1. PICK ms \in Nat : ms = e.ms[i] /\ ms <= now
        BY <1>6, <2>9
      <3>2. ~IsOld(e, now, i)
        BY <2>10 DEF OldIn
      <3>3. now - ms < SEEN_PACKET_TTL_MS
        <4>1. Minus(now, ms) = now - ms
          BY <3>1, AgeAndSecond
        <4> QED
          BY <1>3, <3>1, <3>2, <4>1 DEF IsOld
      <3>4. Second(ms) \in Nat /\ Second(ms) >= t
        BY <1>2, <3>1, <3>3, AgeAndSecond
      <3>5. e.last = t + 1 => Second(ms) # t
        BY <2>9, <3>1
      <3>6. Second(ms) >= e.last
        BY <2>9, <3>4, <3>5
      <3> QED
        BY <3>1, <3>3, <3>6
    <2>12. InTime(e, now)
      BY <1>2, <2>9, <2>11 DEF InTime
    <2> QED
      BY <1>4, <1>8, <2>8, <2>11, <2>12
  <1> QED
    BY <1>7, <1>8

\* What the table and the history of it say of each other.
Linked(s, known, time) ==
    /\ \A i, j \in Filled(s) : s.packet[i] = s.packet[j] => i = j
    /\ \A i \in Filled(s) : /\ known[s.packet[i]] \in Nat /\ known[s.packet[i]] <= time
                            /\ s.ms[i] = Clock(known[s.packet[i]])
    /\ \A p \in Packets : known[p] # Nothing => p \in InTable(s)
    /\ StartMs + time < ClockModulus => InTime(s, Clock(time))

\* The clock reads less than its modulus, and the time itself before it wraps.
LEMMA ClockReads ==
    ASSUME NEW time \in Nat
    PROVE  /\ Clock(time) \in 0 .. ClockModulus - 1 /\ Clock(time) \in Nat
           /\ StartMs + time < ClockModulus => Clock(time) = StartMs + time
  <1>1. PICK m \in Nat \ {0} : m = ClockModulus
    BY DedupConstants
  <1>2. PICK x \in Nat : x = StartMs + time
    BY DedupConstants
  <1>3. x % m \in 0 .. m - 1
    OBVIOUS
  <1>4. x < m => x % m = x
    OBVIOUS
  <1> QED
    BY <1>1, <1>2, <1>3, <1>4 DEF Clock

\* Packets in the table, by slot and by chain.
LEMMA FoundInTable ==
    ASSUME NEW s \in Tidy, NEW p \in Packets
    PROVE  /\ Finds(s, p) <=> p \in InTable(s)
           /\ p \in InTable(s) <=> \E i \in Filled(s) : s.packet[i] = p
  <1>1. p # Nothing /\ seen_bucket_index[p] \in Buckets
    BY DedupConstants
  <1>2. ToSet(s.hash[seen_bucket_index[p]]) = ChainOf(s.packet, seen_bucket_index[p])
    BY <1>1 DEF Tidy, Lists
  <1>3. p \in InTable(s) <=> \E i \in Filled(s) : s.packet[i] = p
    BY <1>1 DEF InTable, Filled
  <1>4. Finds(s, p) <=> \E i \in Filled(s) : s.packet[i] = p
    BY <1>1, <1>2 DEF Finds, ChainOf, Filled
  <1> QED
    BY <1>3, <1>4

\* The age of an entry less than a minute old, on either side of the wrap.
LEMMA AgeOfReading ==
    ASSUME NEW time \in Nat, NEW r \in Nat, r <= time, time - r < SEEN_PACKET_TTL_MS
    PROVE  Minus(Clock(time), Clock(r)) = time - r
  <1>1. PICK m \in Nat \ {0}, c \in Int : m = ClockModulus /\ c = StartMs
    BY DedupConstants
  <1>2. PICK ttl \in Int : ttl = SEEN_PACKET_TTL_MS /\ m > 2 * ttl
    BY <1>1, DedupConstants, DedupAssumption
  <1>3. time < r + m /\ time \in Int /\ r \in Int
    BY <1>1, <1>2
  <1>4. (((c + time) % m) - ((c + r) % m)) % m = time - r
    BY <1>3, DifferenceOfReadings
  <1> QED
    BY <1>1, <1>4 DEF Minus, Clock

\* An expiry keeps what is younger than a minute, on either side of the wrap, and
\* before it nothing else.
LEMMA ExpiryLinks ==
    ASSUME NEW time \in Nat, NEW s \in Tidy, NEW known, Linked(s, known, time),
           NEW e, e = expire_current_and_prior_buckets(s, Clock(time)),
           NEW later, \A q \in Packets : later[q] = IF q \in InTable(e) THEN known[q] ELSE Nothing
    PROVE  /\ Linked(e, later, time)
           /\ \A p \in Packets : known[p] # Nothing /\ time - known[p] < SEEN_PACKET_TTL_MS
                                     => p \in InTable(e)
           /\ StartMs + time < ClockModulus =>
                  \A p \in Packets : p \in InTable(e) => time - later[p] < SEEN_PACKET_TTL_MS
  <1>1. PICK now \in 0 .. ClockModulus - 1 : now = Clock(time) /\ now \in Nat
    BY ClockReads
  <1>2. e = expire_current_and_prior_buckets(s, now)
    BY <1>1
  <1>3. /\ e \in Tidy /\ e.ms = s.ms
        /\ \A i \in Slots : /\ e.packet[i] = s.packet[i] \/ e.packet[i] = Nothing
                            /\ ~IsOld(s, now, i) => e.packet[i] = s.packet[i]
    <2>1. Expires(s, e, now)
      BY <1>1, <1>2, ExpiryTidy
    <2> QED
      BY <2>1 DEF Expires
  <1>4. \A i \in Filled(e) : /\ i \in Filled(s) /\ e.packet[i] = s.packet[i] /\ i \in Slots
                             /\ e.packet[i] \in Packets
    <2>1. s.packet \in [Slots -> Packets \cup {Nothing}]
      BY DEF Tidy, DedupState
    <2> QED
      BY <1>3, <2>1 DEF Filled
  <1>5. /\ \A i, j \in Filled(s) : s.packet[i] = s.packet[j] => i = j
        /\ \A i \in Filled(s) : /\ known[s.packet[i]] \in Nat /\ known[s.packet[i]] <= time
                                /\ s.ms[i] = Clock(known[s.packet[i]])
        /\ \A p \in Packets : known[p] # Nothing => p \in InTable(s)
        /\ StartMs + time < ClockModulus => InTime(s, now)
    BY <1>1 DEF Linked
  <1>6. \A i \in Filled(e) : e.packet[i] \in InTable(e)
    BY <1>3, <1>4, FoundInTable
  <1>7. \A i \in Filled(e) : /\ later[e.packet[i]] = known[s.packet[i]]
                             /\ later[e.packet[i]] \in Nat /\ later[e.packet[i]] <= time
                             /\ e.ms[i] = Clock(later[e.packet[i]])
    BY <1>3, <1>4, <1>5, <1>6
  <1>8. StartMs + time < ClockModulus =>
            InTime(e, now) /\ \A i \in Filled(e) : now - e.ms[i] < SEEN_PACKET_TTL_MS
    <2>1. ASSUME InTime(s, now)
          PROVE  InTime(e, now) /\ \A i \in Filled(e) : now - e.ms[i] < SEEN_PACKET_TTL_MS
      BY <1>2, <2>1, ExpiryIsExact
    <2> QED
      BY <1>5, <2>1
  <1>9. Linked(e, later, time)
    <2>1. \A i, j \in Filled(e) : e.packet[i] = e.packet[j] => i = j
      BY <1>4, <1>5
    <2>2. \A p \in Packets : later[p] # Nothing => p \in InTable(e)
      OBVIOUS
    <2> QED
      BY <1>1, <1>7, <1>8, <2>1, <2>2 DEF Linked
  <1>10. ASSUME NEW p \in Packets, known[p] # Nothing, time - known[p] < SEEN_PACKET_TTL_MS
         PROVE  p \in InTable(e)
    <2>1. PICK i \in Filled(s) : s.packet[i] = p
      BY <1>5, <1>10, FoundInTable
    <2>2. PICK r \in Nat : r = known[p] /\ r <= time /\ s.ms[i] = Clock(r)
      BY <1>5, <2>1
    <2>3. time - r < SEEN_PACKET_TTL_MS
      BY <1>10, <2>2
    <2>4. Minus(Clock(time), Clock(r)) = time - r
      BY <2>2, <2>3, AgeOfReading
    <2>7. Minus(now, s.ms[i]) = time - r
      BY <1>1, <2>2, <2>4
    <2>8. ~IsOld(s, now, i)
      BY <2>3, <2>7, DedupConstants DEF IsOld
    <2>9. i \in Slots /\ p # Nothing
      BY <2>1, DedupConstants DEF Filled
    <2>10. e.packet[i] = p /\ i \in Filled(e)
      BY <1>3, <2>1, <2>8, <2>9 DEF Filled
    <2> QED
      BY <1>6, <2>10
  <1>11. ASSUME StartMs + time < ClockModulus, NEW p \in Packets, p \in InTable(e)
         PROVE  time - later[p] < SEEN_PACKET_TTL_MS
    <2>1. PICK i \in Filled(e) : e.packet[i] = p
      BY <1>3, <1>11, FoundInTable
    <2>2. PICK r \in Nat : r = later[p] /\ r <= time /\ e.ms[i] = Clock(r)
      BY <1>7, <2>1
    <2>3. StartMs + r < ClockModulus
      BY <1>11, <2>2, DedupConstants
    <2>4. Clock(r) = StartMs + r /\ now = StartMs + time
      BY <1>1, <1>11, <2>3, ClockReads
    <2>5. now - e.ms[i] < SEEN_PACKET_TTL_MS
      BY <1>8, <1>11, <2>1
    <2> QED
      BY <2>2, <2>4, <2>5, DedupConstants
  <1> QED
    BY <1>9, <1>10, <1>11

\* A packet that was not in the table is entered with the time of the call.
LEMMA InsertLinks ==
    ASSUME NEW time \in Nat, NEW s \in Tidy, NEW known, Linked(s, known, time),
           NEW p \in Packets, p \notin InTable(s), s.free # << >>,
           NEW e, e = insert_entry(s, p, Clock(time)),
           NEW later, \A q \in Packets : later[q] = IF q \notin InTable(e) THEN Nothing
                                                   ELSE IF q \notin InTable(s) THEN time ELSE known[q]
    PROVE  /\ e \in Tidy /\ Linked(e, later, time)
           /\ \A q \in Packets : q \in InTable(e) <=> q = p \/ q \in InTable(s)
           /\ later[p] = time
  <1>1. PICK now \in 0 .. ClockModulus - 1 : now = Clock(time) /\ now \in Nat
    BY ClockReads
  <1>2. Enters(s, e, p, now) /\ e \in Tidy /\ e.last = s.last
    <2>1. Enters(s, insert_entry(s, p, now), p, now)
      BY <1>1, InsertTidy
    <2>2. e = insert_entry(s, p, now)
      BY <1>1
    <2>3. Enters(s, e, p, now)
      BY <2>1, <2>2, Zenon
    <2> QED
      BY <2>3, Zenon DEF Enters
  <1>3. PICK i \in FreeOf(s.packet) : /\ e.packet = [s.packet EXCEPT ![i] = p]
                                      /\ e.ms = [s.ms EXCEPT ![i] = now]
    BY <1>2, Zenon DEF Enters
  <1>4. s.packet \in [Slots -> Packets \cup {Nothing}] /\ s.ms \in [Slots -> Nat]
    BY DEF Tidy, DedupState
  <1>5. i \in Slots /\ i \notin Filled(s) /\ p # Nothing
    BY <1>3, DedupConstants DEF FreeOf, Filled
  <1>6. /\ e.packet[i] = p /\ e.ms[i] = now
        /\ \A j \in Slots : j # i => e.packet[j] = s.packet[j] /\ e.ms[j] = s.ms[j]
    BY <1>3, <1>4, <1>5
  <1>7. Filled(e) = Filled(s) \cup {i}
    BY <1>5, <1>6 DEF Filled
  <1>8. \A j \in Filled(s) : /\ j \in Slots /\ j # i /\ s.packet[j] \in Packets
                             /\ e.packet[j] = s.packet[j] /\ e.ms[j] = s.ms[j]
    BY <1>4, <1>5, <1>6 DEF Filled
  <1>9. \A j \in Filled(s) : s.packet[j] \in InTable(s) /\ s.packet[j] # p
    <2>1. \A j \in Filled(s) : s.packet[j] \in InTable(s)
      BY <1>8, FoundInTable
    <2> QED
      BY <2>1
  <1>10. \A q \in Packets : q \in InTable(e) <=> q = p \/ q \in InTable(s)
    <2> SUFFICES ASSUME NEW q \in Packets PROVE q \in InTable(e) <=> q = p \/ q \in InTable(s)
      OBVIOUS
    <2>1. q \in InTable(e) <=> \E j \in Filled(e) : e.packet[j] = q
      BY <1>2, FoundInTable
    <2>2. q \in InTable(s) <=> \E j \in Filled(s) : s.packet[j] = q
      BY FoundInTable
    <2> QED
      BY <1>6, <1>7, <1>8, <2>1, <2>2
  <1>11. later[p] = time
    BY <1>10
  <1>12. /\ \A j, k \in Filled(s) : s.packet[j] = s.packet[k] => j = k
         /\ \A j \in Filled(s) : /\ known[s.packet[j]] \in Nat /\ known[s.packet[j]] <= time
                                 /\ s.ms[j] = Clock(known[s.packet[j]])
         /\ StartMs + time < ClockModulus => InTime(s, now)
    BY <1>1 DEF Linked
  <1>13. \A j \in Filled(s) : later[s.packet[j]] = known[s.packet[j]]
    BY <1>8, <1>9, <1>10
  <1>14. \A j, k \in Filled(e) : e.packet[j] = e.packet[k] => j = k
    BY <1>6, <1>7, <1>8, <1>9, <1>12
  <1>15. ASSUME NEW j \in Filled(e)
         PROVE  /\ later[e.packet[j]] \in Nat /\ later[e.packet[j]] <= time
                /\ e.ms[j] = Clock(later[e.packet[j]])
    <2>1. CASE j = i
      BY <1>1, <1>6, <1>11, <2>1
    <2>2. CASE j \in Filled(s)
      BY <1>8, <1>12, <1>13, <2>2
    <2> QED
      BY <1>7, <2>1, <2>2
  <1>16. ASSUME InTime(s, now) PROVE InTime(e, now)
    <2>1. PICK n \in Nat \ {0} : n = DEDUP_EXPIRY_BUCKET_COUNT
      BY DedupConstants
    <2>2. PICK last \in Nat, v \in Nat, t \in Int :
              /\ last = s.last /\ v = Second(now) /\ t = ExpirationBucket(now) /\ t = v - n
              /\ last = 0 \/ last <= t + 1
      BY <1>16, <2>1, BucketOfNow DEF InTime
    <2>3. v >= last
      BY <2>2
    <2>4. ASSUME NEW j \in Filled(e) PROVE e.ms[j] <= now /\ Second(e.ms[j]) >= e.last
      <3>1. CASE j = i
        BY <1>1, <1>2, <1>6, <2>2, <2>3, <3>1
      <3>2. CASE j \in Filled(s)
        BY <1>2, <1>8, <1>16, <3>2 DEF InTime
      <3> QED
        BY <1>7, <3>1, <3>2
    <2> QED
      BY <1>2, <1>16, <2>4 DEF InTime
  <1>17. \A q \in Packets : later[q] # Nothing => q \in InTable(e)
    OBVIOUS
  <1>18. Linked(e, later, time)
    BY <1>1, <1>12, <1>14, <1>15, <1>16, <1>17 DEF Linked
  <1> QED
    BY <1>2, <1>10, <1>11, <1>18

\* Time that passes leaves the table behind and no entry in the future.
LEMMA TimeLinks ==
    ASSUME NEW time \in Nat, NEW s \in Tidy, NEW known, Linked(s, known, time),
           NEW now \in Nat, time <= now
    PROVE  Linked(s, known, now)
  <1>1. \A i \in Filled(s) : known[s.packet[i]] \in Nat /\ known[s.packet[i]] <= now
    BY DEF Linked
  <1>2. ASSUME StartMs + now < ClockModulus PROVE InTime(s, Clock(now))
    <2>1. PICK c \in Nat : c = StartMs
      BY DedupConstants
    <2>2. PICK a \in Nat, b \in Nat : a = c + time /\ b = c + now
      OBVIOUS
    <2>3. a <= b /\ a < ClockModulus
      BY <1>2, <2>1, <2>2, DedupConstants
    <2>4. Clock(time) = a /\ Clock(now) = b
      BY <1>2, <2>1, <2>2, <2>3, ClockReads
    <2>5. InTime(s, a)
      BY <2>1, <2>2, <2>3, <2>4 DEF Linked
    <2>6. PICK t \in Int, u \in Int :
              t = ExpirationBucket(a) /\ u = ExpirationBucket(b) /\ t <= u
      <3>1. PICK m \in Nat \ {0}, x \in Int, y \in Int :
                m = DEDUP_EXPIRY_BUCKET_MS /\ x = a - SEEN_PACKET_TTL_MS /\ y = b - SEEN_PACKET_TTL_MS
        BY DedupConstants
      <3>2. x <= y
        BY <2>3, <3>1, DedupConstants
      <3>3. x \div m <= y \div m
        BY <3>2, DivMonotone
      <3>4. ExpirationBucket(a) = x \div m /\ ExpirationBucket(b) = y \div m
        BY <3>1 DEF ExpirationBucket
      <3>5. x \div m \in Int /\ y \div m \in Int
        OBVIOUS
      <3> QED
        BY <3>3, <3>4, <3>5, Zenon
    <2>7. s.last \in Nat /\ (s.last = 0 \/ s.last <= u + 1)
      BY <2>5, <2>6 DEF InTime
    <2>8. ASSUME NEW i \in Filled(s) PROVE s.ms[i] <= b /\ Second(s.ms[i]) >= s.last
      <3>1. s.ms[i] \in Nat
        BY DEF Filled, Tidy, DedupState
      <3> QED
        BY <2>3, <2>5, <3>1 DEF InTime
    <2> QED
      BY <2>4, <2>6, <2>7, <2>8 DEF InTime
  <1> QED
    BY <1>1, <1>2 DEF Linked

\* The invariant behind the minute.
MinuteIInv == DedupIInv /\ Linked(seen, remembered, dedup_time)

\* A call that looks a packet up, or enters it: what a step of the table does to the
\* packets known, with the invariant after it.
MinuteStep ==
    /\ Linked(seen, remembered, dedup_time)'
    /\ \A p \in Packets :
           /\ remembered[p] # Nothing /\ dedup_time - remembered[p] < SEEN_PACKET_TTL_MS
                  => Finds(seen', p)
           /\ Finds(seen', p) /\ ~Wrapped => dedup_time - remembered'[p] < SEEN_PACKET_TTL_MS

\* The table starts empty.
LEMMA MinuteInitially == DedupInit => MinuteIInv
  <1> SUFFICES ASSUME DedupInit PROVE MinuteIInv
    OBVIOUS
  <1>1. DedupIInv
    BY DedupInitially
  <1>2. PICK now \in 0 .. ClockModulus - 1 : now = Clock(0) /\ now \in Nat
    BY ClockReads
  <1>3. seen = dedup_init_storage(now) /\ dedup_time = 0 /\ remembered = [p \in Packets |-> Nothing]
    BY <1>2 DEF DedupInit, dedup_now_ms
  <1>4. /\ \A i \in Slots : seen.packet[i] = Nothing
        /\ seen.last = IF now < SEEN_PACKET_TTL_MS THEN 0 ELSE ExpirationBucket(now)
    BY <1>3 DEF dedup_init_storage
  <1>5. Filled(seen) = {}
    BY <1>4 DEF Filled
  <1>6. seen.last \in Nat /\ (seen.last = 0 \/ seen.last <= ExpirationBucket(now) + 1)
    <2>1. CASE now < SEEN_PACKET_TTL_MS
      BY <1>4, <2>1
    <2>2. CASE ~(now < SEEN_PACKET_TTL_MS)
      <3>1. now >= SEEN_PACKET_TTL_MS
        BY <1>2, <2>2, DedupConstants
      <3>2. PICK t \in Nat : t = ExpirationBucket(now)
        BY <3>1, BucketOfNow
      <3> QED
        BY <1>4, <2>2, <3>2
    <2> QED
      BY <2>1, <2>2
  <1>7. InTime(seen, now)
    BY <1>5, <1>6 DEF InTime
  <1>8. \A p \in Packets : remembered[p] = Nothing
    BY <1>3
  <1>9. Linked(seen, remembered, 0)
    BY <1>2, <1>5, <1>7, <1>8 DEF Linked
  <1> QED
    BY <1>1, <1>3, <1>9 DEF MinuteIInv

\* A lookup, before and after the wrap.
LEMMA LookupStep ==
    ASSUME MinuteIInv, NEW p \in Packets, packet_seen(p) PROVE MinuteStep
  <1>1. PICK s \in Tidy, time \in Nat : s = seen /\ time = dedup_time
    BY DEF MinuteIInv, DedupIInv
  <1>2. PICK known, later, e : known = remembered /\ later = remembered' /\ e = seen'
    OBVIOUS
  <1>3. /\ e = expire_current_and_prior_buckets(s, Clock(time))
        /\ later = [q \in Packets |-> IF q \in InTable(e) THEN known[q] ELSE Nothing]
        /\ dedup_time' = time
    BY <1>1, <1>2 DEF packet_seen, dedup_now_ms
  <1>4. \A q \in Packets : later[q] = IF q \in InTable(e) THEN known[q] ELSE Nothing
    BY <1>3
  <1>5. Linked(s, known, time)
    BY <1>1, <1>2 DEF MinuteIInv
  <1>6. /\ Linked(e, later, time)
        /\ \A q \in Packets : known[q] # Nothing /\ time - known[q] < SEEN_PACKET_TTL_MS
                                  => q \in InTable(e)
        /\ StartMs + time < ClockModulus =>
               \A q \in Packets : q \in InTable(e) => time - later[q] < SEEN_PACKET_TTL_MS
    BY <1>3, <1>4, <1>5, ExpiryLinks
  <1>7. e \in Tidy
    <2>1. Clock(time) \in Nat
      BY ClockReads
    <2>2. Expires(s, e, Clock(time))
      BY <1>3, <2>1, ExpiryTidy
    <2> QED
      BY <2>2 DEF Expires
  <1>8. \A q \in Packets : Finds(e, q) <=> q \in InTable(e)
    BY <1>7, FoundInTable
  <1>9. ~Wrapped => StartMs + time < ClockModulus
    BY <1>1, DedupConstants DEF Wrapped
  <1>10. Linked(seen, remembered, dedup_time)'
    BY <1>2, <1>3, <1>6
  <1> QED
    BY <1>1, <1>2, <1>6, <1>8, <1>9, <1>10 DEF MinuteStep

\* An entry, before and after the wrap.
LEMMA EntryStep ==
    ASSUME MinuteIInv, NEW p \in Packets, remember_packet(p) PROVE MinuteStep
  <1>1. PICK s \in Tidy, time \in Nat : s = seen /\ time = dedup_time
    BY DEF MinuteIInv, DedupIInv
  <1>2. PICK known, later, new : known = remembered /\ later = remembered' /\ new = seen'
    OBVIOUS
  <1>3. PICK e : e = expire_current_and_prior_buckets(s, Clock(time))
    OBVIOUS
  <1>4. /\ new = IF Finds(e, p) \/ e.free = << >> THEN e ELSE insert_entry(e, p, Clock(time))
        /\ later = [q \in Packets |-> IF q \notin InTable(new) THEN Nothing
                                     ELSE IF q \notin InTable(e) THEN time ELSE known[q]]
        /\ dedup_time' = time
    BY <1>1, <1>2, <1>3 DEF remember_packet, dedup_now_ms
  <1> DEFINE kept == [q \in Packets |-> IF q \in InTable(e) THEN known[q] ELSE Nothing]
  <1>5. \A q \in Packets : kept[q] = IF q \in InTable(e) THEN known[q] ELSE Nothing
    OBVIOUS
  <1> HIDE DEF kept
  <1>6. Linked(s, known, time)
    BY <1>1, <1>2 DEF MinuteIInv
  <1>7. /\ Linked(e, kept, time)
        /\ \A q \in Packets : known[q] # Nothing /\ time - known[q] < SEEN_PACKET_TTL_MS
                                  => q \in InTable(e)
        /\ StartMs + time < ClockModulus =>
               \A q \in Packets : q \in InTable(e) => time - kept[q] < SEEN_PACKET_TTL_MS
    BY <1>3, <1>5, <1>6, ExpiryLinks
  <1>8. e \in Tidy
    <2>1. Clock(time) \in Nat
      BY ClockReads
    <2>2. Expires(s, e, Clock(time))
      BY <1>3, <2>1, ExpiryTidy
    <2> QED
      BY <2>2 DEF Expires
  <1>9. \A q \in Packets : later[q] = IF q \notin InTable(new) THEN Nothing
                                     ELSE IF q \notin InTable(e) THEN time ELSE known[q]
    BY <1>4
  <1>10. ~Wrapped => StartMs + time < ClockModulus
    BY <1>1, DedupConstants DEF Wrapped
  <1>11. CASE Finds(e, p) \/ e.free = << >>
    <2>1. new = e
      BY <1>4, <1>11
    <2>2. \A q \in Packets : later[q] = IF q \in InTable(e) THEN known[q] ELSE Nothing
      BY <1>9, <2>1
    <2>3. /\ Linked(e, later, time)
          /\ StartMs + time < ClockModulus =>
                 \A q \in Packets : q \in InTable(e) => time - later[q] < SEEN_PACKET_TTL_MS
      BY <1>3, <1>6, <2>2, ExpiryLinks
    <2>4. \A q \in Packets : Finds(e, q) <=> q \in InTable(e)
      BY <1>8, FoundInTable
    <2>5. Linked(seen, remembered, dedup_time)'
      BY <1>2, <1>4, <2>1, <2>3
    <2> QED
      BY <1>1, <1>2, <1>7, <1>10, <2>1, <2>3, <2>4, <2>5 DEF MinuteStep
  <1>12. CASE ~Finds(e, p) /\ e.free # << >>
    <2>1. new = insert_entry(e, p, Clock(time))
      BY <1>4, <1>12
    <2>2. p \notin InTable(e)
      BY <1>8, <1>12, FoundInTable
    <2>3. \A q \in Packets : later[q] = IF q \notin InTable(new) THEN Nothing
                                       ELSE IF q \notin InTable(e) THEN time ELSE kept[q]
      BY <1>5, <1>9
    <2>4. /\ new \in Tidy /\ Linked(new, later, time)
          /\ \A q \in Packets : q \in InTable(new) <=> q = p \/ q \in InTable(e)
          /\ later[p] = time
      BY <1>7, <1>8, <1>12, <2>1, <2>2, <2>3, InsertLinks
    <2>5. \A q \in Packets : Finds(new, q) <=> q \in InTable(new)
      BY <2>4, FoundInTable
    <2>6. ASSUME StartMs + time < ClockModulus, NEW q \in Packets, q \in InTable(new)
          PROVE  time - later[q] < SEEN_PACKET_TTL_MS
      <3>1. CASE q = p
        <4>1. time - later[q] = 0
          BY <2>4, <3>1
        <4> QED
          BY <4>1, MinuteIsPositive
      <3>2. CASE q # p
        <4>1. q \in InTable(e) /\ later[q] = kept[q]
          BY <2>3, <2>4, <2>6, <3>2
        <4> QED
          BY <1>7, <2>6, <4>1
      <3> QED
        BY <3>1, <3>2
    <2>7. Linked(seen, remembered, dedup_time)'
      BY <1>2, <1>4, <2>4
    <2> QED
      BY <1>1, <1>2, <1>7, <1>10, <2>4, <2>5, <2>6, <2>7 DEF MinuteStep
  <1> QED
    BY <1>11, <1>12

\* Every step keeps the invariant, and those that take no time know the minute.
LEMMA MinuteInductive ==
    MinuteIInv /\ [DedupNext]_dedupVars => MinuteIInv'
  <1> SUFFICES ASSUME MinuteIInv, [DedupNext]_dedupVars PROVE MinuteIInv'
    OBVIOUS
  <1>1. DedupIInv'
    BY DedupInductive DEF MinuteIInv
  <1>2. ASSUME NEW p \in Packets, remember_packet(p) \/ packet_seen(p)
        PROVE  Linked(seen, remembered, dedup_time)'
    BY <1>2, LookupStep, EntryStep DEF MinuteStep
  <1>3. CASE TimePasses
    <2>1. PICK s \in Tidy, time \in Nat : s = seen /\ time = dedup_time
      BY DEF MinuteIInv, DedupIInv
    <2>6. PICK known : known = remembered
      OBVIOUS
    <2>2. PICK t \in Nat : t = dedup_time' /\ time <= t
      BY <1>3, <2>1, DedupAssumption DEF TimePasses
    <2>3. seen' = s /\ remembered' = known
      BY <1>3, <2>1, <2>6 DEF TimePasses
    <2>4. Linked(s, known, time)
      BY <2>1, <2>6 DEF MinuteIInv
    <2>5. Linked(s, known, t)
      BY <2>2, <2>4, TimeLinks
    <2> QED
      BY <1>1, <2>2, <2>3, <2>5 DEF MinuteIInv
  <1>4. CASE UNCHANGED dedupVars
    BY <1>1, <1>4 DEF dedupVars, MinuteIInv
  <1> QED
    BY <1>1, <1>2, <1>3, <1>4 DEF DedupNext, MinuteIInv

\* For every number of slots, of buckets and of seconds of the wheel, every start of
\* the clock and every silence: right after a call a packet is known if it was entered
\* less than a minute ago, and before the clock wraps only then.
THEOREM MinuteIsExact == DedupSpec => KnownForAMinute
  <1> DEFINE Exact == UNCHANGED dedup_time =>
                 \A p \in Packets :
                     /\ remembered[p] # Nothing /\ dedup_time - remembered[p] < SEEN_PACKET_TTL_MS
                            => Finds(seen', p)
                     /\ Finds(seen', p) /\ ~Wrapped => dedup_time - remembered'[p] < SEEN_PACKET_TTL_MS
  <1>1. MinuteIInv /\ [DedupNext]_dedupVars => [Exact]_dedupVars
    <2> SUFFICES ASSUME MinuteIInv, DedupNext, UNCHANGED dedup_time PROVE MinuteStep
      BY DEF MinuteStep
    <2>1. ~TimePasses
      <3>1. dedup_time \in Nat
        BY DEF MinuteIInv, DedupIInv
      <3> QED
        BY <3>1, DedupAssumption DEF TimePasses
    <2> QED
      BY <2>1, LookupStep, EntryStep DEF DedupNext
  <1> QED
    BY <1>1, MinuteInitially, MinuteInductive, PTL DEF DedupSpec, KnownForAMinute

-----------------------------------------------------------------------------
(* Packets as sequences of bytes                                           *)

Wire == (TextNames \cup {"byte", "~"}) \X Nat

\* A byte, and the bytes of a text.
LEMMA BytesAreWire ==
    /\ \A n \in Nat : Byte(n) \in Wire /\ Byte(n)[2] = n
    /\ \A t : IsWord(t) => Bytes(t) \in Seq(Wire) /\ Len(Bytes(t)) = t.len
  <1>1. ASSUME NEW n \in Nat PROVE Byte(n) \in Wire /\ Byte(n)[2] = n
    BY DEF Byte, Wire
  <1>2. ASSUME NEW t, IsWord(t) PROVE Bytes(t) \in Seq(Wire) /\ Len(Bytes(t)) = t.len
    <2>1. PICK n \in Nat, a \in TextNames : n = t.len /\ a = t.name
      BY <1>2 DEF IsWord
    <2>2. [k \in 1 .. n |-> <<a, k>>] \in [1 .. n -> Wire]
      BY <2>1 DEF Wire
    <2>3. Bytes(t) \in [1 .. n -> Wire]
      BY <2>1, <2>2 DEF Bytes
    <2> QED
      BY <2>1, <2>3
  <1> QED
    BY <1>1, <1>2

\* The bytes of a text say which text it is.
LEMMA TextFromBytes ==
    ASSUME NEW t, IsWord(t) PROVE FromBytes(Bytes(t)) = t
  <1>1. Bytes(t) \in Seq(Wire) /\ Len(Bytes(t)) = t.len /\ t.len \in Nat
    BY BytesAreWire DEF IsWord
  <1>2. CASE t.len = 0
    <2>1. Bytes(t) = <<>>
      BY <1>1, <1>2, EmptySeq
    <2> QED
      BY <1>2, <2>1 DEF FromBytes, IsWord
  <1>3. CASE t.len # 0
    <2>1. Bytes(t) # <<>>
      BY <1>1, <1>3, EmptySeq
    <2>2. 1 \in 1 .. t.len
      BY <1>1, <1>3
    <2>3. Bytes(t)[1] = <<t.name, 1>>
      BY <2>2 DEF Bytes
    <2> QED
      BY <1>1, <2>1, <2>3 DEF FromBytes, IsWord
  <1> QED
    BY <1>2, <1>3

\* What precedes w in a longer sequence is read as if nothing followed.
LEMMA FirstOfMore ==
    ASSUME NEW s \in Seq(Wire), NEW w \in Seq(Wire), s # <<>>
    PROVE  /\ s \o w # <<>> /\ Head(s \o w) = Head(s) /\ Tail(s \o w) = Tail(s) \o w
           /\ Tail(s) \in Seq(Wire) /\ Len(Tail(s)) = Len(s) - 1 /\ Head(s) \in Wire /\ s \o w \in Seq(Wire)
  <1>1. /\ Len(s) \in Nat \ {0} /\ Len(w) \in Nat /\ s \o w \in Seq(Wire)
        /\ Len(s \o w) = Len(s) + Len(w)
    BY EmptySeq, ConcatProperties, LenProperties
  <1>2. s \o w # <<>>
    BY <1>1, EmptySeq
  <1>3. /\ Head(s) \in Wire /\ Tail(s) \in Seq(Wire) /\ Len(Tail(s)) = Len(s) - 1
        /\ Head(s \o w) \in Wire /\ Tail(s \o w) \in Seq(Wire) /\ Len(Tail(s \o w)) = Len(s) + Len(w) - 1
    BY <1>1, <1>2, HeadTailProperties
  <1>4. Head(s \o w) = Head(s)
    <2>1. (s \o w)[1] = s[1]
      BY <1>1, ConcatProperties
    <2> QED
      BY <1>1, <1>2, <2>1
  <1>5. Tail(s \o w) = Tail(s) \o w
    <2>1. Tail(s) \o w \in Seq(Wire) /\ Len(Tail(s) \o w) = Len(s) - 1 + Len(w)
      BY <1>1, <1>3, ConcatProperties
    <2>2. ASSUME NEW i \in 1 .. Len(s) + Len(w) - 1 PROVE Tail(s \o w)[i] = (Tail(s) \o w)[i]
      <3>1. Tail(s \o w)[i] = (s \o w)[i + 1]
        BY <1>1, <1>2, HeadTailProperties
      <3>2. (s \o w)[i + 1] = IF i + 1 <= Len(s) THEN s[i + 1] ELSE w[i + 1 - Len(s)]
        BY <1>1, ConcatProperties
      <3>3. (Tail(s) \o w)[i] = IF i <= Len(s) - 1 THEN Tail(s)[i] ELSE w[i - (Len(s) - 1)]
        BY <1>1, <1>3, ConcatProperties
      <3>4. i <= Len(s) - 1 => Tail(s)[i] = s[i + 1]
        BY <1>1, HeadTailProperties
      <3>5. i + 1 - Len(s) = i - (Len(s) - 1) /\ (i + 1 <= Len(s) <=> i <= Len(s) - 1)
        BY <1>1
      <3> QED
        BY <3>1, <3>2, <3>3, <3>4, <3>5
    <2> QED
      BY <1>1, <1>3, <2>1, <2>2, SeqEqual
  <1> QED
    BY <1>1, <1>2, <1>3, <1>4, <1>5

\* So is a number of bytes.
LEMMA PartOfMore ==
    ASSUME NEW s \in Seq(Wire), NEW w \in Seq(Wire), NEW n \in Nat, n <= Len(s)
    PROVE  /\ SubSeq(s \o w, 1, n) = SubSeq(s, 1, n)
           /\ SubSeq(s \o w, n + 1, Len(s \o w)) = SubSeq(s, n + 1, Len(s)) \o w
           /\ SubSeq(s, n + 1, Len(s)) \in Seq(Wire) /\ SubSeq(s, 1, n) \in Seq(Wire)
           /\ n <= Len(s \o w)
  <1>1. /\ Len(s) \in Nat /\ Len(w) \in Nat /\ s \o w \in Seq(Wire)
        /\ Len(s \o w) = Len(s) + Len(w)
        /\ \A i \in 1 .. Len(s) : s[i] \in Wire /\ (s \o w)[i] = s[i] /\ (s \o w)[i] \in Wire
        /\ \A i \in 1 .. Len(w) : (s \o w)[Len(s) + i] = w[i]
    <2>1. Len(s) \in Nat /\ Len(w) \in Nat /\ s \o w \in Seq(Wire) /\ Len(s \o w) = Len(s) + Len(w)
      BY LenProperties, ConcatProperties
    <2>2. ASSUME NEW i \in 1 .. Len(s) PROVE s[i] \in Wire /\ (s \o w)[i] = s[i] /\ (s \o w)[i] \in Wire
      <3>1. s[i] \in Wire
        BY ElementOfSeq
      <3>2. i \in 1 .. Len(s) + Len(w) /\ i <= Len(s)
        BY <2>1
      <3> QED
        BY <3>1, <3>2, ConcatProperties
    <2>3. ASSUME NEW i \in 1 .. Len(w) PROVE (s \o w)[Len(s) + i] = w[i]
      <3>1. Len(s) + i \in 1 .. Len(s) + Len(w) /\ ~(Len(s) + i <= Len(s)) /\ Len(s) + i - Len(s) = i
        BY <2>1
      <3> QED
        BY <3>1, ConcatProperties
    <2> QED
      BY <2>1, <2>2, <2>3
  <1> DEFINE a == SubSeq(s, 1, n)
             b == SubSeq(s \o w, 1, n)
             c == SubSeq(s, n + 1, Len(s))
             d == SubSeq(s \o w, n + 1, Len(s \o w))
  <1>2. a \in Seq(Wire) /\ Len(a) = n /\ \A i \in 1 .. n : a[i] = s[i]
    <2>1. \A i \in 1 .. n : s[i] \in Wire
      BY <1>1
    <2>2. a \in Seq(Wire) /\ Len(a) = (IF 1 <= n THEN n - 1 + 1 ELSE 0)
          /\ \A i \in 1 .. n - 1 + 1 : a[i] = s[1 + i - 1]
      BY <2>1, SubSeqProperties
    <2> HIDE DEF a
    <2> QED
      BY <2>2
  <1>3. b \in Seq(Wire) /\ Len(b) = n /\ \A i \in 1 .. n : b[i] = s[i]
    <2>1. \A i \in 1 .. n : (s \o w)[i] \in Wire /\ (s \o w)[i] = s[i]
      BY <1>1
    <2>2. b \in Seq(Wire) /\ Len(b) = (IF 1 <= n THEN n - 1 + 1 ELSE 0)
          /\ \A i \in 1 .. n - 1 + 1 : b[i] = (s \o w)[1 + i - 1]
      BY <2>1, SubSeqProperties
    <2> HIDE DEF b
    <2> QED
      BY <2>1, <2>2
  <1>4. c \in Seq(Wire) /\ Len(c) = Len(s) - n /\ \A i \in 1 .. Len(s) - n : c[i] = s[n + i]
    <2>1. \A i \in n + 1 .. Len(s) : s[i] \in Wire
      BY <1>1
    <2>2. n + 1 \in Int /\ Len(s) \in Int
      BY <1>1
    <2>3. c \in Seq(Wire) /\ Len(c) = (IF n + 1 <= Len(s) THEN Len(s) - (n + 1) + 1 ELSE 0)
          /\ \A i \in 1 .. Len(s) - (n + 1) + 1 : c[i] = s[n + 1 + i - 1]
      BY <2>1, <2>2, SubSeqProperties
    <2> HIDE DEF c
    <2> QED
      BY <1>1, <2>3
  <1>5. d \in Seq(Wire) /\ Len(d) = Len(s) + Len(w) - n
        /\ \A i \in 1 .. Len(s) + Len(w) - n : d[i] = (s \o w)[n + i]
    <2>1. \A i \in n + 1 .. Len(s \o w) : (s \o w)[i] \in Wire
      BY <1>1, ElementOfSeq
    <2>2. n + 1 \in Int /\ Len(s \o w) \in Int
      BY <1>1
    <2>3. d \in Seq(Wire) /\ Len(d) = (IF n + 1 <= Len(s \o w) THEN Len(s \o w) - (n + 1) + 1 ELSE 0)
          /\ \A i \in 1 .. Len(s \o w) - (n + 1) + 1 : d[i] = (s \o w)[n + 1 + i - 1]
      BY <2>1, <2>2, SubSeqProperties
    <2> HIDE DEF d
    <2>4. PICK m \in Nat : m = Len(s) + Len(w) /\ m = Len(s \o w) /\ n <= m
      BY <1>1
    <2>5. Len(d) = m - n
      BY <2>3, <2>4
    <2>6. ASSUME NEW i \in 1 .. m - n PROVE d[i] = (s \o w)[n + i]
      <3>1. i \in 1 .. m - (n + 1) + 1 /\ n + 1 + i - 1 = n + i
        BY <2>4
      <3> QED
        BY <2>3, <2>4, <3>1
    <2> QED
      BY <2>3, <2>4, <2>5, <2>6, SMTT(20)
  <1> HIDE DEF a, b, c, d
  <1>6. a = b
    BY <1>2, <1>3, SeqEqual
  <1>7. d = c \o w
    <2>1. c \o w \in Seq(Wire) /\ Len(c \o w) = Len(s) + Len(w) - n
      <3>1. c \o w \in Seq(Wire) /\ Len(c \o w) = Len(c) + Len(w)
        BY <1>4, ConcatProperties
      <3> QED
        BY <1>1, <1>4, <3>1
    <2>2. ASSUME NEW i \in 1 .. Len(s) + Len(w) - n PROVE d[i] = (c \o w)[i]
      <3>1. (c \o w)[i] = IF i <= Len(s) - n THEN c[i] ELSE w[i - (Len(s) - n)]
        BY <1>1, <1>4, ConcatProperties
      <3>2. CASE i <= Len(s) - n
        BY <1>1, <1>4, <1>5, <3>1, <3>2
      <3>3. CASE ~(i <= Len(s) - n)
        <4>1. i - (Len(s) - n) \in 1 .. Len(w) /\ n + i = Len(s) + (i - (Len(s) - n))
          BY <1>1, <3>3
        <4> QED
          BY <1>1, <1>5, <3>1, <3>3, <4>1
      <3> QED
        BY <3>2, <3>3
    <2>3. Len(d) = Len(c \o w) /\ \A i \in 1 .. Len(d) : d[i] = (c \o w)[i]
      BY <1>5, <2>1, <2>2
    <2> QED
      BY <1>5, <2>1, <2>3, SeqEqual
  <1>8. n <= Len(s \o w)
    BY <1>1
  <1> QED
    BY <1>2, <1>4, <1>6, <1>7, <1>8, <1>6, <1>7 DEF a, b, c, d

-----------------------------------------------------------------------------
(* A packet and its beginning                                              *)

\* Reader x is where reader y is, but for the bytes w at the end, which it lacks:
\* as long as it can read, it reads the same.
IsReader(x) == x = [ok |-> x.ok, rest |-> x.rest, val |-> x.val]
Follows(x, y, w) ==
    /\ IsReader(x) /\ IsReader(y)
    /\ x.ok => y.ok /\ y.val = x.val /\ x.rest \in Seq(Wire) /\ y.rest = x.rest \o w

\* It is so of two readers with the same value.
LEMMA FollowsIs ==
    ASSUME NEW x, NEW y, NEW w, NEW a \in Seq(Wire), NEW b, NEW v, b = a \o w,
           x = [ok |-> TRUE, rest |-> a, val |-> v], y = [ok |-> TRUE, rest |-> b, val |-> v]
    PROVE  Follows(x, y, w)
  BY DEF Follows, IsReader

\* Each read of the parser keeps it so, and cannot succeed after one that failed.
LEMMA ByteOfBoth ==
    ASSUME NEW x, NEW y, NEW w \in Seq(Wire), Follows(x, y, w)
    PROVE  Follows(read_u8(x), read_u8(y), w) /\ (read_u8(x).ok => x.ok)
  <1>1. CASE x.ok /\ x.rest # <<>>
    <2>1. y.ok /\ y.val = x.val /\ x.rest \in Seq(Wire) /\ y.rest = x.rest \o w
      BY <1>1 DEF Follows
    <2>2. PICK s \in Seq(Wire) : s = x.rest
      BY <2>1
    <2>3. /\ y.rest # <<>> /\ Head(y.rest) = Head(s) /\ Tail(y.rest) = Tail(s) \o w
          /\ Tail(s) \in Seq(Wire)
      BY <1>1, <2>1, <2>2, FirstOfMore
    <2>4. read_u8(x) = [ok |-> TRUE, rest |-> Tail(s), val |-> Head(s)[2]]
      BY <1>1, <2>2 DEF read_u8
    <2>5. read_u8(y) = [ok |-> TRUE, rest |-> Tail(s) \o w, val |-> Head(s)[2]]
      BY <2>1, <2>3 DEF read_u8
    <2> QED
      BY <1>1, <2>3, <2>4, <2>5 DEF Follows, IsReader
  <1>2. CASE ~(x.ok /\ x.rest # <<>>)
    <2>1. read_u8(x) = Failed
      BY <1>2 DEF read_u8
    <2>2. IsReader(read_u8(x)) /\ ~read_u8(x).ok
      BY <2>1 DEF IsReader, Failed
    <2>3. IsReader(read_u8(y))
      BY DEF IsReader, Failed, read_u8
    <2> QED
      BY <2>2, <2>3 DEF Follows
  <1> QED
    BY <1>1, <1>2

\* A number of bytes.
LEMMA BytesOfBoth ==
    ASSUME NEW x, NEW y, NEW w \in Seq(Wire), NEW n, NEW m, NEW size,
           Follows(x, y, w), x.ok => n = m /\ n \in Nat
    PROVE  /\ Follows(read_bytes(x, n, size), read_bytes(y, m, size), w)
           /\ read_bytes(x, n, size).ok => x.ok
  <1>1. CASE x.ok /\ n <= Len(x.rest) /\ n < size
    <2>1. y.ok /\ y.val = x.val /\ x.rest \in Seq(Wire) /\ y.rest = x.rest \o w /\ n = m /\ n \in Nat
      BY <1>1 DEF Follows
    <2>2. PICK s \in Seq(Wire), k \in Nat : s = x.rest /\ k = n /\ k <= Len(s)
      BY <1>1, <2>1
    <2>3. /\ SubSeq(s \o w, 1, k) = SubSeq(s, 1, k)
          /\ SubSeq(s \o w, k + 1, Len(s \o w)) = SubSeq(s, k + 1, Len(s)) \o w
          /\ SubSeq(s, k + 1, Len(s)) \in Seq(Wire) /\ k <= Len(s \o w)
      BY <2>2, PartOfMore
    <2>4. read_bytes(x, n, size) = [ok |-> TRUE, rest |-> SubSeq(s, k + 1, Len(s)), val |-> FromBytes(SubSeq(s, 1, k))]
      BY <1>1, <2>2 DEF read_bytes
    <2>5. read_bytes(y, m, size) = [ok |-> TRUE, rest |-> SubSeq(s \o w, k + 1, Len(s \o w)),
                                    val |-> FromBytes(SubSeq(s \o w, 1, k))]
      BY <1>1, <2>1, <2>2, <2>3 DEF read_bytes
    <2>6. PICK a, b, v : a = SubSeq(s, k + 1, Len(s)) /\ b = a \o w /\ v = FromBytes(SubSeq(s, 1, k))
      OBVIOUS
    <2>7. /\ read_bytes(x, n, size) = [ok |-> TRUE, rest |-> a, val |-> v]
          /\ read_bytes(y, m, size) = [ok |-> TRUE, rest |-> b, val |-> v]
      BY <2>3, <2>4, <2>5, <2>6
    <2>8. a \in Seq(Wire)
      BY <2>3, <2>6
    <2> QED
      BY <1>1, <2>6, <2>7, <2>8, FollowsIs
  <1>2. CASE ~(x.ok /\ n <= Len(x.rest) /\ n < size)
    <2>1. read_bytes(x, n, size) = Failed
      BY <1>2 DEF read_bytes
    <2>2. IsReader(read_bytes(x, n, size)) /\ ~read_bytes(x, n, size).ok
      BY <2>1 DEF IsReader, Failed
    <2>3. IsReader(read_bytes(y, m, size))
      BY DEF IsReader, Failed, read_bytes
    <2> QED
      BY <2>2, <2>3 DEF Follows
  <1> QED
    BY <1>1, <1>2

\* What has failed follows anything.
LEMMA FailedFollows ==
    ASSUME NEW x, NEW y, NEW w, x = Failed, IsReader(y)
    PROVE  Follows(x, y, w) /\ ~x.ok
  BY DEF Failed, Follows, IsReader

\* Readers are given the same value.
LEMMA SameValue ==
    ASSUME NEW x, NEW y, NEW w, NEW d, Follows(x, y, w)
    PROVE  /\ Follows([x EXCEPT !.val = d], [y EXCEPT !.val = d], w)
           /\ [x EXCEPT !.val = d].ok = x.ok
           /\ IsReader([x EXCEPT !.val = d]) /\ IsReader([y EXCEPT !.val = d])
  <1>1. IsReader(x) /\ IsReader(y)
    BY DEF Follows
  <1>2. /\ IsReader([x EXCEPT !.val = d]) /\ [x EXCEPT !.val = d].ok = x.ok
        /\ [x EXCEPT !.val = d].rest = x.rest /\ [x EXCEPT !.val = d].val = d
    BY <1>1 DEF IsReader
  <1>3. /\ IsReader([y EXCEPT !.val = d]) /\ [y EXCEPT !.val = d].ok = y.ok
        /\ [y EXCEPT !.val = d].rest = y.rest /\ [y EXCEPT !.val = d].val = d
    BY <1>1 DEF IsReader
  <1> QED
    BY <1>2, <1>3 DEF Follows

\* Whatever a read returns is a reader.
LEMMA ReadsAreReaders ==
    /\ \A r : IsReader(read_u8(r))
    /\ \A r, n, size : IsReader(read_bytes(r, n, size))
    /\ \A r : IsReader(ReadName(r)) /\ IsReader(ReadPayload(r)) /\ IsReader(ReadLocation(r))
    /\ \A r : IsReader(ReadDestination(r))
  <1>0. IsReader(Failed)
    BY DEF IsReader, Failed
  <1>1. ASSUME NEW r PROVE IsReader(read_u8(r))
    BY DEF IsReader, Failed, read_u8
  <1>2. ASSUME NEW r, NEW n, NEW size PROVE IsReader(read_bytes(r, n, size))
    BY DEF IsReader, Failed, read_bytes
  <1>3. ASSUME NEW r PROVE IsReader(ReadName(r)) /\ IsReader(ReadPayload(r))
    BY <1>0, <1>2 DEF ReadName, ReadPayload
  <1>4. ASSUME NEW r PROVE IsReader(ReadLocation(r))
    BY DEF IsReader, Failed, ReadLocation
  <1>5. ASSUME NEW r PROVE IsReader(ReadDestination(r))
    <2>1. PICK len : len = read_u8(r) /\ IsReader(len)
      BY <1>1
    <2>2. IsReader([len EXCEPT !.val = ToAll])
      BY <2>1 DEF IsReader
    <2> QED
      BY <1>3, <2>1, <2>2 DEF ReadDestination
  <1> QED
    BY <1>1, <1>2, <1>3, <1>4, <1>5

\* What is read of a byte.
LEMMA ReadU8 ==
    \A x : IF x.ok /\ x.rest # <<>> THEN read_u8(x).ok = TRUE /\ read_u8(x).val = Head(x.rest)[2]
          ELSE read_u8(x) = Failed /\ read_u8(x).ok = FALSE
  <1>1. ASSUME NEW x, x.ok /\ x.rest # <<>> PROVE read_u8(x).ok = TRUE /\ read_u8(x).val = Head(x.rest)[2]
    <2>1. PICK s, v : s = Tail(x.rest) /\ v = Head(x.rest)[2]
      OBVIOUS
    <2>2. read_u8(x) = [ok |-> TRUE, rest |-> s, val |-> v]
      BY <1>1, <2>1, Zenon DEF read_u8
    <2> QED
      BY <2>1, <2>2
  <1>2. Failed.ok = FALSE
    BY DEF Failed
  <1>3. ASSUME NEW x, ~(x.ok /\ x.rest # <<>>) PROVE read_u8(x) = Failed /\ read_u8(x).ok = FALSE
    BY <1>2, <1>3, Zenon DEF read_u8
  <1> QED
    BY <1>1, <1>3, Zenon

\* The value of a byte is a number.
LEMMA ByteIsNumber ==
    ASSUME NEW x, NEW y, NEW w, Follows(x, y, w), read_u8(x).ok
    PROVE  read_u8(x).val \in Nat
  <1>1. x.ok /\ x.rest # <<>>
    BY Zenon, ReadU8
  <1>2. x.rest \in Seq(Wire)
    BY <1>1 DEF Follows
  <1>3. PICK h \in Wire : h = Head(x.rest)
    BY <1>1, <1>2, HeadTailProperties
  <1>4. read_u8(x).val = h[2]
    BY <1>1, <1>3, ReadU8, Zenon
  <1> QED
    BY <1>3, <1>4 DEF Wire

\* A node id.
LEMMA NameOfBoth ==
    ASSUME NEW x, NEW y, NEW w \in Seq(Wire), Follows(x, y, w)
    PROVE  Follows(ReadName(x), ReadName(y), w) /\ (ReadName(x).ok => x.ok)
  <1>1. Follows(read_u8(x), read_u8(y), w) /\ (read_u8(x).ok => x.ok)
    BY ByteOfBoth
  <1>2. IsReader(ReadName(y))
    BY ReadsAreReaders
  <1>3. CASE read_u8(x).val = 0
    BY <1>2, <1>3, FailedFollows DEF ReadName
  <1>4. CASE read_u8(x).val # 0 /\ ~read_u8(x).ok
    <2>1. read_u8(x) = Failed
      BY <1>4, ReadU8, Zenon
    <2> QED
      BY <1>4, <2>1 DEF Failed
  <1>5. CASE read_u8(x).val # 0 /\ read_u8(x).ok
    <2>1. PICK a, b, n : a = read_u8(x) /\ b = read_u8(y) /\ n = a.val /\ n = b.val /\ n \in Nat
      BY <1>1, <1>5, ByteIsNumber DEF Follows
    <2>2. ReadName(x) = read_bytes(a, n, FIELD_LEN) /\ ReadName(y) = read_bytes(b, n, FIELD_LEN)
      BY <1>5, <2>1 DEF ReadName
    <2>3. /\ Follows(read_bytes(a, n, FIELD_LEN), read_bytes(b, n, FIELD_LEN), w)
          /\ read_bytes(a, n, FIELD_LEN).ok => a.ok
      BY <1>1, <2>1, BytesOfBoth
    <2> QED
      BY <1>1, <2>1, <2>2, <2>3
  <1> QED
    BY <1>3, <1>4, <1>5

\* The destination.
LEMMA DestinationOfBoth ==
    ASSUME NEW x, NEW y, NEW w \in Seq(Wire), Follows(x, y, w)
    PROVE  Follows(ReadDestination(x), ReadDestination(y), w) /\ (ReadDestination(x).ok => x.ok)
  <1>1. PICK a, b : a = read_u8(x) /\ b = read_u8(y)
    OBVIOUS
  <1>2. Follows(a, b, w) /\ (a.ok => x.ok) /\ IsReader(a) /\ IsReader(b)
    BY <1>1, ByteOfBoth, ReadsAreReaders
  <1>3. Follows(ReadName(x), ReadName(y), w) /\ (ReadName(x).ok => x.ok)
    BY NameOfBoth
  <1>4. /\ ReadDestination(x) = IF a.val = V2_BROADCAST_ID THEN [a EXCEPT !.val = ToAll] ELSE ReadName(x)
        /\ ReadDestination(y) = IF b.val = V2_BROADCAST_ID THEN [b EXCEPT !.val = ToAll] ELSE ReadName(y)
    BY <1>1 DEF ReadDestination
  <1>5. CASE a.ok
    <2>1. b.ok /\ b.val = a.val
      BY <1>2, <1>5 DEF Follows
    <2>2. CASE a.val = V2_BROADCAST_ID
      <3>1. Follows([a EXCEPT !.val = ToAll], [b EXCEPT !.val = ToAll], w)
        BY <1>2, SameValue
      <3> QED
        BY <1>2, <1>4, <1>5, <2>1, <2>2, <3>1
    <2> QED
      BY <1>3, <1>4, <2>1, <2>2
  <1>6. CASE ~a.ok
    <2>1. a = Failed
      BY <1>1, <1>6 DEF read_u8
    <2>2. a.val = 0 /\ 0 # V2_BROADCAST_ID
      BY <2>1 DEF Failed, V2_BROADCAST_ID
    <2>3. ReadDestination(x) = ReadName(x)
      BY <1>4, <2>2
    <2>4. ReadName(x) = Failed
      BY <1>1, <2>2 DEF ReadName
    <2> QED
      BY <2>3, <2>4, FailedFollows, ReadsAreReaders
  <1> QED
    BY <1>5, <1>6

\* The location.
LEMMA LocationOfBoth ==
    ASSUME NEW x, NEW y, NEW w \in Seq(Wire), Follows(x, y, w)
    PROVE  Follows(ReadLocation(x), ReadLocation(y), w) /\ (ReadLocation(x).ok => x.ok)
  <1>1. PICK a, b : a = read_u8(x) /\ b = read_u8(y)
    OBVIOUS
  <1>2. Follows(a, b, w) /\ (a.ok => x.ok)
    BY <1>1, ByteOfBoth
  <1>3. CASE a.ok /\ a.val <= Len(a.rest)
    <2>1. b.ok /\ b.val = a.val /\ a.rest \in Seq(Wire) /\ b.rest = a.rest \o w /\ a.val \in Nat
      BY <1>1, <1>2, <1>3, ByteIsNumber DEF Follows
    <2>2. PICK s \in Seq(Wire), k \in Nat : s = a.rest /\ k = a.val /\ k <= Len(s)
      BY <1>3, <2>1
    <2>3. /\ SubSeq(s \o w, 1, k) = SubSeq(s, 1, k)
          /\ SubSeq(s \o w, k + 1, Len(s \o w)) = SubSeq(s, k + 1, Len(s)) \o w
          /\ SubSeq(s, k + 1, Len(s)) \in Seq(Wire) /\ k <= Len(s \o w)
      BY <2>2, PartOfMore
    <2>4. PICK c, d, v : c = SubSeq(s, k + 1, Len(s)) /\ d = c \o w /\ v = location_decode(SubSeq(s, 1, k))
      OBVIOUS
    <2>5. ReadLocation(x) = [ok |-> TRUE, rest |-> c, val |-> v]
      BY <1>1, <1>3, <2>2, <2>4 DEF ReadLocation
    <2>6. ReadLocation(y) = [ok |-> TRUE, rest |-> SubSeq(s \o w, k + 1, Len(s \o w)),
                             val |-> location_decode(SubSeq(s \o w, 1, k))]
      BY <1>1, <2>1, <2>2, <2>3 DEF ReadLocation
    <2>7. ReadLocation(y) = [ok |-> TRUE, rest |-> d, val |-> v]
      BY <2>3, <2>4, <2>6
    <2>8. c \in Seq(Wire)
      BY <2>3, <2>4
    <2> QED
      BY <1>2, <1>3, <2>4, <2>5, <2>7, <2>8, FollowsIs
  <1>4. CASE ~(a.ok /\ a.val <= Len(a.rest))
    <2>1. ReadLocation(x) = Failed
      BY <1>1, <1>4 DEF ReadLocation
    <2> QED
      BY <2>1, FailedFollows, ReadsAreReaders
  <1> QED
    BY <1>3, <1>4

\* The payload.
LEMMA PayloadOfBoth ==
    ASSUME NEW x, NEW y, NEW w \in Seq(Wire), Follows(x, y, w)
    PROVE  Follows(ReadPayload(x), ReadPayload(y), w) /\ (ReadPayload(x).ok => x.ok)
  <1>1. PICK a, b : a = read_u8(x) /\ b = read_u8(y)
    OBVIOUS
  <1>2. Follows(a, b, w) /\ (a.ok => x.ok)
    BY <1>1, ByteOfBoth
  <1>3. a.ok => a.val = b.val /\ a.val \in Nat
    BY <1>1, <1>2, ByteIsNumber DEF Follows
  <1>4. ReadPayload(x) = read_bytes(a, a.val, PAYLOAD_LEN) /\ ReadPayload(y) = read_bytes(b, b.val, PAYLOAD_LEN)
    BY <1>1 DEF ReadPayload
  <1>5. PICK n, m : n = a.val /\ m = b.val
    OBVIOUS
  <1>6. /\ Follows(read_bytes(a, n, PAYLOAD_LEN), read_bytes(b, m, PAYLOAD_LEN), w)
        /\ read_bytes(a, n, PAYLOAD_LEN).ok => a.ok
    BY <1>2, <1>3, <1>5, BytesOfBoth
  <1> QED
    BY <1>2, <1>4, <1>5, <1>6

\* A field that is there if its flag is.
LEMMA ReadIfOfBoth ==
    ASSUME NEW x, NEW y, NEW w, NEW u, NEW v, NEW here \in BOOLEAN, NEW there \in BOOLEAN, NEW d,
           Follows(x, y, w), Follows(u, v, w), u.ok => x.ok, x.ok => here = there
    PROVE  /\ Follows(ReadIf(here, u, x, d), ReadIf(there, v, y, d), w)
           /\ ReadIf(here, u, x, d).ok => x.ok
  <1>1. IsReader(u) /\ IsReader(v)
    BY DEF Follows
  <1>2. /\ Follows([x EXCEPT !.val = d], [y EXCEPT !.val = d], w) /\ [x EXCEPT !.val = d].ok = x.ok
        /\ IsReader([x EXCEPT !.val = d]) /\ IsReader([y EXCEPT !.val = d])
    BY SameValue, ZenonT(40)
  <1>5. CASE x.ok
    BY <1>2, <1>5 DEF ReadIf
  <1>6. CASE ~x.ok
    <2>1. ~ReadIf(here, u, x, d).ok /\ IsReader(ReadIf(here, u, x, d)) /\ IsReader(ReadIf(there, v, y, d))
      BY <1>1, <1>2, <1>6 DEF ReadIf
    <2> QED
      BY <1>6, <2>1 DEF Follows
  <1> QED
    BY <1>5, <1>6

-----------------------------------------------------------------------------
(* The parser, read by read                                                *)

StartAt(b) == [ok |-> mesh_packet_is_v2(b), rest |-> SubSeq(b, 3, Len(b)), val |-> 0]
FlagsAt(b) == read_u8(StartAt(b))
TypeAt(b) == read_u8(FlagsAt(b))
PriorityAt(b) == read_u8(TypeAt(b))
SourceAt(b) == ReadName(PriorityAt(b))
DestinationAt(b) == ReadDestination(SourceAt(b))
IdAt(b) == read_bytes(DestinationAt(b), 4, 5)
RelayAt(b) == ReadName(IdAt(b))
HopsAt(b) == read_u8(RelayAt(b))
PathAt(b) == ReadIf(HasFlag(FlagsAt(b).val, V2_FLAG_PATH_HOPS), read_u8(HopsAt(b)), HopsAt(b), 1)
NextHopAt(b) == ReadIf(HasFlag(FlagsAt(b).val, V2_FLAG_NEXT_HOP), ReadName(PathAt(b)), PathAt(b), Empty)
LocationAt(b) ==
    ReadIf(HasFlag(FlagsAt(b).val, V2_FLAG_LOCATION), ReadLocation(NextHopAt(b)), NextHopAt(b), NoLocation)
PayloadAt(b) == ReadPayload(LocationAt(b))

\* What the parser returns is what these have read.
LEMMA ParserReads ==
    ASSUME NEW b
    PROVE  parse_mesh_packet_v2(b) =
             IF ~PayloadAt(b).ok THEN Invalid
             ELSE [valid |-> TRUE, source |-> SourceAt(b).val, destination |-> DestinationAt(b).val,
                   id |-> IdAt(b).val, type |-> type_from_u8(TypeAt(b).val),
                   priority |-> priority_from_u8(PriorityAt(b).val), relay |-> RelayAt(b).val,
                   hops |-> HopsAt(b).val, path_hops |-> PathAt(b).val, next_hop |-> NextHopAt(b).val,
                   location |-> LocationAt(b).val,
                   location_raw |-> HasFlag(FlagsAt(b).val, V2_FLAG_LOCATION) /\ read_u8(NextHopAt(b)).val > 0,
                   payload |-> PayloadAt(b).val]
  BY DEF parse_mesh_packet_v2, StartAt, FlagsAt, TypeAt, PriorityAt, SourceAt, DestinationAt, IdAt, RelayAt,
         HopsAt, PathAt, NextHopAt, LocationAt, PayloadAt

\* The parser of a beginning of b follows the parser of b.
LEMMA BeginningFollows ==
    ASSUME NEW a \in Seq(Wire), NEW w \in Seq(Wire), NEW b, b = a \o w
    PROVE  Follows(PayloadAt(a), PayloadAt(b), w)
  <1>1. Follows(StartAt(a), StartAt(b), w)
    <2>1. /\ Len(a) \in Nat /\ Len(w) \in Nat /\ Len(b) = Len(a) + Len(w)
          /\ \A i \in 1 .. Len(a) : b[i] = a[i]
      BY ConcatProperties, LenProperties
    <2>2. CASE mesh_packet_is_v2(a)
      <3>1. Len(a) >= 2 /\ Len(b) >= 2 /\ b[1] = a[1] /\ b[2] = a[2]
        BY <2>1, <2>2 DEF mesh_packet_is_v2
      <3>2. mesh_packet_is_v2(b)
        BY <2>2, <3>1 DEF mesh_packet_is_v2
      <3>3. PICK k \in Nat : k = 2
        OBVIOUS
      <3>4. /\ SubSeq(b, k + 1, Len(b)) = SubSeq(a, k + 1, Len(a)) \o w
            /\ SubSeq(a, k + 1, Len(a)) \in Seq(Wire)
        BY <3>1, <3>3, PartOfMore
      <3>5. SubSeq(b, 3, Len(b)) = SubSeq(a, 3, Len(a)) \o w /\ SubSeq(a, 3, Len(a)) \in Seq(Wire)
        BY <3>3, <3>4
      <3> QED
        BY <2>2, <3>2, <3>5 DEF Follows, IsReader, StartAt
    <2>3. CASE ~mesh_packet_is_v2(a)
      BY <2>3 DEF Follows, IsReader, StartAt
    <2> QED
      BY <2>2, <2>3
  <1>2. Follows(FlagsAt(a), FlagsAt(b), w)
    BY <1>1, ByteOfBoth DEF FlagsAt
  <1>3. Follows(TypeAt(a), TypeAt(b), w) /\ (TypeAt(a).ok => FlagsAt(a).ok)
    BY <1>2, ByteOfBoth DEF TypeAt
  <1>4. Follows(PriorityAt(a), PriorityAt(b), w) /\ (PriorityAt(a).ok => FlagsAt(a).ok)
    BY <1>3, ByteOfBoth DEF PriorityAt
  <1>5. Follows(SourceAt(a), SourceAt(b), w) /\ (SourceAt(a).ok => FlagsAt(a).ok)
    BY <1>4, NameOfBoth DEF SourceAt
  <1>6. Follows(DestinationAt(a), DestinationAt(b), w) /\ (DestinationAt(a).ok => FlagsAt(a).ok)
    BY <1>5, DestinationOfBoth DEF DestinationAt
  <1>7. Follows(IdAt(a), IdAt(b), w) /\ (IdAt(a).ok => FlagsAt(a).ok)
    <2>1. PICK n, size : n \in Nat /\ n = 4 /\ size = 5
      OBVIOUS
    <2>2. /\ Follows(read_bytes(DestinationAt(a), n, size), read_bytes(DestinationAt(b), n, size), w)
          /\ read_bytes(DestinationAt(a), n, size).ok => DestinationAt(a).ok
      BY <1>6, <2>1, BytesOfBoth
    <2> QED
      BY <1>6, <2>1, <2>2 DEF IdAt
  <1>8. Follows(RelayAt(a), RelayAt(b), w) /\ (RelayAt(a).ok => FlagsAt(a).ok)
    BY <1>7, NameOfBoth DEF RelayAt
  <1>9. Follows(HopsAt(a), HopsAt(b), w) /\ (HopsAt(a).ok => FlagsAt(a).ok)
    BY <1>8, ByteOfBoth DEF HopsAt
  <1>10. FlagsAt(a).ok => \A f : HasFlag(FlagsAt(a).val, f) = HasFlag(FlagsAt(b).val, f)
    BY <1>2 DEF Follows
  <1>11. \A c, f : HasFlag(FlagsAt(c).val, f) \in BOOLEAN
    BY DEF HasFlag
  <1>12. Follows(PathAt(a), PathAt(b), w) /\ (PathAt(a).ok => FlagsAt(a).ok)
    <2>1. Follows(read_u8(HopsAt(a)), read_u8(HopsAt(b)), w) /\ (read_u8(HopsAt(a)).ok => HopsAt(a).ok)
      BY <1>9, ByteOfBoth
    <2>2. PICK here, there, d :
             /\ here \in BOOLEAN /\ there \in BOOLEAN
             /\ here = HasFlag(FlagsAt(a).val, V2_FLAG_PATH_HOPS)
             /\ there = HasFlag(FlagsAt(b).val, V2_FLAG_PATH_HOPS) /\ d = 1
      BY <1>11
    <2>3. HopsAt(a).ok => here = there
      BY <1>9, <1>10, <2>2
    <2>4. /\ Follows(ReadIf(here, read_u8(HopsAt(a)), HopsAt(a), d), ReadIf(there, read_u8(HopsAt(b)), HopsAt(b), d), w)
          /\ ReadIf(here, read_u8(HopsAt(a)), HopsAt(a), d).ok => HopsAt(a).ok
      BY <1>9, <2>1, <2>2, <2>3, ReadIfOfBoth
    <2> QED
      BY <1>9, <2>2, <2>4 DEF PathAt
  <1>13. Follows(NextHopAt(a), NextHopAt(b), w) /\ (NextHopAt(a).ok => FlagsAt(a).ok)
    <2>1. Follows(ReadName(PathAt(a)), ReadName(PathAt(b)), w) /\ (ReadName(PathAt(a)).ok => PathAt(a).ok)
      BY <1>12, NameOfBoth
    <2>2. PICK here, there, d :
             /\ here \in BOOLEAN /\ there \in BOOLEAN
             /\ here = HasFlag(FlagsAt(a).val, V2_FLAG_NEXT_HOP)
             /\ there = HasFlag(FlagsAt(b).val, V2_FLAG_NEXT_HOP) /\ d = Empty
      BY <1>11
    <2>3. PathAt(a).ok => here = there
      BY <1>12, <1>10, <2>2
    <2>4. /\ Follows(ReadIf(here, ReadName(PathAt(a)), PathAt(a), d), ReadIf(there, ReadName(PathAt(b)), PathAt(b), d), w)
          /\ ReadIf(here, ReadName(PathAt(a)), PathAt(a), d).ok => PathAt(a).ok
      BY <1>12, <2>1, <2>2, <2>3, ReadIfOfBoth
    <2> QED
      BY <1>12, <2>2, <2>4 DEF NextHopAt
  <1>14. Follows(LocationAt(a), LocationAt(b), w)
    <2>1. /\ Follows(ReadLocation(NextHopAt(a)), ReadLocation(NextHopAt(b)), w)
          /\ ReadLocation(NextHopAt(a)).ok => NextHopAt(a).ok
      BY <1>13, LocationOfBoth
    <2>2. PICK here, there, d :
             /\ here \in BOOLEAN /\ there \in BOOLEAN
             /\ here = HasFlag(FlagsAt(a).val, V2_FLAG_LOCATION)
             /\ there = HasFlag(FlagsAt(b).val, V2_FLAG_LOCATION) /\ d = NoLocation
      BY <1>11
    <2>3. NextHopAt(a).ok => here = there
      BY <1>13, <1>10, <2>2
    <2>4. Follows(ReadIf(here, ReadLocation(NextHopAt(a)), NextHopAt(a), d),
                  ReadIf(there, ReadLocation(NextHopAt(b)), NextHopAt(b), d), w)
      BY <1>13, <2>1, <2>2, <2>3, ReadIfOfBoth
    <2> QED
      BY <2>2, <2>4 DEF LocationAt
  <1> QED
    BY <1>14, PayloadOfBoth DEF PayloadAt

\* If the parser of b reads b to its end, it refuses every shorter beginning.
LEMMA BeginningsAreRefused ==
    ASSUME NEW b \in Seq(Wire), PayloadAt(b).rest = <<>>, NEW n \in 0 .. Len(b) - 1
    PROVE  ~parse_mesh_packet_v2(SubSeq(b, 1, n)).valid
  <1> DEFINE a == SubSeq(b, 1, n)
             w == SubSeq(b, n + 1, Len(b))
  <1>1. a \in Seq(Wire) /\ w \in Seq(Wire) /\ b = a \o w /\ w # <<>>
    <2>1. Len(b) \in Nat /\ n \in Nat /\ n + 1 \in 1 .. Len(b) /\ n \in 0 .. Len(b) /\ \A i \in 1 .. Len(b) : b[i] \in Wire
      BY ElementOfSeq, LenProperties
    <2>2. a \in Seq(Wire) /\ w \in Seq(Wire)
      <3>1. \A i \in 1 .. n : b[i] \in Wire
        BY <2>1
      <3>2. \A i \in n + 1 .. Len(b) : b[i] \in Wire
        BY <2>1
      <3>3. a \in Seq(Wire)
        BY <2>1, <3>1, SubSeqProperties
      <3>4. w \in Seq(Wire)
        BY <2>1, <3>2, SubSeqProperties
      <3> QED
        BY <3>3, <3>4
    <2>3. Len(w) # 0
      <3>1. Len(w) = IF n + 1 <= Len(b) THEN Len(b) - (n + 1) + 1 ELSE 0
        BY <2>1, SubSeqProperties
      <3> QED
        BY <2>1, <3>1
    <2>4. b = a \o w
      <3>1. PICK one, m : /\ one = 1 /\ m = Len(b)
                          /\ one \in 1 .. Len(b) + 1 /\ n \in one - 1 .. Len(b) /\ m \in n .. Len(b)
        BY <2>1
      <3>2. SubSeq(b, one, n) \o SubSeq(b, n + 1, m) = SubSeq(b, one, m)
        BY <3>1, ConcatAdjacentSubSeq
      <3>3. SubSeq(b, 1, Len(b)) = b
        BY SubSeqFull
      <3> QED
        BY <3>1, <3>2, <3>3
    <2> QED
      BY <2>2, <2>3, <2>4, EmptySeq
  <1> HIDE DEF a, w
  <1>2. Follows(PayloadAt(a), PayloadAt(b), w)
    BY <1>1, BeginningFollows
  <1>3. ~PayloadAt(a).ok
    <2> SUFFICES ASSUME PayloadAt(a).ok PROVE FALSE
      OBVIOUS
    <2>1. PICK s \in Seq(Wire) : s = PayloadAt(a).rest /\ s \o w = <<>>
      BY <1>2 DEF Follows
    <2>2. w = <<>>
      BY <1>1, <2>1, ConcatEqualIffEmpty
    <2> QED
      BY <1>1, <2>2
  <1>4. parse_mesh_packet_v2(a) = Invalid
    BY <1>3, ParserReads
  <1> QED
    BY <1>4 DEF Invalid, a

-----------------------------------------------------------------------------
(* What was written is read                                                *)

\* A reader that has come to s, with the value v.
Got(s, v) == [ok |-> TRUE, rest |-> s, val |-> v]

\* Its value is v, and can be another.
LEMMA ValueOfGot ==
    \A s, v, d : Got(s, v).val = v /\ Got(s, v).ok /\ [Got(s, v) EXCEPT !.val = d] = Got(s, d)
  <1>1. ASSUME NEW s, NEW v, NEW d PROVE [Got(s, v) EXCEPT !.val = d] = Got(s, d)
    <2> DEFINE r == [[ok |-> TRUE, rest |-> s, val |-> v] EXCEPT !.val = d]
    <2>1. r = [f \in {"ok", "rest", "val"} |-> r[f]]
      OBVIOUS
    <2>2. r["ok"] = TRUE /\ r["rest"] = s /\ r["val"] = d
      OBVIOUS
    <2>3. Got(s, d) = [f \in {"ok", "rest", "val"} |-> Got(s, d)[f]]
      BY DEF Got
    <2>4. Got(s, d)["ok"] = TRUE /\ Got(s, d)["rest"] = s /\ Got(s, d)["val"] = d
      BY DEF Got
    <2>5. r = [Got(s, v) EXCEPT !.val = d]
      BY Zenon DEF Got
    <2> HIDE DEF r
    <2>6. \A f \in {"ok", "rest", "val"} : r[f] = Got(s, d)[f]
      BY <2>2, <2>4
    <2> QED
      BY <2>1, <2>3, <2>5, <2>6
  <1>2. \A s, v : Got(s, v).val = v /\ Got(s, v).ok
    BY DEF Got
  <1> QED
    BY <1>1, <1>2

\* The two halves of a concatenation.
LEMMA HalvesOfConcat ==
    ASSUME NEW s \in Seq(Wire), NEW w \in Seq(Wire)
    PROVE  /\ SubSeq(s \o w, 1, Len(s)) = s
           /\ SubSeq(s \o w, Len(s) + 1, Len(s \o w)) = w
           /\ Len(s) <= Len(s \o w)
  <1>1. PICK n \in Nat : n = Len(s)
    BY LenProperties
  <1>2. /\ SubSeq(s \o w, 1, n) = SubSeq(s, 1, n)
        /\ SubSeq(s \o w, n + 1, Len(s \o w)) = SubSeq(s, n + 1, n) \o w
        /\ n <= Len(s \o w)
    BY <1>1, PartOfMore
  <1>3. SubSeq(s, 1, n) = s
    BY <1>1, SubSeqFull
  <1>4. SubSeq(s, n + 1, n) = <<>>
    <2>1. n + 1 \in Int /\ n \in Int /\ n < n + 1
      OBVIOUS
    <2> QED
      BY <2>1, SubSeqEmpty
  <1>5. <<>> \o w = w
    BY ConcatEmptySeq
  <1> QED
    BY <1>1, <1>2, <1>3, <1>4, <1>5

\* A byte and what follows it.
LEMMA ByteIsRead ==
    ASSUME NEW s \in Seq(Wire), NEW n \in Nat, NEW v
    PROVE  /\ read_u8(Got(<<Byte(n)>> \o s, v)) = Got(s, n)
           /\ <<Byte(n)>> \in Seq(Wire) /\ <<Byte(n)>> \o s \in Seq(Wire)
           /\ Len(<<Byte(n)>> \o s) = 1 + Len(s) /\ Len(s) \in Nat
  <1>1. PICK b \in Wire : b = Byte(n) /\ b[2] = n
    BY BytesAreWire
  <1>2. <<b>> \in Seq(Wire) /\ <<b>> # <<>> /\ Head(<<b>>) = b /\ Tail(<<b>>) = <<>> /\ Len(<<b>>) = 1
    OBVIOUS
  <1>3. <<b>> \o s \in Seq(Wire) /\ Len(<<b>> \o s) = 1 + Len(s) /\ Len(s) \in Nat
    BY <1>2, ConcatProperties, LenProperties
  <1>4. <<b>> \o s # <<>> /\ Head(<<b>> \o s) = b /\ Tail(<<b>> \o s) = <<>> \o s
    BY <1>2, FirstOfMore
  <1>5. <<>> \o s = s
    BY ConcatEmptySeq
  <1>6. PICK r : r = <<b>> \o s
    OBVIOUS
  <1>7. r # <<>> /\ Head(r) = b /\ Tail(r) = s
    BY <1>4, <1>5, <1>6
  <1>8. read_u8(Got(r, v)) = Got(s, b[2])
    BY <1>7 DEF read_u8, Got
  <1> QED
    BY <1>1, <1>2, <1>3, <1>6, <1>8

\* A text of known length.
LEMMA TextIsRead ==
    ASSUME NEW s \in Seq(Wire), NEW t, NEW size \in Nat, IsText(t, size), NEW v
    PROVE  read_bytes(Got(Bytes(t) \o s, v), t.len, size) = Got(s, t)
  <1>1. PICK b \in Seq(Wire) : b = Bytes(t) /\ Len(b) = t.len /\ FromBytes(b) = t
    BY BytesAreWire, TextFromBytes DEF IsText
  <1>2. SubSeq(b \o s, 1, t.len) = b /\ SubSeq(b \o s, t.len + 1, Len(b \o s)) = s /\ t.len <= Len(b \o s)
    <2>1. /\ SubSeq(b \o s, 1, Len(b)) = b /\ SubSeq(b \o s, Len(b) + 1, Len(b \o s)) = s
          /\ Len(b) <= Len(b \o s)
      BY HalvesOfConcat
    <2> QED
      BY <1>1, <2>1, Zenon
  <1>3. t.len < size
    BY DEF IsText
  <1>4. PICK r, n : r = b \o s /\ n = t.len
    OBVIOUS
  <1>5. read_bytes(Got(r, v), n, size) = [ok |-> TRUE, rest |-> SubSeq(r, n + 1, Len(r)), val |-> FromBytes(SubSeq(r, 1, n))]
    BY <1>2, <1>3, <1>4 DEF read_bytes, Got
  <1> QED
    BY <1>1, <1>2, <1>4, <1>5 DEF Got

\* A text with its length before it.
LEMMA CountedIs ==
    ASSUME NEW s \in Seq(Wire), NEW t, IsWord(t)
    PROVE  /\ Counted(t) \in Seq(Wire) /\ Len(Counted(t)) = 1 + t.len
           /\ Counted(t) \o s = <<Byte(t.len)>> \o (Bytes(t) \o s) /\ Bytes(t) \o s \in Seq(Wire)
  <1>1. PICK b \in Seq(Wire) : b = Bytes(t) /\ Len(b) = t.len
    BY BytesAreWire
  <1>2. t.len \in Nat
    BY DEF IsWord
  <1>3. PICK c \in Seq(Wire) : c = <<Byte(t.len)>>
    BY <1>2, ByteIsRead
  <1>4. c \o b \in Seq(Wire) /\ Len(c \o b) = 1 + Len(b)
    BY <1>1, <1>2, <1>3, ByteIsRead
  <1>5. (c \o b) \o s = c \o (b \o s) /\ b \o s \in Seq(Wire)
    BY ConcatAssociative, ConcatProperties
  <1>6. Counted(t) = c \o b
    BY <1>1, <1>3 DEF Counted
  <1> QED
    BY <1>1, <1>3, <1>4, <1>5, <1>6

\* A node id.
LEMMA NameIsRead ==
    ASSUME NEW s \in Seq(Wire), NEW t, IsNodeId(t), NEW v
    PROVE  ReadName(Got(Counted(t) \o s, v)) = Got(s, t)
  <1>1. IsText(t, FIELD_LEN) /\ IsWord(t) /\ t.len \in Nat /\ t.len # 0 /\ FIELD_LEN \in Nat
    BY CodecAssumption DEF IsNodeId, IsText, IsWord
  <1>2. PICK r, b, n : r = Counted(t) \o s /\ b = Bytes(t) \o s /\ n = t.len
    OBVIOUS
  <1>3. r = <<Byte(n)>> \o b /\ b \in Seq(Wire)
    BY <1>1, <1>2, CountedIs
  <1>4. read_u8(Got(r, v)) = Got(b, n)
    BY <1>1, <1>2, <1>3, ByteIsRead, ZenonT(40)
  <1>5. read_bytes(Got(b, n), n, FIELD_LEN) = Got(s, t)
    BY <1>1, <1>2, TextIsRead
  <1>6. Got(b, n).val = n
    BY DEF Got
  <1> QED
    BY <1>1, <1>2, <1>4, <1>5, <1>6 DEF ReadName

\* A destination.
DestinationBytes(d) == IF d = ToAll THEN <<Byte(V2_BROADCAST_ID)>> ELSE Counted(d)

\* It is read as it was written.
LEMMA DestinationIsRead ==
    ASSUME NEW s \in Seq(Wire), NEW d, IsNodeId(d) \/ d = ToAll, NEW v
    PROVE  /\ ReadDestination(Got(DestinationBytes(d) \o s, v)) = Got(s, d)
           /\ DestinationBytes(d) \in Seq(Wire)
           /\ Len(DestinationBytes(d)) = IF d = ToAll THEN 1 ELSE 1 + d.len
  <1>1. CASE d = ToAll
    <2>1. PICK n \in Nat : n = V2_BROADCAST_ID
      BY DEF V2_BROADCAST_ID
    <2>2. DestinationBytes(d) = <<Byte(n)>>
      BY <1>1, <2>1 DEF DestinationBytes
    <2>3. /\ read_u8(Got(<<Byte(n)>> \o s, v)) = Got(s, n)
          /\ <<Byte(n)>> \in Seq(Wire) /\ Len(<<Byte(n)>>) = 1
      BY ByteIsRead
    <2>4. Got(s, n).val = n /\ [Got(s, n) EXCEPT !.val = ToAll] = Got(s, ToAll)
      BY ValueOfGot
    <2>5. ReadDestination(Got(<<Byte(n)>> \o s, v)) = Got(s, ToAll)
      BY <2>1, <2>3, <2>4 DEF ReadDestination
    <2> QED
      BY <1>1, <2>2, <2>3, <2>5
  <1>2. CASE d # ToAll
    <2>1. IsNodeId(d) /\ IsWord(d) /\ d.len \in Nat /\ d.len # V2_BROADCAST_ID
      BY <1>2, CodecAssumption DEF IsNodeId, IsText, IsWord, V2_BROADCAST_ID
    <2>2. DestinationBytes(d) = Counted(d)
      BY <1>2 DEF DestinationBytes
    <2>3. PICK r, b, n : r = Counted(d) \o s /\ b = Bytes(d) \o s /\ n = d.len
      OBVIOUS
    <2>4. r = <<Byte(n)>> \o b /\ b \in Seq(Wire) /\ Counted(d) \in Seq(Wire) /\ Len(Counted(d)) = 1 + n
      BY <2>1, <2>3, CountedIs
    <2>5. read_u8(Got(r, v)) = Got(b, n)
      BY <2>1, <2>3, <2>4, ByteIsRead
    <2>6. Got(b, n).val = n
      BY DEF Got
    <2>7. ReadName(Got(r, v)) = Got(s, d)
      BY <2>1, <2>3, NameIsRead
    <2>8. ReadDestination(Got(r, v)) = Got(s, d)
      BY <2>1, <2>3, <2>5, <2>6, <2>7 DEF ReadDestination
    <2> QED
      BY <1>2, <2>2, <2>3, <2>4, <2>8
  <1> QED
    BY <1>1, <1>2

\* What is between two parts of a sequence.
LEMMA MiddleOfConcat ==
    ASSUME NEW r \in Seq(Wire), NEW s \in Seq(Wire), NEW t \in Seq(Wire)
    PROVE  SubSeq(r \o (s \o t), Len(r) + 1, Len(r) + Len(s)) = s
  <1> DEFINE b == r \o (s \o t)
  <1>1. PICK m \in Nat, n \in Nat, k \in Nat : m = Len(r) /\ n = Len(s) /\ k = Len(t)
    BY LenProperties
  <1>2. s \o t \in Seq(Wire) /\ Len(s \o t) = n + k
    BY <1>1, ConcatProperties
  <1>3. b \in Seq(Wire) /\ Len(b) = m + (n + k)
    BY <1>1, <1>2, ConcatProperties
  <1>4. ASSUME NEW i \in 1 .. n PROVE b[m + i] = s[i] /\ b[m + i] \in Wire
    <2>1. m + i \in 1 .. m + (n + k) /\ ~(m + i <= m) /\ m + i - m = i /\ i \in 1 .. n + k /\ i <= n
      BY <1>1
    <2>2. b[m + i] = (s \o t)[m + i - m]
      BY <1>1, <1>2, <2>1, ConcatProperties
    <2>3. (s \o t)[i] = s[i]
      BY <1>1, <2>1, ConcatProperties
    <2>4. b[m + i] \in Wire
      BY <1>3, <2>1, ElementOfSeq
    <2> QED
      BY <2>1, <2>2, <2>3, <2>4
  <1> HIDE DEF b
  <1>5. SubSeq(b, m + 1, m + n) \in Seq(Wire) /\ Len(SubSeq(b, m + 1, m + n)) = n
        /\ \A i \in 1 .. n : SubSeq(b, m + 1, m + n)[i] = b[m + i]
    <2>1. m + 1 \in Int /\ m + n \in Int /\ \A i \in m + 1 .. m + n : b[i] \in Wire
      BY <1>3, ElementOfSeq
    <2>2. PICK c : c = SubSeq(b, m + 1, m + n)
      OBVIOUS
    <2>3. /\ c \in Seq(Wire) /\ Len(c) = (IF m + 1 <= m + n THEN m + n - (m + 1) + 1 ELSE 0)
          /\ \A i \in 1 .. m + n - (m + 1) + 1 : c[i] = b[m + 1 + i - 1]
      BY <2>1, <2>2, SubSeqProperties
    <2>4. m + n - (m + 1) + 1 = n
      OBVIOUS
    <2>5. ASSUME NEW i \in 1 .. n PROVE c[i] = b[m + i]
      <3>1. m + 1 + i - 1 = m + i
        OBVIOUS
      <3> QED
        BY <2>3, <2>4, <3>1
    <2>6. Len(c) = n
      BY <2>3, <2>4
    <2> QED
      BY <2>2, <2>3, <2>5, <2>6, Zenon
  <1>6. SubSeq(b, m + 1, m + n) = s
    BY <1>1, <1>4, <1>5, SeqEqual
  <1> QED
    BY <1>1, <1>6 DEF b

\* Sequences of bytes, their length and their concatenation, as ideas the
\* provers need not look into.
WireSeq == Seq(Wire)
Then(r, s) == r \o s
Size(r) == Len(r)

\* Two sequences of bytes make one, as long as both.
LEMMA ThenIs ==
    /\ \A r \in WireSeq : Size(r) \in Nat
    /\ \A r, s \in WireSeq : Then(r, s) \in WireSeq /\ Size(Then(r, s)) = Size(r) + Size(s)
  BY ConcatProperties, LenProperties DEF WireSeq, Then, Size

\* In whichever order three are put together.
LEMMA ThenAssociates ==
    \A r, s, t \in WireSeq : Then(Then(r, s), t) = Then(r, Then(s, t))
  BY ConcatAssociative DEF WireSeq, Then

\* The bytes of the first, then those of the second.
LEMMA ThenAt ==
    ASSUME NEW r \in WireSeq, NEW s \in WireSeq, NEW m \in Nat, NEW n \in Nat, m = Size(r), n = Size(s),
           NEW i \in 1 .. m + n
    PROVE  Then(r, s)[i] = IF i <= m THEN r[i] ELSE s[i - m]
  BY ConcatProperties DEF WireSeq, Then, Size

\* The first, the second, and the one between two others.
LEMMA ThenParts ==
    /\ \A s, w \in WireSeq :
         /\ SubSeq(Then(s, w), 1, Size(s)) = s
         /\ SubSeq(Then(s, w), Size(s) + 1, Size(Then(s, w))) = w
    /\ \A a, s, t \in WireSeq : SubSeq(Then(a, Then(s, t)), Size(a) + 1, Size(a) + Size(s)) = s
  <1>1. \A s, w \in WireSeq : /\ SubSeq(Then(s, w), 1, Size(s)) = s
                            /\ SubSeq(Then(s, w), Size(s) + 1, Size(Then(s, w))) = w
    BY HalvesOfConcat DEF WireSeq, Then, Size
  <1>2. ASSUME NEW a \in WireSeq, NEW s \in WireSeq, NEW t \in WireSeq
        PROVE  SubSeq(Then(a, Then(s, t)), Size(a) + 1, Size(a) + Size(s)) = s
    <2>1. PICK m \in Nat, n \in Nat : m = Size(a) /\ n = Size(s)
      BY LenProperties DEF WireSeq, Size
    <2>2. SubSeq(a \o (s \o t), m + 1, m + n) = s
      BY <2>1, MiddleOfConcat DEF WireSeq, Size
    <2> QED
      BY <2>1, <2>2 DEF Then, Size
  <1> QED
    BY <1>1, <1>2

\* Three parts, of lengths s, g and m, with a separator w between them.
Without(A, s, w) == Size(A) = s /\ \A i \in 1 .. s : A[i] # w
Separated(b, A, s, B, g, C, m, w) ==
    /\ b \in WireSeq /\ Size(b) = s + g + m + 2
    /\ {i \in DOMAIN b : b[i] = w} = {s + 1, s + g + 2}
    /\ SubSeq(b, 1, s) = A
    /\ SubSeq(b, s + 2, s + g + 1) = B
    /\ SubSeq(b, s + g + 3, Size(b)) = C

\* They are found by their separators.
LEMMA ThreeParts ==
    ASSUME NEW w, NEW A \in WireSeq, NEW B \in WireSeq, NEW C \in WireSeq, NEW T \in WireSeq,
           NEW s \in Nat, NEW g \in Nat, NEW m \in Nat,
           Without(A, s, w), Without(B, g, w), Without(C, m, w), Size(T) = 1, T[1] = w
    PROVE  Separated(Then(Then(Then(Then(A, T), B), T), C), A, s, B, g, C, m, w)
  <1>1. Size(A) = s /\ Size(B) = g /\ Size(C) = m
    BY DEF Without
  <1>2. /\ \A i \in 1 .. s : A[i] # w
        /\ \A i \in 1 .. g : B[i] # w
        /\ \A i \in 1 .. m : C[i] # w
    BY DEF Without
  <1> USE <1>1, <1>2
  <1>5. PICK d, c : d = Then(A, T) /\ c = Then(T, C)
    OBVIOUS
  <1>6. PICK e, f : e = Then(B, c) /\ f = Then(d, B)
    OBVIOUS
  <1>7. PICK b, h, x : b = Then(d, e) /\ h = Then(f, T) /\ x = Then(T, e)
    OBVIOUS
  <1>8. /\ d \in WireSeq /\ c \in WireSeq /\ e \in WireSeq /\ f \in WireSeq
        /\ b \in WireSeq /\ h \in WireSeq /\ x \in WireSeq
    BY <1>5, <1>6, <1>7, ThenIs
  <1>9. /\ Size(d) = s + 1 /\ Size(c) = 1 + m /\ Size(e) = g + (1 + m)
        /\ Size(b) = (s + 1) + (g + (1 + m)) /\ Size(h) = s + g + 2
    <2>1. Size(d) = s + 1 /\ Size(c) = 1 + m
      BY <1>5, ThenIs
    <2>2. Size(e) = g + (1 + m) /\ Size(f) = (s + 1) + g
      BY <1>6, <1>8, <2>1, ThenIs
    <2>3. Size(b) = (s + 1) + (g + (1 + m)) /\ Size(h) = ((s + 1) + g) + 1
      BY <1>7, <1>8, <2>1, <2>2, ThenIs
    <2> QED
      BY <2>1, <2>2, <2>3
  <1>10. b = Then(Then(Then(Then(A, T), B), T), C) /\ b = Then(h, C) /\ b = Then(A, x)
    <2>2. Then(Then(Then(Then(A, T), B), T), C) = Then(h, C)
      BY <1>5, <1>6, <1>7
    <2>3. Then(h, C) = Then(f, c)
      BY <1>5, <1>7, <1>8, ThenIs, ThenAssociates
    <2>4. Then(f, c) = Then(d, e)
      BY <1>6, <1>8, ThenIs, ThenAssociates
    <2>5. Then(d, e) = Then(A, x)
      BY <1>5, <1>7, <1>8, ThenIs, ThenAssociates
    <2> QED
      BY <1>7, <2>2, <2>3, <2>4, <2>5
  <1>11. SubSeq(b, 1, s) = A
    <2>1. SubSeq(Then(A, x), 1, Size(A)) = A
      BY <1>8, ThenParts
    <2> QED
      BY <1>10, <2>1
  <1>12. SubSeq(b, s + 2, s + g + 1) = B
    <2>1. SubSeq(b, Size(d) + 1, Size(d) + Size(B)) = B
      BY <1>6, <1>7, <1>8, ThenParts
    <2>2. Size(d) + 1 = s + 2 /\ Size(d) + Size(B) = s + g + 1
      BY <1>9
    <2> QED
      BY <2>1, <2>2
  <1>13. SubSeq(b, s + g + 3, Size(b)) = C
    <2>0. SubSeq(Then(h, C), Size(h) + 1, Size(Then(h, C))) = C
      BY <1>8, ThenParts
    <2>1. SubSeq(b, Size(h) + 1, Size(b)) = C
      BY <1>10, <2>0, Zenon
    <2>2. Size(h) + 1 = s + g + 3
      BY <1>9
    <2> QED
      BY <2>1, <2>2
  <1>14. /\ \A i \in 1 .. s + 1 : d[i] = IF i <= s THEN A[i] ELSE T[i - s]
         /\ \A i \in 1 .. 1 + m : c[i] = IF i <= 1 THEN T[i] ELSE C[i - 1]
    BY <1>5, ThenAt
  <1>15. \A i \in 1 .. g + (1 + m) : e[i] = IF i <= g THEN B[i] ELSE c[i - g]
    <2>1. PICK n \in Nat : n = 1 + m
      OBVIOUS
    <2> QED
      BY <1>6, <1>8, <1>9, <2>1, ThenAt, SMTT(20)
  <1>16. \A i \in 1 .. (s + 1) + (g + (1 + m)) : b[i] = IF i <= s + 1 THEN d[i] ELSE e[i - (s + 1)]
    <2>1. PICK k \in Nat, n \in Nat : k = s + 1 /\ n = g + (1 + m)
      OBVIOUS
    <2> QED
      BY <1>7, <1>8, <1>9, <2>1, ThenAt, SMTT(20)
  <1>17. ASSUME NEW i \in 1 .. (s + 1) + (g + (1 + m)), NEW j \in Int, j = i - (s + 1), NEW k \in Int, k = j - g
         PROVE  b[i] = w <=> i \in {s + 1, s + g + 2}
    <2>1. CASE i <= s
      <3>1. i \in 1 .. s /\ i <= s + 1 /\ i \in 1 .. s + 1 /\ i \notin {s + 1, s + g + 2}
        BY <2>1
      <3>2. b[i] = d[i] /\ d[i] = A[i]
        BY <1>14, <1>16, <2>1, <3>1
      <3> QED
        BY <3>1, <3>2
    <2>2. CASE i = s + 1
      <3>1. i \in 1 .. s + 1 /\ i <= s + 1 /\ ~(i <= s) /\ i - s = 1
        BY <2>2
      <3>2. b[i] = d[i]
        BY <1>16, <3>1
      <3>3. d[i] = T[i - s]
        BY <1>14, <3>1
      <3> QED
        BY <2>2, <3>1, <3>2, <3>3
    <2>3. CASE ~(i <= s + 1)
      <3>1. j \in 1 .. g + (1 + m) /\ b[i] = e[j] /\ i # s + 1
        BY <1>16, <1>17, <2>3
      <3>2. CASE j <= g
        <4>1. j \in 1 .. g /\ i # s + g + 2
          BY <1>17, <3>1, <3>2
        <4> QED
          BY <1>15, <3>1, <3>2, <4>1
      <3>3. CASE ~(j <= g)
        <4>1. k \in 1 .. 1 + m /\ (i = s + g + 2 <=> k = 1)
          BY <1>17, <3>1, <3>3
        <4>2. e[j] = c[k]
          BY <1>15, <1>17, <3>1, <3>3
        <4>3. CASE k = 1
          <5>1. k <= 1 /\ c[k] = T[k]
            BY <1>14, <4>1, <4>3
          <5> QED
            BY <3>1, <4>1, <4>2, <4>3, <5>1
        <4>4. CASE k # 1
          <5>1. k - 1 \in 1 .. m /\ ~(k <= 1)
            BY <4>1, <4>4
          <5>2. c[k] = C[k - 1]
            BY <1>14, <4>1, <5>1
          <5> QED
            BY <3>1, <4>1, <4>2, <4>4, <5>1, <5>2
        <4> QED
          BY <4>3, <4>4
      <3> QED
        BY <3>2, <3>3
    <2> QED
      BY <2>1, <2>2, <2>3
  <1>18. {i \in DOMAIN b : b[i] = w} = {s + 1, s + g + 2}
    <2>1. DOMAIN b = 1 .. (s + 1) + (g + (1 + m))
      BY <1>8, <1>9, LenProperties DEF WireSeq, Size
    <2>2. s + 1 \in 1 .. (s + 1) + (g + (1 + m)) /\ s + g + 2 \in 1 .. (s + 1) + (g + (1 + m))
      OBVIOUS
    <2>3. ASSUME NEW i \in 1 .. (s + 1) + (g + (1 + m)) PROVE b[i] = w <=> i \in {s + 1, s + g + 2}
      <3>1. i - (s + 1) \in Int /\ i - (s + 1) - g \in Int
        OBVIOUS
      <3> QED
        BY <1>17, <3>1
    <2> QED
      BY <2>1, <2>2, <2>3
  <1>19. Size(b) = s + g + m + 2
    BY <1>9
  <1> QED
    BY <1>8, <1>10, <1>11, <1>12, <1>13, <1>18, <1>19 DEF Separated

\* The bytes of an encoded location, and where its separators are.
LEMMA EncodedLocation ==
    ASSUME NEW l, IsLocation(l), NEW s \in Nat, NEW g \in Nat, NEW m \in Nat,
           s = l.sitio.len, g = l.barangay.len, m = l.municipality.len
    PROVE  Separated(location_encode(l), Bytes(l.sitio), s, Bytes(l.barangay), g, Bytes(l.municipality), m, Tilde)
  <1>1. IsWord(l.sitio) /\ IsWord(l.barangay) /\ IsWord(l.municipality)
    BY DEF IsLocation
  <1>2. ASSUME NEW t, IsWord(t), NEW n \in Nat, n = t.len
        PROVE  Bytes(t) \in WireSeq /\ Without(Bytes(t), n, Tilde)
    <2>1. Bytes(t) \in WireSeq /\ Size(Bytes(t)) = n
      BY <1>2, BytesAreWire DEF WireSeq, Size
    <2>2. \A i \in 1 .. n : Bytes(t)[i] # Tilde
      BY <1>2 DEF Bytes, Tilde
    <2> QED
      BY <2>1, <2>2 DEF Without
  <1>3. PICK A \in WireSeq, B \in WireSeq, C \in WireSeq :
          /\ A = Bytes(l.sitio) /\ B = Bytes(l.barangay) /\ C = Bytes(l.municipality)
          /\ Without(A, s, Tilde) /\ Without(B, g, Tilde) /\ Without(C, m, Tilde)
    BY <1>1, <1>2
  <1>4. PICK T \in WireSeq : T = <<Tilde>> /\ Size(T) = 1 /\ T[1] = Tilde
    <2>1. PICK w \in Wire : w = Tilde
      BY DEF Tilde, Wire
    <2>2. <<w>> \in WireSeq /\ Size(<<w>>) = 1 /\ <<w>>[1] = w
      BY DEF WireSeq, Size
    <2> QED
      BY <2>1, <2>2
  <1>5. location_encode(l) = Then(Then(Then(Then(A, T), B), T), C)
    BY <1>3, <1>4 DEF location_encode, Then
  <1>6. Without(A, s, Tilde) /\ Without(B, g, Tilde) /\ Without(C, m, Tilde)
    BY <1>3
  <1>7. Size(T) = 1 /\ T[1] = Tilde
    BY <1>4
  <1>8. Separated(Then(Then(Then(Then(A, T), B), T), C), A, s, B, g, C, m, Tilde)
    BY <1>6, <1>7, ThreeParts
  <1> QED
    BY <1>3, <1>5, <1>8, Zenon

\* A location comes out of its bytes as it went in.
LEMMA DecodedLocation ==
    ASSUME NEW b, NEW s \in Nat, NEW g \in Nat, {i \in DOMAIN b : b[i] = Tilde} = {s + 1, s + g + 2}
    PROVE  location_decode(b) =
             [sitio |-> FromBytes(SubSeq(b, 1, s)), barangay |-> FromBytes(SubSeq(b, s + 2, s + g + 1)),
              municipality |-> FromBytes(SubSeq(b, s + g + 3, Len(b)))]
  <1> DEFINE at == {i \in DOMAIN b : b[i] = Tilde}
             first == CHOOSE i \in at : \A j \in at : i <= j
             more  == at \ {first}
             second == CHOOSE i \in more : \A j \in more : i <= j
             Part(i, j) == FromBytes(SubSeq(b, i, j))
  <1>1. location_decode(b) =
          IF at = {} THEN [NoLocation EXCEPT !.barangay = Part(1, Len(b))]
          ELSE IF more = {}
          THEN [NoLocation EXCEPT !.sitio = Part(1, first - 1), !.barangay = Part(first + 1, Len(b))]
          ELSE [sitio |-> Part(1, first - 1), barangay |-> Part(first + 1, second - 1),
                municipality |-> Part(second + 1, Len(b))]
    BY Zenon DEF location_decode
  <1>2. at = {s + 1, s + g + 2}
    BY Zenon
  <1> HIDE DEF at
  <1>3. first = s + 1
    <2>1. s + 1 \in at /\ \A j \in at : s + 1 <= j
      BY <1>2
    <2>2. \A i \in at : (\A j \in at : i <= j) => i = s + 1
      BY <1>2
    <2> QED
      BY <2>1, <2>2
  <1> HIDE DEF first
  <1>4. more = {s + g + 2}
    BY <1>2, <1>3
  <1> HIDE DEF more
  <1>5. second = s + g + 2
    <2>1. s + g + 2 \in more /\ \A j \in more : s + g + 2 <= j
      BY <1>4
    <2>2. \A i \in more : i = s + g + 2
      BY <1>4
    <2> QED
      BY <2>1, <2>2
  <1> HIDE DEF second
  <1>6. at # {} /\ more # {}
    BY <1>2, <1>4
  <1>7. first - 1 = s /\ first + 1 = s + 2 /\ second - 1 = s + g + 1 /\ second + 1 = s + g + 3
    BY <1>3, <1>5
  <1> HIDE DEF Part
  <1>8. location_decode(b) = [sitio |-> Part(1, s), barangay |-> Part(s + 2, s + g + 1),
                              municipality |-> Part(s + g + 3, Len(b))]
    BY <1>1, <1>6, <1>7, Zenon
  <1> QED
    BY <1>8, Zenon DEF Part

\* A location is decoded to what was encoded (mesh_protocol.c:363-407).
LEMMA LocationRoundTrip ==
    ASSUME NEW l, IsLocation(l)
    PROVE  location_decode(location_encode(l)) = l /\ location_encode(l) \in WireSeq
  <1>1. /\ l = [sitio |-> l.sitio, barangay |-> l.barangay, municipality |-> l.municipality]
        /\ IsWord(l.sitio) /\ IsWord(l.barangay) /\ IsWord(l.municipality)
    BY DEF IsLocation
  <1>2. PICK s \in Nat, g \in Nat, m \in Nat : s = l.sitio.len /\ g = l.barangay.len /\ m = l.municipality.len
    BY <1>1 DEF IsWord
  <1>3. Separated(location_encode(l), Bytes(l.sitio), s, Bytes(l.barangay), g, Bytes(l.municipality), m, Tilde)
    BY <1>2, EncodedLocation
  <1>4. PICK b : b = location_encode(l)
    OBVIOUS
  <1>5. /\ {i \in DOMAIN b : b[i] = Tilde} = {s + 1, s + g + 2} /\ b \in WireSeq
        /\ SubSeq(b, 1, s) = Bytes(l.sitio)
        /\ SubSeq(b, s + 2, s + g + 1) = Bytes(l.barangay)
        /\ SubSeq(b, s + g + 3, Len(b)) = Bytes(l.municipality)
    BY <1>3, <1>4, Zenon DEF Separated, Size
  <1>6. location_decode(b) = [sitio |-> FromBytes(SubSeq(b, 1, s)), barangay |-> FromBytes(SubSeq(b, s + 2, s + g + 1)),
              municipality |-> FromBytes(SubSeq(b, s + g + 3, Len(b)))]
    BY <1>5, DecodedLocation
  <1>7. FromBytes(Bytes(l.sitio)) = l.sitio /\ FromBytes(Bytes(l.barangay)) = l.barangay
        /\ FromBytes(Bytes(l.municipality)) = l.municipality
    BY <1>1, TextFromBytes, Zenon
  <1>8. location_decode(b) = [sitio |-> l.sitio, barangay |-> l.barangay, municipality |-> l.municipality]
    BY <1>5, <1>6, <1>7, Zenon
  <1> QED
    BY <1>1, <1>4, <1>5, <1>8, Zenon

\* The reads of the parser, of what has their field before it.
OneByte(n) == <<Byte(n)>>
LocationBytes(l) == Then(OneByte(Size(location_encode(l))), location_encode(l))

\* Each kind of field is read as it was written, and what follows is left.
LEMMA FieldIsRead ==
    ASSUME NEW s \in WireSeq, NEW v
    PROVE  /\ \A n \in Nat : OneByte(n) \in WireSeq /\ Size(OneByte(n)) = 1
                             /\ read_u8(Got(Then(OneByte(n), s), v)) = Got(s, n)
           /\ \A t : IsWord(t) => Counted(t) \in WireSeq /\ Size(Counted(t)) = 1 + t.len
           /\ \A t : IsNodeId(t) => ReadName(Got(Then(Counted(t), s), v)) = Got(s, t)
           /\ \A d : IsNodeId(d) \/ d = ToAll =>
                /\ DestinationBytes(d) \in WireSeq
                /\ Size(DestinationBytes(d)) = IF d = ToAll THEN 1 ELSE 1 + d.len
                /\ ReadDestination(Got(Then(DestinationBytes(d), s), v)) = Got(s, d)
  <1>1. ASSUME NEW n \in Nat
        PROVE  OneByte(n) \in WireSeq /\ Size(OneByte(n)) = 1 /\ read_u8(Got(Then(OneByte(n), s), v)) = Got(s, n)
    <2>1. PICK b \in Wire : b = Byte(n)
      BY BytesAreWire
    <2>2. <<b>> \in WireSeq /\ Size(<<b>>) = 1
      BY DEF WireSeq, Size
    <2>3. read_u8(Got(<<Byte(n)>> \o s, v)) = Got(s, n)
      BY ByteIsRead DEF WireSeq
    <2> QED
      BY <2>1, <2>2, <2>3, Zenon DEF OneByte, Then
  <1>2. ASSUME NEW t, IsWord(t) PROVE Counted(t) \in WireSeq /\ Size(Counted(t)) = 1 + t.len
    BY <1>2, CountedIs DEF WireSeq, Size
  <1>3. ASSUME NEW t, IsNodeId(t) PROVE ReadName(Got(Then(Counted(t), s), v)) = Got(s, t)
    <2>1. ReadName(Got(Counted(t) \o s, v)) = Got(s, t)
      BY <1>3, NameIsRead DEF WireSeq
    <2> QED
      BY <2>1, Zenon DEF Then
  <1>4. ASSUME NEW d, IsNodeId(d) \/ d = ToAll
        PROVE  /\ DestinationBytes(d) \in WireSeq
               /\ Size(DestinationBytes(d)) = IF d = ToAll THEN 1 ELSE 1 + d.len
               /\ ReadDestination(Got(Then(DestinationBytes(d), s), v)) = Got(s, d)
    <2>1. /\ ReadDestination(Got(DestinationBytes(d) \o s, v)) = Got(s, d)
          /\ DestinationBytes(d) \in Seq(Wire)
          /\ Len(DestinationBytes(d)) = IF d = ToAll THEN 1 ELSE 1 + d.len
      BY <1>4, DestinationIsRead DEF WireSeq
    <2> QED
      BY <2>1, Zenon DEF Then, WireSeq, Size
  <1> QED
    BY <1>1, <1>2, <1>3, <1>4, Zenon

\* A text of known length.
LEMMA IdIsRead ==
    ASSUME NEW s \in WireSeq, NEW v, NEW t, NEW size \in Nat, IsText(t, size)
    PROVE  /\ Bytes(t) \in WireSeq /\ Size(Bytes(t)) = t.len
           /\ read_bytes(Got(Then(Bytes(t), s), v), t.len, size) = Got(s, t)
  <1>1. read_bytes(Got(Bytes(t) \o s, v), t.len, size) = Got(s, t)
    BY TextIsRead DEF WireSeq
  <1>2. Bytes(t) \in Seq(Wire) /\ Len(Bytes(t)) = t.len
    BY BytesAreWire DEF IsText
  <1> QED
    BY <1>1, <1>2, Zenon DEF Then, WireSeq, Size

\* The payload.
LEMMA PayloadIsRead ==
    ASSUME NEW s \in WireSeq, NEW v, NEW t, IsText(t, PAYLOAD_LEN)
    PROVE  ReadPayload(Got(Then(Counted(t), s), v)) = Got(s, t)
  <1>1. IsWord(t) /\ PAYLOAD_LEN \in Nat
    BY CodecAssumption DEF IsText
  <1>2. PICK n \in Nat : n = t.len
    BY <1>1 DEF IsWord
  <1>3. PICK b : b = Bytes(t) \o s
    OBVIOUS
  <1>4. Counted(t) \o s = <<Byte(n)>> \o b /\ b \in Seq(Wire)
    BY <1>1, <1>2, <1>3, CountedIs DEF WireSeq
  <1>5. PICK r : r = <<Byte(n)>> \o b
    OBVIOUS
  <1>6. read_u8(Got(r, v)) = Got(b, n)
    BY <1>4, <1>5, ByteIsRead
  <1>7. read_bytes(Got(b, n), n, PAYLOAD_LEN) = Got(s, t)
    BY <1>1, <1>2, <1>3, TextIsRead DEF WireSeq
  <1>8. Got(b, n).val = n
    BY DEF Got
  <1>9. ReadPayload(Got(r, v)) = Got(s, t)
    BY <1>6, <1>7, <1>8, Zenon DEF ReadPayload
  <1> QED
    BY <1>4, <1>5, <1>9, Zenon DEF Then

\* The location.
LEMMA LocationIsRead ==
    ASSUME NEW s \in WireSeq, NEW v, NEW l, IsLocation(l)
    PROVE  /\ ReadLocation(Got(Then(LocationBytes(l), s), v)) = Got(s, l)
           /\ read_u8(Got(Then(LocationBytes(l), s), v)).val = Size(location_encode(l))
           /\ LocationBytes(l) \in WireSeq /\ Size(LocationBytes(l)) = 1 + Size(location_encode(l))
  <1>1. PICK e \in WireSeq : e = location_encode(l) /\ location_decode(e) = l
    BY LocationRoundTrip
  <1>2. PICK n \in Nat : n = Size(e)
    BY ThenIs
  <1>3. OneByte(n) \in WireSeq /\ Size(OneByte(n)) = 1
    BY FieldIsRead
  <1>4. LocationBytes(l) = Then(OneByte(n), e)
    BY <1>1, <1>2, Zenon DEF LocationBytes
  <1>5. Then(OneByte(n), e) \in WireSeq /\ Size(Then(OneByte(n), e)) = 1 + n
    BY <1>2, <1>3, ThenIs
  <1>6. PICK b : b = Then(e, s)
    OBVIOUS
  <1>7. Then(Then(OneByte(n), e), s) = Then(OneByte(n), b) /\ b \in WireSeq
    BY <1>3, <1>6, ThenIs, ThenAssociates
  <1>8. read_u8(Got(Then(OneByte(n), b), v)) = Got(b, n)
    BY <1>7, FieldIsRead
  <1>9. SubSeq(b, 1, n) = e /\ SubSeq(b, n + 1, Len(b)) = s /\ n <= Len(b)
    <2>1. SubSeq(Then(e, s), 1, Size(e)) = e /\ SubSeq(Then(e, s), Size(e) + 1, Size(Then(e, s))) = s
      BY ThenParts
    <2>2. Size(Then(e, s)) = Size(e) + Size(s) /\ Size(s) \in Nat
      BY ThenIs
    <2>3. n <= Size(b)
      BY <1>2, <1>6, <2>2
    <2> QED
      BY <1>2, <1>6, <2>1, <2>3, Zenon DEF Size
  <1>10. Got(b, n).val = n /\ Got(b, n).ok = TRUE /\ Got(b, n).rest = b
    BY DEF Got
  <1>11. PICK r : r = Then(OneByte(n), b)
    OBVIOUS
  <1>12. ReadLocation(Got(r, v)) = [ok |-> TRUE, rest |-> s, val |-> l]
    <2>1. PICK len : len = read_u8(Got(r, v))
      OBVIOUS
    <2>2. len.ok /\ len.val = n /\ len.rest = b
      BY <1>8, <1>10, <1>11, <2>1
    <2>3. ReadLocation(Got(r, v)) = [ok |-> TRUE, rest |-> SubSeq(b, n + 1, Len(b)), val |-> location_decode(SubSeq(b, 1, n))]
      BY <1>9, <2>1, <2>2, Zenon DEF ReadLocation
    <2> QED
      BY <1>1, <1>9, <2>3, Zenon
  <1>13. ReadLocation(Got(r, v)) = Got(s, l) /\ read_u8(Got(r, v)).val = n
    BY <1>8, <1>10, <1>11, <1>12, Zenon DEF Got
  <1> QED
    BY <1>1, <1>2, <1>4, <1>5, <1>7, <1>11, <1>13, Zenon

-----------------------------------------------------------------------------
(* A packet of format V2, from the fields to the bytes and back             *)

\* The values a node builds a packet of: those sent, and those of a relay.
IsBody(p) ==
    /\ IsNodeId(p.source) /\ IsNodeId(p.relay)
    /\ IsNodeId(p.destination) \/ p.destination = ToAll
    /\ IsText(p.id, 5) /\ p.id.len = 4
    /\ p.priority \in {"LOW", "NORMAL", "HIGH"}
    /\ p.hops \in Nat /\ p.path_hops \in Nat
    /\ IsLocation(p.location) /\ p.location_raw \in BOOLEAN
    /\ IsText(p.payload, PAYLOAD_LEN)
IsWirePacket(p) == IsBody(p) /\ IsText(p.next_hop, FIELD_LEN)

Located(p) == p.location_raw \/ p.location # NoLocation
FlagsOf(p) == V2_FLAG_PATH_HOPS + (IF p.next_hop # Empty THEN V2_FLAG_NEXT_HOP ELSE 0)
                  + (IF Located(p) THEN V2_FLAG_LOCATION ELSE 0)

Magic == Then(OneByte(V2_MAGIC), OneByte(BEMS_PACKET_FORMAT_V2))
NextBytes(p) == IF p.next_hop # Empty THEN Counted(p.next_hop) ELSE <<>>
PlaceBytes(p) == IF Located(p) THEN LocationBytes(p.location) ELSE <<>>

\* What is left to read after each field.
AfterNext(p) == Then(PlaceBytes(p), Counted(p.payload))
AfterPath(p) == Then(NextBytes(p), AfterNext(p))
AfterHops(p) == Then(OneByte(p.path_hops), AfterPath(p))
AfterRelay(p) == Then(OneByte(p.hops), AfterHops(p))
AfterId(p) == Then(Counted(p.relay), AfterRelay(p))
AfterDestination(p) == Then(Bytes(p.id), AfterId(p))
AfterSource(p) == Then(DestinationBytes(p.destination), AfterDestination(p))
AfterPriority(p) == Then(Counted(p.source), AfterSource(p))
AfterType(p) == Then(OneByte(priority_to_u8(p.priority)), AfterPriority(p))
AfterFlags(p) == Then(OneByte(type_to_u8(p.type)), AfterType(p))
AfterMagic(p) == Then(OneByte(FlagsOf(p)), AfterFlags(p))
PacketBytes(p) == Then(Magic, AfterMagic(p))

\* Nine parts, however they are put together.
AreParts(h, a, b, c, d, e, f, g, k) ==
    /\ h \in WireSeq /\ a \in WireSeq /\ b \in WireSeq /\ c \in WireSeq /\ d \in WireSeq
    /\ e \in WireSeq /\ f \in WireSeq /\ g \in WireSeq /\ k \in WireSeq

\* However nine parts are put together.
LEMMA NineParts ==
    ASSUME NEW h, NEW a, NEW b, NEW c, NEW d, NEW e, NEW f, NEW g, NEW k, AreParts(h, a, b, c, d, e, f, g, k)
    PROVE  Then(Then(Then(Then(Then(Then(Then(Then(h, a), b), c), d), e), f), g), k)
             = Then(h, Then(a, Then(b, Then(c, Then(d, Then(e, Then(f, Then(g, k))))))))
  <1>1. PICK x1, x2, x3, x4, x5, x6, x7 :
          /\ x1 = Then(h, a) /\ x2 = Then(x1, b) /\ x3 = Then(x2, c) /\ x4 = Then(x3, d)
          /\ x5 = Then(x4, e) /\ x6 = Then(x5, f) /\ x7 = Then(x6, g)
    OBVIOUS
  <1>2. PICK y1, y2, y3, y4, y5, y6, y7 :
          /\ y7 = Then(g, k) /\ y6 = Then(f, y7) /\ y5 = Then(e, y6) /\ y4 = Then(d, y5)
          /\ y3 = Then(c, y4) /\ y2 = Then(b, y3) /\ y1 = Then(a, y2)
    OBVIOUS
  <1>0. /\ h \in WireSeq /\ a \in WireSeq /\ b \in WireSeq /\ c \in WireSeq /\ d \in WireSeq
        /\ e \in WireSeq /\ f \in WireSeq /\ g \in WireSeq /\ k \in WireSeq
    BY DEF AreParts
  <1>3. /\ x1 \in WireSeq /\ x2 \in WireSeq /\ x3 \in WireSeq /\ x4 \in WireSeq
        /\ x5 \in WireSeq /\ x6 \in WireSeq /\ x7 \in WireSeq
        /\ y1 \in WireSeq /\ y2 \in WireSeq /\ y3 \in WireSeq /\ y4 \in WireSeq
        /\ y5 \in WireSeq /\ y6 \in WireSeq /\ y7 \in WireSeq
    BY <1>0, <1>1, <1>2, ThenIs
  <1>4. Then(Then(x6, g), k) = Then(x6, Then(g, k))
    BY <1>0, <1>3, ThenIs, ThenAssociates
  <1>5. Then(Then(x5, f), y7) = Then(x5, Then(f, y7))
    BY <1>0, <1>3, ThenIs, ThenAssociates
  <1>6. Then(Then(x4, e), y6) = Then(x4, Then(e, y6))
    BY <1>0, <1>3, ThenIs, ThenAssociates
  <1>7. Then(Then(x3, d), y5) = Then(x3, Then(d, y5))
    BY <1>0, <1>3, ThenIs, ThenAssociates
  <1>8. Then(Then(x2, c), y4) = Then(x2, Then(c, y4))
    BY <1>0, <1>3, ThenIs, ThenAssociates
  <1>9. Then(Then(x1, b), y3) = Then(x1, Then(b, y3))
    BY <1>0, <1>3, ThenIs, ThenAssociates
  <1>10. Then(Then(h, a), y2) = Then(h, Then(a, y2))
    BY <1>0, <1>3, ThenIs, ThenAssociates
  <1> QED
    BY <1>1, <1>2, <1>4, <1>5, <1>6, <1>7, <1>8, <1>9, <1>10

\* The numbers of the fields that are numbers.
LEMMA NumbersOfPacket ==
    ASSUME NEW p, IsWirePacket(p)
    PROVE  /\ FlagsOf(p) \in Nat /\ type_to_u8(p.type) \in 1 .. 6 /\ priority_to_u8(p.priority) \in Nat
           /\ priority_from_u8(priority_to_u8(p.priority)) = p.priority
           /\ HasFlag(FlagsOf(p), V2_FLAG_PATH_HOPS)
           /\ HasFlag(FlagsOf(p), V2_FLAG_NEXT_HOP) <=> p.next_hop # Empty
           /\ HasFlag(FlagsOf(p), V2_FLAG_LOCATION) <=> Located(p)
  <1>1. type_to_u8(p.type) \in 1 .. 6
    <2>1. DOMAIN WireTypes = 1 .. 6 /\ 1 \in 1 .. 6
      BY DEF WireTypes
    <2>2. type_to_u8(p.type) \in DOMAIN WireTypes \/ type_to_u8(p.type) = 1
      BY Zenon DEF type_to_u8
    <2> QED
      BY <2>1, <2>2
  <1>2. /\ priority_to_u8(p.priority) \in Nat
        /\ priority_from_u8(priority_to_u8(p.priority)) = p.priority
    <2>1. PICK i \in DOMAIN WirePriorities : WirePriorities[i] = p.priority
      <3>1. p.priority \in {"LOW", "NORMAL", "HIGH"}
        BY DEF IsBody, IsWirePacket
      <3>2. 1 \in DOMAIN WirePriorities /\ 2 \in DOMAIN WirePriorities /\ 3 \in DOMAIN WirePriorities
            /\ WirePriorities[1] = "LOW" /\ WirePriorities[2] = "NORMAL" /\ WirePriorities[3] = "HIGH"
        BY DEF WirePriorities
      <3> QED
        BY <3>1, <3>2, Zenon
    <2>2. PICK n : n = CHOOSE k \in DOMAIN WirePriorities : WirePriorities[k] = p.priority
      OBVIOUS
    <2>3. n \in DOMAIN WirePriorities /\ WirePriorities[n] = p.priority
      BY <2>1, <2>2, Zenon
    <2>4. n \in 1 .. 3
      <3>1. DOMAIN WirePriorities = 1 .. 3
        BY DEF WirePriorities
      <3> QED
        BY <2>3, <3>1, Zenon
    <2>5. priority_to_u8(p.priority) = n - 1
      BY <2>2, Zenon DEF priority_to_u8
    <2>6. n - 1 \in Nat /\ n - 1 + 1 = n
      BY <2>4
    <2>7. priority_from_u8(n - 1) = WirePriorities[n]
      BY <2>6 DEF priority_from_u8
    <2> QED
      BY <2>3, <2>5, <2>6, <2>7
  <1>3. PICK x \in {0, 1}, y \in {0, 2} :
          FlagsOf(p) = 4 + x + y /\ (x = 1 <=> p.next_hop # Empty) /\ (y = 2 <=> Located(p))
    BY DEF FlagsOf, V2_FLAG_PATH_HOPS, V2_FLAG_NEXT_HOP, V2_FLAG_LOCATION
  <1>4. /\ ((4 + x + y) \div 4) % 2 = 1
        /\ ((4 + x + y) \div 1) % 2 = 1 <=> x = 1
        /\ ((4 + x + y) \div 2) % 2 = 1 <=> y = 2
    OBVIOUS
  <1> QED
    BY <1>1, <1>2, <1>3, <1>4 DEF HasFlag, V2_FLAG_PATH_HOPS, V2_FLAG_NEXT_HOP, V2_FLAG_LOCATION

\* The parts of a packet, and how long they are.
BodySize(p) ==
    15 + p.source.len + (IF p.destination = ToAll THEN 0 ELSE p.destination.len) + p.payload.len
       + (IF Located(p) THEN 1 + Size(location_encode(p.location)) ELSE 0)
PacketSize(p) == BodySize(p) + p.relay.len + (IF p.next_hop # Empty THEN 1 + p.next_hop.len ELSE 0)

\* No bytes.
LEMMA EmptyBytes ==
    <<>> \in WireSeq /\ Size(<<>>) = 0 /\ \A s \in WireSeq : Then(<<>>, s) = s /\ Then(s, <<>>) = s
  BY ConcatEmptySeq DEF WireSeq, Size, Then

\* The lengths of the texts of a packet.
LEMMA TextsOfPacket ==
    ASSUME NEW p, IsWirePacket(p)
    PROVE  /\ IsWord(p.source) /\ IsWord(p.relay) /\ IsWord(p.id) /\ IsWord(p.payload) /\ IsWord(p.next_hop)
           /\ p.source.len \in Nat \ {0} /\ p.relay.len \in 1 .. FIELD_LEN - 1 /\ p.payload.len \in Nat
           /\ p.payload.len < PAYLOAD_LEN /\ p.next_hop.len \in 0 .. FIELD_LEN - 1
           /\ p.destination # ToAll => p.destination.len \in Nat
           /\ p.next_hop # Empty => IsNodeId(p.next_hop)
           /\ Size(location_encode(p.location)) \in Nat \ {0, 1} /\ location_encode(p.location) \in WireSeq
  <1>1. FIELD_LEN \in Nat /\ PAYLOAD_LEN \in Nat
    BY CodecAssumption
  <1>2. /\ IsNodeId(p.source) /\ IsNodeId(p.relay) /\ (p.destination # ToAll => IsNodeId(p.destination))
        /\ IsText(p.id, 5) /\ IsText(p.next_hop, FIELD_LEN) /\ IsText(p.payload, PAYLOAD_LEN)
        /\ IsLocation(p.location)
    BY DEF IsBody, IsWirePacket
  <1>3. \A t : IsNodeId(t) => IsWord(t) /\ t.len \in 1 .. FIELD_LEN - 1
    BY <1>1 DEF IsNodeId, IsText, IsWord
  <1>4. \A t, size : IsText(t, size) => IsWord(t) /\ t.len \in Nat /\ t.len < size
    BY DEF IsText, IsWord
  <1>5. p.next_hop # Empty => IsNodeId(p.next_hop)
    BY <1>2 DEF IsNodeId
  <1>6. Size(location_encode(p.location)) \in Nat \ {0, 1}
    <2>1. PICK l : l = p.location
      OBVIOUS
    <2>2. PICK s \in Nat, g \in Nat, m \in Nat : s = l.sitio.len /\ g = l.barangay.len /\ m = l.municipality.len
      BY <1>2, <2>1 DEF IsLocation, IsWord
    <2>3. Separated(location_encode(l), Bytes(l.sitio), s, Bytes(l.barangay), g, Bytes(l.municipality), m, Tilde)
      BY <1>2, <2>1, <2>2, EncodedLocation
    <2>4. Size(location_encode(l)) = s + g + m + 2
      BY <2>3, Zenon DEF Separated
    <2> QED
      BY <2>1, <2>4
  <1>7. location_encode(p.location) \in WireSeq
    BY <1>2, LocationRoundTrip
  <1>8. p.next_hop.len \in 0 .. FIELD_LEN - 1
    BY <1>1, <1>2, <1>4
  <1> QED
    BY <1>2, <1>3, <1>4, <1>5, <1>6, <1>7, <1>8

\* One byte more.
LEMMA ByteBefore ==
    ASSUME NEW n \in Nat, NEW s \in WireSeq
    PROVE  Then(OneByte(n), s) \in WireSeq /\ Size(Then(OneByte(n), s)) = 1 + Size(s) /\ Size(s) \in Nat
  <1>1. PICK o \in WireSeq : o = OneByte(n) /\ Size(o) = 1
    BY FieldIsRead
  <1>2. Then(o, s) \in WireSeq /\ Size(Then(o, s)) = 1 + Size(s) /\ Size(s) \in Nat
    BY <1>1, ThenIs
  <1> QED
    BY <1>1, <1>2

\* All of a packet's parts are sequences of bytes; together they are PacketSize long.
LEMMA PartsOfPacket ==
    ASSUME NEW p, IsWirePacket(p)
    PROVE  /\ AfterNext(p) \in WireSeq /\ AfterPath(p) \in WireSeq /\ AfterHops(p) \in WireSeq
           /\ AfterRelay(p) \in WireSeq /\ AfterId(p) \in WireSeq /\ AfterDestination(p) \in WireSeq
           /\ AfterSource(p) \in WireSeq /\ AfterPriority(p) \in WireSeq /\ AfterType(p) \in WireSeq
           /\ AfterFlags(p) \in WireSeq /\ AfterMagic(p) \in WireSeq /\ PacketBytes(p) \in WireSeq
           /\ Magic \in WireSeq /\ Size(Magic) = 2
           /\ Size(PacketBytes(p)) = PacketSize(p)
           /\ Counted(p.source) \in WireSeq /\ DestinationBytes(p.destination) \in WireSeq
           /\ Bytes(p.id) \in WireSeq /\ Counted(p.relay) \in WireSeq /\ NextBytes(p) \in WireSeq
           /\ PlaceBytes(p) \in WireSeq /\ Counted(p.payload) \in WireSeq
           /\ OneByte(FlagsOf(p)) \in WireSeq /\ OneByte(type_to_u8(p.type)) \in WireSeq
           /\ OneByte(priority_to_u8(p.priority)) \in WireSeq
           /\ OneByte(p.hops) \in WireSeq /\ OneByte(p.path_hops) \in WireSeq
  <1>1. PICK nx \in Nat, pl \in Nat, dl \in Nat :
          /\ nx = (IF p.next_hop # Empty THEN 1 + p.next_hop.len ELSE 0)
          /\ pl = (IF Located(p) THEN 1 + Size(location_encode(p.location)) ELSE 0)
          /\ dl = (IF p.destination = ToAll THEN 0 ELSE p.destination.len)
    BY TextsOfPacket
  <1>2. NextBytes(p) \in WireSeq /\ Size(NextBytes(p)) = nx
    <2>1. CASE p.next_hop # Empty
      BY <1>1, <2>1, TextsOfPacket, FieldIsRead, EmptyBytes DEF NextBytes
    <2>2. CASE p.next_hop = Empty
      BY <1>1, <2>2, EmptyBytes DEF NextBytes
    <2> QED
      BY <2>1, <2>2
  <1>3. PlaceBytes(p) \in WireSeq /\ Size(PlaceBytes(p)) = pl
    <2>1. CASE Located(p)
      <3>1. LocationBytes(p.location) \in WireSeq /\ Size(LocationBytes(p.location)) = 1 + Size(location_encode(p.location))
        BY LocationIsRead, EmptyBytes DEF IsBody, IsWirePacket
      <3> QED
        BY <1>1, <2>1, <3>1 DEF PlaceBytes
    <2>2. CASE ~Located(p)
      BY <1>1, <2>2, EmptyBytes DEF PlaceBytes
    <2> QED
      BY <2>1, <2>2
  <1>4. /\ Counted(p.source) \in WireSeq /\ Size(Counted(p.source)) = 1 + p.source.len
        /\ Counted(p.relay) \in WireSeq /\ Size(Counted(p.relay)) = 1 + p.relay.len
        /\ Counted(p.payload) \in WireSeq /\ Size(Counted(p.payload)) = 1 + p.payload.len
    BY TextsOfPacket, FieldIsRead, EmptyBytes
  <1>5. DestinationBytes(p.destination) \in WireSeq /\ Size(DestinationBytes(p.destination)) = 1 + dl
    <2>1. IsNodeId(p.destination) \/ p.destination = ToAll
      BY DEF IsBody, IsWirePacket
    <2>2. /\ DestinationBytes(p.destination) \in WireSeq
          /\ Size(DestinationBytes(p.destination)) = IF p.destination = ToAll THEN 1 ELSE 1 + p.destination.len
      BY <2>1, FieldIsRead, EmptyBytes
    <2> QED
      BY <1>1, <2>2
  <1>6. Bytes(p.id) \in WireSeq /\ Size(Bytes(p.id)) = 4
    BY EmptyBytes, IdIsRead DEF IsBody, IsWirePacket
  <1>7. /\ FlagsOf(p) \in Nat /\ type_to_u8(p.type) \in Nat /\ priority_to_u8(p.priority) \in Nat
        /\ p.hops \in Nat /\ p.path_hops \in Nat /\ V2_MAGIC \in Nat /\ BEMS_PACKET_FORMAT_V2 \in Nat
    BY NumbersOfPacket DEF IsBody, IsWirePacket, V2_MAGIC, BEMS_PACKET_FORMAT_V2
  <1>8. /\ OneByte(FlagsOf(p)) \in WireSeq /\ Size(OneByte(FlagsOf(p))) = 1
        /\ OneByte(type_to_u8(p.type)) \in WireSeq /\ Size(OneByte(type_to_u8(p.type))) = 1
        /\ OneByte(priority_to_u8(p.priority)) \in WireSeq /\ Size(OneByte(priority_to_u8(p.priority))) = 1
        /\ OneByte(p.hops) \in WireSeq /\ Size(OneByte(p.hops)) = 1
        /\ OneByte(p.path_hops) \in WireSeq /\ Size(OneByte(p.path_hops)) = 1
        /\ OneByte(V2_MAGIC) \in WireSeq /\ Size(OneByte(V2_MAGIC)) = 1
        /\ OneByte(BEMS_PACKET_FORMAT_V2) \in WireSeq /\ Size(OneByte(BEMS_PACKET_FORMAT_V2)) = 1
    <2>1. \A n \in Nat : OneByte(n) \in WireSeq /\ Size(OneByte(n)) = 1
      BY FieldIsRead, EmptyBytes
    <2> QED
      BY <1>7, <2>1
  <1>9. PICK sl \in Nat, rl \in Nat, yl \in Nat : sl = p.source.len /\ rl = p.relay.len /\ yl = p.payload.len
    BY TextsOfPacket
  <1>10. AfterNext(p) \in WireSeq /\ Size(AfterNext(p)) = pl + (1 + yl)
    BY <1>3, <1>4, <1>9, ThenIs DEF AfterNext
  <1>11. AfterPath(p) \in WireSeq /\ Size(AfterPath(p)) = nx + (pl + (1 + yl))
    BY <1>2, <1>10, ThenIs DEF AfterPath
  <1>12. AfterHops(p) \in WireSeq /\ Size(AfterHops(p)) = 1 + (nx + (pl + (1 + yl)))
    <2>1. PICK n \in Nat : n = p.path_hops
      BY <1>7
    <2>2. /\ Then(OneByte(n), AfterPath(p)) \in WireSeq
          /\ Size(Then(OneByte(n), AfterPath(p))) = 1 + Size(AfterPath(p))
      BY <1>11, ByteBefore
    <2>3. AfterHops(p) = Then(OneByte(n), AfterPath(p))
      BY <2>1, Zenon DEF AfterHops
    <2> QED
      BY <1>11, <2>2, <2>3
  <1>13. AfterRelay(p) \in WireSeq /\ Size(AfterRelay(p)) = 2 + nx + pl + 1 + yl
    <2>1. AfterRelay(p) \in WireSeq /\ Size(AfterRelay(p)) = 1 + (1 + (nx + (pl + (1 + yl))))
      BY <1>8, <1>12, ThenIs DEF AfterRelay
    <2> QED
      BY <2>1
  <1>14. AfterId(p) \in WireSeq /\ Size(AfterId(p)) = 1 + rl + (2 + nx + pl + 1 + yl)
    BY <1>4, <1>9, <1>13, ThenIs DEF AfterId
  <1>15. AfterDestination(p) \in WireSeq /\ Size(AfterDestination(p)) = 4 + (1 + rl + (2 + nx + pl + 1 + yl))
    BY <1>6, <1>14, ThenIs DEF AfterDestination
  <1>16. AfterSource(p) \in WireSeq /\ Size(AfterSource(p)) = 1 + dl + (4 + (1 + rl + (2 + nx + pl + 1 + yl)))
    BY <1>5, <1>15, ThenIs DEF AfterSource
  <1>17. AfterPriority(p) \in WireSeq /\ Size(AfterPriority(p)) = 10 + sl + dl + rl + nx + pl + yl
    <2>1. AfterPriority(p) \in WireSeq /\ Size(AfterPriority(p)) = 1 + sl + (1 + dl + (4 + (1 + rl + (2 + nx + pl + 1 + yl))))
      BY <1>4, <1>9, <1>16, ThenIs DEF AfterPriority
    <2> QED
      BY <2>1
  <1>18. AfterType(p) \in WireSeq /\ Size(AfterType(p)) = 1 + (10 + sl + dl + rl + nx + pl + yl)
    <2>1. PICK n \in Nat : n = priority_to_u8(p.priority)
      BY <1>7
    <2>2. /\ Then(OneByte(n), AfterPriority(p)) \in WireSeq
          /\ Size(Then(OneByte(n), AfterPriority(p))) = 1 + Size(AfterPriority(p))
      BY <1>17, ByteBefore
    <2>3. AfterType(p) = Then(OneByte(n), AfterPriority(p))
      BY <2>1, Zenon DEF AfterType
    <2> QED
      BY <1>17, <2>2, <2>3
  <1>19. AfterFlags(p) \in WireSeq /\ Size(AfterFlags(p)) = 1 + (1 + (10 + sl + dl + rl + nx + pl + yl))
    <2>1. PICK n \in Nat : n = type_to_u8(p.type)
      BY <1>7
    <2>2. /\ Then(OneByte(n), AfterType(p)) \in WireSeq
          /\ Size(Then(OneByte(n), AfterType(p))) = 1 + Size(AfterType(p))
      BY <1>18, ByteBefore
    <2>3. AfterFlags(p) = Then(OneByte(n), AfterType(p))
      BY <2>1, Zenon DEF AfterFlags
    <2> QED
      BY <1>18, <2>2, <2>3
  <1>20. AfterMagic(p) \in WireSeq /\ Size(AfterMagic(p)) = 1 + (1 + (1 + (10 + sl + dl + rl + nx + pl + yl)))
    <2>1. PICK n \in Nat : n = FlagsOf(p)
      BY <1>7
    <2>2. /\ Then(OneByte(n), AfterFlags(p)) \in WireSeq
          /\ Size(Then(OneByte(n), AfterFlags(p))) = 1 + Size(AfterFlags(p))
      BY <1>19, ByteBefore
    <2>3. AfterMagic(p) = Then(OneByte(n), AfterFlags(p))
      BY <2>1, Zenon DEF AfterMagic
    <2> QED
      BY <1>19, <2>2, <2>3
  <1>21. Magic \in WireSeq /\ Size(Magic) = 2
    BY <1>8, ThenIs DEF Magic
  <1>22. PacketBytes(p) \in WireSeq /\ Size(PacketBytes(p)) = 2 + (1 + (1 + (1 + (10 + sl + dl + rl + nx + pl + yl))))
    BY <1>20, <1>21, ThenIs DEF PacketBytes
  <1>23. PacketSize(p) = 15 + sl + dl + rl + yl + nx + pl
    BY <1>1, <1>9 DEF PacketSize, BodySize
  <1>24. Size(PacketBytes(p)) = PacketSize(p)
    BY <1>22, <1>23
  <1> QED
    BY <1>2, <1>3, <1>4, <1>5, <1>6, <1>8, <1>10, <1>11, <1>12, <1>13, <1>14, <1>15, <1>16, <1>17, <1>18, <1>19, <1>20,
       <1>21, <1>22, <1>24, Zenon

\* A sequence and one more value.
LEMMA AppendedIs ==
    ASSUME NEW S, NEW s \in Seq(S), NEW x \in S, NEW n \in Nat, n = Len(s), NEW t \in Seq(S), Len(t) = n + 1,
           \A i \in 1 .. n : t[i] = s[i], t[n + 1] = x
    PROVE  t = s \o <<x>>
  <1>1. PICK a \in Seq(S) : a = Append(s, x) /\ Len(a) = n + 1 /\ (\A i \in 1 .. n : a[i] = s[i]) /\ a[n + 1] = x
    BY AppendProperties
  <1>2. \A i \in 1 .. n + 1 : a[i] = t[i]
    <2> TAKE i \in 1 .. n + 1
    <2>1. CASE i = n + 1
      BY <1>1, <2>1
    <2>2. CASE i # n + 1
      <3>1. i \in 1 .. n
        BY <2>2
      <3> QED
        BY <1>1, <3>1
    <2> QED
      BY <2>1, <2>2
  <1>3. Len(a) = Len(t) /\ Len(a) = n + 1
    BY <1>1
  <1>4. a = t
    BY <1>2, <1>3, SeqEqual
  <1> QED
    BY <1>1, <1>4, AppendIsConcat

\* Tuples as concatenations.
LEMMA FiveBytes ==
    ASSUME NEW a \in Nat, NEW b \in Nat, NEW c \in Nat, NEW d \in Nat, NEW e \in Nat
    PROVE  /\ <<Byte(a), Byte(b), Byte(c), Byte(d), Byte(e)>>
                = Then(Then(OneByte(a), OneByte(b)), Then(OneByte(c), Then(OneByte(d), OneByte(e))))
           /\ <<Byte(a), Byte(b)>> = Then(OneByte(a), OneByte(b))
  <1>1. PICK v \in Wire, w \in Wire, x \in Wire, y \in Wire, z \in Wire :
          v = Byte(a) /\ w = Byte(b) /\ x = Byte(c) /\ y = Byte(d) /\ z = Byte(e)
    BY BytesAreWire
  <1>2. /\ <<v, w>> = <<v>> \o <<w>>
        /\ <<v, w, x, y, z>> = <<v, w, x, y>> \o <<z>>
        /\ <<v, w, x, y>> = <<v, w, x>> \o <<y>>
        /\ <<v, w, x>> = <<v, w>> \o <<x>>
    <2>1. <<v, w>> = <<v>> \o <<w>>
      <3>0. <<v>> \in Seq(Wire) /\ <<v, w>> \in Seq(Wire)
        OBVIOUS
      <3>1. PICK s \in Seq(Wire), t \in Seq(Wire), n \in Nat : s = <<v>> /\ t = <<v, w>> /\ n = 1
        BY <3>0
      <3>2. n = Len(s) /\ Len(t) = n + 1 /\ (\A i \in 1 .. n : t[i] = s[i]) /\ t[n + 1] = w
        BY <3>1
      <3>3. t = s \o <<w>>
        BY <3>2, AppendedIs
      <3> QED
        BY <3>1, <3>3
    <2>2. <<v, w, x>> = <<v, w>> \o <<x>>
      <3>0. <<v, w>> \in Seq(Wire) /\ <<v, w, x>> \in Seq(Wire)
        OBVIOUS
      <3>1. PICK s \in Seq(Wire), t \in Seq(Wire), n \in Nat : s = <<v, w>> /\ t = <<v, w, x>> /\ n = 2
        BY <3>0
      <3>2. n = Len(s) /\ Len(t) = n + 1 /\ (\A i \in 1 .. n : t[i] = s[i]) /\ t[n + 1] = x
        BY <3>1
      <3>3. t = s \o <<x>>
        BY <3>2, AppendedIs
      <3> QED
        BY <3>1, <3>3
    <2>3. <<v, w, x, y>> = <<v, w, x>> \o <<y>>
      <3>0. <<v, w, x>> \in Seq(Wire) /\ <<v, w, x, y>> \in Seq(Wire)
        OBVIOUS
      <3>1. PICK s \in Seq(Wire), t \in Seq(Wire), n \in Nat : s = <<v, w, x>> /\ t = <<v, w, x, y>> /\ n = 3
        BY <3>0
      <3>2. n = Len(s) /\ Len(t) = n + 1 /\ (\A i \in 1 .. n : t[i] = s[i]) /\ t[n + 1] = y
        BY <3>1
      <3>3. t = s \o <<y>>
        BY <3>2, AppendedIs
      <3> QED
        BY <3>1, <3>3
    <2>4. <<v, w, x, y, z>> = <<v, w, x, y>> \o <<z>>
      <3>0. <<v, w, x, y>> \in Seq(Wire) /\ <<v, w, x, y, z>> \in Seq(Wire)
        OBVIOUS
      <3>1. PICK s \in Seq(Wire), t \in Seq(Wire), n \in Nat : s = <<v, w, x, y>> /\ t = <<v, w, x, y, z>> /\ n = 4
        BY <3>0
      <3>2. n = Len(s) /\ Len(t) = n + 1 /\ (\A i \in 1 .. n : t[i] = s[i]) /\ t[n + 1] = z
        BY <3>1
      <3>3. t = s \o <<z>>
        BY <3>2, AppendedIs
      <3> QED
        BY <3>1, <3>3
    <2> QED
      BY <2>1, <2>2, <2>3, <2>4
  <1>3. PICK f, g, h, k, l : f = OneByte(a) /\ g = OneByte(b) /\ h = OneByte(c) /\ k = OneByte(d) /\ l = OneByte(e)
    OBVIOUS
  <1>4. <<v, w>> = Then(f, g) /\ <<v, w, x, y, z>> = Then(Then(Then(Then(f, g), h), k), l)
    BY <1>1, <1>2, <1>3, Zenon DEF Then, OneByte
  <1>5. f \in WireSeq /\ g \in WireSeq /\ h \in WireSeq /\ k \in WireSeq /\ l \in WireSeq
    BY <1>3, FieldIsRead, EmptyBytes
  <1>6. PICK m, n : m = Then(f, g) /\ n = Then(k, l)
    OBVIOUS
  <1>7. m \in WireSeq /\ n \in WireSeq
    BY <1>5, <1>6, ThenIs
  <1>8. Then(Then(Then(m, h), k), l) = Then(Then(m, h), Then(k, l)) /\ Then(Then(m, h), n) = Then(m, Then(h, n))
    <2>1. Then(m, h) \in WireSeq
      BY <1>5, <1>7, ThenIs
    <2> QED
      BY <1>5, <1>7, <2>1, ThenAssociates
  <1>9. Then(Then(Then(m, h), k), l) = Then(m, Then(h, n))
    BY <1>6, <1>8, Zenon
  <1> QED
    BY <1>1, <1>3, <1>4, <1>6, <1>9, Zenon

\* What is built is these parts, unless it is too long.
LEMMA BuiltIs ==
    ASSUME NEW p, IsWirePacket(p)
    PROVE  build_forward_packet_v2(p) = IF PacketSize(p) > BEMS_MAX_PLAINTEXT THEN <<>> ELSE PacketBytes(p)
  <1> DEFINE next     == p.next_hop # Empty
             located  == p.location_raw \/ p.location # NoLocation
             flags    == V2_FLAG_PATH_HOPS + (IF next THEN V2_FLAG_NEXT_HOP ELSE 0)
                             + (IF located THEN V2_FLAG_LOCATION ELSE 0)
             location == location_encode(p.location)
             head     == <<Byte(V2_MAGIC), Byte(BEMS_PACKET_FORMAT_V2), Byte(flags),
                           Byte(type_to_u8(p.type)), Byte(priority_to_u8(p.priority))>>
             numbers  == <<Byte(p.hops), Byte(p.path_hops)>>
             place    == IF located THEN <<Byte(Len(location))>> \o location ELSE <<>>
             packet   ==
                 head \o Counted(p.source)
                 \o (IF p.destination = ToAll THEN <<Byte(V2_BROADCAST_ID)>> ELSE Counted(p.destination))
                 \o Bytes(p.id)
                 \o Counted(p.relay)
                 \o numbers
                 \o (IF next THEN Counted(p.next_hop) ELSE <<>>)
                 \o place
                 \o Counted(p.payload)
  <1>1. build_forward_packet_v2(p) =
          IF \/ p.source.len = 0 \/ p.relay.len = 0 \/ p.payload.len >= PAYLOAD_LEN
             \/ Len(packet) > BEMS_MAX_PLAINTEXT
          THEN <<>> ELSE packet
    BY Zenon DEF build_forward_packet_v2
  <1> DEFINE H == Then(Magic, Then(OneByte(FlagsOf(p)), Then(OneByte(type_to_u8(p.type)), OneByte(priority_to_u8(p.priority)))))
             N == Then(OneByte(p.hops), OneByte(p.path_hops))
  <1>2. flags = FlagsOf(p) /\ located = Located(p)
    BY DEF FlagsOf, Located
  <1>3. head = H
    <2>1. PICK a \in Nat, b \in Nat, c \in Nat, d \in Nat, e \in Nat :
            a = V2_MAGIC /\ b = BEMS_PACKET_FORMAT_V2 /\ c = FlagsOf(p) /\ d = type_to_u8(p.type) /\ e = priority_to_u8(p.priority)
      BY NumbersOfPacket DEF V2_MAGIC, BEMS_PACKET_FORMAT_V2
    <2>2. <<Byte(a), Byte(b), Byte(c), Byte(d), Byte(e)>>
            = Then(Then(OneByte(a), OneByte(b)), Then(OneByte(c), Then(OneByte(d), OneByte(e))))
      BY FiveBytes
    <2> HIDE DEF flags
    <2> QED
      BY <1>2, <2>1, <2>2, Zenon DEF Magic
  <1>4. numbers = N
    <2>1. PICK a \in Nat, b \in Nat : a = p.hops /\ b = p.path_hops
      BY DEF IsBody, IsWirePacket
    <2>2. <<Byte(a), Byte(b)>> = Then(OneByte(a), OneByte(b))
      BY FiveBytes
    <2> QED
      BY <2>1, <2>2, Zenon
  <1>5. place = PlaceBytes(p)
    BY <1>2, Zenon DEF PlaceBytes, LocationBytes, Then, OneByte, Size
  <1>6. packet = Then(Then(Then(Then(Then(Then(Then(Then(H, Counted(p.source)), DestinationBytes(p.destination)),
                   Bytes(p.id)), Counted(p.relay)), N), NextBytes(p)), PlaceBytes(p)), Counted(p.payload))
    <2> HIDE DEF head, numbers, place
    <2> QED
      BY <1>3, <1>4, <1>5, Zenon DEF Then, DestinationBytes, NextBytes
  <1> HIDE DEF packet, H, N
  <1>7. packet = PacketBytes(p)
    <2>1. PICK src, dst, id, rel, nxt, plc, pay :
            /\ src = Counted(p.source) /\ dst = DestinationBytes(p.destination) /\ id = Bytes(p.id)
            /\ rel = Counted(p.relay) /\ nxt = NextBytes(p) /\ plc = PlaceBytes(p) /\ pay = Counted(p.payload)
      OBVIOUS
    <2>2. PICK fl, ty, pr, hp, pa :
            /\ fl = OneByte(FlagsOf(p)) /\ ty = OneByte(type_to_u8(p.type)) /\ pr = OneByte(priority_to_u8(p.priority))
            /\ hp = OneByte(p.hops) /\ pa = OneByte(p.path_hops)
      OBVIOUS
    <2>3. /\ src \in WireSeq /\ dst \in WireSeq /\ id \in WireSeq /\ rel \in WireSeq /\ nxt \in WireSeq
          /\ plc \in WireSeq /\ pay \in WireSeq
      BY <2>1, PartsOfPacket
    <2>4. /\ fl \in WireSeq /\ ty \in WireSeq /\ pr \in WireSeq /\ hp \in WireSeq /\ pa \in WireSeq
          /\ Magic \in WireSeq
      BY <2>2, PartsOfPacket
    <2>5. PICK typr, fltypr, nn, hh : typr = Then(ty, pr) /\ fltypr = Then(fl, typr) /\ nn = Then(hp, pa) /\ hh = Then(Magic, fltypr)
      OBVIOUS
    <2>6. typr \in WireSeq /\ fltypr \in WireSeq /\ nn \in WireSeq /\ hh \in WireSeq
      BY <2>4, <2>5, ThenIs
    <2>7. packet = Then(hh, Then(src, Then(dst, Then(id, Then(rel, Then(nn, Then(nxt, Then(plc, pay))))))))
      <3>1. packet = Then(Then(Then(Then(Then(Then(Then(Then(hh, src), dst), id), rel), nn), nxt), plc), pay)
        BY <1>6, <2>1, <2>2, <2>5, Zenon DEF H, N
      <3>2. Then(Then(Then(Then(Then(Then(Then(Then(hh, src), dst), id), rel), nn), nxt), plc), pay)
              = Then(hh, Then(src, Then(dst, Then(id, Then(rel, Then(nn, Then(nxt, Then(plc, pay))))))))
        <4>1. AreParts(hh, src, dst, id, rel, nn, nxt, plc, pay)
          BY <2>3, <2>6, Zenon DEF AreParts
        <4> QED
          BY <4>1, NineParts
      <3> QED
        BY <3>1, <3>2, Zenon
    <2>8. PICK o, r : o = Then(nxt, Then(plc, pay)) /\ r = Then(src, Then(dst, Then(id, Then(rel, Then(nn, o)))))
      OBVIOUS
    <2>9. o \in WireSeq /\ r \in WireSeq
      BY <2>3, <2>6, <2>8, ThenIs
    <2>10. Then(nn, o) = Then(hp, Then(pa, o))
      <3>1. Then(Then(hp, pa), o) = Then(hp, Then(pa, o))
        BY <2>4, <2>9, ThenIs, ThenAssociates
      <3> QED
        BY <2>5, <3>1, Zenon
    <2>11. Then(hh, r) = Then(Magic, Then(fl, Then(ty, Then(pr, r))))
      <3>1. Then(Then(Magic, fltypr), r) = Then(Magic, Then(fltypr, r))
        BY <2>4, <2>6, <2>9, ThenIs, ThenAssociates
      <3>2. Then(Then(fl, typr), r) = Then(fl, Then(typr, r))
        BY <2>4, <2>6, <2>9, ThenIs, ThenAssociates
      <3>3. Then(Then(ty, pr), r) = Then(ty, Then(pr, r))
        BY <2>4, <2>9, ThenIs, ThenAssociates
      <3> QED
        BY <2>5, <3>1, <3>2, <3>3, Zenon
    <2>12. packet = Then(Magic, Then(fl, Then(ty, Then(pr, r))))
      BY <2>7, <2>8, <2>11, Zenon
    <2>13. r = Then(src, Then(dst, Then(id, Then(rel, Then(hp, Then(pa, Then(nxt, Then(plc, pay))))))))
      BY <2>8, <2>10, Zenon
    <2>14. r = AfterPriority(p)
      BY <2>1, <2>2, <2>13, Zenon DEF AfterPriority, AfterSource, AfterDestination, AfterId, AfterRelay, AfterHops, AfterPath, AfterNext
    <2> QED
      BY <2>2, <2>12, <2>14, Zenon DEF PacketBytes, AfterMagic, AfterFlags, AfterType
  <1>8. /\ p.source.len # 0 /\ p.relay.len # 0 /\ ~(p.payload.len >= PAYLOAD_LEN)
    BY TextsOfPacket, CodecAssumption
  <1>9. Len(packet) = PacketSize(p)
    BY <1>7, PartsOfPacket, Zenon DEF Size
  <1> QED
    BY <1>1, <1>7, <1>8, <1>9

WithVal(r, d) == [r EXCEPT !.val = d]

\* A reader's value can be another.
LEMMA ValueIsSet ==
    \A s, v, d : WithVal(Got(s, v), d) = Got(s, d)
  BY ValueOfGot DEF WithVal

\* A node id is read as it was written.
LEMMA NameField ==
    ASSUME NEW s \in WireSeq, NEW v, NEW t, IsNodeId(t)
    PROVE  ReadName(Got(Then(Counted(t), s), v)) = Got(s, t)
  BY FieldIsRead, ZenonT(40)

\* A destination is, too.
LEMMA DestinationField ==
    ASSUME NEW s \in WireSeq, NEW v, NEW d, IsNodeId(d) \/ d = ToAll
    PROVE  ReadDestination(Got(Then(DestinationBytes(d), s), v)) = Got(s, d)
  BY FieldIsRead, ZenonT(40)

\* What the parser reads in a packet, field by field.
LEMMA PacketIsRead ==
    ASSUME NEW p, IsWirePacket(p), NEW b, b = PacketBytes(p)
    PROVE  /\ FlagsAt(b) = Got(AfterFlags(p), FlagsOf(p))
           /\ TypeAt(b) = Got(AfterType(p), type_to_u8(p.type))
           /\ PriorityAt(b) = Got(AfterPriority(p), priority_to_u8(p.priority))
           /\ SourceAt(b) = Got(AfterSource(p), p.source)
           /\ DestinationAt(b) = Got(AfterDestination(p), p.destination)
           /\ IdAt(b) = Got(AfterId(p), p.id)
           /\ RelayAt(b) = Got(AfterRelay(p), p.relay)
           /\ HopsAt(b) = Got(AfterHops(p), p.hops)
           /\ PathAt(b) = Got(AfterPath(p), p.path_hops)
           /\ NextHopAt(b) = Got(AfterNext(p), p.next_hop)
           /\ LocationAt(b) = Got(Counted(p.payload), p.location)
           /\ PayloadAt(b) = Got(<<>>, p.payload)
           /\ Located(p) => read_u8(NextHopAt(b)).val > 0
  <1>1. \A s \in WireSeq, n \in Nat : \A v : read_u8(Got(Then(OneByte(n), s), v)) = Got(s, n)
    BY FieldIsRead
  <1>2. StartAt(b) = Got(AfterMagic(p), 0)
    <2>1. AfterMagic(p) \in WireSeq /\ Magic \in WireSeq /\ Size(Magic) = 2
      BY PartsOfPacket
    <2>2. Size(b) = 2 + Size(AfterMagic(p)) /\ Size(AfterMagic(p)) \in Nat
      <3>1. Size(Then(Magic, AfterMagic(p))) = Size(Magic) + Size(AfterMagic(p)) /\ Size(AfterMagic(p)) \in Nat
        BY <2>1, ThenIs
      <3> QED
        BY <2>1, <3>1 DEF PacketBytes
    <2>3. SubSeq(b, 3, Len(b)) = AfterMagic(p)
      <3>1. SubSeq(Then(Magic, AfterMagic(p)), Size(Magic) + 1, Size(Then(Magic, AfterMagic(p)))) = AfterMagic(p)
        BY <2>1, ThenParts
      <3>2. Size(Magic) + 1 = 3
        BY <2>1
      <3> QED
        BY <3>1, <3>2, Zenon DEF PacketBytes, Size
    <2>4. Magic[1] = Byte(V2_MAGIC) /\ Magic[2] = Byte(BEMS_PACKET_FORMAT_V2)
      <3>1. PICK f \in WireSeq, g \in WireSeq : f = OneByte(V2_MAGIC) /\ g = OneByte(BEMS_PACKET_FORMAT_V2) /\ Size(f) = 1 /\ Size(g) = 1
        <4>1. V2_MAGIC \in Nat /\ BEMS_PACKET_FORMAT_V2 \in Nat
          BY DEF V2_MAGIC, BEMS_PACKET_FORMAT_V2
        <4>2. \A n \in Nat : OneByte(n) \in WireSeq /\ Size(OneByte(n)) = 1
          BY FieldIsRead, EmptyBytes
        <4> QED
          BY <4>1, <4>2
      <3>2. \A i \in 1 .. 1 + 1 : Then(f, g)[i] = IF i <= 1 THEN f[i] ELSE g[i - 1]
        BY <3>1, ThenAt
      <3>3. Then(f, g)[1] = f[1] /\ Then(f, g)[2] = g[1]
        BY <3>2
      <3>4. f[1] = Byte(V2_MAGIC) /\ g[1] = Byte(BEMS_PACKET_FORMAT_V2)
        BY <3>1 DEF OneByte
      <3> QED
        BY <3>1, <3>3, <3>4, Zenon DEF Magic
    <2>5. b[1] = Magic[1] /\ b[2] = Magic[2]
      <3>1. PICK m \in Nat, r \in WireSeq, q \in WireSeq : r = AfterMagic(p) /\ m = Size(r) /\ q = Magic /\ Size(q) = 2
        BY <2>1, <2>2
      <3>2. \A i \in 1 .. 2 + m : Then(q, r)[i] = IF i <= 2 THEN q[i] ELSE r[i - 2]
        BY <3>1, ThenAt
      <3>3. Then(q, r)[1] = q[1] /\ Then(q, r)[2] = q[2]
        BY <3>2
      <3> QED
        BY <3>1, <3>3, Zenon DEF PacketBytes
    <2>6. mesh_packet_is_v2(b) = TRUE
      <3>1. Len(b) >= 2
        BY <2>2 DEF Size
      <3> QED
        BY <2>4, <2>5, <3>1 DEF mesh_packet_is_v2
    <2> QED
      BY <2>3, <2>6, Zenon DEF StartAt, Got
  <1>3. FlagsAt(b) = Got(AfterFlags(p), FlagsOf(p))
    <2>1. AfterFlags(p) \in WireSeq /\ FlagsOf(p) \in Nat
      BY PartsOfPacket, NumbersOfPacket
    <2> QED
      BY <1>1, <1>2, <2>1, Zenon DEF FlagsAt, AfterMagic
  <1>4. TypeAt(b) = Got(AfterType(p), type_to_u8(p.type))
    <2>1. AfterType(p) \in WireSeq /\ type_to_u8(p.type) \in Nat
      BY PartsOfPacket, NumbersOfPacket
    <2> QED
      BY <1>1, <1>3, <2>1, Zenon DEF TypeAt, AfterFlags
  <1>5. PriorityAt(b) = Got(AfterPriority(p), priority_to_u8(p.priority))
    <2>1. AfterPriority(p) \in WireSeq /\ priority_to_u8(p.priority) \in Nat
      BY PartsOfPacket, NumbersOfPacket
    <2> QED
      BY <1>1, <1>4, <2>1, Zenon DEF PriorityAt, AfterType
  <1>6. SourceAt(b) = Got(AfterSource(p), p.source)
    <2>1. AfterSource(p) \in WireSeq /\ IsNodeId(p.source)
      BY PartsOfPacket DEF IsBody, IsWirePacket
    <2>2. ReadName(Got(Then(Counted(p.source), AfterSource(p)), priority_to_u8(p.priority))) = Got(AfterSource(p), p.source)
      BY <2>1, NameField
    <2> QED
      BY <1>5, <2>2, Zenon DEF SourceAt, AfterPriority
  <1>7. DestinationAt(b) = Got(AfterDestination(p), p.destination)
    <2>1. AfterDestination(p) \in WireSeq /\ (IsNodeId(p.destination) \/ p.destination = ToAll)
      BY PartsOfPacket DEF IsBody, IsWirePacket
    <2>2. ReadDestination(Got(Then(DestinationBytes(p.destination), AfterDestination(p)), p.source)) = Got(AfterDestination(p), p.destination)
      BY <2>1, DestinationField
    <2> QED
      BY <1>6, <2>2, Zenon DEF DestinationAt, AfterSource
  <1>8. IdAt(b) = Got(AfterId(p), p.id)
    <2>1. AfterId(p) \in WireSeq /\ IsText(p.id, 5) /\ p.id.len = 4
      BY PartsOfPacket DEF IsBody, IsWirePacket
    <2>2. read_bytes(Got(Then(Bytes(p.id), AfterId(p)), p.destination), p.id.len, 5) = Got(AfterId(p), p.id)
      BY <2>1, IdIsRead
    <2> QED
      BY <1>7, <2>1, <2>2, Zenon DEF IdAt, AfterDestination
  <1>9. RelayAt(b) = Got(AfterRelay(p), p.relay)
    <2>1. AfterRelay(p) \in WireSeq /\ IsNodeId(p.relay)
      BY PartsOfPacket DEF IsBody, IsWirePacket
    <2>2. ReadName(Got(Then(Counted(p.relay), AfterRelay(p)), p.id)) = Got(AfterRelay(p), p.relay)
      BY <2>1, NameField
    <2> QED
      BY <1>8, <2>2, Zenon DEF RelayAt, AfterId
  <1>10. HopsAt(b) = Got(AfterHops(p), p.hops)
    <2>1. AfterHops(p) \in WireSeq /\ p.hops \in Nat
      BY PartsOfPacket DEF IsBody, IsWirePacket
    <2> QED
      BY <1>1, <1>9, <2>1, Zenon DEF HopsAt, AfterRelay
  <1>11. /\ HasFlag(FlagsAt(b).val, V2_FLAG_PATH_HOPS)
         /\ HasFlag(FlagsAt(b).val, V2_FLAG_NEXT_HOP) <=> p.next_hop # Empty
         /\ HasFlag(FlagsAt(b).val, V2_FLAG_LOCATION) <=> Located(p)
    <2>1. FlagsAt(b).val = FlagsOf(p)
      BY <1>3, ValueOfGot
    <2> QED
      BY <2>1, NumbersOfPacket
  <1>12. PathAt(b) = Got(AfterPath(p), p.path_hops)
    <2>1. AfterPath(p) \in WireSeq /\ p.path_hops \in Nat
      BY PartsOfPacket DEF IsBody, IsWirePacket
    <2>2. read_u8(HopsAt(b)) = Got(AfterPath(p), p.path_hops)
      BY <1>1, <1>10, <2>1, Zenon DEF AfterHops
    <2> QED
      BY <1>11, <2>2, Zenon DEF PathAt, ReadIf
  <1>13. NextHopAt(b) = Got(AfterNext(p), p.next_hop)
    <2>1. AfterNext(p) \in WireSeq
      BY PartsOfPacket
    <2>2. CASE p.next_hop # Empty
      <3>1. IsNodeId(p.next_hop)
        BY <2>2, TextsOfPacket
      <3>2. ReadName(Got(Then(Counted(p.next_hop), AfterNext(p)), p.path_hops)) = Got(AfterNext(p), p.next_hop)
        BY <2>1, <3>1, NameField
      <3>3. AfterPath(p) = Then(Counted(p.next_hop), AfterNext(p))
        BY <2>2, Zenon DEF AfterPath, NextBytes
      <3>4. HasFlag(FlagsAt(b).val, V2_FLAG_NEXT_HOP)
        BY <1>11, <2>2
      <3> QED
        BY <1>12, <3>2, <3>3, <3>4, Zenon DEF NextHopAt, ReadIf
    <2>3. CASE p.next_hop = Empty
      <3>1. AfterPath(p) = AfterNext(p)
        <4>1. AfterPath(p) = Then(<<>>, AfterNext(p))
          BY <2>3, Zenon DEF AfterPath, NextBytes
        <4> QED
          BY <2>1, <4>1, EmptyBytes
      <3>2. ~HasFlag(FlagsAt(b).val, V2_FLAG_NEXT_HOP)
        BY <1>11, <2>3
      <3>3. WithVal(Got(AfterPath(p), p.path_hops), Empty) = Got(AfterPath(p), Empty)
        BY ValueIsSet, Zenon
      <3>4. NextHopAt(b) = WithVal(PathAt(b), Empty)
        BY <3>2, Zenon DEF NextHopAt, ReadIf, WithVal
      <3> QED
        BY <1>12, <2>3, <3>1, <3>3, <3>4, Zenon
    <2> QED
      BY <2>2, <2>3
  <1>14. LocationAt(b) = Got(Counted(p.payload), p.location) /\ (Located(p) => read_u8(NextHopAt(b)).val > 0)
    <2>1. Counted(p.payload) \in WireSeq /\ IsLocation(p.location)
      BY PartsOfPacket DEF IsBody, IsWirePacket
    <2>2. CASE Located(p)
      <3>1. /\ ReadLocation(Got(Then(LocationBytes(p.location), Counted(p.payload)), p.next_hop)) = Got(Counted(p.payload), p.location)
            /\ read_u8(Got(Then(LocationBytes(p.location), Counted(p.payload)), p.next_hop)).val = Size(location_encode(p.location))
        BY <2>1, LocationIsRead
      <3>2. AfterNext(p) = Then(LocationBytes(p.location), Counted(p.payload))
        BY <2>2, Zenon DEF AfterNext, PlaceBytes
      <3>3. HasFlag(FlagsAt(b).val, V2_FLAG_LOCATION)
        BY <1>11, <2>2
      <3>4. LocationAt(b) = Got(Counted(p.payload), p.location)
        BY <1>13, <3>1, <3>2, <3>3, Zenon DEF LocationAt, ReadIf
      <3>5. read_u8(NextHopAt(b)).val = Size(location_encode(p.location))
        BY <1>13, <3>1, <3>2, Zenon
      <3>6. Size(location_encode(p.location)) \in Nat \ {0, 1}
        BY TextsOfPacket
      <3> QED
        BY <3>4, <3>5, <3>6
    <2>3. CASE ~Located(p)
      <3>1. AfterNext(p) = Counted(p.payload)
        <4>1. AfterNext(p) = Then(<<>>, Counted(p.payload))
          BY <2>3, Zenon DEF AfterNext, PlaceBytes
        <4> QED
          BY <2>1, <4>1, EmptyBytes
      <3>2. ~HasFlag(FlagsAt(b).val, V2_FLAG_LOCATION)
        BY <1>11, <2>3
      <3>3. p.location = NoLocation
        BY <2>3 DEF Located
      <3>4. WithVal(Got(AfterNext(p), p.next_hop), NoLocation) = Got(AfterNext(p), NoLocation)
        BY ValueIsSet, Zenon
      <3>5. LocationAt(b) = WithVal(NextHopAt(b), NoLocation)
        BY <3>2, Zenon DEF LocationAt, ReadIf, WithVal
      <3> QED
        BY <1>13, <2>3, <3>1, <3>3, <3>4, <3>5, Zenon
    <2> QED
      BY <2>2, <2>3
  <1>15. PayloadAt(b) = Got(<<>>, p.payload)
    <2>1. IsText(p.payload, PAYLOAD_LEN) /\ Counted(p.payload) \in WireSeq
      BY PartsOfPacket DEF IsBody, IsWirePacket
    <2>2. ReadPayload(Got(Then(Counted(p.payload), <<>>), p.location)) = Got(<<>>, p.payload)
      BY <2>1, PayloadIsRead, EmptyBytes
    <2>3. Then(Counted(p.payload), <<>>) = Counted(p.payload)
      BY <2>1, EmptyBytes
    <2> QED
      BY <1>14, <2>2, <2>3, Zenon DEF PayloadAt
  <1> QED
    BY <1>3, <1>4, <1>5, <1>6, <1>7, <1>8, <1>9, <1>10, <1>12, <1>13, <1>14, <1>15, Zenon

\* What has been built is read as it was: all of it, and nothing is left over.
LEMMA RoundTrip ==
    ASSUME NEW p, IsWirePacket(p), NEW b, b = PacketBytes(p)
    PROVE  /\ b \in Seq(Wire) /\ PayloadAt(b).rest = <<>>
           /\ parse_mesh_packet_v2(b) =
                [valid |-> TRUE, source |-> p.source, destination |-> p.destination, id |-> p.id,
                 type |-> type_from_u8(type_to_u8(p.type)), priority |-> p.priority,
                 relay |-> p.relay, hops |-> p.hops, path_hops |-> p.path_hops, next_hop |-> p.next_hop,
                 location |-> p.location, location_raw |-> Located(p), payload |-> p.payload]
  <1>1. b \in Seq(Wire)
    BY PartsOfPacket DEF WireSeq
  <1>2. PayloadAt(b).rest = <<>> /\ PayloadAt(b).ok = TRUE
    BY PacketIsRead DEF Got
  <1>3. \A s, v : Got(s, v).val = v
    BY DEF Got
  <1>4. /\ SourceAt(b).val = p.source /\ DestinationAt(b).val = p.destination /\ IdAt(b).val = p.id
        /\ TypeAt(b).val = type_to_u8(p.type) /\ PriorityAt(b).val = priority_to_u8(p.priority)
        /\ RelayAt(b).val = p.relay /\ HopsAt(b).val = p.hops /\ PathAt(b).val = p.path_hops
        /\ NextHopAt(b).val = p.next_hop /\ LocationAt(b).val = p.location /\ PayloadAt(b).val = p.payload
        /\ FlagsAt(b).val = FlagsOf(p)
    BY <1>3, PacketIsRead
  <1>5. (HasFlag(FlagsAt(b).val, V2_FLAG_LOCATION) /\ read_u8(NextHopAt(b)).val > 0) = Located(p)
    <2>1. HasFlag(FlagsOf(p), V2_FLAG_LOCATION) <=> Located(p)
      BY NumbersOfPacket
    <2>2. Located(p) => read_u8(NextHopAt(b)).val > 0
      BY PacketIsRead
    <2>3. Located(p) \in BOOLEAN /\ HasFlag(FlagsOf(p), V2_FLAG_LOCATION) \in BOOLEAN
      BY DEF Located, HasFlag
    <2> QED
      BY <1>4, <2>1, <2>2, <2>3
  <1>6. priority_from_u8(priority_to_u8(p.priority)) = p.priority
    BY NumbersOfPacket
  <1> QED
    BY <1>1, <1>2, <1>4, <1>5, <1>6, ParserReads, Zenon

\* The types there is a byte for survive, the others become the first.
LEMMA TypeRoundTrip ==
    \A type :
      /\ type_to_u8(type_from_u8(type_to_u8(type))) = type_to_u8(type)
      /\ type_from_u8(type_to_u8(type)) =
           IF \E i \in DOMAIN WireTypes : WireTypes[i] = type THEN type ELSE "FLOOD"
  <1>1. ASSUME NEW type PROVE
          type_from_u8(type_to_u8(type)) = IF \E i \in DOMAIN WireTypes : WireTypes[i] = type THEN type ELSE "FLOOD"
    <2>1. CASE \E i \in DOMAIN WireTypes : WireTypes[i] = type
      <3>1. PICK n : n = CHOOSE i \in DOMAIN WireTypes : WireTypes[i] = type
        OBVIOUS
      <3>2. WireTypes[n] = type
        BY <2>1, <3>1, Zenon
      <3> QED
        BY <2>1, <3>1, <3>2, Zenon DEF type_to_u8, type_from_u8
    <2>2. CASE ~ \E i \in DOMAIN WireTypes : WireTypes[i] = type
      <3>1. type_to_u8(type) = 1
        BY <2>2, Zenon DEF type_to_u8
      <3>2. WireTypes[1] = "FLOOD"
        BY DEF WireTypes
      <3> QED
        BY <2>2, <3>1, <3>2, Zenon DEF type_from_u8
    <2> QED
      BY <2>1, <2>2
  <1>2. ASSUME NEW type PROVE type_to_u8(type_from_u8(type_to_u8(type))) = type_to_u8(type)
    <2>1. CASE \E i \in DOMAIN WireTypes : WireTypes[i] = type
      BY <1>1, <2>1
    <2>2. CASE ~ \E i \in DOMAIN WireTypes : WireTypes[i] = type
      <3>1. type_to_u8(type) = 1 /\ type_from_u8(type_to_u8(type)) = "FLOOD"
        BY <1>1, <2>2, Zenon DEF type_to_u8
      <3>2. type_to_u8("FLOOD") = 1
        <4>1. 1 \in DOMAIN WireTypes /\ WireTypes[1] = "FLOOD" /\ \A i \in DOMAIN WireTypes : WireTypes[i] = "FLOOD" => i = 1
          BY DEF WireTypes
        <4>2. PICK n : n = CHOOSE i \in DOMAIN WireTypes : WireTypes[i] = "FLOOD"
          OBVIOUS
        <4>3. n \in DOMAIN WireTypes /\ WireTypes[n] = "FLOOD"
          BY <4>1, <4>2, Zenon
        <4>4. n = 1
          BY <4>1, <4>3, Zenon
        <4> QED
          BY <4>1, <4>2, <4>4, Zenon DEF type_to_u8
      <3> QED
        BY <3>1, <3>2
    <2> QED
      BY <2>1, <2>2
  <1> QED
    BY <1>1, <1>2

-----------------------------------------------------------------------------
(* A packet of format V1                                                   *)

\* A packet as its fields.
IsPacket(q) ==
    q = [valid |-> TRUE, source |-> q.source, destination |-> q.destination, id |-> q.id, type |-> q.type,
         priority |-> q.priority, relay |-> q.relay, hops |-> q.hops, path_hops |-> q.path_hops,
         next_hop |-> q.next_hop, location |-> q.location, location_raw |-> q.location_raw,
         payload |-> q.payload]

\* What the last field, or the last two, make.
LEMMA LastFields ==
    ASSUME NEW f, NEW n \in Nat, n = Len(f), n > 1, NEW m, m = n - 1
    PROVE  /\ Rejoined(SubSeq(f, n, n)) = FromBytes(f[n])
           /\ Rejoined(SubSeq(f, m, n)) = Text(Barred, Len(f[n]) + 2)
  <1>1. Rejoined(SubSeq(f, n, n)) = FromBytes(f[n])
    <2>1. PICK r : r = SubSeq(f, n, n)
      OBVIOUS
    <2>2. Len(r) = 1 /\ r[1] = f[n]
      BY <2>1
    <2>3. Len(r) # 2
      BY <2>2
    <2> QED
      BY <2>1, <2>2, <2>3, Zenon DEF Rejoined
  <1>2. Rejoined(SubSeq(f, m, n)) = Text(Barred, Len(f[n]) + 2)
    <2>1. PICK r : r = SubSeq(f, m, n)
      OBVIOUS
    <2>2. Len(r) = 2 /\ r[2] = f[n]
      BY <2>1
    <2> QED
      BY <2>1, <2>2, Zenon DEF Rejoined
  <1> QED
    BY <1>1, <1>2

\* What is left of a location where a bar in the text was taken for the end of
\* a field.
LeftPart == [sitio |-> Empty, barangay |-> Text("left", 1), municipality |-> Empty]

\* It is decoded from three bytes.
LEMMA LeftOfBar ==
    /\ IsLocation(LeftPart) /\ location_decode(Bytes(Text("left", 1))) = LeftPart
    /\ Bytes(Text("left", 1)) # <<>> /\ Size(location_encode(LeftPart)) = 3
  <1>1. IsWord(Text("left", 1)) /\ IsWord(Empty)
    BY DEF IsWord, Text, Empty, TextNames
  <1>2. IsLocation(LeftPart)
    <2>1. LeftPart.sitio = Empty /\ LeftPart.barangay = Text("left", 1) /\ LeftPart.municipality = Empty
      BY DEF LeftPart
    <2> QED
      BY <1>1, <2>1 DEF IsLocation, LeftPart
  <1>3. PICK b \in Seq(Wire) : b = Bytes(Text("left", 1)) /\ Len(b) = 1
    <2>1. Text("left", 1).len = 1
      BY DEF Text
    <2> QED
      BY <1>1, <2>1, BytesAreWire
  <1>4. FromBytes(b) = Text("left", 1)
    BY <1>1, <1>3, TextFromBytes
  <1>5. {i \in DOMAIN b : b[i] = Tilde} = {}
    <2>1. \A i \in DOMAIN b : b[i] # Tilde
      BY <1>3 DEF Bytes, Text, Tilde
    <2> QED
      BY <2>1
  <1>6. SubSeq(b, 1, Len(b)) = b
    BY SubSeqFull
  <1>7. location_decode(b) = [NoLocation EXCEPT !.barangay = FromBytes(SubSeq(b, 1, Len(b)))]
    BY <1>5, Zenon DEF location_decode
  <1>8. \A t : [NoLocation EXCEPT !.barangay = t] = [sitio |-> Empty, barangay |-> t, municipality |-> Empty]
    BY DEF NoLocation
  <1>9. location_decode(b) = LeftPart
    BY <1>4, <1>6, <1>7, <1>8, Zenon DEF LeftPart
  <1>10. Size(location_encode(LeftPart)) = 3
    <2>1. LeftPart.sitio.len = 0 /\ LeftPart.barangay.len = 1 /\ LeftPart.municipality.len = 0
      BY DEF LeftPart, Empty, Text
    <2>2. PICK s \in Nat, g \in Nat, m \in Nat : s = 0 /\ g = 1 /\ m = 0
      OBVIOUS
    <2>3. PICK l : l = LeftPart
      OBVIOUS
    <2>4. Separated(location_encode(l), Bytes(l.sitio), s, Bytes(l.barangay), g, Bytes(l.municipality), m, Tilde)
      BY <1>2, <2>1, <2>2, <2>3, EncodedLocation
    <2>5. Size(location_encode(l)) = s + g + m + 2
      BY <2>4, Zenon DEF Separated
    <2> QED
      BY <2>2, <2>3, <2>5
  <1>11. b # <<>>
    BY <1>3
  <1> QED
    BY <1>2, <1>3, <1>9, <1>10, <1>11

\* What is read of a packet sent in format V1.
ReadAsV1(q, p, count) ==
    /\ IsPacket(q) /\ q.id = p.id /\ q.source = p.source /\ q.destination = p.destination
    /\ q.type = p.type /\ q.priority = p.priority /\ q.hops = p.hops /\ q.relay = p.relay
    /\ q.path_hops = 0 /\ q.location_raw = TRUE
    /\ IF count = 10 /\ p.payload.name = Barred
       THEN q.location = LeftPart /\ q.payload = FromBytes(Bytes(Text("right", p.payload.len - 2)))
       ELSE q.location = p.location /\ q.payload = p.payload

\* It is the packet, unless a bar moved the fields.
LEMMA ReadV1 ==
    ASSUME NEW p, IsPacketSent(p), NEW count \in {10, 11}, NEW q, q = parse_mesh_packet(V1Fields(p, count))
    PROVE  ReadAsV1(q, p, count)
  <1>1. PICK f : f = V1Fields(p, count)
    OBVIOUS
  <1>2. PICK e : e = location_encode(p.location) /\ location_decode(e) = p.location /\ e # <<>>
    <2>1. IsLocation(p.location)
      BY DEF IsPacketSent
    <2>2. location_decode(location_encode(p.location)) = p.location
      BY <2>1, LocationRoundTrip
    <2>3. location_encode(p.location) # <<>>
      <3>1. PICK l : l = p.location
        OBVIOUS
      <3>2. PICK s \in Nat, g \in Nat, m \in Nat : s = l.sitio.len /\ g = l.barangay.len /\ m = l.municipality.len
        BY <2>1, <3>1 DEF IsLocation, IsWord
      <3>3. Separated(location_encode(l), Bytes(l.sitio), s, Bytes(l.barangay), g, Bytes(l.municipality), m, Tilde)
        BY <2>1, <3>1, <3>2, EncodedLocation
      <3>4. Size(location_encode(l)) = s + g + m + 2
        BY <3>3, Zenon DEF Separated
      <3>5. Size(location_encode(l)) # 0
        BY <3>4
      <3> QED
        BY <3>1, <3>5, EmptyBytes
    <2> QED
      BY <2>2, <2>3
  <1>3. IsWord(p.payload) /\ (p.payload.name = Barred => p.payload.len - 2 \in Nat)
    BY DEF IsPacketSent, IsText, IsWord
  <1>0. PICK a1, a2, a3, a4, a5, a6, a7, a8, a9 :
          /\ a1 = Text("BEMS", 4) /\ a2 = p.id /\ a3 = p.source /\ a4 = p.destination /\ a5 = p.type
          /\ a6 = p.priority /\ a7 = p.hops /\ a8 = p.relay /\ a9 = p.next_hop
    OBVIOUS
  <1>00. V1Fields(p, count) = <<a1, a2, a3, a4, a5, a6, a7, a8>>
            \o (IF count = 11 THEN <<a9>> ELSE <<>>) \o <<e>> \o LastField(p.payload)
    BY <1>0, <1>2, Zenon DEF V1Fields
  <1> DEFINE c == IF Len(f) < 11 THEN Len(f) ELSE 11
             n == c - 10
  <1>4. q = IF c < 10 \/ f[1] # Text("BEMS", 4) THEN Invalid
            ELSE [valid |-> TRUE, id |-> f[2], source |-> f[3], destination |-> f[4], type |-> f[5],
                  priority |-> f[6], hops |-> f[7], relay |-> f[8], path_hops |-> 0,
                  next_hop |-> IF n = 1 THEN f[9] ELSE Empty,
                  location |-> location_decode(f[9 + n]), location_raw |-> f[9 + n] # <<>>,
                  payload |-> Rejoined(SubSeq(f, 10 + n, Len(f)))]
    BY <1>1, Zenon DEF parse_mesh_packet
  <1> DEFINE Starts ==
               /\ c \in {10, 11} /\ f[1] = a1 /\ f[2] = a2 /\ f[3] = a3 /\ f[4] = a4 /\ f[5] = a5 /\ f[6] = a6
               /\ f[7] = a7 /\ f[8] = a8
             Ends(loc, pay) == f[9 + n] = loc /\ Rejoined(SubSeq(f, 10 + n, Len(f))) = pay /\ loc # <<>>
             Read(loc, pay) ==
               /\ IsPacket(q) /\ q.id = p.id /\ q.source = p.source /\ q.destination = p.destination
               /\ q.type = p.type /\ q.priority = p.priority /\ q.hops = p.hops /\ q.relay = p.relay
               /\ q.path_hops = 0 /\ q.location_raw = TRUE /\ q.location = location_decode(loc) /\ q.payload = pay
  <1>5. ASSUME NEW loc, NEW pay, Starts, Ends(loc, pay) PROVE Read(loc, pay)
    <2> HIDE DEF n, c
    <2>1. ~(c < 10)
      BY <1>5
    <2>2. PICK nh : nh = IF n = 1 THEN f[9] ELSE Empty
      OBVIOUS
    <2>3. q = [valid |-> TRUE, id |-> p.id, source |-> p.source, destination |-> p.destination, type |-> p.type,
               priority |-> p.priority, hops |-> p.hops, relay |-> p.relay, path_hops |-> 0,
               next_hop |-> nh, location |-> location_decode(loc), location_raw |-> loc # <<>>, payload |-> pay]
      BY <1>0, <1>4, <1>5, <2>1, <2>2, Zenon
    <2>4. PICK raw, dec : raw = (loc # <<>>) /\ dec = location_decode(loc)
      OBVIOUS
    <2>6. raw = TRUE
      BY <1>5, <2>4
    <2>7. /\ q.source = p.source /\ q.destination = p.destination /\ q.id = p.id /\ q.type = p.type
          /\ q.priority = p.priority /\ q.relay = p.relay /\ q.hops = p.hops /\ q.path_hops = 0
          /\ q.next_hop = nh /\ q.location = dec /\ q.location_raw = raw /\ q.payload = pay
      BY <2>3, <2>4
    <2>8. IsPacket(q)
      BY <2>3, <2>4, <2>6, <2>7, Zenon DEF IsPacket
    <2> QED
      BY <2>4, <2>6, <2>7, <2>8, Zenon
  <1> HIDE DEF Starts, Ends, Read
  <1>6. CASE p.payload.name # Barred
    <2>0. PICK y : y = Bytes(p.payload)
      OBVIOUS
    <2>1. LastField(p.payload) = <<y>> /\ FromBytes(y) = p.payload
      BY <1>3, <1>6, <2>0, TextFromBytes DEF LastField
    <2>2. CASE count = 10
      <3>1. f = <<a1, a2, a3, a4, a5, a6, a7, a8>> \o <<>> \o <<e>> \o <<y>>
        BY <1>1, <1>00, <2>1, <2>2
      <3>2. /\ Len(f) = 10 /\ f[1] = a1 /\ f[2] = a2 /\ f[3] = a3 /\ f[4] = a4 /\ f[5] = a5 /\ f[6] = a6
            /\ f[7] = a7 /\ f[8] = a8 /\ f[9] = e /\ f[10] = y
        BY <3>1
      <3>3. c = 10 /\ 9 + n = 9 /\ 10 + n = 10 /\ c \in {10, 11}
        BY <3>2
      <3>4. Rejoined(SubSeq(f, 10, 10)) = p.payload
        <4>1. 10 \in Nat /\ 10 = Len(f) /\ 10 > 1 /\ 9 = 10 - 1
          BY <3>2
        <4>2. Rejoined(SubSeq(f, 10, 10)) = FromBytes(f[10]) /\ Rejoined(SubSeq(f, 9, 10)) = Text(Barred, Len(f[10]) + 2)
          BY <4>1, LastFields, Zenon
        <4> QED
          BY <2>1, <3>2, <4>2, Zenon
      <3> HIDE DEF n, c
      <3>7. Starts
        BY <3>2, <3>3, Zenon DEF Starts
      <3>8. Ends(e, p.payload)
        <4>1. Len(f) = 10
          BY <3>2
        <4> QED
          BY <1>2, <3>2, <3>3, <3>4, <4>1, Zenon DEF Ends
      <3>9. Read(e, p.payload)
        BY <1>5, <3>7, <3>8, Zenon
      <3> QED
        BY <1>2, <1>6, <3>9 DEF Read, ReadAsV1
    <2>3. CASE count = 11
      <3>1. f = <<a1, a2, a3, a4, a5, a6, a7, a8>> \o <<a9>> \o <<e>> \o <<y>>
        BY <1>1, <1>00, <2>1, <2>3
      <3>2. /\ Len(f) = 11 /\ f[1] = a1 /\ f[2] = a2 /\ f[3] = a3 /\ f[4] = a4 /\ f[5] = a5 /\ f[6] = a6
            /\ f[7] = a7 /\ f[8] = a8 /\ f[10] = e /\ f[11] = y
        BY <3>1
      <3>3. c = 11 /\ 9 + n = 10 /\ 10 + n = 11 /\ c \in {10, 11}
        BY <3>2
      <3>4. Rejoined(SubSeq(f, 11, 11)) = p.payload
        <4>1. 11 \in Nat /\ 11 = Len(f) /\ 11 > 1 /\ 10 = 11 - 1
          BY <3>2
        <4>2. Rejoined(SubSeq(f, 11, 11)) = FromBytes(f[11]) /\ Rejoined(SubSeq(f, 10, 11)) = Text(Barred, Len(f[11]) + 2)
          BY <4>1, LastFields, Zenon
        <4> QED
          BY <2>1, <3>2, <4>2, Zenon
      <3> HIDE DEF n, c
      <3>7. Starts
        BY <3>2, <3>3, Zenon DEF Starts
      <3>8. Ends(e, p.payload)
        <4>1. Len(f) = 11
          BY <3>2
        <4> QED
          BY <1>2, <3>2, <3>3, <3>4, <4>1, Zenon DEF Ends
      <3>9. Read(e, p.payload)
        BY <1>5, <3>7, <3>8, Zenon
      <3> QED
        BY <1>2, <1>6, <3>9 DEF Read, ReadAsV1
    <2> QED
      BY <2>2, <2>3
  <1>7. CASE p.payload.name = Barred
    <2>0. PICK L, R : L = Bytes(Text("left", 1)) /\ R = Bytes(Text("right", p.payload.len - 2))
      OBVIOUS
    <2>1. LastField(p.payload) = <<L, R>>
      BY <1>7, <2>0 DEF LastField
    <2>2. CASE count = 10
      <3>1. f = <<a1, a2, a3, a4, a5, a6, a7, a8>> \o <<>> \o <<e>> \o <<L, R>>
        BY <1>1, <1>00, <2>1, <2>2
      <3>2. /\ Len(f) = 11 /\ f[1] = a1 /\ f[2] = a2 /\ f[3] = a3 /\ f[4] = a4 /\ f[5] = a5 /\ f[6] = a6
            /\ f[7] = a7 /\ f[8] = a8 /\ f[10] = L /\ f[11] = R
        BY <3>1
      <3>3. c = 11 /\ 9 + n = 10 /\ 10 + n = 11 /\ c \in {10, 11}
        BY <3>2
      <3>4. Rejoined(SubSeq(f, 11, 11)) = FromBytes(R)
        <4>1. 11 \in Nat /\ 11 = Len(f) /\ 11 > 1 /\ 10 = 11 - 1
          BY <3>2
        <4>2. Rejoined(SubSeq(f, 11, 11)) = FromBytes(f[11]) /\ Rejoined(SubSeq(f, 10, 11)) = Text(Barred, Len(f[11]) + 2)
          BY <4>1, LastFields, Zenon
        <4> QED
          BY <3>2, <4>2, Zenon
      <3>5. L # <<>> /\ location_decode(L) = LeftPart
        BY <2>0, LeftOfBar
      <3> HIDE DEF n, c
      <3>7. Starts
        BY <3>2, <3>3, Zenon DEF Starts
      <3>8. Ends(L, FromBytes(R))
        <4>1. Len(f) = 11
          BY <3>2
        <4> QED
          BY <3>5, <3>2, <3>3, <3>4, <4>1, Zenon DEF Ends
      <3>9. Read(L, FromBytes(R))
        BY <1>5, <3>7, <3>8, Zenon
      <3> QED
        BY <1>7, <2>0, <2>2, <3>5, <3>9 DEF Read, ReadAsV1
    <2>3. CASE count = 11
      <3>1. f = <<a1, a2, a3, a4, a5, a6, a7, a8>> \o <<a9>> \o <<e>> \o <<L, R>>
        BY <1>1, <1>00, <2>1, <2>3
      <3>2. /\ Len(f) = 12 /\ f[1] = a1 /\ f[2] = a2 /\ f[3] = a3 /\ f[4] = a4 /\ f[5] = a5 /\ f[6] = a6
            /\ f[7] = a7 /\ f[8] = a8 /\ f[10] = e /\ f[12] = R
        BY <3>1
      <3>3. c = 11 /\ 9 + n = 10 /\ 10 + n = 11 /\ c \in {10, 11}
        BY <3>2
      <3>4. Rejoined(SubSeq(f, 11, 12)) = Text(Barred, Len(R) + 2)
        <4>1. 12 \in Nat /\ 12 = Len(f) /\ 12 > 1 /\ 11 = 12 - 1
          BY <3>2
        <4>2. Rejoined(SubSeq(f, 12, 12)) = FromBytes(f[12]) /\ Rejoined(SubSeq(f, 11, 12)) = Text(Barred, Len(f[12]) + 2)
          BY <4>1, LastFields, Zenon
        <4> QED
          BY <3>2, <4>2, Zenon
      <3>5. Len(R) = p.payload.len - 2
        BY <1>3, <1>7, <2>0 DEF Bytes, Text
      <3>6. Text(Barred, Len(R) + 2) = p.payload
        BY <1>3, <1>7, <3>5 DEF IsWord, Text
      <3> HIDE DEF n, c
      <3>7. Starts
        BY <3>2, <3>3, Zenon DEF Starts
      <3>8. Ends(e, p.payload)
        <4>1. Len(f) = 12
          BY <3>2
        <4> QED
          BY <1>2, <3>6, <3>2, <3>3, <3>4, <4>1, Zenon DEF Ends
      <3>9. Read(e, p.payload)
        BY <1>5, <3>7, <3>8, Zenon
      <3> QED
        BY <1>2, <1>7, <2>3, <3>9 DEF Read, ReadAsV1
    <2> QED
      BY <2>2, <2>3
  <1> QED
    BY <1>6, <1>7

-----------------------------------------------------------------------------
(* The codec's invariant                                                   *)

\* What is left of the packet o, sent in format y, in the packet q after k
\* relays: its contents, unless a bar in its text was taken for the end of a
\* field, and its length but for the relay and the next hop.
Tolerance(y) == IF y = 0 THEN 0 ELSE 3
Confused(o, y) == y = 10 /\ o.payload.name = Barred
SameContent(q, o) ==
    /\ q.source = o.source /\ q.destination = o.destination /\ q.id = o.id /\ q.priority = o.priority
    /\ q.payload = o.payload /\ q.location = o.location
KeptOf(q, o, y, k) ==
    /\ IsBody(q) /\ q.hops = o.hops - k /\ q.path_hops = k + (IF y = 0 THEN 1 ELSE 0)
    /\ ~Confused(o, y) => SameContent(q, o)
    /\ type_to_u8(q.type) = type_to_u8(o.type)
    /\ BodySize(q) <= BodySize(o) + Tolerance(y)

InV1 == frame.v = 1 /\ legs = 0 /\ legacy # 0 /\ frame.plain = V1Fields(original, legacy)
InV2 ==
    /\ frame.v = 2
    /\ \E p : IsWirePacket(p) /\ KeptOf(p, original, legacy, legs) /\ frame.plain = PacketBytes(p)
CodecInv ==
    \/ original = Invalid /\ frame = NoFrame /\ refused = Empty /\ legs = 0
    \/ /\ original \in PacketsSent /\ legacy \in {0, 10, 11} /\ legs \in Nat
       /\ frame = NoFrame \/ InV1 \/ InV2
       /\ legs > 0 \/ frame # NoFrame => PacketSize(original) <= BEMS_MAX_PLAINTEXT
       /\ RoomForRelays

\* How long a packet can be beyond its body: by the relay and the next hop.
LEMMA SizesOfPacket ==
    ASSUME NEW p, IsWirePacket(p)
    PROVE  /\ BodySize(p) \in Nat /\ PacketSize(p) \in Nat /\ BodySize(p) + 1 <= PacketSize(p)
           /\ PacketSize(p) <= BodySize(p) + 2 * (FIELD_LEN - 1) + 1
  <1>1. /\ p.source.len \in Nat /\ p.relay.len \in 1 .. FIELD_LEN - 1 /\ p.payload.len \in Nat
        /\ p.next_hop.len \in 0 .. FIELD_LEN - 1 /\ (p.destination # ToAll => p.destination.len \in Nat)
        /\ Size(location_encode(p.location)) \in Nat
    BY TextsOfPacket
  <1>2. PICK F \in Nat : F = FIELD_LEN
    BY CodecAssumption
  <1>30. PICK s, r, t, m, e : /\ s = p.source.len /\ r = p.relay.len /\ t = p.payload.len /\ m = p.next_hop.len
                              /\ e = Size(location_encode(p.location))
    OBVIOUS
  <1>3. /\ s \in Nat /\ r \in 1 .. F - 1 /\ t \in Nat /\ m \in 0 .. F - 1 /\ e \in Nat
        /\ s = p.source.len /\ r = p.relay.len /\ t = p.payload.len /\ m = p.next_hop.len
        /\ e = Size(location_encode(p.location))
    BY <1>1, <1>2, <1>30, Zenon
  <1>4. 0 \in Nat /\ 1 + e \in Nat /\ 0 \in 0 .. F /\ 1 + m \in 0 .. F
    BY <1>3
  <1>5. PICK d, l, h : /\ d = (IF p.destination = ToAll THEN 0 ELSE p.destination.len)
                       /\ l = (IF Located(p) THEN 1 + Size(location_encode(p.location)) ELSE 0)
                       /\ h = (IF p.next_hop # Empty THEN 1 + p.next_hop.len ELSE 0)
    OBVIOUS
  <1>6. d \in Nat
    <2>1. CASE p.destination = ToAll
      BY <1>4, <1>5, <2>1, Zenon
    <2>2. CASE p.destination # ToAll
      BY <1>1, <1>5, <2>2, Zenon
    <2> QED
      BY <2>1, <2>2
  <1>7. l \in Nat
    BY <1>3, <1>4, <1>5, Zenon
  <1>8. h \in 0 .. F
    BY <1>3, <1>4, <1>5, Zenon
  <1>9. PICK b : b = BodySize(p)
    OBVIOUS
  <1>10. b = 15 + s + d + t + l
    BY <1>3, <1>5, <1>9, Zenon DEF BodySize
  <1>11. PacketSize(p) = b + r + h
    BY <1>3, <1>5, <1>9, Zenon DEF PacketSize
  <1>12. b \in Nat /\ b + r + h \in Nat /\ b + 1 <= b + r + h /\ b + r + h <= b + 2 * (F - 1) + 1
    BY <1>3, <1>6, <1>7, <1>8, <1>10
  <1> QED
    BY <1>2, <1>9, <1>11, <1>12, Zenon

\* What a node sends can be built, if it is not too long.
LEMMA SentIsWirePacket ==
    ASSUME NEW o, IsPacketSent(o)
    PROVE  IsWirePacket(o) /\ o.hops \in 0 .. 254 /\ o.path_hops = 1
  <1>1. /\ o.hops \in 0 .. 254 /\ o.path_hops = 1 /\ o.location_raw = FALSE
        /\ IsNodeId(o.source) /\ IsNodeId(o.relay) /\ (IsNodeId(o.destination) \/ o.destination = ToAll)
        /\ IsText(o.id, 5) /\ o.id.len = 4 /\ o.priority \in {"LOW", "NORMAL", "HIGH"}
        /\ IsLocation(o.location) /\ IsText(o.payload, PAYLOAD_LEN) /\ IsText(o.next_hop, FIELD_LEN)
    BY Zenon DEF IsPacketSent
  <1>2. \A h \in 0 .. 254 : h \in Nat
    OBVIOUS
  <1>3. 1 \in Nat /\ FALSE \in BOOLEAN
    OBVIOUS
  <1>4. o.hops \in Nat /\ o.path_hops \in Nat /\ o.location_raw \in BOOLEAN
    BY <1>1, <1>2, <1>3, Zenon
  <1> QED
    BY <1>1, <1>4, Zenon DEF IsWirePacket, IsBody

\* A relay changes the hops, the path, the relay and the next hop.
LEMMA RelayedIs ==
    ASSUME NEW q, IsPacket(q), NEW n, NEW via, NEW r, r = Relayed(q, n, via)
    PROVE  /\ r.source = q.source /\ r.destination = q.destination /\ r.id = q.id /\ r.type = q.type
           /\ r.priority = q.priority /\ r.relay = n /\ r.hops = q.hops - 1 /\ r.next_hop = via
           /\ r.path_hops = IF q.path_hops < 255 THEN q.path_hops + 1 ELSE q.path_hops
           /\ r.location = q.location /\ r.location_raw = q.location_raw /\ r.payload = q.payload
  BY DEF IsPacket, Relayed

\* What is relayed is a packet that can be built, and is kept as far as it was.
LEMMA RelayKeeps ==
    ASSUME NEW q, IsPacket(q), NEW o, IsPacketSent(o), NEW y \in {0, 10, 11}, NEW k \in Nat, KeptOf(q, o, y, k),
           q.hops > 0, NEW n, IsNodeId(n), NEW via, IsText(via, FIELD_LEN), NEW r, r = Relayed(q, n, via)
    PROVE  /\ IsWirePacket(r) /\ KeptOf(r, o, y, k + 1)
           /\ PacketSize(r) <= BodySize(o) + Tolerance(y) + 2 * (FIELD_LEN - 1) + 1
  <1>1. /\ r.source = q.source /\ r.destination = q.destination /\ r.id = q.id /\ r.type = q.type
        /\ r.priority = q.priority /\ r.relay = n /\ r.hops = q.hops - 1 /\ r.next_hop = via
        /\ r.path_hops = IF q.path_hops < 255 THEN q.path_hops + 1 ELSE q.path_hops
        /\ r.location = q.location /\ r.location_raw = q.location_raw /\ r.payload = q.payload
    BY RelayedIs
  <1>2. /\ IsBody(q) /\ q.hops = o.hops - k /\ q.path_hops = k + (IF y = 0 THEN 1 ELSE 0)
        /\ type_to_u8(q.type) = type_to_u8(o.type) /\ BodySize(q) <= BodySize(o) + Tolerance(y)
        /\ ~Confused(o, y) => SameContent(q, o)
    BY DEF KeptOf
  <1>3. q.hops \in Nat /\ q.path_hops \in Nat /\ o.hops \in 0 .. 254
    BY <1>2, SentIsWirePacket DEF IsBody
  <1>4. r.hops \in Nat /\ r.path_hops \in Nat /\ r.hops = o.hops - (k + 1) /\ r.path_hops = (k + 1) + (IF y = 0 THEN 1 ELSE 0)
    BY <1>1, <1>2, <1>3
  <1>5. IsBody(r)
    <2>1. /\ IsNodeId(q.source) /\ (IsNodeId(q.destination) \/ q.destination = ToAll) /\ IsText(q.id, 5) /\ q.id.len = 4
          /\ q.priority \in {"LOW", "NORMAL", "HIGH"} /\ IsLocation(q.location) /\ q.location_raw \in BOOLEAN
          /\ IsText(q.payload, PAYLOAD_LEN)
      BY <1>2, Zenon DEF IsBody
    <2> QED
      BY <1>1, <1>4, <2>1, Zenon DEF IsBody
  <1>6. IsWirePacket(r)
    BY <1>1, <1>5, Zenon DEF IsWirePacket
  <1>7. BodySize(r) = BodySize(q)
    BY <1>1, Zenon DEF BodySize, Located
  <1>8. SameContent(q, o) => SameContent(r, o)
    BY <1>1, Zenon DEF SameContent
  <1>9. KeptOf(r, o, y, k + 1)
    BY <1>1, <1>2, <1>4, <1>5, <1>7, <1>8, Zenon DEF KeptOf
  <1>10. BodySize(o) \in Nat /\ Tolerance(y) \in Nat /\ FIELD_LEN \in Nat
    BY SentIsWirePacket, SizesOfPacket, CodecAssumption DEF Tolerance
  <1>11. /\ BodySize(r) \in Nat /\ PacketSize(r) \in Nat
         /\ PacketSize(r) <= BodySize(r) + 2 * (FIELD_LEN - 1) + 1
    BY <1>6, SizesOfPacket
  <1>12. PacketSize(r) <= BodySize(o) + Tolerance(y) + 2 * (FIELD_LEN - 1) + 1
    BY <1>2, <1>7, <1>10, <1>11
  <1> QED
    BY <1>6, <1>9, <1>12, Zenon

\* Where there was no location the bytes of a packet in format V1 make an empty one.
LEMMA NoLocationIs ==
    IsLocation(NoLocation) /\ Size(location_encode(NoLocation)) = 2
  <1>1. PICK l : l = NoLocation
    OBVIOUS
  <1>2. l.sitio = Empty /\ l.barangay = Empty /\ l.municipality = Empty
    BY <1>1 DEF NoLocation
  <1>3. IsWord(Empty) /\ Empty.len = 0
    BY DEF IsWord, Text, Empty, TextNames
  <1>4. IsLocation(l)
    BY <1>1, <1>2, <1>3 DEF IsLocation, NoLocation
  <1>5. PICK s \in Nat, g \in Nat, m \in Nat : s = 0 /\ g = 0 /\ m = 0
    OBVIOUS
  <1>6. Separated(location_encode(l), Bytes(l.sitio), s, Bytes(l.barangay), g, Bytes(l.municipality), m, Tilde)
    BY <1>2, <1>3, <1>4, <1>5, EncodedLocation
  <1>7. Size(location_encode(l)) = s + g + m + 2
    BY <1>6, Zenon DEF Separated
  <1> QED
    BY <1>1, <1>4, <1>5, <1>7

\* A body as the sum of its parts.
BodyParts(p, s, d, t, l) ==
    /\ s = p.source.len /\ d = (IF p.destination = ToAll THEN 0 ELSE p.destination.len) /\ t = p.payload.len
    /\ l = (IF Located(p) THEN 1 + Size(location_encode(p.location)) ELSE 0)
    /\ s \in Nat /\ d \in Nat /\ t \in Nat /\ l \in Nat /\ BodySize(p) = 15 + s + d + t + l

\* Every packet's body is.
LEMMA BodyHasParts ==
    ASSUME NEW p, IsWirePacket(p)
    PROVE  \E s, d, t, l : BodyParts(p, s, d, t, l)
  <1>1. /\ p.source.len \in Nat /\ p.payload.len \in Nat /\ (p.destination # ToAll => p.destination.len \in Nat)
        /\ Size(location_encode(p.location)) \in Nat
    BY TextsOfPacket
  <1>2. PICK s, t, e : s = p.source.len /\ t = p.payload.len /\ e = Size(location_encode(p.location))
    OBVIOUS
  <1>3. s \in Nat /\ t \in Nat /\ e \in Nat
    BY <1>1, <1>2, Zenon
  <1>4. PICK d, l : /\ d = (IF p.destination = ToAll THEN 0 ELSE p.destination.len)
                    /\ l = (IF Located(p) THEN 1 + Size(location_encode(p.location)) ELSE 0)
    OBVIOUS
  <1>5. 0 \in Nat /\ 1 + e \in Nat
    BY <1>3
  <1>6. d \in Nat
    <2>1. CASE p.destination = ToAll
      BY <1>4, <1>5, <2>1, Zenon
    <2>2. CASE p.destination # ToAll
      BY <1>1, <1>4, <2>2, Zenon
    <2> QED
      BY <2>1, <2>2
  <1>7. l \in Nat
    BY <1>2, <1>4, <1>5, Zenon
  <1>8. BodySize(p) = 15 + s + d + t + l
    BY <1>2, <1>4, Zenon DEF BodySize
  <1> QED
    BY <1>2, <1>3, <1>4, <1>6, <1>7, <1>8, Zenon DEF BodyParts

\* A packet read in format V1 is the one that was sent, but for the location.
LEMMA V1Keeps ==
    ASSUME NEW o, IsPacketSent(o), NEW y \in {10, 11}, NEW q, q = parse_mesh_packet(V1Fields(o, y))
    PROVE  IsPacket(q) /\ q.type = o.type /\ KeptOf(q, o, y, 0)
  <1>1. /\ IsPacket(q) /\ q.id = o.id /\ q.source = o.source /\ q.destination = o.destination
        /\ q.type = o.type /\ q.priority = o.priority /\ q.hops = o.hops /\ q.relay = o.relay
        /\ q.path_hops = 0 /\ q.location_raw = TRUE
        /\ IF y = 10 /\ o.payload.name = Barred
           THEN q.location = LeftPart /\ q.payload = FromBytes(Bytes(Text("right", o.payload.len - 2)))
           ELSE q.location = o.location /\ q.payload = o.payload
    <2>1. ReadAsV1(q, o, y)
      BY ReadV1
    <2> QED
      BY <2>1, Zenon DEF ReadAsV1
  <1>2. IsBody(o) /\ IsWirePacket(o) /\ o.hops \in 0 .. 254
    BY SentIsWirePacket DEF IsWirePacket
  <1>3. /\ IsNodeId(o.source) /\ IsNodeId(o.relay) /\ (IsNodeId(o.destination) \/ o.destination = ToAll)
        /\ IsText(o.id, 5) /\ o.id.len = 4 /\ o.priority \in {"LOW", "NORMAL", "HIGH"} /\ o.hops \in Nat
        /\ IsLocation(o.location) /\ IsText(o.payload, PAYLOAD_LEN)
    BY <1>2, Zenon DEF IsBody
  <1>4. q.path_hops \in Nat /\ q.location_raw \in BOOLEAN
    <2>1. 0 \in Nat /\ TRUE \in BOOLEAN
      OBVIOUS
    <2> QED
      BY <1>1, <2>1, Zenon
  <1>5. PICK s, d, t, l : BodyParts(o, s, d, t, l)
    BY <1>2, BodyHasParts
  <1>6. Located(q) = TRUE
    BY <1>1, Zenon DEF Located
  <1>7. q.hops = o.hops - 0 /\ q.path_hops = 0 + (IF y = 0 THEN 1 ELSE 0)
    BY <1>1, <1>3
  <1>8. Tolerance(y) = 3
    BY DEF Tolerance
  <1>9. CASE ~Confused(o, y)
    <2>1. q.location = o.location /\ q.payload = o.payload
      BY <1>1, <1>9 DEF Confused
    <2>2. IsBody(q)
      BY <1>1, <1>3, <1>4, <2>1, Zenon DEF IsBody
    <2>3. SameContent(q, o)
      BY <1>1, <2>1, Zenon DEF SameContent
    <2>4. PICK e : e = 1 + Size(location_encode(o.location))
      OBVIOUS
    <2>5. BodySize(q) = 15 + s + d + t + e
      BY <1>1, <1>5, <1>6, <2>1, <2>4, Zenon DEF BodySize, BodyParts
    <2>6. e = l \/ (e = 3 /\ l = 0)
      <3>1. CASE Located(o)
        BY <1>5, <2>4, <3>1, Zenon DEF BodyParts
      <3>2. CASE ~Located(o)
        <4>1. o.location = NoLocation /\ l = 0
          BY <1>5, <3>2, Zenon DEF BodyParts, Located
        <4>2. e = 1 + 2
          BY <2>4, <4>1, NoLocationIs, Zenon
        <4> QED
          BY <4>1, <4>2
      <3> QED
        BY <3>1, <3>2
    <2>7. BodySize(q) <= BodySize(o) + 3
      BY <1>5, <2>5, <2>6 DEF BodyParts
    <2> QED
      BY <1>1, <1>7, <1>8, <2>2, <2>3, <2>7, Zenon DEF KeptOf
  <1>10. CASE Confused(o, y)
    <2>1. q.location = LeftPart /\ q.payload = FromBytes(Bytes(Text("right", o.payload.len - 2)))
      BY <1>1, <1>10 DEF Confused
    <2>2. o.payload.len \in Nat /\ o.payload.len >= 2 /\ o.payload.len < PAYLOAD_LEN /\ PAYLOAD_LEN \in Nat
      BY <1>10, CodecAssumption DEF IsPacketSent, Confused, IsText, IsWord
    <2>3. PICK w \in Nat : w = o.payload.len - 2 /\ w < PAYLOAD_LEN /\ w + 2 = t
      BY <1>5, <2>2 DEF BodyParts
    <2>4. IsText(q.payload, PAYLOAD_LEN) /\ q.payload.len = w
      <3>1. CASE w = 0
        <4>1. Bytes(Text("right", 0)) = <<>>
          BY DEF Bytes, Text
        <4>2. q.payload = Empty
          BY <2>1, <2>3, <3>1, <4>1, Zenon DEF FromBytes
        <4>3. IsWord(Empty) /\ Empty.len = 0
          BY DEF IsWord, Empty, Text, TextNames
        <4> QED
          BY <2>3, <3>1, <4>2, <4>3 DEF IsText
      <3>2. CASE w # 0
        <4>1. PICK u : u = Text("right", w)
          OBVIOUS
        <4>2. IsWord(u) /\ u.len = w
          BY <2>3, <3>2, <4>1 DEF IsWord, Text, TextNames
        <4>3. q.payload = u
          BY <2>1, <2>3, <4>1, <4>2, TextFromBytes, Zenon
        <4> QED
          BY <2>3, <4>2, <4>3 DEF IsText
      <3> QED
        BY <3>1, <3>2
    <2>5. IsLocation(q.location) /\ Size(location_encode(q.location)) = 3
      BY <2>1, LeftOfBar
    <2>6. IsBody(q)
      BY <1>1, <1>3, <1>4, <2>4, <2>5, Zenon DEF IsBody
    <2>7. BodySize(q) = 15 + s + d + w + (1 + 3)
      BY <1>1, <1>5, <1>6, <2>4, <2>5, Zenon DEF BodySize, BodyParts
    <2>8. BodySize(q) <= BodySize(o) + 3
      BY <1>5, <2>3, <2>7 DEF BodyParts
    <2> QED
      BY <1>1, <1>7, <1>8, <1>10, <2>6, <2>8, Zenon DEF KeptOf
  <1> QED
    BY <1>1, <1>9, <1>10

\* A packet read in format V2 is the one that was built, with a type there is a byte for.
LEMMA V2Keeps ==
    ASSUME NEW p, IsWirePacket(p), NEW o, NEW y, NEW k, KeptOf(p, o, y, k),
           NEW q, q = parse_mesh_packet_v2(PacketBytes(p))
    PROVE  IsPacket(q) /\ q.type = type_from_u8(type_to_u8(o.type)) /\ KeptOf(q, o, y, k)
  <1>1. PICK raw, type : raw = Located(p) /\ type = type_from_u8(type_to_u8(p.type))
    OBVIOUS
  <1>2. q = [valid |-> TRUE, source |-> p.source, destination |-> p.destination, id |-> p.id,
             type |-> type, priority |-> p.priority,
             relay |-> p.relay, hops |-> p.hops, path_hops |-> p.path_hops, next_hop |-> p.next_hop,
             location |-> p.location, location_raw |-> raw, payload |-> p.payload]
    BY <1>1, RoundTrip, Zenon
  <1>3. /\ q.source = p.source /\ q.destination = p.destination /\ q.id = p.id /\ q.type = type
        /\ q.priority = p.priority /\ q.relay = p.relay /\ q.hops = p.hops /\ q.path_hops = p.path_hops
        /\ q.next_hop = p.next_hop /\ q.location = p.location /\ q.location_raw = raw /\ q.payload = p.payload
    BY <1>2
  <1>4. IsPacket(q)
    BY <1>2, <1>3, Zenon DEF IsPacket
  <1>5. raw \in BOOLEAN
    BY <1>1 DEF Located
  <1>6. Located(q) = Located(p)
    BY <1>1, <1>3 DEF Located
  <1>7. BodySize(q) = BodySize(p)
    BY <1>3, <1>6, Zenon DEF BodySize
  <1>8. IsBody(q)
    <2>1. IsBody(p)
      BY DEF IsWirePacket
    <2> QED
      BY <1>3, <1>5, <2>1, Zenon DEF IsBody
  <1>9. type_to_u8(q.type) = type_to_u8(p.type)
    BY <1>1, <1>3, TypeRoundTrip, Zenon
  <1>10. /\ p.hops = o.hops - k /\ p.path_hops = k + (IF y = 0 THEN 1 ELSE 0)
         /\ ~Confused(o, y) => SameContent(p, o)
         /\ type_to_u8(p.type) = type_to_u8(o.type) /\ BodySize(p) <= BodySize(o) + Tolerance(y)
    BY Zenon DEF KeptOf
  <1>11. SameContent(p, o) => SameContent(q, o)
    BY <1>3, Zenon DEF SameContent
  <1>12. KeptOf(q, o, y, k)
    <2>1. q.hops = o.hops - k /\ q.path_hops = k + (IF y = 0 THEN 1 ELSE 0)
      BY <1>3, <1>10, Zenon
    <2>2. ~Confused(o, y) => SameContent(q, o)
      BY <1>10, <1>11, Zenon
    <2>3. type_to_u8(q.type) = type_to_u8(o.type) /\ BodySize(q) <= BodySize(o) + Tolerance(y)
      BY <1>7, <1>9, <1>10, Zenon
    <2> QED
      BY <1>8, <2>1, <2>2, <2>3, Zenon DEF KeptOf
  <1>13. q.type = type_from_u8(type_to_u8(o.type))
    BY <1>1, <1>3, <1>10, Zenon
  <1> QED
    BY <1>4, <1>12, <1>13

\* What is on the air is read as what was sent.
LEMMA FrameIsRead ==
    ASSUME original \in PacketsSent, legacy \in {0, 10, 11}, InV1 \/ InV2, NEW q, q = Parse(frame)
    PROVE  /\ IsPacket(q) /\ KeptOf(q, original, legacy, legs)
           /\ q.type = IF frame.v = 1 THEN original.type ELSE type_from_u8(type_to_u8(original.type))
  <1>1. IsPacketSent(original)
    BY CodecAssumption
  <1>2. CASE InV1
    <2>1. frame.v = 1 /\ legs = 0 /\ legacy # 0 /\ frame.plain = V1Fields(original, legacy)
      BY <1>2 DEF InV1
    <2>2. legacy \in {10, 11}
      BY <2>1
    <2>3. ~(frame.v = 0)
      BY <2>1
    <2>4. q = parse_mesh_packet(V1Fields(original, legacy))
      BY <2>1, <2>3 DEF Parse
    <2>5. IsPacket(q) /\ q.type = original.type /\ KeptOf(q, original, legacy, 0)
      BY <1>1, <2>2, <2>4, V1Keeps
    <2> QED
      BY <2>1, <2>5, Zenon
  <1>3. CASE InV2
    <2>1. PICK p : IsWirePacket(p) /\ KeptOf(p, original, legacy, legs) /\ frame.plain = PacketBytes(p)
      BY <1>3, Zenon DEF InV2
    <2>2. frame.v = 2
      BY <1>3 DEF InV2
    <2>3. q = parse_mesh_packet_v2(PacketBytes(p))
      BY <2>1, <2>2 DEF Parse
    <2>4. IsPacket(q) /\ q.type = type_from_u8(type_to_u8(original.type)) /\ KeptOf(q, original, legacy, legs)
      BY <2>1, <2>3, V2Keeps
    <2>5. frame.v # 1
      BY <2>2
    <2> QED
      BY <2>4, <2>5, Zenon
  <1> QED
    BY <1>2, <1>3

\* The bytes of a packet are never none: no frame means that it is too long, or
\* that the node has no key.
LEMMA BuiltFrame ==
    ASSUME NEW r, IsWirePacket(r), NEW n, NEW built, built = build_forward_packet_v2(r),
           NEW f, f = bems_encrypt_frame(n, 2, built)
    PROVE  /\ f = NoFrame \/ (f.v = 2 /\ f.plain = PacketBytes(r) /\ PacketSize(r) <= BEMS_MAX_PLAINTEXT)
           /\ built = <<>> => PacketSize(r) > BEMS_MAX_PLAINTEXT
  <1>1. built = IF PacketSize(r) > BEMS_MAX_PLAINTEXT THEN <<>> ELSE PacketBytes(r)
    BY BuiltIs, Zenon
  <1>2. PacketSize(r) \in Nat /\ BodySize(r) \in Nat /\ BodySize(r) + 1 <= PacketSize(r) /\ BEMS_MAX_PLAINTEXT \in Nat
    BY SizesOfPacket, CodecAssumption
  <1>3. PacketBytes(r) # <<>>
    <2>1. Size(PacketBytes(r)) = PacketSize(r)
      BY PartsOfPacket
    <2>2. PacketSize(r) # 0
      BY <1>2
    <2> QED
      BY <2>1, <2>2, EmptyBytes
  <1>4. built = <<>> => PacketSize(r) > BEMS_MAX_PLAINTEXT
    BY <1>1, <1>3, Zenon
  <1>5. CASE built = <<>>
    BY <1>4, <1>5 DEF bems_encrypt_frame
  <1>6. CASE built # <<>>
    <2>1. built = PacketBytes(r) /\ ~(PacketSize(r) > BEMS_MAX_PLAINTEXT)
      BY <1>1, <1>6, Zenon
    <2>2. f = NoFrame \/ f = [key |-> NetworkKey[n], v |-> 2, plain |-> built]
      BY <1>6 DEF bems_encrypt_frame
    <2>3. f = NoFrame \/ (f.v = 2 /\ f.plain = built)
      BY <2>2
    <2> QED
      BY <1>2, <1>4, <2>1, <2>3
  <1> QED
    BY <1>5, <1>6

\* A packet in format V1 is longer than in V2.
LEMMA V1IsLonger ==
    ASSUME NEW o, IsPacketSent(o), NEW y \in {10, 11}, y = 10 => o.next_hop = Empty
    PROVE  PacketSize(o) <= V1Length(o, y)
  <1>1. IsWirePacket(o)
    BY SentIsWirePacket
  <1>2. /\ o.source.len \in Nat /\ o.relay.len \in 1 .. FIELD_LEN - 1 /\ o.payload.len \in Nat
        /\ o.next_hop.len \in 0 .. FIELD_LEN - 1 /\ (o.destination # ToAll => o.destination.len \in Nat)
        /\ Size(location_encode(o.location)) \in Nat
    BY <1>1, TextsOfPacket
  <1>3. PICK s, d, t, l : BodyParts(o, s, d, t, l)
    BY <1>1, BodyHasParts
  <1>4. PICK e, g, r, m, h, z :
          /\ e = Len(location_encode(o.location)) /\ g = o.destination.len /\ r = o.relay.len /\ m = o.next_hop.len
          /\ h = (IF o.next_hop # Empty THEN 1 + o.next_hop.len ELSE 0)
          /\ z = (IF y = 11 THEN o.next_hop.len ELSE 0)
    OBVIOUS
  <1>5. e \in Nat /\ r \in Nat /\ m \in Nat
    BY <1>2, <1>4, CodecAssumption DEF Size
  <1>6. g \in Nat /\ d <= g
    <2>1. CASE o.destination = ToAll
      <3>1. g = 3 /\ d = 0
        BY <1>3, <1>4, <2>1 DEF ToAll, Text, BodyParts
      <3> QED
        BY <3>1
    <2>2. CASE o.destination # ToAll
      <3>1. g = d /\ d \in Nat
        BY <1>3, <1>4, <2>2, Zenon DEF BodyParts
      <3> QED
        BY <3>1
    <2> QED
      BY <2>1, <2>2
  <1>7. l <= 1 + e /\ l \in Nat
    <2>1. l = 1 + e \/ l = 0
      BY <1>3, <1>4, Zenon DEF BodyParts, Size
    <2> QED
      BY <1>5, <2>1
  <1>8. (y = 10 /\ h = 0 /\ z = 0) \/ (y = 11 /\ h \in Nat /\ h <= 1 + m /\ z = m)
    <2>1. CASE y = 10
      <3>1. y # 11
        BY <2>1
      <3> QED
        BY <1>4, <2>1, <3>1, Zenon
    <2>2. CASE y = 11
      <3>1. z = m /\ (h = 1 + m \/ h = 0)
        BY <1>4, <2>2, Zenon
      <3> QED
        BY <1>5, <2>2, <3>1
    <2> QED
      BY <2>1, <2>2
  <1>9. PacketSize(o) = (15 + s + d + t + l) + r + h /\ s \in Nat /\ d \in Nat /\ t \in Nat
    BY <1>3, <1>4, Zenon DEF PacketSize, BodyParts
  <1>10. V1Length(o, y) = (y - 1) + 4 + 1 + s + g + 3 + 3 + 1 + r + z + e + t
    BY <1>3, <1>4, Zenon DEF V1Length, BodyParts
  <1> QED
    BY <1>5, <1>6, <1>7, <1>8, <1>9, <1>10

\* A packet of the node's own: it is kept as it is.
LEMMA SentInV2Keeps ==
    ASSUME NEW p \in PacketsSent, SendV2(p)
    PROVE  CodecInv'
  <1>1. IsPacketSent(p) /\ IsWirePacket(p) /\ p.path_hops = 1 /\ p.hops \in Nat
    <2>1. IsPacketSent(p)
      BY CodecAssumption
    <2> QED
      BY <2>1, SentIsWirePacket
  <1>2. original' = p /\ legacy' = 0 /\ legs' = 0
    BY DEF SendV2
  <1>3. KeptOf(p, p, 0, 0)
    <2>1. IsBody(p)
      BY <1>1, Zenon DEF IsWirePacket
    <2>2. p.hops = p.hops - 0 /\ p.path_hops = 0 + (IF 0 = 0 THEN 1 ELSE 0)
      BY <1>1
    <2>3. SameContent(p, p)
      BY Zenon DEF SameContent
    <2>4. BodySize(p) <= BodySize(p) + Tolerance(0)
      BY <1>1, SizesOfPacket DEF Tolerance
    <2> QED
      BY <2>1, <2>2, <2>3, <2>4, Zenon DEF KeptOf
  <1>4. PICK n, built, f : n = p.source /\ built = build_forward_packet_v2(p) /\ f = bems_encrypt_frame(n, 2, built)
    OBVIOUS
  <1>5. f = NoFrame \/ (f.v = 2 /\ f.plain = PacketBytes(p) /\ PacketSize(p) <= BEMS_MAX_PLAINTEXT)
    <2>1. \A r, m, b, g : IsWirePacket(r) /\ b = build_forward_packet_v2(r) /\ g = bems_encrypt_frame(m, 2, b)
            => g = NoFrame \/ (g.v = 2 /\ g.plain = PacketBytes(r) /\ PacketSize(r) <= BEMS_MAX_PLAINTEXT)
      BY BuiltFrame, Zenon
    <2> QED
      BY <1>1, <1>4, <2>1, Zenon
  <1>6. frame' = f
    BY <1>4, Zenon DEF SendV2
  <1>7. frame' = NoFrame \/ InV2'
    BY <1>1, <1>2, <1>3, <1>5, <1>6, Zenon DEF InV2
  <1>8. (legs > 0 \/ frame # NoFrame => PacketSize(original) <= BEMS_MAX_PLAINTEXT)'
    <2>1. ~(legs' > 0)
      BY <1>2
    <2> QED
      BY <1>2, <1>5, <1>6, <2>1, Zenon
  <1>9. RoomForRelays'
    <2>1. ~(legs' > 0)
      BY <1>2
    <2> QED
      BY <2>1, Zenon DEF RoomForRelays
  <1>10. (original \in PacketsSent /\ legacy \in {0, 10, 11} /\ legs \in Nat)'
    BY <1>2
  <1> QED
    BY <1>7, <1>8, <1>9, <1>10, Zenon DEF CodecInv

\* A packet of a node with the older firmware.
LEMMA SentInV1Keeps ==
    ASSUME NEW p \in PacketsSent, NEW count \in {10, 11}, SendV1(p, count)
    PROVE  CodecInv'
  <1>1. IsPacketSent(p)
    BY CodecAssumption
  <1>2. original' = p /\ legacy' = count /\ legs' = 0 /\ refused' = Empty /\ (count = 10 => p.next_hop = Empty)
    BY DEF SendV1
  <1>3. PacketSize(p) <= BEMS_MAX_PLAINTEXT
    <2>1. V1Length(p, count) <= BEMS_MAX_PLAINTEXT
      BY DEF SendV1
    <2>2. PacketSize(p) <= V1Length(p, count)
      BY <1>1, <1>2, V1IsLonger
    <2>3. PacketSize(p) \in Nat /\ BEMS_MAX_PLAINTEXT \in Nat
      BY <1>1, SentIsWirePacket, SizesOfPacket, CodecAssumption
    <2>4. V1Length(p, count) \in Int
      <3>1. IsWirePacket(p)
        BY <1>1, SentIsWirePacket
      <3>2. /\ p.source.len \in Nat /\ p.relay.len \in 1 .. FIELD_LEN - 1 /\ p.payload.len \in Nat
            /\ p.next_hop.len \in 0 .. FIELD_LEN - 1 /\ (p.destination # ToAll => p.destination.len \in Nat)
            /\ Size(location_encode(p.location)) \in Nat
        BY <3>1, TextsOfPacket
      <3>3. p.destination.len \in Nat
        <4>1. ToAll.len \in Nat
          BY DEF ToAll, Text
        <4> QED
          BY <3>2, <4>1, Zenon
      <3>4. PICK z : z = IF count = 11 THEN p.next_hop.len ELSE 0
        OBVIOUS
      <3>5. p.next_hop.len \in Nat /\ p.relay.len \in Nat /\ 0 \in Nat
        BY <3>2, CodecAssumption
      <3>6. z \in Nat
        BY <3>4, <3>5, Zenon
      <3>7. V1Length(p, count) = (count - 1) + 4 + 1 + p.source.len + p.destination.len + 3 + 3 + 1 + p.relay.len
                                    + z + Size(location_encode(p.location)) + p.payload.len
        BY <3>4, Zenon DEF V1Length, Size
      <3> QED
        BY <3>2, <3>3, <3>5, <3>6, <3>7
    <2> QED
      BY <2>1, <2>2, <2>3, <2>4
  <1>4. frame' = NoFrame \/ InV1'
    <2>1. PICK k : frame' = NoFrame \/ frame' = [key |-> k, v |-> 1, plain |-> V1Fields(p, count)]
      BY DEF SendV1, bems_encrypt_frame
    <2>2. frame' = NoFrame \/ (frame'.v = 1 /\ frame'.plain = V1Fields(p, count))
      BY <2>1
    <2>3. legacy' # 0
      BY <1>2
    <2> QED
      BY <1>2, <2>2, <2>3, Zenon DEF InV1
  <1>5. (legs > 0 \/ frame # NoFrame => PacketSize(original) <= BEMS_MAX_PLAINTEXT)'
    BY <1>2, <1>3, Zenon
  <1>6. RoomForRelays'
    BY <1>2, Zenon DEF RoomForRelays
  <1>7. (original \in PacketsSent /\ legacy \in {0, 10, 11} /\ legs \in Nat)'
    BY <1>2
  <1> QED
    BY <1>4, <1>5, <1>6, <1>7, Zenon DEF CodecInv

\* What a relay makes of what it has read.
LEMMA RelayedKeeps ==
    ASSUME CodecInv, NEW n \in CodecNodes, NEW via \in CodecNodes \cup {Empty}, RelayPacket(n, via)
    PROVE  CodecInv'
  <1>1. PICK q : q = Parse(bems_decrypt_frame_bytes(n, frame))
    OBVIOUS
  <1>2. PICK r : r = Relayed(q, n, via)
    OBVIOUS
  <1>3. PICK built : built = build_forward_packet_v2(r)
    OBVIOUS
  <1>4. /\ q.valid /\ q.hops > 0 /\ frame' = bems_encrypt_frame(n, 2, built) /\ legs' = legs + 1
        /\ refused' = (IF built = <<>> THEN n ELSE Empty) /\ original' = original /\ legacy' = legacy
    BY <1>1, <1>2, <1>3, Zenon DEF RelayPacket
  <1>5. frame # NoFrame /\ bems_decrypt_frame_bytes(n, frame) = frame
    <2>1. CASE bems_decrypt_frame_bytes(n, frame) = NoFrame
      <3>1. NoFrame.v = 0
        BY DEF NoFrame
      <3>2. q = Invalid
        BY <1>1, <2>1, <3>1 DEF Parse
      <3>3. Invalid.valid = FALSE
        BY DEF Invalid
      <3> QED
        BY <1>4, <3>2, <3>3, Zenon
    <2> QED
      BY <2>1, Zenon DEF bems_decrypt_frame_bytes
  <1>6. /\ original \in PacketsSent /\ legacy \in {0, 10, 11} /\ legs \in Nat
        /\ (InV1 \/ InV2) /\ PacketSize(original) <= BEMS_MAX_PLAINTEXT
    BY <1>5, Zenon DEF CodecInv
  <1>7. IsPacketSent(original)
    BY <1>6, CodecAssumption
  <1>8. q = Parse(frame)
    BY <1>1, <1>5, Zenon
  <1>9. IsPacket(q) /\ KeptOf(q, original, legacy, legs)
    BY <1>6, <1>8, FrameIsRead, Zenon
  <1>10. IsNodeId(n) /\ IsText(via, FIELD_LEN)
    <2>1. \A m \in CodecNodes : IsNodeId(m)
      BY CodecAssumption
    <2>2. IsText(Empty, FIELD_LEN)
      <3>1. IsWord(Empty) /\ Empty.len = 0
        BY DEF IsWord, Empty, Text, TextNames
      <3>2. 0 < FIELD_LEN
        BY CodecAssumption
      <3> QED
        BY <3>1, <3>2, Zenon DEF IsText
    <2> QED
      BY <2>1, <2>2, Zenon DEF IsNodeId
  <1>11. /\ IsWirePacket(r) /\ KeptOf(r, original, legacy, legs + 1)
         /\ PacketSize(r) <= BodySize(original) + Tolerance(legacy) + 2 * (FIELD_LEN - 1) + 1
    BY <1>2, <1>4, <1>6, <1>7, <1>9, <1>10, RelayKeeps, Zenon
  <1>12. /\ frame' = NoFrame \/ (frame'.v = 2 /\ frame'.plain = PacketBytes(r) /\ PacketSize(r) <= BEMS_MAX_PLAINTEXT)
         /\ built = <<>> => PacketSize(r) > BEMS_MAX_PLAINTEXT
    BY <1>3, <1>4, <1>11, BuiltFrame, Zenon
  <1>13. frame' = NoFrame \/ InV2'
    BY <1>4, <1>11, <1>12, Zenon DEF InV2
  <1>14. RoomForRelays'
    <2> SUFFICES ASSUME refused' # Empty
                 PROVE  Len(build_forward_packet_v2(original)) + (2 * (FIELD_LEN - 1) + (IF legacy = 0 THEN 0 ELSE 3))
                            > BEMS_MAX_PLAINTEXT
      BY <1>4, Zenon DEF RoomForRelays
    <2>1. PacketSize(r) > BEMS_MAX_PLAINTEXT
      BY <1>4, <1>12, Zenon
    <2>2. PICK o : o = original
      OBVIOUS
    <2>3. IsWirePacket(o)
      BY <1>7, <2>2, SentIsWirePacket
    <2>4. PacketSize(o) \in Nat /\ BodySize(o) \in Nat /\ BodySize(o) + 1 <= PacketSize(o)
      BY <2>3, SizesOfPacket
    <2>5. PacketSize(r) \in Nat /\ BEMS_MAX_PLAINTEXT \in Nat /\ FIELD_LEN \in Nat
      BY <1>11, SizesOfPacket, CodecAssumption
    <2>6. build_forward_packet_v2(o) = PacketBytes(o)
      <3>1. build_forward_packet_v2(o) = IF PacketSize(o) > BEMS_MAX_PLAINTEXT THEN <<>> ELSE PacketBytes(o)
        BY <2>3, BuiltIs, Zenon
      <3>2. ~(PacketSize(o) > BEMS_MAX_PLAINTEXT)
        BY <1>6, <2>2, <2>4, <2>5
      <3> QED
        BY <3>1, <3>2, Zenon
    <2>7. Len(build_forward_packet_v2(o)) = PacketSize(o)
      <3>1. Size(PacketBytes(o)) = PacketSize(o)
        BY <2>3, PartsOfPacket
      <3> QED
        BY <2>6, <3>1, Zenon DEF Size
    <2>8. PICK y, z : y = Tolerance(legacy) /\ z = (IF legacy = 0 THEN 0 ELSE 3) /\ y = z /\ z \in Nat
      BY <1>6 DEF Tolerance
    <2>9. PacketSize(o) + (2 * (FIELD_LEN - 1) + z) > BEMS_MAX_PLAINTEXT
      BY <1>11, <2>1, <2>2, <2>4, <2>5, <2>8
    <2> QED
      BY <2>2, <2>7, <2>8, <2>9, Zenon
  <1>15. legs + 1 \in Nat
    BY <1>6
  <1> QED
    BY <1>4, <1>6, <1>13, <1>14, <1>15, Zenon DEF CodecInv

\* Every step keeps the invariant.
LEMMA CodecInvHolds ==
    ASSUME CodecInv, CodecNext PROVE CodecInv'
  <1>1. ASSUME NEW p \in PacketsSent, SendV2(p) PROVE CodecInv'
    BY <1>1, SentInV2Keeps
  <1>2. ASSUME NEW p \in PacketsSent, NEW count \in {10, 11}, SendV1(p, count) PROVE CodecInv'
    BY <1>2, SentInV1Keeps
  <1>3. ASSUME NEW n \in CodecNodes, NEW via \in CodecNodes \cup {Empty}, RelayPacket(n, via) PROVE CodecInv'
    BY <1>3, RelayedKeeps
  <1> QED
    BY <1>1, <1>2, <1>3, Zenon DEF CodecNext

\* The promise follows from the invariant.
LEMMA CodecInvIsSound ==
    ASSUME CodecInv PROVE CodecIsSound
  <1>1. CASE original = Invalid /\ frame = NoFrame /\ refused = Empty /\ legs = 0
    <2>1. NoFrame.v # 2
      BY DEF NoFrame
    <2> QED
      BY <1>1, <2>1, Zenon DEF CodecIsSound, ArrivesAsSent, PrefixIsRefused, RoomForRelays
  <1>2. CASE ~(original = Invalid /\ frame = NoFrame /\ refused = Empty /\ legs = 0)
    <2>1. /\ original \in PacketsSent /\ legacy \in {0, 10, 11} /\ legs \in Nat /\ RoomForRelays
          /\ (frame = NoFrame \/ InV1 \/ InV2)
      BY <1>2, Zenon DEF CodecInv
    <2>2. ArrivesAsSent
      <3> SUFFICES ASSUME frame # NoFrame, ~(legacy = 10 /\ original.payload.name = Barred), NEW q, q = Parse(frame)
                   PROVE  /\ q.valid /\ \A c \in Content : q[c] = original[c]
                          /\ q.type = IF frame.v = 1 \/ \E i \in DOMAIN WireTypes : WireTypes[i] = original.type
                                      THEN original.type ELSE "FLOOD"
                          /\ q.hops = original.hops - legs
                          /\ q.path_hops = legs + (IF legacy = 0 THEN 1 ELSE 0)
        BY Zenon DEF ArrivesAsSent
      <3>1. /\ IsPacket(q) /\ KeptOf(q, original, legacy, legs)
            /\ q.type = IF frame.v = 1 THEN original.type ELSE type_from_u8(type_to_u8(original.type))
        BY <2>1, FrameIsRead, Zenon
      <3>2. SameContent(q, original) /\ q.hops = original.hops - legs
            /\ q.path_hops = legs + (IF legacy = 0 THEN 1 ELSE 0)
        BY <3>1, Zenon DEF KeptOf, Confused
      <3>3. \A c \in Content : q[c] = original[c]
        BY <3>2 DEF Content, SameContent
      <3>4. q.valid = TRUE
        BY <3>1 DEF IsPacket
      <3>5. q.type = IF frame.v = 1 \/ \E i \in DOMAIN WireTypes : WireTypes[i] = original.type
                     THEN original.type ELSE "FLOOD"
        BY <3>1, TypeRoundTrip, Zenon
      <3> QED
        BY <3>2, <3>3, <3>4, <3>5, Zenon
    <2>3. PrefixIsRefused
      <3> SUFFICES ASSUME frame.v = 2, NEW n \in 0 .. Len(frame.plain) - 1
                   PROVE  ~parse_mesh_packet_v2(SubSeq(frame.plain, 1, n)).valid
        BY Zenon DEF PrefixIsRefused
      <3>1. InV2
        <4>1. NoFrame.v # 2
          BY DEF NoFrame
        <4>2. ~InV1
          BY DEF InV1
        <4> QED
          BY <2>1, <4>1, <4>2, Zenon
      <3>2. PICK p : IsWirePacket(p) /\ frame.plain = PacketBytes(p)
        BY <3>1, Zenon DEF InV2
      <3>3. PICK b : b = frame.plain
        OBVIOUS
      <3>4. b \in Seq(Wire) /\ PayloadAt(b).rest = <<>>
        BY <3>2, <3>3, RoundTrip, Zenon
      <3>5. n \in 0 .. Len(b) - 1
        BY <3>3
      <3> QED
        BY <3>3, <3>4, <3>5, BeginningsAreRefused, Zenon
    <2> QED
      BY <2>1, <2>2, <2>3, Zenon DEF CodecIsSound
  <1> QED
    BY <1>1, <1>2

\* Packets arrive as they were sent: whatever relays a packet goes over, in
\* either format, and whatever the values of its fields (mesh_protocol.c:409-671).
THEOREM CodecIsFaithful == CodecSpec => []CodecIsSound
  <1>1. CodecInit => CodecInv
    BY DEF CodecInit, CodecInv
  <1>2. CodecInv /\ [CodecNext]_codecVars => CodecInv'
    <2>1. ASSUME CodecInv, UNCHANGED codecVars PROVE CodecInv'
      BY <2>1 DEF codecVars, CodecInv, InV1, InV2, RoomForRelays
    <2> QED
      BY <2>1, CodecInvHolds
  <1>3. CodecInv => CodecIsSound
    BY CodecInvIsSound
  <1> QED
    BY <1>1, <1>2, <1>3, PTL DEF CodecSpec

-----------------------------------------------------------------------------
(* The receive path as a whole                                             *)

\* A behaviour of the receive path is one of each of its parts, so that what is
\* proved of a part holds in it.
THEOREM PartsAreRun ==
    ReceiveSpec => /\ ReplaySpec /\ DedupSpec /\ RouteSpec /\ RosterSpec
                   /\ CodecSpec /\ ForwardInit /\ [][ForwardNext]_forwardVars
  <1>1. ReceiveInit => ReplayInit /\ DedupInit /\ RouteInit /\ RosterInit /\ CodecInit /\ ForwardInit
    BY DEF ReceiveInit
  <1>2. [ReceiveNext]_receiveVars =>
            /\ [ReplayNext]_replayVars /\ [DedupNext]_dedupVars /\ [RouteNext]_routeVars
            /\ [RosterNext]_rosterVars /\ [CodecNext]_codecVars /\ [ForwardNext]_forwardVars
    BY DEF ReceiveNext, receiveVars
  <1> QED
    BY <1>1, <1>2, PTL DEF ReceiveSpec, ReplaySpec, DedupSpec, RouteSpec, RosterSpec, CodecSpec

\* In the receive path, for every size of its tables: the best route that was heard
\* is the one chosen, and the nodes heard last are in the roster.
THEOREM TablesAreLatest == ReceiveSpec => []TablesHaveTheLatest
  BY PartsAreRun, RouteIsBest, RosterIsLatest, PTL DEF TablesHaveTheLatest

\* In the receive path the verdicts of the replay window are ideal, sources are
\* evicted in the order of their silence, no slot of the table of packets seen is
\* lost, a packet is known for a minute, packets arrive as they were sent, and the
\* forward queues are fair.
THEOREM ReceivePathIsFairAndIdeal ==
    ReceiveSpec => /\ [](VerdictIsIdeal /\ EverySlotHasItsLists /\ CodecIsSound /\ ForwardOvertakingBounded)
                   /\ LeastRecentIsEvicted /\ KnownForAMinute
  BY PartsAreRun, WindowIsIdeal, SlotsAreInTheirLists, EvictionIsLeastRecent, MinuteIsExact, CodecIsFaithful,
     ForwardInitially, ForwardInductive, BoundFromInvariant, PTL
=============================================================================
