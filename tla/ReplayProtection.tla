-------------------------- MODULE ReplayProtection --------------------------
(***************************************************************************)
(* The receiver's replay window (src/src/mesh/replay_protection.c): per    *)
(* source the highest sequence number accepted and a bit mask of the       *)
(* WINDOW numbers up to it, in a table that drops the source heard least   *)
(* recently.  Sequence numbers and ticks are unsigned and wrap around.     *)
(*                                                                         *)
(* The environment: every sender numbers its packets 0, 1, 2, ..., of      *)
(* which the air carries the low bits, and the network delivers any packet *)
(* that was sent, in any order and any number of times.                    *)
(***************************************************************************)
EXTENDS Integers, FiniteSetsExt

CONSTANTS
    Sources,
    REPLAY_WINDOW_SIZE,
    REPLAY_SOURCE_TABLE_SIZE,
    HalfSequence,   \* 0x80000000: half of the sequence numbers
    TickModulus,    \* ticks wrap here
    FirstSequence,  \* low bits of every sender's packet 0
    MaxSent,        \* bound: packets per sender
    MaxTicks,       \* bound: ticks
    Free            \* an inactive entry

ASSUME ReplayAssumption ==
    /\ REPLAY_WINDOW_SIZE \in Nat \ {0}
    /\ REPLAY_SOURCE_TABLE_SIZE \in Nat \ {0}
    /\ HalfSequence \in Nat /\ HalfSequence >= REPLAY_WINDOW_SIZE
    /\ FirstSequence \in 0 .. 2 * HalfSequence - 1
    /\ MaxSent \in Nat /\ MaxSent <= HalfSequence
    /\ TickModulus \in Nat \ {0}
    /\ MaxTicks \in Nat /\ MaxTicks < TickModulus

Modulus == 2 * HalfSequence
Indices == 0 .. REPLAY_SOURCE_TABLE_SIZE - 1
Offsets == 0 .. REPLAY_WINDOW_SIZE - 1

\* replay_source_state_t of an active entry; window_bits as the set of the
\* bit positions that are 1.
SourceState == [source : Sources, highest_sequence : 0 .. Modulus - 1,
                window_bits : SUBSET Offsets, last_activity_ticks : 0 .. TickModulus - 1]

ASSUME FreeAssumption == Free \notin SourceState

VARIABLES
    replay_sources,
    elapsed,        \* ticks since an arbitrary moment close to the wrap
    sent,           \* packets each sender has sent
    taken           \* history: packets accepted from each source since it
                    \* was last entered into the table

replayVars == <<replay_sources, elapsed, sent, taken>>

\* The tick counter wraps in the middle of a behaviour.
TickCount(t) == (TickModulus - 2 + t) % TickModulus
now_ticks == TickCount(elapsed)

OnAir(n) == (FirstSequence + n) % Modulus

ReplayTypeOK ==
    /\ replay_sources \in [Indices -> SourceState \cup {Free}]
    /\ elapsed \in 0 .. MaxTicks
    /\ sent \in [Sources -> 0 .. MaxSent]
    /\ taken \in [Sources -> SUBSET (0 .. MaxSent - 1)]

-----------------------------------------------------------------------------
(* The code.                                                               *)

\* A plausible bug: plain comparison, blind to the wrap.
NewerWithoutWrap(a, b) == a > b

sequence_is_newer(a, b) == a # b /\ (a - b) % Modulus < HalfSequence

Used(i) == replay_sources[i] # Free

find_source_index(source) ==
    {i \in Indices : Used(i) /\ replay_sources[i].source = source}

Age(i) == (now_ticks - replay_sources[i].last_activity_ticks) % TickModulus

\* A plausible bug: the smallest tick value is taken for the oldest.
AllocateSmallestTick ==
    IF \E i \in Indices : ~Used(i)
    THEN Min({i \in Indices : ~Used(i)})
    ELSE Min({i \in Indices : \A j \in Indices :
                 replay_sources[i].last_activity_ticks <= replay_sources[j].last_activity_ticks})

\* The first inactive entry, else the first of the entries silent for longest.
allocate_source_index ==
    IF \E i \in Indices : ~Used(i)
    THEN Min({i \in Indices : ~Used(i)})
    ELSE Min({i \in Indices : \A j \in Indices : Age(j) <= Age(i)})

\* window_bits << delta, keeping REPLAY_WINDOW_SIZE bits.
ShiftLeft(bits, delta) == {d + delta : d \in bits} \cap Offsets

accept_new_sequence(state, sequence) ==
    LET delta == (sequence - state.highest_sequence) % Modulus
    IN  [state EXCEPT !.highest_sequence = sequence,
                      !.window_bits = IF delta >= REPLAY_WINDOW_SIZE THEN {0}
                                      ELSE ShiftLeft(@, delta) \cup {0},
                      !.last_activity_ticks = now_ticks]

\* TRUE when the bit of an older number is in the window and still 0.
accept_older_sequence(state, sequence) ==
    LET diff == (state.highest_sequence - sequence) % Modulus
    IN  diff < REPLAY_WINDOW_SIZE /\ diff \notin state.window_bits

\* What replay_protection_accept answers.
Accepts(source, sequence) ==
    \A i \in find_source_index(source) :
        LET state == replay_sources[i]
        IN  \/ sequence_is_newer(sequence, state.highest_sequence)
            \/ /\ sequence_is_newer(state.highest_sequence, sequence)
               /\ accept_older_sequence(state, sequence)

\* The entry of a source that is known, after accepting `sequence`.
Accepted(state, sequence) ==
    IF sequence_is_newer(sequence, state.highest_sequence)
    THEN accept_new_sequence(state, sequence)
    ELSE [state EXCEPT !.window_bits = @ \cup {(state.highest_sequence - sequence) % Modulus},
                       !.last_activity_ticks = now_ticks]

\* replay_protection_accept(source, sequence, now) for packet n of the source.
replay_protection_accept(source, n) ==
    /\ IF ~Accepts(source, OnAir(n)) THEN UNCHANGED <<replay_sources, taken>>
       ELSE IF find_source_index(source) # {}
       THEN LET i == Min(find_source_index(source))
            IN  /\ replay_sources' = [replay_sources EXCEPT ![i] = Accepted(@, OnAir(n))]
                /\ taken' = [taken EXCEPT ![source] = @ \cup {n}]
       ELSE LET i == allocate_source_index
            IN  /\ replay_sources' =
                      [replay_sources EXCEPT ![i] =
                          [source |-> source, highest_sequence |-> OnAir(n),
                           window_bits |-> {0}, last_activity_ticks |-> now_ticks]]
                /\ taken' = [s \in Sources |->
                                IF s = source THEN {n}
                                ELSE IF Used(i) /\ s = replay_sources[i].source THEN {}
                                ELSE taken[s]]
    /\ UNCHANGED <<elapsed, sent>>

replay_protection_reset ==
    /\ replay_sources' = [i \in Indices |-> Free]
    /\ taken' = [s \in Sources |-> {}]
    /\ UNCHANGED <<elapsed, sent>>

-----------------------------------------------------------------------------
(* The environment.                                                        *)

Send(source) ==
    /\ sent[source] < MaxSent
    /\ sent' = [sent EXCEPT ![source] = @ + 1]
    /\ UNCHANGED <<replay_sources, elapsed, taken>>

Tick ==
    /\ elapsed < MaxTicks
    /\ elapsed' = elapsed + 1
    /\ UNCHANGED <<replay_sources, sent, taken>>

ReplayInit ==
    /\ replay_sources = [i \in Indices |-> Free]
    /\ elapsed = 0
    /\ sent = [s \in Sources |-> 0]
    /\ taken = [s \in Sources |-> {}]

ReplayNext ==
    \/ \E s \in Sources : Send(s)
    \/ \E s \in Sources : \E n \in 0 .. sent[s] - 1 : replay_protection_accept(s, n)
    \/ Tick
    \/ replay_protection_reset

ReplaySpec == ReplayInit /\ [][ReplayNext]_replayVars

-----------------------------------------------------------------------------
(* Properties                                                              *)

\* The answer is that of an ideal window over unbounded numbers, for every
\* packet that may arrive next: a packet of a known source is accepted exactly
\* when it was not accepted before and is not WINDOW or more behind the newest
\* one, across reordering, gaps and the wrap (replay_protection.c:102-188).
VerdictIsIdeal ==
    \A s \in Sources : \A n \in 0 .. sent[s] - 1 :
        Accepts(s, OnAir(n)) <=>
            \/ find_source_index(s) = {}
            \/ n \notin taken[s] /\ n > Max(taken[s]) - REPLAY_WINDOW_SIZE

\* The tick an entry was last active at, undoing the wrap.
LastHeard(i) ==
    CHOOSE t \in 0 .. MaxTicks : TickCount(t) = replay_sources[i].last_activity_ticks

\* A source loses its entry to another only when the table is full, and never
\* while a source silent for longer keeps its own, also when the tick counter
\* has wrapped in between (replay_protection.c:86-100).
LeastRecentIsEvicted ==
    [][\A i \in Indices :
          /\ Used(i) /\ replay_sources'[i] # Free
          /\ replay_sources'[i].source # replay_sources[i].source
          => \A j \in Indices : Used(j) /\ LastHeard(i) <= LastHeard(j)]_replayVars
=============================================================================
