------------------------------- MODULE Roster -------------------------------
(***************************************************************************)
(* The roster of the nodes heard (roster.c), which the portal's status     *)
(* shows.  Here the clock does wrap.                                       *)
(***************************************************************************)
EXTENDS Integers, Sequences, Functions, FiniteSetsExt

CONSTANTS
    RosterNodes,
    MAX_ROSTER_ENTRIES,
    ROSTER_STALE_MS,
    RosterModulus,          \* 2^32: now_ms wraps here
    MaxRosterTime           \* bound on time

ASSUME RosterAssumption ==
    /\ MAX_ROSTER_ENTRIES \in Nat \ {0} /\ ROSTER_STALE_MS \in Nat \ {0}
    /\ RosterModulus \in Nat /\ MaxRosterTime \in Nat /\ MaxRosterTime < RosterModulus

VARIABLES
    roster,         \* the entries in use
    roster_time,    \* time since an arbitrary moment close to the wrap
    touched         \* history: when each node was heard last, or -1

rosterVars == <<roster, roster_time, touched>>

RosterMs(t) == (RosterModulus - 2 + t) % RosterModulus
RosterAge(e) == (RosterMs(roster_time) - e.last_seen_tick_ms) % RosterModulus

-----------------------------------------------------------------------------
find_roster_index(n) == {i \in DOMAIN roster : roster[i].node_id = n}

OldestRosterEntry == Min({i \in DOMAIN roster : \A j \in DOMAIN roster :
                        RosterAge(roster[j]) <= RosterAge(roster[i])})

\* What is shown besides (location, epoch, signal) is replaced as a whole.
roster_touch(n) ==
    LET i == IF find_roster_index(n) # {} THEN Min(find_roster_index(n))
             ELSE IF Len(roster) < MAX_ROSTER_ENTRIES THEN Len(roster) + 1
             ELSE OldestRosterEntry
        entry == [node_id |-> n, last_seen_tick_ms |-> RosterMs(roster_time), online |-> TRUE]
    IN  /\ roster' = [k \in DOMAIN roster \cup {i} |-> IF k = i THEN entry ELSE roster[k]]
        /\ touched' = [touched EXCEPT ![n] = roster_time]
        /\ UNCHANGED roster_time

roster_is_stale_locked(e) == RosterAge(e) >= ROSTER_STALE_MS
ShownOnline(e) == ~roster_is_stale_locked(e)

roster_get_snapshot ==
    /\ roster' = [i \in DOMAIN roster |-> [roster[i] EXCEPT !.online = ShownOnline(roster[i])]]
    /\ UNCHANGED <<roster_time, touched>>

RosterTimePasses ==
    /\ roster_time < MaxRosterTime /\ roster_time' = roster_time + 1
    /\ UNCHANGED <<roster, touched>>

RosterInit == roster = <<>> /\ roster_time = 0 /\ touched = [n \in RosterNodes |-> -1]

RosterNext ==
    \/ \E n \in RosterNodes : roster_touch(n)
    \/ roster_get_snapshot
    \/ RosterTimePasses

RosterSpec == RosterInit /\ [][RosterNext]_rosterVars

-----------------------------------------------------------------------------
(* Properties                                                              *)

\* The roster has the nodes heard last, each once: one that was heard and is
\* missing was not heard after any that is there, also when the clock has wrapped
\* in between (roster.c:99-111).
RosterHasTheLatest ==
    /\ \A n \in RosterNodes : Cardinality(find_roster_index(n)) <= 1
    /\ \A n \in RosterNodes : touched[n] >= 0 /\ find_roster_index(n) = {} =>
           \A e \in Range(roster) : touched[n] <= touched[e.node_id]

=============================================================================
