------------------------------ MODULE MC_Sync ------------------------------
(***************************************************************************)
(* Sync on two nodes that hear each other: b sends letters of different    *)
(* sizes, a asks for what it missed; or clocks are set and go round.       *)
(***************************************************************************)
EXTENDS Sync

CONSTANTS a, b

\* A payload of 8 has room for three records of 2, one more than a receiver
\* takes, for one of 5 alone, which with one of 2 fills it to the last byte, and
\* for none of 8.
MCMail == {<<b, a, 2>>, <<b, a, 5>>, <<b, a, 8>>, <<b, ALL, 4>>}
MCMaxId == [n \in Nodes |-> IF n = b THEN 3 ELSE 2]

\* Letters with an answer to one request, or clocks and broadcasts: what a user
\* does when a clock has been set, and when none has.
MCUse ==
    IF \E n \in Nodes : node'[n].clock.synced \/ node[n].clock.synced
    THEN sequence_counter'[b] <= 2
    ELSE /\ sequence_counter'[a] <= 1
         /\ \A m \in ToSet(node'[b].messages) : m.destination # ALL

MCNext == Work \/ (SyncNext /\ MCUse)
MCSpec == SyncInit /\ [][MCNext]_syncVars /\ WF_syncVars(Work)
=============================================================================
