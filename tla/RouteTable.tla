----------------------------- MODULE RouteTable -----------------------------
(***************************************************************************)
(* The route table of one node (route_table.c): what is learned from every *)
(* packet heard, how entries age and are replaced, and which route is      *)
(* chosen.                                                                 *)
(***************************************************************************)
EXTENDS Integers, Sequences, FiniteSets, FiniteSetsExt, Functions

CONSTANTS
    Destinations,           \* nodes, as the next hops are
    NextHops,               \* numbers, in the order of strcmp
    HopCounts,              \* what a packet may claim, 0 included
    Rssi,                   \* signal strengths, negative
    MAX_ROUTE_ENTRIES,
    ROUTE_STALE_MS,
    MaxRouteTime            \* bound on time, short of the wrap of the clock

ASSUME RouteAssumption ==
    /\ NextHops \subseteq Nat /\ HopCounts \subseteq Int /\ Rssi \subseteq Int
    /\ MAX_ROUTE_ENTRIES \in Nat \ {0} /\ ROUTE_STALE_MS \in Nat \ {0} /\ MaxRouteTime \in Nat

VARIABLES
    route_table,    \* the entries in use; route_count is its length
    route_now,      \* now_ms
    heard           \* history: per pair, the best (hops, rssi) since it was last
                    \* entered or had gone stale, and when it was heard last; at is
                    \* -1 before that and once the pair was rightly displaced

routeVars == <<route_table, route_now, heard>>

Pairs == Destinations \X NextHops
Entries == 1 .. Len(route_table)
RouteAge(e) == route_now - e.last_seen_tick_ms
route_is_stale(e) == RouteAge(e) >= ROUTE_STALE_MS

-----------------------------------------------------------------------------
route_is_valid(hop_count) == hop_count > 0

find_route_index(d, n) ==
    {i \in Entries : route_table[i].destination = d /\ route_table[i].next_hop = n}

\* A plausible bug: the comparison of the ages is the wrong way round.
YoungestEntry == Min({i \in Entries : \A j \in Entries : RouteAge(route_table[j]) >= RouteAge(route_table[i])})

\* The first of the entries that were not heard for longest.
OldestEntry == Min({i \in Entries : \A j \in Entries : RouteAge(route_table[j]) <= RouteAge(route_table[i])})

\* memset: an entry just made has hop_count 0 and was last seen at 0.
EmptyRoute(d, n) ==
    [destination |-> d, next_hop |-> n, hop_count |-> 0, best_rssi |-> 0, last_seen_tick_ms |-> 0]

IndexFor(d, n) ==
    IF find_route_index(d, n) # {} THEN Min(find_route_index(d, n))
    ELSE IF Len(route_table) < MAX_ROUTE_ENTRIES THEN Len(route_table) + 1 ELSE OldestEntry

Better(e, hops, rssi) ==
    \/ route_is_stale(e)
    \/ hops < e.hop_count \/ (hops = e.hop_count /\ rssi > e.best_rssi)
    \/ e.hop_count = 0

\* History: the pairs a full table may give up, those not heard for longest.
LongestUnheard ==
    {p \in Pairs : heard[p].at >= 0 /\ \A q \in Pairs : heard[q].at >= 0 => heard[p].at <= heard[q].at}

\* The entry is refreshed in any case, its hop count only by a better one.
route_table_learn(d, n, hops, rssi) ==
    /\ route_is_valid(hops)
    /\ LET i == IndexFor(d, n)
           e == IF find_route_index(d, n) # {} THEN route_table[i] ELSE EmptyRoute(d, n)
           learned == [IF Better(e, hops, rssi)
                       THEN [e EXCEPT !.hop_count = hops, !.best_rssi = rssi] ELSE e
                       EXCEPT !.last_seen_tick_ms = route_now]
       IN  route_table' = [k \in Entries \cup {i} |-> IF k = i THEN learned ELSE route_table[k]]
    /\ LET old == heard[<<d, n>>]
           evicted == {<<e.destination, e.next_hop>> : e \in Range(route_table)}
                          \ {<<e.destination, e.next_hop>> : e \in Range(route_table')}
           forgotten == IF Len(route_table) < MAX_ROUTE_ENTRIES THEN {} ELSE evicted \cap LongestUnheard
       IN  heard' = [p \in Pairs |->
               IF p = <<d, n>>
               THEN [best |-> IF old.at < 0 \/ route_now - old.at >= ROUTE_STALE_MS
                              THEN <<hops, rssi>>
                              ELSE IF hops < old.best[1] \/ (hops = old.best[1] /\ rssi > old.best[2])
                              THEN <<hops, rssi>> ELSE old.best,
                     at |-> route_now]
               ELSE IF p \in forgotten THEN [best |-> <<0, 0>>, at |-> -1]
               ELSE heard[p]]
    /\ UNCHANGED route_now

Fresh(d) == {e \in Range(route_table) : e.destination = d /\ ~route_is_stale(e) /\ e.hop_count > 0}

\* Fewest hops, then the strongest signal, then the first next hop.
Preferred(a, b) ==
    \/ a.hop_count < b.hop_count
    \/ a.hop_count = b.hop_count /\ a.best_rssi > b.best_rssi
    \/ a.hop_count = b.hop_count /\ a.best_rssi = b.best_rssi /\ a.next_hop <= b.next_hop

\* The set of the one route that is returned, or {}.
route_table_get_best(d) == {e \in Fresh(d) : \A f \in Fresh(d) : Preferred(e, f)}

RouteTimePasses ==
    /\ route_now < MaxRouteTime /\ route_now' = route_now + 1
    /\ UNCHANGED <<route_table, heard>>

RouteInit ==
    /\ route_table = <<>> /\ route_now = 0
    /\ heard = [p \in Pairs |-> [best |-> <<0, 0>>, at |-> -1]]

RouteNext ==
    \/ \E d \in Destinations, n \in NextHops, h \in HopCounts, r \in Rssi : route_table_learn(d, n, h, r)
    \/ RouteTimePasses

RouteSpec == RouteInit /\ [][RouteNext]_routeVars

-----------------------------------------------------------------------------
(* Properties                                                              *)

\* The route chosen is unique and is the best of what was heard of the
\* destination: of every pair heard within the last ROUTE_STALE_MS, the best
\* value since the pair was entered or had gone stale.  A pair is missing only
\* when it was displaced from a full table as one of those not heard for longest
\* (route_table.c:88-129, 135-175).  Destinations and NextHops have the same
\* nodes, so this includes the route to a neighbour over itself, which
\* route_is_valid (75-80) lets in although test_route_table_rejects_self_route
\* and test_route_table_excludes_previous_hop_self_candidate expect it rejected.
BestOfWhatWasHeard ==
    \A d \in Destinations :
        LET live == {n \in NextHops : heard[<<d, n>>].at >= 0
                                         /\ route_now - heard[<<d, n>>].at < ROUTE_STALE_MS}
            best == route_table_get_best(d)
        IN  /\ (best = {}) <=> (live = {})
            /\ \A e \in best :
                   /\ best = {e} /\ e.next_hop \in live
                   /\ <<e.hop_count, e.best_rssi>> = heard[<<d, e.next_hop>>].best
                   /\ \A n \in live :
                          LET h == heard[<<d, n>>].best
                          IN  \/ e.hop_count < h[1]
                              \/ e.hop_count = h[1] /\ e.best_rssi > h[2]
                              \/ <<e.hop_count, e.best_rssi>> = h /\ e.next_hop <= n
=============================================================================
