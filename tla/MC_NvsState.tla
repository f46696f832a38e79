---------------------------- MODULE MC_NvsState -----------------------------
(***************************************************************************)
(* NvsSpec implies StoreSpec and NodeSpec (theorem NvsIsBoth).  So each of *)
(* the two is explored by itself, over more than the product would allow,  *)
(* and the two together with fewer steps of each.                          *)
(*                                                                         *)
(* Store: two slots, two tasks, two nodes, every flash outcome, boots as   *)
(* either node, resets; received messages have the middle date, broadcasts *)
(* none, and one slot may be invalid to begin with.  Configuration: two    *)
(* setup forms on a fresh or an older node, one fault.  Shared: one        *)
(* message, one task at a time and one form, which makes the node n1 where *)
(* it was n2; a reset that fails takes any of the blobs and none of the    *)
(* keys.                                                                   *)
(***************************************************************************)
EXTENDS NvsState, TLC

CONSTANTS n1, n2

VARIABLE part       \* what is explored

MCIds == 1 .. MaxId
MCNvsOutcomes == {"ok", "failed", "uncommitted"}
MCIdentity == [v \in Values |-> IF v \in Setups THEN n1 ELSE n2]

\* Sound for `shared` too: there identity is Identity[node_id] in every state, so
\* that no two of them differ by a permutation of the nodes alone.
MCSymmetry == Permutations(Tasks) \cup Permutations(Nodes)

MCInit ==
    /\ part \in {"store", "configuration", "shared"}
    /\ StoreInit /\ NodeInit
    /\ \A s \in Slots \ {0} : nvs[s] = NoMessage
    /\ part # "store" => doubtful = {} /\ identity = Identity[node_id]
    /\ part # "configuration" => flash = FreshFlash /\ refused = {}

MCDated(m) ==
    m \in Message => /\ m.destination = ALL => m.stored_epoch = 0
                     /\ m.direction = "RX" => m.stored_epoch = 1
MCDates == \A s \in Slots : MCDated(ram'[s]) /\ MCDated(nvs'[s])

MCFew ==
    /\ lastId' <= 1 /\ Cardinality({t \in Tasks : holding'[t] # NoSlot}) <= 1
    /\ setups' <= 1 /\ ~torn'

MCNext ==
    /\ UNCHANGED part
    /\ \/ part = "store" /\ StoreNext /\ MCDates /\ UNCHANGED nodeVars
       \/ part = "configuration" /\ NodeNext /\ UNCHANGED apiVars
       \/ part = "shared" /\ NvsNext /\ MCDates /\ MCFew

MCSpec == MCInit /\ [][MCNext]_<<nvsVars, part>>
=============================================================================
