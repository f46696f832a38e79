--------------------------- MODULE MC_PacketCodec ---------------------------
(* Three nodes, one of them with a longer id and one with another key, and *)
(* packets with and without each optional field.                           *)
EXTENDS PacketCodec

MCNodes == {Text("A1", 2), Text("B1", 2), Text("LONG", 4), Text("X1", 2)}
MCKey == [n \in MCNodes |-> IF n.name = "X1" THEN "other" ELSE "key"]
MCLocations ==
    {NoLocation,
     [sitio |-> Empty, barangay |-> Text("bgy", 2), municipality |-> Empty],
     [sitio |-> Text("sit", 1), barangay |-> Text("bgy", 2), municipality |-> Text("mun", 1)]}
MCPackets(types) ==
    {[valid |-> TRUE, source |-> Text("A1", 2), destination |-> d, id |-> Text("id", 4),
      type |-> t, priority |-> pr, relay |-> Text("A1", 2), hops |-> 2, path_hops |-> 1,
      next_hop |-> nh, location |-> l, location_raw |-> FALSE, payload |-> pl] :
        d \in {ToAll, Text("LONG", 4)}, t \in types, pr \in {"LOW", "HIGH"},
        nh \in {Empty, Text("B1", 2)}, l \in MCLocations,
        pl \in {Text("txt", 3), Text("barred", 4), Text("full", 7)}}
MCPortalTypes == MCPackets({"EMERGENCY", "FLOOD", "MEDICAL"})
=============================================================================
