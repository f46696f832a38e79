--------------------------- MODULE MC_MeshNetwork ---------------------------
(* MeshNetwork on three nodes in a line: b relays between a and c. *)
EXTENDS MeshNetwork

CONSTANTS a, b, c

MCLine == {{a, b}, {b, c}}
MCRelayed == {<<a, c>>, <<c, ALL>>}
MCDirect == {<<a, c>>, <<c, b>>}
=============================================================================
