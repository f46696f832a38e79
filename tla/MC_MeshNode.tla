---------------------------- MODULE MC_MeshNode -----------------------------
(***************************************************************************)
(* The network of MC_MeshNetwork.  For a node: a replay window of 3 over   *)
(* 10 sequence numbers; three packets for two slots; two routes for the    *)
(* four pairs of two nodes, which are next hops as well as destinations;   *)
(* two roster entries for three nodes.                                     *)
(***************************************************************************)
EXTENDS MeshNode, MC_PacketCodec, MC_MeshNetwork

MCHash == <<1, 1, 2>>
MCRssi == {-90, -60}
MCSymmetry == Permutations(Sources)
=============================================================================
