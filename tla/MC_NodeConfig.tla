--------------------------- MODULE MC_NodeConfig ---------------------------
(* The configuration alone: one form on a fresh or an older node, with       *)
(* nothing going wrong.                                                      *)
EXTENDS NodeConfig

MCEraseCuts == 1 .. Len(SaveOrder)
=============================================================================
