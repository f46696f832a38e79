---------------------------- MODULE MC_Littlefs ----------------------------
(***************************************************************************)
(* littlefs, for model checking: three blocks for a pair, ten for a tree   *)
(* of depth two with one entry to a pair, six for a file of ten words.     *)
(***************************************************************************)
EXTENDS Littlefs

=============================================================================
