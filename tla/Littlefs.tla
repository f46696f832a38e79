----------------------------- MODULE Littlefs ------------------------------
(***************************************************************************)
(* littlefs, in the three layers its promise is built of: a commit to one  *)
(* metadata pair is atomic (LfsPair); from such commits, changes of the    *)
(* directory tree are (LfsTree); and from such commits and blocks that are *)
(* never overwritten, so is what a sync makes of a file (LfsFile).  Each   *)
(* layer takes the one below as it is promised (LfsAtomic), so a behaviour *)
(* here follows one layer and leaves the others as they are.               *)
(***************************************************************************)
EXTENDS LfsPair, LfsTree, LfsFile

VARIABLE layer      \* the layer that is followed

LittlefsInit ==
    /\ layer \in {"pair", "tree", "file"}
    /\ PairInit /\ TreeInit /\ FileInit
    /\ layer # "pair" => \A b \in PairBlocks : disk[b].rev = 0 /\ disk[b].units[1] = Junk
    /\ layer # "file" => entry.size = 0

LittlefsNext ==
    /\ UNCHANGED layer
    /\ \/ layer = "pair" /\ PairNext /\ UNCHANGED <<treeVars, fileVars>>
       \/ layer = "tree" /\ TreeNext /\ UNCHANGED <<pairVars, fileVars>>
       \/ layer = "file" /\ FileNext /\ UNCHANGED <<pairVars, treeVars>>

littlefsVars == <<pairVars, treeVars, fileVars, layer>>

LittlefsSpec == LittlefsInit /\ [][LittlefsNext]_littlefsVars
=============================================================================
