------------------------------ MODULE MeshNode ------------------------------
(***************************************************************************)
(* The network (MeshNetwork) and what one node passes each packet through  *)
(* (ReceivePath), which the network takes by what it promises: a window    *)
(* that accepts a packet once, routes that are the latest there are,       *)
(* packets that arrive as they were sent, a queue that serves each job.    *)
(*                                                                         *)
(* To a node packets come in any order, those the network delivers among   *)
(* them.  So a behaviour here follows one of the two and leaves the other  *)
(* as it is.                                                               *)
(***************************************************************************)
EXTENDS MeshNetwork, ReceivePath

VARIABLE level      \* the one that is followed

meshNodeVars == <<meshVars, receiveVars, level>>

MeshNodeInit ==
    /\ level \in {"network", "node"}
    /\ MeshInit /\ ReceiveInit
    /\ level = "network" => part = "replay"

MeshNodeNext ==
    /\ UNCHANGED level
    /\ \/ level = "network" /\ MeshNext /\ UNCHANGED receiveVars
       \/ level = "node" /\ ReceiveNext /\ UNCHANGED meshVars

MeshNodeSpec == MeshNodeInit /\ [][MeshNodeNext]_meshNodeVars
=============================================================================
