---------------------------- MODULE ReceivePath ----------------------------
(***************************************************************************)
(* What the receive handler (lora_handle_rx_packet, app_runtime.c) hands a *)
(* frame through: the packet formats, the replay window, the table of      *)
(* packets seen, the route table, the roster and the forward queues.       *)
(*                                                                         *)
(* Each keeps its own state under its own lock, and none reads another's:  *)
(* a behaviour of the handler is, for each of them, a behaviour of its own *)
(* module, in which packets come in any order.  So a behaviour here        *)
(* follows one of them and leaves the others as they are.                  *)
(***************************************************************************)
EXTENDS ReplayProtection, Dedup, RouteTable, Roster, PacketCodec, ForwardQueues

VARIABLE part       \* the part that is followed

ReceiveInit ==
    /\ part \in {"replay", "dedup", "routes", "roster", "codec", "queues"}
    /\ ReplayInit /\ DedupInit /\ RouteInit /\ RosterInit /\ CodecInit /\ ForwardInit

ReceiveNext ==
    /\ UNCHANGED part
    /\ \/ /\ part = "replay" /\ ReplayNext
          /\ UNCHANGED <<dedupVars, routeVars, rosterVars, codecVars, forwardVars>>
       \/ /\ part = "dedup" /\ DedupNext
          /\ UNCHANGED <<replayVars, routeVars, rosterVars, codecVars, forwardVars>>
       \/ /\ part = "routes" /\ RouteNext
          /\ UNCHANGED <<replayVars, dedupVars, rosterVars, codecVars, forwardVars>>
       \/ /\ part = "roster" /\ RosterNext
          /\ UNCHANGED <<replayVars, dedupVars, routeVars, codecVars, forwardVars>>
       \/ /\ part = "codec" /\ CodecNext
          /\ UNCHANGED <<replayVars, dedupVars, routeVars, rosterVars, forwardVars>>
       \/ /\ part = "queues" /\ ForwardNext
          /\ UNCHANGED <<replayVars, dedupVars, routeVars, rosterVars, codecVars>>

receiveVars ==
    <<replayVars, dedupVars, routeVars, rosterVars, codecVars, forwardVars, part>>

ReceiveSpec == ReceiveInit /\ [][ReceiveNext]_receiveVars

-----------------------------------------------------------------------------
(* Properties                                                              *)

\* What the handler learns from packets is the latest there is to know: the route
\* it chooses is the best that was heard and is not stale, and the nodes its
\* roster has no room for were heard before those it has (route_table.c:88-175,
\* roster.c:87-128).
TablesHaveTheLatest == BestOfWhatWasHeard /\ RosterHasTheLatest
=============================================================================
