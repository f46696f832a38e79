----------------------------- MODULE MeshNetwork -----------------------------
(***************************************************************************)
(* Nodes that flood messages and acknowledgements over a lossy radio: the  *)
(* receive handler (lora_handle_rx_packet, app_runtime.c), the forwarding  *)
(* worker (forward_worker.c), acknowledgements (mesh_control.c), and the   *)
(* routes a node learns from what it hears (route_table.c).                *)
(*                                                                         *)
(* The parts that have a module of their own appear here by what they      *)
(* promise.  The sender's scheduler (TxScheduler) is a set of messages     *)
(* waiting for their ACK, each transmitted a bounded number of times.  The *)
(* replay window (ReplayProtection) is the set of packets it accepted: a   *)
(* handful of ids per node never leaves the window.  The message store is  *)
(* left out: the handler's later steps do not depend on it.  Time and sync *)
(* packets, which the handler consumes without forwarding or acknowledging *)
(* them, are left out too.                                                 *)
(***************************************************************************)
EXTENDS Integers, FiniteSetsExt

CONSTANTS
    Nodes,
    Links,              \* the pairs of nodes in radio range of each other
    ALL,                \* the broadcast destination
    Traffic,            \* bound: <<sender, destination>> of the messages users send,
                        \* one of each
    DEFAULT_HOPS,       \* hop budget of a message, and of an ACK for want of one
    MaxAttempts,        \* transmissions of one message by its scheduler
    MaxId,              \* bound: packet ids per node
    MaxReboots,         \* bound: reboots
    Nobody              \* an empty next_hop or acknowledged_source

Ids == 1 .. MaxId

ASSUME MeshAssumption ==
    /\ Links \subseteq SUBSET Nodes
    /\ Traffic \subseteq Nodes \X (Nodes \cup {ALL})
    /\ DEFAULT_HOPS \in Nat \ {0}
    /\ MaxAttempts \in Nat \ {0}
    /\ MaxId \in Nat /\ MaxReboots \in Nat
    /\ ALL \notin Nodes /\ Nobody \notin Nodes \cup {ALL}

\* mesh_packet_t: the fields the handlers look at.  An ACK's payload is the
\* id and the source of the packet it acknowledges.
Packet == [type : {"MSG", "ACK"}, source : Nodes, id : Ids, destination : Nodes \cup {ALL},
           relay : Nodes, next_hop : Nodes \cup {Nobody},
           hops : 0 .. DEFAULT_HOPS, path_hops : 1 .. DEFAULT_HOPS + 1,
           acknowledged_id : Ids \cup {0}, acknowledged_source : Nodes \cup {Nobody}]

\* forward_job_t: `route` is the next hop of the route found when the job was
\* made, Nobody if there was none (route_known).  `asked` is history: the
\* next_hop the packet carried when it arrived.
Job == [packet : Packet, route : Nodes \cup {Nobody}, asked : Nodes \cup {Nobody}]

\* A message of the scheduler.
Entry == [id : Ids, destination : Nodes \cup {ALL}, attempts : 0 .. MaxAttempts,
          status : {"SENT", "ACKED", "FAILED"}]

Route == [destination : Nodes, next_hop : Nodes, hop_count : 1 .. DEFAULT_HOPS + 1]

VARIABLES
    seq,            \* per node: mesh_sequence's counter
    outbox,         \* per node: its messages as the scheduler knows them
    accepted,           \* per node: <<source, id>> accepted by replay protection
    routes,         \* per node: the routes that are not stale
    jobs,           \* per node: the forward queue
    air,            \* <<packet, node>>: the packet is about to reach the node
    reboots,
    received,       \* history, per node: <<type, source, id>> of what reached it; for
                    \* an ACK, the acknowledged id
    relayed,        \* history, per node: how often it relayed <<source, id>> since boot
    suppressed      \* history: `asked` of the jobs the worker did not forward

meshVars == <<seq, outbox, accepted, routes, jobs, air, reboots, received, relayed, suppressed>>
history == <<received, relayed, suppressed>>

Key(p) == <<p.source, p.id>>

MeshTypeOK ==
    /\ seq \in [Nodes -> 0 .. MaxId]
    /\ outbox \in [Nodes -> SUBSET Entry]
    /\ accepted \in [Nodes -> SUBSET (Nodes \X Ids)]
    /\ routes \in [Nodes -> SUBSET Route]
    /\ jobs \in [Nodes -> SUBSET Job]
    /\ air \in SUBSET (Packet \X Nodes)
    /\ reboots \in 0 .. MaxReboots
    /\ received \in [Nodes -> SUBSET ({"MSG", "ACK"} \X Nodes \X Ids)]
    /\ relayed \in [Nodes -> [Nodes \X Ids -> Nat]]
    /\ suppressed \in SUBSET (Nodes \cup {Nobody})

-----------------------------------------------------------------------------
(* Radio and routes                                                        *)

Neighbours(n) == {m \in Nodes \ {n} : {n, m} \in Links}

\* A transmission reaches some of the neighbours; collisions, a busy channel
\* and a failing radio lose it for the others.
Transmit(n, p, pending) ==
    \E receivers \in SUBSET Neighbours(n) : air' = pending \cup {<<p, m>> : m \in receivers}

\* route_table_learn: per destination and next hop the smallest hop count is
\* kept.  The signal strength, which decides between equal ones, is left out:
\* which of them route_table_get_best returns is open.
LearnRoute(n, p) ==
    LET old == {r \in routes[n] : r.destination = p.source /\ r.next_hop = p.relay}
    IN  routes' = [routes EXCEPT ![n] =
            (@ \ old) \cup {[destination |-> p.source, next_hop |-> p.relay,
                             hop_count |-> Min({p.path_hops} \cup {r.hop_count : r \in old})]}]

\* The next hops route_table_get_best may return for the routes in `table`.
BestNextHops(table, destination) ==
    LET known == {r \in table : r.destination = destination}
    IN  IF known = {} THEN {Nobody}
        ELSE {r.next_hop : r \in {k \in known : \A j \in known : k.hop_count <= j.hop_count}}

\* Nothing was heard over a route for ROUTE_STALE_MS.
RouteExpires(n, r) ==
    /\ r \in routes[n]
    /\ routes' = [routes EXCEPT ![n] = @ \ {r}]
    /\ UNCHANGED <<seq, outbox, accepted, jobs, air, reboots, history>>

-----------------------------------------------------------------------------
(* The sender                                                              *)

\* prepare_current_packet: the origin is the packet's first hop.
MessagePacket(n, id, destination, via) ==
    [type |-> "MSG", source |-> n, id |-> id, destination |-> destination, relay |-> n,
     next_hop |-> via, hops |-> DEFAULT_HOPS - 1, path_hops |-> 1,
     acknowledged_id |-> 0, acknowledged_source |-> Nobody]

\* queue_message, and the scheduler's first attempt.
SendMessage(n, destination) ==
    /\ seq[n] < MaxId
    /\ <<n, destination>> \in Traffic /\ \A m \in outbox[n] : m.destination # destination
    /\ seq' = [seq EXCEPT ![n] = @ + 1]
    /\ outbox' = [outbox EXCEPT ![n] =
          @ \cup {[id |-> seq[n] + 1, destination |-> destination, attempts |-> 1,
                   status |-> "SENT"]}]
    /\ \E via \in BestNextHops(routes[n], destination) :
          Transmit(n, MessagePacket(n, seq[n] + 1, destination, via), air)
    /\ UNCHANGED <<accepted, routes, jobs, reboots, history>>

\* The ACK did not come in time, or the node rebooted: the same packet again,
\* by the best route now.
Retransmit(n, m) ==
    /\ m.status = "SENT"
    /\ m.attempts < MaxAttempts
    /\ outbox' = [outbox EXCEPT ![n] = (@ \ {m}) \cup {[m EXCEPT !.attempts = @ + 1]}]
    /\ \E via \in BestNextHops(routes[n], m.destination) :
          Transmit(n, MessagePacket(n, m.id, m.destination, via), air)
    /\ UNCHANGED <<seq, accepted, routes, jobs, reboots, history>>

GiveUp(n, m) ==
    /\ m.status = "SENT"
    /\ m.attempts = MaxAttempts
    /\ outbox' = [outbox EXCEPT ![n] = (@ \ {m}) \cup {[m EXCEPT !.status = "FAILED"]}]
    /\ UNCHANGED <<seq, accepted, routes, jobs, air, reboots, history>>

-----------------------------------------------------------------------------
(* The receive handler, lora_handle_rx_packet.                             *)

\* A plausible bug: a packet is accepted however often it comes.
AcceptAnything(n, p) == TRUE

\* replay_protection_accept: true for a packet not accepted before.
IsNew(n, p) == Key(p) \notin accepted[n]

\* What every branch does first: take the packet and note it as seen.
TakePacket(n, p) ==
    /\ <<p, n>> \in air
    /\ air' = air \ {<<p, n>>}
    /\ accepted' = [accepted EXCEPT ![n] = @ \cup {Key(p)}]

\* A relay's copy of an own packet costs a sequence number, and nothing else:
\* store_received_packet draws an id for a record it then does not store.
HearOwnPacket(n, p) ==
    /\ p.source = n
    /\ seq[n] < MaxId
    /\ TakePacket(n, p)
    /\ seq' = [seq EXCEPT ![n] = @ + 1]
    /\ UNCHANGED <<outbox, routes, jobs, reboots, history>>

RejectReplay(n, p) ==
    /\ p.source # n
    /\ ~IsNew(n, p)
    /\ TakePacket(n, p)
    /\ UNCHANGED <<seq, outbox, routes, jobs, reboots, history>>

\* The ACK gets the hops the message has left, or a full budget.
AckHops(p) == IF p.hops > 0 THEN p.hops ELSE DEFAULT_HOPS

\* A plausible bug: the ACK goes to the node the message was heard from.
AckToRelay(n, p) ==
    [type |-> "ACK", source |-> n, id |-> seq[n] + 1, destination |-> p.relay, relay |-> n,
     next_hop |-> Nobody, hops |-> AckHops(p), path_hops |-> 1,
     acknowledged_id |-> p.id, acknowledged_source |-> p.source]

\* mesh_control_build_ack and mesh_control_send_ack_packet.
AckPacket(n, p) ==
    [type |-> "ACK", source |-> n, id |-> seq[n] + 1, destination |-> p.source, relay |-> n,
     next_hop |-> Nobody, hops |-> AckHops(p), path_hops |-> 1,
     acknowledged_id |-> p.id, acknowledged_source |-> p.source]

\* forward_queue_enqueue.  A job lost because the queue is full is a job whose
\* transmission nobody receives.
Enqueue(n, job) == jobs' = [jobs EXCEPT ![n] = @ \cup {job}]

\* A message for this node: it is stored if the store has room (RxAllocate and
\* RxWrite in TxScheduler), and acknowledged in any case.
ReceiveMessage(n, p) ==
    /\ p.type = "MSG" /\ p.destination = n /\ p.source # n
    /\ IsNew(n, p)
    /\ seq[n] < MaxId
    /\ TakePacket(n, p)
    /\ LearnRoute(n, p)
    /\ received' = [received EXCEPT ![n] = @ \cup {<<"MSG", p.source, p.id>>}]
    /\ seq' = [seq EXCEPT ![n] = @ + 1]
    /\ \E via \in BestNextHops(routes'[n], p.source) :
          Enqueue(n, [packet |-> AckPacket(n, p), route |-> via, asked |-> Nobody])
    /\ UNCHANGED <<outbox, reboots, relayed, suppressed>>

\* The handler's test of an ACK before it calls tx_scheduler_acknowledge.
AckMatches(n, p) ==
    /\ p.acknowledged_id # 0
    /\ p.acknowledged_source = p.source
    /\ p.destination = n

tx_scheduler_acknowledge(n, id, ack_source) ==
    LET found == {m \in outbox[n] : m.id = id /\ m.destination = ack_source /\ m.status = "SENT"}
    IN  outbox' = [outbox EXCEPT ![n] =
            (@ \ found) \cup {[m EXCEPT !.status = "ACKED"] : m \in found}]

\* An ACK for this node: it is stored like a message, and then looked at.
ReceiveAck(n, p) ==
    /\ p.type = "ACK" /\ p.destination = n /\ p.source # n
    /\ IsNew(n, p)
    /\ TakePacket(n, p)
    /\ LearnRoute(n, p)
    /\ received' = [received EXCEPT ![n] = @ \cup {<<"ACK", p.source, p.acknowledged_id>>}]
    /\ IF AckMatches(n, p) THEN tx_scheduler_acknowledge(n, p.acknowledged_id, p.source)
       ELSE UNCHANGED outbox
    /\ UNCHANGED <<seq, jobs, reboots, relayed, suppressed>>

\* A packet for others: queue it for forwarding while it has hops left.  A
\* route is looked up for messages to a single node, and fills in an empty
\* next_hop.
ReceiveForOthers(n, p) ==
    /\ p.destination # n /\ p.source # n
    /\ IsNew(n, p)
    /\ TakePacket(n, p)
    /\ LearnRoute(n, p)
    /\ IF p.hops > 0
       THEN \E via \in IF p.type = "MSG" /\ p.destination # ALL
                       THEN BestNextHops(routes'[n], p.destination) ELSE {Nobody} :
               Enqueue(n, [packet |-> IF p.next_hop = Nobody THEN [p EXCEPT !.next_hop = via]
                                      ELSE p,
                           route |-> via, asked |-> p.next_hop])
       ELSE UNCHANGED jobs
    /\ UNCHANGED <<seq, outbox, reboots, history>>

-----------------------------------------------------------------------------
(* The forwarding worker.                                                  *)

app_runtime_should_forward_packet(n, job) ==
    /\ job.packet.hops > 0
    /\ job.packet.destination # n
    /\ \/ job.route = Nobody
       \/ job.packet.next_hop = Nobody
       \/ job.packet.next_hop = n

\* A plausible bug: the previous relay's name stays in the packet.
KeepRelay(n, job) ==
    [job.packet EXCEPT !.hops = @ - 1, !.path_hops = @ + 1, !.next_hop = job.route]

\* mesh_packet_consume_hop, and the fields the worker rewrites.
ForwardedPacket(n, job) ==
    [job.packet EXCEPT !.hops = @ - 1, !.path_hops = @ + 1, !.relay = n,
                       !.next_hop = job.route]

\* 100 to 600 ms after the job was queued.
ForwardJob(n, job) ==
    /\ job \in jobs[n]
    /\ app_runtime_should_forward_packet(n, job)
    /\ jobs' = [jobs EXCEPT ![n] = @ \ {job}]
    /\ Transmit(n, ForwardedPacket(n, job), air)
    /\ relayed' = IF job.packet.source = n THEN relayed
                  ELSE [relayed EXCEPT ![n][Key(job.packet)] = @ + 1]
    /\ UNCHANGED <<seq, outbox, accepted, routes, reboots, received, suppressed>>

SuppressJob(n, job) ==
    /\ job \in jobs[n]
    /\ ~app_runtime_should_forward_packet(n, job)
    /\ jobs' = [jobs EXCEPT ![n] = @ \ {job}]
    /\ suppressed' = suppressed \cup {job.asked}
    /\ UNCHANGED <<seq, outbox, accepted, routes, air, reboots, received, relayed>>

\* Replay window, routes and forward queue are in RAM only; the counter and
\* the unsettled messages are read back from flash.
Reboot(n) ==
    /\ reboots < MaxReboots
    /\ reboots' = reboots + 1
    /\ accepted' = [accepted EXCEPT ![n] = {}]
    /\ routes' = [routes EXCEPT ![n] = {}]
    /\ jobs' = [jobs EXCEPT ![n] = {}]
    /\ outbox' = [outbox EXCEPT ![n] =
          {IF m.status = "SENT" THEN [m EXCEPT !.attempts = 0] ELSE m : m \in @}]
    /\ relayed' = [relayed EXCEPT ![n] = [k \in Nodes \X Ids |-> 0]]
    /\ UNCHANGED <<seq, air, received, suppressed>>

-----------------------------------------------------------------------------
MeshInit ==
    /\ seq = [n \in Nodes |-> 0]
    /\ outbox = [n \in Nodes |-> {}]
    /\ accepted = [n \in Nodes |-> {}]
    /\ routes = [n \in Nodes |-> {}]
    /\ jobs = [n \in Nodes |-> {}]
    /\ air = {}
    /\ reboots = 0
    /\ received = [n \in Nodes |-> {}]
    /\ relayed = [n \in Nodes |-> [k \in Nodes \X Ids |-> 0]]
    /\ suppressed = {}

Sender(n) ==
    \/ \E d \in Nodes \cup {ALL} : SendMessage(n, d)
    \/ \E m \in outbox[n] : Retransmit(n, m) \/ GiveUp(n, m)

Receiver(n) ==
    \E p \in {x[1] : x \in air} :
        \/ HearOwnPacket(n, p) \/ RejectReplay(n, p)
        \/ ReceiveMessage(n, p) \/ ReceiveAck(n, p) \/ ReceiveForOthers(n, p)

Worker(n) == \E job \in jobs[n] : ForwardJob(n, job) \/ SuppressJob(n, job)

MeshNext ==
    \E n \in Nodes :
        \/ Sender(n) \/ Receiver(n) \/ Worker(n)
        \/ \E r \in routes[n] : RouteExpires(n, r)
        \/ Reboot(n)

MeshSpec == MeshInit /\ [][MeshNext]_meshVars

-----------------------------------------------------------------------------
(* Safety                                                                  *)

PacketsAround == {x[1] : x \in air} \cup {job.packet : job \in UNION {jobs[n] : n \in Nodes}}

\* However many copies of a packet reach a node, over however many paths and
\* retransmissions, it relays the packet at most once between two boots: a
\* flood does not become a storm (app_runtime.c:179-188, forward_worker.c:33).
RelayedOnce == \A n \in Nodes, k \in Nodes \X Ids : relayed[n][k] <= 1

\* The nodes that at most k transmissions reach from n.
Within(k, n) ==
    {m \in Nodes : \E way \in [0 .. k -> Nodes] :
        /\ way[0] = n /\ way[k] = m
        /\ \A i \in 1 .. k : way[i] \in Neighbours(way[i - 1]) \cup {way[i - 1]}}

\* A route leads somewhere: its next hop is in radio range, and from there the
\* destination is as near as the hop count says, whatever packets, ACKs and
\* relays the route was learnt from (route_table.c:89, forward_worker.c:56).
RouteIsReal ==
    \A n \in Nodes : \A r \in routes[n] :
        /\ r.next_hop \in Neighbours(n)
        /\ r.destination \in Within(r.hop_count - 1, r.next_hop)

\* A packet tells the truth about what happened before, over any relays and
\* after a reboot.  Along the way of a message every hop is charged exactly once:
\* what it has left and what it used up make DEFAULT_HOPS, so that at most that
\* many nodes in a row transmit it (tx_scheduler.c:245, forward_worker.c:37-59).
\* An ACK is only ever produced by the node the message was sent to, after it
\* accepted the message, and for a message its sender really sent: no relay and
\* no replay acknowledges in its place (app_runtime.c:218, mesh_control.c:394).
PacketsAreTrue ==
    \A p \in PacketsAround :
        /\ p.type = "MSG" => p.hops + p.path_hops = DEFAULT_HOPS
        /\ p.type = "ACK" =>
               /\ p.acknowledged_source = p.destination
               /\ <<"MSG", p.destination, p.acknowledged_id>> \in received[p.source]
               /\ \E m \in outbox[p.destination] : /\ m.id = p.acknowledged_id
                                                   /\ m.destination = p.source

\* An ACK from the destination of a message settles the message: its sender
\* no longer waits for one.
AckSettlesMessage ==
    \A n \in Nodes : \A m \in outbox[n] :
        m.status = "SENT" => <<"ACK", m.destination, m.id>> \notin received[n]

\* A relay leaves a packet to others only when the packet named another node
\* as its next hop; knowing a route is no reason to drop it.
RelayWithRouteForwards == Nobody \notin suppressed
=============================================================================
