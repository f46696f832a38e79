-------------------------------- MODULE Sync --------------------------------
(***************************************************************************)
(* Message and time synchronisation (mesh_control.c): a node asks its      *)
(* neighbours for messages it has missed, naming the newest id it has from *)
(* each source; the neighbours answer in batches, from a task of their     *)
(* own; and clocks set at one portal spread over the radio.                *)
(*                                                                         *)
(* Nodes hear each other directly: none of these packets is relayed.       *)
(* The message store never fills up here (MessageStore is about that) and  *)
(* the replay window is the ideal one ReplayProtection is checked against. *)
(***************************************************************************)
EXTENDS Integers, Sequences, FiniteSets, SequencesExt

CONSTANTS
    Nodes,
    ALL,                    \* the broadcast destination
    Mail,                   \* <<source, destination, size>>: what users send
    Requesters,             \* nodes that ask, at boot or from the portal
    Portals,                \* nodes whose portal sets the clock
    Clocks,                 \* the times it is set to, in days off the true one
    PAYLOAD_LEN,            \* room for a payload, in units of record size
    MaxRecords,             \* 8: records lora_handle_rx_packet has room for
    MaxCursors,             \* 8
    SyncQueueDepth,         \* 4
    REPLAY_WINDOW_SIZE,
    MaxId,                  \* bound on the ids each node draws, but for answers
    MaxFaults               \* bound on absences and reboots

ASSUME SyncAssumption ==
    /\ ALL \notin Nodes
    /\ Requesters \cup Portals \subseteq Nodes
    /\ Mail \subseteq Nodes \X (Nodes \cup {ALL}) \X Nat
    /\ Clocks \subseteq Nat
    /\ MaxId \in [Nodes -> Nat] /\ MaxFaults \in Nat
    /\ {PAYLOAD_LEN, MaxRecords, MaxCursors, SyncQueueDepth, REPLAY_WINDOW_SIZE} \subseteq Nat \ {0}

VARIABLES
    sequence_counter, packet_ctr,   \* the id counter, and its copy in flash
    node,                   \* what the receive handler of each node works on, and, as
                            \* history, how often it stored each message, this boot
    responding,             \* what sync_response_task has left to answer
    outgoing,               \* per node and lane: packets waiting for the radio
    sending,                \* <<node, lane>> whose oldest packet is on the air
    away,                   \* nodes that neither hear nor are heard
    faults,
    owed,                   \* history: <<node, message>>: asked for since the last fault
    answered                \* history: <<source, id>> of the answers sent

history == <<faults, owed, answered>>
radio == <<sending, away>>
syncVars == <<sequence_counter, packet_ctr, node, responding, outgoing, radio, history>>

Ids == UNION {1 .. MaxId[n] : n \in Nodes}
Sizes == {letter[3] : letter \in Mail}
Message == [source : Nodes, id : Ids, destination : Nodes \cup {ALL}, size : Sizes]
Idle == [to |-> ALL, left |-> << >>]

\* Messages go through the scheduler, the others straight to the radio: between
\* the two the order is open.
Lanes == {"scheduled", "direct"}
Lane(p) == IF p.type = "MSG" THEN "scheduled" ELSE "direct"

Packet(type, n, id, destination) ==
    [type |-> type, source |-> n, id |-> id, destination |-> destination, size |-> 0,
     cursors |-> [s \in Nodes |-> 0], records |-> << >>, epoch |-> 0, dist |-> 0]

Silence == <<ALL, "direct">>
Transmitting(n) == sending[1] = n

\* lora_transmit_bytes, or tx_scheduler_submit.  A packet that goes straight to
\* the radio is refused, and gone, while the radio is in CAD or TX
\* (lora_radio_submit); the scheduler keeps its packets and tries again.
Refused(n, p) == Transmitting(n) /\ Lane(p) = "direct"
Transmit(n, p) ==
    outgoing' = IF Refused(n, p) THEN outgoing ELSE [outgoing EXCEPT ![n][Lane(p)] = Append(@, p)]

mesh_sequence_next(n) == sequence_counter' = [sequence_counter EXCEPT ![n] = @ + 1]

mesh_sequence_save(n) == packet_ctr' = [packet_ctr EXCEPT ![n] = sequence_counter'[n]]

NextId(n) == sequence_counter[n] + 1

-----------------------------------------------------------------------------
(* Sending                                                                 *)

\* queue_message; retries are in TxScheduler.
queue_message(n, destination, size) ==
    /\ mesh_sequence_next(n) /\ mesh_sequence_save(n)
    /\ node' = [node EXCEPT ![n].messages = Append(@,
           [source |-> n, id |-> NextId(n), destination |-> destination, size |-> size])]
    /\ Transmit(n, [Packet("MSG", n, NextId(n), destination) EXCEPT !.size = size])
    /\ UNCHANGED <<responding, radio, history>>

\* The newest id of a source among the stored messages.
Newest(kept, s) == Max({0} \cup {m.id : m \in {k \in ToSet(kept) : k.source = s}})

\* A request holds cursors for the first MaxCursors sources of the table.
FirstSources(kept) ==
    {kept[i].source : i \in {j \in DOMAIN kept :
        Cardinality({kept[k].source : k \in 1 .. j}) <= MaxCursors}}

mesh_control_send_sync_request(n) ==
    LET kept == node[n].messages
    IN  /\ mesh_sequence_next(n) /\ mesh_sequence_save(n)
        /\ Transmit(n, [Packet("SYNC_REQ", n, NextId(n), ALL) EXCEPT
               !.cursors = [s \in Nodes |-> IF s \in FirstSources(kept) THEN Newest(kept, s) ELSE 0]])
        /\ UNCHANGED <<node, responding, radio, history>>

mesh_control_send_time_sync_packet(n, epoch, dist) ==
    /\ mesh_sequence_next(n) /\ mesh_sequence_save(n)
    /\ Transmit(n, [Packet("TIME_SYNC", n, NextId(n), ALL) EXCEPT !.epoch = epoch, !.dist = dist])
    /\ UNCHANGED <<responding, radio, history>>

-----------------------------------------------------------------------------
(* Answering                                                               *)

IsMissing(request, m) ==
    m.id > request.cursors[m.source] /\ m.destination \in {ALL, request.source}

\* The first loop of mesh_control_send_sync_responses.
SelectedFor(request, kept) ==
    LET chosen[i \in 0 .. Len(kept)] ==
            IF i = 0 THEN << >>
            ELSE IF IsMissing(request, kept[i]) THEN Append(chosen[i - 1], kept[i])
            ELSE chosen[i - 1]
    IN  chosen[Len(kept)]

\* sync_response_task receives a request and copies the store, in the order of
\* its slots, which is that of writing.
sync_response_task(n) ==
    /\ responding[n] = Idle
    /\ node[n].queue # << >>
    /\ LET request == Head(node[n].queue)
           chosen == SelectedFor(request, node[n].messages)
       IN  responding' = [responding EXCEPT ![n] =
               IF chosen = << >> THEN Idle ELSE [to |-> request.source, left |-> chosen]]
    /\ node' = [node EXCEPT ![n].queue = Tail(@)]
    /\ UNCHANGED <<sequence_counter, packet_ctr, outgoing, radio, history>>

\* sync_response_record_encoded_size of all, plus the count in front.
BodyLen(records) == 1 + FoldLeft(LAMBDA total, m : total + m.size, 0, records)

\* How many records go into the body; none if the first is too long.
BatchCount(records) ==
    Max({0} \cup {k \in 1 .. Len(records) : BodyLen(SubSeq(records, 1, k)) <= PAYLOAD_LEN})

\* build_forward_packet_v2 wants the payload shorter than its buffer.
Builds(records) == records # << >> /\ BodyLen(records) < PAYLOAD_LEN

\* Plausible bug: the record that did not fit is counted as done.
DoneWithNext(left) == IF BatchCount(left) = Len(left) THEN Len(left) ELSE BatchCount(left) + 1

\* How many records a round is done with: those of its batch, or the first one
\* alone if that is too long for any batch.
Done(left) == Max({1, BatchCount(left)})

\* One round of the loop in mesh_control_send_sync_responses.  The id is drawn
\* first, and the counter is not saved.  A batch that cannot be built, or that
\* the radio refuses because an earlier one is on the air, is passed over.
SendBatch(n) ==
    /\ responding[n] # Idle
    /\ mesh_sequence_next(n)
    /\ LET left == responding[n].left
           batch == SubSeq(left, 1, BatchCount(left))
           rest == SubSeq(left, Done(left) + 1, Len(left))
           response == [Packet("SYNC_RESP", n, NextId(n), responding[n].to) EXCEPT
                            !.records = batch]
           passed == ToSet(SubSeq(left, 1, Done(left)))
       IN  /\ responding' = [responding EXCEPT ![n] =
                   IF rest = << >> THEN Idle ELSE [@ EXCEPT !.left = rest]]
           /\ \/ /\ Builds(batch) /\ ~Transmitting(n)
                 /\ Transmit(n, response)
                 /\ answered' = answered \cup {<<n, NextId(n)>>}
                 /\ owed' = IF Len(batch) <= MaxRecords THEN owed
                            ELSE owed \ ({responding[n].to} \X passed)
              \/ /\ Builds(batch) => Transmitting(n)
                 /\ owed' = owed \ ({responding[n].to} \X passed)
                 /\ UNCHANGED <<outgoing, answered>>
    /\ UNCHANGED <<packet_ctr, node, radio, faults>>

-----------------------------------------------------------------------------
(* Receiving.  A handler takes the state of node n to its next state.      *)

\* replay_protection_accept: the verdict, and the window after an acceptance.
Accepts(window, id) ==
    \/ id > window.top
    \/ window.top - id < REPLAY_WINDOW_SIZE /\ id \notin window.ids

Accepted(window, id) ==
    LET top == Max({id, window.top})
    IN  [top |-> top, ids |-> {i \in window.ids \cup {id} : top - i < REPLAY_WINDOW_SIZE}]

Accept(state, source, id) == [state EXCEPT !.windows[source] = Accepted(@, id)]

Stored(state, m) ==
    [state EXCEPT !.messages = Append(@, m), !.imports[m.source][m.id] = @ + 1]

\* Plausible bugs: a record is stored whatever the window says, or whoever it
\* is for.
ImportUnchecked(n, state, m) ==
    IF n \notin {m.source, m.destination} THEN Accept(state, m.source, m.id)
    ELSE Stored(Accept(state, m.source, m.id), m)

ImportAnything(n, state, m) ==
    IF ~Accepts(state.windows[m.source], m.id) THEN state
    ELSE Stored(Accept(state, m.source, m.id), m)

\* replay_protection_accept and store_received_packet for one message.  It is
\* stored only if it is from or for this node: not a broadcast.
Import(n, state, m) ==
    IF ~Accepts(state.windows[m.source], m.id) THEN state
    ELSE IF n \notin {m.source, m.destination} THEN Accept(state, m.source, m.id)
    ELSE Stored(Accept(state, m.source, m.id), m)

\* The records a receiver can use: all of them or none.
mesh_control_decode_sync_response_records(records) ==
    IF Len(records) > MaxRecords THEN << >> ELSE records

\* mesh_control_enqueue_sync_response; a full queue drops the request.
mesh_control_enqueue_sync_response(state, request) ==
    IF Len(state.queue) < SyncQueueDepth THEN [state EXCEPT !.queue = Append(@, request)]
    ELSE state

Difference(x, y) == IF x > y THEN x - y ELSE y - x

\* Plausible bug: a clock as far away as the own one is taken over.
AdoptsAsFar(own, epoch, dist) ==
    \/ ~own.synced
    \/ Difference(epoch, own.epoch) <= 1 /\ dist <= own.dist

\* mesh_control_handle_time_sync_packet: more than a day off is refused.
Adopts(own, epoch, dist) ==
    \/ ~own.synced
    \/ Difference(epoch, own.epoch) <= 1 /\ dist < own.dist

\* The loop over the records of an answer.
ImportAll(n, state, records) ==
    LET after[i \in 0 .. Len(records)] ==
            IF i = 0 THEN state ELSE Import(n, after[i - 1], records[i])
    IN  after[Len(records)]

\* What becomes of a node that hears p.  The id of an answer goes into the
\* window first, then that of each record in it.
lora_handle_rx_packet(n, state, p) ==
    LET heard == Accept(state, p.source, p.id)
        m == [source |-> p.source, id |-> p.id, destination |-> p.destination, size |-> p.size]
    IN  IF ~Accepts(state.windows[p.source], p.id) THEN state
        ELSE CASE p.type = "MSG"       -> Import(n, state, m)
               [] p.type = "SYNC_REQ"  -> mesh_control_enqueue_sync_response(heard, p)
               [] p.type = "SYNC_RESP" ->
                      ImportAll(n, heard, mesh_control_decode_sync_response_records(p.records))
               [] p.type = "TIME_SYNC" ->
                      IF Adopts(heard.clock, p.epoch, p.dist)
                      THEN [heard EXCEPT !.clock =
                                [synced |-> TRUE, epoch |-> p.epoch, dist |-> p.dist]]
                      ELSE heard

\* What s has for the node that asks.
NewerThanCursor(s, p) ==
    {m \in ToSet(node[s].messages) : /\ m.source = s /\ m.destination \in {p.source, ALL}
                                     /\ m.id > p.cursors[s]}

\* lora_tx_task takes the oldest packet of a lane.  The channel has room for one:
\* a packet that meets another is lost, as if its sender were away.
lora_tx_task(n, lane) ==
    /\ sending = Silence /\ outgoing[n][lane] # << >>
    /\ sending' = <<n, lane>>
    /\ UNCHANGED <<sequence_counter, packet_ctr, node, responding, outgoing, away, history>>

\* The packet on the air has ended: TX_DONE at its sender, and the others hear
\* it, unless they or the sender are away.
OnAir(n, lane) ==
    /\ sending = <<n, lane>> /\ outgoing[n][lane] # << >>
    /\ sending' = Silence
    /\ outgoing' = [outgoing EXCEPT ![n][lane] = Tail(@)]
    /\ LET p == Head(outgoing[n][lane])
           hearers == IF n \in away THEN {} ELSE Nodes \ (away \cup {n})
       IN  /\ node' = [m \in Nodes |->
                  IF m \in hearers THEN lora_handle_rx_packet(m, node[m], p) ELSE node[m]]
           /\ owed' = IF away # {} THEN {}
                      ELSE owed \cup UNION {{p.source} \X NewerThanCursor(m, p) :
                               m \in {h \in hearers : node'[h].queue # node[h].queue}}
    /\ UNCHANGED <<sequence_counter, packet_ctr, responding, away, faults, answered>>

-----------------------------------------------------------------------------
(* Portal, tasks and faults                                                *)

\* http_time_handler: a clock that is set moves by a day at most.
http_time_handler(n, epoch) ==
    /\ node[n].clock.synced => Difference(epoch, node[n].clock.epoch) <= 1
    /\ node' = [node EXCEPT ![n].clock = [synced |-> TRUE, epoch |-> epoch, dist |-> 0]]
    /\ mesh_control_send_time_sync_packet(n, epoch, 0)

\* time_sync_task, every quarter of an hour.
mesh_control_broadcast_time_sync_if_synced(n) ==
    /\ node[n].clock.synced
    /\ mesh_control_send_time_sync_packet(n, node[n].clock.epoch, node[n].clock.dist)
    /\ UNCHANGED node

NoImports == [s \in Nodes |-> [i \in Ids |-> 0]]
NoPackets == [lane \in Lanes |-> << >>]

Booted(kept) ==
    [messages |-> kept, windows |-> [s \in Nodes |-> [top |-> 0, ids |-> {}]], queue |-> << >>,
     clock |-> [synced |-> FALSE, epoch |-> 0, dist |-> 0], imports |-> NoImports]

\* A node goes out of range, or something keeps it from hearing and being heard,
\* for one packet or for many: a collision, a busy channel, a radio in FAULT.
Leaves(n) ==
    /\ n \notin away /\ away' = away \cup {n}
    /\ faults < MaxFaults /\ faults' = faults + 1
    /\ owed' = {}
    /\ UNCHANGED <<sequence_counter, packet_ctr, node, responding, outgoing, sending, answered>>

Returns(n) ==
    /\ n \in away /\ away' = away \ {n}
    /\ UNCHANGED <<sequence_counter, packet_ctr, node, responding, outgoing, sending, history>>

\* A power loss: app_runtime_start, with the stored messages and the counter
\* from flash.  What the scheduler restores it sends again.
Reboot(n) ==
    /\ faults < MaxFaults /\ faults' = faults + 1
    /\ sequence_counter' = [sequence_counter EXCEPT ![n] = packet_ctr[n]]
    /\ node' = [node EXCEPT ![n] = Booted(@.messages)]
    /\ responding' = [responding EXCEPT ![n] = Idle]
    /\ outgoing' = [outgoing EXCEPT ![n]["direct"] = << >>]
    /\ sending' = IF Transmitting(n) THEN Silence ELSE sending
    /\ owed' = {}
    /\ UNCHANGED <<packet_ctr, away, answered>>

SyncInit ==
    /\ sequence_counter = [n \in Nodes |-> 0]
    /\ packet_ctr = [n \in Nodes |-> 0]
    /\ node = [n \in Nodes |-> Booted(<< >>)]
    /\ responding = [n \in Nodes |-> Idle]
    /\ outgoing = [n \in Nodes |-> NoPackets]
    /\ sending = Silence /\ away = {}
    /\ faults = 0
    /\ owed = {}
    /\ answered = {}

\* What goes on by itself: the radio empties its queues, and the response task
\* goes on while it has something to answer.
Work ==
    \/ \E n \in Nodes : sync_response_task(n) \/ SendBatch(n)
    \/ \E n \in Nodes, lane \in Lanes : lora_tx_task(n, lane) \/ OnAir(n, lane)

\* Within the bound on ids.
HasIds(n) == sequence_counter[n] < MaxId[n]

SyncNext ==
    \/ Work
    \/ \E letter \in Mail : HasIds(letter[1]) /\ queue_message(letter[1], letter[2], letter[3])
    \/ \E n \in Requesters : HasIds(n) /\ mesh_control_send_sync_request(n)
    \/ \E n \in Portals, epoch \in Clocks : HasIds(n) /\ http_time_handler(n, epoch)
    \/ \E n \in Nodes : HasIds(n) /\ mesh_control_broadcast_time_sync_if_synced(n)
    \/ \E n \in Nodes : Leaves(n) \/ Returns(n) \/ Reboot(n)

\* Nobody has to ask or send anything.
SyncSpec == SyncInit /\ [][SyncNext]_syncVars /\ WF_syncVars(Work)

-----------------------------------------------------------------------------
(* Properties                                                              *)

SyncTypeOK ==
    /\ \A n \in Nodes : 0 <= packet_ctr[n] /\ packet_ctr[n] <= sequence_counter[n]
    /\ \A n \in Nodes : /\ ToSet(node[n].messages) \subseteq Message
                        /\ Len(node[n].queue) <= SyncQueueDepth
                        /\ node[n].clock.dist \in 0 .. 254
    /\ faults \in 0 .. MaxFaults

\* A node stores a message once, however often it comes: by itself, in answers
\* of several nodes to one request, in answers to overlapping requests
\* (app_runtime.c:199-204).  A reboot forgets the window and starts anew.
ImportedOnce == \A n, s \in Nodes : \A i \in Ids : node[n].imports[s][i] <= 1

\* What a node stores from the air is addressed to it and was sent by the node
\* it names: answers to others, which every node in range takes apart, leave
\* nothing behind (app_runtime.c:145-158, mesh_control.c:464-482).
OnlyOwnMail ==
    \A n \in Nodes : \A m \in ToSet(node[n].messages) :
        m.source # n => m.destination = n /\ m \in ToSet(node[m.source].messages)

\* A clock that is set follows the node's own portal only: as no sender
\* increases the distance, every packet says 0, and 0 is never nearer than the
\* 0 a set clock has (mesh_control.c:235, 385; http_time.c:52).
FirstClockWins ==
    [][\A n \in Nodes \ Portals :
          node[n].clock.synced /\ node'[n].clock.synced => node'[n].clock = node[n].clock]_syncVars

\* The id of the message went to an answer before: SYNC_RESP ids are drawn
\* without saving the counter (mesh_control.c:498, where DOCS.md:82 says that it
\* is saved whenever an id is assigned) and come again after a reboot.
IdTwiceUsed(m) == <<m.source, m.id>> \in answered

\* The node has the message it asked for, unless that is too old for its
\* replay window.  Broadcasts are looked at and not kept.
Arrived(n, m) ==
    \/ m \in ToSet(node[n].messages)
    \/ m.destination = ALL \/ IdTwiceUsed(m)
    \/ node[n].windows[m.source].top - m.id >= REPLAY_WINDOW_SIZE

\* Synchronisation recovers what was missed: if a request has reached a node
\* and nothing more goes wrong, the requester ends up with each message to it
\* that is newer than its cursor, whatever batches the answer is cut into.  Not
\* with those of a batch that the radio refuses because it is transmitting an
\* earlier one, that fills the payload to the last byte or is one record alone
\* that is too long: these are never sent; nor with those of a batch of more than
\* MaxRecords, which its receiver throws away (mesh_control.c:470-553,
\* lora_radio.c:361, app_runtime.c:192-204).
MissedIsRecovered == []<>(\A x \in owed : Arrived(x[1], x[2]))
=============================================================================
