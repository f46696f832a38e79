----------------------------- MODULE SyncProofs -----------------------------
(***************************************************************************)
(* Synchronisation keeps the store clean: for any nodes, messages, losses  *)
(* and reboots, a node stores a message once in a boot, stores only what   *)
(* was sent to it, and keeps the clock it has.                             *)
(***************************************************************************)
EXTENDS Sync, LoopTheorems

-----------------------------------------------------------------------------
(* What nodes and packets are made of                                      *)

Packets ==
    [type : {"MSG", "SYNC_REQ", "SYNC_RESP", "TIME_SYNC"}, source : Nodes, id : Nat,
     destination : Nodes \cup {ALL}, size : Nat, cursors : [Nodes -> Nat],
     records : Seq(Message), epoch : Nat, dist : {0}]

\* The message a packet of type MSG carries.
Letter(p) ==
    [source |-> p.source, id |-> p.id, destination |-> p.destination, size |-> p.size]

\* Packets that name only messages of G.
GenuinePackets(G) ==
    {p \in Packets : p.records \in Seq(G) /\ (p.type = "MSG" => Letter(p) \in G)}

Window == [top : Nat, ids : SUBSET Nat]

NodeState ==
    [messages : Seq(Message), windows : [Nodes -> Window], queue : Seq(Packets),
     clock : [synced : BOOLEAN, epoch : Nat, dist : {0}],
     imports : [Nodes -> [Ids -> Nat]]]

\* Messages of G that n may keep.
Own(n, G) == {m \in G : m.source # n => m.destination = n}

\* The counts of stored messages are right: none twice, and what was stored
\* the window does not let in again.
WindowGuards(st) ==
    \A s \in Nodes, i \in Ids :
        \/ st.imports[s][i] = 0
        \/ st.imports[s][i] = 1 /\ ~Accepts(st.windows[s], i)

Clean(n, G) == {st \in NodeState : st.messages \in Seq(Own(n, G)) /\ WindowGuards(st)}

\* Clean states that have the messages of st0, and its clock if that is set.
Later(n, G, st0) ==
    {st \in Clean(n, G) : /\ ToSet(st0.messages) \subseteq ToSet(st.messages)
                          /\ st0.clock.synced => st.clock = st0.clock}

\* Ids are natural numbers.
LEMMA IdsAreNatural == Ids \subseteq Nat
  BY SyncAssumption DEF Ids

\* The window after an acceptance lets in nothing it did not let in before,
\* and not the id that was accepted.
LEMMA AcceptedIsShut ==
    ASSUME NEW w \in Window, NEW id \in Nat
    PROVE  /\ Accepted(w, id) \in Window
           /\ ~Accepts(Accepted(w, id), id)
           /\ \A i \in Nat : ~Accepts(w, i) => ~Accepts(Accepted(w, id), i)
  <1> DEFINE top == Max({id, w.top})
  <1>1. w.top \in Nat /\ w.ids \in SUBSET Nat
    BY DEF Window
  <1>2. top \in {id, w.top} /\ id <= top /\ w.top <= top
    <2>1. {id, w.top} \in SUBSET Nat /\ {id, w.top} # {} /\ id + w.top \in Nat
          /\ \A x \in {id, w.top} : x <= id + w.top
      BY <1>1
    <2>2. \A x \in {id, w.top} : x <= top
      BY <2>1, MaxIsGreatest
    <2>3. top \in {id, w.top}
      BY <2>1, MaxIsGreatest
    <2> QED
      BY <2>2, <2>3
  <1> DEFINE ids == {i \in w.ids \cup {id} : top - i < REPLAY_WINDOW_SIZE}
  <1>3. Accepted(w, id) = [top |-> top, ids |-> ids]
    BY DEF Accepted
  <1> HIDE DEF top
  <1>4. top \in Nat /\ REPLAY_WINDOW_SIZE \in Nat
    BY <1>1, <1>2, SyncAssumption
  <1>5. Accepted(w, id).top = top /\ Accepted(w, id).ids = ids
    BY <1>3
  <1>6. Accepted(w, id) \in Window
    BY <1>1, <1>3, <1>4 DEF Window
  <1>7. ~Accepts(Accepted(w, id), id)
    BY <1>2, <1>4, <1>5 DEF Accepts
  <1>8. ASSUME NEW i \in Nat, ~Accepts(w, i) PROVE ~Accepts(Accepted(w, id), i)
    <2>1. i <= w.top
      BY <1>1, <1>8 DEF Accepts
    <2>2. i <= top
      BY <1>1, <1>2, <1>4, <2>1
    <2>3. CASE i \in w.ids
      BY <1>4, <1>5, <2>2, <2>3 DEF Accepts
    <2>4. CASE i \notin w.ids
      <3>1. ~(w.top - i < REPLAY_WINDOW_SIZE)
        BY <1>8, <2>4 DEF Accepts
      <3>2. ~(top - i < REPLAY_WINDOW_SIZE)
        BY <1>1, <1>2, <1>4, <3>1
      <3> QED
        BY <1>4, <1>5, <2>2, <3>2 DEF Accepts
    <2> QED
      BY <2>3, <2>4
  <1> QED
    BY <1>6, <1>7, <1>8

\* Noting an id in the window disturbs nothing else.
LEMMA AcceptStays ==
    ASSUME NEW n \in Nodes, NEW G \in SUBSET Message, NEW st0, NEW st \in Later(n, G, st0),
           NEW s \in Nodes, NEW id \in Nat
    PROVE  /\ Accept(st, s, id) \in Later(n, G, st0)
           /\ ~Accepts(Accept(st, s, id).windows[s], id)
           /\ \A f \in {"messages", "queue", "clock", "imports"} : Accept(st, s, id)[f] = st[f]
  <1> DEFINE new == Accept(st, s, id)
             w == Accepted(st.windows[s], id)
  <1>1. st \in NodeState /\ st \in Clean(n, G)
    BY DEF Later, Clean
  <1>2. st.windows \in [Nodes -> Window] /\ st.windows[s] \in Window
    BY <1>1 DEF NodeState
  <1>3. new = [st EXCEPT !.windows = [st.windows EXCEPT ![s] = w]]
    BY <1>1 DEF Accept, NodeState
  <1>4. /\ w \in Window /\ ~Accepts(w, id)
        /\ \A i \in Nat : ~Accepts(st.windows[s], i) => ~Accepts(w, i)
    BY <1>2, AcceptedIsShut
  <1> HIDE DEF w, new
  <1>5. new.windows = [st.windows EXCEPT ![s] = w]
    BY <1>1, <1>3 DEF NodeState
  <1>6. /\ new.messages = st.messages /\ new.queue = st.queue
        /\ new.clock = st.clock /\ new.imports = st.imports
    BY <1>1, <1>3 DEF NodeState
  <1>7. new \in NodeState
    BY <1>1, <1>2, <1>3, <1>4 DEF NodeState
  <1>8. WindowGuards(new)
    <2> SUFFICES ASSUME NEW t \in Nodes, NEW i \in Ids
                 PROVE  \/ new.imports[t][i] = 0
                        \/ new.imports[t][i] = 1 /\ ~Accepts(new.windows[t], i)
      BY DEF WindowGuards
    <2>1. \/ st.imports[t][i] = 0
          \/ st.imports[t][i] = 1 /\ ~Accepts(st.windows[t], i)
      BY <1>1 DEF Clean, WindowGuards
    <2>2. new.windows[t] = IF t = s THEN w ELSE st.windows[t]
      BY <1>2, <1>5
    <2> QED
      BY <1>4, <1>6, <2>1, <2>2, IdsAreNatural
  <1>9. new \in Later(n, G, st0)
    BY <1>1, <1>6, <1>7, <1>8 DEF Later, Clean
  <1>10. ~Accepts(new.windows[s], id)
    BY <1>2, <1>4, <1>5
  <1> QED
    BY <1>6, <1>9, <1>10 DEF new

\* Appending keeps what is there.
LEMMA AppendKeeps ==
    ASSUME NEW S, NEW s \in Seq(S), NEW x
    PROVE  ToSet(s) \subseteq ToSet(Append(s, x))
  <1>1. \A i \in DOMAIN s : i \in DOMAIN Append(s, x) /\ Append(s, x)[i] = s[i]
    OBVIOUS
  <1> QED
    BY <1>1 DEF ToSet

\* Storing a message that the window has just taken note of.
LEMMA StoredStays ==
    ASSUME NEW n \in Nodes, NEW G \in SUBSET Message, NEW st0, NEW st \in Later(n, G, st0),
           NEW m \in Own(n, G), st.imports[m.source][m.id] = 0,
           ~Accepts(st.windows[m.source], m.id)
    PROVE  Stored(st, m) \in Later(n, G, st0)
  <1> DEFINE new == Stored(st, m)
             row == [st.imports[m.source] EXCEPT ![m.id] = 1]
  <1>1. st \in NodeState /\ st \in Clean(n, G) /\ st.messages \in Seq(Own(n, G))
    BY DEF Later, Clean
  <1>2. m \in Message /\ m.source \in Nodes /\ m.id \in Ids
    BY DEF Own, Message
  <1>3. st.imports \in [Nodes -> [Ids -> Nat]] /\ st.messages \in Seq(Message)
    BY <1>1 DEF NodeState
  <1>4. new = [st EXCEPT !.messages = Append(st.messages, m),
                         !.imports = [st.imports EXCEPT ![m.source] = row]]
    BY <1>1, <1>2, <1>3 DEF Stored, NodeState
  <1>5. row \in [Ids -> Nat]
    BY <1>2, <1>3
  <1> HIDE DEF new
  <1>6. /\ new.messages = Append(st.messages, m)
        /\ new.imports = [st.imports EXCEPT ![m.source] = row]
        /\ new.windows = st.windows /\ new.clock = st.clock
    BY <1>1, <1>4 DEF NodeState
  <1>7. new \in NodeState
    <2>1. Append(st.messages, m) \in Seq(Message)
      BY <1>2, <1>3
    <2>2. [st.imports EXCEPT ![m.source] = row] \in [Nodes -> [Ids -> Nat]]
      BY <1>3, <1>5
    <2> HIDE DEF row
    <2> QED
      BY <1>1, <1>4, <2>1, <2>2 DEF NodeState
  <1>8. WindowGuards(new)
    <2> SUFFICES ASSUME NEW t \in Nodes, NEW i \in Ids
                 PROVE  \/ new.imports[t][i] = 0
                        \/ new.imports[t][i] = 1 /\ ~Accepts(new.windows[t], i)
      BY DEF WindowGuards
    <2>1. \/ st.imports[t][i] = 0
          \/ st.imports[t][i] = 1 /\ ~Accepts(st.windows[t], i)
      BY <1>1 DEF Clean, WindowGuards
    <2>2. new.imports[t][i] = IF t = m.source /\ i = m.id THEN 1 ELSE st.imports[t][i]
      BY <1>2, <1>3, <1>6
    <2> QED
      BY <1>6, <2>1, <2>2
  <1>9. new.messages \in Seq(Own(n, G))
    BY <1>1, <1>6
  <1>10. ToSet(st.messages) \subseteq ToSet(new.messages)
    BY <1>3, <1>6, AppendKeeps
  <1> QED
    BY <1>6, <1>7, <1>8, <1>9, <1>10 DEF Later, Clean, new

\* replay_protection_accept and store_received_packet.
LEMMA ImportStays ==
    ASSUME NEW n \in Nodes, NEW G \in SUBSET Message, NEW st0, NEW st \in Later(n, G, st0),
           NEW m \in G
    PROVE  Import(n, st, m) \in Later(n, G, st0)
  <1> DEFINE new == Accept(st, m.source, m.id)
  <1>1. m.source \in Nodes /\ m.id \in Ids /\ m.id \in Nat
    BY IdsAreNatural DEF Message
  <1>2. /\ new \in Later(n, G, st0) /\ ~Accepts(new.windows[m.source], m.id)
        /\ new.imports = st.imports
    BY <1>1, AcceptStays
  <1>3. CASE ~Accepts(st.windows[m.source], m.id) \/ n \notin {m.source, m.destination}
    BY <1>2, <1>3 DEF Import
  <1>4. CASE Accepts(st.windows[m.source], m.id) /\ n \in {m.source, m.destination}
    <2>1. Import(n, st, m) = Stored(new, m)
      BY <1>4 DEF Import
    <2>2. m \in Own(n, G)
      BY <1>4 DEF Own
    <2>3. st.imports[m.source][m.id] = 0
      BY <1>1, <1>4 DEF Later, Clean, WindowGuards
    <2> HIDE DEF new
    <2> QED
      BY <1>2, <2>1, <2>2, <2>3, StoredStays
  <1> QED
    BY <1>3, <1>4

\* The loop over the records of an answer.
LEMMA ImportAllStays ==
    ASSUME NEW n \in Nodes, NEW G \in SUBSET Message, NEW st0, NEW st \in Later(n, G, st0),
           NEW records \in Seq(G)
    PROVE  ImportAll(n, st, records) \in Later(n, G, st0)
  <1> DEFINE S == Later(n, G, st0)
             k == Len(records)
             Loop(f) == f = [i \in 0 .. k |->
                                IF i = 0 THEN st ELSE Import(n, f[i - 1], records[i])]
             after == CHOOSE f : Loop(f)
  <1>1. k \in Nat /\ \A i \in 1 .. k : records[i] \in G
    OBVIOUS
  <1>2. \A i \in 1 .. k : \A x \in S : Import(n, x, records[i]) \in S
    BY <1>1, ImportStays
  <1> HIDE DEF S, k
  <1>3. \E f : Loop(f)
    <2> DEFINE step == [i \in 1 .. k |-> [x \in S |-> Import(n, x, records[i])]]
    <2>1. step \in Rounds(k, S)
      BY <1>2 DEF Rounds
    <2>2. st \in S
      BY DEF S
    <2>3. PICK f : f \in [0 .. k -> S] /\ f[0] = st /\ \A i \in 1 .. k : f[i] = step[i][f[i - 1]]
      <3> HIDE DEF step
      <3>1. \E f : IsRun(f, k, S, st, step)
        BY <1>1, <2>1, <2>2, LoopExists, Zenon
      <3> QED
        BY <3>1, Zenon DEF IsRun
    <2>4. \A i \in 1 .. k : f[i] = Import(n, f[i - 1], records[i])
      <3>1. \A i \in 1 .. k : i - 1 \in 0 .. k /\ f[i - 1] \in S
        BY <1>1, <2>3
      <3> QED
        BY <2>3, <3>1
    <2>5. \A i \in 0 .. k : f[i] = IF i = 0 THEN st ELSE Import(n, f[i - 1], records[i])
      BY <1>1, <2>3, <2>4
    <2>6. f = [i \in 0 .. k |-> f[i]]
      BY <2>3
    <2> QED
      BY <2>5, <2>6
  <1>4. Loop(after)
    BY <1>3
  <1>5. ImportAll(n, st, records) = after[k]
    BY DEF ImportAll, k
  <1> HIDE DEF after
  <1>6. after[0] = st /\ \A i \in 1 .. k : after[i] = Import(n, after[i - 1], records[i])
    BY <1>1, <1>4
  <1>7. after[k] \in S
    <2>1. after[0] \in S
      BY <1>6 DEF S
    <2>2. \A i \in 1 .. k : after[i - 1] \in S => after[i] \in S
      BY <1>2, <1>6
    <2> QED
      BY <1>1, <2>1, <2>2, LoopKeeps
  <1> QED
    BY <1>5, <1>7 DEF S

\* A whole reception, whatever the packet.
LEMMA HandlerStays ==
    ASSUME NEW n \in Nodes, NEW G \in SUBSET Message, NEW st \in Clean(n, G),
           NEW p \in GenuinePackets(G)
    PROVE  lora_handle_rx_packet(n, st, p) \in Later(n, G, st)
  <1> DEFINE heard == Accept(st, p.source, p.id)
  <1>1. p \in Packets /\ p.source \in Nodes /\ p.id \in Nat
    BY DEF GenuinePackets, Packets
  <1>2. st \in Later(n, G, st)
    BY DEF Later
  <1>3. heard \in Later(n, G, st) /\ heard.clock = st.clock
    BY <1>1, <1>2, AcceptStays
  <1>4. CASE ~Accepts(st.windows[p.source], p.id)
    BY <1>2, <1>4 DEF lora_handle_rx_packet
  <1>5. CASE Accepts(st.windows[p.source], p.id) /\ p.type = "MSG"
    <2>1. lora_handle_rx_packet(n, st, p) = Import(n, st, Letter(p))
      BY <1>5 DEF lora_handle_rx_packet, Letter
    <2>2. Letter(p) \in G
      BY <1>5 DEF GenuinePackets
    <2> QED
      BY <1>2, <2>1, <2>2, ImportStays
  <1> HIDE DEF heard
  <1>6. CASE Accepts(st.windows[p.source], p.id) /\ p.type = "SYNC_REQ"
    <2>1. lora_handle_rx_packet(n, st, p) = mesh_control_enqueue_sync_response(heard, p)
      BY <1>6 DEF lora_handle_rx_packet, heard
    <2> DEFINE new == [heard EXCEPT !.queue = Append(heard.queue, p)]
    <2>2. heard \in Clean(n, G) /\ heard \in NodeState
      BY <1>3 DEF Later, Clean
    <2>3. new \in NodeState
      <3>1. heard.queue \in Seq(Packets)
        BY <2>2 DEF NodeState
      <3>2. Append(heard.queue, p) \in Seq(Packets)
        BY <1>1, <3>1
      <3> QED
        BY <2>2, <3>2 DEF NodeState
    <2>4. /\ new.messages = heard.messages /\ new.windows = heard.windows
          /\ new.clock = heard.clock /\ new.imports = heard.imports
      BY <2>2 DEF NodeState
    <2> HIDE DEF new
    <2>5. WindowGuards(new)
      BY <2>2, <2>4 DEF Clean, WindowGuards
    <2>6. new \in Later(n, G, st)
      BY <1>3, <2>2, <2>3, <2>4, <2>5 DEF Later, Clean
    <2> QED
      BY <1>3, <2>1, <2>6 DEF mesh_control_enqueue_sync_response, new
  <1>7. CASE Accepts(st.windows[p.source], p.id) /\ p.type = "SYNC_RESP"
    <2> DEFINE records == mesh_control_decode_sync_response_records(p.records)
    <2>1. lora_handle_rx_packet(n, st, p) = ImportAll(n, heard, records)
      BY <1>7 DEF lora_handle_rx_packet, heard
    <2>2. records \in Seq(G)
      BY DEF mesh_control_decode_sync_response_records, GenuinePackets
    <2> HIDE DEF records
    <2> QED
      BY <1>3, <2>1, <2>2, ImportAllStays
  <1>8. CASE Accepts(st.windows[p.source], p.id) /\ p.type = "TIME_SYNC"
    <2> DEFINE new == [heard EXCEPT !.clock = [synced |-> TRUE, epoch |-> p.epoch, dist |-> p.dist]]
    <2>1. heard \in Clean(n, G) /\ heard \in NodeState
      BY <1>3 DEF Later, Clean
    <2>2. p.epoch \in Nat /\ p.dist = 0
      BY <1>1 DEF Packets
    <2>3. lora_handle_rx_packet(n, st, p) =
              IF Adopts(heard.clock, p.epoch, p.dist) THEN new ELSE heard
      BY <1>8 DEF lora_handle_rx_packet, heard
    <2>4. heard.clock.dist = 0 /\ heard.clock.synced \in BOOLEAN
      BY <2>1 DEF NodeState
    <2>5. st.clock.synced => ~Adopts(heard.clock, p.epoch, p.dist)
      BY <1>3, <2>2, <2>4 DEF Adopts
    <2>6. new \in NodeState
      BY <2>1, <2>2 DEF NodeState
    <2>7. /\ new.messages = heard.messages /\ new.windows = heard.windows
          /\ new.imports = heard.imports
      BY <2>1 DEF NodeState
    <2> HIDE DEF new
    <2>8. WindowGuards(new)
      BY <2>1, <2>7 DEF Clean, WindowGuards
    <2>9. ~st.clock.synced => new \in Later(n, G, st)
      BY <1>3, <2>1, <2>6, <2>7, <2>8 DEF Later, Clean
    <2> QED
      BY <1>3, <2>3, <2>5, <2>9
  <1>9. p.type \in {"MSG", "SYNC_REQ", "SYNC_RESP", "TIME_SYNC"}
    BY <1>1 DEF Packets
  <1> QED
    BY <1>4, <1>5, <1>6, <1>7, <1>8, <1>9

-----------------------------------------------------------------------------
(* What is sent                                                            *)

\* The first loop of mesh_control_send_sync_responses picks stored messages.
LEMMA SelectedAreKept ==
    ASSUME NEW G, NEW kept \in Seq(G), NEW request
    PROVE  SelectedFor(request, kept) \in Seq(G)
  <1> DEFINE S == Seq(G)
             k == Len(kept)
             Round(x, i) == IF IsMissing(request, kept[i]) THEN Append(x, kept[i]) ELSE x
             Loop(f) == f = [i \in 0 .. k |->
                                IF i = 0 THEN << >>
                                ELSE IF IsMissing(request, kept[i]) THEN Append(f[i - 1], kept[i])
                                ELSE f[i - 1]]
             chosen == CHOOSE f : Loop(f)
  <1>1. k \in Nat /\ << >> \in S
    OBVIOUS
  <1>2. \A i \in 1 .. k : \A x \in S : Round(x, i) \in S
    <2>1. \A i \in 1 .. k : kept[i] \in G
      OBVIOUS
    <2>2. \A i \in 1 .. k : \A x \in S : Append(x, kept[i]) \in S
      BY <2>1
    <2> HIDE DEF S
    <2> QED
      BY <2>2
  <1> HIDE DEF S, k
  <1>3. \E f : Loop(f)
    <2> DEFINE step == [i \in 1 .. k |-> [x \in S |-> Round(x, i)]]
    <2>1. step \in Rounds(k, S)
      BY <1>2 DEF Rounds
    <2>2. PICK f : f \in [0 .. k -> S] /\ f[0] = << >> /\ \A i \in 1 .. k : f[i] = step[i][f[i - 1]]
      <3> HIDE DEF step
      <3>1. \E f : IsRun(f, k, S, << >>, step)
        BY <1>1, <2>1, LoopExists, Zenon
      <3> QED
        BY <3>1, Zenon DEF IsRun
    <2>3. \A i \in 0 .. k : f[i] = IF i = 0 THEN << >> ELSE Round(f[i - 1], i)
      <3> HIDE DEF Round
      <3>1. \A i \in 1 .. k : i - 1 \in 0 .. k /\ f[i - 1] \in S
        BY <1>1, <2>2
      <3>2. \A i \in 1 .. k : f[i] = Round(f[i - 1], i)
        BY <2>2, <3>1
      <3>3. \A i \in 0 .. k : i = 0 \/ i \in 1 .. k
        BY <1>1
      <3> QED
        BY <2>2, <3>2, <3>3
    <2>4. f = [i \in 0 .. k |-> IF i = 0 THEN << >> ELSE Round(f[i - 1], i)]
      <3> HIDE DEF Round
      <3> QED
        BY <2>2, <2>3
    <2> QED
      BY <2>4, Zenon
  <1>4. Loop(chosen)
    BY <1>3
  <1>5. SelectedFor(request, kept) = chosen[k]
    BY DEF SelectedFor, k
  <1> HIDE DEF chosen
  <1>6. chosen[0] = << >> /\ \A i \in 1 .. k : chosen[i] = Round(chosen[i - 1], i)
    <2>1. chosen = [i \in 0 .. k |-> IF i = 0 THEN << >> ELSE Round(chosen[i - 1], i)]
      BY <1>4, Zenon
    <2> HIDE DEF Round
    <2> QED
      BY <1>1, <2>1
  <1>7. chosen[k] \in S
    <2>1. \A i \in 1 .. k : chosen[i - 1] \in S => chosen[i] \in S
      <3> HIDE DEF Round
      <3> QED
        BY <1>2, <1>6
    <2> QED
      BY <1>1, <1>6, <2>1, LoopKeeps
  <1> QED
    BY <1>5, <1>7 DEF S

\* A batch is not longer than what is left to send.
LEMMA BatchIsThere ==
    ASSUME NEW G, NEW left \in Seq(G)
    PROVE  BatchCount(left) \in 0 .. Len(left)
  <1> DEFINE S == {0} \cup {k \in 1 .. Len(left) : BodyLen(SubSeq(left, 1, k)) <= PAYLOAD_LEN}
  <1>1. S \in SUBSET Nat /\ S # {} /\ Len(left) \in Nat /\ \A x \in S : x <= Len(left)
    OBVIOUS
  <1>2. BatchCount(left) = Max(S)
    BY DEF BatchCount
  <1>3. S \subseteq 0 .. Len(left)
    OBVIOUS
  <1> HIDE DEF S
  <1>4. Max(S) \in S
    BY <1>1, MaxIsGreatest
  <1> QED
    BY <1>2, <1>3, <1>4

\* Parts of a sequence are sequences.
LEMMA PartOfSequence ==
    ASSUME NEW G, NEW s \in Seq(G), NEW i \in Nat \ {0}, NEW j \in 0 .. Len(s)
    PROVE  SubSeq(s, i, j) \in Seq(G)
  <1>1. CASE i > j
    <2>1. SubSeq(s, i, j) = << >>
      BY <1>1
    <2> QED
      BY <2>1
  <1>2. CASE i <= j
    BY <1>2
  <1> QED
    BY <1>1, <1>2

\* Stored messages have ids.
LEMMA MessageIds ==
    ASSUME NEW kept \in Seq(Message)
    PROVE  \A i \in 1 .. Len(kept) : kept[i].id \in Nat
  <1>1. \A m \in Message : m.id \in Nat
    BY IdsAreNatural DEF Message
  <1>2. \A i \in 1 .. Len(kept) : kept[i] \in Message
    OBVIOUS
  <1> QED
    BY <1>1, <1>2

\* The ids of a sequence of messages have an upper bound.
LEMMA IdsAreBounded ==
    ASSUME NEW kept \in Seq(Message)
    PROVE  \E bound \in Nat : \A i \in 1 .. Len(kept) : kept[i].id <= bound
  <1> DEFINE Bounded(j) == \E bound \in Nat : \A i \in 1 .. j : kept[i].id <= bound
             bad == {j \in 0 .. Len(kept) : ~Bounded(j)}
  <1> SUFFICES ASSUME bad # {} PROVE FALSE
    <2>1. bad = {} => Bounded(Len(kept))
      <3> HIDE DEF Bounded
      <3> QED
        OBVIOUS
    <2> HIDE DEF bad
    <2> QED
      BY <2>1
  <1>1. PICK j \in bad : \A i \in bad : j <= i
    <2>1. bad \in SUBSET Nat
      <3> HIDE DEF Bounded
      <3> QED
        OBVIOUS
    <2> HIDE DEF bad
    <2> QED
      BY <2>1, LeastNumber
  <1>2. j \in 0 .. Len(kept) /\ ~Bounded(j) /\ j \in Nat
    <2> HIDE DEF Bounded
    <2> QED
      BY <1>1
  <1>3. j # 0
    <2>1. \A i \in 1 .. 0 : kept[i].id <= 0
      OBVIOUS
    <2>2. Bounded(0)
      BY <2>1
    <2> HIDE DEF Bounded
    <2> QED
      BY <1>2, <2>2
  <1>4. Bounded(j - 1)
    <2> HIDE DEF Bounded
    <2> QED
      BY <1>1, <1>2, <1>3
  <1>5. PICK bound \in Nat : \A i \in 1 .. j - 1 : kept[i].id <= bound
    BY <1>4
  <1>6. \A i \in 1 .. Len(kept) : kept[i].id \in Nat
    BY MessageIds
  <1> HIDE DEF bad
  <1> DEFINE last == kept[j].id
  <1>7. last \in Nat /\ j \in 1 .. Len(kept)
    <2> HIDE DEF Bounded, last
    <2>1. Len(kept) \in Nat
      OBVIOUS
    <2>2. j \in 1 .. Len(kept)
      BY <1>2, <1>3, <2>1
    <2> QED
      BY <1>6, <2>2 DEF last
  <1>8. bound + last \in Nat /\ \A i \in 1 .. j : kept[i].id <= bound + last
    <2> HIDE DEF Bounded
    <2>1. \A i \in 1 .. j : i = j \/ i \in 1 .. j - 1
      BY <1>2
    <2>2. \A i \in 1 .. j - 1 : kept[i].id \in Nat
      BY <1>6, <1>7
    <2>3. \A i \in 1 .. j - 1 : kept[i].id <= bound + last
      <3> HIDE DEF last
      <3> QED
        BY <1>2, <1>5, <1>7, <2>2
    <2>4. kept[j].id <= bound + last
      BY <1>5, <1>7
    <2> QED
      BY <1>5, <1>7, <2>1, <2>3, <2>4
  <1>9. Bounded(j)
    BY <1>8
  <1> HIDE DEF Bounded
  <1> QED
    BY <1>2, <1>9

\* A cursor is an id, or 0.
LEMMA NewestIsNatural ==
    ASSUME NEW kept \in Seq(Message), NEW s
    PROVE  Newest(kept, s) \in Nat
  <1> DEFINE S == {0} \cup {m.id : m \in {k \in ToSet(kept) : k.source = s}}
  <1>1. PICK bound \in Nat : \A i \in 1 .. Len(kept) : kept[i].id <= bound
    BY IdsAreBounded
  <1>2. \A m \in ToSet(kept) : m.id \in Nat /\ m.id <= bound
    <2>1. \A i \in 1 .. Len(kept) : kept[i].id \in Nat
      BY MessageIds
    <2> QED
      BY <1>1, <2>1 DEF ToSet
  <1>3. S \in SUBSET Nat /\ S # {} /\ \A x \in S : x <= bound
    BY <1>2
  <1>4. Newest(kept, s) = Max(S)
    BY DEF Newest
  <1> HIDE DEF S
  <1>5. Max(S) \in S
    BY <1>1, <1>3, MaxIsGreatest
  <1> QED
    BY <1>3, <1>4, <1>5

-----------------------------------------------------------------------------
(* The inductive invariant                                                 *)

\* Messages that their source has written.
Genuine == {m \in Message : m \in ToSet(node[m.source].messages)}

Answers(G) == [to : Nodes \cup {ALL}, left : Seq(G)]

\* Everything stored, about to be answered or on its way is of G.
OnlyFrom(G) ==
    /\ node \in [Nodes -> NodeState] /\ \A n \in Nodes : node[n] \in Clean(n, G)
    /\ responding \in [Nodes -> Answers(G)]
    /\ outgoing \in [Nodes -> [Lanes -> Seq(GenuinePackets(G))]]

CountersTyped ==
    /\ sequence_counter \in [Nodes -> Nat]
    /\ packet_ctr \in [Nodes -> Nat]

SyncIInv == CountersTyped /\ OnlyFrom(Genuine)

\* More messages, more states.
LEMMA MoreIsClean ==
    ASSUME NEW G \in SUBSET Message, NEW H \in SUBSET Message, G \subseteq H
    PROVE  /\ \A n \in Nodes : Clean(n, G) \subseteq Clean(n, H)
           /\ Answers(G) \subseteq Answers(H)
           /\ Seq(GenuinePackets(G)) \subseteq Seq(GenuinePackets(H))
  <1>1. Seq(G) \subseteq Seq(H)
    OBVIOUS
  <1>2. \A n \in Nodes : Seq(Own(n, G)) \subseteq Seq(Own(n, H))
    <2>1. \A n \in Nodes : Own(n, G) \subseteq Own(n, H)
      BY DEF Own
    <2> QED
      BY <2>1
  <1>3. \A n \in Nodes : Clean(n, G) \subseteq Clean(n, H)
    BY <1>2 DEF Clean
  <1>4. Answers(G) \subseteq Answers(H)
    BY <1>1 DEF Answers
  <1>5. GenuinePackets(G) \subseteq GenuinePackets(H)
    BY <1>1 DEF GenuinePackets
  <1>6. Seq(GenuinePackets(G)) \subseteq Seq(GenuinePackets(H))
    BY <1>5
  <1> QED
    BY <1>3, <1>4, <1>6

\* When every node keeps its messages, what was genuine remains so.
LEMMA GenuineGrows ==
    ASSUME \A n \in Nodes : ToSet(node[n].messages) \subseteq ToSet(node'[n].messages)
    PROVE  Genuine \subseteq Genuine'
  <1>1. \A m \in Message : m.source \in Nodes
    BY DEF Message
  <1> QED
    BY <1>1 DEF Genuine

\* A set of sequences that stays the same for all but one lane.
LEMMA TransmitTyped ==
    ASSUME NEW H \in SUBSET Message, NEW n \in Nodes, NEW p \in GenuinePackets(H),
           NEW G \in SUBSET Message, G \subseteq H,
           outgoing \in [Nodes -> [Lanes -> Seq(GenuinePackets(G))]],
           Transmit(n, p)
    PROVE  outgoing' \in [Nodes -> [Lanes -> Seq(GenuinePackets(H))]]
  <1> DEFINE P == GenuinePackets(G)
             Q == GenuinePackets(H)
  <1>1. Seq(P) \subseteq Seq(Q)
    BY MoreIsClean
  <1>2. Lane(p) \in Lanes
    BY DEF Lane, Lanes
  <1>3. p \in Q
    OBVIOUS
  <1> HIDE DEF P, Q
  <1>4. PICK lane \in Lanes : lane = Lane(p)
    BY <1>2
  <1>5. outgoing \in [Nodes -> [Lanes -> Seq(P)]]
    BY DEF P
  <1>6. outgoing' \in {outgoing, [outgoing EXCEPT ![n][lane] = Append(@, p)]}
    BY <1>4 DEF Transmit
  <1>7. outgoing[n][lane] \in Seq(Q)
    BY <1>1, <1>5
  <1>8. Append(outgoing[n][lane], p) \in Seq(Q)
    BY <1>3, <1>7
  <1>9. outgoing \in [Nodes -> [Lanes -> Seq(Q)]]
    BY <1>1, <1>5
  <1>10. [outgoing EXCEPT ![n][lane] = Append(@, p)] \in [Nodes -> [Lanes -> Seq(Q)]]
    BY <1>8, <1>9
  <1> QED
    BY <1>6, <1>9, <1>10 DEF Q

\* Drawing an id.
LEMMA DrawnId ==
    ASSUME CountersTyped, NEW n \in Nodes, mesh_sequence_next(n)
    PROVE  /\ NextId(n) \in Nat /\ (HasIds(n) => NextId(n) \in Ids)
           /\ sequence_counter' \in [Nodes -> Nat]
           /\ mesh_sequence_save(n) => packet_ctr' \in [Nodes -> Nat]
  <1>1. sequence_counter[n] \in Nat /\ MaxId[n] \in Nat
    BY SyncAssumption DEF CountersTyped
  <1>2. NextId(n) \in Nat /\ (HasIds(n) => NextId(n) \in 1 .. MaxId[n])
    BY <1>1 DEF NextId, HasIds
  <1>3. HasIds(n) => NextId(n) \in Ids
    BY <1>2 DEF Ids
  <1>4. sequence_counter' \in [Nodes -> Nat]
    BY <1>1 DEF mesh_sequence_next, CountersTyped
  <1>5. mesh_sequence_save(n) => packet_ctr' \in [Nodes -> Nat]
    BY <1>4 DEF mesh_sequence_save, CountersTyped
  <1> QED
    BY <1>2, <1>3, <1>4, <1>5

\* The fields Packet fills in.
LEMMA PacketTyped ==
    ASSUME NEW type \in {"SYNC_REQ", "SYNC_RESP", "TIME_SYNC", "MSG"}, NEW n \in Nodes,
           NEW id \in Nat, NEW destination \in Nodes \cup {ALL}
    PROVE  /\ Packet(type, n, id, destination) \in Packets
           /\ Packet(type, n, id, destination).records = << >>
           /\ Packet(type, n, id, destination).type = type
  BY DEF Packet, Packets

\* Changing queue or clock of a node.
LEMMA CleanFields ==
    ASSUME NEW n \in Nodes, NEW G \in SUBSET Message, NEW st \in Clean(n, G), NEW new \in NodeState,
           new.messages = st.messages, new.windows = st.windows, new.imports = st.imports
    PROVE  new \in Clean(n, G)
  BY DEF Clean, WindowGuards

\* One node changes, and keeps its messages: the others remain clean.
LEMMA OneNodeChanges ==
    ASSUME NEW n \in Nodes, NEW G \in SUBSET Message, NEW H \in SUBSET Message, G \subseteq H,
           node \in [Nodes -> NodeState], \A m \in Nodes : node[m] \in Clean(m, G),
           NEW st \in Clean(n, H), node' = [node EXCEPT ![n] = st]
    PROVE  node' \in [Nodes -> NodeState] /\ \A m \in Nodes : node'[m] \in Clean(m, H)
  <1>1. st \in NodeState
    BY DEF Clean
  <1>2. \A m \in Nodes : node[m] \in Clean(m, H)
    BY MoreIsClean
  <1>3. node' \in [Nodes -> NodeState]
    BY <1>1
  <1>4. \A m \in Nodes : node'[m] = IF m = n THEN st ELSE node[m]
    OBVIOUS
  <1> QED
    BY <1>2, <1>3, <1>4

\* Nobody stores anything.
LEMMA SameMessages ==
    ASSUME \A n \in Nodes : node'[n].messages = node[n].messages
    PROVE  Genuine' = Genuine
  <1>1. \A m \in Message : m.source \in Nodes
    BY DEF Message
  <1> QED
    BY <1>1 DEF Genuine

\* A new message is written by its source, under an id of its own.
LEMMA QueueMessageKeeps ==
    ASSUME SyncIInv, NEW letter \in Mail, HasIds(letter[1]),
           queue_message(letter[1], letter[2], letter[3])
    PROVE  SyncIInv'
  <1> DEFINE n == letter[1]
             m == [source |-> n, id |-> NextId(n), destination |-> letter[2], size |-> letter[3]]
             st == [node[n] EXCEPT !.messages = Append(node[n].messages, m)]
             p == [Packet("MSG", n, NextId(n), letter[2]) EXCEPT !.size = letter[3]]
  <1>1. n \in Nodes /\ letter[2] \in Nodes \cup {ALL} /\ letter[3] \in Nat /\ letter[3] \in Sizes
    BY SyncAssumption DEF Sizes
  <1>2. /\ NextId(n) \in Ids /\ NextId(n) \in Nat /\ sequence_counter' \in [Nodes -> Nat]
        /\ packet_ctr' \in [Nodes -> Nat]
    BY <1>1, DrawnId DEF SyncIInv, queue_message
  <1>3. m \in Message
    BY <1>1, <1>2 DEF Message
  <1>4. PICK G \in SUBSET Message : G = Genuine
    BY DEF Genuine
  <1>5. PICK H \in SUBSET Message : H = Genuine'
    BY DEF Genuine
  <1>6. /\ node \in [Nodes -> NodeState] /\ \A k \in Nodes : node[k] \in Clean(k, G)
        /\ responding \in [Nodes -> Answers(G)]
        /\ outgoing \in [Nodes -> [Lanes -> Seq(GenuinePackets(G))]]
    BY <1>4 DEF SyncIInv, OnlyFrom
  <1>7. /\ node' = [node EXCEPT ![n] = st] /\ Transmit(n, p) /\ responding' = responding
    BY <1>1, <1>6 DEF queue_message, NodeState
  <1>8. node[n] \in NodeState /\ node[n].messages \in Seq(Message) /\ node[n] \in Clean(n, G)
    BY <1>1, <1>6 DEF NodeState
  <1>9. /\ st \in NodeState /\ st.messages = Append(node[n].messages, m)
        /\ st.windows = node[n].windows /\ st.imports = node[n].imports
    <2>1. Append(node[n].messages, m) \in Seq(Message)
      BY <1>3, <1>8
    <2> HIDE DEF m
    <2> QED
      BY <1>8, <2>1 DEF NodeState
  <1>10. m.source = n
    OBVIOUS
  <1>11. Letter(p) = m /\ p \in Packets /\ p.records = << >>
    <2> DEFINE q == Packet("MSG", n, NextId(n), letter[2])
    <2>1. q \in Packets /\ q.records = << >>
      BY <1>1, <1>2, PacketTyped
    <2>2. q.source = n /\ q.id = NextId(n) /\ q.destination = letter[2]
      BY DEF Packet
    <2> HIDE DEF q
    <2>3. [q EXCEPT !.size = letter[3]] \in Packets
      BY <1>1, <2>1 DEF Packets
    <2>4. /\ p.source = n /\ p.id = NextId(n) /\ p.destination = letter[2] /\ p.size = letter[3]
          /\ p.records = << >>
      BY <2>1, <2>2 DEF q, Packets
    <2> QED
      BY <2>3, <2>4 DEF Letter, q
  <1> HIDE DEF m, st, p, n
  <1>12. \A k \in Nodes : node'[k] = IF k = n THEN st ELSE node[k]
    BY <1>6, <1>7
  <1>13. ToSet(node[n].messages) \subseteq ToSet(st.messages) /\ m \in ToSet(st.messages)
    <2>1. ToSet(node[n].messages) \subseteq ToSet(st.messages)
      BY <1>8, <1>9, AppendKeeps
    <2>2. /\ Len(node[n].messages) + 1 \in DOMAIN st.messages
          /\ st.messages[Len(node[n].messages) + 1] = m
      BY <1>8, <1>9
    <2> QED
      BY <2>1, <2>2 DEF ToSet
  <1>14. G \subseteq H
    BY <1>4, <1>5, <1>12, <1>13, GenuineGrows
  <1>15. m \in H
    BY <1>1, <1>3, <1>5, <1>10, <1>12, <1>13 DEF Genuine
  <1>16. st \in Clean(n, H)
    <2>1. node[n].messages \in Seq(Own(n, H)) /\ WindowGuards(node[n])
      BY <1>1, <1>8, <1>14, MoreIsClean DEF Clean
    <2>2. m \in Own(n, H)
      BY <1>10, <1>15 DEF Own
    <2>3. st.messages \in Seq(Own(n, H))
      BY <1>9, <2>1, <2>2
    <2>4. WindowGuards(st)
      BY <1>9, <2>1 DEF WindowGuards
    <2> QED
      BY <1>9, <2>3, <2>4 DEF Clean
  <1>17. node' \in [Nodes -> NodeState] /\ \A k \in Nodes : node'[k] \in Clean(k, H)
    BY <1>1, <1>6, <1>7, <1>14, <1>16, OneNodeChanges
  <1>18. p \in GenuinePackets(H)
    <2>1. << >> \in Seq(H)
      OBVIOUS
    <2> QED
      BY <1>11, <1>15, <2>1 DEF GenuinePackets
  <1>19. outgoing' \in [Nodes -> [Lanes -> Seq(GenuinePackets(H))]]
    BY <1>1, <1>6, <1>7, <1>14, <1>18, TransmitTyped
  <1>20. responding' \in [Nodes -> Answers(H)]
    BY <1>6, <1>7, <1>14, MoreIsClean
  <1> QED
    BY <1>2, <1>5, <1>17, <1>19, <1>20 DEF SyncIInv, CountersTyped, OnlyFrom

\* A packet without messages goes out.
LEMMA ControlPacketKeeps ==
    ASSUME SyncIInv, NEW n \in Nodes, NEW p \in Packets, p.records = << >>, p.type # "MSG",
           Transmit(n, p), UNCHANGED responding, Genuine' = Genuine, CountersTyped',
           NEW st \in Clean(n, Genuine), node' = [node EXCEPT ![n] = st]
    PROVE  SyncIInv'
  <1>1. PICK G \in SUBSET Message : G = Genuine
    BY DEF Genuine
  <1>2. /\ node \in [Nodes -> NodeState] /\ \A k \in Nodes : node[k] \in Clean(k, G)
        /\ responding \in [Nodes -> Answers(G)]
        /\ outgoing \in [Nodes -> [Lanes -> Seq(GenuinePackets(G))]]
    BY <1>1 DEF SyncIInv, OnlyFrom
  <1>3. p \in GenuinePackets(G)
    <2>1. << >> \in Seq(G)
      OBVIOUS
    <2> QED
      BY <2>1 DEF GenuinePackets
  <1>4. outgoing' \in [Nodes -> [Lanes -> Seq(GenuinePackets(G))]]
    BY <1>2, <1>3, TransmitTyped
  <1>5. node' \in [Nodes -> NodeState] /\ \A k \in Nodes : node'[k] \in Clean(k, G)
    BY <1>1, <1>2, OneNodeChanges
  <1> QED
    BY <1>1, <1>2, <1>4, <1>5 DEF SyncIInv, OnlyFrom

\* A request carries no message.
LEMMA SyncRequestKeeps ==
    ASSUME SyncIInv, NEW n \in Nodes, mesh_control_send_sync_request(n)
    PROVE  SyncIInv'
  <1> DEFINE kept == node[n].messages
             cursors == [s \in Nodes |-> IF s \in FirstSources(kept) THEN Newest(kept, s) ELSE 0]
             q == Packet("SYNC_REQ", n, NextId(n), ALL)
             p == [q EXCEPT !.cursors = cursors]
  <1>1. /\ NextId(n) \in Nat /\ CountersTyped'
    BY DrawnId DEF SyncIInv, mesh_control_send_sync_request, CountersTyped
  <1>2. node \in [Nodes -> NodeState] /\ node[n] \in Clean(n, Genuine) /\ node[n] \in NodeState
    BY DEF SyncIInv, OnlyFrom
  <1>3. kept \in Seq(Message)
    BY <1>2 DEF NodeState
  <1>4. cursors \in [Nodes -> Nat]
    BY <1>3, NewestIsNatural
  <1>5. Transmit(n, p) /\ UNCHANGED <<node, responding>>
    BY DEF mesh_control_send_sync_request
  <1>6. q \in Packets /\ q.records = << >> /\ q.type = "SYNC_REQ"
    BY <1>1, PacketTyped
  <1> HIDE DEF q, cursors
  <1>7. p \in Packets /\ p.records = << >> /\ p.type = "SYNC_REQ"
    BY <1>4, <1>6 DEF Packets
  <1> HIDE DEF p
  <1>8. Genuine' = Genuine
    BY <1>5 DEF Genuine
  <1>9. node' = [node EXCEPT ![n] = node[n]]
    BY <1>2, <1>5
  <1> QED
    BY <1>1, <1>2, <1>5, <1>7, <1>8, <1>9, ControlPacketKeeps

\* Both senders of the time, with the clock they leave behind.
LEMMA TimeSyncKeeps ==
    ASSUME SyncIInv, NEW n \in Nodes, NEW epoch \in Nat,
           mesh_control_send_time_sync_packet(n, epoch, 0),
           NEW clock \in [synced : BOOLEAN, epoch : Nat, dist : {0}],
           node' = [node EXCEPT ![n].clock = clock]
    PROVE  SyncIInv'
  <1> DEFINE q == Packet("TIME_SYNC", n, NextId(n), ALL)
             p == [q EXCEPT !.epoch = epoch, !.dist = 0]
             st == [node[n] EXCEPT !.clock = clock]
  <1>1. /\ NextId(n) \in Nat /\ CountersTyped'
    BY DrawnId DEF SyncIInv, mesh_control_send_time_sync_packet, CountersTyped
  <1>2. node \in [Nodes -> NodeState] /\ node[n] \in Clean(n, Genuine) /\ node[n] \in NodeState
    BY DEF SyncIInv, OnlyFrom
  <1>3. Transmit(n, p) /\ UNCHANGED responding
    BY DEF mesh_control_send_time_sync_packet
  <1>4. q \in Packets /\ q.records = << >> /\ q.type = "TIME_SYNC"
    BY <1>1, PacketTyped
  <1> HIDE DEF q
  <1>5. p \in Packets /\ p.records = << >> /\ p.type = "TIME_SYNC"
    BY <1>4 DEF Packets
  <1> HIDE DEF p
  <1>6. /\ st \in NodeState /\ st.messages = node[n].messages
        /\ st.windows = node[n].windows /\ st.imports = node[n].imports
    BY <1>2 DEF NodeState
  <1>7. node' = [node EXCEPT ![n] = st]
    BY <1>2 DEF NodeState
  <1> HIDE DEF st
  <1>8. st \in Clean(n, Genuine)
    <2>1. PICK G \in SUBSET Message : G = Genuine
      BY DEF Genuine
    <2> QED
      BY <1>2, <1>6, <2>1, CleanFields
  <1>9. Genuine' = Genuine
    BY <1>2, <1>6, <1>7, SameMessages
  <1> QED
    BY <1>1, <1>3, <1>5, <1>7, <1>8, <1>9, ControlPacketKeeps

\* A clock that is set by hand changes no message.
LEMMA HttpTimeKeeps ==
    ASSUME SyncIInv, NEW n \in Portals, NEW epoch \in Clocks, http_time_handler(n, epoch)
    PROVE  SyncIInv'
  <1>1. n \in Nodes /\ epoch \in Nat
    BY SyncAssumption
  <1>2. [synced |-> TRUE, epoch |-> epoch, dist |-> 0] \in [synced : BOOLEAN, epoch : Nat, dist : {0}]
    BY <1>1
  <1> QED
    BY <1>1, <1>2, TimeSyncKeeps DEF http_time_handler

\* A time broadcast carries no message.
LEMMA BroadcastTimeKeeps ==
    ASSUME SyncIInv, NEW n \in Nodes, mesh_control_broadcast_time_sync_if_synced(n)
    PROVE  SyncIInv'
  <1>1. node \in [Nodes -> NodeState]
    BY DEF SyncIInv, OnlyFrom
  <1>2. PICK clock \in [synced : BOOLEAN, epoch : Nat, dist : {0}] : clock = node[n].clock
    BY <1>1 DEF NodeState
  <1>3. clock.epoch \in Nat /\ clock.dist = 0
    BY <1>2
  <1>4. node' = [node EXCEPT ![n].clock = clock]
    BY <1>1, <1>2 DEF mesh_control_broadcast_time_sync_if_synced, NodeState
  <1>5. mesh_control_send_time_sync_packet(n, clock.epoch, 0)
    BY <1>2, <1>3 DEF mesh_control_broadcast_time_sync_if_synced
  <1>6. PICK epoch \in Nat : epoch = clock.epoch
    BY <1>3
  <1> QED
    BY <1>4, <1>5, <1>6, TimeSyncKeeps

\* An answer is put together from what is stored.
LEMMA ResponseTaskKeeps ==
    ASSUME SyncIInv, NEW n \in Nodes, sync_response_task(n)
    PROVE  SyncIInv'
  <1> DEFINE request == Head(node[n].queue)
             chosen == SelectedFor(request, node[n].messages)
             st == [node[n] EXCEPT !.queue = Tail(node[n].queue)]
             next == IF chosen = << >> THEN Idle ELSE [to |-> request.source, left |-> chosen]
  <1>1. PICK G \in SUBSET Message : G = Genuine
    BY DEF Genuine
  <1>2. /\ node \in [Nodes -> NodeState] /\ \A k \in Nodes : node[k] \in Clean(k, G)
        /\ responding \in [Nodes -> Answers(G)]
        /\ outgoing \in [Nodes -> [Lanes -> Seq(GenuinePackets(G))]]
    BY <1>1 DEF SyncIInv, OnlyFrom
  <1>3. /\ node[n] \in NodeState /\ node[n].queue \in Seq(Packets)
        /\ node[n].queue # << >> /\ node[n].messages \in Seq(Own(n, G))
    BY <1>2 DEF sync_response_task, NodeState, Clean
  <1>4. request \in Packets /\ Tail(node[n].queue) \in Seq(Packets)
    BY <1>3
  <1>5. request.source \in Nodes
    BY <1>4 DEF Packets
  <1>6. chosen \in Seq(G)
    <2>1. Own(n, G) \subseteq G
      BY DEF Own
    <2>2. node[n].messages \in Seq(G)
      BY <1>3, <2>1
    <2> QED
      BY <2>2, SelectedAreKept
  <1>7. /\ responding' = [responding EXCEPT ![n] = next] /\ node' = [node EXCEPT ![n] = st]
        /\ UNCHANGED <<sequence_counter, packet_ctr, outgoing>>
    BY <1>2 DEF sync_response_task, NodeState
  <1> HIDE DEF chosen, request
  <1>8. next \in Answers(G)
    <2>1. << >> \in Seq(G)
      OBVIOUS
    <2> QED
      BY <1>5, <1>6, <2>1 DEF Answers, Idle
  <1>9. /\ st \in NodeState /\ st.messages = node[n].messages
        /\ st.windows = node[n].windows /\ st.imports = node[n].imports
    BY <1>3, <1>4 DEF NodeState
  <1> HIDE DEF next, st
  <1>10. st \in Clean(n, G)
    BY <1>2, <1>9, CleanFields
  <1>11. Genuine' = Genuine
    BY <1>2, <1>7, <1>9, SameMessages
  <1>12. node' \in [Nodes -> NodeState] /\ \A k \in Nodes : node'[k] \in Clean(k, G)
    BY <1>2, <1>7, <1>10, OneNodeChanges
  <1>13. responding' \in [Nodes -> Answers(G)]
    BY <1>2, <1>7, <1>8
  <1> QED
    BY <1>1, <1>2, <1>7, <1>11, <1>12, <1>13 DEF SyncIInv, OnlyFrom, CountersTyped

\* A batch holds records of the answer.
LEMMA SendBatchKeeps ==
    ASSUME SyncIInv, NEW n \in Nodes, SendBatch(n)
    PROVE  SyncIInv'
  <1> DEFINE left == responding[n].left
             count == BatchCount(left)
             batch == SubSeq(left, 1, count)
             done == Done(left)
             rest == SubSeq(left, done + 1, Len(left))
             q == Packet("SYNC_RESP", n, NextId(n), responding[n].to)
             p == [q EXCEPT !.records = batch]
             next == IF rest = << >> THEN Idle ELSE [responding[n] EXCEPT !.left = rest]
  <1>1. PICK G \in SUBSET Message : G = Genuine
    BY DEF Genuine
  <1>2. /\ node \in [Nodes -> NodeState] /\ \A k \in Nodes : node[k] \in Clean(k, G)
        /\ responding \in [Nodes -> Answers(G)]
        /\ outgoing \in [Nodes -> [Lanes -> Seq(GenuinePackets(G))]]
    BY <1>1 DEF SyncIInv, OnlyFrom
  <1>3. /\ NextId(n) \in Nat /\ CountersTyped'
    BY DrawnId DEF SyncIInv, SendBatch, CountersTyped
  <1>4. /\ responding' = [responding EXCEPT ![n] = next]
        /\ Transmit(n, p) \/ outgoing' = outgoing
        /\ UNCHANGED node
    BY DEF SendBatch
  <1>5. responding[n] \in Answers(G) /\ left \in Seq(G) /\ responding[n].to \in Nodes \cup {ALL}
    BY <1>2 DEF Answers
  <1>6. q \in Packets /\ q.records = << >> /\ q.type = "SYNC_RESP"
    BY <1>3, <1>5, PacketTyped
  <1> HIDE DEF left, q
  <1>7. count \in 0 .. Len(left) /\ Len(left) \in Nat
    BY <1>5, BatchIsThere
  <1>16. done = Max({1, count})
    BY DEF Done
  <1> HIDE DEF count, done
  <1>8. done \in {1, count}
    <2>1. {1, count} \in SUBSET Nat /\ {1, count} # {} /\ 1 + count \in Nat
          /\ \A x \in {1, count} : x <= 1 + count
      BY <1>7
    <2> QED
      BY <1>16, <2>1, MaxIsGreatest
  <1>9. batch \in Seq(G)
    BY <1>5, <1>7, PartOfSequence
  <1>10. rest \in Seq(G)
    <2>1. done + 1 \in Nat \ {0} /\ Len(left) \in 0 .. Len(left)
      BY <1>7, <1>8
    <2> QED
      BY <1>5, <2>1, PartOfSequence
  <1> HIDE DEF batch, rest
  <1>11. p \in GenuinePackets(G)
    <2>1. Seq(G) \subseteq Seq(Message)
      OBVIOUS
    <2>2. batch \in Seq(Message)
      BY <1>9, <2>1
    <2>3. p \in Packets /\ p.records = batch /\ p.type = "SYNC_RESP"
      BY <1>6, <2>2 DEF Packets
    <2> QED
      BY <1>9, <2>3 DEF GenuinePackets
  <1> HIDE DEF p
  <1>12. outgoing' \in [Nodes -> [Lanes -> Seq(GenuinePackets(G))]]
    <2>1. CASE Transmit(n, p)
      BY <1>2, <1>11, <2>1, TransmitTyped
    <2> QED
      BY <1>2, <1>4, <2>1
  <1>13. next \in Answers(G)
    <2>1. << >> \in Seq(G)
      OBVIOUS
    <2> QED
      BY <1>5, <1>10, <2>1 DEF Answers, Idle
  <1> HIDE DEF next
  <1>14. responding' \in [Nodes -> Answers(G)]
    BY <1>2, <1>4, <1>13
  <1>15. Genuine' = Genuine
    BY <1>4 DEF Genuine
  <1> QED
    BY <1>1, <1>2, <1>3, <1>4, <1>12, <1>14, <1>15 DEF SyncIInv, OnlyFrom

\* Every node that hears the packet goes to a later state.
LEMMA OnAirLater ==
    ASSUME SyncIInv, NEW n \in Nodes, NEW lane \in Lanes,
           OnAir(n, lane), NEW G \in SUBSET Message, G = Genuine
    PROVE  /\ node' \in [Nodes -> NodeState]
           /\ \A m \in Nodes : node'[m] \in Later(m, G, node[m])
  <1> DEFINE p == Head(outgoing[n][lane])
             hearers == IF n \in away THEN {} ELSE Nodes \ (away \cup {n})
  <1>1. /\ node \in [Nodes -> NodeState] /\ \A k \in Nodes : node[k] \in Clean(k, G)
        /\ outgoing[n][lane] \in Seq(GenuinePackets(G)) /\ outgoing[n][lane] # << >>
    BY DEF SyncIInv, OnlyFrom, OnAir
  <1>2. p \in GenuinePackets(G)
    BY <1>1
  <1>3. node' = [m \in Nodes |->
            IF m \in hearers THEN lora_handle_rx_packet(m, node[m], p) ELSE node[m]]
    BY DEF OnAir
  <1> HIDE DEF p
  <1>4. \A m \in Nodes : lora_handle_rx_packet(m, node[m], p) \in Later(m, G, node[m])
    BY <1>1, <1>2, HandlerStays
  <1>5. \A m \in Nodes : node[m] \in Later(m, G, node[m])
    BY <1>1 DEF Later
  <1>6. \A m \in Nodes : node'[m] \in Later(m, G, node[m])
    BY <1>3, <1>4, <1>5
  <1>7. \A m \in Nodes : node'[m] \in NodeState
    BY <1>6 DEF Later, Clean
  <1> QED
    BY <1>3, <1>6, <1>7

\* A packet is handled by those who hear it.
LEMMA OnAirKeeps ==
    ASSUME SyncIInv, NEW n \in Nodes, NEW lane \in Lanes,
           OnAir(n, lane)
    PROVE  SyncIInv'
  <1>1. PICK G \in SUBSET Message : G = Genuine
    BY DEF Genuine
  <1>2. PICK H \in SUBSET Message : H = Genuine'
    BY DEF Genuine
  <1>3. /\ node' \in [Nodes -> NodeState]
        /\ \A m \in Nodes : node'[m] \in Later(m, G, node[m])
    BY <1>1, OnAirLater
  <1>4. G \subseteq H
    BY <1>1, <1>2, <1>3, GenuineGrows DEF Later
  <1>5. \A m \in Nodes : node'[m] \in Clean(m, H)
    BY <1>3, <1>4, MoreIsClean DEF Later
  <1>6. /\ responding \in [Nodes -> Answers(G)]
        /\ outgoing \in [Nodes -> [Lanes -> Seq(GenuinePackets(G))]]
    BY <1>1 DEF SyncIInv, OnlyFrom
  <1>7. responding' \in [Nodes -> Answers(H)]
    BY <1>4, <1>6, MoreIsClean DEF OnAir
  <1>8. outgoing' \in [Nodes -> [Lanes -> Seq(GenuinePackets(H))]]
    <2> DEFINE P == GenuinePackets(H)
    <2>0. Seq(GenuinePackets(G)) \subseteq Seq(P)
      BY <1>4, MoreIsClean
    <2>1. outgoing \in [Nodes -> [Lanes -> Seq(P)]]
      <3> HIDE DEF P
      <3> QED
        BY <1>6, <2>0
    <2>2. outgoing[n][lane] # << >> /\ outgoing' = [outgoing EXCEPT ![n][lane] = Tail(@)]
      BY DEF OnAir
    <2> HIDE DEF P
    <2>3. Tail(outgoing[n][lane]) \in Seq(P)
      BY <2>1, <2>2
    <2>4. outgoing' \in [Nodes -> [Lanes -> Seq(P)]]
      BY <2>1, <2>2, <2>3
    <2> QED
      BY <2>4 DEF P
  <1>9. CountersTyped'
    BY DEF OnAir, SyncIInv, CountersTyped
  <1> QED
    BY <1>2, <1>3, <1>5, <1>7, <1>8, <1>9 DEF SyncIInv, OnlyFrom

\* A boot keeps the messages and starts with an empty window and no counts.
LEMMA BootedIsClean ==
    ASSUME NEW n \in Nodes, NEW G \in SUBSET Message, NEW kept \in Seq(Own(n, G))
    PROVE  Booted(kept) \in Clean(n, G) /\ Booted(kept).messages = kept
  <1>1. kept \in Seq(Message)
    <2>1. Own(n, G) \subseteq Message
      BY DEF Own
    <2> QED
      BY <2>1
  <1>2. NoImports \in [Nodes -> [Ids -> Nat]] /\ \A s \in Nodes, i \in Ids : NoImports[s][i] = 0
    BY DEF NoImports
  <1>3. /\ Booted(kept).messages = kept /\ Booted(kept).imports = NoImports
        /\ Booted(kept).clock = [synced |-> FALSE, epoch |-> 0, dist |-> 0]
    BY DEF Booted
  <1>4. [s \in Nodes |-> [top |-> 0, ids |-> {}]] \in [Nodes -> Window]
    BY DEF Window
  <1>5. << >> \in Seq(Packets)
    OBVIOUS
  <1>6. Booted(kept) \in NodeState
    BY <1>1, <1>2, <1>4, <1>5 DEF Booted, NodeState
  <1>7. WindowGuards(Booted(kept))
    BY <1>2, <1>3 DEF WindowGuards
  <1> QED
    BY <1>3, <1>6, <1>7 DEF Clean

\* A restart forgets windows, clock and answers.
LEMMA RebootKeeps ==
    ASSUME SyncIInv, NEW n \in Nodes, Reboot(n)
    PROVE  SyncIInv'
  <1> DEFINE st == Booted(node[n].messages)
  <1>1. PICK G \in SUBSET Message : G = Genuine
    BY DEF Genuine
  <1>2. /\ node \in [Nodes -> NodeState] /\ \A k \in Nodes : node[k] \in Clean(k, G)
        /\ responding \in [Nodes -> Answers(G)]
        /\ outgoing \in [Nodes -> [Lanes -> Seq(GenuinePackets(G))]]
    BY <1>1 DEF SyncIInv, OnlyFrom
  <1>3. st \in Clean(n, G) /\ st.messages = node[n].messages
    BY <1>2, BootedIsClean DEF Clean
  <1>4. /\ node' = [node EXCEPT ![n] = st]
        /\ responding' = [responding EXCEPT ![n] = Idle]
        /\ outgoing' = [outgoing EXCEPT ![n]["direct"] = << >>]
    BY <1>2 DEF Reboot
  <1> HIDE DEF st
  <1>5. Genuine' = Genuine
    BY <1>2, <1>3, <1>4, SameMessages
  <1>6. node' \in [Nodes -> NodeState] /\ \A k \in Nodes : node'[k] \in Clean(k, G)
    BY <1>2, <1>3, <1>4, OneNodeChanges
  <1>7. << >> \in Seq(G) /\ << >> \in Seq(GenuinePackets(G)) /\ "direct" \in Lanes
    BY DEF Lanes
  <1>8. Idle \in Answers(G)
    BY <1>7 DEF Idle, Answers
  <1>9. responding' \in [Nodes -> Answers(G)]
    BY <1>2, <1>4, <1>8
  <1>10. outgoing' \in [Nodes -> [Lanes -> Seq(GenuinePackets(G))]]
    BY <1>2, <1>4, <1>7
  <1>11. CountersTyped'
    BY DEF Reboot, SyncIInv, CountersTyped
  <1> QED
    BY <1>1, <1>5, <1>6, <1>9, <1>10, <1>11 DEF SyncIInv, OnlyFrom

\* Nothing is stored or on its way at the start.
LEMMA SyncInitially == SyncInit => SyncIInv
  <1> SUFFICES ASSUME SyncInit PROVE SyncIInv
    OBVIOUS
  <1>1. PICK G \in SUBSET Message : G = Genuine
    BY DEF Genuine
  <1>2. << >> \in Seq(G) /\ << >> \in Seq(GenuinePackets(G))
    OBVIOUS
  <1>3. \A n \in Nodes : Booted(<< >>) \in Clean(n, G)
    <2>1. \A n \in Nodes : << >> \in Seq(Own(n, G))
      OBVIOUS
    <2> QED
      BY <2>1, BootedIsClean
  <1>4. /\ node = [n \in Nodes |-> Booted(<< >>)]
        /\ responding = [n \in Nodes |-> Idle] /\ outgoing = [n \in Nodes |-> NoPackets]
    BY DEF SyncInit
  <1>5. node \in [Nodes -> NodeState] /\ \A n \in Nodes : node[n] \in Clean(n, G)
    BY <1>3, <1>4 DEF Clean
  <1>6. responding \in [Nodes -> Answers(G)]
    BY <1>2, <1>4 DEF Idle, Answers
  <1>7. outgoing \in [Nodes -> [Lanes -> Seq(GenuinePackets(G))]]
    BY <1>2, <1>4 DEF NoPackets
  <1>8. CountersTyped
    BY DEF SyncInit, CountersTyped
  <1> QED
    BY <1>1, <1>5, <1>6, <1>7, <1>8 DEF SyncIInv, OnlyFrom

\* Whether a radio is transmitting or a node is out of range is nothing to it.
LEMMA NoMailMoves ==
    ASSUME SyncIInv, UNCHANGED <<sequence_counter, packet_ctr, node, responding, outgoing>>
    PROVE  SyncIInv'
  <1>1. Genuine' = Genuine
    BY DEF Genuine
  <1> QED
    BY <1>1 DEF SyncIInv, OnlyFrom, CountersTyped

\* Every step keeps the invariant.
LEMMA SyncStepKeeps == SyncIInv /\ [SyncNext]_syncVars => SyncIInv'
  <1> SUFFICES ASSUME SyncIInv, [SyncNext]_syncVars PROVE SyncIInv'
    OBVIOUS
  <1>1. CASE UNCHANGED syncVars
    BY <1>1, NoMailMoves DEF syncVars
  <1>2. CASE Work
    <2>1. CASE \E n \in Nodes, lane \in Lanes : lora_tx_task(n, lane)
      BY <2>1, NoMailMoves DEF lora_tx_task
    <2> QED
      BY <1>2, <2>1, ResponseTaskKeeps, SendBatchKeeps, OnAirKeeps DEF Work
  <1>3. CASE \E letter \in Mail : HasIds(letter[1]) /\ queue_message(letter[1], letter[2], letter[3])
    BY <1>3, QueueMessageKeeps
  <1>4. CASE \E n \in Requesters : HasIds(n) /\ mesh_control_send_sync_request(n)
    BY <1>4, SyncAssumption, SyncRequestKeeps
  <1>5. CASE \E n \in Portals, epoch \in Clocks : HasIds(n) /\ http_time_handler(n, epoch)
    BY <1>5, HttpTimeKeeps
  <1>6. CASE \E n \in Nodes : HasIds(n) /\ mesh_control_broadcast_time_sync_if_synced(n)
    BY <1>6, BroadcastTimeKeeps
  <1>7. CASE \E n \in Nodes : Leaves(n) \/ Returns(n) \/ Reboot(n)
    <2>1. CASE \E n \in Nodes : Leaves(n) \/ Returns(n)
      BY <2>1, NoMailMoves DEF Leaves, Returns
    <2> QED
      BY <1>7, <2>1, RebootKeeps
  <1> QED
    BY <1>1, <1>2, <1>3, <1>4, <1>5, <1>6, <1>7 DEF SyncNext

\* The invariant holds throughout.
LEMMA SyncInductive == SyncSpec => []SyncIInv
  BY SyncInitially, SyncStepKeeps, PTL DEF SyncSpec

-----------------------------------------------------------------------------
(* The theorems                                                            *)

\* However often a message comes, by itself, in answers of several nodes or in
\* answers to overlapping requests, a node stores it once in a boot: what it
\* has stored its replay window does not let in again.
THEOREM MailIsImportedOnce == SyncSpec => []ImportedOnce
  <1>1. SyncIInv => ImportedOnce
    <2> SUFFICES ASSUME SyncIInv, NEW n \in Nodes, NEW s \in Nodes, NEW i \in Ids
                 PROVE  node[n].imports[s][i] <= 1
      BY DEF ImportedOnce
    <2>1. node[n].imports[s][i] = 0 \/ node[n].imports[s][i] = 1
      BY DEF SyncIInv, OnlyFrom, Clean, WindowGuards
    <2> QED
      BY <2>1
  <1> QED
    BY <1>1, SyncInductive, PTL

\* A node stores from the air only what is addressed to it and what the node it
\* names has written, though every node in range takes every answer apart.
THEOREM MailIsOwn == SyncSpec => []OnlyOwnMail
  <1>1. SyncIInv => OnlyOwnMail
    <2> SUFFICES ASSUME SyncIInv, NEW n \in Nodes, NEW m \in ToSet(node[n].messages), m.source # n
                 PROVE  m.destination = n /\ m \in ToSet(node[m.source].messages)
      BY DEF OnlyOwnMail
    <2>1. node[n].messages \in Seq(Own(n, Genuine))
      BY DEF SyncIInv, OnlyFrom, Clean
    <2>2. m \in Own(n, Genuine)
      BY <2>1 DEF ToSet
    <2> QED
      BY <2>2 DEF Own, Genuine
  <1> QED
    BY <1>1, SyncInductive, PTL

\* What a packet from the air does to a clock that is set: nothing.
LEMMA ClockStays ==
    ASSUME SyncIInv, [SyncNext]_syncVars, NEW n \in Nodes \ Portals,
           node[n].clock.synced, node'[n].clock.synced
    PROVE  node'[n].clock = node[n].clock
  <1>0. node \in [Nodes -> NodeState]
    BY DEF SyncIInv, OnlyFrom
  <1>1. CASE UNCHANGED node
    BY <1>1
  <1>2. CASE \E k \in Nodes, lane \in Lanes : OnAir(k, lane)
    <2>1. PICK G \in SUBSET Message : G = Genuine
      BY DEF Genuine
    <2>2. node'[n] \in Later(n, G, node[n])
      BY <1>2, <2>1, OnAirLater
    <2> QED
      BY <2>2 DEF Later
  <1>3. CASE \E k \in Nodes : sync_response_task(k)
    BY <1>0, <1>3 DEF sync_response_task, NodeState
  <1>4. CASE \E letter \in Mail : queue_message(letter[1], letter[2], letter[3])
    BY <1>0, <1>4 DEF queue_message, NodeState
  <1>5. CASE \E k \in Portals, epoch \in Clocks : http_time_handler(k, epoch)
    BY <1>0, <1>5 DEF http_time_handler
  <1>6. CASE \E k \in Nodes : Reboot(k)
    <2>1. PICK k \in Nodes : node' = [node EXCEPT ![k] = Booted(node[k].messages)]
      BY <1>0, <1>6 DEF Reboot
    <2>2. ~Booted(node[k].messages).clock.synced
      BY DEF Booted
    <2>3. k # n
      BY <1>0, <2>1, <2>2
    <2> QED
      BY <1>0, <2>1, <2>3
  <1>7. \/ UNCHANGED node
        \/ \E k \in Nodes, lane \in Lanes : OnAir(k, lane)
        \/ \E k \in Nodes : sync_response_task(k) \/ Reboot(k)
        \/ \E letter \in Mail : queue_message(letter[1], letter[2], letter[3])
        \/ \E k \in Portals, epoch \in Clocks : http_time_handler(k, epoch)
    <2>1. CASE Work
      BY <2>1 DEF Work, SendBatch, lora_tx_task
    <2>2. CASE \E k \in Nodes : Leaves(k) \/ Returns(k)
      BY <2>2 DEF Leaves, Returns
    <2> QED
      BY <2>1, <2>2 DEF SyncNext, mesh_control_send_sync_request,
                        mesh_control_broadcast_time_sync_if_synced, syncVars
  <1> QED
    BY <1>1, <1>2, <1>3, <1>4, <1>5, <1>6, <1>7

\* A clock that is set changes only at the node's own portal: every distance
\* on the air is 0, and 0 is never nearer than that of a clock that is set.
THEOREM ClockIsKept == SyncSpec => FirstClockWins
  <1>1. SyncIInv /\ [SyncNext]_syncVars =>
           [\A n \in Nodes \ Portals :
              node[n].clock.synced /\ node'[n].clock.synced => node'[n].clock = node[n].clock]_syncVars
    BY ClockStays
  <1> QED
    BY <1>1, SyncInductive, PTL DEF SyncSpec, FirstClockWins
=============================================================================
