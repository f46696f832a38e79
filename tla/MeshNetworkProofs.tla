------------------------- MODULE MeshNetworkProofs -------------------------
(***************************************************************************)
(* The promises of the network, for any number of nodes, any topology, any *)
(* hop budget and any number of messages, retransmissions and reboots.     *)
(***************************************************************************)
EXTENDS MeshNetwork, LoopTheorems

-----------------------------------------------------------------------------
(* The inductive invariant                                                 *)

\* A packet as it may be around: a message was sent by its source and has
\* paid for each hop; an ACK answers a message its source accepted; and the
\* source is as near to the last relay as path_hops says.
Sent(p) == \E m \in outbox[p.source] : m.id = p.id /\ m.destination = p.destination

Honest(p) ==
    /\ p.acknowledged_source = p.destination
    /\ <<"MSG", p.destination, p.acknowledged_id>> \in received[p.source]
    /\ \E m \in outbox[p.destination] : m.id = p.acknowledged_id /\ m.destination = p.source

Sound(p) ==
    /\ p.type = "MSG" => Sent(p) /\ p.hops + p.path_hops = DEFAULT_HOPS
    /\ p.type = "ACK" => Honest(p) /\ p.hops + p.path_hops <= DEFAULT_HOPS + 1
    /\ p.source \in Within(p.path_hops - 1, p.relay)

AirIsSound == \A x \in air : Sound(x[1]) /\ x[2] \in Neighbours(x[1].relay)

JobsAreSound ==
    \A n \in Nodes : \A job \in jobs[n] :
        Sound(job.packet) /\ job.packet.relay \in Neighbours(n) \cup {n}

\* A packet that waits to be relayed was accepted, is not relayed yet, and
\* waits once.
JobsAreFresh ==
    \A n \in Nodes : \A job \in jobs[n] : job.packet.source # n =>
        /\ Key(job.packet) \in accepted[n]
        /\ relayed[n][Key(job.packet)] = 0
        /\ \A other \in jobs[n] : Key(other.packet) = Key(job.packet) => other = job

RelayedIsSeen ==
    \A n \in Nodes, k \in Nodes \X Ids :
        relayed[n][k] <= 1 /\ (relayed[n][k] = 1 => k \in accepted[n])

MeshIInv ==
    /\ MeshTypeOK /\ AirIsSound /\ JobsAreSound
    /\ JobsAreFresh /\ RelayedIsSeen /\ RouteIsReal

-----------------------------------------------------------------------------
(* Ways and packets                                                        *)

\* Who hears a node is heard by it.
LEMMA NeighboursSymmetric ==
    ASSUME NEW n \in Nodes, NEW m \in Neighbours(n)
    PROVE  m \in Nodes /\ n \in Neighbours(m)
  <1>1. {n, m} = {m, n}
    OBVIOUS
  <1> QED
    BY <1>1 DEF Neighbours

\* A node is no hop away from itself.
LEMMA WithinZero == ASSUME NEW n \in Nodes PROVE n \in Within(0, n)
  <1> DEFINE way == [i \in 0 .. 0 |-> n]
  <1>1. way \in [0 .. 0 -> Nodes] /\ way[0] = n /\ \A i \in 1 .. 0 : FALSE
    OBVIOUS
  <1> QED
    BY <1>1 DEF Within

\* One more transmission, from n to a neighbour or to itself.
LEMMA WithinStep ==
    ASSUME NEW n \in Nodes, NEW m \in Nodes, m \in Neighbours(n) \cup {n},
           NEW k \in Nat, NEW s \in Within(k, m)
    PROVE  s \in Within(k + 1, n)
  <1>1. PICK way \in [0 .. k -> Nodes] :
            /\ way[0] = m /\ way[k] = s
            /\ \A i \in 1 .. k : way[i] \in Neighbours(way[i - 1]) \cup {way[i - 1]}
    BY DEF Within
  <1> DEFINE longer == [i \in 0 .. k + 1 |-> IF i = 0 THEN n ELSE way[i - 1]]
  <1>2. longer \in [0 .. k + 1 -> Nodes] /\ longer[0] = n /\ longer[k + 1] = s
    BY <1>1
  <1>3. ASSUME NEW i \in 1 .. k + 1
        PROVE  longer[i] \in Neighbours(longer[i - 1]) \cup {longer[i - 1]}
    <2>1. CASE i = 1
      BY <2>1, <1>1
    <2>2. CASE i > 1
      <3>1. i - 1 \in 1 .. k /\ longer[i] = way[i - 1] /\ longer[i - 1] = way[i - 1 - 1]
        BY <2>2
      <3> QED
        BY <3>1, <1>1
    <2> QED
      BY <2>1, <2>2
  <1> QED
    BY <1>2, <1>3 DEF Within

-----------------------------------------------------------------------------
(* What the parts of a step preserve                                       *)

\* No message is forgotten by its sender, and no reception by the history.
Keeps ==
    /\ \A n \in Nodes : \A m \in outbox[n] :
           \E k \in outbox'[n] : k.id = m.id /\ k.destination = m.destination
    /\ \A n \in Nodes : received[n] \subseteq received'[n]

\* A sound ACK names a node and an id.
LEMMA HonestTyped ==
    ASSUME MeshTypeOK, NEW p \in Packet, p.type = "ACK", Sound(p)
    PROVE  p.destination \in Nodes /\ p.acknowledged_id \in Ids
  <1>1. p.destination \in Nodes
    BY MeshAssumption DEF Sound, Honest, Packet
  <1>2. PICK m \in outbox[p.destination] : m.id = p.acknowledged_id
    BY DEF Sound, Honest
  <1> QED
    BY <1>1, <1>2 DEF MeshTypeOK, Entry

\* What was true of a packet stays true: ids only grow, and what was received stays so.
LEMMA SoundStays ==
    ASSUME MeshTypeOK, Keeps, NEW p \in Packet, Sound(p)
    PROVE  Sound(p)'
  <1>1. ASSUME p.type = "MSG" PROVE Sent(p)'
    BY <1>1 DEF Sound, Sent, Keeps, Packet
  <1>2. ASSUME p.type = "ACK" PROVE Honest(p)'
    BY <1>2, HonestTyped DEF Sound, Honest, Keeps, Packet
  <1> QED
    BY <1>1, <1>2 DEF Sound

\* Packets that are heard or lost leave the others sound.
LEMMA AirStays ==
    ASSUME MeshTypeOK, AirIsSound, Keeps, air' \subseteq air
    PROVE  AirIsSound' /\ air' \in SUBSET (Packet \X Nodes)
  <1>1. ASSUME NEW x \in air' PROVE Sound(x[1])' /\ x[2] \in Neighbours(x[1].relay)
    <2>1. x \in air /\ x[1] \in Packet
      BY <1>1 DEF MeshTypeOK
    <2> QED
      BY <2>1, SoundStays DEF AirIsSound
  <1> QED
    BY <1>1 DEF AirIsSound, MeshTypeOK

\* A sound packet on the air reaches neighbours of its sender only.
LEMMA TransmitSound ==
    ASSUME MeshTypeOK, AirIsSound, Keeps, NEW n \in Nodes, NEW p \in Packet, p.relay = n,
           Sound(p)', Transmit(n, p, air)
    PROVE  AirIsSound' /\ air' \in SUBSET (Packet \X Nodes)
  <1>1. PICK receivers \in SUBSET Neighbours(n) : air' = air \cup {<<p, m>> : m \in receivers}
    BY DEF Transmit
  <1>2. Neighbours(n) \subseteq Nodes
    BY DEF Neighbours
  <1>3. ASSUME NEW x \in air' PROVE Sound(x[1])' /\ x[2] \in Neighbours(x[1].relay)
    <2>1. CASE x \in air
      <3>1. x[1] \in Packet
        BY <2>1 DEF MeshTypeOK
      <3> QED
        BY <2>1, <3>1, SoundStays DEF AirIsSound
    <2>2. CASE \E m \in receivers : x = <<p, m>>
      BY <2>2
    <2> QED
      BY <1>1, <2>1, <2>2
  <1>4. air' \in SUBSET (Packet \X Nodes)
    BY <1>1, <1>2 DEF MeshTypeOK
  <1> QED
    BY <1>3, <1>4 DEF AirIsSound

\* Jobs that are taken leave the others sound.
LEMMA JobsStay ==
    ASSUME MeshTypeOK, JobsAreSound, Keeps, \A n \in Nodes : jobs'[n] \subseteq jobs[n]
    PROVE  JobsAreSound'
  <1>1. ASSUME NEW n \in Nodes, NEW job \in jobs'[n]
        PROVE  Sound(job.packet)' /\ job.packet.relay \in Neighbours(n) \cup {n}
    <2>1. job \in jobs[n] /\ job.packet \in Packet
      BY <1>1 DEF MeshTypeOK, Job
    <2> QED
      BY <2>1, SoundStays DEF JobsAreSound
  <1> QED
    BY <1>1 DEF JobsAreSound

\* A route learnt from a packet leads to its source.
LEMMA LearnIsReal ==
    ASSUME MeshTypeOK, RouteIsReal, NEW n \in Nodes, NEW p \in Packet, Sound(p),
           n \in Neighbours(p.relay), LearnRoute(n, p)
    PROVE  RouteIsReal' /\ routes' \in [Nodes -> SUBSET Route]
  <1> DEFINE old == {r \in routes[n] : r.destination = p.source /\ r.next_hop = p.relay}
             counts == {p.path_hops} \cup {r.hop_count : r \in old}
             new == [destination |-> p.source, next_hop |-> p.relay, hop_count |-> Min(counts)]
  <1>1. p.source \in Nodes /\ p.relay \in Nodes /\ p.relay \in Neighbours(n)
    BY NeighboursSymmetric DEF Packet
  <1>2. counts \subseteq 1 .. DEFAULT_HOPS + 1
    BY DEF MeshTypeOK, Route, Packet
  <1>3. Min(counts) \in counts
    <2>1. counts \in SUBSET Nat /\ counts # {}
      BY <1>2
    <2> HIDE DEF counts
    <2> QED
      BY <2>1, MinIsLeast
  <1>4. routes' = [routes EXCEPT ![n] = (routes[n] \ old) \cup {new}]
    BY DEF LearnRoute
  <1>5. new \in Route
    BY <1>1, <1>2, <1>3 DEF Route
  <1>6. new.next_hop \in Neighbours(n) /\ new.destination \in Within(new.hop_count - 1, new.next_hop)
    <2>1. CASE Min(counts) = p.path_hops
      BY <1>1, <2>1 DEF Sound
    <2>2. CASE \E r \in old : Min(counts) = r.hop_count
      BY <1>1, <2>2 DEF RouteIsReal
    <2> QED
      BY <1>3, <2>1, <2>2
  <1> HIDE DEF old, new
  <1>7. routes' \in [Nodes -> SUBSET Route]
    BY <1>4, <1>5 DEF MeshTypeOK
  <1>8. ASSUME NEW m \in Nodes, NEW r \in routes'[m]
        PROVE  r.next_hop \in Neighbours(m) /\ r.destination \in Within(r.hop_count - 1, r.next_hop)
    <2>1. CASE r \in routes[m]
      BY <2>1 DEF RouteIsReal
    <2>2. CASE m = n /\ r = new
      BY <2>2, <1>6
    <2> QED
      BY <1>4, <2>1, <2>2 DEF MeshTypeOK
  <1> QED
    BY <1>7, <1>8 DEF RouteIsReal

\* A next hop is a node, or none is known.
LEMMA BestRouteTyped ==
    ASSUME NEW table \in SUBSET Route, NEW d, NEW via \in BestNextHops(table, d)
    PROVE  via \in Nodes \cup {Nobody}
  BY DEF BestNextHops, Route

-----------------------------------------------------------------------------
(* One lemma per action                                                    *)

\* Nothing has been sent at the start.
LEMMA Initially == MeshInit => MeshIInv
  BY MeshAssumption
  DEF MeshInit, MeshIInv, MeshTypeOK, AirIsSound, JobsAreSound, JobsAreFresh, RelayedIsSeen,
      RouteIsReal

\* What a source sends is a packet.
LEMMA MessagePacketTyped ==
    ASSUME NEW n \in Nodes, NEW id \in Ids, NEW d \in Nodes \cup {ALL},
           NEW via \in Nodes \cup {Nobody}
    PROVE  MessagePacket(n, id, d, via) \in Packet
  BY MeshAssumption DEF MessagePacket, Packet

\* A message whose record is in the outbox may be sent.
LEMMA MessagePacketSound ==
    ASSUME NEW n \in Nodes, NEW id \in Ids, NEW d \in Nodes \cup {ALL}, NEW via,
           \E m \in outbox'[n] : m.id = id /\ m.destination = d
    PROVE  Sound(MessagePacket(n, id, d, via))'
  BY MeshAssumption, WithinZero DEF MessagePacket, Sound, Sent

\* A new message has an id nobody has seen.
LEMMA SendMessagePreserves ==
    ASSUME MeshIInv, NEW n \in Nodes, NEW d \in Nodes \cup {ALL}, SendMessage(n, d)
    PROVE  MeshIInv'
  <1>1. PICK id \in Ids : id = seq[n] + 1
    BY MeshAssumption DEF SendMessage, MeshIInv, MeshTypeOK, Ids
  <1> DEFINE new == [id |-> id, destination |-> d, attempts |-> 1, status |-> "SENT"]
  <1>2. outbox' = [outbox EXCEPT ![n] = @ \cup {new}] /\ new \in Entry
    BY <1>1, MeshAssumption DEF SendMessage, Entry
  <1>3. Keeps
    BY <1>2 DEF Keeps, SendMessage, history, MeshIInv, MeshTypeOK
  <1>4. PICK via \in BestNextHops(routes[n], d) :
            Transmit(n, MessagePacket(n, id, d, via), air)
    BY <1>1 DEF SendMessage
  <1>5. via \in Nodes \cup {Nobody}
    BY BestRouteTyped DEF MeshIInv, MeshTypeOK
  <1>6. Sound(MessagePacket(n, id, d, via))'
    <2>1. new \in outbox'[n] /\ new.id = id /\ new.destination = d
      BY <1>2 DEF MeshIInv, MeshTypeOK
    <2> QED
      BY <2>1, MessagePacketSound
  <1>7. AirIsSound' /\ air' \in SUBSET (Packet \X Nodes)
    <2>1. MessagePacket(n, id, d, via) \in Packet
      BY <1>1, <1>5, MessagePacketTyped
    <2>2. MessagePacket(n, id, d, via).relay = n
      BY DEF MessagePacket
    <2> QED
      BY <1>3, <1>4, <1>6, <2>1, <2>2, TransmitSound DEF MeshIInv
  <1>8. JobsAreSound'
    BY <1>3, JobsStay DEF MeshIInv, SendMessage
  <1>9. MeshTypeOK'
    <2>1. outbox' \in [Nodes -> SUBSET Entry]
      BY <1>2 DEF MeshIInv, MeshTypeOK
    <2>2. seq' \in [Nodes -> 0 .. MaxId]
      BY <1>1 DEF MeshIInv, MeshTypeOK, SendMessage, Ids
    <2> QED
      BY <1>7, <2>1, <2>2 DEF MeshIInv, MeshTypeOK, SendMessage, history
  <1> QED
    BY <1>7, <1>8, <1>9
    DEF MeshIInv, JobsAreFresh, RelayedIsSeen, RouteIsReal, SendMessage, history

\* A message sent again is the message that was sent.
LEMMA RetransmitPreserves ==
    ASSUME MeshIInv, NEW n \in Nodes, NEW m \in outbox[n], Retransmit(n, m)
    PROVE  MeshIInv'
  <1> DEFINE new == [m EXCEPT !.attempts = @ + 1]
  <1>1. /\ m.id \in Ids /\ m.destination \in Nodes \cup {ALL} /\ m.attempts + 1 \in 0 .. MaxAttempts
        /\ new.id = m.id /\ new.destination = m.destination
        /\ new \in Entry
    BY MeshAssumption DEF Retransmit, MeshIInv, MeshTypeOK, Entry
  <1>2. outbox' = [outbox EXCEPT ![n] = (@ \ {m}) \cup {new}]
    BY DEF Retransmit
  <1> HIDE DEF new
  <1>3. Keeps
    <2>1. ASSUME NEW o \in Nodes, NEW x \in outbox[o]
          PROVE  \E k \in outbox'[o] : k.id = x.id /\ k.destination = x.destination
      <3>1. CASE o = n /\ x = m
        BY <3>1, <1>1, <1>2 DEF MeshIInv, MeshTypeOK
      <3>2. CASE ~(o = n /\ x = m)
        BY <3>2, <1>2 DEF MeshIInv, MeshTypeOK
      <3> QED
        BY <3>1, <3>2
    <2> QED
      BY <2>1 DEF Keeps, Retransmit, history
  <1>4. PICK via \in BestNextHops(routes[n], m.destination) :
            Transmit(n, MessagePacket(n, m.id, m.destination, via), air)
    BY DEF Retransmit
  <1>5. via \in Nodes \cup {Nobody}
    BY BestRouteTyped DEF MeshIInv, MeshTypeOK
  <1>6. Sound(MessagePacket(n, m.id, m.destination, via))'
    BY <1>1, <1>2, MessagePacketSound DEF MeshIInv, MeshTypeOK
  <1>7. AirIsSound' /\ air' \in SUBSET (Packet \X Nodes)
    BY <1>1, <1>3, <1>4, <1>5, <1>6, MessagePacketTyped, TransmitSound
    DEF MeshIInv, MessagePacket
  <1>8. JobsAreSound'
    BY <1>3, JobsStay DEF MeshIInv, Retransmit
  <1>9. MeshTypeOK'
    <2>1. outbox' \in [Nodes -> SUBSET Entry]
      BY <1>1, <1>2 DEF MeshIInv, MeshTypeOK
    <2> QED
      BY <1>7, <2>1 DEF MeshIInv, MeshTypeOK, Retransmit, history
  <1> QED
    BY <1>7, <1>8, <1>9
    DEF MeshIInv, JobsAreFresh, RelayedIsSeen, RouteIsReal, Retransmit, history

\* Giving up a message says nothing new of any packet.
LEMMA GiveUpPreserves ==
    ASSUME MeshIInv, NEW n \in Nodes, NEW m \in outbox[n], GiveUp(n, m)
    PROVE  MeshIInv'
  <1> DEFINE new == [m EXCEPT !.status = "FAILED"]
  <1>1. /\ new.id = m.id /\ new.destination = m.destination
        /\ new \in Entry
    <2>1. m \in Entry
      BY DEF MeshIInv, MeshTypeOK
    <2> QED
      BY <2>1 DEF Entry
  <1>2. outbox' = [outbox EXCEPT ![n] = (@ \ {m}) \cup {new}]
    BY DEF GiveUp
  <1> HIDE DEF new
  <1>3. Keeps
    <2>1. ASSUME NEW o \in Nodes, NEW x \in outbox[o]
          PROVE  \E k \in outbox'[o] : k.id = x.id /\ k.destination = x.destination
      <3>1. CASE o = n /\ x = m
        BY <3>1, <1>1, <1>2 DEF MeshIInv, MeshTypeOK
      <3>2. CASE ~(o = n /\ x = m)
        BY <3>2, <1>2 DEF MeshIInv, MeshTypeOK
      <3> QED
        BY <3>1, <3>2
    <2> QED
      BY <2>1 DEF Keeps, GiveUp, history
  <1>4. AirIsSound' /\ JobsAreSound'
    BY <1>3, AirStays, JobsStay DEF MeshIInv, GiveUp
  <1>5. MeshTypeOK'
    <2>1. outbox' \in [Nodes -> SUBSET Entry]
      BY <1>1, <1>2 DEF MeshIInv, MeshTypeOK
    <2> QED
      BY <2>1 DEF MeshIInv, MeshTypeOK, GiveUp, history
  <1> QED
    BY <1>4, <1>5
    DEF MeshIInv, JobsAreFresh, RelayedIsSeen, RouteIsReal, GiveUp, history

\* A route less is no wrong route.
LEMMA RouteExpiresPreserves ==
    ASSUME MeshIInv, NEW n \in Nodes, NEW r \in routes[n], RouteExpires(n, r)
    PROVE  MeshIInv'
  <1>1. Keeps
    BY DEF Keeps, RouteExpires, history
  <1>2. AirIsSound' /\ JobsAreSound'
    BY <1>1, AirStays, JobsStay DEF MeshIInv, RouteExpires
  <1>3. MeshTypeOK' /\ RouteIsReal'
    BY DEF MeshIInv, MeshTypeOK, RouteIsReal, RouteExpires, history
  <1> QED
    BY <1>2, <1>3 DEF MeshIInv, JobsAreFresh, RelayedIsSeen, RouteExpires, history

\* A node that restarts forgets what it has heard, and keeps its counter.
LEMMA RebootPreserves ==
    ASSUME MeshIInv, NEW n \in Nodes, Reboot(n)
    PROVE  MeshIInv'
  <1> DEFINE Again(m) == IF m.status = "SENT" THEN [m EXCEPT !.attempts = 0] ELSE m
  <1>1. outbox' = [outbox EXCEPT ![n] = {Again(m) : m \in @}]
    BY DEF Reboot
  <1>2. \A m \in Entry : /\ Again(m).id = m.id /\ Again(m).destination = m.destination
                         /\ Again(m) \in Entry
    BY MeshAssumption DEF Entry
  <1> HIDE DEF Again
  <1>3. Keeps
    <2>1. ASSUME NEW o \in Nodes, NEW x \in outbox[o]
          PROVE  \E k \in outbox'[o] : k.id = x.id /\ k.destination = x.destination
      <3>1. x \in Entry
        BY DEF MeshIInv, MeshTypeOK
      <3>2. CASE o = n
        BY <1>1, <1>2, <3>1, <3>2 DEF MeshIInv, MeshTypeOK
      <3>3. CASE o # n
        BY <1>1, <3>3 DEF MeshIInv, MeshTypeOK
      <3> QED
        BY <3>2, <3>3
    <2> QED
      BY <2>1 DEF Keeps, Reboot
  <1>4. AirIsSound' /\ JobsAreSound'
    BY <1>3, AirStays, JobsStay DEF MeshIInv, MeshTypeOK, Reboot
  <1>5. MeshTypeOK'
    <2>1. outbox' \in [Nodes -> SUBSET Entry]
      BY <1>1, <1>2 DEF MeshIInv, MeshTypeOK
    <2> QED
      BY <2>1, MeshAssumption DEF MeshIInv, MeshTypeOK, Reboot
  <1>6. JobsAreFresh'
    BY DEF MeshIInv, MeshTypeOK, JobsAreFresh, Reboot
  <1>7. RelayedIsSeen' /\ RouteIsReal'
    BY DEF MeshIInv, MeshTypeOK, RelayedIsSeen, RouteIsReal, Reboot
  <1> QED
    BY <1>4, <1>5, <1>6, <1>7 DEF MeshIInv

-----------------------------------------------------------------------------
(* The receive handler                                                     *)

\* What a node hears was sent by a neighbour, and is sound.
LEMMA HeardPacket ==
    ASSUME MeshIInv, NEW n, NEW p, <<p, n>> \in air
    PROVE  p \in Packet /\ n \in Nodes /\ Sound(p) /\ n \in Neighbours(p.relay)
  <1>1. <<p, n>>[1] = p /\ <<p, n>>[2] = n
    OBVIOUS
  <1> QED
    BY <1>1, Zenon DEF MeshIInv, MeshTypeOK, AirIsSound

\* A packet is known by its source and its id.
LEMMA KeyTyped == ASSUME NEW p \in Packet PROVE Key(p) \in Nodes \X Ids
  BY DEF Key, Packet

\* What is queued and relayed stays seen when more is.
LEMMA TakePacketStays ==
    ASSUME MeshIInv, NEW n \in Nodes, NEW p \in Packet, TakePacket(n, p)
    PROVE  /\ accepted' \in [Nodes -> SUBSET (Nodes \X Ids)]
           /\ \A m \in Nodes : accepted[m] \subseteq accepted'[m]
           /\ Key(p) \in accepted'[n]
           /\ air' \subseteq air
  BY KeyTyped DEF TakePacket, MeshIInv, MeshTypeOK

\* A packet that is seen as well makes no job stale.
LEMMA FreshStays ==
    ASSUME MeshIInv, UNCHANGED <<jobs, relayed>>, \A m \in Nodes : accepted[m] \subseteq accepted'[m]
    PROVE  JobsAreFresh' /\ RelayedIsSeen'
  BY DEF MeshIInv, JobsAreFresh, RelayedIsSeen

\* A packet of one's own costs an id and is dropped.
LEMMA HearOwnPacketPreserves ==
    ASSUME MeshIInv, NEW n \in Nodes, NEW p, HearOwnPacket(n, p)
    PROVE  MeshIInv'
  <1>1. p \in Packet
    BY HeardPacket DEF HearOwnPacket, TakePacket
  <1>2. Keeps
    BY DEF Keeps, HearOwnPacket, history
  <1>3. AirIsSound' /\ air' \in SUBSET (Packet \X Nodes) /\ JobsAreSound'
    BY <1>1, <1>2, TakePacketStays, AirStays, JobsStay DEF MeshIInv, HearOwnPacket
  <1>4. JobsAreFresh' /\ RelayedIsSeen'
    BY <1>1, TakePacketStays, FreshStays DEF HearOwnPacket, history
  <1>5. MeshTypeOK'
    <2>1. seq' \in [Nodes -> 0 .. MaxId]
      BY MeshAssumption DEF MeshIInv, MeshTypeOK, HearOwnPacket
    <2> QED
      BY <1>1, <1>3, <2>1, TakePacketStays DEF MeshIInv, MeshTypeOK, HearOwnPacket, history
  <1> QED
    BY <1>3, <1>4, <1>5 DEF MeshIInv, RouteIsReal, HearOwnPacket

\* A packet that was accepted before is dropped.
LEMMA RejectReplayPreserves ==
    ASSUME MeshIInv, NEW n \in Nodes, NEW p, RejectReplay(n, p)
    PROVE  MeshIInv'
  <1>1. p \in Packet
    BY HeardPacket DEF RejectReplay, TakePacket
  <1>2. Keeps
    BY DEF Keeps, RejectReplay, history
  <1>3. AirIsSound' /\ air' \in SUBSET (Packet \X Nodes) /\ JobsAreSound'
    BY <1>1, <1>2, TakePacketStays, AirStays, JobsStay DEF MeshIInv, RejectReplay
  <1>4. JobsAreFresh' /\ RelayedIsSeen'
    BY <1>1, TakePacketStays, FreshStays DEF RejectReplay, history
  <1>5. MeshTypeOK'
    BY <1>1, <1>3, TakePacketStays DEF MeshIInv, MeshTypeOK, RejectReplay, history
  <1> QED
    BY <1>3, <1>4, <1>5 DEF MeshIInv, RouteIsReal, RejectReplay

\* A job is added.  What it will relay was accepted just now, if it is not
\* this node's own.
LEMMA EnqueuePreserves ==
    ASSUME MeshIInv, Keeps, NEW n \in Nodes, NEW job \in Job, Enqueue(n, job),
           Sound(job.packet)', job.packet.relay \in Neighbours(n) \cup {n},
           UNCHANGED relayed, \A m \in Nodes : accepted[m] \subseteq accepted'[m],
           \/ job.packet.source = n
           \/ Key(job.packet) \notin accepted[n] /\ Key(job.packet) \in accepted'[n]
    PROVE  /\ jobs' \in [Nodes -> SUBSET Job]
           /\ JobsAreSound' /\ JobsAreFresh' /\ RelayedIsSeen'
  <1>1. /\ jobs' = [jobs EXCEPT ![n] = @ \cup {job}]
        /\ jobs' \in [Nodes -> SUBSET Job]
    BY DEF Enqueue, MeshIInv, MeshTypeOK
  <1>2. ASSUME NEW m \in Nodes, NEW j \in jobs'[m]
        PROVE  Sound(j.packet)' /\ j.packet.relay \in Neighbours(m) \cup {m}
    <2>1. CASE j \in jobs[m]
      <3>1. j.packet \in Packet
        BY <2>1 DEF MeshIInv, MeshTypeOK, Job
      <3> QED
        BY <2>1, <3>1, SoundStays DEF MeshIInv, JobsAreSound
    <2>2. CASE m = n /\ j = job
      BY <2>2
    <2> QED
      BY <1>1, <2>1, <2>2 DEF MeshIInv, MeshTypeOK
  <1>3. ASSUME NEW m \in Nodes, NEW j \in jobs'[m], j.packet.source # m
        PROVE  /\ Key(j.packet) \in accepted'[m]
               /\ relayed'[m][Key(j.packet)] = 0
               /\ \A other \in jobs'[m] : Key(other.packet) = Key(j.packet) => other = j
    <2>0. job.packet \in Packet /\ Key(job.packet) \in Nodes \X Ids
      BY KeyTyped DEF Job
    <2>1. \A k \in jobs[n] : k.packet.source # n => Key(k.packet) \in accepted[n]
      BY DEF MeshIInv, JobsAreFresh
    <2>2. \A k \in jobs'[m] : Key(k.packet) = Key(j.packet) => k.packet.source # m
      BY <1>3 DEF Key
    <2>3. CASE j \in jobs[m]
      <3>1. \A other \in jobs'[m] :
                other \in jobs[m] \/ (m = n /\ other = job)
        BY <1>1 DEF MeshIInv, MeshTypeOK
      <3>2. ~(m = n /\ Key(job.packet) = Key(j.packet))
        BY <1>3, <2>1, <2>3 DEF Key
      <3> QED
        BY <1>3, <2>3, <3>1, <3>2 DEF MeshIInv, JobsAreFresh
    <2>4. CASE m = n /\ j = job /\ j \notin jobs[m]
      <3>1. Key(job.packet) \notin accepted[n] /\ Key(job.packet) \in accepted'[n]
        BY <1>3, <2>4
      <3>2. relayed[n][Key(job.packet)] = 0
        <4>1. PICK k \in Nodes \X Ids : k = Key(job.packet)
          BY <2>0
        <4>2. relayed[n] \in [Nodes \X Ids -> Nat]
          BY DEF MeshIInv, MeshTypeOK
        <4>3. relayed[n][k] \in Nat
          BY <4>2
        <4>4. relayed[n][k] <= 1 /\ relayed[n][k] # 1
          BY <3>1, <4>1 DEF MeshIInv, RelayedIsSeen
        <4> QED
          BY <4>1, <4>3, <4>4
      <3>3. \A other \in jobs'[n] : other \in jobs[n] \/ other = job
        BY <1>1 DEF MeshIInv, MeshTypeOK
      <3> QED
        BY <2>1, <2>2, <2>4, <3>1, <3>2, <3>3
    <2> QED
      BY <1>1, <2>3, <2>4 DEF MeshIInv, MeshTypeOK
  <1>4. RelayedIsSeen'
    BY DEF MeshIInv, RelayedIsSeen
  <1> QED
    BY <1>1, <1>2, <1>3, <1>4 DEF JobsAreSound, JobsAreFresh

\* An ACK is written by the destination that received the message.
LEMMA AckPacketSound ==
    ASSUME MeshIInv, NEW n \in Nodes, NEW p \in Packet, p.type = "MSG", p.destination = n,
           Sound(p), seq[n] < MaxId, Keeps, <<"MSG", p.source, p.id>> \in received'[n],
           NEW ack, ack = AckPacket(n, p)
    PROVE  ack \in Packet /\ Sound(ack)' /\ ack.source = n /\ ack.relay = n
  <1>1. /\ p.source \in Nodes /\ p.id \in Ids /\ p.hops \in 0 .. DEFAULT_HOPS
        /\ seq[n] + 1 \in Ids
    BY MeshAssumption DEF Packet, MeshIInv, MeshTypeOK, Ids
  <1>2. AckHops(p) \in 0 .. DEFAULT_HOPS
    BY <1>1, MeshAssumption DEF AckHops
  <1>3. ack \in Packet
    BY <1>1, <1>2, MeshAssumption DEF AckPacket, Packet
  <1>4. /\ ack.type = "ACK" /\ ack.source = n /\ ack.relay = n /\ ack.destination = p.source
        /\ ack.acknowledged_id = p.id /\ ack.acknowledged_source = p.source
        /\ ack.hops = AckHops(p) /\ ack.path_hops = 1
    BY DEF AckPacket
  <1>5. PICK m \in outbox[p.source] : m.id = p.id /\ m.destination = n
    BY DEF Sound, Sent
  <1>6. \E k \in outbox'[p.source] : k.id = p.id /\ k.destination = n
    BY <1>1, <1>5 DEF Keeps
  <1>7. Honest(ack)'
    BY <1>4, <1>6 DEF Honest
  <1>8. ack.hops + ack.path_hops <= DEFAULT_HOPS + 1
    BY <1>2, <1>4, MeshAssumption
  <1>9. ack.source \in Within(ack.path_hops - 1, ack.relay)
    BY <1>4, WithinZero
  <1> QED
    BY <1>3, <1>4, <1>7, <1>8, <1>9 DEF Sound

\* The destination stores a message and answers it.
LEMMA ReceiveMessagePreserves ==
    ASSUME MeshIInv, NEW n \in Nodes, NEW p, ReceiveMessage(n, p)
    PROVE  MeshIInv'
  <1>1. p \in Packet /\ Sound(p) /\ n \in Neighbours(p.relay)
    BY HeardPacket DEF ReceiveMessage, TakePacket
  <1>2. /\ received' = [received EXCEPT ![n] = @ \cup {<<"MSG", p.source, p.id>>}]
        /\ received' \in [Nodes -> SUBSET ({"MSG", "ACK"} \X Nodes \X Ids)]
    BY <1>1 DEF ReceiveMessage, MeshIInv, MeshTypeOK, Packet
  <1>3. Keeps /\ <<"MSG", p.source, p.id>> \in received'[n]
    BY <1>2 DEF Keeps, ReceiveMessage, MeshIInv, MeshTypeOK
  <1>4. RouteIsReal' /\ routes' \in [Nodes -> SUBSET Route]
    BY <1>1, LearnIsReal DEF ReceiveMessage, MeshIInv
  <1>5. PICK ack, via : /\ ack = AckPacket(n, p) /\ via \in BestNextHops(routes'[n], p.source)
                        /\ Enqueue(n, [packet |-> ack, route |-> via, asked |-> Nobody])
    BY DEF ReceiveMessage
  <1>6. ack \in Packet /\ Sound(ack)' /\ ack.source = n /\ ack.relay = n
    BY <1>1, <1>3, <1>5, AckPacketSound DEF ReceiveMessage
  <1>7. via \in Nodes \cup {Nobody}
    BY <1>4, <1>5, BestRouteTyped
  <1>8. PICK job \in Job : job = [packet |-> ack, route |-> via, asked |-> Nobody]
    BY <1>6, <1>7 DEF Job
  <1>9. TakePacket(n, p)
    BY DEF ReceiveMessage
  <1>10. jobs' \in [Nodes -> SUBSET Job] /\ JobsAreSound' /\ JobsAreFresh' /\ RelayedIsSeen'
    <2>1. Enqueue(n, job) /\ UNCHANGED relayed /\ job.packet = ack
      BY <1>5, <1>8 DEF ReceiveMessage
    <2>2. \A m \in Nodes : accepted[m] \subseteq accepted'[m]
      BY <1>1, <1>9, TakePacketStays
    <2>3. /\ Sound(job.packet)' /\ job.packet.source = n
          /\ job.packet.relay \in Neighbours(n) \cup {n}
      BY <1>6, <2>1
    <2> QED
      BY <1>3, <2>1, <2>2, <2>3, EnqueuePreserves
  <1>11. AirIsSound' /\ air' \in SUBSET (Packet \X Nodes)
    BY <1>1, <1>3, <1>9, TakePacketStays, AirStays DEF MeshIInv
  <1>12. seq' \in [Nodes -> 0 .. MaxId]
    BY MeshAssumption DEF MeshIInv, MeshTypeOK, ReceiveMessage
  <1>13. MeshTypeOK'
    BY <1>1, <1>2, <1>4, <1>9, <1>10, <1>11, <1>12, TakePacketStays
    DEF MeshIInv, MeshTypeOK, ReceiveMessage
  <1> QED
    BY <1>4, <1>10, <1>11, <1>13 DEF MeshIInv

\* tx_scheduler_acknowledge changes the status of messages and nothing else.
LEMMA AcknowledgeKeeps ==
    ASSUME MeshTypeOK, NEW n \in Nodes, NEW id, NEW source,
           tx_scheduler_acknowledge(n, id, source)
    PROVE  /\ outbox' \in [Nodes -> SUBSET Entry]
           /\ \A o \in Nodes : \A x \in outbox[o] :
                  \E k \in outbox'[o] : k.id = x.id /\ k.destination = x.destination
  <1> DEFINE found == {m \in outbox[n] : m.id = id /\ m.destination = source /\ m.status = "SENT"}
             Acked(m) == [m EXCEPT !.status = "ACKED"]
  <1>1. outbox' = [outbox EXCEPT ![n] = (@ \ found) \cup {Acked(m) : m \in found}]
    BY DEF tx_scheduler_acknowledge
  <1>2. \A m \in Entry : /\ Acked(m) \in Entry
                         /\ Acked(m).id = m.id /\ Acked(m).destination = m.destination
    BY DEF Entry
  <1>3. outbox[n] \subseteq Entry /\ found \subseteq outbox[n]
    BY DEF MeshTypeOK
  <1> HIDE DEF found, Acked
  <1>4. outbox' \in [Nodes -> SUBSET Entry]
    BY <1>1, <1>2, <1>3 DEF MeshTypeOK
  <1>5. ASSUME NEW o \in Nodes, NEW x \in outbox[o]
        PROVE  \E k \in outbox'[o] : k.id = x.id /\ k.destination = x.destination
    <2>1. CASE o = n /\ x \in found
      <3>1. Acked(x) \in outbox'[o]
        BY <1>1, <2>1 DEF MeshTypeOK
      <3> QED
        BY <1>2, <1>3, <2>1, <3>1
    <2>2. CASE ~(o = n /\ x \in found)
      BY <1>1, <2>2 DEF MeshTypeOK
    <2> QED
      BY <2>1, <2>2
  <1> QED
    BY <1>4, <1>5

\* The source of a message hears its ACK.
LEMMA ReceiveAckPreserves ==
    ASSUME MeshIInv, NEW n \in Nodes, NEW p, ReceiveAck(n, p)
    PROVE  MeshIInv'
  <1>1. p \in Packet /\ Sound(p) /\ n \in Neighbours(p.relay) /\ TakePacket(n, p)
    BY HeardPacket DEF ReceiveAck, TakePacket
  <1>2. p.acknowledged_id \in Ids /\ p.source \in Nodes
    BY <1>1, HonestTyped DEF ReceiveAck, MeshIInv, Packet
  <1>3. /\ received' = [received EXCEPT ![n] = @ \cup {<<"ACK", p.source, p.acknowledged_id>>}]
        /\ received' \in [Nodes -> SUBSET ({"MSG", "ACK"} \X Nodes \X Ids)]
    BY <1>2 DEF ReceiveAck, MeshIInv, MeshTypeOK
  <1>4. /\ outbox' \in [Nodes -> SUBSET Entry]
        /\ \A o \in Nodes : \A x \in outbox[o] :
               \E k \in outbox'[o] : k.id = x.id /\ k.destination = x.destination
    <2>1. CASE UNCHANGED outbox
      BY <2>1 DEF MeshIInv, MeshTypeOK
    <2>2. CASE tx_scheduler_acknowledge(n, p.acknowledged_id, p.source)
      BY <2>2, AcknowledgeKeeps DEF MeshIInv
    <2> QED
      BY <2>1, <2>2 DEF ReceiveAck
  <1>5. Keeps
    BY <1>3, <1>4 DEF Keeps, MeshIInv, MeshTypeOK
  <1>6. RouteIsReal' /\ routes' \in [Nodes -> SUBSET Route]
    BY <1>1, LearnIsReal DEF ReceiveAck, MeshIInv
  <1>7. AirIsSound' /\ air' \in SUBSET (Packet \X Nodes) /\ JobsAreSound'
    BY <1>1, <1>5, TakePacketStays, AirStays, JobsStay DEF MeshIInv, ReceiveAck
  <1>8. JobsAreFresh' /\ RelayedIsSeen'
    BY <1>1, TakePacketStays, FreshStays DEF ReceiveAck
  <1>9. MeshTypeOK'
    BY <1>1, <1>3, <1>4, <1>6, <1>7, TakePacketStays DEF MeshIInv, MeshTypeOK, ReceiveAck
  <1> QED
    BY <1>6, <1>7, <1>8, <1>9 DEF MeshIInv

\* What is for others, or for all, becomes at most one job.
LEMMA ReceiveForOthersPreserves ==
    ASSUME MeshIInv, NEW n \in Nodes, NEW p, ReceiveForOthers(n, p)
    PROVE  MeshIInv'
  <1>1. /\ p \in Packet /\ Sound(p) /\ n \in Neighbours(p.relay) /\ TakePacket(n, p)
        /\ p.relay \in Neighbours(n)
    BY HeardPacket, NeighboursSymmetric DEF ReceiveForOthers, TakePacket, Packet
  <1>2. Keeps
    BY DEF Keeps, ReceiveForOthers, history
  <1>3. RouteIsReal' /\ routes' \in [Nodes -> SUBSET Route]
    BY <1>1, LearnIsReal DEF ReceiveForOthers, MeshIInv
  <1>4. AirIsSound' /\ air' \in SUBSET (Packet \X Nodes)
    BY <1>1, <1>2, TakePacketStays, AirStays DEF MeshIInv
  <1>5. jobs' \in [Nodes -> SUBSET Job] /\ JobsAreSound' /\ JobsAreFresh' /\ RelayedIsSeen'
    <2>1. CASE p.hops > 0
      <3>0. PICK via \in Nodes \cup {Nobody} :
                Enqueue(n, [packet |-> IF p.next_hop = Nobody THEN [p EXCEPT !.next_hop = via]
                                       ELSE p,
                            route |-> via, asked |-> p.next_hop])
        BY <1>3, <2>1, BestRouteTyped DEF ReceiveForOthers
      <3>1. PICK q : q = IF p.next_hop = Nobody THEN [p EXCEPT !.next_hop = via] ELSE p
        OBVIOUS
      <3>2. /\ q \in Packet /\ q.source = p.source /\ q.id = p.id /\ q.type = p.type
            /\ q.destination = p.destination /\ q.relay = p.relay /\ q.hops = p.hops
            /\ q.path_hops = p.path_hops /\ q.acknowledged_id = p.acknowledged_id
            /\ q.acknowledged_source = p.acknowledged_source
        BY <1>1, <3>1 DEF Packet
      <3>3. Sound(q)'
        <4>1. Sound(p)'
          BY <1>1, <1>2, SoundStays DEF MeshIInv
        <4> QED
          BY <3>2, <4>1 DEF Sound, Sent, Honest
      <3>4. Key(q) = Key(p) /\ Key(p) \notin accepted[n]
        BY <3>2 DEF Key, ReceiveForOthers, IsNew
      <3> DEFINE job == [packet |-> q, route |-> via, asked |-> p.next_hop]
      <3>5. job \in Job /\ job.packet = q /\ Enqueue(n, job)
        BY <1>1, <3>0, <3>1, <3>2 DEF Job, Packet
      <3> HIDE DEF job
      <3> QED
        BY <1>1, <1>2, <3>2, <3>3, <3>4, <3>5, TakePacketStays, EnqueuePreserves
        DEF ReceiveForOthers, history
    <2>2. CASE UNCHANGED jobs
      BY <1>1, <1>2, <2>2, TakePacketStays, FreshStays, JobsStay
      DEF ReceiveForOthers, history, MeshIInv, MeshTypeOK
    <2> QED
      BY <2>1, <2>2 DEF ReceiveForOthers
  <1>6. MeshTypeOK'
    BY <1>1, <1>3, <1>4, <1>5, TakePacketStays
    DEF MeshIInv, MeshTypeOK, ReceiveForOthers, history
  <1> QED
    BY <1>3, <1>4, <1>5, <1>6 DEF MeshIInv

-----------------------------------------------------------------------------
(* The forwarding worker                                                   *)

\* A job leaves the queue.  If it was relayed, it was the only one for its
\* packet.
LEMMA DequeuePreserves ==
    ASSUME MeshIInv, Keeps, NEW n \in Nodes, NEW job \in jobs[n], UNCHANGED accepted,
           jobs' = [jobs EXCEPT ![n] = @ \ {job}],
           \/ relayed' = relayed
           \/ job.packet.source # n /\ relayed' = [relayed EXCEPT ![n][Key(job.packet)] = @ + 1]
    PROVE  /\ jobs' \in [Nodes -> SUBSET Job] /\ relayed' \in [Nodes -> [Nodes \X Ids -> Nat]]
           /\ JobsAreSound' /\ JobsAreFresh' /\ RelayedIsSeen'
  <1>1. /\ jobs' \in [Nodes -> SUBSET Job]
        /\ \A m \in Nodes : jobs'[m] \subseteq jobs[m]
        /\ job \notin jobs'[n]
    BY DEF MeshIInv, MeshTypeOK
  <1>2. JobsAreSound'
    BY <1>1, JobsStay DEF MeshIInv
  <1>3. PICK k \in Nodes \X Ids : k = Key(job.packet)
    BY KeyTyped DEF MeshIInv, MeshTypeOK, Job
  <1>4. CASE relayed' = relayed
    <2>1. JobsAreFresh'
      BY <1>1, <1>4 DEF MeshIInv, JobsAreFresh
    <2> QED
      BY <1>1, <1>2, <1>4, <2>1 DEF MeshIInv, MeshTypeOK, RelayedIsSeen
  <1>5. CASE job.packet.source # n /\ relayed' = [relayed EXCEPT ![n][Key(job.packet)] = @ + 1]
    <2>1. /\ relayed[n][k] = 0 /\ k \in accepted[n]
          /\ \A other \in jobs[n] : Key(other.packet) = k => other = job
      BY <1>3, <1>5 DEF MeshIInv, JobsAreFresh
    <2>2. /\ relayed' \in [Nodes -> [Nodes \X Ids -> Nat]]
          /\ relayed'[n][k] = 1
          /\ \A m \in Nodes, i \in Nodes \X Ids :
                 ~(m = n /\ i = k) => relayed'[m][i] = relayed[m][i]
      <3>1. relayed' = [relayed EXCEPT ![n] = [relayed[n] EXCEPT ![k] = 1]]
        BY <1>3, <1>5, <2>1 DEF MeshIInv, MeshTypeOK
      <3>2. relayed \in [Nodes -> [Nodes \X Ids -> Nat]]
        BY DEF MeshIInv, MeshTypeOK
      <3>3. [relayed[n] EXCEPT ![k] = 1] \in [Nodes \X Ids -> Nat]
        BY <3>2
      <3>4. relayed' \in [Nodes -> [Nodes \X Ids -> Nat]]
        BY <3>1, <3>2, <3>3
      <3>5. relayed'[n] = [relayed[n] EXCEPT ![k] = 1]
        BY <3>1, <3>2
      <3>6. \A m \in Nodes : m # n => relayed'[m] = relayed[m]
        BY <3>1, <3>2
      <3>7. \A i \in Nodes \X Ids : i # k => relayed'[n][i] = relayed[n][i]
        BY <3>2, <3>5
      <3>8. relayed'[n][k] = 1
        BY <3>2, <3>5
      <3> QED
        BY <3>4, <3>6, <3>7, <3>8, Zenon
    <2>3. JobsAreFresh'
      <3> SUFFICES ASSUME NEW m \in Nodes, NEW j \in jobs'[m], j.packet.source # m
                   PROVE  /\ Key(j.packet) \in accepted'[m]
                          /\ relayed'[m][Key(j.packet)] = 0
                          /\ \A other \in jobs'[m] : Key(other.packet) = Key(j.packet) => other = j
        BY DEF JobsAreFresh
      <3>1. j \in jobs[m] /\ ~(m = n /\ Key(j.packet) = k)
        BY <1>1, <2>1
      <3>2. PICK i \in Nodes \X Ids : i = Key(j.packet)
        BY <3>1, KeyTyped DEF MeshIInv, MeshTypeOK, Job
      <3>3. Key(j.packet) \in accepted[m] /\ relayed[m][Key(j.packet)] = 0
        BY <3>1 DEF MeshIInv, JobsAreFresh
      <3>4. \A other \in jobs'[m] : Key(other.packet) = Key(j.packet) => other = j
        BY <1>1, <3>1 DEF MeshIInv, JobsAreFresh
      <3> QED
        BY <2>2, <3>1, <3>2, <3>3, <3>4
    <2>4. RelayedIsSeen'
      <3> SUFFICES ASSUME NEW m \in Nodes, NEW i \in Nodes \X Ids
                   PROVE  relayed'[m][i] <= 1 /\ (relayed'[m][i] = 1 => i \in accepted'[m])
        BY DEF RelayedIsSeen
      <3> QED
        BY <2>1, <2>2 DEF MeshIInv, RelayedIsSeen
    <2> QED
      BY <1>1, <1>2, <2>2, <2>3, <2>4
  <1> QED
    BY <1>4, <1>5

\* The hop that is used up is the hop the packet travels next.
LEMMA ForwardedPacketSound ==
    ASSUME MeshIInv, Keeps, NEW n \in Nodes, NEW job \in jobs[n],
           app_runtime_should_forward_packet(n, job), NEW q, q = ForwardedPacket(n, job)
    PROVE  q \in Packet /\ q.relay = n /\ Sound(q)'
  <1>1. PICK p \in Packet : p = job.packet
    BY DEF MeshIInv, MeshTypeOK, Job
  <1>2. job.route \in Nodes \cup {Nobody} /\ p.hops > 0
    BY <1>1 DEF MeshIInv, MeshTypeOK, Job, app_runtime_should_forward_packet
  <1>3. /\ p.hops \in 1 .. DEFAULT_HOPS /\ p.path_hops \in 1 .. DEFAULT_HOPS + 1
        /\ p.relay \in Nodes
    BY <1>2, MeshAssumption DEF Packet
  <1>4. Sound(p) /\ p.relay \in Neighbours(n) \cup {n}
    BY <1>1 DEF MeshIInv, JobsAreSound
  <1>5. p.path_hops + 1 \in 1 .. DEFAULT_HOPS + 1 /\ p.hops - 1 \in 0 .. DEFAULT_HOPS
    <2>1. p.type \in {"MSG", "ACK"}
      BY DEF Packet
    <2>2. p.hops + p.path_hops <= DEFAULT_HOPS + 1
      BY <1>3, <1>4, <2>1, MeshAssumption DEF Sound
    <2> QED
      BY <1>3, <2>2, MeshAssumption
  <1>6. /\ q = [p EXCEPT !.hops = @ - 1, !.path_hops = @ + 1, !.relay = n, !.next_hop = job.route]
        /\ q.type = p.type /\ q.source = p.source /\ q.id = p.id
        /\ q.destination = p.destination /\ q.relay = n
        /\ q.hops = p.hops - 1 /\ q.path_hops = p.path_hops + 1
        /\ q.acknowledged_id = p.acknowledged_id /\ q.acknowledged_source = p.acknowledged_source
    BY <1>1 DEF ForwardedPacket, Packet
  <1>7. q \in Packet
    BY <1>2, <1>5, <1>6 DEF Packet
  <1>8. q.source \in Within(q.path_hops - 1, q.relay)
    <2>1. PICK k \in Nat : k = p.path_hops - 1
      BY <1>3
    <2>2. p.source \in Within(k, p.relay)
      BY <1>4, <2>1 DEF Sound
    <2>3. p.source \in Within(k + 1, n)
      BY <1>3, <1>4, <2>2, WithinStep
    <2>4. k + 1 = q.path_hops - 1
      BY <1>3, <1>6, <2>1
    <2> QED
      BY <1>6, <2>3, <2>4
  <1>9. Sound(p)'
    BY <1>4, SoundStays DEF MeshIInv
  <1>10. q.hops + q.path_hops = p.hops + p.path_hops
    BY <1>3, <1>6
  <1> QED
    BY <1>6, <1>7, <1>8, <1>9, <1>10 DEF Sound, Sent, Honest

\* The worker forwards a job with one hop less.
LEMMA ForwardJobPreserves ==
    ASSUME MeshIInv, NEW n \in Nodes, NEW job \in jobs[n], ForwardJob(n, job)
    PROVE  MeshIInv'
  <1>1. Keeps
    BY DEF Keeps, ForwardJob
  <1>2. PICK q : q = ForwardedPacket(n, job)
    OBVIOUS
  <1>3. q \in Packet /\ q.relay = n /\ Sound(q)'
    BY <1>1, <1>2, ForwardedPacketSound DEF ForwardJob
  <1>4. AirIsSound' /\ air' \in SUBSET (Packet \X Nodes)
    BY <1>1, <1>2, <1>3, TransmitSound DEF MeshIInv, ForwardJob
  <1>5. /\ jobs' \in [Nodes -> SUBSET Job] /\ relayed' \in [Nodes -> [Nodes \X Ids -> Nat]]
        /\ JobsAreSound' /\ JobsAreFresh' /\ RelayedIsSeen'
    <2>1. UNCHANGED accepted /\ jobs' = [jobs EXCEPT ![n] = @ \ {job}]
      BY DEF ForwardJob
    <2>2. \/ relayed' = relayed
          \/ job.packet.source # n /\ relayed' = [relayed EXCEPT ![n][Key(job.packet)] = @ + 1]
      BY DEF ForwardJob
    <2> QED
      BY <1>1, <2>1, <2>2, DequeuePreserves
  <1> QED
    BY <1>4, <1>5 DEF MeshIInv, MeshTypeOK, RouteIsReal, ForwardJob

\* The worker drops a job.
LEMMA SuppressJobPreserves ==
    ASSUME MeshIInv, NEW n \in Nodes, NEW job \in jobs[n], SuppressJob(n, job)
    PROVE  MeshIInv'
  <1>1. Keeps
    BY DEF Keeps, SuppressJob
  <1>2. AirIsSound' /\ air' \in SUBSET (Packet \X Nodes)
    BY <1>1, AirStays DEF MeshIInv, SuppressJob
  <1>3. /\ jobs' \in [Nodes -> SUBSET Job] /\ relayed' \in [Nodes -> [Nodes \X Ids -> Nat]]
        /\ JobsAreSound' /\ JobsAreFresh' /\ RelayedIsSeen'
    <2>1. UNCHANGED <<accepted, relayed>> /\ jobs' = [jobs EXCEPT ![n] = @ \ {job}]
      BY DEF SuppressJob
    <2> QED
      BY <1>1, <2>1, DequeuePreserves
  <1>4. suppressed' \in SUBSET (Nodes \cup {Nobody})
    BY DEF MeshIInv, MeshTypeOK, Job, SuppressJob
  <1> QED
    BY <1>2, <1>3, <1>4 DEF MeshIInv, MeshTypeOK, RouteIsReal, SuppressJob

-----------------------------------------------------------------------------
(* The theorems                                                            *)

\* Every step keeps the invariant.
LEMMA StepPreserves == MeshIInv /\ [MeshNext]_meshVars => MeshIInv'
  <1> SUFFICES ASSUME MeshIInv, [MeshNext]_meshVars PROVE MeshIInv'
    OBVIOUS
  <1>1. CASE UNCHANGED meshVars
    <2>1. Keeps
      BY <1>1 DEF meshVars, Keeps
    <2>2. AirIsSound' /\ JobsAreSound'
      BY <1>1, <2>1, AirStays, JobsStay DEF meshVars, MeshIInv
    <2>3. MeshTypeOK' /\ RouteIsReal'
      BY <1>1 DEF meshVars, MeshIInv, MeshTypeOK, RouteIsReal
    <2> QED
      BY <1>1, <2>2, <2>3 DEF meshVars, MeshIInv, JobsAreFresh, RelayedIsSeen
  <1>2. ASSUME NEW n \in Nodes, Sender(n) PROVE MeshIInv'
    BY <1>2, SendMessagePreserves, RetransmitPreserves, GiveUpPreserves DEF Sender
  <1>3. ASSUME NEW n \in Nodes, Receiver(n) PROVE MeshIInv'
    BY <1>3, HearOwnPacketPreserves, RejectReplayPreserves, ReceiveMessagePreserves,
       ReceiveAckPreserves, ReceiveForOthersPreserves
    DEF Receiver
  <1>4. ASSUME NEW n \in Nodes, Worker(n) PROVE MeshIInv'
    BY <1>4, ForwardJobPreserves, SuppressJobPreserves DEF Worker
  <1>5. ASSUME NEW n \in Nodes, \E r \in routes[n] : RouteExpires(n, r) PROVE MeshIInv'
    BY <1>5, RouteExpiresPreserves
  <1>6. ASSUME NEW n \in Nodes, Reboot(n) PROVE MeshIInv'
    BY <1>6, RebootPreserves
  <1> QED
    BY <1>1, <1>2, <1>3, <1>4, <1>5, <1>6 DEF MeshNext

\* The invariant holds throughout.
LEMMA Inductive == MeshSpec => []MeshIInv
  BY Initially, StepPreserves, PTL DEF MeshSpec

\* Whatever is on the air or in a queue is sound.
LEMMA AroundIsSound ==
    ASSUME MeshIInv, NEW p \in PacketsAround
    PROVE  Sound(p)
  BY DEF MeshIInv, AirIsSound, JobsAreSound, PacketsAround

\* In a network of any size and shape, whatever is lost, retransmitted and
\* rebooted, every variable keeps the values the code gives it: hop counts,
\* path counts and packet ids never leave their ranges.
THEOREM NetworkTypeCorrect == MeshSpec => []MeshTypeOK
  <1>1. MeshIInv => MeshTypeOK
    BY DEF MeshIInv
  <1> QED
    BY <1>1, Inductive, PTL

\* A node relays a packet at most once between two boots, over whatever paths
\* and however often it is heard (app_runtime.c:179-188, forward_worker.c:33).
THEOREM NoStorm == MeshSpec => []RelayedOnce
  <1>1. MeshIInv => RelayedOnce
    BY DEF MeshIInv, RelayedIsSeen, RelayedOnce
  <1> QED
    BY <1>1, Inductive, PTL

\* Every route in every table starts at a neighbour and reaches its destination
\* in as many transmissions as it says (route_table.c:89, forward_worker.c:56).
THEOREM RoutesAreReal == MeshSpec => []RouteIsReal
  <1>1. MeshIInv => RouteIsReal
    BY DEF MeshIInv
  <1> QED
    BY <1>1, Inductive, PTL

\* What a message in the air or in a forward queue has left of its hop budget
\* and what it used up always make the whole budget; every ACK was made by the
\* destination of a message that was really sent to it and that it accepted
\* (forward_worker.c:37-59, app_runtime.c:218).
THEOREM PacketsTellTheTruth == MeshSpec => []PacketsAreTrue
  <1>1. MeshIInv => PacketsAreTrue
    BY AroundIsSound DEF PacketsAreTrue, Sound, Honest
  <1> QED
    BY <1>1, Inductive, PTL

=============================================================================
