---------------------------- MODULE PacketCodec ----------------------------
(***************************************************************************)
(* The packet formats (mesh_protocol.c) and the frame around them          *)
(* (bems_crypto.c), followed from the node that sends a packet over the    *)
(* relays that parse it, change it (forward_worker.c) and build it anew.   *)
(*                                                                         *)
(* A text is a name and a length.  A packet of format V2 is a sequence of  *)
(* bytes, each a pair: ("byte", its value) or (a text's name, which byte   *)
(* of it); one of the older format V1 is the sequence of its fields.       *)
(***************************************************************************)
EXTENDS Integers, Sequences, FiniteSets

CONSTANTS
    CodecNodes,             \* the texts that are node ids
    NetworkKey,             \* per node id
    PacketsSent,            \* what nodes send: the values of mesh_packet_t
    FIELD_LEN, PAYLOAD_LEN,
    BEMS_MAX_PLAINTEXT,
    MaxLegs                 \* bound: relays on the way

Text(name, len) == [name |-> name, len |-> len]
Empty == Text("", 0)
ToAll == Text("ALL", 3)

NoLocation == [sitio |-> Empty, barangay |-> Empty, municipality |-> Empty]

\* A text of "|"-separated fields that contains a bar itself.
Barred == "barred"

\* The values of the fields of mesh_packet_t.  There is no "~" in a text.  Among the
\* names of texts are that of no text and those of the parts a bar makes of one.
TextNames == STRING \cup {"", "left", "right"}
IsWord(t) ==
    t = Text(t.name, t.len) /\ t.name \in TextNames /\ t.len \in Nat /\ (t.len = 0 => t = Empty)
IsText(t, size) == IsWord(t) /\ t.len < size
IsNodeId(t) == IsText(t, FIELD_LEN) /\ t # Empty
IsLocation(l) ==
    /\ l = [sitio |-> l.sitio, barangay |-> l.barangay, municipality |-> l.municipality]
    /\ IsWord(l.sitio) /\ IsWord(l.barangay) /\ IsWord(l.municipality)

\* A packet as its source builds it: the path begins there, and there is no raw
\* location.  The hops are those of DEFAULT_HOPS, or of a synchronisation.
IsPacketSent(p) ==
    /\ p.valid /\ IsNodeId(p.source) /\ IsNodeId(p.relay)
    /\ IsNodeId(p.destination) \/ p.destination = ToAll
    /\ IsText(p.id, 5) /\ p.id.len = 4
    /\ p.priority \in {"LOW", "NORMAL", "HIGH"}
    /\ p.hops \in 0 .. 254 /\ p.path_hops = 1
    /\ IsText(p.next_hop, FIELD_LEN)
    /\ IsLocation(p.location) /\ p.location_raw = FALSE
    /\ IsText(p.payload, PAYLOAD_LEN) /\ (p.payload.name = Barred => p.payload.len >= 2)

ASSUME CodecAssumption ==
    /\ DOMAIN NetworkKey = CodecNodes
    /\ FIELD_LEN \in 1 .. 255 /\ PAYLOAD_LEN \in Nat /\ BEMS_MAX_PLAINTEXT \in Nat
    /\ \A n \in CodecNodes : IsNodeId(n)
    /\ \A p \in PacketsSent : IsPacketSent(p)

VARIABLES
    original,       \* history: the packet as it was entered
    legacy,         \* history: the V1 fields it was sent in, 10 or 11, or 0 for V2
    frame,          \* what is on the air
    legs,           \* relays so far
    refused         \* history: the node that could not build the packet, or Empty

codecVars == <<original, legacy, frame, legs, refused>>

NoFrame == [key |-> "none", v |-> 0, plain |-> <<>>]
Invalid == [valid |-> FALSE]

-----------------------------------------------------------------------------
(* Bytes                                                                   *)

Byte(n) == <<"byte", n>>
Bytes(t) == [k \in 1 .. t.len |-> <<t.name, k>>]
FromBytes(b) == IF b = <<>> THEN Empty ELSE Text(b[1][1], Len(b))
Counted(t) == <<Byte(t.len)>> \o Bytes(t)

V2_MAGIC == 178
BEMS_PACKET_FORMAT_V2 == 2
V2_BROADCAST_ID == 255
V2_FLAG_NEXT_HOP == 1
V2_FLAG_LOCATION == 2
V2_FLAG_PATH_HOPS == 4
HasFlag(flags, f) == (flags \div f) % 2 = 1

\* The reads of the parser: what is left, and the value read last.
Failed == [ok |-> FALSE, rest |-> <<>>, val |-> 0]

read_u8(r) ==
    IF r.ok /\ r.rest # <<>> THEN [ok |-> TRUE, rest |-> Tail(r.rest), val |-> Head(r.rest)[2]]
    ELSE Failed

read_bytes(r, n, size) ==
    IF r.ok /\ n <= Len(r.rest) /\ n < size
    THEN [ok |-> TRUE, rest |-> SubSeq(r.rest, n + 1, Len(r.rest)),
          val |-> FromBytes(SubSeq(r.rest, 1, n))]
    ELSE Failed

\* A length that must not be 0, and the text.
ReadName(r) ==
    LET len == read_u8(r) IN IF len.val = 0 THEN Failed ELSE read_bytes(len, len.val, FIELD_LEN)

\* Types and priorities the format has no number for become the default.
WireTypes == <<"FLOOD", "ACK", "TIME_SYNC", "SYNC_REQ", "SYNC_RESP", "EMERGENCY">>
type_to_u8(type) ==
    IF \E i \in DOMAIN WireTypes : WireTypes[i] = type
    THEN CHOOSE i \in DOMAIN WireTypes : WireTypes[i] = type ELSE 1
type_from_u8(n) == WireTypes[n]

WirePriorities == <<"LOW", "NORMAL", "HIGH">>
priority_to_u8(priority) == (CHOOSE i \in DOMAIN WirePriorities : WirePriorities[i] = priority) - 1
priority_from_u8(n) == WirePriorities[n + 1]

\* Three texts with "~" between them.
Tilde == <<"~", 0>>
location_encode(loc) ==
    Bytes(loc.sitio) \o <<Tilde>> \o Bytes(loc.barangay) \o <<Tilde>> \o Bytes(loc.municipality)

\* What precedes the first "~" is the sitio, the rest the barangay, and what
\* follows a second one the municipality; without any, all is the barangay.
location_decode(b) ==
    LET at == {i \in DOMAIN b : b[i] = Tilde}
        first == CHOOSE i \in at : \A j \in at : i <= j
        more  == at \ {first}
        second == CHOOSE i \in more : \A j \in more : i <= j
        Part(i, j) == FromBytes(SubSeq(b, i, j))
    IN  IF at = {} THEN [NoLocation EXCEPT !.barangay = Part(1, Len(b))]
        ELSE IF more = {}
        THEN [NoLocation EXCEPT !.sitio = Part(1, first - 1), !.barangay = Part(first + 1, Len(b))]
        ELSE [sitio |-> Part(1, first - 1), barangay |-> Part(first + 1, second - 1),
              municipality |-> Part(second + 1, Len(b))]

\* The fields of the packet that have a form of their own.
ReadDestination(r) ==
    LET len == read_u8(r)
    IN  IF len.val = V2_BROADCAST_ID THEN [len EXCEPT !.val = ToAll] ELSE ReadName(r)

ReadLocation(r) ==
    LET len == read_u8(r)
    IN  IF len.ok /\ len.val <= Len(len.rest)
        THEN [ok |-> TRUE, rest |-> SubSeq(len.rest, len.val + 1, Len(len.rest)),
              val |-> location_decode(SubSeq(len.rest, 1, len.val))]
        ELSE Failed

ReadPayload(r) == LET len == read_u8(r) IN read_bytes(len, len.val, PAYLOAD_LEN)

\* A field that is there if its flag is set.
ReadIf(present, read, r, default) == IF present THEN read ELSE [r EXCEPT !.val = default]

-----------------------------------------------------------------------------
(* Build and parse                                                         *)

\* A plausible bug: the hops of the path are left out and flagged.
BuildForgetsHops(p) ==
    IF p.source.len = 0 \/ p.relay.len = 0 THEN <<>>
    ELSE <<Byte(V2_MAGIC), Byte(BEMS_PACKET_FORMAT_V2), Byte(V2_FLAG_PATH_HOPS),
           Byte(type_to_u8(p.type)), Byte(priority_to_u8(p.priority))>>
         \o Counted(p.source)
         \o (IF p.destination = ToAll THEN <<Byte(V2_BROADCAST_ID)>> ELSE Counted(p.destination))
         \o Bytes(p.id) \o Counted(p.relay) \o <<Byte(p.hops)>> \o Counted(p.payload)

\* The bytes, or <<>> when the packet cannot be built.
build_forward_packet_v2(p) ==
    LET next     == p.next_hop # Empty
        located  == p.location_raw \/ p.location # NoLocation
        flags    == V2_FLAG_PATH_HOPS + (IF next THEN V2_FLAG_NEXT_HOP ELSE 0)
                        + (IF located THEN V2_FLAG_LOCATION ELSE 0)
        location == location_encode(p.location)
        packet   ==
            <<Byte(V2_MAGIC), Byte(BEMS_PACKET_FORMAT_V2), Byte(flags),
              Byte(type_to_u8(p.type)), Byte(priority_to_u8(p.priority))>>
            \o Counted(p.source)
            \o (IF p.destination = ToAll THEN <<Byte(V2_BROADCAST_ID)>> ELSE Counted(p.destination))
            \o Bytes(p.id)
            \o Counted(p.relay)
            \o <<Byte(p.hops), Byte(p.path_hops)>>
            \o (IF next THEN Counted(p.next_hop) ELSE <<>>)
            \o (IF located THEN <<Byte(Len(location))>> \o location ELSE <<>>)
            \o Counted(p.payload)
    IN  IF \/ p.source.len = 0 \/ p.relay.len = 0 \/ p.payload.len >= PAYLOAD_LEN
           \/ Len(packet) > BEMS_MAX_PLAINTEXT
        THEN <<>> ELSE packet

mesh_packet_is_v2(b) ==
    Len(b) >= 2 /\ b[1] = Byte(V2_MAGIC) /\ b[2] = Byte(BEMS_PACKET_FORMAT_V2)

parse_mesh_packet_v2(b) ==
    LET flags    == read_u8([ok |-> mesh_packet_is_v2(b), rest |-> SubSeq(b, 3, Len(b)), val |-> 0])
        type     == read_u8(flags)
        priority == read_u8(type)
        source   == ReadName(priority)
        dest     == ReadDestination(source)
        id       == read_bytes(dest, 4, 5)
        relay    == ReadName(id)
        hops     == read_u8(relay)
        path     == ReadIf(HasFlag(flags.val, V2_FLAG_PATH_HOPS), read_u8(hops), hops, 1)
        next     == ReadIf(HasFlag(flags.val, V2_FLAG_NEXT_HOP), ReadName(path), path, Empty)
        location == ReadIf(HasFlag(flags.val, V2_FLAG_LOCATION), ReadLocation(next), next, NoLocation)
        payload  == ReadPayload(location)
    IN  IF ~payload.ok THEN Invalid
        ELSE [valid |-> TRUE, source |-> source.val, destination |-> dest.val, id |-> id.val,
              type |-> type_from_u8(type.val), priority |-> priority_from_u8(priority.val),
              relay |-> relay.val, hops |-> hops.val, path_hops |-> path.val,
              next_hop |-> next.val, location |-> location.val,
              location_raw |-> HasFlag(flags.val, V2_FLAG_LOCATION) /\ read_u8(next).val > 0,
              payload |-> payload.val]

\* "|" separates the fields, also where the text of the last one contains it.
LastField(t) ==
    IF t.name = Barred THEN <<Bytes(Text("left", 1)), Bytes(Text("right", t.len - 2))>>
    ELSE <<Bytes(t)>>
Rejoined(fields) ==
    IF Len(fields) = 2 THEN Text(Barred, Len(fields[2]) + 2) ELSE FromBytes(fields[1])

\* How the older firmware sent a packet, without or with a next hop.
V1Fields(p, count) ==
    <<Text("BEMS", 4), p.id, p.source, p.destination, p.type, p.priority, p.hops, p.relay>>
        \o (IF count = 11 THEN <<p.next_hop>> ELSE <<>>) \o <<location_encode(p.location)>>
        \o LastField(p.payload)

\* The bytes that takes at least: the texts and the bars between the fields, a
\* digit each for id and hops, and the three letters of the shortest type and
\* priority.
V1Length(p, count) ==
    (count - 1) + 4 + 1 + p.source.len + p.destination.len + 3 + 3 + 1 + p.relay.len
        + (IF count = 11 THEN p.next_hop.len ELSE 0) + Len(location_encode(p.location)) + p.payload.len

\* Eleven fields at most, the last of which may hold further bars; ten mean that
\* there is no next hop.
parse_mesh_packet(f) ==
    LET count == IF Len(f) < 11 THEN Len(f) ELSE 11
        n     == count - 10
    IN  IF count < 10 \/ f[1] # Text("BEMS", 4) THEN Invalid
        ELSE [valid |-> TRUE, id |-> f[2], source |-> f[3], destination |-> f[4], type |-> f[5],
              priority |-> f[6], hops |-> f[7], relay |-> f[8], path_hops |-> 0,
              next_hop |-> IF n = 1 THEN f[9] ELSE Empty,
              location |-> location_decode(f[9 + n]), location_raw |-> f[9 + n] # <<>>,
              payload |-> Rejoined(SubSeq(f, 10 + n, Len(f)))]

-----------------------------------------------------------------------------
(* The frame                                                               *)

\* AES-CTR with the node's key and the authentication tag: who has another key
\* cannot read it.  Without a key nothing is sent.
bems_encrypt_frame(n, v, plain) ==
    IF plain = <<>> \/ NetworkKey[n] = "none" THEN NoFrame
    ELSE [key |-> NetworkKey[n], v |-> v, plain |-> plain]

bems_decrypt_frame_bytes(n, f) == IF f # NoFrame /\ f.key = NetworkKey[n] THEN f ELSE NoFrame

Parse(f) ==
    CASE f.v = 0 -> Invalid
      [] f.v = 1 -> parse_mesh_packet(f.plain)
      [] f.v = 2 -> parse_mesh_packet_v2(f.plain)

-----------------------------------------------------------------------------
Idle == original = Invalid

\* A node sends a packet of its own.  Neither the scheduler nor the control
\* messages enter a location: one comes with V1 packets and what relays make of them.
SendV2(p) ==
    /\ Idle
    /\ p.location = NoLocation /\ ~p.location_raw
    /\ original' = p /\ legacy' = 0 /\ legs' = 0
    /\ frame' = bems_encrypt_frame(p.source, 2, build_forward_packet_v2(p))
    /\ refused' = IF build_forward_packet_v2(p) = <<>> THEN p.source ELSE Empty

\* A node with the older firmware does: ten fields if there is no next hop.
SendV1(p, count) ==
    /\ Idle
    /\ (count = 10 => p.next_hop = Empty) /\ V1Length(p, count) <= BEMS_MAX_PLAINTEXT
    /\ original' = p /\ legacy' = count /\ legs' = 0
    /\ frame' = bems_encrypt_frame(p.source, 1, V1Fields(p, count))
    /\ refused' = Empty

\* What forward_worker_task makes of a packet it relays.
Relayed(p, n, via) ==
    [p EXCEPT !.hops = @ - 1, !.relay = n, !.next_hop = via,
              !.path_hops = IF @ < 255 THEN @ + 1 ELSE @]

\* The worker's part from the queued packet to the radio.
RelayPacket(n, via) ==
    LET p     == Parse(bems_decrypt_frame_bytes(n, frame))
        built == build_forward_packet_v2(Relayed(p, n, via))
    IN  /\ p.valid /\ p.hops > 0 /\ legs < MaxLegs
        /\ n \notin {p.source, p.relay}
        /\ frame' = bems_encrypt_frame(n, 2, built)
        /\ legs' = legs + 1
        /\ refused' = IF built = <<>> THEN n ELSE Empty
        /\ UNCHANGED <<original, legacy>>

CodecInit ==
    /\ original = Invalid /\ legacy = 0 /\ legs = 0 /\ refused = Empty
    /\ frame = NoFrame

CodecNext ==
    \/ \E p \in PacketsSent : SendV2(p) \/ \E count \in {10, 11} : SendV1(p, count)
    \/ \E n \in CodecNodes, via \in CodecNodes \cup {Empty} : RelayPacket(n, via)

CodecSpec == CodecInit /\ [][CodecNext]_codecVars

-----------------------------------------------------------------------------
(* Properties                                                              *)

Content == {"source", "destination", "id", "priority", "payload", "location"}

\* Every packet on the air parses, and is what was entered: whatever relays it
\* went over, with and without next hop or path, from either format, a location
\* that came in V1 and goes on in V2 included.
\* Types that V2 has no byte for, MEDICAL and INFO, become FLOOD.  Only a V1
\* packet of ten fields whose text has a bar is read as one of eleven
\* (mesh_protocol.c:409-462, 474-574, 576-671).
ArrivesAsSent ==
    frame # NoFrame /\ ~(legacy = 10 /\ original.payload.name = Barred) =>
        LET p == Parse(frame)
        IN  /\ p.valid
            /\ \A c \in Content : p[c] = original[c]
            /\ p.type = IF frame.v = 1 \/ \E i \in DOMAIN WireTypes : WireTypes[i] = original.type
                        THEN original.type ELSE "FLOOD"
            /\ p.hops = original.hops - legs
            /\ p.path_hops = legs + (IF legacy = 0 THEN 1 ELSE 0)

\* No packet cut short is taken for a whole one: each proper prefix of the bytes
\* is refused (mesh_protocol.c:330-361, 474-574).
PrefixIsRefused ==
    frame.v = 2 =>
        \A n \in 0 .. Len(frame.plain) - 1 : ~parse_mesh_packet_v2(SubSeq(frame.plain, 1, n)).valid

\* A relay drops a packet as too long only if its sender left less room than two
\* node ids take: the relay's, and that of a next hop.  What came in format V1
\* has a location, if only "~~", which takes another three bytes
\* (mesh_protocol.c:576-671, forward_worker.c:55-69).
RoomForRelays ==
    refused # Empty /\ legs > 0 =>
        LET room == 2 * (FIELD_LEN - 1) + (IF legacy = 0 THEN 0 ELSE 3)
        IN  Len(build_forward_packet_v2(original)) + room > BEMS_MAX_PLAINTEXT

\* What the formats promise: packets arrive as they were sent, over relays too, a
\* part of one is never taken for a whole, and relays have room for their ids
\* (mesh_protocol.c:409-671).
CodecIsSound == ArrivesAsSent /\ PrefixIsRefused /\ RoomForRelays
=============================================================================
