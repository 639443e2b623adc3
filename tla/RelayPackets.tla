---------------------------- MODULE RelayPackets ----------------------------
(***************************************************************************)
(* The packets of the relay server on the TCP stream of a connection of    *)
(* the active proxy: ProxyConnection::onRelayRead puts them together from  *)
(* the chunks that libuv hands over, and PacketType::valueOf tells their   *)
(* type from the flag byte, which PacketType::value picks at random from a *)
(* range.  A packet is its size (2 bytes), the flag and the rest; a byte   *)
(* is modelled by its packet's number and size and its place in it.        *)
(***************************************************************************)
EXTENDS Integers, Sequences, SequencesExt, FiniteSetsExt

CONSTANTS PACKET_HEADER_BYTES,   \* 3
          MaxSize,               \* bound: bytes of a packet
          MaxPackets             \* bound: packets the server sends

ASSUME RelayAssumption ==
    /\ PACKET_HEADER_BYTES \in Nat \ {0, 1} /\ MaxSize \in Nat /\ MaxPackets \in Nat
    /\ PACKET_HEADER_BYTES <= MaxSize

VARIABLE sizes                   \* of the packets that the server sends on the stream

-----------------------------------------------------------------------------
(* PacketType. *)

\* The least and the greatest flag of a type, without the ACK bit.
FlagRange(type) ==
    CASE type \in {"AUTH", "AUTH_ACK"}             -> <<0, 7>>
      [] type \in {"ATTACH", "ATTACH_ACK"}         -> <<8, 15>>
      [] type \in {"PING", "PING_ACK"}             -> <<16, 31>>
      [] type \in {"CONNECT", "CONNECT_ACK"}       -> <<32, 47>>
      [] type \in {"DISCONNECT", "DISCONNECT_ACK"} -> <<48, 63>>
      [] type = "DATA"                             -> <<64, 111>>
      [] type = "ERROR"                            -> <<112, 127>>

Types == {"AUTH", "AUTH_ACK", "ATTACH", "ATTACH_ACK", "PING", "PING_ACK", "CONNECT", "CONNECT_ACK",
          "DISCONNECT", "DISCONNECT_ACK", "DATA", "ERROR"}

Acks == {"AUTH_ACK", "ATTACH_ACK", "PING_ACK", "CONNECT_ACK", "DISCONNECT_ACK", "ERROR"}

\* The flags that value may return.
value(type) ==
    {flag + (IF type \in Acks THEN 128 ELSE 0) : flag \in FlagRange(type)[1]..FlagRange(type)[2]}

\* An exception is the outcome "invalid_argument".
valueOf(flag) ==
    LET ack == flag >= 128
        type == flag % 128
        row == type \div 16
    IN  CASE row = 0 /\ type <= 7 -> IF ack THEN "AUTH_ACK" ELSE "AUTH"
          [] row = 0 /\ type > 7  -> IF ack THEN "ATTACH_ACK" ELSE "ATTACH"
          [] row = 1              -> IF ack THEN "PING_ACK" ELSE "PING"
          [] row = 2              -> IF ack THEN "CONNECT_ACK" ELSE "CONNECT"
          [] row = 3              -> IF ack THEN "DISCONNECT_ACK" ELSE "DISCONNECT"
          [] row \in 4..6         -> IF ack THEN "invalid_argument" ELSE "DATA"
          [] row = 7              -> IF ack THEN "invalid_argument" ELSE "ERROR"

-----------------------------------------------------------------------------
(* The stream; r has the data of a chunk, stickyBuffer and the packets processed. *)

\* ntohs of the first two bytes. What is not the beginning of a packet is taken for the
\* size of one all the same.
packetSize(bytes) == IF bytes[1].place = 1 THEN bytes[1].size ELSE 0

processRelayPacket(r, packet) == [r EXCEPT !.got = Append(@, packet)]

\* n bytes of the data are moved to stickyBuffer.
Stick(r, n) ==
    [r EXCEPT !.sticky = @ \o SubSeq(r.data, 1, n), !.data = SubSeq(@, n + 1, Len(@))]

\* stickyBuffer is filled up to the header.
HeaderFirst(r) ==
    LET rs == PACKET_HEADER_BYTES - Len(r.sticky)
    IN  IF rs <= 0 THEN r ELSE Stick(r, IF Len(r.data) < rs THEN Len(r.data) ELSE rs)

MutRestOfPacket(r) ==
    LET rs == packetSize(r.sticky) - Len(r.sticky)
    IN  IF Len(r.data) <= rs THEN Stick(r, Len(r.data))
        ELSE LET r1 == Stick(r, rs) IN [processRelayPacket(r1, r1.sticky) EXCEPT !.sticky = <<>>]

\* And then to the whole packet.
RestOfPacket(r) ==
    LET rs == packetSize(r.sticky) - Len(r.sticky)
    IN  IF Len(r.data) < rs THEN Stick(r, Len(r.data))
        ELSE LET r1 == Stick(r, rs) IN [processRelayPacket(r1, r1.sticky) EXCEPT !.sticky = <<>>]

\* One round of the loop over the packets that are complete in the data.
Round(r) ==
    IF Len(r.data) < PACKET_HEADER_BYTES \/ Len(r.data) < packetSize(r.data)
    THEN Stick(r, Len(r.data))
    ELSE [processRelayPacket(r, SubSeq(r.data, 1, packetSize(r.data)))
            EXCEPT !.data = SubSeq(@, packetSize(r.data) + 1, Len(@))]

onRelayRead(c, data) ==
    LET r0 == [data |-> data, sticky |-> c.sticky, got |-> c.got]
        r1 == IF c.sticky = <<>> THEN r0 ELSE HeaderFirst(r0)
        r2 == IF c.sticky = <<>> \/ Len(r1.sticky) < PACKET_HEADER_BYTES THEN r1 ELSE RestOfPacket(r1)
        r3 == FoldLeft(LAMBDA r, i : IF r.data = <<>> THEN r ELSE Round(r),
                       r2, [i \in 1..Len(data) |-> i])
    IN  [sticky |-> r3.sticky, got |-> r3.got]

-----------------------------------------------------------------------------
(* What the server sends. *)

send(size) == Len(sizes) < MaxPackets /\ sizes' = Append(sizes, size)

Bytes(n) == [i \in 1..sizes[n] |-> [packet |-> n, size |-> sizes[n], place |-> i]]

Packets == [n \in 1..Len(sizes) |-> Bytes(n)]

\* bytes in chunks that end after each of the cuts.
Chunks(bytes, cuts) ==
    LET ends == SelectSeq([i \in 1..Len(bytes) |-> i], LAMBDA i : i \in cuts \cup {Len(bytes)})
    IN  [i \in 1..Len(ends) |-> SubSeq(bytes, (IF i = 1 THEN 0 ELSE ends[i - 1]) + 1, ends[i])]

\* The packets whose last byte is among the first n of the stream.
Complete(n) ==
    SelectSeq(Packets, LAMBDA p : FoldLeft(+, 0, SubSeq(sizes, 1, p[1].packet)) <= n)

-----------------------------------------------------------------------------
\* However the stream is cut into chunks, onRelayRead processes the packets one by one,
\* whole, in order, and as soon as their last byte is there; and the type that valueOf
\* sees is the type that was sent, for every flag that value may have picked for it. An
\* ERROR is the exception.
PacketsArrive ==
    LET stream == FlattenSeq(Packets)
    IN  /\ \A n \in 1..Len(stream) : \A cuts \in SUBSET (1..n - 1) :
              LET end == FoldLeft(onRelayRead, [sticky |-> <<>>, got |-> <<>>],
                                  Chunks(SubSeq(stream, 1, n), cuts))
              IN  /\ end.got = Complete(n)
                  /\ FlattenSeq(end.got) \o end.sticky = SubSeq(stream, 1, n)
        /\ \A type \in Types \ {"ERROR"} : \A flag \in value(type) : valueOf(flag) = type
=============================================================================
