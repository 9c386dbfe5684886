------------------------------- MODULE Wire -------------------------------
(***************************************************************************)
(* The bytes on the wire: the parser and unparser of util/parser.cc, the   *)
(* Internet checksum of util/util.cc, and the formats of TCP segments,     *)
(* IPv4 datagrams, ARP messages and Ethernet frames (tcp_helpers/).  The   *)
(* integers of TLC have 31 bits, so a u32 is the sequence of its two       *)
(* halves, and an Ethernet address that of its three.                      *)
(***************************************************************************)
EXTENDS Integers, Sequences

(* What a parse that is not NoError leaves.                                *)
CONSTANT Garbled

(* NetUnparser, big-endian.                                                *)
U8(val) == <<val % 256>>
U16(val) == <<(val \div 256) % 256, val % 256>>
U32(val) == U16(val[1]) \o U16(val[2])
Ethernet48(val) == U32(val) \o U16(val[3])

(* NetParser at an offset of a buffer that is long enough; every format    *)
(* gives up on a buffer that is not.                                       *)
U8At(buffer, offset) == buffer[offset + 1]
U16At(buffer, offset) == 256 * buffer[offset + 1] + buffer[offset + 2]
U32At(buffer, offset) == <<U16At(buffer, offset), U16At(buffer, offset + 2)>>
Ethernet48At(buffer, offset) == U32At(buffer, offset) \o <<U16At(buffer, offset + 4)>>

RemovePrefix(buffer, n) == SubSeq(buffer, n + 1, Len(buffer))

Padding(n) == [i \in 1..n |-> 0]

Bit(val, k) == (val \div 2^k) % 2 = 1
BitOf(flag, k) == IF flag THEN 2^k ELSE 0

(* Bytes at odd offsets are the low halves of 16-bit words.  The sum, its  *)
(* carries folded in, is given inverted.                                   *)
InternetChecksum(initial_sum, data) ==
    LET Sum[i \in 0..Len(data)] ==
            IF i = 0 THEN initial_sum
            ELSE Sum[i - 1] + (IF i % 2 = 1 THEN 256 ELSE 1) * data[i]
        Fold[ret \in Nat] == IF ret <= 65535 THEN ret
                             ELSE Fold[ret \div 65536 + (ret % 65536)]
    IN  65535 - Fold[Sum[Len(data)]]
-----------------------------------------------------------------------------
TCPLength == 20

TCPHeaderSerialize(h) ==
    U16(h.sport) \o U16(h.dport) \o U32(h.seqno) \o U32(h.ackno) \o U8(h.doff * 16)
    \o U8(BitOf(h.urg, 5) + BitOf(h.ack, 4) + BitOf(h.psh, 3) + BitOf(h.rst, 2)
          + BitOf(h.syn, 1) + BitOf(h.fin, 0))
    \o U16(h.win) \o U16(h.cksum) \o U16(h.uptr) \o Padding(4 * h.doff - TCPLength)

TCPSerialize(seg, datagram_layer_checksum) ==
    LET check == InternetChecksum(datagram_layer_checksum,
                                  TCPHeaderSerialize([seg EXCEPT !.cksum = 0]) \o seg.payload)
    IN  TCPHeaderSerialize([seg EXCEPT !.cksum = check]) \o seg.payload

(* A header that says it has fewer than 20 bytes is no error of the        *)
(* parser: its result is not looked at, and nothing is skipped.            *)
TCPHeaderParse(b) ==
    LET doff == U8At(b, 12) \div 16
        skip == IF doff < 5 THEN TCPLength ELSE 4 * doff
        fl_b == U8At(b, 13)
    IN  IF Len(b) < TCPLength THEN Garbled ELSE IF Len(b) < skip THEN Garbled
        ELSE [sport |-> U16At(b, 0), dport |-> U16At(b, 2), seqno |-> U32At(b, 4),
              ackno |-> U32At(b, 8), doff |-> doff, urg |-> Bit(fl_b, 5), ack |-> Bit(fl_b, 4),
              psh |-> Bit(fl_b, 3), rst |-> Bit(fl_b, 2), syn |-> Bit(fl_b, 1),
              fin |-> Bit(fl_b, 0), win |-> U16At(b, 14), cksum |-> U16At(b, 16),
              uptr |-> U16At(b, 18), payload |-> RemovePrefix(b, skip)]

(* Mutant: the checksum is not verified.                                   *)
TCPParseUnverified(buffer, datagram_layer_checksum) == TCPHeaderParse(buffer)

TCPParse(buffer, datagram_layer_checksum) ==
    IF InternetChecksum(datagram_layer_checksum, buffer) # 0 THEN Garbled
    ELSE TCPHeaderParse(buffer)
-----------------------------------------------------------------------------
IPv4Length == 20
ProtoTCP == 6

(* A default-constructed header.                                           *)
IPv4Header == [ver |-> 4, hlen |-> IPv4Length \div 4, tos |-> 0, len |-> 0, id |-> 0, df |-> TRUE,
               mf |-> FALSE, offset |-> 0, ttl |-> 128, proto |-> ProtoTCP, cksum |-> 0,
               src |-> <<0, 0>>, dst |-> <<0, 0>>]

PayloadLength(h) == (h.len - 4 * h.hlen) % 65536

PseudoCksum(h) == h.src[1] + h.src[2] + h.dst[1] + h.dst[2] + h.proto + PayloadLength(h)

IPv4HeaderSerialize(h) ==
    U8(h.ver * 16 + h.hlen) \o U8(h.tos) \o U16(h.len) \o U16(h.id)
    \o U16(BitOf(h.df, 14) + BitOf(h.mf, 13) + h.offset) \o U8(h.ttl) \o U8(h.proto)
    \o U16(h.cksum) \o U32(h.src) \o U32(h.dst) \o Padding(4 * h.hlen - IPv4Length)

IPv4Serialize(h, payload) ==
    LET check == InternetChecksum(0, IPv4HeaderSerialize([h EXCEPT !.cksum = 0]))
    IN  IPv4HeaderSerialize([h EXCEPT !.cksum = check]) \o payload

IPv4HeaderParse(b) ==
    LET fo_val == U16At(b, 6)
    IN  [ver |-> U8At(b, 0) \div 16, hlen |-> U8At(b, 0) % 16, tos |-> U8At(b, 1),
         len |-> U16At(b, 2), id |-> U16At(b, 4), df |-> Bit(fo_val, 14), mf |-> Bit(fo_val, 13),
         offset |-> fo_val % 2^13, ttl |-> U8At(b, 8), proto |-> U8At(b, 9),
         cksum |-> U16At(b, 10), src |-> U32At(b, 12), dst |-> U32At(b, 16)]

(* What IPv4Header::parse finds wrong with the version, the lengths or the *)
(* checksum keeps it from skipping options, and is not looked at           *)
(* otherwise: the datagram only has to have the length it says.            *)
IPv4Parse(buffer) ==
    LET size    == Len(buffer)
        h       == IF size < IPv4Length THEN IPv4Header ELSE IPv4HeaderParse(buffer)
        options == size >= 4 * h.hlen /\ h.ver = 4 /\ h.hlen >= 5 /\ size = h.len
        payload == RemovePrefix(buffer, IF size < IPv4Length THEN 0
                                        ELSE IF options THEN 4 * h.hlen ELSE IPv4Length)
    IN  IF Len(payload) # PayloadLength(h) THEN Garbled ELSE [header |-> h, payload |-> payload]
-----------------------------------------------------------------------------
ArpLength == 28
TypeIPv4 == 2048
TypeARP == 2054
ArpOpcodes == <<"REQUEST", "REPLY">>

(* Ethernet and IPv4: the only kind of message that supported() allows.    *)
ArpPrefix == U16(1) \o U16(TypeIPv4) \o U8(6) \o U8(4)

ArpSerialize(arp) ==
    ArpPrefix \o U16(CHOOSE i \in DOMAIN ArpOpcodes : ArpOpcodes[i] = arp.opcode)
    \o Ethernet48(arp.sender_ethernet_address) \o U32(arp.sender_ip_address)
    \o Ethernet48(arp.target_ethernet_address) \o U32(arp.target_ip_address)

ArpParse(b) ==
    IF Len(b) < ArpLength THEN Garbled
    ELSE IF SubSeq(b, 1, 6) # ArpPrefix \/ U16At(b, 6) \notin DOMAIN ArpOpcodes THEN Garbled
    ELSE [opcode |-> ArpOpcodes[U16At(b, 6)],
          sender_ethernet_address |-> Ethernet48At(b, 8), sender_ip_address |-> U32At(b, 14),
          target_ethernet_address |-> Ethernet48At(b, 18), target_ip_address |-> U32At(b, 24)]

EthernetLength == 14

EthernetSerialize(header, payload) ==
    Ethernet48(header.dst) \o Ethernet48(header.src) \o U16(header.type) \o payload

(* A frame shorter than its header is no error: it has a header of zeros   *)
(* and all of its bytes as payload.                                        *)
EthernetParse(b) ==
    IF Len(b) < EthernetLength
    THEN [dst |-> Padding(3), src |-> Padding(3), type |-> 0, payload |-> b]
    ELSE [dst |-> Ethernet48At(b, 0), src |-> Ethernet48At(b, 6), type |-> U16At(b, 12),
          payload |-> RemovePrefix(b, EthernetLength)]
=============================================================================
