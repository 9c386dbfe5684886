------------------------------ MODULE Adapters ------------------------------
(***************************************************************************)
(* The adapters below a TCPConnection (tcp_helpers/fd_adapter.cc,          *)
(* tcp_over_ip.cc, tuntap_adapter.cc and lossy_fd_adapter.hh): a server s  *)
(* that listens and clients a and b that know it, over UDP, over a TUN     *)
(* device, or, s and a only, over a TAP device with ARP.  What they write  *)
(* travels as bytes that the network may damage.                           *)
(***************************************************************************)
EXTENDS Wire, TLC

CONSTANTS Kinds,        \* the adapters: a subset of {"udp", "tun", "tap"}
          Address,      \* the IP address and the port of each station
          Ethernet,     \* its Ethernet address
          Segments,     \* the segments each station writes, in their order
          NoSegment,    \* an empty optional<TCPSegment>
          Broadcast, RequestTimeout, MappingTimeout,
          MaxDrops,     \* how many segments the lossy adapters drop
          MaxDamaged,   \* how many datagrams the network damages
          MaxTime

INSTANCE NetworkInterface

Stations == {"s", "a", "b"}

VARIABLES kind,      \* the adapters in use
          adapter,   \* the adapter of each station
          link,      \* the datagrams on their way to each station
          todo,      \* the segments each station is still to write, or to write again
          sent, got, \* the segments each has written and has been given
          drops, damaged

vars == <<kind, adapter, link, todo, sent, got, drops, damaged>>

Anywhere == [ip |-> <<0, 0>>, port |-> 0]

NewAdapter(source, destination, next_hop, eth) ==
    [source |-> source, destination |-> destination, listening |-> destination = Anywhere,
     interface |-> NewInterface(eth, source.ip), next_hop |-> next_hop]

(* A TAP device ignores the first frame, so that each adapter starts with  *)
(* a frame of zeros; the network here delivers it.                         *)
DummyFrame == [bytes |-> Padding(EthernetLength), source |-> Anywhere]

Init ==
    /\ kind \in Kinds
    /\ adapter = [st \in Stations |->
                    IF st = "s" THEN NewAdapter(Address["s"], Anywhere, Address["a"].ip, Ethernet["s"])
                    ELSE NewAdapter(Address[st], Address["s"], Address["s"].ip, Ethernet[st])]
    /\ link = [st \in Stations |-> IF kind = "tap" /\ st # "b" THEN <<DummyFrame>> ELSE <<>>]
    /\ todo = Segments
    /\ sent = [st \in Stations |-> {}] /\ got = [st \in Stations |-> {}]
    /\ drops = 0 /\ damaged = 0
-----------------------------------------------------------------------------
(* write() and read() say how the adapter is afterwards, which segment     *)
(* they return and which bytes they send.                                  *)
Result(a, seg, out) == [adapter |-> a, segment |-> seg, out |-> out]

WithPorts(a, seg) == [seg EXCEPT !.sport = a.source.port, !.dport = a.destination.port]

(* Mutant: the checksum is computed before the length is known.            *)
WrapLengthLast(a, seg) ==
    LET h   == [IPv4Header EXCEPT !.src = a.source.ip, !.dst = a.destination.ip]
        len == 4 * h.hlen + 4 * seg.doff + Len(seg.payload)
    IN  IPv4Serialize([h EXCEPT !.len = len], TCPSerialize(WithPorts(a, seg), PseudoCksum(h)))

WrapTCPInIP(a, seg) ==
    LET h == [IPv4Header EXCEPT !.src = a.source.ip, !.dst = a.destination.ip,
                                !.len = 4 * IPv4Header.hlen + 4 * seg.doff + Len(seg.payload)]
    IN  IPv4Serialize(h, TCPSerialize(WithPorts(a, seg), PseudoCksum(h)))

(* Mutant: the adapter goes on listening after a SYN.                      *)
StillListening(a, source, destination) ==
    [a EXCEPT !.source = source, !.destination = destination]

TargetSource(a, source, destination) ==
    [a EXCEPT !.source = source, !.destination = destination, !.listening = FALSE]

UnwrapTCPInIP(a, dgram) ==
    LET h       == dgram.header
        seg     == TCPParse(dgram.payload, PseudoCksum(h))
        opening == seg.syn /\ ~seg.rst
        b       == IF ~a.listening THEN a
                   ELSE TargetSource(a, [ip |-> h.dst, port |-> a.source.port],
                                        [ip |-> h.src, port |-> seg.sport])
    IN  IF \/ ~a.listening /\ (h.dst # a.source.ip \/ h.src # a.destination.ip)
           \/ h.proto # ProtoTCP \/ seg = Garbled
        THEN Result(a, NoSegment, <<>>)
        ELSE IF seg.dport # a.source.port \/ (a.listening /\ ~opening)
        THEN Result(a, NoSegment, <<>>)
        ELSE Result(b, IF seg.sport # b.destination.port THEN NoSegment ELSE seg, <<>>)

UDPRead(a, datagram) ==
    LET seg == TCPParse(datagram.bytes, 0)
    IN  IF (~a.listening /\ datagram.source # a.destination) \/ seg = Garbled
        THEN Result(a, NoSegment, <<>>)
        ELSE IF ~a.listening THEN Result(a, seg, <<>>)
        ELSE IF ~seg.syn \/ seg.rst THEN Result(a, NoSegment, <<>>)
        ELSE Result(TargetSource(a, a.source, datagram.source), seg, <<>>)

TunRead(a, datagram) ==
    LET dgram == IPv4Parse(datagram.bytes)
    IN  IF dgram = Garbled THEN Result(a, NoSegment, <<>>) ELSE UnwrapTCPInIP(a, dgram)

(* The frames of the interface, to the TAP device.  A request leaves the   *)
(* target's Ethernet address open.                                         *)
FrameBytes(frame) ==
    LET target == IF frame.dst = Broadcast THEN Padding(3) ELSE frame.dst
    IN  IF frame.type = "IPv4"
        THEN EthernetSerialize([frame EXCEPT !.type = TypeIPv4], frame.payload)
        ELSE EthernetSerialize([frame EXCEPT !.type = TypeARP],
                ArpSerialize(frame.payload @@ [target_ethernet_address |-> target]))

SendPending(a) ==
    Result([a EXCEPT !.interface.frames_out = <<>>], NoSegment,
           [i \in DOMAIN a.interface.frames_out |-> FrameBytes(a.interface.frames_out[i])])

(* The interface sees the frame as its parse of the payload.               *)
ParsedFrame(bytes) ==
    LET f == EthernetParse(bytes)
    IN  CASE f.type = TypeIPv4 -> [f EXCEPT !.type = "IPv4", !.payload = IPv4Parse(@)]
          [] f.type = TypeARP  -> [f EXCEPT !.type = "ARP", !.payload = ArpParse(@)]
          [] OTHER             -> [f EXCEPT !.type = "other", !.payload = Garbled]

TapRead(a, datagram) ==
    LET n       == RecvFrame(a.interface, ParsedFrame(datagram.bytes))
        pending == SendPending([a EXCEPT !.interface = [n EXCEPT !.datagrams_out = <<>>]])
    IN  IF n.datagrams_out = <<>> THEN pending
        ELSE [UnwrapTCPInIP(pending.adapter, Head(n.datagrams_out)) EXCEPT !.out = pending.out]

AdapterRead(a, datagram) ==
    CASE kind = "udp" -> UDPRead(a, datagram)
      [] kind = "tun" -> TunRead(a, datagram)
      [] kind = "tap" -> TapRead(a, datagram)

AdapterWrite(a, seg) ==
    CASE kind = "udp" -> Result(a, NoSegment, <<TCPSerialize(WithPorts(a, seg), 0)>>)
      [] kind = "tun" -> Result(a, NoSegment, <<WrapTCPInIP(a, seg)>>)
      [] kind = "tap" -> SendPending([a EXCEPT !.interface =
                             SendDatagram(@, WrapTCPInIP(a, seg), a.next_hop)])
-----------------------------------------------------------------------------
(* The station that what st sends gets to.                                 *)
To(st) ==
    IF kind = "tap" THEN CHOOSE other \in {"s", "a"} : other # st
    ELSE CHOOSE other \in Stations : Address[other].ip = adapter[st].destination.ip

(* Station st goes to state a and sends out, while rest stays on its way   *)
(* to it.                                                                  *)
Send(st, a, out, rest) ==
    /\ adapter' = [adapter EXCEPT ![st] = a]
    /\ link' = IF out = <<>> THEN [link EXCEPT ![st] = rest]
               ELSE [link EXCEPT ![st] = rest,
                                 ![To(st)] = @ \o [i \in DOMAIN out |->
                                               [bytes |-> out[i], source |-> Address[st]]]]

(* The segment as it was written: the checksum is only on the wire.        *)
Content(seg) == [seg EXCEPT !.cksum = 0]

(* A lossy adapter drops a segment before it writes it, or after it has    *)
(* read it.  The connection that wrote it does so again.                   *)
MayDrop(drop) == drop => drops < MaxDrops

WriteSegment(st, drop) ==
    LET a   == adapter[st]
        seg == Head(todo[st])
        r   == IF drop THEN Result(a, NoSegment, <<>>) ELSE AdapterWrite(a, seg)
    IN  /\ todo[st] # <<>> /\ ~a.listening
        /\ kind = "tap" => st # "b"
        /\ MayDrop(drop)
        /\ drops' = IF drop THEN drops + 1 ELSE drops
        /\ todo' = IF drop THEN todo ELSE [todo EXCEPT ![st] = Tail(@)]
        /\ sent' = IF drop THEN sent ELSE [sent EXCEPT ![st] = @ \cup {WithPorts(a, seg)}]
        /\ Send(st, r.adapter, r.out, link[st])
        /\ UNCHANGED <<kind, got, damaged>>

(* One byte of a datagram changes, or its end is cut.                      *)
Damaged(bytes) ==
    UNION {{SubSeq(bytes, 1, i - 1)} \cup
           {[bytes EXCEPT ![i] = (@ + d) % 256] : d \in {1, 16, 128, 255}} : i \in DOMAIN bytes}

(* The datagram at the front arrives, damaged or not.                      *)
ReadSegment(st, drop) ==
    LET datagram == Head(link[st])
        damage   == IF damaged < MaxDamaged THEN Damaged(datagram.bytes) ELSE {}
    IN  /\ link[st] # <<>>
        /\ MayDrop(drop)
        /\ drops' = IF drop THEN drops + 1 ELSE drops
        /\ \E bytes \in {datagram.bytes} \cup damage :
             LET r     == AdapterRead(adapter[st], [datagram EXCEPT !.bytes = bytes])
                 again == <<Content(r.segment)>>
             IN  /\ drop => r.segment # NoSegment
                 /\ damaged' = IF bytes = datagram.bytes THEN damaged ELSE damaged + 1
                 /\ got' = [got EXCEPT ![st] =
                              IF drop \/ r.segment = NoSegment THEN @ ELSE @ \cup {r.segment}]
                 /\ todo' = IF ~drop THEN todo
                            ELSE [other \in Stations |->
                                    IF Address[other].port = r.segment.sport
                                    THEN again \o todo[other] ELSE todo[other]]
                 /\ Send(st, r.adapter, r.out, Tail(link[st]))
        /\ UNCHANGED <<kind, sent>>

AdapterTick(st) ==
    /\ kind = "tap" /\ st # "b"
    /\ adapter[st].interface.system_time < MaxTime
    /\ LET r == SendPending([adapter[st] EXCEPT !.interface = InterfaceTick(@, 1)])
       IN  Send(st, r.adapter, r.out, link[st])
    /\ UNCHANGED <<kind, todo, sent, got, drops, damaged>>

Next ==
    \E st \in Stations :
        \/ \E drop \in BOOLEAN : WriteSegment(st, drop) \/ ReadSegment(st, drop)
        \/ AdapterTick(st)

Spec == Init /\ [][Next]_vars
-----------------------------------------------------------------------------
(* What an adapter returns was written, field by field and byte by byte,   *)
(* by the station at its other end, though the network damages datagrams   *)
(* and IPv4Datagram::parse ignores what IPv4Header::parse finds            *)
(* (tcp_segment.cc:15, ipv4_datagram.cc:13).                               *)
Intact ==
    \A st \in Stations : \A seg \in got[st] :
        \E other \in Stations \ {st} : Content(seg) \in sent[other]

(* The adapter that listens takes the first SYN's sender for its peer, and *)
(* gives the connection nothing that another one sends (fd_adapter.cc:36,  *)
(* tcp_over_ip.cc:55).                                                     *)
OnePeer ==
    \A st \in Stations : \A seg \in got[st] : seg.sport = adapter[st].destination.port

(* When nothing is on its way and nothing was damaged, each adapter has    *)
(* given to its connection all that the peer wrote, except what is to be   *)
(* written again: no filter, checksum or length rejects a good datagram,   *)
(* ARP holds none back, and a SYN is accepted also when it comes again     *)
(* because the first one, which ended the listening, was dropped           *)
(* (tcp_over_ip.cc:84, :87, tuntap_adapter.cc:30, lossy_fd_adapter.hh:43). *)
Accepted ==
    (\A st \in Stations : link[st] = <<>>) /\ damaged = 0 =>
        \A st \in Stations :
            LET again == {WithPorts(adapter[st], todo[st][i]) : i \in DOMAIN todo[st]}
            IN  \A seg \in sent[st] \ again :
                    adapter[To(st)].destination \in {Address[st], Anywhere} =>
                        seg \in {Content(given) : given \in got[To(st)]}
=============================================================================
