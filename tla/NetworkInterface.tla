-------------------------- MODULE NetworkInterface --------------------------
(***************************************************************************)
(* The class of libsponge/network_interface.cc as a data type, with the    *)
(* queue of received datagrams of AsyncNetworkInterface (router.hh).  A    *)
(* frame carries a datagram, an ARP message or bytes that do not parse.    *)
(***************************************************************************)
EXTENDS OrderedMap, Sequences

CONSTANTS Broadcast,        \* ETHERNET_BROADCAST
          Garbled,          \* a payload that parse() rejects
          RequestTimeout,   \* FIVE_THOUSANDS_MS
          MappingTimeout    \* THIRTY_THOUSANDS_MS

ASSUME InterfaceAssumption == RequestTimeout \in Nat /\ MappingTimeout \in Nat

NewInterface(ethernet_address, ip_address) ==
    [ethernet_address |-> ethernet_address, ip_address |-> ip_address,
     frames_out |-> <<>>, ip_to_eth_table |-> EmptyMap, ip_timeout_table |-> EmptyMap,
     dg_map |-> EmptyMap, system_time |-> 0, datagrams_out |-> <<>>]

Frame(n, type, dst, payload) ==
    [src |-> n.ethernet_address, dst |-> dst, type |-> type, payload |-> payload]

(* No receiver looks at the target Ethernet address of an ARP message.     *)
ArpFrame(n, dst, opcode, target_ip) ==
    Frame(n, "ARP", dst,
          [opcode |-> opcode, sender_ethernet_address |-> n.ethernet_address,
           sender_ip_address |-> n.ip_address, target_ip_address |-> target_ip])

(* The datagrams that wait for the address of ip.                          *)
Queue(n, ip) == IF ip \in DOMAIN n.dg_map THEN n.dg_map[ip] ELSE <<>>

SetQueue(n, ip, queue) == [n EXCEPT !.dg_map = Insert(Erase(@, {ip}), ip, queue)]

(* Mutant: the queue is not emptied.                                       *)
FlushKeepsQueue(n, ip, eth) ==
    LET queue == Queue(n, ip)
    IN  [n EXCEPT !.frames_out = @ \o [i \in DOMAIN queue |-> Frame(n, "IPv4", eth, queue[i])]]

(* Mutant: only the front of the queue leaves.                             *)
FlushFront(n, ip, eth) ==
    LET queue == Queue(n, ip)
    IN  IF queue = <<>> THEN n
        ELSE [SetQueue(n, ip, Tail(queue)) EXCEPT
                 !.frames_out = Append(@, Frame(n, "IPv4", eth, Head(queue)))]

FlushInterface(n, ip, eth) ==
    LET queue == Queue(n, ip)
    IN  [SetQueue(n, ip, <<>>) EXCEPT
            !.frames_out = @ \o [i \in DOMAIN queue |-> Frame(n, "IPv4", eth, queue[i])]]

(* A datagram leaves at once when the address is known, and waits behind a *)
(* request otherwise.  The time of the first request is the one that       *)
(* stays.                                                                  *)
SendDatagram(n, dgram, next_hop) ==
    LET queued  == SetQueue(n, next_hop, Append(Queue(n, next_hop), dgram))
        pending == /\ next_hop \in DOMAIN n.ip_timeout_table
                   /\ n.system_time - n.ip_timeout_table[next_hop] <= RequestTimeout
    IN  IF next_hop \in DOMAIN n.ip_to_eth_table
        THEN FlushInterface(queued, next_hop, n.ip_to_eth_table[next_hop])
        ELSE IF pending THEN queued
        ELSE [queued EXCEPT
                 !.frames_out = Append(@, ArpFrame(n, Broadcast, "REQUEST", next_hop)),
                 !.ip_timeout_table = Insert(@, next_hop, n.system_time)]

(* Mutant: an interface learns from frames that are about a third one.     *)
LearnTarget(n, frame) ==
    [n EXCEPT !.ip_to_eth_table = Insert(@, frame.payload.target_ip_address, frame.src),
              !.ip_timeout_table = Insert(@, frame.payload.target_ip_address, n.system_time)]

(* A new address is learned; the time of the request for it, if there was  *)
(* one, stays.                                                             *)
Learn(n, frame) ==
    LET ip == frame.payload.sender_ip_address
    IN  IF ip \in DOMAIN n.ip_to_eth_table THEN n
        ELSE [n EXCEPT !.ip_to_eth_table = Insert(@, ip, frame.src),
                       !.ip_timeout_table = Insert(@, ip, n.system_time)]

RecvFrame(n, frame) ==
    LET learned == Learn(n, frame)
        arp     == frame.payload
    IN  IF frame.dst \notin {Broadcast, n.ethernet_address} \/ frame.payload = Garbled THEN n
        ELSE IF frame.type = "IPv4"
             THEN [n EXCEPT !.datagrams_out = Append(@, frame.payload)]
        ELSE IF arp.target_ip_address # n.ip_address THEN learned
        ELSE IF arp.opcode = "REQUEST"
             THEN [learned EXCEPT !.frames_out =
                      Append(@, ArpFrame(n, frame.src, "REPLY", arp.sender_ip_address))]
        ELSE FlushInterface(learned, arp.sender_ip_address, arp.sender_ethernet_address)

(* Mutant: mappings are not removed with their times.                      *)
TickForgetsTimes(n, ms) ==
    LET old == {ip \in DOMAIN n.ip_timeout_table :
                    n.system_time + ms - n.ip_timeout_table[ip] > MappingTimeout}
    IN  [n EXCEPT !.system_time = @ + ms, !.ip_timeout_table = Erase(@, old)]

InterfaceTick(n, ms) ==
    LET old == {ip \in DOMAIN n.ip_timeout_table :
                    n.system_time + ms - n.ip_timeout_table[ip] > MappingTimeout}
    IN  [n EXCEPT !.system_time = @ + ms, !.ip_to_eth_table = Erase(@, old),
                  !.ip_timeout_table = Erase(@, old)]

-----------------------------------------------------------------------------
(* Every address in use and every request has a time, of the past and not  *)
(* older than MappingTimeout: tick() never misses one, though both tables  *)
(* are kept apart and a request and a mapping share their time.            *)
TablesFresh(n) ==
    /\ DOMAIN n.ip_to_eth_table \subseteq DOMAIN n.ip_timeout_table
    /\ \A ip \in DOMAIN n.ip_timeout_table :
          /\ n.ip_timeout_table[ip] <= n.system_time
          /\ n.system_time - n.ip_timeout_table[ip] <= MappingTimeout
=============================================================================
