-------------------------- MODULE NetworkSimulator --------------------------
(***************************************************************************)
(* The network of apps/network_simulator.cc: hosts around a router with    *)
(* one interface per link.  The simulator routes and moves frames in a     *)
(* fixed order and never lets time pass; here the router, the links and    *)
(* the clock take their steps in any order, and a link may garble what it  *)
(* moves.  Addresses have 8 bits that keep how the simulator's prefixes    *)
(* relate; eth1, which has no host, and eth2, which is like eth0, are left *)
(* out.                                                                    *)
(***************************************************************************)
EXTENDS Router

CONSTANTS Traffic,       \* who sends, to which address and with which time to live
          RouteOrders,   \* the orders in which the routes may be added
          MaxDatagrams,  \* how many datagrams are sent
          MaxGarbled,    \* how many times a link garbles its frames
          MaxTime        \* how long the clock runs

(* The router's interfaces: default, eth0, uun3, hs4, mit5.                *)
PortAddress == <<226, 1, 65, 130, 195>>

HostAddress == [applesauce |-> 2, dm42 |-> 66, dm43 |-> 67, hs_router |-> 129,
                default_router |-> 225]

(* The hosts that have a router to send to.                                *)
NextHop == [applesauce |-> 1, dm42 |-> 65, dm43 |-> 65]

(* Prefix, length, next hop and interface: 0/0, 10/8, 198.178.229/24,      *)
(* 143.195.0/17, 143.195.128/18, 143.195.192/19, 128.30.76.255/16.         *)
Routes == <<<<0, 0, 225, 1>>, <<0, 2, NoHop, 2>>, <<64, 2, NoHop, 3>>,
            <<128, 3, 129, 4>>, <<160, 4, 129, 4>>, <<176, 5, 129, 4>>,
            <<195, 3, 193, 5>>>>

(* The hosts that share a link with each interface; mit5 has no link.      *)
LinkHosts == <<<<"default_router">>, <<"applesauce">>, <<"dm42", "dm43">>,
               <<"hs_router">>, <<>>>>

ASSUME SimulatorAssumption ==
    /\ AddressBits = 8 /\ Traffic \subseteq (DOMAIN NextHop) \X (0..255) \X (0..255)
    /\ {MaxDatagrams, MaxGarbled, MaxTime} \subseteq Nat
    /\ \A order \in RouteOrders :
          order \in [DOMAIN Routes -> DOMAIN Routes] /\ Range(order) = DOMAIN Routes

Hosts == DOMAIN HostAddress
Linked == {port \in DOMAIN LinkHosts : LinkHosts[port] # <<>>}

ASSUME BroadcastAssumption ==
    Broadcast \notin ({"port"} \X DOMAIN PortAddress) \cup ({"host"} \X Hosts)

VARIABLES router,
          hosts,      \* the interface of each host
          expecting,  \* the datagrams each host is to receive
          sent,       \* the number of datagrams sent
          garbled     \* the number of times a link garbled its frames

vars == <<router, hosts, expecting, sent, garbled>>

Init ==
    /\ \E order \in RouteOrders :
          LET ports == NewRouter([i \in DOMAIN PortAddress |->
                                     NewInterface(<<"port", i>>, PortAddress[i])])
              add(r, i) == AddRoute(r, Routes[i][1], Routes[i][2], Routes[i][3], Routes[i][4])
          IN  router = FoldLeft(add, ports, order)
    /\ hosts = [h \in Hosts |-> NewInterface(<<"host", h>>, HostAddress[h])]
    /\ expecting = [h \in Hosts |-> {}]
    /\ sent = 0 /\ garbled = 0

(* The route for dst by its definition: of the routes whose high-order     *)
(* bits dst shares, one with the longest prefix.                           *)
BestRoute(dst) ==
    LET High(ip, length) == ip \div 2^(AddressBits - length)
        applicable == {i \in DOMAIN Routes :
                          High(dst, Routes[i][2]) = High(Routes[i][1], Routes[i][2])}
    IN  Routes[CHOOSE i \in applicable :
                  \A j \in applicable : Routes[j][2] <= Routes[i][2]]

(* The hosts that should get a datagram to dst: one, or none.              *)
Receivers(dst) ==
    LET hop == IF BestRoute(dst)[3] = NoHop THEN dst ELSE BestRoute(dst)[3]
    IN  {h \in Range(LinkHosts[BestRoute(dst)[4]]) : HostAddress[h] = hop}

(* The payload is random: its number tells a datagram from the others.     *)
NewDatagram(dst, ttl) == [id |-> sent, dst |-> dst, ttl |-> ttl]

(* Host h sends, and whoever should receive it expects it, after one hop.  *)
SendTo(h, dst, ttl) ==
    LET dgram == NewDatagram(dst, ttl)
    IN  /\ sent < MaxDatagrams /\ sent' = sent + 1
        /\ hosts' = [hosts EXCEPT ![h] = SendDatagram(@, dgram, NextHop[h])]
        /\ expecting' = [g \in Hosts |->
              IF g \in Receivers(dst) /\ ttl > 1
              THEN expecting[g] \cup {[dgram EXCEPT !.ttl = @ - 1]} ELSE expecting[g]]
        /\ UNCHANGED <<router, garbled>>

Route ==
    /\ router' = RouteAll(router)
    /\ UNCHANGED <<hosts, expecting, sent, garbled>>

(* All interfaces of a link give their frames to all others, whole or      *)
(* garbled; what they send in answer waits for the next exchange.          *)
Exchange(port, whole) ==
    LET ends      == <<router.interfaces[port]>> \o
                     [i \in DOMAIN LinkHosts[port] |-> hosts[LinkHosts[port][i]]]
        arriving(i) == FlattenSeq([j \in DOMAIN ends |->
                           IF i = j THEN <<>>
                           ELSE [k \in DOMAIN ends[j].frames_out |->
                                   IF whole THEN ends[j].frames_out[k]
                                   ELSE [ends[j].frames_out[k] EXCEPT !.payload = Garbled]]])
        after     == [i \in DOMAIN ends |->
                         FoldLeft(RecvFrame, [ends[i] EXCEPT !.frames_out = <<>>], arriving(i))]
    IN  /\ \E i \in DOMAIN ends : ends[i].frames_out # <<>>
        /\ garbled' = IF whole THEN garbled ELSE garbled + 1
        /\ garbled' <= MaxGarbled
        /\ router' = [router EXCEPT !.interfaces[port] = after[1]]
        /\ hosts' = [h \in Hosts |->
              IF h \in Range(LinkHosts[port])
              THEN after[1 + CHOOSE i \in DOMAIN LinkHosts[port] : LinkHosts[port][i] = h]
              ELSE hosts[h]]
        /\ UNCHANGED <<expecting, sent>>

RemoveExpectations(h, dgrams) == expecting[h] \ Range(dgrams)

(* A host takes the datagrams it has received off its list.                *)
Check(h) ==
    /\ hosts[h].datagrams_out # <<>>
    /\ expecting' = [expecting EXCEPT ![h] = RemoveExpectations(h, hosts[h].datagrams_out)]
    /\ hosts' = [hosts EXCEPT ![h].datagrams_out = <<>>]
    /\ UNCHANGED <<router, sent, garbled>>

(* Time passes for all interfaces.                                         *)
Tick ==
    /\ router.interfaces[1].system_time < MaxTime
    /\ router' = [router EXCEPT !.interfaces = [i \in DOMAIN @ |-> InterfaceTick(@[i], 1)]]
    /\ hosts' = [h \in Hosts |-> InterfaceTick(hosts[h], 1)]
    /\ UNCHANGED <<expecting, sent, garbled>>

Next ==
    \/ \E t \in Traffic : SendTo(t[1], t[2], t[3])
    \/ Route \/ Tick
    \/ \E port \in Linked, whole \in BOOLEAN : Exchange(port, whole)
    \/ \E h \in Hosts : Check(h)

Spec == Init /\ [][Next]_vars

(* simulate() routes and moves all frames 256 times before it checks.      *)
Fairness ==
    /\ []<>(\A i \in DOMAIN router.interfaces : router.interfaces[i].datagrams_out = <<>>)
    /\ \A i \in Linked :
          /\ []<>(router.interfaces[i].frames_out = <<>>)
          /\ \A h \in Range(LinkHosts[i]) : []<>(hosts[h].frames_out = <<>>)
    /\ \A h \in Hosts : []<>(hosts[h].datagrams_out = <<>>)

FairSpec == Spec /\ Fairness
-----------------------------------------------------------------------------
(* All interfaces, and the places at one where the datagram id is: in the  *)
(* queue for an address, in a frame, or with what was received.            *)
Interfaces == Range(router.interfaces) \cup Range(hosts)

In(dgrams, id) == {i \in DOMAIN dgrams : dgrams[i].id = id}

OnWire(frames, id) ==
    {i \in DOMAIN frames : frames[i].type = "IPv4" /\ frames[i].payload.id = id}

Places(n, id) ==
    (UNION {{<<"queue", ip, i>> : i \in In(n.dg_map[ip], id)} : ip \in DOMAIN n.dg_map})
    \cup {<<"frame", i>> : i \in OnWire(n.frames_out, id)}
    \cup {<<"received", i>> : i \in In(n.datagrams_out, id)}

(* check() finds only datagrams that are expected: each one goes where the *)
(* longest matching prefix says and has lost one from its time to live,    *)
(* and none is received that should have expired (router.cc:44, :47).      *)
NothingUnexpected ==
    \A h \in Hosts : Range(hosts[h].datagrams_out) \subseteq expecting[h]

(* A datagram is never in two places: what leaves a queue for the wire, or *)
(* one interface for another, is not left behind, however requests,        *)
(* replies and expiring addresses interleave (network_interface.cc:192).   *)
OneCopy ==
    \A id \in 0..(sent - 1) :
        Cardinality(UNION {{n.ethernet_address} \X Places(n, id) : n \in Interfaces}) <= 1

(* No interface uses an address longer than it may (network_interface.cc:  *)
(* 91, 131, 176).                                                          *)
Fresh == \A n \in Interfaces : TablesFresh(n)

(* What an interface has learned is true: the address belongs to the       *)
(* interface with that IP address on the same link                         *)
(* (network_interface.cc:127, :130).                                       *)
KnowsNeighbours ==
    \A port \in Linked :
        LET ends == {router.interfaces[port]} \cup {hosts[h] : h \in Range(LinkHosts[port])}
        IN  \A n \in ends : \A ip \in DOMAIN n.ip_to_eth_table :
                \E o \in ends : /\ o.ip_address = ip
                                /\ o.ethernet_address = n.ip_to_eth_table[ip]

(* Everything that is expected is received, unless a frame was garbled: no *)
(* datagram stays in a queue because its request went unanswered or its    *)
(* address expired before it was used (network_interface.cc:70, :133).     *)
AllReceived == []<>(garbled > 0 \/ \A h \in Hosts : expecting[h] = {})
=============================================================================
