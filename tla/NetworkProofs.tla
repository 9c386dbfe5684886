--------------------------- MODULE NetworkProofs ----------------------------
(***************************************************************************)
(* An interface and a router, for every owner, address and table, and the  *)
(* network of NetworkSimulator that is built from them, for any traffic,   *)
(* any order of the routes and any bounds: what its loops and its steps do, *)
(* and what every interface of it knows.                                   *)
(***************************************************************************)
EXTENDS NetworkSimulator, SequenceTheorems, FiniteSetTheorems, TLAPS

VARIABLES nic, rtr

-----------------------------------------------------------------------------
(* Every nonempty set of naturals has a least element: what begin() of a   *)
(* nonempty std::map refers to.                                            *)
LEMMA LeastOfNat ==
    ASSUME NEW S, S \subseteq Nat, S # {}
    PROVE  \E x \in S : \A y \in S : x <= y
<1> DEFINE R == OpToRel(<, Nat)
<1>1. IsWellFoundedOn(R, Nat)
  BY NatLessThanWellFounded, Zenon
<1>2. \A x, y \in Nat : <<y, x>> \in R <=> y < x
  BY DEF OpToRel
<1> HIDE DEF R
<1>3. PICK x \in S : \A y \in S : ~(<<y, x>> \in R)
  BY <1>1, WFMin, Zenon
<1>4. ASSUME NEW y \in S PROVE x <= y
  <2>1. x \in Nat /\ y \in Nat
    OBVIOUS
  <2>2. ~(y < x)
    BY <1>2, <1>3, <2>1, Zenon
  <2> QED
    BY <2>1, <2>2
<1> QED
  BY <1>4

(* A nonempty set of naturals with an upper bound has a greatest element.  *)
LEMMA MaxOfNat ==
    ASSUME NEW S, S \subseteq Nat, S # {}, NEW b \in Nat, \A y \in S : y <= b
    PROVE  Max(S) \in S /\ \A y \in S : y <= Max(S)
<1> DEFINE T == {n \in Nat : \A y \in S : y <= n}
<1>1. T \subseteq Nat /\ T # {}
  OBVIOUS
<1>2. PICK t \in T : \A y \in T : t <= y
  <2> HIDE DEF T
  <2> QED
    BY <1>1, LeastOfNat, Zenon
<1>3. t \in S
  <2>1. SUFFICES ASSUME t \notin S PROVE FALSE
    OBVIOUS
  <2>2. PICK y \in S : TRUE
    BY Zenon
  <2>3. t - 1 \in T
    BY <2>1, <2>2
  <2> QED
    BY <1>2, <2>3
<1> QED
  BY <1>2, <1>3, Zenon DEF Max

-----------------------------------------------------------------------------
(* The address table of an interface, whatever datagrams it is given to    *)
(* send, whatever frames arrive and however time passes.                   *)

(* The fields that the operations on the tables read.                      *)
InterfaceType(m) ==
    /\ m = [f \in DOMAIN NewInterface(0, 0) |-> m[f]]
    /\ m.system_time \in Nat
    /\ \A ip \in DOMAIN m.ip_timeout_table : m.ip_timeout_table[ip] \in Nat

InterfaceInit == \E eth, ip : nic = NewInterface(eth, ip)

(* Any owner of the interface: it may take what is queued at any time.     *)
InterfaceNext ==
    \/ \E dgram, next_hop : nic' = SendDatagram(nic, dgram, next_hop)
    \/ \E frame : nic' = RecvFrame(nic, frame)
    \/ \E ms \in Nat : nic' = InterfaceTick(nic, ms)
    \/ \E frames, datagrams :
          nic' = [nic EXCEPT !.frames_out = frames, !.datagrams_out = datagrams]

InterfaceSpec == InterfaceInit /\ [][InterfaceNext]_nic

TablesInv == InterfaceType(nic) /\ TablesFresh(nic)

Fields == {"ethernet_address", "ip_address", "frames_out", "ip_to_eth_table",
           "ip_timeout_table", "dg_map", "system_time", "datagrams_out"}

(* The shape of an interface.                                              *)
LEMMA Shape ==
    ASSUME NEW m
    PROVE  InterfaceType(m) <=>
              /\ m = [f \in Fields |-> m[f]]
              /\ m.system_time \in Nat
              /\ \A ip \in DOMAIN m.ip_timeout_table : m.ip_timeout_table[ip] \in Nat
<1>1. DOMAIN NewInterface(0, 0) = Fields
  BY DEF NewInterface, Fields
<1> QED
  BY <1>1 DEF InterfaceType

(* What depends on the tables and the clock alone is kept by every         *)
(* operation that leaves them as they are.                                 *)
LEMMA SameTables ==
    ASSUME NEW m, NEW p, InterfaceType(m), TablesFresh(m),
           p = [f \in Fields |-> p[f]],
           p.ip_to_eth_table = m.ip_to_eth_table,
           p.ip_timeout_table = m.ip_timeout_table, p.system_time = m.system_time
    PROVE  InterfaceType(p) /\ TablesFresh(p)
BY Shape DEF TablesFresh

(* flush_buffer() (network_interface.cc:188) and the push of a datagram    *)
(* leave the tables alone.                                                 *)
LEMMA QueueKeepsTables ==
    ASSUME NEW m, InterfaceType(m), NEW ip, NEW queue, NEW eth
    PROVE  \A p \in {SetQueue(m, ip, queue), FlushInterface(m, ip, eth)} :
              /\ p = [f \in Fields |-> p[f]]
              /\ p.ip_to_eth_table = m.ip_to_eth_table
              /\ p.ip_timeout_table = m.ip_timeout_table
              /\ p.system_time = m.system_time
<1>1. m = [f \in Fields |-> m[f]]
  BY Shape
<1>2. \A q : /\ SetQueue(m, ip, q) = [f \in Fields |-> SetQueue(m, ip, q)[f]]
             /\ SetQueue(m, ip, q).ip_to_eth_table = m.ip_to_eth_table
             /\ SetQueue(m, ip, q).ip_timeout_table = m.ip_timeout_table
             /\ SetQueue(m, ip, q).system_time = m.system_time
  BY <1>1 DEF SetQueue, Fields
<1>3. /\ FlushInterface(m, ip, eth) = [f \in Fields |-> FlushInterface(m, ip, eth)[f]]
      /\ FlushInterface(m, ip, eth).ip_to_eth_table = m.ip_to_eth_table
      /\ FlushInterface(m, ip, eth).ip_timeout_table = m.ip_timeout_table
      /\ FlushInterface(m, ip, eth).system_time = m.system_time
  <2> DEFINE s == SetQueue(m, ip, <<>>)
             out == s.frames_out \o [i \in DOMAIN Queue(m, ip) |->
                                       Frame(m, "IPv4", eth, Queue(m, ip)[i])]
  <2>1. FlushInterface(m, ip, eth) = [s EXCEPT !.frames_out = out]
    BY DEF FlushInterface
  <2>2. s = [f \in Fields |-> s[f]]
    BY <1>2
  <2> HIDE DEF s, out
  <2>3. \A o : /\ [s EXCEPT !.frames_out = o] = [f \in Fields |-> [s EXCEPT !.frames_out = o][f]]
               /\ [s EXCEPT !.frames_out = o].ip_to_eth_table = s.ip_to_eth_table
               /\ [s EXCEPT !.frames_out = o].ip_timeout_table = s.ip_timeout_table
               /\ [s EXCEPT !.frames_out = o].system_time = s.system_time
    BY <2>2 DEF Fields
  <2> QED
    BY <1>2, <2>1, <2>3 DEF s
<1> QED
  BY <1>2, <1>3

(* std::map's insert of the current time gives a new entry an age of zero  *)
(* and leaves an old entry alone.                                          *)
LEMMA InsertedTime ==
    ASSUME NEW times, NEW ip, NEW now \in Nat,
           \A k \in DOMAIN times : times[k] \in Nat /\ times[k] <= now
                                   /\ now - times[k] <= MappingTimeout
    PROVE  /\ DOMAIN Insert(times, ip, now) = DOMAIN times \cup {ip}
           /\ \A k \in DOMAIN times \cup {ip} :
                 /\ Insert(times, ip, now)[k] \in Nat
                 /\ Insert(times, ip, now)[k] <= now
                 /\ now - Insert(times, ip, now)[k] <= MappingTimeout
BY InterfaceAssumption DEF Insert

(* send_datagram() (network_interface.cc:35) keeps the tables fresh.       *)
LEMMA SendKeepsFresh ==
    ASSUME NEW m, InterfaceType(m), TablesFresh(m), NEW dgram, NEW hop
    PROVE  InterfaceType(SendDatagram(m, dgram, hop)) /\ TablesFresh(SendDatagram(m, dgram, hop))
<1> DEFINE queued == SetQueue(m, hop, Append(Queue(m, hop), dgram))
           asking == Append(queued.frames_out, ArpFrame(m, Broadcast, "REQUEST", hop))
           times  == Insert(queued.ip_timeout_table, hop, m.system_time)
           asked  == [queued EXCEPT !.frames_out = asking, !.ip_timeout_table = times]
<1>1. /\ queued = [f \in Fields |-> queued[f]]
      /\ queued.ip_to_eth_table = m.ip_to_eth_table
      /\ queued.ip_timeout_table = m.ip_timeout_table
      /\ queued.system_time = m.system_time
  BY QueueKeepsTables
<1>2. InterfaceType(queued) /\ TablesFresh(queued)
  BY <1>1, SameTables
<1>3. \A eth : /\ InterfaceType(FlushInterface(queued, hop, eth))
               /\ TablesFresh(FlushInterface(queued, hop, eth))
  <2> TAKE eth
  <2>1. LET p == FlushInterface(queued, hop, eth)
        IN  /\ p = [f \in Fields |-> p[f]] /\ p.ip_to_eth_table = queued.ip_to_eth_table
            /\ p.ip_timeout_table = queued.ip_timeout_table
            /\ p.system_time = queued.system_time
    BY <1>2, QueueKeepsTables
  <2> QED
    BY <1>2, <2>1, SameTables
<1>4. InterfaceType(asked) /\ TablesFresh(asked)
  <2>1. /\ m.system_time \in Nat
        /\ \A k \in DOMAIN m.ip_timeout_table :
              /\ m.ip_timeout_table[k] \in Nat /\ m.ip_timeout_table[k] <= m.system_time
              /\ m.system_time - m.ip_timeout_table[k] <= MappingTimeout
    BY Shape DEF TablesFresh
  <2>2. /\ DOMAIN times = DOMAIN m.ip_timeout_table \cup {hop}
        /\ \A k \in DOMAIN m.ip_timeout_table \cup {hop} :
              /\ times[k] \in Nat /\ times[k] <= m.system_time
              /\ m.system_time - times[k] <= MappingTimeout
    BY <1>1, <2>1, InsertedTime, Zenon
  <2> HIDE DEF queued, asking, times
  <2>3. /\ asked = [f \in Fields |-> asked[f]]
        /\ asked.ip_to_eth_table = m.ip_to_eth_table
        /\ asked.ip_timeout_table = times /\ asked.system_time = m.system_time
    BY <1>1, Zenon DEF Fields
  <2> HIDE DEF asked
  <2> QED
    BY <2>1, <2>2, <2>3, Shape DEF TablesFresh
<1> DEFINE pending == /\ hop \in DOMAIN m.ip_timeout_table
                      /\ m.system_time - m.ip_timeout_table[hop] <= RequestTimeout
<1>5. SendDatagram(m, dgram, hop) =
         IF hop \in DOMAIN m.ip_to_eth_table
         THEN FlushInterface(queued, hop, m.ip_to_eth_table[hop])
         ELSE IF pending THEN queued ELSE asked
  BY DEF SendDatagram
<1> HIDE DEF queued, asked, pending
<1> QED
  BY <1>2, <1>3, <1>4, <1>5

(* recv_frame() (network_interface.cc:100) keeps the tables fresh: a new   *)
(* mapping inherits the time of the request for it or gets the current     *)
(* time.                                                                   *)
LEMMA RecvKeepsFresh ==
    ASSUME NEW m, InterfaceType(m), TablesFresh(m), NEW frame
    PROVE  InterfaceType(RecvFrame(m, frame)) /\ TablesFresh(RecvFrame(m, frame))
<1> DEFINE ip == frame.payload.sender_ip_address
           learned == Learn(m, frame)
           times == Insert(m.ip_timeout_table, ip, m.system_time)
           addresses == Insert(m.ip_to_eth_table, ip, frame.src)
<1>1. /\ m = [f \in Fields |-> m[f]] /\ m.system_time \in Nat
      /\ \A k \in DOMAIN m.ip_timeout_table :
              /\ m.ip_timeout_table[k] \in Nat /\ m.ip_timeout_table[k] <= m.system_time
              /\ m.system_time - m.ip_timeout_table[k] <= MappingTimeout
  BY Shape DEF TablesFresh
<1>2. InterfaceType(learned) /\ TablesFresh(learned)
  <2>1. CASE ip \in DOMAIN m.ip_to_eth_table
    BY <2>1 DEF Learn
  <2>2. CASE ip \notin DOMAIN m.ip_to_eth_table
    <3>1. learned = [m EXCEPT !.ip_to_eth_table = addresses, !.ip_timeout_table = times]
      BY <2>2 DEF Learn
    <3>2. /\ DOMAIN times = DOMAIN m.ip_timeout_table \cup {ip}
          /\ \A k \in DOMAIN m.ip_timeout_table \cup {ip} :
                /\ times[k] \in Nat /\ times[k] <= m.system_time
                /\ m.system_time - times[k] <= MappingTimeout
      BY <1>1, InsertedTime, Zenon
    <3>3. DOMAIN addresses = DOMAIN m.ip_to_eth_table \cup {ip}
      BY DEF Insert
    <3> HIDE DEF times, addresses, ip, learned
    <3>4. /\ learned = [f \in Fields |-> learned[f]]
          /\ learned.ip_to_eth_table = addresses
          /\ learned.ip_timeout_table = times /\ learned.system_time = m.system_time
      BY <1>1, <3>1, Zenon DEF Fields
    <3> QED
      BY <1>1, <3>2, <3>3, <3>4, Shape DEF TablesFresh
  <2> QED
    BY <2>1, <2>2
<1> HIDE DEF learned
<1>3. \A o : InterfaceType([m EXCEPT !.datagrams_out = o])
             /\ TablesFresh([m EXCEPT !.datagrams_out = o])
  <2> TAKE o
  <2> DEFINE p == [m EXCEPT !.datagrams_out = o]
  <2>1. /\ p = [f \in Fields |-> p[f]] /\ p.ip_to_eth_table = m.ip_to_eth_table
        /\ p.ip_timeout_table = m.ip_timeout_table /\ p.system_time = m.system_time
    BY <1>1 DEF Fields
  <2> HIDE DEF p
  <2>2. InterfaceType(p) /\ TablesFresh(p)
    BY <2>1, SameTables
  <2> QED
    BY <2>2 DEF p
<1>4. \A o : InterfaceType([learned EXCEPT !.frames_out = o])
             /\ TablesFresh([learned EXCEPT !.frames_out = o])
  <2> TAKE o
  <2> DEFINE p == [learned EXCEPT !.frames_out = o]
  <2>1. learned = [f \in Fields |-> learned[f]]
    BY <1>2, Shape
  <2>2. /\ p = [f \in Fields |-> p[f]] /\ p.ip_to_eth_table = learned.ip_to_eth_table
        /\ p.ip_timeout_table = learned.ip_timeout_table
        /\ p.system_time = learned.system_time
    BY <2>1 DEF Fields
  <2> HIDE DEF p
  <2>3. InterfaceType(p) /\ TablesFresh(p)
    BY <1>2, <2>2, SameTables
  <2> QED
    BY <2>3 DEF p
<1>5. \A hop, eth : InterfaceType(FlushInterface(learned, hop, eth))
                    /\ TablesFresh(FlushInterface(learned, hop, eth))
  <2> TAKE hop, eth
  <2>1. LET p == FlushInterface(learned, hop, eth)
        IN  /\ p = [f \in Fields |-> p[f]] /\ p.ip_to_eth_table = learned.ip_to_eth_table
            /\ p.ip_timeout_table = learned.ip_timeout_table
            /\ p.system_time = learned.system_time
    BY <1>2, QueueKeepsTables
  <2> QED
    BY <1>2, <2>1, SameTables
<1> DEFINE mine == frame.dst \in {Broadcast, m.ethernet_address} /\ frame.payload # Garbled
           reply == Append(learned.frames_out, ArpFrame(m, frame.src, "REPLY", ip))
<1>6. RecvFrame(m, frame) =
         IF ~mine THEN m
         ELSE IF frame.type = "IPv4"
              THEN [m EXCEPT !.datagrams_out = Append(m.datagrams_out, frame.payload)]
         ELSE IF frame.payload.target_ip_address # m.ip_address THEN learned
         ELSE IF frame.payload.opcode = "REQUEST" THEN [learned EXCEPT !.frames_out = reply]
         ELSE FlushInterface(learned, ip, frame.payload.sender_ethernet_address)
  BY DEF RecvFrame, learned
<1> HIDE DEF mine, reply, ip
<1> QED
  BY <1>2, <1>3, <1>4, <1>5, <1>6, Zenon

(* tick() (network_interface.cc:168) removes from both tables what has     *)
(* become too old, and nothing else.                                       *)
LEMMA TickKeepsFresh ==
    ASSUME NEW m, InterfaceType(m), TablesFresh(m), NEW ms \in Nat
    PROVE  InterfaceType(InterfaceTick(m, ms)) /\ TablesFresh(InterfaceTick(m, ms))
<1> DEFINE old == {ip \in DOMAIN m.ip_timeout_table :
                      m.system_time + ms - m.ip_timeout_table[ip] > MappingTimeout}
           times == Erase(m.ip_timeout_table, old)
           addresses == Erase(m.ip_to_eth_table, old)
           now == m.system_time + ms
           p == [m EXCEPT !.system_time = now, !.ip_to_eth_table = addresses,
                          !.ip_timeout_table = times]
<1>1. /\ m = [f \in Fields |-> m[f]] /\ m.system_time \in Nat
      /\ DOMAIN m.ip_to_eth_table \subseteq DOMAIN m.ip_timeout_table
      /\ \A k \in DOMAIN m.ip_timeout_table :
              m.ip_timeout_table[k] \in Nat /\ m.ip_timeout_table[k] <= m.system_time
  BY Shape DEF TablesFresh
<1>2. /\ DOMAIN times = DOMAIN m.ip_timeout_table \ old
      /\ DOMAIN addresses = DOMAIN m.ip_to_eth_table \ old
      /\ \A k \in DOMAIN times : times[k] = m.ip_timeout_table[k]
  BY DEF Erase, Restrict
<1>3. /\ now \in Nat
      /\ \A k \in DOMAIN times :
            times[k] \in Nat /\ times[k] <= now /\ now - times[k] <= MappingTimeout
  <2>1. ASSUME NEW k \in DOMAIN times
        PROVE  times[k] \in Nat /\ times[k] <= now /\ now - times[k] <= MappingTimeout
    <3>1. k \in DOMAIN m.ip_timeout_table /\ k \notin old /\ times[k] = m.ip_timeout_table[k]
      BY <1>2
    <3>2. ~(m.system_time + ms - m.ip_timeout_table[k] > MappingTimeout)
      BY <3>1
    <3> HIDE DEF times, old
    <3> QED
      BY <1>1, <3>1, <3>2, InterfaceAssumption
  <2>2. now \in Nat
    BY <1>1
  <2> HIDE DEF times, now
  <2> QED
    BY <2>1, <2>2
<1>4. InterfaceTick(m, ms) = p
  BY DEF InterfaceTick
<1> HIDE DEF old, times, addresses, now
<1>5. /\ p = [f \in Fields |-> p[f]] /\ p.ip_to_eth_table = addresses
      /\ p.ip_timeout_table = times /\ p.system_time = now
  BY <1>1, Zenon DEF Fields
<1> HIDE DEF p
<1>6. DOMAIN addresses \subseteq DOMAIN times
  BY <1>1, <1>2
<1> QED
  BY <1>3, <1>4, <1>5, <1>6, Shape DEF TablesFresh

(* An address is never used, and a request never waited for, longer than   *)
(* MappingTimeout after it got its time, and no address is in use that     *)
(* tick() would not remove: for every timeout, for all datagrams, frames   *)
(* and times, in every order (network_interface.cc:91, :131, :176).        *)
THEOREM AlwaysFresh == InterfaceSpec => []TablesFresh(nic)
<1>1. InterfaceInit => TablesInv
  <2> SUFFICES ASSUME NEW eth, NEW ip, nic = NewInterface(eth, ip) PROVE TablesInv
    BY DEF InterfaceInit
  <2>1. /\ nic = [f \in Fields |-> nic[f]] /\ nic.system_time = 0
        /\ DOMAIN nic.ip_to_eth_table = {} /\ DOMAIN nic.ip_timeout_table = {}
    BY DEF NewInterface, Fields, EmptyMap
  <2> QED
    BY <2>1, Shape DEF TablesInv, TablesFresh
<1>2. TablesInv /\ [InterfaceNext]_nic => TablesInv'
  <2> SUFFICES ASSUME TablesInv, [InterfaceNext]_nic PROVE TablesInv'
    OBVIOUS
  <2>1. ASSUME NEW dgram, NEW next_hop, nic' = SendDatagram(nic, dgram, next_hop) PROVE TablesInv'
    BY <2>1, SendKeepsFresh DEF TablesInv
  <2>2. ASSUME NEW frame, nic' = RecvFrame(nic, frame) PROVE TablesInv'
    BY <2>2, RecvKeepsFresh DEF TablesInv
  <2>3. ASSUME NEW ms \in Nat, nic' = InterfaceTick(nic, ms) PROVE TablesInv'
    BY <2>3, TickKeepsFresh DEF TablesInv
  <2>4. ASSUME NEW frames, NEW datagrams,
               nic' = [nic EXCEPT !.frames_out = frames, !.datagrams_out = datagrams]
        PROVE  TablesInv'
    <3>1. nic = [f \in Fields |-> nic[f]]
      BY Shape DEF TablesInv
    <3>2. /\ nic' = [f \in Fields |-> nic'[f]] /\ nic'.ip_to_eth_table = nic.ip_to_eth_table
          /\ nic'.ip_timeout_table = nic.ip_timeout_table /\ nic'.system_time = nic.system_time
      BY <2>4, <3>1, Zenon DEF Fields
    <3> QED
      BY <3>2, SameTables DEF TablesInv
  <2>5. CASE UNCHANGED nic
    BY <2>5 DEF TablesInv, InterfaceType, TablesFresh
  <2> QED
    BY <2>1, <2>2, <2>3, <2>4, <2>5, Zenon DEF InterfaceNext
<1>3. TablesInv => TablesFresh(nic)
  BY DEF TablesInv
<1> QED
  BY <1>1, <1>2, <1>3, PTL DEF InterfaceSpec

-----------------------------------------------------------------------------
(* A router sends each datagram along a matching route with the longest    *)
(* prefix, whatever routes were added and in whatever order.               *)

Entry == [length : Nat, prefix : Nat, next_hop : Nat \cup {NoHop}, interface_num : Nat]

RouterInit == \E interfaces : rtr = NewRouter(interfaces)

(* Routes are added and datagrams routed at any time, and the interfaces   *)
(* go through all the states they have.                                    *)
RouterNext ==
    \/ \E e \in Entry : rtr' = AddRoute(rtr, e.prefix, e.length, e.next_hop, e.interface_num)
    \/ \E dgram : rtr' = RouteOneDatagram(rtr, dgram)
    \/ \E interfaces : rtr' = [rtr EXCEPT !.interfaces = interfaces]

RouterSpec == RouterInit /\ [][RouterNext]_rtr

(* The entries that RouteOneDatagram finds for an address.                 *)
Matching(table, dst) == {i \in DOMAIN table : table[i].prefix = MaskNet(dst, table[i].length)}

(* The entry that the search from the end of the table stops at is one     *)
(* with the longest prefix of those that match.                            *)
LongestFirst(table) ==
    \A dst : LET found == Matching(table, dst)
             IN  found # {} =>
                    /\ Max(found) \in found
                    /\ \A i \in found : table[i].length <= table[Max(found)].length

(* The inductive invariant: the table is sorted by the length of the       *)
(* prefixes.                                                               *)
Sorted(table) ==
    \A i, j \in DOMAIN table : i < j => table[i].length <= table[j].length

RouterInv ==
    /\ rtr = [f \in {"interfaces", "rtable"} |-> rtr[f]]
    /\ rtr.rtable \in Seq(Entry) /\ Sorted(rtr.rtable)

(* The lengths in a table are numbers.                                     *)
LEMMA TableType ==
    ASSUME NEW table \in Seq(Entry)
    PROVE  /\ Len(table) \in Nat /\ DOMAIN table = 1..Len(table)
           /\ \A i \in 1..Len(table) : table[i] \in Entry /\ table[i].length \in Nat
<1>1. \A e \in Entry : e.length \in Nat
  BY DEF Entry
<1> QED
  BY <1>1, LenProperties, ElementOfSeq

(* InsertAt puts e behind the first k elements and moves the others.       *)
LEMMA InsertAtProperties ==
    ASSUME NEW T, NEW s \in Seq(T), NEW e \in T, NEW k \in 0..Len(s),
           NEW new, new = InsertAt(s, k + 1, e)
    PROVE  /\ new \in Seq(T) /\ DOMAIN new = 1..(Len(s) + 1)
           /\ \A i \in 1..k : new[i] = s[i]
           /\ new[k + 1] = e
           /\ \A i \in (k + 2)..(Len(s) + 1) : new[i] = s[i - 1]
<1> DEFINE L == Len(s)
           front == SubSeq(s, 1, k)
           back == SubSeq(s, k + 1, L)
           mid == front \o <<e>>
<1>1. /\ L \in Nat /\ k \in Nat /\ k <= L /\ \A i \in 1..L : s[i] \in T
  BY LenProperties, ElementOfSeq
<1> HIDE DEF L
<1>2. front \in Seq(T) /\ Len(front) = k /\ \A i \in 1..k : front[i] = s[i]
  <2>1. k \in Int /\ \A i \in 1..k : s[i] \in T
    BY <1>1
  <2>2. /\ front \in Seq(T) /\ Len(front) = IF 1 <= k THEN k - 1 + 1 ELSE 0
        /\ \A i \in 1..(k - 1 + 1) : front[i] = s[1 + i - 1]
    BY <2>1, SubSeqProperties
  <2> HIDE DEF front
  <2> QED
    BY <1>1, <2>2
<1>3. /\ back \in Seq(T) /\ Len(back) = L - k
      /\ \A i \in 1..(L - k) : back[i] = s[k + i]
  <2>1. k + 1 \in Int /\ L \in Int /\ \A i \in (k + 1)..L : s[i] \in T
    BY <1>1
  <2>2. /\ back \in Seq(T) /\ Len(back) = IF k + 1 <= L THEN L - (k + 1) + 1 ELSE 0
        /\ \A i \in 1..(L - (k + 1) + 1) : back[i] = s[k + 1 + i - 1]
    BY <2>1, SubSeqProperties
  <2> HIDE DEF back
  <2> QED
    BY <1>1, <2>2
<1> HIDE DEF front, back
<1>4. /\ mid \in Seq(T) /\ Len(mid) = k + 1 /\ mid[k + 1] = e
      /\ \A i \in 1..k : mid[i] = s[i]
  <2>1. <<e>> \in Seq(T) /\ Len(<<e>>) = 1 /\ <<e>>[1] = e
    OBVIOUS
  <2>2. /\ mid \in Seq(T) /\ Len(mid) = Len(front) + Len(<<e>>)
        /\ \A i \in 1..(Len(front) + Len(<<e>>)) :
              mid[i] = IF i <= Len(front) THEN front[i] ELSE <<e>>[i - Len(front)]
    BY <1>2, <2>1, ConcatProperties
  <2> HIDE DEF mid
  <2> QED
    BY <1>1, <1>2, <2>1, <2>2
<1> HIDE DEF mid
<1>5. new = mid \o back
  <2>1. (k + 1) - 1 = k
    BY <1>1
  <2>2. InsertAt(s, k + 1, e) = SubSeq(s, 1, (k + 1) - 1) \o <<e>> \o SubSeq(s, k + 1, Len(s))
    BY Zenon DEF InsertAt
  <2> QED
    BY <2>1, <2>2, Zenon DEF mid, front, back, L
<1>6. /\ new \in Seq(T) /\ Len(new) = L + 1
      /\ \A i \in 1..(L + 1) : new[i] = IF i <= k + 1 THEN mid[i] ELSE back[i - (k + 1)]
  <2>1. /\ mid \o back \in Seq(T) /\ Len(mid \o back) = Len(mid) + Len(back)
        /\ \A i \in 1..(Len(mid) + Len(back)) :
              (mid \o back)[i] = IF i <= Len(mid) THEN mid[i] ELSE back[i - Len(mid)]
    BY <1>3, <1>4, ConcatProperties, Zenon
  <2>2. Len(mid) + Len(back) = L + 1 /\ Len(mid) = k + 1
    BY <1>1, <1>3, <1>4
  <2> QED
    BY <1>5, <2>1, <2>2, Zenon
<1>7. ASSUME NEW i \in (k + 2)..(L + 1) PROVE new[i] = s[i - 1]
  <2>1. i \in 1..(L + 1) /\ ~(i <= k + 1) /\ i - (k + 1) \in 1..(L - k)
        /\ k + (i - (k + 1)) = i - 1
    BY <1>1
  <2> QED
    BY <1>3, <1>6, <2>1
<1>8. DOMAIN new = 1..(L + 1) /\ new[k + 1] = e /\ \A i \in 1..k : new[i] = s[i]
  BY <1>1, <1>4, <1>6, LenProperties
<1> QED
  BY <1>6, <1>7, <1>8 DEF L

(* The entries shorter than a new one are those at the front of a sorted   *)
(* table.                                                                  *)
LEMMA ShorterInFront ==
    ASSUME NEW table \in Seq(Entry), Sorted(table), NEW length \in Nat
    PROVE  LET shorter == {i \in DOMAIN table : table[i].length < length}
           IN  /\ Cardinality(shorter) \in 0..Len(table)
               /\ shorter = 1..Cardinality(shorter)
<1> DEFINE S == {i \in DOMAIN table : table[i].length < length}
<1>1. /\ DOMAIN table = 1..Len(table) /\ Len(table) \in Nat
      /\ \A i \in 1..Len(table) : table[i].length \in Nat
  BY TableType
<1>2. S \subseteq 1..Len(table) /\ \A i \in S, j \in 1..Len(table) : j < i => j \in S
  <2>1. ASSUME NEW i \in S, NEW j \in 1..Len(table), j < i PROVE table[j].length < length
    <3>1. table[j].length <= table[i].length /\ table[i].length < length /\ i \in 1..Len(table)
      BY <1>1, <2>1 DEF Sorted
    <3> HIDE DEF S
    <3> QED
      BY <1>1, <3>1
  <2> QED
    BY <1>1, <2>1
<1> HIDE DEF S
<1>3. PICK k \in 0..Len(table) : S = 1..k
  <2>1. CASE S = {}
    <3>1. S = 1..0 /\ 0 \in 0..Len(table)
      BY <1>1, <2>1
    <3> QED
      BY <3>1
  <2>2. CASE S # {}
    <3>1. S \subseteq Nat /\ \A y \in S : y <= Len(table)
      BY <1>1, <1>2
    <3>2. Max(S) \in S /\ \A y \in S : y <= Max(S)
      BY <1>1, <2>2, <3>1, MaxOfNat, Zenon
    <3>3. Max(S) \in 0..Len(table) /\ S = 1..Max(S)
      <4>1. Max(S) \in 1..Len(table)
        BY <1>2, <3>2, Zenon
      <4>2. \A y \in 1..Max(S) : y \in S
        BY <1>1, <1>2, <3>2, <4>1
      <4>3. \A y \in S : y \in 1..Max(S)
        BY <1>1, <1>2, <3>2, <4>1
      <4>4. S = 1..Max(S)
        BY <4>2, <4>3, Zenon
      <4> QED
        BY <1>1, <4>1, <4>4
    <3> QED
      BY <3>3
  <2> QED
    BY <2>1, <2>2
<1>4. Cardinality(1..k) = k
  BY <1>1, FS_Interval
<1>5. Cardinality(S) = k
  BY <1>3, <1>4
<1> QED
  BY <1>3, <1>5, Zenon DEF S

(* add_route() (router.cc:25) keeps the table sorted.                      *)
LEMMA InsertSorted ==
    ASSUME NEW table \in Seq(Entry), Sorted(table), NEW e \in Entry, NEW k \in 0..Len(table),
           {i \in DOMAIN table : table[i].length < e.length} = 1..k
    PROVE  InsertAt(table, k + 1, e) \in Seq(Entry) /\ Sorted(InsertAt(table, k + 1, e))
<1> DEFINE L == Len(table)
           new == InsertAt(table, k + 1, e)
<1>1. /\ L \in Nat /\ DOMAIN table = 1..L /\ k \in Nat /\ k <= L
      /\ \A i \in 1..L : table[i].length \in Nat
      /\ e.length \in Nat
  <2>1. e.length \in Nat
    BY DEF Entry
  <2>2. /\ L \in Nat /\ DOMAIN table = 1..L
        /\ \A i \in 1..L : table[i].length \in Nat
    BY TableType
  <2> QED
    BY <2>1, <2>2
<1>3. /\ new \in Seq(Entry) /\ DOMAIN new = 1..(L + 1)
      /\ \A i \in 1..k : new[i] = table[i]
      /\ new[k + 1] = e
      /\ \A i \in (k + 2)..(L + 1) : new[i] = table[i - 1]
  BY InsertAtProperties
<1>2. \A i, j \in 1..L : i < j => table[i].length <= table[j].length
  BY <1>1 DEF Sorted
<1> HIDE DEF new, L
<1>6. /\ \A i \in 1..k : table[i].length < e.length
      /\ \A i \in (k + 1)..L : ~(table[i].length < e.length)
  <2>1. ASSUME NEW i \in 1..L PROVE table[i].length < e.length <=> i \in 1..k
    BY <1>1
  <2> QED
    BY <1>1, <2>1
<1>7. ASSUME NEW i \in 1..(L + 1), NEW j \in 1..(L + 1), i < j
      PROVE  new[i].length <= new[j].length
  <2>1. CASE j <= k
    BY <1>1, <1>2, <1>3, <1>7, <2>1
  <2>2. CASE j = k + 1
    BY <1>1, <1>2, <1>3, <1>6, <1>7, <2>2
  <2>3. CASE j > k + 1 /\ i <= k
    <3>1. i \in 1..L /\ j - 1 \in 1..L /\ i < j - 1
      BY <1>1, <1>7, <2>3
    <3> QED
      BY <1>1, <1>2, <1>3, <2>3, <3>1
  <2>4. CASE j > k + 1 /\ i = k + 1
    <3>1. j - 1 \in (k + 1)..L
      BY <1>1, <2>4
    <3> QED
      BY <1>1, <1>2, <1>3, <1>6, <2>4, <3>1
  <2>5. CASE j > k + 1 /\ i > k + 1
    <3>1. i - 1 \in 1..L /\ j - 1 \in 1..L /\ i - 1 < j - 1
      BY <1>1, <1>7, <2>5
    <3> QED
      BY <1>1, <1>2, <1>3, <2>5, <3>1
  <2> QED
    BY <1>1, <2>1, <2>2, <2>3, <2>4, <2>5
<1> QED
  BY <1>3, <1>7 DEF Sorted, new, L

(* The search of route_one_datagram() (router.cc:40) in a sorted table.    *)
LEMMA SortedIsLongestFirst ==
    ASSUME NEW table \in Seq(Entry), Sorted(table)
    PROVE  LongestFirst(table)
<1> SUFFICES ASSUME NEW dst, Matching(table, dst) # {}
             PROVE  /\ Max(Matching(table, dst)) \in Matching(table, dst)
                    /\ \A i \in Matching(table, dst) :
                          table[i].length <= table[Max(Matching(table, dst))].length
  BY DEF LongestFirst
<1> DEFINE found == Matching(table, dst)
           last == Max(found)
<1>1. /\ Len(table) \in Nat /\ DOMAIN table = 1..Len(table)
      /\ \A i \in 1..Len(table) : table[i].length \in Nat
  BY TableType
<1>2. found \subseteq 1..Len(table)
  BY <1>1 DEF Matching
<1> HIDE DEF found
<1>3. found \subseteq Nat /\ \A y \in found : y <= Len(table)
  BY <1>1, <1>2
<1>4. last \in found /\ \A y \in found : y <= last
  BY <1>1, <1>3, MaxOfNat DEF found
<1> HIDE DEF last
<1>5. ASSUME NEW i \in found PROVE table[i].length <= table[last].length
  <2>1. i \in 1..Len(table) /\ last \in 1..Len(table) /\ i <= last
    BY <1>2, <1>4
  <2>2. CASE i = last
    BY <1>1, <2>1, <2>2
  <2>3. CASE i < last
    BY <1>1, <2>1, <2>3 DEF Sorted
  <2> QED
    BY <1>1, <2>1, <2>2, <2>3
<1> QED
  BY <1>4, <1>5 DEF found, last

(* For every sequence of calls to add_route(), in every order and with     *)
(* routes of equal length, and whatever is routed between them, the route  *)
(* that a datagram takes is one with the longest prefix of those whose     *)
(* stored prefix matches (router.cc:18, :25, :40).                         *)
THEOREM LongestPrefixWins == RouterSpec => []LongestFirst(rtr.rtable)
<1>1. RouterInit => RouterInv
  <2> SUFFICES ASSUME NEW interfaces, rtr = NewRouter(interfaces) PROVE RouterInv
    BY DEF RouterInit
  <2>1. rtr = [f \in {"interfaces", "rtable"} |-> rtr[f]] /\ rtr.rtable = <<>>
    BY DEF NewRouter
  <2>2. <<>> \in Seq(Entry) /\ DOMAIN <<>> = {}
    OBVIOUS
  <2> QED
    BY <2>1, <2>2, Zenon DEF RouterInv, Sorted
<1>2. RouterInv /\ [RouterNext]_rtr => RouterInv'
  <2> SUFFICES ASSUME RouterInv, [RouterNext]_rtr PROVE RouterInv'
    OBVIOUS
  <2>1. /\ rtr = [f \in {"interfaces", "rtable"} |-> rtr[f]]
        /\ rtr.rtable \in Seq(Entry) /\ Sorted(rtr.rtable)
    BY DEF RouterInv
  <2>2. ASSUME NEW e \in Entry,
               rtr' = AddRoute(rtr, e.prefix, e.length, e.next_hop, e.interface_num)
        PROVE  RouterInv'
    <3> DEFINE shorter == {i \in DOMAIN rtr.rtable : rtr.rtable[i].length < e.length}
               k == Cardinality(shorter)
               table == InsertAt(rtr.rtable, k + 1, e)
    <3>1. e.length \in Nat
      BY DEF Entry
    <3>2. k \in 0..Len(rtr.rtable) /\ shorter = 1..k
      BY <2>1, <3>1, ShorterInFront
    <3>3. table \in Seq(Entry) /\ Sorted(table)
      BY <2>1, <3>2, InsertSorted
    <3>4. e = [length |-> e.length, prefix |-> e.prefix,
               next_hop |-> e.next_hop, interface_num |-> e.interface_num]
      BY DEF Entry
    <3>5. rtr' = [rtr EXCEPT !.rtable = table]
      BY <2>2, <3>4, Zenon DEF AddRoute
    <3> HIDE DEF table
    <3>6. rtr' = [f \in {"interfaces", "rtable"} |-> rtr'[f]] /\ rtr'.rtable = table
      BY <2>1, <3>5
    <3> QED
      BY <3>3, <3>6 DEF RouterInv
  <2>3. ASSUME NEW interfaces, rtr' = [rtr EXCEPT !.interfaces = interfaces] PROVE RouterInv'
    <3>1. rtr' = [f \in {"interfaces", "rtable"} |-> rtr'[f]] /\ rtr'.rtable = rtr.rtable
      BY <2>1, <2>3
    <3> QED
      BY <2>1, <3>1 DEF RouterInv
  <2>4. ASSUME NEW dgram, rtr' = RouteOneDatagram(rtr, dgram) PROVE RouterInv'
    <3>1. rtr' = rtr \/ \E interfaces : rtr' = [rtr EXCEPT !.interfaces = interfaces]
      BY <2>4, Zenon DEF RouteOneDatagram
    <3>2. CASE rtr' = rtr
      BY <2>1, <3>2 DEF RouterInv
    <3> QED
      BY <2>3, <3>1, <3>2
  <2>5. CASE UNCHANGED rtr
    BY <2>1, <2>5 DEF RouterInv
  <2> QED
    BY <2>2, <2>3, <2>4, <2>5 DEF RouterNext
<1>3. RouterInv => LongestFirst(rtr.rtable)
  BY SortedIsLongestFirst DEF RouterInv
<1> QED
  BY <1>1, <1>2, <1>3, PTL DEF RouterSpec

(* One step of each loop over a sequence: add_route for the routes,        *)
(* recv_frame for the frames of an exchange, route_one_datagram for the    *)
(* datagrams of route().                                                   *)
Step(loop, before, item) ==
    IF loop = "add"
    THEN AddRoute(before, Routes[item][1], Routes[item][2], Routes[item][3], Routes[item][4])
    ELSE IF loop = "recv" THEN RecvFrame(before, item) ELSE RouteOneDatagram(before, item)

(* What the recursive function in the definition of a fold must satisfy.   *)
Iterates(loop, base, s, g) ==
    g = [t \in SUBSET (DOMAIN s) |->
            IF t = {} THEN base ELSE Step(loop, g[t \ {Max(t)}], s[Max(t)])]

(* The states that a loop goes through, from base on.                      *)
Loop(loop, base, s, st) ==
    /\ DOMAIN st = 0..Len(s) /\ st[0] = base
    /\ \A i \in 1..Len(s) : st[i] = Step(loop, st[i - 1], s[i])

(* A nonempty set of indices without its greatest element.                 *)
LEMMA WithoutMax ==
    ASSUME NEW m \in Nat, NEW t \in SUBSET (1..m), t # {}
    PROVE  /\ Max(t) \in t
           /\ m > 0 /\ t \ {Max(t)} \in SUBSET (1..(m - 1))
<1>1. t \subseteq Nat /\ \A y \in t : y <= m
  OBVIOUS
<1>2. Max(t) \in t /\ \A y \in t : y <= Max(t)
  BY <1>1, MaxOfNat, Zenon
<1>3. PICK x \in 1..m : x = Max(t)
  BY <1>2, Zenon
<1>4. ASSUME NEW y \in t \ {Max(t)} PROVE y \in 1..(m - 1)
  <2>1. y \in 1..m /\ y <= x /\ y # x
    BY <1>2, <1>3
  <2> QED
    BY <2>1
<1>5. m > 0
  BY <1>3
<1> QED
  BY <1>2, <1>4, <1>5, Zenon

(* There is such a function.                                               *)
LEMMA IteratesExists ==
    ASSUME NEW loop, NEW base, NEW s, NEW len \in Nat, DOMAIN s = 1..len
    PROVE  \E g : Iterates(loop, base, s, g)
<1> DEFINE step(g, t) == IF t = {} THEN base ELSE Step(loop, g[t \ {Max(t)}], s[Max(t)])
           Solves(m, g) == g = [t \in SUBSET (1..m) |-> step(g, t)]
           bad == {m \in Nat : ~ \E g : Solves(m, g)}
<1>1. bad = {}
  <2>1. SUFFICES ASSUME bad # {} PROVE FALSE
    BY Zenon
  <2>2. PICK m \in bad : \A k \in bad : m <= k
    BY <2>1, LeastOfNat, Zenon
  <2>3. m \in Nat /\ ~ \E g : Solves(m, g)
    BY Zenon
  <2>4. CASE m = 0
    <3>1. \A t \in SUBSET (1..0) : t = {}
      OBVIOUS
    <3> DEFINE g == [t \in SUBSET (1..0) |-> base]
    <3>2. Solves(0, g)
      <4>1. [t \in SUBSET (1..0) |-> step(g, t)] = [t \in SUBSET (1..0) |-> base]
        BY <3>1, Zenon
      <4> QED
        BY <4>1
    <3> QED
      BY <2>3, <2>4, <3>2
  <2>5. CASE m # 0
    <3>1. m - 1 \in Nat /\ m - 1 \notin bad
      <4> HIDE DEF bad, Solves
      <4> QED
        BY <2>2, <2>3, <2>5
    <3>2. PICK h : Solves(m - 1, h)
      BY <3>1, Zenon
    <3> DEFINE g == [t \in SUBSET (1..m) |-> step(h, t)]
    <3>3. ASSUME NEW t \in SUBSET (1..(m - 1)) PROVE t \in SUBSET (1..m) /\ g[t] = h[t]
      <4>1. t \in SUBSET (1..m)
        BY <2>3
      <4>2. g[t] = step(h, t)
        BY <4>1
      <4>3. h[t] = step(h, t)
        <5> HIDE DEF step
        <5> QED
          BY <3>2
      <4> QED
        BY <4>1, <4>2, <4>3, Zenon
    <3>4. ASSUME NEW t \in SUBSET (1..m) PROVE step(h, t) = step(g, t)
      <4>1. CASE t = {}
        BY <4>1
      <4>2. CASE t # {}
        <5>1. t \ {Max(t)} \in SUBSET (1..(m - 1))
          BY <2>3, <4>2, WithoutMax
        <5>2. g[t \ {Max(t)}] = h[t \ {Max(t)}]
          <6> HIDE DEF g
          <6> QED
            BY <3>3, <5>1, Zenon
        <5> HIDE DEF g
        <5> QED
          BY <4>2, <5>2, Zenon
      <4> QED
        BY <4>1, <4>2
    <3>5. Solves(m, g)
      <4>1. [t \in SUBSET (1..m) |-> step(h, t)] = [t \in SUBSET (1..m) |-> step(g, t)]
        <5> HIDE DEF step, g
        <5> QED
          BY <3>4, Zenon
      <4> QED
        BY <4>1, Zenon
    <3> QED
      BY <2>3, <3>5, Zenon
  <2> QED
    BY <2>4, <2>5
<1>2. PICK g : Solves(len, g)
  BY <1>1, Zenon
<1> QED
  BY <1>2, Zenon DEF Iterates

(* Its values at the first indices are the states of the loop.             *)
LEMMA IteratesIsLoop ==
    ASSUME NEW loop, NEW base, NEW T, NEW s \in Seq(T), NEW g, Iterates(loop, base, s, g)
    PROVE  \E st : Loop(loop, base, s, st) /\ g[DOMAIN s] = st[Len(s)]
<1>1. Len(s) \in Nat /\ DOMAIN s = 1..Len(s)
  BY LenProperties
<1>2. PICK len \in Nat : len = Len(s)
  BY <1>1, Zenon
<1> DEFINE st == [i \in 0..len |-> g[1..i]]
<1>3. \A t \in SUBSET (1..len) :
          g[t] = IF t = {} THEN base ELSE Step(loop, g[t \ {Max(t)}], s[Max(t)])
  BY <1>1, <1>2, Zenon DEF Iterates
<1>4. st[0] = base
  <2>1. 1..0 = {} /\ 0 \in 0..len
    OBVIOUS
  <2>2. g[{}] = base
    BY <1>3, Zenon
  <2> QED
    BY <2>1, <2>2
<1>5. ASSUME NEW i \in 1..len PROVE st[i] = Step(loop, st[i - 1], s[i])
  <2>1. /\ 1..i \in SUBSET (1..len) /\ i \in 1..i /\ i \in Nat
        /\ i \in 0..len /\ i - 1 \in 0..len
    OBVIOUS
  <2>2. Max(1..i) = i
    <3>1. 1..i \subseteq Nat /\ \A y \in 1..i : y <= i
      BY <2>1
    <3>6. (1..i) # {}
      BY <2>1, Zenon
    <3>2. Max(1..i) \in 1..i /\ \A y \in 1..i : y <= Max(1..i)
      BY <2>1, <3>1, <3>6, MaxOfNat, Zenon
    <3>3. PICK x : x = Max(1..i)
      OBVIOUS
    <3>4. x \in 1..i /\ i <= x
      BY <2>1, <3>2, <3>3
    <3>5. x = i
      BY <2>1, <3>4
    <3> QED
      BY <3>3, <3>5
  <2>3. (1..i) \ {i} = 1..(i - 1)
    BY <2>1
  <2>4. g[1..i] = Step(loop, g[1..(i - 1)], s[i])
    BY <1>3, <2>1, <2>2, <2>3, Zenon
  <2>5. st[i] = g[1..i] /\ st[i - 1] = g[1..(i - 1)]
    BY <2>1
  <2> QED
    BY <2>4, <2>5, Zenon
<1>6. DOMAIN st = 0..len /\ st[len] = g[1..len]
  OBVIOUS
<1> HIDE DEF st
<1> QED
  BY <1>1, <1>2, <1>4, <1>5, <1>6 DEF Loop

(* The folds of the model go through these states.                         *)
LEMMA RecvLoop ==
    ASSUME NEW base, NEW T, NEW s \in Seq(T)
    PROVE  \E st : Loop("recv", base, s, st) /\ FoldLeft(RecvFrame, base, s) = st[Len(s)]
<1> DEFINE P(g) == g = [t \in SUBSET (DOMAIN s) |->
                           IF t = {} THEN base ELSE RecvFrame(g[t \ {Max(t)}], s[Max(t)])]
<1>1. \A y, x : Step("recv", y, x) = RecvFrame(y, x)
  BY DEF Step
<1>2. \A g : Iterates("recv", base, s, g) <=> P(g)
  BY <1>1, Zenon DEF Iterates
<1>3. \E g : Iterates("recv", base, s, g)
  BY LenProperties, IteratesExists, Zenon
<1>4. PICK g : g = CHOOSE f : P(f)
  BY Zenon
<1>5. P(g)
  BY <1>2, <1>3, <1>4, Zenon
<1>6. FoldLeft(RecvFrame, base, s) = g[DOMAIN s]
  BY <1>4, Zenon DEF FoldLeft, MapThenFoldSet
<1>7. Iterates("recv", base, s, g)
  BY <1>2, <1>5, Zenon
<1> HIDE DEF P
<1>8. PICK st : Loop("recv", base, s, st) /\ g[DOMAIN s] = st[Len(s)]
  BY <1>7, IteratesIsLoop
<1> QED
  BY <1>6, <1>8, Zenon

(* The loop of route() (router.cc) as the states it goes through, one per  *)
(* datagram.                                                               *)
LEMMA RouteLoop ==
    ASSUME NEW base, NEW T, NEW s \in Seq(T)
    PROVE  \E st : Loop("route", base, s, st) /\ FoldLeft(RouteOneDatagram, base, s) = st[Len(s)]
<1> DEFINE P(g) == g = [t \in SUBSET (DOMAIN s) |->
                           IF t = {} THEN base
                           ELSE RouteOneDatagram(g[t \ {Max(t)}], s[Max(t)])]
<1>1. \A y, x : Step("route", y, x) = RouteOneDatagram(y, x)
  BY DEF Step
<1>2. \A g : Iterates("route", base, s, g) <=> P(g)
  BY <1>1, Zenon DEF Iterates
<1>3. \E g : Iterates("route", base, s, g)
  BY LenProperties, IteratesExists, Zenon
<1>4. PICK g : g = CHOOSE f : P(f)
  BY Zenon
<1>5. P(g)
  BY <1>2, <1>3, <1>4, Zenon
<1>6. FoldLeft(RouteOneDatagram, base, s) = g[DOMAIN s]
  BY <1>4, Zenon DEF FoldLeft, MapThenFoldSet
<1>7. Iterates("route", base, s, g)
  BY <1>2, <1>5, Zenon
<1> HIDE DEF P
<1>8. PICK st : Loop("route", base, s, st) /\ g[DOMAIN s] = st[Len(s)]
  BY <1>7, IteratesIsLoop
<1> QED
  BY <1>6, <1>8, Zenon

(* The state in which the simulator starts.                                *)
NewPorts == NewRouter([i \in DOMAIN PortAddress |-> NewInterface(<<"port", i>>, PortAddress[i])])

(* The calls of add_route() that set the router up, as the states they go  *)
(* through.                                                                *)
LEMMA AddLoop ==
    ASSUME Init
    PROVE  \E order \in RouteOrders : \E st :
              Loop("add", NewPorts, order, st) /\ router = st[Len(order)]
<1> DEFINE add(r, i) == AddRoute(r, Routes[i][1], Routes[i][2], Routes[i][3], Routes[i][4])
<1>1. PICK order \in RouteOrders : router = FoldLeft(add, NewPorts, order)
  BY Zenon DEF Init, NewPorts
<1> DEFINE P(g) == g = [t \in SUBSET (DOMAIN order) |->
                           IF t = {} THEN NewPorts ELSE add(g[t \ {Max(t)}], order[Max(t)])]
<1>2. \A y, x : Step("add", y, x) = add(y, x)
  BY DEF Step
<1>3. \A g : Iterates("add", NewPorts, order, g) <=> P(g)
  <2> HIDE DEF add
  <2> QED
    BY <1>2, Zenon DEF Iterates
<1>4. order \in Seq(1..7)
  <2>1. DOMAIN Routes = 1..7
    BY DEF Routes
  <2>2. order \in [1..7 -> 1..7] /\ 7 \in Nat
    BY <2>1, SimulatorAssumption
  <2> QED
    BY <2>2, SeqDef, Zenon
<1>5. \E g : Iterates("add", NewPorts, order, g)
  BY <1>4, LenProperties, IteratesExists, Zenon
<1>6. PICK g : g = CHOOSE f : P(f)
  OBVIOUS
<1>7. P(g)
  BY <1>3, <1>5, <1>6, Zenon
<1>8. FoldLeft(add, NewPorts, order) = g[DOMAIN order]
  BY <1>6, Zenon DEF FoldLeft, MapThenFoldSet
<1>9. Iterates("add", NewPorts, order, g)
  BY <1>3, <1>7, Zenon
<1>10. PICK st : Loop("add", NewPorts, order, st) /\ g[DOMAIN order] = st[Len(order)]
  BY <1>4, <1>9, IteratesIsLoop
<1> QED
  BY <1>1, <1>8, <1>10, Zenon

(* Where each element of a flattened sequence of sequences comes from.     *)
Located(q, m, s, at) ==
    /\ \A p \in DOMAIN s : /\ at[p][1] \in 1..m /\ at[p][2] \in DOMAIN q[at[p][1]]
                           /\ s[p] = q[at[p][1]][at[p][2]]
    /\ \A p, r \in DOMAIN s : at[p][1] = at[r][1] /\ at[p][2] = at[r][2] => p = r

(* The recursive function of FlattenSeq.                                   *)
Flattens(q, len, f) == f = [i \in 1..len |-> IF i = 1 THEN q[i] ELSE f[i - 1] \o q[i]]

(* FlattenSeq is a fold, so it has its partial results.                    *)
LEMMA FlattensExists ==
    ASSUME NEW q, NEW len \in Nat
    PROVE  \E f : Flattens(q, len, f)
<1> DEFINE step(f, i) == IF i = 1 THEN q[i] ELSE f[i - 1] \o q[i]
           Solves(m, f) == f = [i \in 1..m |-> step(f, i)]
           bad == {m \in Nat : ~ \E f : Solves(m, f)}
<1>1. bad = {}
  <2>1. SUFFICES ASSUME bad # {} PROVE FALSE
    BY Zenon
  <2>2. PICK m \in bad : \A k \in bad : m <= k
    BY <2>1, LeastOfNat, Zenon
  <2>3. m \in Nat /\ ~ \E f : Solves(m, f)
    BY Zenon
  <2>4. CASE m = 0
    <3> DEFINE f == [i \in 1..0 |-> 0]
    <3>1. Solves(0, f)
      <4>1. [i \in 1..0 |-> step(f, i)] = [i \in 1..0 |-> 0]
        OBVIOUS
      <4> QED
        BY <4>1
    <3> QED
      BY <2>3, <2>4, <3>1
  <2>5. CASE m # 0
    <3>1. m - 1 \in Nat /\ m - 1 \notin bad
      <4> HIDE DEF bad, Solves
      <4> QED
        BY <2>2, <2>3, <2>5
    <3>2. PICK h : Solves(m - 1, h)
      BY <3>1, Zenon
    <3> DEFINE f == [i \in 1..m |-> step(h, i)]
    <3>3. ASSUME NEW i \in 1..(m - 1) PROVE f[i] = h[i]
      <4>1. i \in 1..m
        BY <2>3
      <4>2. f[i] = step(h, i)
        BY <4>1
      <4>3. h[i] = step(h, i)
        <5> HIDE DEF step
        <5> QED
          BY <3>2
      <4> QED
        BY <4>2, <4>3, Zenon
    <3>4. ASSUME NEW i \in 1..m PROVE step(h, i) = step(f, i)
      <4>1. CASE i = 1
        BY <4>1
      <4>2. CASE i # 1
        <5>1. i - 1 \in 1..(m - 1)
          BY <2>3, <4>2
        <5>2. f[i - 1] = h[i - 1]
          <6> HIDE DEF f
          <6> QED
            BY <3>3, <5>1
        <5> HIDE DEF f
        <5> QED
          BY <4>2, <5>2, Zenon
      <4> QED
        BY <4>1, <4>2
    <3>5. Solves(m, f)
      <4>1. [i \in 1..m |-> step(h, i)] = [i \in 1..m |-> step(f, i)]
        <5> HIDE DEF step, f
        <5> QED
          BY <3>4, Zenon
      <4> QED
        BY <4>1, Zenon
    <3> QED
      BY <2>3, <3>5, Zenon
  <2> QED
    BY <2>4, <2>5
<1>2. PICK f : Solves(len, f)
  BY <1>1, Zenon
<1> QED
  BY <1>2, Zenon DEF Flattens

(* The router takes the queues of its interfaces one after the other:      *)
(* every datagram it takes comes from one place of one queue, and no two   *)
(* from the same.                                                          *)
LEMMA Flattened ==
    ASSUME NEW T, NEW q \in Seq(Seq(T))
    PROVE  /\ FlattenSeq(q) \in Seq(T)
           /\ \E at : Located(q, Len(q), FlattenSeq(q), at)
<1>1. /\ Len(q) \in Nat /\ DOMAIN q = 1..Len(q)
      /\ \A i \in 1..Len(q) : q[i] \in Seq(T)
  BY LenProperties, ElementOfSeq
<1>2. PICK len \in Nat : len = Len(q)
  BY <1>1, Zenon
<1>3. CASE len = 0
  <2>1. FlattenSeq(q) = <<>>
    <3>1. q = <<>>
      BY <1>1, <1>2, <1>3, EmptySeq
    <3> QED
      BY <1>2, <1>3, <3>1 DEF FlattenSeq
  <2>2. <<>> \in Seq(T) /\ DOMAIN <<>> = {}
    OBVIOUS
  <2>3. Located(q, Len(q), <<>>, <<>>)
    BY <2>2 DEF Located
  <2> QED
    BY <2>1, <2>2, <2>3
<1>4. CASE len # 0
  <2>1. PICK f : f = CHOOSE h : Flattens(q, len, h)
    OBVIOUS
  <2>2. Flattens(q, len, f)
    BY <2>1, FlattensExists, Zenon
  <2>3. FlattenSeq(q) = f[len]
    <3>1. q # <<>>
      BY <1>1, <1>2, <1>4, EmptySeq
    <3> QED
      BY <1>2, <2>1, <3>1, Zenon DEF FlattenSeq, Flattens
  <2>4. \A i \in 1..len : f[i] = IF i = 1 THEN q[i] ELSE f[i - 1] \o q[i]
    BY <2>2, Zenon DEF Flattens
  <2> DEFINE Good(m) == f[m] \in Seq(T) /\ \E at : Located(q, m, f[m], at)
             bad == {m \in 1..len : ~Good(m)}
  <2>5. bad = {}
    <3>1. SUFFICES ASSUME bad # {} PROVE FALSE
      OBVIOUS
    <3>2. PICK m \in bad : \A k \in bad : m <= k
      <4>1. bad \subseteq Nat
        OBVIOUS
      <4> HIDE DEF bad
      <4> QED
        BY <3>1, <4>1, LeastOfNat, Zenon
    <3>3. m \in 1..len /\ ~Good(m)
      OBVIOUS
    <3>4. q[m] \in Seq(T) /\ Len(q[m]) \in Nat /\ DOMAIN q[m] = 1..Len(q[m])
      BY <1>1, <1>2, <3>3, LenProperties
    <3>5. CASE m = 1
      <4>1. f[m] = q[m]
        BY <2>4, <3>3, <3>5
      <4> DEFINE at == [p \in DOMAIN q[m] |-> <<m, p>>]
      <4>2. Located(q, m, q[m], at)
        <5>1. \A p \in DOMAIN q[m] : at[p][1] = m /\ at[p][2] = p
          OBVIOUS
        <5>2. m \in 1..m
          BY <3>3
        <5> HIDE DEF at
        <5> QED
          BY <5>1, <5>2 DEF Located
      <4> QED
        BY <3>3, <3>4, <4>1, <4>2
    <3>6. CASE m # 1
      <4>1. m - 1 \in 1..len /\ m - 1 \notin bad
        <5> HIDE DEF bad, Good
        <5> QED
          BY <3>2, <3>3, <3>6
      <4>2. Good(m - 1)
        BY <4>1
      <4>3. PICK old : f[m - 1] \in Seq(T) /\ Located(q, m - 1, f[m - 1], old)
        BY <4>2
      <4>4. PICK s \in Seq(T) : s = f[m - 1]
        BY <4>3
      <4>5. f[m] = s \o q[m]
        BY <2>4, <3>3, <3>6, <4>4, Zenon
      <4>6. Len(s) \in Nat /\ DOMAIN s = 1..Len(s)
        BY <4>4, LenProperties
      <4>7. PICK a \in Nat, b \in Nat : a = Len(s) /\ b = Len(q[m])
        BY <3>4, <4>6, Zenon
      <4>8. /\ s \o q[m] \in Seq(T) /\ DOMAIN (s \o q[m]) = 1..(a + b)
            /\ \A i \in 1..a : (s \o q[m])[i] = s[i]
            /\ \A i \in (a + 1)..(a + b) : (s \o q[m])[i] = q[m][i - a]
        <5>1. /\ s \o q[m] \in Seq(T) /\ Len(s \o q[m]) = Len(s) + Len(q[m])
              /\ \A i \in 1..(Len(s) + Len(q[m])) :
                    (s \o q[m])[i] = IF i <= Len(s) THEN s[i] ELSE q[m][i - Len(s)]
          BY <3>4, ConcatProperties
        <5>2. DOMAIN (s \o q[m]) = 1..(a + b)
          BY <4>7, <5>1, LenProperties
        <5> QED
          BY <4>7, <5>1, <5>2
      <4> DEFINE at == [p \in 1..(a + b) |-> IF p <= a THEN old[p] ELSE <<m, p - a>>]
      <4>9. /\ \A p \in 1..a : at[p] = old[p]
            /\ \A p \in (a + 1)..(a + b) : at[p][1] = m /\ at[p][2] = p - a
        BY <4>7
      <4>10. /\ \A p \in 1..a : /\ old[p][1] \in 1..(m - 1) /\ old[p][2] \in DOMAIN q[old[p][1]]
                                /\ s[p] = q[old[p][1]][old[p][2]]
             /\ \A p, r \in 1..a : old[p][1] = old[r][1] /\ old[p][2] = old[r][2] => p = r
        BY <4>3, <4>4, <4>6, <4>7, Zenon DEF Located
      <4> HIDE DEF at
      <4>11. ASSUME NEW p \in 1..(a + b)
             PROVE  /\ at[p][1] \in 1..m /\ at[p][2] \in DOMAIN q[at[p][1]]
                    /\ (s \o q[m])[p] = q[at[p][1]][at[p][2]]
        <5>1. CASE p \in 1..a
          <6>1. at[p] = old[p] /\ (s \o q[m])[p] = s[p]
            BY <4>8, <4>9, <5>1
          <6>2. old[p][1] \in 1..m
            BY <3>3, <4>10, <5>1
          <6> QED
            BY <4>10, <5>1, <6>1, <6>2, Zenon
        <5>2. CASE p \in (a + 1)..(a + b)
          <6>1. at[p][1] = m /\ at[p][2] = p - a /\ (s \o q[m])[p] = q[m][p - a]
            BY <4>8, <4>9, <5>2
          <6>2. p - a \in 1..b /\ m \in 1..m
            BY <3>3, <5>2
          <6>3. p - a \in DOMAIN q[m]
            BY <3>4, <4>7, <6>2
          <6> QED
            BY <6>1, <6>2, <6>3, Zenon
        <5>3. p \in 1..a \/ p \in (a + 1)..(a + b)
          OBVIOUS
        <5> QED
          BY <5>1, <5>2, <5>3, Zenon
      <4>12. ASSUME NEW p \in 1..(a + b), NEW r \in 1..(a + b),
                    at[p][1] = at[r][1], at[p][2] = at[r][2]
             PROVE  p = r
        <5>1. CASE p \in 1..a /\ r \in 1..a
          BY <4>9, <4>10, <4>12, <5>1, Zenon
        <5>2. CASE p \in 1..a /\ r \in (a + 1)..(a + b)
          <6>1. at[r][1] = m /\ at[p][1] \in 1..(m - 1)
            BY <4>9, <4>10, <5>2, Zenon
          <6> QED
            BY <3>3, <4>12, <6>1
        <5>3. CASE r \in 1..a /\ p \in (a + 1)..(a + b)
          <6>1. at[p][1] = m /\ at[r][1] \in 1..(m - 1)
            BY <4>9, <4>10, <5>3, Zenon
          <6> QED
            BY <3>3, <4>12, <6>1
        <5>4. CASE r \in (a + 1)..(a + b) /\ p \in (a + 1)..(a + b)
          <6>1. at[p][2] = p - a /\ at[r][2] = r - a
            BY <4>9, <5>4
          <6>2. p - a = r - a
            BY <4>12, <6>1, Zenon
          <6> QED
            BY <6>2
        <5>5. /\ p \in 1..a \/ p \in (a + 1)..(a + b)
              /\ r \in 1..a \/ r \in (a + 1)..(a + b)
          OBVIOUS
        <5> QED
          BY <5>1, <5>2, <5>3, <5>4, <5>5
      <4>13. Located(q, m, f[m], at)
        BY <4>5, <4>8, <4>11, <4>12, Zenon DEF Located
      <4> QED
        BY <3>3, <4>5, <4>8, <4>13
    <3> QED
      BY <3>5, <3>6
  <2>6. len \in 1..len
    BY <1>4
  <2>7. Good(len)
    BY <2>5, <2>6
  <2> QED
    BY <1>2, <2>3, <2>7
<1> QED
  BY <1>3, <1>4

(* What an operation that changes the queue of one address does to dg_map. *)
Requeued(new, old, ip, queue) ==
    /\ DOMAIN new = DOMAIN old \cup {ip} /\ new[ip] = queue
    /\ \A k \in DOMAIN old \ {ip} : new[k] = old[k]

(* The fields that neither sending nor receiving changes.                  *)
SameEnd(p, m) ==
    p.ethernet_address = m.ethernet_address /\ p.ip_address = m.ip_address

(* The frames that flush_buffer() queues (network_interface.cc:188).       *)
Sealed(m, eth, queue) == [i \in DOMAIN queue |-> Frame(m, "IPv4", eth, queue[i])]

(* Assigning a queue of dg_map changes that queue and nothing else.        *)
LEMMA SetQueueEffect ==
    ASSUME NEW m, InterfaceType(m), NEW ip, NEW queue
    PROVE  LET p == SetQueue(m, ip, queue)
           IN  /\ SameEnd(p, m) /\ p.frames_out = m.frames_out
               /\ p.datagrams_out = m.datagrams_out
               /\ Requeued(p.dg_map, m.dg_map, ip, queue)
               /\ Queue(p, ip) = queue
<1> DEFINE p == SetQueue(m, ip, queue)
           map == Insert(Erase(m.dg_map, {ip}), ip, queue)
<1>1. m = [f \in Fields |-> m[f]]
  BY Shape
<1>2. p = [m EXCEPT !.dg_map = map]
  BY DEF SetQueue
<1>3. Requeued(map, m.dg_map, ip, queue)
  BY DEF Requeued, Insert, Erase, Restrict
<1> HIDE DEF map
<1>4. /\ SameEnd(p, m) /\ p.frames_out = m.frames_out
      /\ p.datagrams_out = m.datagrams_out /\ p.dg_map = map
  BY <1>1, <1>2 DEF Fields, SameEnd
<1> HIDE DEF p
<1>5. Queue(p, ip) = queue
  BY <1>3, <1>4 DEF Queue, Requeued
<1> QED
  BY <1>3, <1>4, <1>5 DEF p

(* What the flush of a queue does (network_interface.cc): its datagrams    *)
(* are framed in their order, behind the frames already there, and the     *)
(* queue is empty.                                                         *)
LEMMA FlushEffect ==
    ASSUME NEW m, InterfaceType(m), NEW ip, NEW eth
    PROVE  LET p == FlushInterface(m, ip, eth)
           IN  /\ SameEnd(p, m)
               /\ p.frames_out = m.frames_out \o Sealed(m, eth, Queue(m, ip))
               /\ p.datagrams_out = m.datagrams_out
               /\ Requeued(p.dg_map, m.dg_map, ip, <<>>)
<1> DEFINE s == SetQueue(m, ip, <<>>)
           out == s.frames_out \o Sealed(m, eth, Queue(m, ip))
           p == [s EXCEPT !.frames_out = out]
<1>1. FlushInterface(m, ip, eth) = p
  BY DEF FlushInterface, Sealed
<1>2. s = [f \in Fields |-> s[f]]
  BY QueueKeepsTables, Zenon
<1>3. /\ SameEnd(s, m) /\ s.frames_out = m.frames_out
      /\ s.datagrams_out = m.datagrams_out
      /\ Requeued(s.dg_map, m.dg_map, ip, <<>>)
  BY SetQueueEffect, Zenon
<1> HIDE DEF s
<1>4. out = m.frames_out \o Sealed(m, eth, Queue(m, ip))
  BY <1>3
<1> HIDE DEF out
<1>5. /\ SameEnd(p, s) /\ p.frames_out = out
      /\ p.datagrams_out = s.datagrams_out /\ p.dg_map = s.dg_map
  BY <1>2 DEF Fields, SameEnd
<1> HIDE DEF p
<1> QED
  BY <1>1, <1>3, <1>4, <1>5 DEF SameEnd

(* The three ways of send_datagram() (network_interface.cc:35).            *)
LEMMA SendEffect ==
    ASSUME NEW m, InterfaceType(m), NEW dgram, NEW hop
    PROVE  LET p == SendDatagram(m, dgram, hop)
               queue == Append(Queue(m, hop), dgram)
           IN  /\ SameEnd(p, m) /\ p.datagrams_out = m.datagrams_out
               /\ p.ip_to_eth_table = m.ip_to_eth_table
               /\ \/ /\ hop \in DOMAIN m.ip_to_eth_table
                     /\ p.frames_out = m.frames_out \o Sealed(m, m.ip_to_eth_table[hop], queue)
                     /\ Requeued(p.dg_map, m.dg_map, hop, <<>>)
                  \/ /\ \/ p.frames_out = m.frames_out
                        \/ p.frames_out = Append(m.frames_out,
                                                 ArpFrame(m, Broadcast, "REQUEST", hop))
                     /\ Requeued(p.dg_map, m.dg_map, hop, queue)
<1> DEFINE queue == Append(Queue(m, hop), dgram)
           queued == SetQueue(m, hop, queue)
           asking == Append(queued.frames_out, ArpFrame(m, Broadcast, "REQUEST", hop))
           times  == Insert(queued.ip_timeout_table, hop, m.system_time)
           asked  == [queued EXCEPT !.frames_out = asking, !.ip_timeout_table = times]
           flushed == FlushInterface(queued, hop, m.ip_to_eth_table[hop])
           pending == /\ hop \in DOMAIN m.ip_timeout_table
                      /\ m.system_time - m.ip_timeout_table[hop] <= RequestTimeout
<1>1. SendDatagram(m, dgram, hop) =
         IF hop \in DOMAIN m.ip_to_eth_table THEN flushed
         ELSE IF pending THEN queued ELSE asked
  BY DEF SendDatagram
<1>2. /\ queued = [f \in Fields |-> queued[f]]
      /\ queued.ip_to_eth_table = m.ip_to_eth_table
      /\ queued.ip_timeout_table = m.ip_timeout_table
      /\ queued.system_time = m.system_time
  BY QueueKeepsTables
<1>3. /\ SameEnd(queued, m) /\ queued.frames_out = m.frames_out
      /\ queued.datagrams_out = m.datagrams_out
      /\ Requeued(queued.dg_map, m.dg_map, hop, queue)
      /\ Queue(queued, hop) = queue
  <2> HIDE DEF queue
  <2>1. PICK p : p = SetQueue(m, hop, queue)
    OBVIOUS
  <2>2. /\ SameEnd(p, m) /\ p.frames_out = m.frames_out
        /\ p.datagrams_out = m.datagrams_out
        /\ Requeued(p.dg_map, m.dg_map, hop, queue)
        /\ Queue(p, hop) = queue
    BY <2>1, SetQueueEffect
  <2> QED
    BY <2>1, <2>2
<1>4. InterfaceType(queued)
  <2> HIDE DEF queued
  <2> QED
    BY <1>2, Shape
<1>5. ASSUME hop \in DOMAIN m.ip_to_eth_table
      PROVE  /\ SameEnd(flushed, m) /\ flushed.datagrams_out = m.datagrams_out
             /\ flushed.ip_to_eth_table = m.ip_to_eth_table
             /\ flushed.frames_out = m.frames_out \o Sealed(m, m.ip_to_eth_table[hop], queue)
             /\ Requeued(flushed.dg_map, m.dg_map, hop, <<>>)
  <2>1. PICK eth : eth = m.ip_to_eth_table[hop]
    OBVIOUS
  <2> HIDE DEF queued, queue
  <2>2. flushed = FlushInterface(queued, hop, eth)
    BY <2>1
  <2>3. /\ SameEnd(flushed, queued)
        /\ flushed.frames_out = queued.frames_out \o Sealed(queued, eth, Queue(queued, hop))
        /\ flushed.datagrams_out = queued.datagrams_out
        /\ Requeued(flushed.dg_map, queued.dg_map, hop, <<>>)
    BY <1>4, <2>2, FlushEffect
  <2>4. flushed.ip_to_eth_table = queued.ip_to_eth_table
    BY <1>4, <2>2, QueueKeepsTables
  <2>5. Sealed(queued, eth, queue) = Sealed(m, eth, queue)
    BY <1>3 DEF Sealed, Frame, SameEnd
  <2> HIDE DEF flushed
  <2>6. Requeued(flushed.dg_map, m.dg_map, hop, <<>>)
    BY <1>3, <2>3 DEF Requeued
  <2> QED
    BY <1>2, <1>3, <2>1, <2>3, <2>4, <2>5, <2>6, Zenon DEF SameEnd
<1>6. /\ SameEnd(asked, m) /\ asked.datagrams_out = m.datagrams_out
      /\ asked.ip_to_eth_table = m.ip_to_eth_table
      /\ asked.frames_out = Append(m.frames_out, ArpFrame(m, Broadcast, "REQUEST", hop))
      /\ asked.dg_map = queued.dg_map
  <2>1. asking = Append(m.frames_out, ArpFrame(m, Broadcast, "REQUEST", hop))
    BY <1>3
  <2> HIDE DEF queued, asking, times
  <2>2. /\ SameEnd(asked, queued) /\ asked.datagrams_out = queued.datagrams_out
        /\ asked.ip_to_eth_table = queued.ip_to_eth_table
        /\ asked.frames_out = asking /\ asked.dg_map = queued.dg_map
    BY <1>2 DEF Fields, SameEnd
  <2> QED
    BY <1>2, <1>3, <2>1, <2>2 DEF SameEnd
<1> HIDE DEF queue, queued, asked, flushed, pending
<1>7. CASE hop \in DOMAIN m.ip_to_eth_table
  BY <1>1, <1>5, <1>7, Zenon DEF queue
<1>8. CASE hop \notin DOMAIN m.ip_to_eth_table /\ pending
  BY <1>1, <1>2, <1>3, <1>8, Zenon DEF queue
<1>9. CASE hop \notin DOMAIN m.ip_to_eth_table /\ ~pending
  BY <1>1, <1>3, <1>6, <1>9, Zenon DEF queue
<1> QED
  BY <1>7, <1>8, <1>9, Zenon

(* What recv_frame() learns (network_interface.cc:127).                    *)
LEMMA LearnEffect ==
    ASSUME NEW m, InterfaceType(m), NEW frame
    PROVE  LET p == Learn(m, frame)
           IN  /\ SameEnd(p, m) /\ p.datagrams_out = m.datagrams_out
               /\ p.frames_out = m.frames_out /\ p.dg_map = m.dg_map
               /\ p = [f \in Fields |-> p[f]]
               /\ \A ip \in DOMAIN p.ip_to_eth_table :
                     \/ ip \in DOMAIN m.ip_to_eth_table
                        /\ p.ip_to_eth_table[ip] = m.ip_to_eth_table[ip]
                     \/ /\ ip = frame.payload.sender_ip_address
                        /\ p.ip_to_eth_table[ip] = frame.src
<1> DEFINE ip == frame.payload.sender_ip_address
           times == Insert(m.ip_timeout_table, ip, m.system_time)
           addresses == Insert(m.ip_to_eth_table, ip, frame.src)
           p == [m EXCEPT !.ip_to_eth_table = addresses, !.ip_timeout_table = times]
<1>1. m = [f \in Fields |-> m[f]]
  BY Shape
<1>2. CASE ip \in DOMAIN m.ip_to_eth_table
  BY <1>1, <1>2 DEF Learn, SameEnd
<1>3. CASE ip \notin DOMAIN m.ip_to_eth_table
  <2>1. Learn(m, frame) = p
    BY <1>3 DEF Learn
  <2>2. \A k \in DOMAIN addresses :
           \/ k \in DOMAIN m.ip_to_eth_table /\ addresses[k] = m.ip_to_eth_table[k]
           \/ k = ip /\ addresses[k] = frame.src
    BY DEF Insert
  <2> HIDE DEF times, addresses
  <2>3. /\ SameEnd(p, m) /\ p.datagrams_out = m.datagrams_out
        /\ p.frames_out = m.frames_out /\ p.dg_map = m.dg_map
        /\ p = [f \in Fields |-> p[f]] /\ p.ip_to_eth_table = addresses
    BY <1>1, Zenon DEF Fields, SameEnd
  <2> HIDE DEF p
  <2> QED
    BY <2>1, <2>2, <2>3
<1> QED
  BY <1>2, <1>3

(* The five ways of recv_frame() (network_interface.cc:100).               *)
LEMMA RecvEffect ==
    ASSUME NEW m, InterfaceType(m), TablesFresh(m), NEW frame
    PROVE  LET p == RecvFrame(m, frame)
               learned == Learn(m, frame)
               mine == frame.dst \in {Broadcast, m.ethernet_address} /\ frame.payload # Garbled
               ip == frame.payload.sender_ip_address
           IN  \/ ~mine /\ p = m
               \/ /\ mine /\ frame.type = "IPv4" /\ SameEnd(p, m)
                  /\ p.ip_to_eth_table = m.ip_to_eth_table /\ p.dg_map = m.dg_map
                  /\ p.frames_out = m.frames_out
                  /\ p.datagrams_out = Append(m.datagrams_out, frame.payload)
               \/ /\ mine /\ frame.type # "IPv4" /\ SameEnd(p, m)
                  /\ p.ip_to_eth_table = learned.ip_to_eth_table
                  /\ p.datagrams_out = m.datagrams_out
                  /\ \/ p.dg_map = m.dg_map /\ p.frames_out = m.frames_out
                     \/ /\ p.dg_map = m.dg_map
                        /\ p.frames_out = Append(m.frames_out, ArpFrame(m, frame.src, "REPLY", ip))
                     \/ /\ Requeued(p.dg_map, m.dg_map, ip, <<>>)
                        /\ p.frames_out = m.frames_out \o
                              Sealed(m, frame.payload.sender_ethernet_address, Queue(m, ip))
<1> DEFINE ip == frame.payload.sender_ip_address
           learned == Learn(m, frame)
           mine == frame.dst \in {Broadcast, m.ethernet_address} /\ frame.payload # Garbled
           eth == frame.payload.sender_ethernet_address
           taken == [m EXCEPT !.datagrams_out = Append(m.datagrams_out, frame.payload)]
           reply == Append(learned.frames_out, ArpFrame(m, frame.src, "REPLY", ip))
           replied == [learned EXCEPT !.frames_out = reply]
           flushed == FlushInterface(learned, ip, eth)
<1>1. RecvFrame(m, frame) =
         IF ~mine THEN m
         ELSE IF frame.type = "IPv4" THEN taken
         ELSE IF frame.payload.target_ip_address # m.ip_address THEN learned
         ELSE IF frame.payload.opcode = "REQUEST" THEN replied
         ELSE flushed
  BY DEF RecvFrame
<1>2. m = [f \in Fields |-> m[f]]
  BY Shape
<1>3. /\ SameEnd(learned, m) /\ learned.datagrams_out = m.datagrams_out
      /\ learned.frames_out = m.frames_out /\ learned.dg_map = m.dg_map
      /\ learned = [f \in Fields |-> learned[f]]
  BY LearnEffect
<1>4. /\ SameEnd(taken, m) /\ taken.ip_to_eth_table = m.ip_to_eth_table
      /\ taken.dg_map = m.dg_map /\ taken.frames_out = m.frames_out
      /\ taken.datagrams_out = Append(m.datagrams_out, frame.payload)
  BY <1>2 DEF Fields, SameEnd
<1>5. InterfaceType(learned)
  <2>1. \A k \in DOMAIN learned.ip_timeout_table : learned.ip_timeout_table[k] \in Nat
    BY <1>2, Shape DEF Learn, Insert, Fields
  <2>2. learned.system_time = m.system_time
    BY <1>2 DEF Learn, Fields
  <2> HIDE DEF learned
  <2> QED
    BY <1>3, <2>1, <2>2, Shape
<1> HIDE DEF learned
<1>6. /\ SameEnd(replied, m) /\ replied.datagrams_out = m.datagrams_out
      /\ replied.ip_to_eth_table = learned.ip_to_eth_table /\ replied.dg_map = m.dg_map
      /\ replied.frames_out = Append(m.frames_out, ArpFrame(m, frame.src, "REPLY", ip))
  <2>1. reply = Append(m.frames_out, ArpFrame(m, frame.src, "REPLY", ip))
    BY <1>3
  <2> HIDE DEF reply
  <2>2. /\ SameEnd(replied, learned) /\ replied.datagrams_out = learned.datagrams_out
        /\ replied.ip_to_eth_table = learned.ip_to_eth_table
        /\ replied.dg_map = learned.dg_map /\ replied.frames_out = reply
    BY <1>3 DEF Fields, SameEnd
  <2> QED
    BY <1>3, <2>1, <2>2 DEF SameEnd
<1>7. /\ SameEnd(flushed, m) /\ flushed.datagrams_out = m.datagrams_out
      /\ flushed.ip_to_eth_table = learned.ip_to_eth_table
      /\ Requeued(flushed.dg_map, m.dg_map, ip, <<>>)
      /\ flushed.frames_out = m.frames_out \o Sealed(m, eth, Queue(m, ip))
  <2> HIDE DEF ip, eth
  <2>1. /\ SameEnd(flushed, learned) /\ flushed.datagrams_out = learned.datagrams_out
        /\ Requeued(flushed.dg_map, learned.dg_map, ip, <<>>)
        /\ flushed.frames_out = learned.frames_out \o Sealed(learned, eth, Queue(learned, ip))
    BY <1>5, FlushEffect
  <2>2. flushed.ip_to_eth_table = learned.ip_to_eth_table
    BY <1>5, QueueKeepsTables
  <2>3. Queue(learned, ip) = Queue(m, ip)
    BY <1>3 DEF Queue
  <2>4. Sealed(learned, eth, Queue(m, ip)) = Sealed(m, eth, Queue(m, ip))
    BY <1>3 DEF Sealed, Frame, SameEnd
  <2> HIDE DEF flushed
  <2> QED
    BY <1>3, <2>1, <2>2, <2>3, <2>4, Zenon DEF SameEnd
<1> HIDE DEF taken, replied, flushed
<1>8. CASE ~mine
  BY <1>1, <1>8
<1>9. CASE mine /\ frame.type = "IPv4"
  BY <1>1, <1>4, <1>9
<1>10. CASE mine /\ frame.type # "IPv4"
  BY <1>1, <1>3, <1>6, <1>7, <1>10, Zenon DEF learned
<1> QED
  BY <1>8, <1>9, <1>10, Zenon

(* Pairs of an IP and an Ethernet address, N, and of a next hop and a      *)
(* datagram, Q: the addresses of N, the datagrams of Q and those for ip.   *)
Addresses(N) == {x[2] : x \in N}
Datagrams(Q) == {x[2] : x \in Q}
Waiting(Q, ip) == {d \in Datagrams(Q) : <<ip, d>> \in Q}

(* The frames that an interface e with address a sends when its neighbours *)
(* are N and the datagrams it is given, with their next hops, Q.           *)
ArpFrames(e, a, N) ==
    [src : {e}, dst : Addresses(N) \cup {Broadcast}, type : {"ARP"},
     payload : [opcode : {"REQUEST", "REPLY"}, sender_ethernet_address : {e},
                sender_ip_address : {a}, target_ip_address : Nat]]

DataFrames(e, N, Q) ==
    {f \in [src : {e}, dst : Addresses(N), type : {"IPv4"}, payload : Datagrams(Q)] :
        \E ip \in Nat : <<ip, f.dst>> \in N /\ <<ip, f.payload>> \in Q}

FramesOf(e, a, N, Q) == ArpFrames(e, a, N) \cup DataFrames(e, N, Q)

(* An interface between calls: what it knows is true of its neighbours,    *)
(* what it sends is its own or was given to it, and what it has received   *)
(* is in D.                                                                *)
Honest(m, e, a, N, Q, D) ==
    /\ InterfaceType(m) /\ TablesFresh(m)
    /\ m.ethernet_address = e /\ m.ip_address = a
    /\ \A ip \in DOMAIN m.ip_to_eth_table :
          ip \in Nat /\ <<ip, m.ip_to_eth_table[ip]>> \in N
    /\ \A ip \in DOMAIN m.dg_map : m.dg_map[ip] \in Seq(Waiting(Q, ip))
    /\ m.frames_out \in Seq(FramesOf(e, a, N, Q))
    /\ m.datagrams_out \in Seq(D)

(* A frame that comes from a neighbour, or that was garbled on the way.    *)
Arrives(f, e, N, D) ==
    f.payload # Garbled =>
        IF f.type = "IPv4" THEN f.dst \in {Broadcast, e} => f.payload \in D
        ELSE /\ f.payload.sender_ip_address \in Nat
             /\ <<f.payload.sender_ip_address, f.src>> \in N
             /\ f.payload.sender_ethernet_address = f.src

(* Datagrams queued for a neighbour make frames that the interface may     *)
(* send.                                                                   *)
LEMMA SealedFrames ==
    ASSUME NEW m, NEW a, NEW N, NEW Q, NEW ip \in Nat, NEW eth, <<ip, eth>> \in N,
           NEW queue \in Seq(Waiting(Q, ip))
    PROVE  Sealed(m, eth, queue) \in Seq(FramesOf(m.ethernet_address, a, N, Q))
<1>1. Len(queue) \in Nat /\ DOMAIN queue = 1..Len(queue)
  BY LenProperties
<1>2. ASSUME NEW i \in 1..Len(queue)
      PROVE  Frame(m, "IPv4", eth, queue[i]) \in DataFrames(m.ethernet_address, N, Q)
  <2>1. queue[i] \in Waiting(Q, ip)
    BY <1>1, ElementOfSeq
  <2>2. PICK d : d = queue[i]
    OBVIOUS
  <2>3. d \in Datagrams(Q) /\ <<ip, d>> \in Q
    BY <2>1, <2>2 DEF Waiting
  <2>4. eth \in Addresses(N)
    BY DEF Addresses
  <2>5. Frame(m, "IPv4", eth, d) \in DataFrames(m.ethernet_address, N, Q)
    BY <2>3, <2>4, Zenon DEF DataFrames, Frame
  <2> QED
    BY <2>2, <2>5
<1>3. \A i \in 1..Len(queue) :
         Frame(m, "IPv4", eth, queue[i]) \in FramesOf(m.ethernet_address, a, N, Q)
  BY <1>2 DEF FramesOf
<1>4. Sealed(m, eth, queue) \in [1..Len(queue) -> FramesOf(m.ethernet_address, a, N, Q)]
  BY <1>1, <1>3 DEF Sealed
<1> QED
  BY <1>1, <1>4, SeqDef

(* A queue that was never used is empty, hence harmless.                   *)
LEMMA QueueOfHonest ==
    ASSUME NEW m, NEW Q, \A ip \in DOMAIN m.dg_map : m.dg_map[ip] \in Seq(Waiting(Q, ip)), NEW ip
    PROVE  Queue(m, ip) \in Seq(Waiting(Q, ip))
BY DEF Queue

(* Changing one queue within its limits keeps all of them within theirs.   *)
LEMMA RequeuedHonest ==
    ASSUME NEW old, NEW Q, \A ip \in DOMAIN old : old[ip] \in Seq(Waiting(Q, ip)),
           NEW new, NEW hop, NEW queue \in Seq(Waiting(Q, hop)), Requeued(new, old, hop, queue)
    PROVE  \A ip \in DOMAIN new : new[ip] \in Seq(Waiting(Q, ip))
BY DEF Requeued

(* An ARP message says the truth about its sender.                         *)
LEMMA ArpHonest ==
    ASSUME NEW m, NEW N, NEW Q, NEW dst \in Addresses(N) \cup {Broadcast},
           NEW opcode \in {"REQUEST", "REPLY"}, NEW target \in Nat
    PROVE  ArpFrame(m, dst, opcode, target) \in FramesOf(m.ethernet_address, m.ip_address, N, Q)
BY DEF ArpFrame, Frame, FramesOf, ArpFrames

(* send_datagram() keeps an interface honest if the datagram may go to     *)
(* that next hop.                                                          *)
LEMMA SendHonest ==
    ASSUME NEW m, NEW e, NEW a, NEW N, NEW Q, NEW D, Honest(m, e, a, N, Q, D),
           NEW hop \in Nat, NEW dgram, <<hop, dgram>> \in Q
    PROVE  Honest(SendDatagram(m, dgram, hop), e, a, N, Q, D)
<1> DEFINE p == SendDatagram(m, dgram, hop)
           queue == Append(Queue(m, hop), dgram)
           F == FramesOf(e, a, N, Q)
<1>1. /\ InterfaceType(m) /\ TablesFresh(m)
      /\ m.ethernet_address = e /\ m.ip_address = a
      /\ \A ip \in DOMAIN m.ip_to_eth_table :
            ip \in Nat /\ <<ip, m.ip_to_eth_table[ip]>> \in N
      /\ \A ip \in DOMAIN m.dg_map : m.dg_map[ip] \in Seq(Waiting(Q, ip))
      /\ m.frames_out \in Seq(F) /\ m.datagrams_out \in Seq(D)
  BY DEF Honest
<1>2. InterfaceType(p) /\ TablesFresh(p)
  BY <1>1, SendKeepsFresh
<1>3. /\ SameEnd(p, m) /\ p.datagrams_out = m.datagrams_out
      /\ p.ip_to_eth_table = m.ip_to_eth_table
      /\ \/ /\ hop \in DOMAIN m.ip_to_eth_table
            /\ p.frames_out = m.frames_out \o Sealed(m, m.ip_to_eth_table[hop], queue)
            /\ Requeued(p.dg_map, m.dg_map, hop, <<>>)
         \/ /\ \/ p.frames_out = m.frames_out
               \/ p.frames_out = Append(m.frames_out, ArpFrame(m, Broadcast, "REQUEST", hop))
            /\ Requeued(p.dg_map, m.dg_map, hop, queue)
  BY <1>1, SendEffect, Zenon
<1>4. queue \in Seq(Waiting(Q, hop)) /\ <<>> \in Seq(Waiting(Q, hop))
  <2>1. dgram \in Waiting(Q, hop)
    BY DEF Waiting, Datagrams
  <2>2. Queue(m, hop) \in Seq(Waiting(Q, hop))
    BY <1>1, QueueOfHonest
  <2> QED
    BY <2>1, <2>2, AppendProperties
<1> HIDE DEF p, queue, F
<1>5. \A ip \in DOMAIN p.dg_map : p.dg_map[ip] \in Seq(Waiting(Q, ip))
  <2>1. PICK q \in Seq(Waiting(Q, hop)) : Requeued(p.dg_map, m.dg_map, hop, q)
    BY <1>3, <1>4, Zenon
  <2> QED
    BY <1>1, <2>1, RequeuedHonest
<1>6. p.frames_out \in Seq(F)
  <2>1. CASE p.frames_out = m.frames_out
    BY <1>1, <2>1
  <2>2. CASE p.frames_out = Append(m.frames_out, ArpFrame(m, Broadcast, "REQUEST", hop))
    <3>1. ArpFrame(m, Broadcast, "REQUEST", hop) \in F
      BY <1>1, ArpHonest, Zenon DEF F
    <3> QED
      BY <1>1, <2>2, <3>1, AppendProperties
  <2>3. CASE /\ hop \in DOMAIN m.ip_to_eth_table
             /\ p.frames_out = m.frames_out \o Sealed(m, m.ip_to_eth_table[hop], queue)
    <3>1. PICK eth : eth = m.ip_to_eth_table[hop]
      OBVIOUS
    <3>2. <<hop, eth>> \in N
      BY <1>1, <2>3, <3>1
    <3>3. Sealed(m, eth, queue) \in Seq(F)
      BY <1>1, <1>4, <3>2, SealedFrames, Zenon DEF F
    <3> QED
      BY <1>1, <2>3, <3>1, <3>3, ConcatProperties
  <2> QED
    BY <1>3, <2>1, <2>2, <2>3, Zenon
<1> QED
  BY <1>1, <1>2, <1>3, <1>5, <1>6 DEF Honest, SameEnd, p, F

(* recv_frame() keeps an interface honest if the frame tells the truth     *)
(* about its sender and carries a datagram meant for this link.            *)
LEMMA RecvHonest ==
    ASSUME NEW m, NEW e, NEW a, NEW N, NEW Q, NEW D, Honest(m, e, a, N, Q, D),
           NEW frame, Arrives(frame, e, N, D)
    PROVE  Honest(RecvFrame(m, frame), e, a, N, Q, D)
<1> DEFINE p == RecvFrame(m, frame)
           ip == frame.payload.sender_ip_address
           eth == frame.payload.sender_ethernet_address
           learned == Learn(m, frame)
           mine == frame.dst \in {Broadcast, m.ethernet_address} /\ frame.payload # Garbled
           F == FramesOf(e, a, N, Q)
<1>1. /\ InterfaceType(m) /\ TablesFresh(m)
      /\ m.ethernet_address = e /\ m.ip_address = a
      /\ \A k \in DOMAIN m.ip_to_eth_table :
            k \in Nat /\ <<k, m.ip_to_eth_table[k]>> \in N
      /\ \A k \in DOMAIN m.dg_map : m.dg_map[k] \in Seq(Waiting(Q, k))
      /\ m.frames_out \in Seq(F) /\ m.datagrams_out \in Seq(D)
  BY DEF Honest
<1>2. InterfaceType(p) /\ TablesFresh(p)
  BY <1>1, RecvKeepsFresh
<1>3. \/ ~mine /\ p = m
      \/ /\ mine /\ frame.type = "IPv4" /\ SameEnd(p, m)
         /\ p.ip_to_eth_table = m.ip_to_eth_table /\ p.dg_map = m.dg_map
         /\ p.frames_out = m.frames_out
         /\ p.datagrams_out = Append(m.datagrams_out, frame.payload)
      \/ /\ mine /\ frame.type # "IPv4" /\ SameEnd(p, m)
         /\ p.ip_to_eth_table = learned.ip_to_eth_table
         /\ p.datagrams_out = m.datagrams_out
         /\ \/ p.dg_map = m.dg_map /\ p.frames_out = m.frames_out
            \/ /\ p.dg_map = m.dg_map
               /\ p.frames_out = Append(m.frames_out, ArpFrame(m, frame.src, "REPLY", ip))
            \/ /\ Requeued(p.dg_map, m.dg_map, ip, <<>>)
               /\ p.frames_out = m.frames_out \o Sealed(m, eth, Queue(m, ip))
  BY <1>1, RecvEffect, Zenon
<1>4. \A k \in DOMAIN learned.ip_to_eth_table :
         \/ k \in DOMAIN m.ip_to_eth_table /\ learned.ip_to_eth_table[k] = m.ip_to_eth_table[k]
         \/ k = ip /\ learned.ip_to_eth_table[k] = frame.src
  BY <1>1, LearnEffect
<1> HIDE DEF p, ip, eth, learned, F
<1>5. CASE ~mine
  BY <1>3, <1>5 DEF p
<1>6. CASE mine /\ frame.type = "IPv4"
  <2>1. frame.payload \in D
    BY <1>1, <1>6 DEF Arrives
  <2>2. p.datagrams_out \in Seq(D)
    BY <1>1, <1>3, <1>6, <2>1, AppendProperties, Zenon
  <2> QED
    BY <1>1, <1>2, <1>3, <1>6, <2>2 DEF Honest, SameEnd, p, F
<1>7. CASE mine /\ frame.type # "IPv4"
  <2>1. ip \in Nat /\ <<ip, frame.src>> \in N /\ eth = frame.src
    BY <1>7 DEF Arrives, ip, eth
  <2>2. /\ SameEnd(p, m) /\ p.ip_to_eth_table = learned.ip_to_eth_table
        /\ p.datagrams_out = m.datagrams_out
        /\ \/ p.dg_map = m.dg_map /\ p.frames_out = m.frames_out
           \/ /\ p.dg_map = m.dg_map
              /\ p.frames_out = Append(m.frames_out, ArpFrame(m, frame.src, "REPLY", ip))
           \/ /\ Requeued(p.dg_map, m.dg_map, ip, <<>>)
              /\ p.frames_out = m.frames_out \o Sealed(m, eth, Queue(m, ip))
    BY <1>3, <1>7
  <2>3. \A k \in DOMAIN p.ip_to_eth_table : k \in Nat /\ <<k, p.ip_to_eth_table[k]>> \in N
    BY <1>1, <1>4, <2>1, <2>2
  <2>4. \A k \in DOMAIN p.dg_map : p.dg_map[k] \in Seq(Waiting(Q, k))
    <3>1. <<>> \in Seq(Waiting(Q, ip))
      OBVIOUS
    <3>2. CASE p.dg_map = m.dg_map
      BY <1>1, <3>2
    <3>3. CASE Requeued(p.dg_map, m.dg_map, ip, <<>>)
      BY <1>1, <3>1, <3>3, RequeuedHonest, Zenon
    <3> QED
      BY <2>2, <3>2, <3>3
  <2>5. p.frames_out \in Seq(F)
    <3>1. CASE p.frames_out = m.frames_out
      BY <1>1, <3>1
    <3>2. CASE p.frames_out = Append(m.frames_out, ArpFrame(m, frame.src, "REPLY", ip))
      <4>1. frame.src \in Addresses(N)
        BY <2>1 DEF Addresses
      <4>2. ArpFrame(m, frame.src, "REPLY", ip) \in F
        BY <1>1, <2>1, <4>1, ArpHonest, Zenon DEF F
      <4> QED
        BY <1>1, <3>2, <4>2, AppendProperties
    <3>3. CASE p.frames_out = m.frames_out \o Sealed(m, eth, Queue(m, ip))
      <4>1. PICK queue \in Seq(Waiting(Q, ip)) : queue = Queue(m, ip)
        BY <1>1, QueueOfHonest
      <4>2. Sealed(m, eth, queue) \in Seq(F)
        BY <1>1, <2>1, <4>1, SealedFrames, Zenon DEF F
      <4> QED
        BY <1>1, <3>3, <4>1, <4>2, ConcatProperties
    <3> QED
      BY <2>2, <3>1, <3>2, <3>3
  <2> QED
    BY <1>1, <1>2, <2>2, <2>3, <2>4, <2>5 DEF Honest, SameEnd, p, F
<1> QED
  BY <1>5, <1>6, <1>7

(* tick() of an interface only forgets mappings.                           *)
LEMMA TickEffect ==
    ASSUME NEW m, InterfaceType(m), NEW ms
    PROVE  LET p == InterfaceTick(m, ms)
           IN  /\ SameEnd(p, m) /\ p.frames_out = m.frames_out
               /\ p.datagrams_out = m.datagrams_out /\ p.dg_map = m.dg_map
               /\ \A ip \in DOMAIN p.ip_to_eth_table :
                     /\ ip \in DOMAIN m.ip_to_eth_table
                     /\ p.ip_to_eth_table[ip] = m.ip_to_eth_table[ip]
<1> DEFINE old == {ip \in DOMAIN m.ip_timeout_table :
                      m.system_time + ms - m.ip_timeout_table[ip] > MappingTimeout}
           times == Erase(m.ip_timeout_table, old)
           addresses == Erase(m.ip_to_eth_table, old)
           p == [m EXCEPT !.system_time = m.system_time + ms, !.ip_to_eth_table = addresses,
                          !.ip_timeout_table = times]
<1>1. m = [f \in Fields |-> m[f]]
  BY Shape
<1>2. \A k \in DOMAIN addresses :
         k \in DOMAIN m.ip_to_eth_table /\ addresses[k] = m.ip_to_eth_table[k]
  BY DEF Erase, Restrict
<1>3. InterfaceTick(m, ms) = p
  BY DEF InterfaceTick
<1> HIDE DEF old, times, addresses
<1>4. /\ SameEnd(p, m) /\ p.frames_out = m.frames_out /\ p.datagrams_out = m.datagrams_out
      /\ p.dg_map = m.dg_map /\ p.ip_to_eth_table = addresses
  BY <1>1 DEF Fields, SameEnd
<1> HIDE DEF p
<1> QED
  BY <1>2, <1>3, <1>4

(* Time passing keeps an interface honest.                                 *)
LEMMA TickHonest ==
    ASSUME NEW m, NEW e, NEW a, NEW N, NEW Q, NEW D, Honest(m, e, a, N, Q, D), NEW ms \in Nat
    PROVE  Honest(InterfaceTick(m, ms), e, a, N, Q, D)
<1> DEFINE p == InterfaceTick(m, ms)
<1>1. InterfaceType(m) /\ TablesFresh(m)
  BY DEF Honest
<1>2. InterfaceType(p) /\ TablesFresh(p)
  BY <1>1, TickKeepsFresh
<1>3. /\ SameEnd(p, m) /\ p.frames_out = m.frames_out
      /\ p.datagrams_out = m.datagrams_out /\ p.dg_map = m.dg_map
      /\ \A ip \in DOMAIN p.ip_to_eth_table :
            /\ ip \in DOMAIN m.ip_to_eth_table
            /\ p.ip_to_eth_table[ip] = m.ip_to_eth_table[ip]
  BY <1>1, TickEffect
<1> HIDE DEF p
<1> QED
  BY <1>2, <1>3 DEF Honest, SameEnd, p

(* The owner of an interface takes what is queued.                         *)
LEMMA TakenEffect ==
    ASSUME NEW m, InterfaceType(m), TablesFresh(m)
    PROVE  /\ LET p == [m EXCEPT !.frames_out = <<>>]
              IN  /\ SameEnd(p, m) /\ p.frames_out = <<>> /\ p.datagrams_out = m.datagrams_out
                  /\ p.dg_map = m.dg_map /\ p.ip_to_eth_table = m.ip_to_eth_table
                  /\ InterfaceType(p) /\ TablesFresh(p)
           /\ LET p == [m EXCEPT !.datagrams_out = <<>>]
              IN  /\ SameEnd(p, m) /\ p.frames_out = m.frames_out /\ p.datagrams_out = <<>>
                  /\ p.dg_map = m.dg_map /\ p.ip_to_eth_table = m.ip_to_eth_table
                  /\ InterfaceType(p) /\ TablesFresh(p)
<1>1. m = [f \in Fields |-> m[f]]
  BY Shape
<1>2. LET p == [m EXCEPT !.frames_out = <<>>]
      IN  /\ SameEnd(p, m) /\ p.frames_out = <<>> /\ p.datagrams_out = m.datagrams_out
          /\ p.dg_map = m.dg_map /\ p.ip_to_eth_table = m.ip_to_eth_table
          /\ p.ip_timeout_table = m.ip_timeout_table /\ p.system_time = m.system_time
          /\ p = [f \in Fields |-> p[f]]
  BY <1>1 DEF Fields, SameEnd
<1>3. LET p == [m EXCEPT !.datagrams_out = <<>>]
      IN  /\ SameEnd(p, m) /\ p.frames_out = m.frames_out /\ p.datagrams_out = <<>>
          /\ p.dg_map = m.dg_map /\ p.ip_to_eth_table = m.ip_to_eth_table
          /\ p.ip_timeout_table = m.ip_timeout_table /\ p.system_time = m.system_time
          /\ p = [f \in Fields |-> p[f]]
  BY <1>1 DEF Fields, SameEnd
<1> DEFINE x == [m EXCEPT !.frames_out = <<>>]
           y == [m EXCEPT !.datagrams_out = <<>>]
<1> HIDE DEF x, y
<1>4. InterfaceType(x) /\ TablesFresh(x)
  BY <1>2, SameTables, Zenon DEF x
<1>5. InterfaceType(y) /\ TablesFresh(y)
  BY <1>3, SameTables, Zenon DEF y
<1> QED
  BY <1>2, <1>3, <1>4, <1>5 DEF x, y

(* Taking the frames or the datagrams away keeps an interface honest.      *)
LEMMA TakenHonest ==
    ASSUME NEW m, NEW e, NEW a, NEW N, NEW Q, NEW D, Honest(m, e, a, N, Q, D)
    PROVE  /\ Honest([m EXCEPT !.frames_out = <<>>], e, a, N, Q, D)
           /\ Honest([m EXCEPT !.datagrams_out = <<>>], e, a, N, Q, D)
<1> DEFINE x == [m EXCEPT !.frames_out = <<>>]
           y == [m EXCEPT !.datagrams_out = <<>>]
<1>1. InterfaceType(m) /\ TablesFresh(m)
  BY DEF Honest
<1>2. /\ SameEnd(x, m) /\ x.frames_out = <<>> /\ x.datagrams_out = m.datagrams_out
      /\ x.dg_map = m.dg_map /\ x.ip_to_eth_table = m.ip_to_eth_table
      /\ InterfaceType(x) /\ TablesFresh(x)
  BY <1>1, TakenEffect, Zenon
<1>3. /\ SameEnd(y, m) /\ y.frames_out = m.frames_out /\ y.datagrams_out = <<>>
      /\ y.dg_map = m.dg_map /\ y.ip_to_eth_table = m.ip_to_eth_table
      /\ InterfaceType(y) /\ TablesFresh(y)
  BY <1>1, TakenEffect, Zenon
<1> HIDE DEF x, y
<1>4. <<>> \in Seq(D) /\ <<>> \in Seq(FramesOf(e, a, N, Q))
  OBVIOUS
<1>5. Honest(x, e, a, N, Q, D)
  BY <1>2, <1>4 DEF Honest, SameEnd
<1>6. Honest(y, e, a, N, Q, D)
  BY <1>3, <1>4 DEF Honest, SameEnd
<1> QED
  BY <1>5, <1>6 DEF x, y

(* A new interface is honest.                                              *)
LEMMA NewHonest ==
    ASSUME NEW e, NEW a, NEW N, NEW Q, NEW D
    PROVE  Honest(NewInterface(e, a), e, a, N, Q, D)
<1> DEFINE m == NewInterface(e, a)
<1>1. /\ m = [f \in Fields |-> m[f]] /\ m.system_time = 0
      /\ m.ip_to_eth_table = EmptyMap /\ m.ip_timeout_table = EmptyMap /\ m.dg_map = EmptyMap
      /\ m.frames_out = <<>> /\ m.datagrams_out = <<>>
      /\ m.ethernet_address = e /\ m.ip_address = a
  BY DEF NewInterface, Fields
<1>2. DOMAIN EmptyMap = {}
  BY DEF EmptyMap
<1>3. <<>> \in Seq(D) /\ <<>> \in Seq(FramesOf(e, a, N, Q))
  OBVIOUS
<1> HIDE DEF m
<1>4. InterfaceType(m) /\ TablesFresh(m)
  BY <1>1, <1>2, Shape DEF TablesFresh
<1> QED
  BY <1>1, <1>2, <1>3, <1>4, Zenon DEF Honest, m

-----------------------------------------------------------------------------
(* The ends of the links, by their Ethernet addresses, and the link, the   *)
(* address and the interface of each.                                      *)
LinkOf == [applesauce |-> 2, dm42 |-> 3, dm43 |-> 3, hs_router |-> 4, default_router |-> 1]

Ends == ({"port"} \X (1..5)) \cup ({"host"} \X Hosts)

LinkNo(e) == IF e[1] = "port" THEN e[2] ELSE LinkOf[e[2]]

AddressOf(e) == IF e[1] = "port" THEN PortAddress[e[2]] ELSE HostAddress[e[2]]

At(r, hs, e) == IF e[1] = "port" THEN r.interfaces[e[2]] ELSE hs[e[2]]

(* The ends of a link in the order in which they exchange frames.          *)
EndName(port, j) == IF j = 1 THEN <<"port", port>> ELSE <<"host", LinkHosts[port][j - 1]>>

EndCount == <<2, 2, 3, 2, 1>>

(* The hosts of the network simulator.                                     *)
LEMMA HostsAre == Hosts = {"applesauce", "dm42", "dm43", "hs_router", "default_router"}
BY DEF Hosts, HostAddress

(* Every end of a link has an address and a link number.                   *)
LEMMA Geometry ==
    /\ \A i \in 1..5 : PortAddress[i] \in Nat
    /\ \A h \in Hosts : HostAddress[h] \in Nat /\ LinkOf[h] \in 1..5
    /\ \A e \in Ends : LinkNo(e) \in 1..5 /\ AddressOf(e) \in Nat
<1>1. \A i \in 1..5 : PortAddress[i] \in Nat
  BY DEF PortAddress
<1>2. \A h \in Hosts : HostAddress[h] \in Nat /\ LinkOf[h] \in 1..5
  BY HostsAre DEF HostAddress, LinkOf
<1>3. ASSUME NEW e \in Ends PROVE LinkNo(e) \in 1..5 /\ AddressOf(e) \in Nat
  <2>1. CASE e \in {"port"} \X (1..5)
    BY <1>1, <2>1 DEF LinkNo, AddressOf
  <2>2. CASE e \in {"host"} \X Hosts
    BY <1>2, <2>2 DEF LinkNo, AddressOf
  <2> QED
    BY <2>1, <2>2 DEF Ends
<1> QED
  BY <1>1, <1>2, <1>3

(* Each link lists its ends once.                                          *)
LEMMA LinkList ==
    ASSUME NEW port \in 1..5
    PROVE  /\ EndCount[port] \in Nat \ {0}
           /\ LinkHosts[port] \in Seq(Hosts) /\ Len(LinkHosts[port]) = EndCount[port] - 1
           /\ \A j \in 1..EndCount[port] :
                 EndName(port, j) \in Ends /\ LinkNo(EndName(port, j)) = port
           /\ \A i, j \in 1..EndCount[port] : EndName(port, i) = EndName(port, j) => i = j
           /\ \A e \in Ends : LinkNo(e) = port => \E j \in 1..EndCount[port] : e = EndName(port, j)
<1>1. CASE port = 1
  BY <1>1, HostsAre DEF EndCount, LinkHosts, EndName, Ends, LinkNo, LinkOf
<1>2. CASE port = 2
  BY <1>2, HostsAre DEF EndCount, LinkHosts, EndName, Ends, LinkNo, LinkOf
<1>3. CASE port = 3
  BY <1>3, HostsAre DEF EndCount, LinkHosts, EndName, Ends, LinkNo, LinkOf
<1>4. CASE port = 4
  BY <1>4, HostsAre DEF EndCount, LinkHosts, EndName, Ends, LinkNo, LinkOf
<1>5. CASE port = 5
  BY <1>5, HostsAre DEF EndCount, LinkHosts, EndName, Ends, LinkNo, LinkOf
<1> QED
  BY <1>1, <1>2, <1>3, <1>4, <1>5

(* The parts of Exchange: the interfaces of a link, the frames that reach  *)
(* the i-th of them, and the interfaces after they have received them.     *)
LinkEnds(r, hs, port) ==
    <<r.interfaces[port]>> \o [i \in DOMAIN LinkHosts[port] |-> hs[LinkHosts[port][i]]]

Carried(frame, whole) == IF whole THEN frame ELSE [frame EXCEPT !.payload = Garbled]

Moved(ends, whole, i) ==
    FlattenSeq([j \in DOMAIN ends |->
        IF i = j THEN <<>>
        ELSE [k \in DOMAIN ends[j].frames_out |->
                IF whole THEN ends[j].frames_out[k]
                ELSE [ends[j].frames_out[k] EXCEPT !.payload = Garbled]]])

Exchanged(ends, whole) ==
    [i \in DOMAIN ends |->
        FoldLeft(RecvFrame, [ends[i] EXCEPT !.frames_out = <<>>], Moved(ends, whole, i))]

(* LinkEnds lists the interfaces at a link, the router's first.            *)
LEMMA LinkEndsAre ==
    ASSUME NEW port \in 1..5, NEW r, NEW hs
    PROVE  /\ DOMAIN LinkEnds(r, hs, port) = 1..EndCount[port]
           /\ \A j \in 1..EndCount[port] :
                 LinkEnds(r, hs, port)[j] = At(r, hs, EndName(port, j))
<1> DEFINE s == LinkHosts[port]
           t == [i \in DOMAIN s |-> hs[s[i]]]
           n == r.interfaces[port]
<1>1. PICK len \in Nat : DOMAIN s = 1..len /\ EndCount[port] = len + 1
  <2>1. PICK c \in Nat \ {0} : c = EndCount[port]
    BY LinkList
  <2>2. LinkHosts[port] \in Seq(Hosts) /\ Len(LinkHosts[port]) = c - 1
    BY <2>1, LinkList, Zenon
  <2>3. DOMAIN s = 1..(c - 1) /\ c - 1 \in Nat /\ c = (c - 1) + 1
    BY <2>2, LenProperties
  <2> QED
    BY <2>1, <2>3
<1>2. LinkEnds(r, hs, port) = <<n>> \o t
  BY DEF LinkEnds
<1> HIDE DEF s
<1> DEFINE T == {n} \cup {hs[s[i]] : i \in 1..len}
<1>3. <<n>> \in Seq(T) /\ Len(<<n>>) = 1 /\ <<n>>[1] = n
  OBVIOUS
<1>4. t \in Seq(T) /\ Len(t) = len /\ \A i \in 1..len : t[i] = hs[s[i]]
  <2>1. t \in [1..len -> T]
    BY <1>1
  <2> QED
    BY <1>1, <2>1, LenProperties, SeqDef
<1> HIDE DEF n, t, T
<1>5. /\ <<n>> \o t \in Seq(T) /\ Len(<<n>> \o t) = len + 1
      /\ \A i \in 1..(len + 1) : (<<n>> \o t)[i] = IF i <= 1 THEN n ELSE t[i - 1]
  BY <1>3, <1>4, ConcatProperties
<1>6. DOMAIN (<<n>> \o t) = 1..(len + 1)
  BY <1>5, LenProperties
<1>7. ASSUME NEW j \in 1..(len + 1)
      PROVE  (<<n>> \o t)[j] = At(r, hs, EndName(port, j))
  <2>1. CASE j = 1
    BY <1>5, <2>1 DEF At, EndName, n
  <2>2. CASE j # 1
    <3>1. j - 1 \in 1..len /\ ~(j <= 1)
      BY <2>2
    <3>2. (<<n>> \o t)[j] = hs[s[j - 1]]
      BY <1>4, <1>5, <3>1
    <3> QED
      BY <2>2, <3>2, Zenon DEF At, EndName, s
  <2> QED
    BY <2>1, <2>2, Zenon
<1> QED
  BY <1>1, <1>2, <1>6, <1>7

(* What arrives are the frames of the other ends, each once.               *)
FromOthers(ends, whole, i, s, at) ==
    /\ \A p \in DOMAIN s :
          /\ at[p][1] \in DOMAIN ends /\ at[p][1] # i
          /\ at[p][2] \in DOMAIN ends[at[p][1]].frames_out
          /\ s[p] = Carried(ends[at[p][1]].frames_out[at[p][2]], whole)
    /\ \A p, q \in DOMAIN s : at[p][1] = at[q][1] /\ at[p][2] = at[q][2] => p = q

(* What reaches an end in an exchange are the frames of the other ends,    *)
(* each once.                                                              *)
LEMMA MovedFrames ==
    ASSUME NEW len \in Nat, NEW ends, DOMAIN ends = 1..len, NEW whole \in BOOLEAN,
           \A j \in 1..len : \E F : ends[j].frames_out \in Seq(F),
           NEW i \in 1..len
    PROVE  /\ \E T : Moved(ends, whole, i) \in Seq(T)
           /\ \E at : FromOthers(ends, whole, i, Moved(ends, whole, i), at)
<1> DEFINE carried(j) == [k \in DOMAIN ends[j].frames_out |->
                             Carried(ends[j].frames_out[k], whole)]
           q == [j \in 1..len |-> IF i = j THEN <<>> ELSE carried(j)]
           T == UNION {{Carried(ends[j].frames_out[k], whole) : k \in DOMAIN ends[j].frames_out} :
                          j \in 1..len}
<1>1. Moved(ends, whole, i) = FlattenSeq(q)
  BY DEF Moved, Carried
<1>2. ASSUME NEW j \in 1..len PROVE carried(j) \in Seq(T)
  <2>1. PICK F : ends[j].frames_out \in Seq(F)
    OBVIOUS
  <2>2. PICK n \in Nat : DOMAIN ends[j].frames_out = 1..n
    BY <2>1, LenProperties
  <2>3. \A k \in DOMAIN ends[j].frames_out : Carried(ends[j].frames_out[k], whole) \in T
    OBVIOUS
  <2> HIDE DEF T
  <2>4. carried(j) \in [1..n -> T]
    BY <2>2, <2>3
  <2> QED
    BY <2>4, SeqDef
<1> HIDE DEF T
<1>3. /\ q \in Seq(Seq(T)) /\ Len(q) = len
      /\ \A j \in 1..len : q[j] = IF i = j THEN <<>> ELSE carried(j)
  <2>1. <<>> \in Seq(T)
    OBVIOUS
  <2>2. \A j \in 1..len : (IF i = j THEN <<>> ELSE carried(j)) \in Seq(T)
    BY <1>2, <2>1
  <2> HIDE DEF carried
  <2>3. q \in [1..len -> Seq(T)]
    BY <2>2
  <2> QED
    BY <2>3, LenProperties, SeqDef
<1> HIDE DEF q
<1>4. PICK s : s = FlattenSeq(q)
  OBVIOUS
<1>5. s \in Seq(T) /\ \E at : Located(q, len, s, at)
  BY <1>3, <1>4, Flattened
<1>6. PICK at : Located(q, len, s, at)
  BY <1>5
<1>7. ASSUME NEW p \in DOMAIN s
      PROVE  /\ at[p][1] \in DOMAIN ends /\ at[p][1] # i
             /\ at[p][2] \in DOMAIN ends[at[p][1]].frames_out
             /\ s[p] = Carried(ends[at[p][1]].frames_out[at[p][2]], whole)
  <2>1. PICK j, k : j = at[p][1] /\ k = at[p][2]
    BY Zenon
  <2>2. j \in 1..len /\ k \in DOMAIN q[j] /\ s[p] = q[j][k]
    BY <1>6, <2>1 DEF Located
  <2>3. i # j
    <3>1. DOMAIN <<>> = {}
      OBVIOUS
    <3> QED
      BY <1>3, <2>2, <3>1
  <2>4. q[j] = carried(j)
    BY <1>3, <2>2, <2>3
  <2>5. k \in DOMAIN ends[j].frames_out /\ s[p] = Carried(ends[j].frames_out[k], whole)
    BY <2>2, <2>4
  <2> QED
    BY <2>1, <2>2, <2>3, <2>5
<1>8. FromOthers(ends, whole, i, s, at)
  BY <1>6, <1>7 DEF FromOthers, Located
<1> QED
  BY <1>1, <1>4, <1>5, <1>8

(* The pairs of addresses on a link.                                       *)
Neighbours(port) == {<<AddressOf(e), e>> : e \in {g \in Ends : LinkNo(g) = port}}

(* A datagram that is sent to a neighbour is one that it may receive.      *)
Compatible(Q, D) ==
    \A e, g \in Ends : e # g /\ LinkNo(e) = LinkNo(g) =>
        \A d : <<AddressOf(g), d>> \in Q[e] => d \in D[g]

HonestAt(m, e, Q, D) ==
    Honest(m, e, AddressOf(e), Neighbours(LinkNo(e)), Q[e], D[e])

(* No interface has the broadcast address.                                 *)
LEMMA NoBroadcast == \A e \in Ends : e # Broadcast
<1>1. DOMAIN PortAddress = 1..5
  BY DEF PortAddress
<1> QED
  BY <1>1, BroadcastAssumption DEF Ends

(* A pair of addresses at a link belongs to one of its ends.               *)
LEMMA NeighbourPairs ==
    ASSUME NEW port, NEW ip, NEW eth, <<ip, eth>> \in Neighbours(port)
    PROVE  eth \in Ends /\ LinkNo(eth) = port /\ ip = AddressOf(eth)
BY DEF Neighbours

(* The frames of a neighbour.                                              *)
LEMMA ArrivesFromNeighbour ==
    ASSUME NEW Q, NEW D, Compatible(Q, D),
           NEW e \in Ends, NEW g \in Ends, e # g, LinkNo(e) = LinkNo(g),
           NEW f \in FramesOf(e, AddressOf(e), Neighbours(LinkNo(e)), Q[e]),
           NEW whole \in BOOLEAN
    PROVE  Arrives(Carried(f, whole), g, Neighbours(LinkNo(g)), D[g])
<1> DEFINE N == Neighbours(LinkNo(g))
<1>1. CASE ~whole
  <2>1. f = [x \in {"src", "dst", "type", "payload"} |-> f[x]]
    BY DEF FramesOf, ArpFrames, DataFrames
  <2>2. Carried(f, whole).payload = Garbled
    BY <1>1, <2>1 DEF Carried
  <2> QED
    BY <2>2 DEF Arrives
<1>2. CASE whole /\ f \in ArpFrames(e, AddressOf(e), N)
  <2>1. /\ f.type = "ARP" /\ f.payload.sender_ip_address = AddressOf(e)
        /\ f.src = e /\ f.payload.sender_ethernet_address = e
    BY <1>2 DEF ArpFrames
  <2>2. AddressOf(e) \in Nat
    BY Geometry
  <2>3. <<AddressOf(e), e>> \in N
    BY DEF Neighbours
  <2> QED
    BY <1>2, <2>1, <2>2, <2>3 DEF Arrives, Carried
<1>3. CASE whole /\ f \in DataFrames(e, N, Q[e])
  <2>1. f.type = "IPv4" /\ \E ip \in Nat : <<ip, f.dst>> \in N /\ <<ip, f.payload>> \in Q[e]
    BY <1>3 DEF DataFrames
  <2>2. PICK ip \in Nat : <<ip, f.dst>> \in N /\ <<ip, f.payload>> \in Q[e]
    BY <2>1
  <2>3. f.dst \in Ends /\ ip = AddressOf(f.dst)
    BY <2>2, NeighbourPairs
  <2>4. f.dst # Broadcast
    BY <2>3, NoBroadcast
  <2>5. f.dst = g => f.payload \in D[g]
    BY <2>2, <2>3 DEF Compatible
  <2> QED
    BY <1>3, <2>1, <2>4, <2>5 DEF Arrives, Carried
<1> QED
  BY <1>1, <1>2, <1>3 DEF FramesOf

(* A loop of recv_frame() over frames of neighbours.                       *)
LEMMA RecvLoopHonest ==
    ASSUME NEW m, NEW e, NEW a, NEW N, NEW Q, NEW D, Honest(m, e, a, N, Q, D),
           NEW T, NEW s \in Seq(T), \A p \in 1..Len(s) : Arrives(s[p], e, N, D),
           NEW st, Loop("recv", m, s, st)
    PROVE  \A i \in 0..Len(s) : Honest(st[i], e, a, N, Q, D)
<1> DEFINE bad == {i \in 0..Len(s) : ~Honest(st[i], e, a, N, Q, D)}
<1>1. SUFFICES ASSUME bad # {} PROVE FALSE
  OBVIOUS
<1>2. Len(s) \in Nat
  BY LenProperties
<1>3. PICK i \in bad : \A k \in bad : i <= k
  <2>1. bad \subseteq Nat
    BY <1>2
  <2> HIDE DEF bad
  <2> QED
    BY <1>1, <2>1, LeastOfNat, Zenon
<1>4. i \in 0..Len(s) /\ ~Honest(st[i], e, a, N, Q, D)
  OBVIOUS
<1>5. i # 0
  BY <1>4 DEF Loop
<1>6. i \in 1..Len(s) /\ i - 1 \in 0..Len(s) /\ ~(i <= i - 1)
  BY <1>2, <1>4, <1>5
<1>7. i - 1 \notin bad
  <2> HIDE DEF bad
  <2> QED
    BY <1>3, <1>6
<1>8. Honest(st[i - 1], e, a, N, Q, D)
  BY <1>6, <1>7
<1>9. st[i] = RecvFrame(st[i - 1], s[i])
  BY <1>6 DEF Loop, Step
<1>10. Arrives(s[i], e, N, D)
  BY <1>6
<1> QED
  BY <1>4, <1>8, <1>9, <1>10, RecvHonest

(* The ends of a link after an exchange.                                   *)
LEMMA ExchangedHonest ==
    ASSUME NEW Q, NEW D, Compatible(Q, D), NEW port \in 1..5, NEW whole \in BOOLEAN,
           NEW ends, DOMAIN ends = 1..EndCount[port],
           \A j \in 1..EndCount[port] : HonestAt(ends[j], EndName(port, j), Q, D),
           NEW i \in 1..EndCount[port]
    PROVE  HonestAt(Exchanged(ends, whole)[i], EndName(port, i), Q, D)
<1> DEFINE g == EndName(port, i)
           base == [ends[i] EXCEPT !.frames_out = <<>>]
           s == Moved(ends, whole, i)
<1>1. PICK len \in Nat : len = EndCount[port]
  BY LinkList, Zenon
<1>2. \A j \in 1..len : EndName(port, j) \in Ends /\ LinkNo(EndName(port, j)) = port
  BY <1>1, LinkList, Zenon
<1>3. \A j \in 1..len :
         ends[j].frames_out \in Seq(FramesOf(EndName(port, j), AddressOf(EndName(port, j)),
                                             Neighbours(port), Q[EndName(port, j)]))
  BY <1>1, <1>2 DEF HonestAt, Honest
<1>4. /\ \E T : s \in Seq(T)
      /\ \E at : FromOthers(ends, whole, i, s, at)
  BY <1>1, <1>3, MovedFrames, Zenon
<1>5. PICK T, at : s \in Seq(T) /\ FromOthers(ends, whole, i, s, at)
  BY <1>4
<1> HIDE DEF s
<1>6. ASSUME NEW p \in 1..Len(s) PROVE Arrives(s[p], g, Neighbours(LinkNo(g)), D[g])
  <2>1. p \in DOMAIN s
    BY <1>5, LenProperties
  <2>2. PICK j, k : j = at[p][1] /\ k = at[p][2]
    BY Zenon
  <2>3. /\ j \in 1..len /\ j # i /\ k \in DOMAIN ends[j].frames_out
        /\ s[p] = Carried(ends[j].frames_out[k], whole)
    BY <1>1, <1>5, <2>1, <2>2 DEF FromOthers
  <2>4. EndName(port, j) # g
    BY <1>1, <2>3, LinkList, Zenon
  <2>5. PICK e \in Ends : e = EndName(port, j) /\ LinkNo(e) = port
    BY <1>2, <2>3
  <2>6. ends[j].frames_out \in Seq(FramesOf(e, AddressOf(e), Neighbours(port), Q[e]))
    BY <1>3, <2>3, <2>5
  <2>7. k \in 1..Len(ends[j].frames_out)
    BY <2>3, <2>6, LenProperties
  <2>8. ends[j].frames_out[k] \in FramesOf(e, AddressOf(e), Neighbours(port), Q[e])
    BY <2>6, <2>7, ElementOfSeq
  <2>9. g \in Ends /\ LinkNo(g) = port
    BY <1>1, <1>2
  <2> HIDE DEF g
  <2> QED
    BY <2>3, <2>4, <2>5, <2>8, <2>9, ArrivesFromNeighbour, Zenon
<1>7. HonestAt(base, g, Q, D)
  BY TakenHonest, Zenon DEF HonestAt
<1> HIDE DEF base, g
<1>8. PICK st : Loop("recv", base, s, st) /\ FoldLeft(RecvFrame, base, s) = st[Len(s)]
  BY <1>5, RecvLoop
<1>9. Len(s) \in 0..Len(s)
  BY <1>5, LenProperties
<1>10. Honest(st[Len(s)], g, AddressOf(g), Neighbours(LinkNo(g)), Q[g], D[g])
  BY <1>5, <1>6, <1>7, <1>8, <1>9, RecvLoopHonest, Zenon DEF HonestAt
<1>11. Exchanged(ends, whole)[i] = FoldLeft(RecvFrame, base, s)
  BY DEF Exchanged, base, s
<1> QED
  BY <1>8, <1>10, <1>11 DEF HonestAt, g

Ports(r, table, Q, D) ==
    /\ r = [f \in {"interfaces", "rtable"} |-> r[f]] /\ r.rtable = table
    /\ r.interfaces = [i \in 1..5 |-> r.interfaces[i]]
    /\ \A i \in 1..5 : HonestAt(r.interfaces[i], <<"port", i>>, Q, D)

HostsHonest(hs, Q, D) ==
    /\ hs = [h \in Hosts |-> hs[h]]
    /\ \A h \in Hosts : HonestAt(hs[h], <<"host", h>>, Q, D)

(* All of the network.                                                     *)
Net(r, table, hs, Q, D) == Ports(r, table, Q, D) /\ HostsHonest(hs, Q, D)

(* In an honest network every interface is honest.                         *)
LEMMA NetAt ==
    ASSUME NEW r, NEW table, NEW hs, NEW Q, NEW D, Net(r, table, hs, Q, D), NEW e \in Ends
    PROVE  HonestAt(At(r, hs, e), e, Q, D)
<1>1. CASE e \in {"port"} \X (1..5)
  <2>1. PICK i \in 1..5 : e = <<"port", i>>
    BY <1>1
  <2> QED
    BY <2>1 DEF Net, Ports, At
<1>2. CASE e \in {"host"} \X Hosts
  <2>1. PICK h \in Hosts : e = <<"host", h>>
    BY <1>2
  <2> QED
    BY <2>1 DEF Net, HostsHonest, At
<1> QED
  BY <1>1, <1>2 DEF Ends

(* The route that route_one_datagram() takes (router.cc:40).               *)
Found(table, dst) == table[Max(Matching(table, dst))]

HopFor(table, dst) ==
    IF Found(table, dst).next_hop = NoHop THEN dst ELSE Found(table, dst).next_hop

Routed(d) == [d EXCEPT !.ttl = TtlLeft(d.ttl)]

(* A datagram that an interface has received is one that may be sent on.   *)
Routable(table, Q, D) ==
    \A i \in 1..5 : \A d \in D[<<"port", i>>] :
        /\ d \in [id : Nat, dst : Nat, ttl : Nat]
        /\ Matching(table, d.dst) # {} /\ TtlLeft(d.ttl) # 0 =>
              /\ Found(table, d.dst).interface_num \in 1..5
              /\ HopFor(table, d.dst) \in Nat
              /\ <<HopFor(table, d.dst), Routed(d)>>
                     \in Q[<<"port", Found(table, d.dst).interface_num>>]

(* route_one_datagram() (router.cc): either the datagram is dropped and    *)
(* nothing changes, or one interface sends it to the next hop of the route *)
(* that was found.                                                         *)
LEMMA RouteEffect ==
    ASSUME NEW r, NEW d \in [id : Nat, dst : Nat, ttl : Nat],
           r = [f \in {"interfaces", "rtable"} |-> r[f]],
           r.interfaces = [i \in 1..5 |-> r.interfaces[i]],
           Found(r.rtable, d.dst).interface_num \in 1..5
    PROVE  LET p == RouteOneDatagram(r, d)
               n == Found(r.rtable, d.dst).interface_num
           IN  \/ (Matching(r.rtable, d.dst) = {} \/ TtlLeft(d.ttl) = 0) /\ p = r
               \/ /\ Matching(r.rtable, d.dst) # {} /\ TtlLeft(d.ttl) # 0
                  /\ p = [f \in {"interfaces", "rtable"} |-> p[f]]
                  /\ p.rtable = r.rtable
                  /\ p.interfaces = [i \in 1..5 |-> p.interfaces[i]]
                  /\ p.interfaces[n] =
                        SendDatagram(r.interfaces[n], Routed(d), HopFor(r.rtable, d.dst))
                  /\ \A i \in 1..5 \ {n} : p.interfaces[i] = r.interfaces[i]
<1> DEFINE table == r.rtable
           n == Found(table, d.dst).interface_num
           hop == HopFor(table, d.dst)
           new == SendDatagram(r.interfaces[n], Routed(d), hop)
<1>1. d.ttl \in Nat /\ [d EXCEPT !.ttl = TtlLeft(@)] = Routed(d) /\ Routed(d).ttl = TtlLeft(d.ttl)
  BY DEF Routed
<1>2. RouteOneDatagram(r, d) =
         IF Matching(table, d.dst) = {} \/ Routed(d).ttl = 0 THEN r
         ELSE [r EXCEPT !.interfaces[n] = new]
  BY <1>1, Zenon DEF RouteOneDatagram, Matching, Found, HopFor, Routed
<1> HIDE DEF n, new, hop
<1>3. [r EXCEPT !.interfaces[n] = new] = [r EXCEPT !.interfaces = [r.interfaces EXCEPT ![n] = new]]
  OBVIOUS
<1> DEFINE p == [r EXCEPT !.interfaces = [r.interfaces EXCEPT ![n] = new]]
<1>4. n \in 1..5
  BY DEF n
<1>5. /\ p = [f \in {"interfaces", "rtable"} |-> p[f]] /\ p.rtable = r.rtable
      /\ p.interfaces = [r.interfaces EXCEPT ![n] = new]
  OBVIOUS
<1>6. LET ports == [r.interfaces EXCEPT ![n] = new]
      IN  /\ ports = [i \in 1..5 |-> ports[i]] /\ ports[n] = new
          /\ \A i \in 1..5 \ {n} : ports[i] = r.interfaces[i]
  BY <1>4
<1> HIDE DEF p
<1>7. CASE Matching(table, d.dst) = {} \/ TtlLeft(d.ttl) = 0
  BY <1>1, <1>2, <1>7
<1>8. CASE Matching(table, d.dst) # {} /\ TtlLeft(d.ttl) # 0
  <2>1. RouteOneDatagram(r, d) = p
    BY <1>1, <1>2, <1>3, <1>8 DEF p
  <2>2. /\ p.interfaces = [i \in 1..5 |-> p.interfaces[i]] /\ p.interfaces[n] = new
        /\ \A i \in 1..5 \ {n} : p.interfaces[i] = r.interfaces[i]
    BY <1>5, <1>6
  <2> QED
    BY <1>5, <1>8, <2>1, <2>2 DEF new, n, hop
<1> QED
  BY <1>7, <1>8

(* Routing one datagram keeps the router's interfaces honest.              *)
LEMMA RouteStepHonest ==
    ASSUME NEW r, NEW table, NEW Q, NEW D, Ports(r, table, Q, D), Routable(table, Q, D),
           NEW i \in 1..5, NEW d \in D[<<"port", i>>]
    PROVE  Ports(RouteOneDatagram(r, d), table, Q, D)
<1> DEFINE p == RouteOneDatagram(r, d)
           n == Found(table, d.dst).interface_num
           hop == HopFor(table, d.dst)
<1>1. /\ d \in [id : Nat, dst : Nat, ttl : Nat]
      /\ Matching(table, d.dst) # {} /\ TtlLeft(d.ttl) # 0 =>
            n \in 1..5 /\ hop \in Nat /\ <<hop, Routed(d)>> \in Q[<<"port", n>>]
  BY DEF Routable
<1>2. /\ r = [f \in {"interfaces", "rtable"} |-> r[f]] /\ r.rtable = table
      /\ r.interfaces = [k \in 1..5 |-> r.interfaces[k]]
      /\ \A k \in 1..5 : HonestAt(r.interfaces[k], <<"port", k>>, Q, D)
  BY DEF Ports
<1>3. CASE Matching(table, d.dst) = {} \/ TtlLeft(d.ttl) = 0
  <2>1. [d EXCEPT !.ttl = TtlLeft(@)].ttl = TtlLeft(d.ttl)
    BY <1>1
  <2>2. p = r
    BY <1>2, <1>3, <2>1, Zenon DEF RouteOneDatagram, Matching
  <2> QED
    BY <2>2
<1>4. CASE Matching(table, d.dst) # {} /\ TtlLeft(d.ttl) # 0
  <2>1. n \in 1..5 /\ hop \in Nat /\ <<hop, Routed(d)>> \in Q[<<"port", n>>]
    BY <1>1, <1>4
  <2>2. /\ p = [f \in {"interfaces", "rtable"} |-> p[f]] /\ p.rtable = table
        /\ p.interfaces = [k \in 1..5 |-> p.interfaces[k]]
        /\ p.interfaces[n] = SendDatagram(r.interfaces[n], Routed(d), hop)
        /\ \A k \in 1..5 \ {n} : p.interfaces[k] = r.interfaces[k]
    BY <1>1, <1>2, <1>4, <2>1, RouteEffect
  <2> HIDE DEF p, n, hop
  <2>3. HonestAt(p.interfaces[n], <<"port", n>>, Q, D)
    BY <1>2, <2>1, <2>2, SendHonest DEF HonestAt
  <2> QED
    BY <1>2, <2>2, <2>3 DEF Ports, p
<1> QED
  BY <1>3, <1>4

(* The parts of RouteAll.                                                  *)
Queues(r) == [i \in DOMAIN r.interfaces |-> r.interfaces[i].datagrams_out]

Emptied(r) ==
    [r EXCEPT !.interfaces =
        [i \in DOMAIN r.interfaces |-> [r.interfaces[i] EXCEPT !.datagrams_out = <<>>]]]

(* route() empties the queues of the interfaces and routes what was in     *)
(* them.                                                                   *)
LEMMA RouteAllIs ==
    ASSUME NEW r, r = [f \in {"interfaces", "rtable"} |-> r[f]]
    PROVE  RouteAll(r) = FoldLeft(RouteOneDatagram, Emptied(r), FlattenSeq(Queues(r)))
BY Zenon DEF RouteAll, Emptied, Queues

(* Emptying the queues keeps the router's interfaces honest.               *)
LEMMA EmptiedHonest ==
    ASSUME NEW r, NEW table, NEW Q, NEW D, Ports(r, table, Q, D)
    PROVE  /\ Ports(Emptied(r), table, Q, D)
           /\ \A i \in 1..5 :
                 Emptied(r).interfaces[i] = [r.interfaces[i] EXCEPT !.datagrams_out = <<>>]
<1> DEFINE ports == [i \in DOMAIN r.interfaces |-> [r.interfaces[i] EXCEPT !.datagrams_out = <<>>]]
           p == [r EXCEPT !.interfaces = ports]
<1>1. /\ r = [f \in {"interfaces", "rtable"} |-> r[f]] /\ r.rtable = table
      /\ r.interfaces = [i \in 1..5 |-> r.interfaces[i]]
      /\ \A i \in 1..5 : HonestAt(r.interfaces[i], <<"port", i>>, Q, D)
  BY DEF Ports
<1>2. /\ ports = [i \in 1..5 |-> ports[i]]
      /\ \A i \in 1..5 : ports[i] = [r.interfaces[i] EXCEPT !.datagrams_out = <<>>]
  BY <1>1, Zenon
<1>3. ASSUME NEW i \in 1..5 PROVE HonestAt(ports[i], <<"port", i>>, Q, D)
  <2> HIDE DEF ports
  <2>1. HonestAt([r.interfaces[i] EXCEPT !.datagrams_out = <<>>], <<"port", i>>, Q, D)
    BY <1>1, TakenHonest, Zenon DEF HonestAt
  <2> QED
    BY <1>2, <2>1
<1>4. Emptied(r) = p
  BY DEF Emptied
<1> HIDE DEF ports
<1>5. /\ p = [f \in {"interfaces", "rtable"} |-> p[f]] /\ p.rtable = table /\ p.interfaces = ports
  BY <1>1
<1> HIDE DEF p
<1> QED
  BY <1>2, <1>3, <1>4, <1>5, Zenon DEF Ports

(* What route() takes are datagrams that arrived at an interface of the    *)
(* router.                                                                 *)
LEMMA QueuesAre ==
    ASSUME NEW r, NEW table, NEW Q, NEW D, Ports(r, table, Q, D)
    PROVE  LET s == FlattenSeq(Queues(r))
           IN  \E T : /\ s \in Seq(T)
                      /\ \E at : Located(Queues(r), 5, s, at)
                      /\ \A p \in 1..Len(s) : \E i \in 1..5 : s[p] \in D[<<"port", i>>]
<1> DEFINE q == Queues(r)
           T == UNION {D[<<"port", i>>] : i \in 1..5}
           s == FlattenSeq(q)
<1>1. /\ r.interfaces = [i \in 1..5 |-> r.interfaces[i]]
      /\ \A i \in 1..5 : r.interfaces[i].datagrams_out \in Seq(D[<<"port", i>>])
  BY DEF Ports, HonestAt, Honest
<1>2. \A i \in 1..5 : r.interfaces[i].datagrams_out \in Seq(T)
  <2>1. \A i \in 1..5 : D[<<"port", i>>] \subseteq T
    OBVIOUS
  <2> HIDE DEF T
  <2> QED
    BY <1>1, <2>1, SeqMonotonic
<1>3. \A x \in T : \E i \in 1..5 : x \in D[<<"port", i>>]
  OBVIOUS
<1> HIDE DEF T
<1>4. q \in [1..5 -> Seq(T)]
  BY <1>1, <1>2 DEF Queues
<1>5. q \in Seq(Seq(T)) /\ Len(q) = 5
  <2> HIDE DEF q
  <2>3. PICK n \in Nat : n = 5
    OBVIOUS
  <2>4. q \in [1..n -> Seq(T)]
    BY <1>4, <2>3
  <2>5. q \in Seq(Seq(T))
    BY <2>4, SeqDef
  <2>1. q \in Seq(Seq(T)) /\ DOMAIN q = 1..5
    BY <1>4, <2>5
  <2>2. Len(q) \in Nat /\ 1..5 = 1..Len(q)
    BY <2>1, LenProperties, Zenon
  <2> QED
    BY <2>1, <2>2
<1> HIDE DEF q
<1>6. s \in Seq(T) /\ \E at : Located(q, 5, s, at)
  BY <1>5, Flattened, Zenon
<1> HIDE DEF s
<1>7. \A p \in 1..Len(s) : s[p] \in T
  BY <1>6, ElementOfSeq
<1> QED
  BY <1>3, <1>6, <1>7, Zenon DEF s, q

(* Every state in the loop of route() is honest.                           *)
LEMMA RouteLoopHonest ==
    ASSUME NEW r, NEW table, NEW Q, NEW D, Ports(r, table, Q, D), Routable(table, Q, D),
           NEW T, NEW s \in Seq(T), \A p \in 1..Len(s) : \E i \in 1..5 : s[p] \in D[<<"port", i>>],
           NEW st, Loop("route", r, s, st)
    PROVE  \A i \in 0..Len(s) : Ports(st[i], table, Q, D)
<1> DEFINE bad == {i \in 0..Len(s) : ~Ports(st[i], table, Q, D)}
<1>1. SUFFICES ASSUME bad # {} PROVE FALSE
  OBVIOUS
<1>2. Len(s) \in Nat
  BY LenProperties
<1>3. PICK i \in bad : \A k \in bad : i <= k
  <2>1. bad \subseteq Nat
    BY <1>2
  <2> HIDE DEF bad
  <2> QED
    BY <1>1, <2>1, LeastOfNat, Zenon
<1>4. i \in 0..Len(s) /\ ~Ports(st[i], table, Q, D)
  OBVIOUS
<1>5. i # 0
  BY <1>4 DEF Loop
<1>6. i \in 1..Len(s) /\ i - 1 \in 0..Len(s) /\ ~(i <= i - 1)
  BY <1>2, <1>4, <1>5
<1>7. i - 1 \notin bad
  <2> HIDE DEF bad
  <2> QED
    BY <1>3, <1>6
<1>8. Ports(st[i - 1], table, Q, D)
  BY <1>6, <1>7
<1>9. st[i] = RouteOneDatagram(st[i - 1], s[i])
  BY <1>6 DEF Loop, Step
<1>10. PICK k \in 1..5 : s[i] \in D[<<"port", k>>]
  BY <1>6
<1> QED
  BY <1>4, <1>8, <1>9, <1>10, RouteStepHonest, Zenon

(* route() keeps the router's interfaces honest.                           *)
LEMMA RouteAllHonest ==
    ASSUME NEW r, NEW table, NEW Q, NEW D, Ports(r, table, Q, D), Routable(table, Q, D)
    PROVE  Ports(RouteAll(r), table, Q, D)
<1> DEFINE base == Emptied(r)
           s == FlattenSeq(Queues(r))
<1>1. PICK T : /\ s \in Seq(T)
               /\ \A p \in 1..Len(s) : \E i \in 1..5 : s[p] \in D[<<"port", i>>]
  BY QueuesAre
<1>2. Ports(base, table, Q, D)
  BY EmptiedHonest, Zenon
<1>3. RouteAll(r) = FoldLeft(RouteOneDatagram, base, s)
  BY RouteAllIs DEF Ports
<1> HIDE DEF base, s
<1>4. PICK st : Loop("route", base, s, st) /\ FoldLeft(RouteOneDatagram, base, s) = st[Len(s)]
  BY <1>1, RouteLoop
<1>5. Len(s) \in 0..Len(s)
  BY <1>1, LenProperties
<1>6. Ports(st[Len(s)], table, Q, D)
  BY <1>1, <1>2, <1>4, <1>5, RouteLoopHonest
<1> QED
  BY <1>3, <1>4, <1>6

NetShape(r, table, hs) ==
    /\ r = [f \in {"interfaces", "rtable"} |-> r[f]] /\ r.rtable = table
    /\ r.interfaces = [i \in 1..5 |-> r.interfaces[i]]
    /\ hs = [h \in Hosts |-> hs[h]]

(* An honest network is a network of the right shape whose interfaces are  *)
(* honest.                                                                 *)
LEMMA NetIs ==
    ASSUME NEW r, NEW table, NEW hs, NEW Q, NEW D
    PROVE  Net(r, table, hs, Q, D) <=>
              /\ NetShape(r, table, hs)
              /\ \A e \in Ends : HonestAt(At(r, hs, e), e, Q, D)
<1>1. \A i \in 1..5 : <<"port", i>> \in Ends /\ At(r, hs, <<"port", i>>) = r.interfaces[i]
  BY DEF Ends, At
<1>2. \A h \in Hosts : <<"host", h>> \in Ends /\ At(r, hs, <<"host", h>>) = hs[h]
  BY DEF Ends, At
<1>3. ASSUME NetShape(r, table, hs), \A e \in Ends : HonestAt(At(r, hs, e), e, Q, D)
      PROVE  Net(r, table, hs, Q, D)
  <2>1. \A i \in 1..5 : HonestAt(r.interfaces[i], <<"port", i>>, Q, D)
    BY <1>1, <1>3
  <2>2. \A h \in Hosts : HonestAt(hs[h], <<"host", h>>, Q, D)
    BY <1>2, <1>3, Zenon
  <2> QED
    BY <1>3, <2>1, <2>2 DEF NetShape, Net, Ports, HostsHonest
<1>4. ASSUME Net(r, table, hs, Q, D)
      PROVE  NetShape(r, table, hs) /\ \A e \in Ends : HonestAt(At(r, hs, e), e, Q, D)
  BY <1>4, NetAt DEF NetShape, Net, Ports, HostsHonest
<1> QED
  BY <1>3, <1>4

(* An exchange changes the interfaces at its link and no other.            *)
LEMMA ExchangeEffect ==
    ASSUME NEW table, NetShape(router, table, hosts),
           NEW port \in 1..5, NEW whole \in BOOLEAN, Exchange(port, whole)
    PROVE  /\ NetShape(router', table, hosts')
           /\ \A e \in Ends : LinkNo(e) # port => At(router', hosts', e) = At(router, hosts, e)
           /\ \A j \in 1..EndCount[port] :
                 At(router', hosts', EndName(port, j)) =
                    Exchanged(LinkEnds(router, hosts, port), whole)[j]
<1> DEFINE after == Exchanged(LinkEnds(router, hosts, port), whole)
           s == LinkHosts[port]
<1>1. /\ router' = [router EXCEPT !.interfaces[port] = after[1]]
      /\ hosts' = [h \in Hosts |->
              IF h \in Range(s) THEN after[1 + CHOOSE i \in DOMAIN s : s[i] = h] ELSE hosts[h]]
  BY Zenon DEF Exchange, LinkEnds, Exchanged, Moved
<1>2. PICK len \in Nat : DOMAIN s = 1..len /\ EndCount[port] = len + 1
  <2>1. PICK c \in Nat \ {0} : c = EndCount[port]
    BY LinkList
  <2>2. LinkHosts[port] \in Seq(Hosts) /\ Len(LinkHosts[port]) = c - 1
    BY <2>1, LinkList, Zenon
  <2>3. DOMAIN s = 1..(c - 1) /\ c - 1 \in Nat /\ c = (c - 1) + 1
    BY <2>2, LenProperties
  <2> QED
    BY <2>1, <2>3
<1> HIDE DEF after
<1>3. /\ router' = [f \in {"interfaces", "rtable"} |-> router'[f]] /\ router'.rtable = table
      /\ router'.interfaces = [router.interfaces EXCEPT ![port] = after[1]]
  BY <1>1 DEF NetShape
<1>4. /\ router'.interfaces = [i \in 1..5 |-> router'.interfaces[i]]
      /\ router'.interfaces[port] = after[1]
      /\ \A i \in 1..5 \ {port} : router'.interfaces[i] = router.interfaces[i]
  BY <1>3 DEF NetShape
<1>5. hosts' = [h \in Hosts |-> hosts'[h]]
  BY <1>1
<1>6. ASSUME NEW e \in Ends, LinkNo(e) # port
      PROVE  At(router', hosts', e) = At(router, hosts, e)
  <2>1. CASE e \in {"port"} \X (1..5)
    <3>1. PICK i \in 1..5 : e = <<"port", i>>
      BY <2>1
    <3> QED
      BY <1>4, <1>6, <3>1 DEF At, LinkNo
  <2>2. CASE e \in {"host"} \X Hosts
    <3>1. PICK h \in Hosts : e = <<"host", h>>
      BY <2>2
    <3>2. h \notin Range(s)
      <4>1. SUFFICES ASSUME NEW i \in 1..len, h = s[i] PROVE FALSE
        BY <1>2 DEF Range
      <4>2. i + 1 \in 1..EndCount[port] /\ i + 1 # 1 /\ (i + 1) - 1 = i
        BY <1>2
      <4>3. EndName(port, i + 1) = e
        BY <3>1, <4>1, <4>2 DEF EndName
      <4> QED
        BY <1>6, <4>2, <4>3, LinkList
    <3> QED
      BY <1>1, <3>1, <3>2 DEF At
  <2> QED
    BY <2>1, <2>2 DEF Ends
<1>7. ASSUME NEW j \in 1..EndCount[port]
      PROVE  At(router', hosts', EndName(port, j)) = after[j]
  <2>1. CASE j = 1
    BY <1>4, <2>1 DEF At, EndName
  <2>2. CASE j # 1
    <3>1. j - 1 \in DOMAIN s /\ j - 1 \in 1..len
      BY <1>2, <1>7, <2>2
    <3>2. PICK h : h = s[j - 1]
      OBVIOUS
    <3>3. PICK i : i = CHOOSE k \in DOMAIN s : s[k] = h
      OBVIOUS
    <3>4. i \in 1..len /\ s[i] = h
      BY <1>2, <3>1, <3>2, <3>3
    <3>5. i + 1 \in 1..EndCount[port] /\ i + 1 # 1 /\ (i + 1) - 1 = i
      BY <1>2, <3>4
    <3>6. EndName(port, i + 1) = EndName(port, j)
      BY <2>2, <3>2, <3>4, <3>5 DEF EndName
    <3>7. i + 1 = j
      BY <1>7, <3>5, <3>6, LinkList, Zenon
    <3>8. h \in Range(s)
      BY <1>2, <3>4 DEF Range
    <3>9. h \in Hosts
      <4>1. s \in Seq(Hosts)
        BY LinkList
      <4>2. j - 1 \in 1..Len(s)
        BY <1>2, <3>1, <4>1, LenProperties
      <4> HIDE DEF s
      <4> QED
        BY <3>2, <4>1, <4>2, ElementOfSeq
    <3>10. hosts'[h] = after[1 + i]
      BY <1>1, <3>3, <3>8, <3>9
    <3>11. 1 + i = j
      BY <3>4, <3>7
    <3> QED
      BY <2>2, <3>2, <3>10, <3>11 DEF At, EndName
  <2> QED
    BY <2>1, <2>2
<1> QED
  BY <1>3, <1>4, <1>5, <1>6, <1>7 DEF NetShape, after

(* An exchange of frames, whole or in part garbled, keeps the network      *)
(* honest.                                                                 *)
LEMMA ExchangeNet ==
    ASSUME NEW table, NEW Q, NEW D, Net(router, table, hosts, Q, D), Compatible(Q, D),
           NEW port \in 1..5, NEW whole \in BOOLEAN, Exchange(port, whole)
    PROVE  Net(router', table, hosts', Q, D)
<1> DEFINE ends == LinkEnds(router, hosts, port)
<1>1. /\ NetShape(router, table, hosts)
      /\ \A e \in Ends : HonestAt(At(router, hosts, e), e, Q, D)
  BY NetIs
<1>2. /\ NetShape(router', table, hosts')
      /\ \A e \in Ends : LinkNo(e) # port => At(router', hosts', e) = At(router, hosts, e)
      /\ \A j \in 1..EndCount[port] :
            At(router', hosts', EndName(port, j)) = Exchanged(ends, whole)[j]
  BY <1>1, ExchangeEffect
<1>3. /\ DOMAIN ends = 1..EndCount[port]
      /\ \A j \in 1..EndCount[port] : ends[j] = At(router, hosts, EndName(port, j))
  BY LinkEndsAre
<1> HIDE DEF ends
<1>4. ASSUME NEW j \in 1..EndCount[port] PROVE HonestAt(ends[j], EndName(port, j), Q, D)
  <2>1. EndName(port, j) \in Ends
    BY LinkList
  <2> QED
    BY <1>1, <1>3, <2>1
<1>5. \A j \in 1..EndCount[port] : HonestAt(Exchanged(ends, whole)[j], EndName(port, j), Q, D)
  BY <1>3, <1>4, ExchangedHonest, Zenon
<1>6. ASSUME NEW e \in Ends PROVE HonestAt(At(router', hosts', e), e, Q, D)
  <2>1. CASE LinkNo(e) # port
    BY <1>1, <1>2, <2>1
  <2>2. CASE LinkNo(e) = port
    <3>1. PICK j \in 1..EndCount[port] : e = EndName(port, j)
      BY <2>2, LinkList
    <3> QED
      BY <1>2, <1>5, <3>1
  <2> QED
    BY <2>1, <2>2
<1>7. Net(router', table, hosts', Q, D) <=>
         /\ NetShape(router', table, hosts')
         /\ \A e \in Ends : HonestAt(At(router', hosts', e), e, Q, D)
  <2>1. PICK r, hs : r = router' /\ hs = hosts'
    OBVIOUS
  <2>2. Net(r, table, hs, Q, D) <=>
           NetShape(r, table, hs) /\ \A e \in Ends : HonestAt(At(r, hs, e), e, Q, D)
    BY NetIs
  <2> QED
    BY <2>1, <2>2
<1> QED
  BY <1>2, <1>6, <1>7

(* A step of the router keeps the network honest.                          *)
LEMMA RouteNet ==
    ASSUME NEW table, NEW Q, NEW D, Net(router, table, hosts, Q, D), Routable(table, Q, D), Route
    PROVE  Net(router', table, hosts', Q, D)
<1>1. router' = RouteAll(router) /\ hosts' = hosts
  BY DEF Route
<1>2. Ports(RouteAll(router), table, Q, D)
  BY RouteAllHonest DEF Net
<1> QED
  BY <1>1, <1>2 DEF Net

(* A host that sends a datagram keeps the network honest if that datagram  *)
(* may go to its next hop.                                                 *)
LEMMA SendNet ==
    ASSUME NEW table, NEW Q, NEW D, Net(router, table, hosts, Q, D),
           NEW h \in DOMAIN NextHop, NEW dst, NEW ttl, SendTo(h, dst, ttl),
           <<NextHop[h], NewDatagram(dst, ttl)>> \in Q[<<"host", h>>]
    PROVE  Net(router', table, hosts', Q, D)
<1> DEFINE new == SendDatagram(hosts[h], NewDatagram(dst, ttl), NextHop[h])
<1>1. hosts' = [hosts EXCEPT ![h] = new] /\ router' = router
  BY Zenon DEF SendTo
<1>2. h \in Hosts /\ NextHop[h] \in Nat
  BY HostsAre DEF NextHop
<1>3. /\ hosts = [g \in Hosts |-> hosts[g]]
      /\ \A g \in Hosts : HonestAt(hosts[g], <<"host", g>>, Q, D)
  BY DEF Net, HostsHonest
<1>4. HonestAt(new, <<"host", h>>, Q, D)
  BY <1>2, <1>3, SendHonest DEF HonestAt
<1> HIDE DEF new
<1>5. /\ hosts' = [g \in Hosts |-> hosts'[g]] /\ hosts'[h] = new
      /\ \A g \in Hosts \ {h} : hosts'[g] = hosts[g]
  BY <1>1, <1>2, <1>3
<1> QED
  BY <1>1, <1>3, <1>4, <1>5 DEF Net, HostsHonest

(* A host that takes what it received keeps the network honest, and no     *)
(* other host changes.                                                     *)
LEMMA CheckNet ==
    ASSUME NEW table, NEW Q, NEW D, Net(router, table, hosts, Q, D), NEW h \in Hosts, Check(h)
    PROVE  /\ Net(router', table, hosts', Q, D)
           /\ hosts'[h] = [hosts[h] EXCEPT !.datagrams_out = <<>>]
           /\ \A g \in Hosts \ {h} : hosts'[g] = hosts[g]
<1> DEFINE new == [hosts[h] EXCEPT !.datagrams_out = <<>>]
<1>1. hosts' = [hosts EXCEPT ![h].datagrams_out = <<>>] /\ router' = router
  BY DEF Check
<1>2. /\ hosts = [g \in Hosts |-> hosts[g]]
      /\ \A g \in Hosts : HonestAt(hosts[g], <<"host", g>>, Q, D)
  BY DEF Net, HostsHonest
<1>3. hosts' = [hosts EXCEPT ![h] = new]
  BY <1>1, <1>2
<1>4. HonestAt(new, <<"host", h>>, Q, D)
  BY <1>2, TakenHonest, Zenon DEF HonestAt
<1> HIDE DEF new
<1>5. /\ hosts' = [g \in Hosts |-> hosts'[g]] /\ hosts'[h] = new
      /\ \A g \in Hosts \ {h} : hosts'[g] = hosts[g]
  BY <1>2, <1>3
<1> QED
  BY <1>1, <1>2, <1>4, <1>5 DEF Net, HostsHonest, new

(* Time passing keeps the network honest; it passes at every interface.    *)
LEMMA TickNet ==
    ASSUME NEW table, NEW Q, NEW D, Net(router, table, hosts, Q, D), Tick
    PROVE  /\ Net(router', table, hosts', Q, D)
           /\ \A e \in Ends : At(router', hosts', e) = InterfaceTick(At(router, hosts, e), 1)
<1> DEFINE ports == [i \in DOMAIN router.interfaces |-> InterfaceTick(router.interfaces[i], 1)]
<1>1. /\ router' = [router EXCEPT !.interfaces = ports]
      /\ hosts' = [h \in Hosts |-> InterfaceTick(hosts[h], 1)]
  BY DEF Tick
<1>2. /\ NetShape(router, table, hosts)
      /\ \A e \in Ends : HonestAt(At(router, hosts, e), e, Q, D)
  BY NetIs
<1>3. /\ ports = [i \in 1..5 |-> ports[i]]
      /\ \A i \in 1..5 : ports[i] = InterfaceTick(router.interfaces[i], 1)
  BY <1>2 DEF NetShape
<1> HIDE DEF ports
<1>4. /\ router' = [f \in {"interfaces", "rtable"} |-> router'[f]] /\ router'.rtable = table
      /\ router'.interfaces = ports
  BY <1>1, <1>2 DEF NetShape
<1>5. NetShape(router', table, hosts')
  BY <1>1, <1>3, <1>4 DEF NetShape
<1>6. ASSUME NEW e \in Ends PROVE At(router', hosts', e) = InterfaceTick(At(router, hosts, e), 1)
  <2>1. CASE e \in {"port"} \X (1..5)
    BY <1>3, <1>4, <2>1 DEF At
  <2>2. CASE e \in {"host"} \X Hosts
    BY <1>1, <2>2 DEF At
  <2> QED
    BY <2>1, <2>2 DEF Ends
<1>7. ASSUME NEW e \in Ends PROVE HonestAt(At(router', hosts', e), e, Q, D)
  BY <1>2, <1>6, TickHonest, Zenon DEF HonestAt
<1>8. PICK r, hs : r = router' /\ hs = hosts'
  OBVIOUS
<1>9. Net(r, table, hs, Q, D)
  BY <1>5, <1>7, <1>8, NetIs
<1> QED
  BY <1>6, <1>8, <1>9

(* The entry of the routing table for a route of the simulator.            *)
RouteEntry(j) ==
    [length |-> Routes[j][2], prefix |-> Routes[j][1],
     next_hop |-> Routes[j][3], interface_num |-> Routes[j][4]]

(* A table with the routes of S.                                           *)
TableOf(table, S) ==
    /\ table \in Seq(Entry) /\ Sorted(table)
    /\ \A i \in DOMAIN table : \E j \in S : table[i] = RouteEntry(j)
    /\ \A j \in S : \E i \in DOMAIN table : table[i] = RouteEntry(j)

(* The routes of the network simulator as entries of the router's table.   *)
LEMMA RouteEntries ==
    ASSUME NEW j \in 1..7
    PROVE  /\ RouteEntry(j) \in Entry /\ RouteEntry(j).interface_num \in 1..5
           /\ RouteEntry(j).length = Routes[j][2] /\ RouteEntry(j).prefix = Routes[j][1]
           /\ RouteEntry(j).next_hop = Routes[j][3] /\ RouteEntry(j).interface_num = Routes[j][4]
BY DEF RouteEntry, Routes, Entry

RouterShape(r) == r = [f \in {"interfaces", "rtable"} |-> r[f]]

(* add_route() adds its entry to the table and leaves the interfaces       *)
(* alone.                                                                  *)
LEMMA AddStep ==
    ASSUME NEW r, RouterShape(r),
           NEW S, TableOf(r.rtable, S), NEW j \in 1..7, NEW p, p = Step("add", r, j)
    PROVE  RouterShape(p) /\ p.interfaces = r.interfaces /\ TableOf(p.rtable, S \cup {j})
<1> DEFINE e == RouteEntry(j)
           old == r.rtable
           shorter == {i \in DOMAIN old : old[i].length < e.length}
           k == Cardinality(shorter)
           new == InsertAt(old, k + 1, e)
<1>1. e \in Entry /\ e.length \in Nat
  BY RouteEntries DEF Entry
<1>2. old \in Seq(Entry) /\ Sorted(old)
  BY DEF TableOf
<1>3. k \in 0..Len(old) /\ shorter = 1..k
  BY <1>1, <1>2, ShorterInFront
<1>4. new \in Seq(Entry) /\ Sorted(new)
  BY <1>1, <1>2, <1>3, InsertSorted, Zenon
<1>5. p = [r EXCEPT !.rtable = new]
  <2>1. p = AddRoute(r, Routes[j][1], Routes[j][2], Routes[j][3], Routes[j][4])
    BY DEF Step
  <2>2. e.length = Routes[j][2]
    BY RouteEntries
  <2> QED
    BY <2>1, <2>2, Zenon DEF AddRoute, RouteEntry
<1>6. PICK n \in Nat : n = Len(old) /\ DOMAIN old = 1..n
  BY <1>2, LenProperties
<1>7. /\ DOMAIN new = 1..(n + 1)
      /\ \A i \in 1..k : new[i] = old[i]
      /\ new[k + 1] = e
      /\ \A i \in (k + 2)..(n + 1) : new[i] = old[i - 1]
  <2>1. PICK s \in Seq(Entry) : s = old
    BY <1>2
  <2>2. PICK x \in Entry : x = e
    BY <1>1
  <2>3. PICK c \in 0..Len(s) : c = k
    BY <1>3, <2>1, Zenon
  <2> DEFINE w == InsertAt(s, c + 1, x)
  <2>5. w = new
    BY <2>1, <2>2, <2>3
  <2>6. /\ w \in Seq(Entry) /\ DOMAIN w = 1..(Len(s) + 1)
        /\ \A i \in 1..c : w[i] = s[i]
        /\ w[c + 1] = x
        /\ \A i \in (c + 2)..(Len(s) + 1) : w[i] = s[i - 1]
    BY InsertAtProperties
  <2> HIDE DEF new, k, e, old, w
  <2> QED
    BY <1>6, <2>1, <2>2, <2>3, <2>5, <2>6, Zenon
<1> HIDE DEF e, k, new, shorter
<1>8. RouterShape(p) /\ p.interfaces = r.interfaces /\ p.rtable = new
  BY <1>5 DEF RouterShape
<1>9. k \in 0..n
  BY <1>3, <1>6
<1>10. ASSUME NEW i \in DOMAIN new PROVE \E x \in S \cup {j} : new[i] = RouteEntry(x)
  <2>1. CASE i \in 1..k
    <3>1. i \in DOMAIN old /\ new[i] = old[i]
      BY <1>6, <1>7, <1>9, <2>1
    <3> QED
      BY <3>1 DEF TableOf
  <2>2. CASE i = k + 1
    BY <1>7, <2>2 DEF e
  <2>3. CASE i \in (k + 2)..(n + 1)
    <3>1. i - 1 \in DOMAIN old /\ new[i] = old[i - 1]
      BY <1>6, <1>7, <1>9, <2>3
    <3> QED
      BY <3>1 DEF TableOf
  <2>4. i \in 1..k \/ i = k + 1 \/ i \in (k + 2)..(n + 1)
    BY <1>7, <1>9
  <2> QED
    BY <2>1, <2>2, <2>3, <2>4
<1>11. ASSUME NEW x \in S \cup {j} PROVE \E i \in DOMAIN new : new[i] = RouteEntry(x)
  <2>1. CASE x = j
    <3>1. k + 1 \in DOMAIN new
      BY <1>7, <1>9
    <3> QED
      BY <1>7, <2>1, <3>1 DEF e
  <2>2. CASE x \in S
    <3>1. PICK i \in 1..n : old[i] = RouteEntry(x)
      BY <1>6, <2>2 DEF TableOf
    <3>2. CASE i \in 1..k
      <4>1. i \in DOMAIN new /\ new[i] = old[i]
        BY <1>7, <1>9, <3>2
      <4> QED
        BY <3>1, <4>1
    <3>3. CASE i \notin 1..k
      <4>1. i + 1 \in (k + 2)..(n + 1) /\ i + 1 \in 1..(n + 1) /\ (i + 1) - 1 = i
        BY <1>9, <3>3
      <4>2. i + 1 \in DOMAIN new /\ new[i + 1] = old[i]
        BY <1>7, <4>1
      <4> QED
        BY <3>1, <4>2
    <3> QED
      BY <3>2, <3>3
  <2> QED
    BY <2>1, <2>2
<1> QED
  BY <1>4, <1>8, <1>10, <1>11 DEF TableOf

(* The router that the simulator starts with.                              *)
LEMMA InitRouter ==
    ASSUME Init
    PROVE  /\ router = [f \in {"interfaces", "rtable"} |-> router[f]]
           /\ router.interfaces = [i \in 1..5 |-> NewInterface(<<"port", i>>, PortAddress[i])]
           /\ TableOf(router.rtable, 1..7)
<1>9. PICK order \in RouteOrders :
         \E st : Loop("add", NewPorts, order, st) /\ router = st[Len(order)]
  BY AddLoop
<1>1. PICK st : Loop("add", NewPorts, order, st) /\ router = st[Len(order)]
  BY <1>9
<1> DEFINE ports == [i \in 1..5 |-> NewInterface(<<"port", i>>, PortAddress[i])]
           done(i) == {order[k] : k \in 1..i}
           Good(i) == /\ RouterShape(st[i])
                      /\ st[i].interfaces = ports /\ TableOf(st[i].rtable, done(i))
           bad == {i \in 0..7 : ~Good(i)}
<1>2. DOMAIN Routes = 1..7
  BY DEF Routes
<1>3. order \in [1..7 -> 1..7] /\ Range(order) = 1..7
  BY <1>2, SimulatorAssumption
<1>4. Len(order) = 7
  <2>1. PICK n \in Nat : n = 7
    OBVIOUS
  <2>2. order \in Seq(1..7)
    BY <1>3, <2>1, SeqDef, Zenon
  <2>3. Len(order) \in Nat /\ DOMAIN order = 1..Len(order)
    BY <2>2, LenProperties
  <2>4. 1..7 = 1..Len(order)
    BY <1>3, <2>3
  <2> QED
    BY <2>3, <2>4
<1>5. st[0] = NewPorts /\ \A i \in 1..7 : st[i] = Step("add", st[i - 1], order[i])
  BY <1>1, <1>4 DEF Loop
<1> HIDE DEF ports
<1>6. bad = {}
  <2>1. SUFFICES ASSUME bad # {} PROVE FALSE
    BY Zenon
  <2>2. PICK i \in bad : \A k \in bad : i <= k
    <3>1. bad \subseteq Nat
      OBVIOUS
    <3> HIDE DEF bad
    <3> QED
      BY <2>1, <3>1, LeastOfNat, Zenon
  <2>3. i \in 0..7 /\ ~Good(i)
    OBVIOUS
  <2>4. Good(0)
    <3>1. DOMAIN PortAddress = 1..5
      BY DEF PortAddress
    <3>2. /\ NewPorts = [f \in {"interfaces", "rtable"} |-> NewPorts[f]]
          /\ NewPorts.interfaces = ports /\ NewPorts.rtable = <<>>
      BY <3>1 DEF NewPorts, NewRouter, ports
    <3>3. <<>> \in Seq(Entry) /\ DOMAIN <<>> = {}
      OBVIOUS
    <3>4. done(0) = {}
      OBVIOUS
    <3> HIDE DEF done
    <3>5. TableOf(<<>>, done(0))
      BY <3>3, <3>4 DEF TableOf, Sorted
    <3> QED
      BY <1>5, <3>2, <3>5 DEF RouterShape
  <2>5. i # 0
    <3> HIDE DEF Good
    <3> QED
      BY <2>3, <2>4
  <2>6. i \in 1..7 /\ i - 1 \in 0..7 /\ ~(i <= i - 1)
    BY <2>3, <2>5
  <2>7. Good(i - 1)
    <3>1. i - 1 \notin bad
      <4> HIDE DEF bad
      <4> QED
        BY <2>2, <2>6
    <3> HIDE DEF Good
    <3> QED
      BY <2>6, <3>1
  <2>8. order[i] \in 1..7 /\ st[i] = Step("add", st[i - 1], order[i])
    BY <1>3, <1>5, <2>6
  <2>9. done(i) = done(i - 1) \cup {order[i]}
    <3>1. 1..i = 1..(i - 1) \cup {i}
      BY <2>6
    <3> QED
      BY <3>1, Zenon
  <2> HIDE DEF done
  <2>10. Good(i)
    <3>1. PICK j \in 1..7 : j = order[i]
      BY <2>8
    <3>2. PICK r : r = st[i - 1]
      OBVIOUS
    <3>3. RouterShape(r) /\ r.interfaces = ports /\ TableOf(r.rtable, done(i - 1))
      BY <2>7, <3>2
    <3>4. PICK p : p = Step("add", r, j)
      OBVIOUS
    <3>5. RouterShape(p) /\ p.interfaces = ports /\ TableOf(p.rtable, done(i - 1) \cup {j})
      BY <3>3, <3>4, AddStep, Zenon
    <3>6. p = st[i]
      BY <2>8, <3>1, <3>2, <3>4
    <3> QED
      BY <2>9, <3>1, <3>5, <3>6
  <2> QED
    BY <2>3, <2>10
<1>7. done(7) = 1..7
  BY <1>3 DEF Range
<1> HIDE DEF done
<1>8. Good(7)
  <2> HIDE DEF Good
  <2> QED
    BY <1>6
<1> QED
  BY <1>1, <1>4, <1>7, <1>8 DEF ports, RouterShape

(* Initially the network is honest, and the table holds all the routes, in *)
(* whatever order they were added.                                         *)
LEMMA InitNet ==
    ASSUME NEW Q, NEW D, Init
    PROVE  Net(router, router.rtable, hosts, Q, D) /\ TableOf(router.rtable, 1..7)
<1>1. /\ router = [f \in {"interfaces", "rtable"} |-> router[f]]
      /\ router.interfaces = [i \in 1..5 |-> NewInterface(<<"port", i>>, PortAddress[i])]
      /\ TableOf(router.rtable, 1..7)
  BY InitRouter
<1>2. hosts = [h \in Hosts |-> NewInterface(<<"host", h>>, HostAddress[h])]
  BY Zenon DEF Init
<1>3. ASSUME NEW i \in 1..5 PROVE HonestAt(router.interfaces[i], <<"port", i>>, Q, D)
  <2>1. router.interfaces[i] = NewInterface(<<"port", i>>, PortAddress[i])
    BY <1>1
  <2>2. AddressOf(<<"port", i>>) = PortAddress[i]
    BY DEF AddressOf
  <2> QED
    BY <2>1, <2>2, NewHonest DEF HonestAt
<1>4. ASSUME NEW h \in Hosts PROVE HonestAt(hosts[h], <<"host", h>>, Q, D)
  <2>1. hosts[h] = NewInterface(<<"host", h>>, HostAddress[h])
    BY <1>2
  <2>2. AddressOf(<<"host", h>>) = HostAddress[h]
    BY DEF AddressOf
  <2> QED
    BY <2>1, <2>2, NewHonest DEF HonestAt
<1>5. /\ router.interfaces = [i \in 1..5 |-> router.interfaces[i]]
      /\ hosts = [h \in Hosts |-> hosts[h]]
  BY <1>1, <1>2
<1> QED
  BY <1>1, <1>3, <1>4, <1>5 DEF Net, Ports, HostsHonest

(* Any datagram of those that were sent, with any next hop.                *)
Sent(n) == [id : {i \in Nat : i < n}, dst : Nat, ttl : Nat]
AnyQ(n) == [e \in Ends |-> Nat \X Sent(n)]
AnyD(n) == [e \in Ends |-> Sent(n)]

(* The inductive invariant of the network: its interfaces are honest about *)
(* themselves and hold nothing but datagrams that were sent, and the       *)
(* routing table holds the routes.                                         *)
NetInv ==
    /\ sent \in Nat
    /\ Net(router, router.rtable, hosts, AnyQ(sent), AnyD(sent))
    /\ TableOf(router.rtable, 1..7)

(* More may be sent and received.                                          *)
LEMMA HonestGrows ==
    ASSUME NEW m, NEW e, NEW a, NEW N, NEW Q, NEW D, Honest(m, e, a, N, Q, D),
           NEW Q2, NEW D2, Q \subseteq Q2, D \subseteq D2
    PROVE  Honest(m, e, a, N, Q2, D2)
<1>1. \A ip : Waiting(Q, ip) \subseteq Waiting(Q2, ip)
  BY DEF Waiting, Datagrams
<1>2. FramesOf(e, a, N, Q) \subseteq FramesOf(e, a, N, Q2)
  BY DEF FramesOf, DataFrames, Datagrams
<1>3. \A ip \in DOMAIN m.dg_map : m.dg_map[ip] \in Seq(Waiting(Q2, ip))
  BY <1>1, SeqMonotonic DEF Honest
<1>4. m.frames_out \in Seq(FramesOf(e, a, N, Q2)) /\ m.datagrams_out \in Seq(D2)
  BY <1>2, SeqMonotonic DEF Honest
<1> QED
  BY <1>3, <1>4 DEF Honest

(* A network that is honest stays so when more datagrams are permitted.    *)
LEMMA NetGrows ==
    ASSUME NEW r, NEW table, NEW hs, NEW Q, NEW D, Net(r, table, hs, Q, D), NEW Q2, NEW D2,
           \A e \in Ends : Q[e] \subseteq Q2[e] /\ D[e] \subseteq D2[e]
    PROVE  Net(r, table, hs, Q2, D2)
<1>1. NetShape(r, table, hs) /\ \A e \in Ends : HonestAt(At(r, hs, e), e, Q, D)
  BY NetIs
<1>2. ASSUME NEW e \in Ends PROVE HonestAt(At(r, hs, e), e, Q2, D2)
  BY <1>1, HonestGrows DEF HonestAt
<1> QED
  BY <1>1, <1>2, NetIs

(* If every datagram is permitted everywhere, what may be sent on a link   *)
(* may arrive there.                                                       *)
LEMMA AnyCompatible == ASSUME NEW n PROVE Compatible(AnyQ(n), AnyD(n))
BY DEF Compatible, AnyQ, AnyD

(* The route that is found is one of the simulator's.                      *)
LEMMA FoundRoute ==
    ASSUME NEW table, TableOf(table, 1..7), NEW dst \in Nat, Matching(table, dst) # {}
    PROVE  /\ \E j \in 1..7 : Found(table, dst) = RouteEntry(j)
           /\ Found(table, dst).interface_num \in 1..5
           /\ HopFor(table, dst) \in Nat
<1>1. Max(Matching(table, dst)) \in Matching(table, dst)
  BY SortedIsLongestFirst DEF TableOf, LongestFirst
<1>2. PICK j \in 1..7 : Found(table, dst) = RouteEntry(j)
  BY <1>1 DEF Matching, TableOf, Found
<1>3. Found(table, dst).interface_num \in 1..5 /\ Found(table, dst).next_hop = Routes[j][3]
  BY <1>2, RouteEntries
<1>4. Routes[j][3] # NoHop => Routes[j][3] \in Nat
  BY DEF Routes
<1> QED
  BY <1>2, <1>3, <1>4 DEF HopFor

(* If every datagram is permitted everywhere, what may arrive at the       *)
(* router may be routed: every route leads to an interface, and to a       *)
(* neighbour at it.                                                        *)
LEMMA AnyRoutable ==
    ASSUME NEW table, TableOf(table, 1..7), NEW n
    PROVE  Routable(table, AnyQ(n), AnyD(n))
<1> SUFFICES ASSUME NEW i \in 1..5, NEW d \in AnyD(n)[<<"port", i>>]
             PROVE  /\ d \in [id : Nat, dst : Nat, ttl : Nat]
                    /\ Matching(table, d.dst) # {} /\ TtlLeft(d.ttl) # 0 =>
                          /\ Found(table, d.dst).interface_num \in 1..5
                          /\ HopFor(table, d.dst) \in Nat
                          /\ <<HopFor(table, d.dst), Routed(d)>>
                                \in AnyQ(n)[<<"port", Found(table, d.dst).interface_num>>]
  BY DEF Routable
<1>0. \A j \in 1..5 : <<"port", j>> \in Ends
  BY DEF Ends
<1>1. d \in Sent(n)
  BY <1>0 DEF AnyD
<1>2. d \in [id : Nat, dst : Nat, ttl : Nat] /\ d.dst \in Nat /\ d.ttl \in Nat
  BY <1>1 DEF Sent
<1>3. TtlLeft(d.ttl) \in Nat
  BY <1>2 DEF TtlLeft
<1>4. Routed(d) \in Sent(n)
  BY <1>1, <1>3 DEF Sent, Routed
<1>5. ASSUME Matching(table, d.dst) # {}
      PROVE  /\ Found(table, d.dst).interface_num \in 1..5
             /\ HopFor(table, d.dst) \in Nat
             /\ <<HopFor(table, d.dst), Routed(d)>>
                   \in AnyQ(n)[<<"port", Found(table, d.dst).interface_num>>]
  <2>1. /\ Found(table, d.dst).interface_num \in 1..5
        /\ HopFor(table, d.dst) \in Nat
    BY <1>2, <1>5, FoundRoute
  <2>2. AnyQ(n)[<<"port", Found(table, d.dst).interface_num>>] = Nat \X Sent(n)
    BY <1>0, <2>1 DEF AnyQ
  <2> QED
    BY <1>4, <2>1, <2>2
<1> QED
  BY <1>2, <1>5

(* The invariant holds initially.                                          *)
LEMMA NetInvInit == Init => NetInv
<1> SUFFICES ASSUME Init PROVE NetInv
  OBVIOUS
<1>1. sent = 0
  BY Zenon DEF Init
<1> QED
  BY <1>1, InitNet DEF NetInv

(* Every step keeps the invariant.                                         *)
LEMMA NetInvNext == NetInv /\ [Next]_vars => NetInv'
<1> SUFFICES ASSUME NetInv, [Next]_vars PROVE NetInv'
  OBVIOUS
<1> DEFINE table == router.rtable
           Q == AnyQ(sent)
           D == AnyD(sent)
<1>1. /\ sent \in Nat /\ Net(router, table, hosts, Q, D) /\ TableOf(table, 1..7)
      /\ Compatible(Q, D) /\ Routable(table, Q, D)
  BY AnyCompatible, AnyRoutable DEF NetInv
<1> HIDE DEF Q, D
<1>2. ASSUME Net(router', table, hosts', Q, D), sent' = sent
      PROVE  NetInv'
  <2>1. router'.rtable = table
    BY <1>2 DEF Net, Ports
  <2> QED
    BY <1>1, <1>2, <2>1 DEF NetInv, Q, D
<1>3. ASSUME NEW t \in Traffic, SendTo(t[1], t[2], t[3]) PROVE NetInv'
  <2>1. t[1] \in DOMAIN NextHop /\ t[2] \in Nat /\ t[3] \in Nat
    BY SimulatorAssumption
  <2>2. sent' = sent + 1
    BY <1>3 DEF SendTo
  <2> DEFINE Q2 == AnyQ(sent + 1)
             D2 == AnyD(sent + 1)
  <2>3. Sent(sent) \subseteq Sent(sent + 1)
    BY <1>1 DEF Sent
  <2>4. Net(router, table, hosts, Q2, D2)
    BY <1>1, <2>3, NetGrows DEF Q, D, AnyQ, AnyD
  <2>5. t[1] \in Hosts /\ NextHop[t[1]] \in Nat
    BY <2>1, HostsAre DEF NextHop
  <2>6. <<NextHop[t[1]], NewDatagram(t[2], t[3])>> \in Q2[<<"host", t[1]>>]
    BY <1>1, <2>1, <2>5 DEF AnyQ, Sent, Ends, NewDatagram
  <2> HIDE DEF Q2, D2
  <2>7. Net(router', table, hosts', Q2, D2)
    BY <1>3, <2>1, <2>4, <2>6, SendNet
  <2>8. router'.rtable = table
    BY <2>7 DEF Net, Ports
  <2> QED
    BY <1>1, <2>2, <2>7, <2>8 DEF NetInv, Q2, D2
<1>4. ASSUME Route PROVE NetInv'
  BY <1>1, <1>2, <1>4, RouteNet DEF Route
<1>5. ASSUME Tick PROVE NetInv'
  BY <1>1, <1>2, <1>5, TickNet DEF Tick
<1>6. ASSUME NEW port \in Linked, NEW whole \in BOOLEAN, Exchange(port, whole) PROVE NetInv'
  <2>1. port \in 1..5
    BY DEF Linked, LinkHosts
  <2>2. sent' = sent
    BY <1>6, Zenon DEF Exchange
  <2> QED
    BY <1>1, <1>2, <1>6, <2>1, <2>2, ExchangeNet
<1>7. ASSUME NEW h \in Hosts, Check(h) PROVE NetInv'
  BY <1>1, <1>2, <1>7, CheckNet, Zenon DEF Check
<1>8. ASSUME UNCHANGED vars PROVE NetInv'
  BY <1>1, <1>2, <1>8 DEF vars
<1> QED
  BY <1>3, <1>4, <1>5, <1>6, <1>7, <1>8 DEF Next

(* The network is honest always.                                           *)
LEMMA NetAlways == Spec => []NetInv
BY NetInvInit, NetInvNext, PTL DEF Spec

(* The ends are the ports and the hosts.                                   *)
LEMMA EndsAre ==
    ASSUME NEW r, NEW hs
    PROVE  /\ \A i \in 1..5 : /\ <<"port", i>> \in Ends /\ LinkNo(<<"port", i>>) = i
                              /\ At(r, hs, <<"port", i>>) = r.interfaces[i]
           /\ \A h \in Hosts : /\ <<"host", h>> \in Ends /\ LinkNo(<<"host", h>>) = LinkOf[h]
                               /\ At(r, hs, <<"host", h>>) = hs[h]
           /\ \A e \in Ends : \/ \E i \in 1..5 : e = <<"port", i>>
                              \/ \E h \in Hosts : e = <<"host", h>>
BY DEF Ends, At, LinkNo

(* Each interface of the network is at an end.                             *)
LEMMA AllAtEnds ==
    ASSUME NetInv, NEW n \in Interfaces
    PROVE  \E e \in Ends : n = At(router, hosts, e) /\ HonestAt(n, e, AnyQ(sent), AnyD(sent))
<1>1. /\ router.interfaces = [i \in 1..5 |-> router.interfaces[i]]
      /\ hosts = [h \in Hosts |-> hosts[h]]
  BY DEF NetInv, Net, Ports, HostsHonest
<1>2. DOMAIN router.interfaces = 1..5 /\ DOMAIN hosts = Hosts
  BY <1>1
<1>3. (\E i \in 1..5 : n = router.interfaces[i]) \/ (\E h \in Hosts : n = hosts[h])
  BY <1>2 DEF Interfaces, Range
<1>4. \E e \in Ends : n = At(router, hosts, e)
  <2>1. CASE \E i \in 1..5 : n = router.interfaces[i]
    <3>1. PICK i \in 1..5 : n = router.interfaces[i]
      BY <2>1
    <3>2. <<"port", i>> \in Ends /\ n = At(router, hosts, <<"port", i>>)
      BY <3>1, EndsAre
    <3> QED
      BY <3>2
  <2>2. CASE \E h \in Hosts : n = hosts[h]
    <3>1. PICK h \in Hosts : n = hosts[h]
      BY <2>2
    <3>2. <<"host", h>> \in Ends /\ n = At(router, hosts, <<"host", h>>)
      BY <3>1 DEF Ends, At
    <3> QED
      BY <3>2
  <2> QED
    BY <1>3, <2>1, <2>2
<1> QED
  BY <1>4, NetAt DEF NetInv

(* No interface of the network uses an address longer than it may.         *)
THEOREM NetworkFresh == Spec => []Fresh
<1>1. NetInv => Fresh
  BY AllAtEnds DEF Fresh, HonestAt, Honest
<1> QED
  BY <1>1, NetAlways, PTL

(* What an interface has learned is true.                                  *)
THEOREM NeighboursKnown == Spec => []KnowsNeighbours
<1>1. NetInv => KnowsNeighbours
  <2> SUFFICES ASSUME NetInv, NEW port \in Linked
               PROVE  LET ends == {router.interfaces[port]} \cup
                                  {hosts[h] : h \in Range(LinkHosts[port])}
                      IN  \A n \in ends : \A ip \in DOMAIN n.ip_to_eth_table :
                             \E o \in ends : /\ o.ip_address = ip
                                             /\ o.ethernet_address = n.ip_to_eth_table[ip]
    BY DEF KnowsNeighbours
  <2> DEFINE ends == {router.interfaces[port]} \cup {hosts[h] : h \in Range(LinkHosts[port])}
  <2>1. port \in 1..5
    BY DEF Linked, LinkHosts
  <2>2. \A n : n \in ends <=> \E e \in Ends : LinkNo(e) = port /\ n = At(router, hosts, e)
    <3>1. \A h : h \in Range(LinkHosts[port]) <=> h \in Hosts /\ LinkOf[h] = port
      BY <2>1, HostsAre DEF LinkOf, LinkHosts, Range
    <3> QED
      <4>1. ASSUME NEW n, n \in ends
            PROVE  \E e \in Ends : LinkNo(e) = port /\ n = At(router, hosts, e)
        <5>1. n = router.interfaces[port] \/ \E h \in Hosts : LinkOf[h] = port /\ n = hosts[h]
          BY <3>1, <4>1
        <5> QED
          <6>1. CASE n = router.interfaces[port]
            <7>1. /\ <<"port", port>> \in Ends /\ LinkNo(<<"port", port>>) = port
                  /\ n = At(router, hosts, <<"port", port>>)
              BY <2>1, <6>1, EndsAre
            <7> QED
              BY <7>1
          <6>2. CASE \E h \in Hosts : LinkOf[h] = port /\ n = hosts[h]
            <7>1. PICK h \in Hosts : LinkOf[h] = port /\ n = hosts[h]
              BY <6>2
            <7>2. /\ <<"host", h>> \in Ends /\ LinkNo(<<"host", h>>) = port
                  /\ n = At(router, hosts, <<"host", h>>)
              BY <7>1 DEF Ends, At, LinkNo
            <7> QED
              BY <7>2
          <6> QED
            BY <5>1, <6>1, <6>2
      <4>2. ASSUME NEW e \in Ends, LinkNo(e) = port PROVE At(router, hosts, e) \in ends
        <5>1. CASE \E i \in 1..5 : e = <<"port", i>>
          BY <4>2, <5>1, EndsAre
        <5>2. CASE \E h \in Hosts : e = <<"host", h>>
          <6>1. PICK h \in Hosts : e = <<"host", h>>
            BY <5>2
          <6>2. LinkOf[h] = port /\ At(router, hosts, e) = hosts[h]
            BY <4>2, <6>1 DEF At, LinkNo
          <6> QED
            BY <3>1, <6>2
        <5> QED
          BY <5>1, <5>2, EndsAre
      <4> QED
        BY <4>1, <4>2
  <2> HIDE DEF ends
  <2>3. ASSUME NEW n \in ends, NEW ip \in DOMAIN n.ip_to_eth_table
        PROVE  \E o \in ends : o.ip_address = ip /\ o.ethernet_address = n.ip_to_eth_table[ip]
    <3>1. PICK e \in Ends : LinkNo(e) = port /\ n = At(router, hosts, e)
      BY <2>2
    <3>2. <<ip, n.ip_to_eth_table[ip]>> \in Neighbours(port)
      <4>1. HonestAt(n, e, AnyQ(sent), AnyD(sent))
        BY <3>1, NetAt DEF NetInv
      <4> QED
        BY <3>1, <4>1 DEF HonestAt, Honest
    <3>3. PICK g : g = n.ip_to_eth_table[ip]
      OBVIOUS
    <3>4. g \in Ends /\ LinkNo(g) = port /\ ip = AddressOf(g)
      BY <3>2, <3>3, NeighbourPairs
    <3>5. At(router, hosts, g) \in ends
      BY <2>2, <3>4
    <3>6. /\ At(router, hosts, g).ip_address = AddressOf(g)
          /\ At(router, hosts, g).ethernet_address = g
      <4>1. HonestAt(At(router, hosts, g), g, AnyQ(sent), AnyD(sent))
        BY <3>4, NetAt DEF NetInv
      <4> QED
        BY <4>1 DEF HonestAt, Honest
    <3> QED
      BY <3>3, <3>4, <3>5, <3>6
  <2> QED
    BY <2>3 DEF ends
<1> QED
  BY <1>1, NetAlways, PTL

-----------------------------------------------------------------------------
(* Where an interface holds the datagrams with the number id: in its       *)
(* queues for addresses, in its frames and among what it has received.     *)
Waits(map, id) == UNION {{<<ip, j>> : j \in In(map[ip], id)} : ip \in DOMAIN map}

AtMostOne(S) == \A x, y \in S : x = y

Free(m, id) ==
    In(m.datagrams_out, id) = {} /\ OnWire(m.frames_out, id) = {} /\ Waits(m.dg_map, id) = {}

OnceOf(W, F, O) ==
    /\ AtMostOne(W) /\ AtMostOne(F) /\ AtMostOne(O)
    /\ W = {} \/ F = {}
    /\ W = {} \/ O = {}
    /\ F = {} \/ O = {}

Once(m, id) == OnceOf(Waits(m.dg_map, id), OnWire(m.frames_out, id), In(m.datagrams_out, id))

(* An interface without a copy of a datagram has at most one.              *)
LEMMA FreeIsOnce == ASSUME NEW m, NEW id, Free(m, id) PROVE Once(m, id)
BY DEF Free, Once, OnceOf, AtMostOne

(* The positions of a datagram in the queues of an interface.              *)
LEMMA WaitsAre ==
    ASSUME NEW map, NEW id
    PROVE  /\ \A ip, j : <<ip, j>> \in Waits(map, id) <=> ip \in DOMAIN map /\ j \in In(map[ip], id)
           /\ \A w \in Waits(map, id) : \E ip, j : w = <<ip, j>>
BY DEF Waits

(* What appending does.                                                    *)
LEMMA AppendIn ==
    ASSUME NEW T, NEW s \in Seq(T), NEW d, NEW id
    PROVE  /\ d.id # id => In(Append(s, d), id) = In(s, id)
           /\ In(s, id) = {} => AtMostOne(In(Append(s, d), id))
<1> DEFINE U == T \cup {d}
           t == Append(s, d)
<1>1. PICK n \in Nat : n = Len(s) /\ DOMAIN s = 1..n
  BY LenProperties
<1>2. s \in Seq(U) /\ d \in U
  BY SeqMonotonic
<1> HIDE DEF U
<1>3. /\ Len(t) = n + 1 /\ t \in Seq(U) /\ t[n + 1] = d
      /\ \A i \in 1..n : t[i] = s[i]
  BY <1>1, <1>2, AppendProperties
<1>4. DOMAIN t = 1..(n + 1)
  BY <1>3, LenProperties
<1> HIDE DEF t
<1>5. \A j \in 1..(n + 1) : j \in 1..n \/ j = n + 1
  OBVIOUS
<1>6. \A j \in 1..n : j \in 1..(n + 1)
  OBVIOUS
<1>7. d.id # id => In(t, id) = In(s, id)
  BY <1>1, <1>3, <1>4, <1>5, <1>6 DEF In
<1>8. In(s, id) = {} => \A j \in In(t, id) : j = n + 1
  BY <1>1, <1>3, <1>4, <1>5 DEF In
<1> QED
  BY <1>7, <1>8 DEF AtMostOne, t

(* A frame of ARP carries no datagram.                                     *)
LEMMA AppendOther ==
    ASSUME NEW T, NEW s \in Seq(T), NEW f, f.type # "IPv4", NEW id
    PROVE  OnWire(Append(s, f), id) = OnWire(s, id)
<1> DEFINE U == T \cup {f}
           t == Append(s, f)
<1>1. PICK n \in Nat : n = Len(s) /\ DOMAIN s = 1..n
  BY LenProperties
<1>2. s \in Seq(U) /\ f \in U
  BY SeqMonotonic
<1> HIDE DEF U
<1>3. /\ Len(t) = n + 1 /\ t \in Seq(U) /\ t[n + 1] = f
      /\ \A i \in 1..n : t[i] = s[i]
  BY <1>1, <1>2, AppendProperties
<1>4. DOMAIN t = 1..(n + 1)
  BY <1>3, LenProperties
<1> HIDE DEF t
<1>5. \A j \in 1..(n + 1) : j \in 1..n \/ j = n + 1
  OBVIOUS
<1>6. \A j \in 1..n : j \in 1..(n + 1)
  OBVIOUS
<1>7. OnWire(t, id) = OnWire(s, id)
  BY <1>1, <1>3, <1>4, <1>5, <1>6 DEF OnWire
<1> QED
  BY <1>7 DEF t

(* Framing a queue puts its copies of a datagram behind the frames there   *)
(* are, at the same distances.                                             *)
LEMMA SealedOnWire ==
    ASSUME NEW T, NEW s \in Seq(T), NEW U, NEW queue \in Seq(U), NEW m, NEW eth, NEW id
    PROVE  OnWire(s \o Sealed(m, eth, queue), id) =
              OnWire(s, id) \cup {Len(s) + j : j \in In(queue, id)}
<1> DEFINE q == Sealed(m, eth, queue)
           t == s \o q
<1>1. PICK n \in Nat : n = Len(s) /\ DOMAIN s = 1..n
  BY LenProperties
<1>2. PICK l \in Nat : l = Len(queue) /\ DOMAIN queue = 1..l
  BY LenProperties
<1>3. /\ \A i \in 1..l : q[i].type = "IPv4" /\ q[i].payload = queue[i]
      /\ q = [i \in 1..l |-> q[i]]
  BY <1>2 DEF Sealed, Frame
<1> HIDE DEF q
<1> DEFINE V == T \cup {q[i] : i \in 1..l}
<1>4. s \in Seq(V)
  BY SeqMonotonic
<1>5. q \in Seq(V) /\ Len(q) = l
  <2>1. q \in [1..l -> V]
    BY <1>3
  <2> HIDE DEF V
  <2>2. q \in Seq(V)
    BY <2>1, SeqDef
  <2>3. Len(q) \in Nat /\ 1..l = 1..Len(q)
    BY <2>1, <2>2, LenProperties
  <2> QED
    BY <2>2, <2>3
<1> HIDE DEF V
<1>6. /\ t \in Seq(V) /\ Len(t) = n + l
      /\ \A i \in 1..(n + l) : t[i] = IF i <= n THEN s[i] ELSE q[i - n]
  BY <1>1, <1>4, <1>5, ConcatProperties, Zenon
<1>7. DOMAIN t = 1..(n + l)
  BY <1>6, LenProperties
<1> HIDE DEF t
<1>8. ASSUME NEW i \in 1..n PROVE i \in 1..(n + l) /\ t[i] = s[i]
  BY <1>6
<1>9. ASSUME NEW j \in 1..l PROVE n + j \in 1..(n + l) /\ t[n + j] = q[j]
  <2>1. n + j \in 1..(n + l) /\ ~(n + j <= n) /\ n + j - n = j
    OBVIOUS
  <2> QED
    BY <1>6, <2>1
<1>10. ASSUME NEW i \in 1..(n + l) PROVE i \in 1..n \/ \E j \in 1..l : i = n + j
  <2>1. CASE i <= n
    BY <2>1
  <2>2. CASE ~(i <= n)
    <3>1. i - n \in 1..l /\ i = n + (i - n)
      BY <2>2
    <3> QED
      BY <3>1
  <2> QED
    BY <2>1, <2>2
<1>11. ASSUME NEW i \in OnWire(t, id) PROVE i \in OnWire(s, id) \cup {n + j : j \in In(queue, id)}
  <2>1. i \in 1..(n + l) /\ t[i].type = "IPv4" /\ t[i].payload.id = id
    BY <1>7 DEF OnWire
  <2>2. CASE i \in 1..n
    BY <1>1, <1>8, <2>1, <2>2 DEF OnWire
  <2>3. CASE \E j \in 1..l : i = n + j
    <3>1. PICK j \in 1..l : i = n + j
      BY <2>3
    <3>2. j \in In(queue, id)
      BY <1>2, <1>3, <1>9, <2>1, <3>1 DEF In
    <3> QED
      BY <3>1, <3>2
  <2> QED
    BY <1>10, <2>1, <2>2, <2>3
<1>12. ASSUME NEW i \in OnWire(s, id) PROVE i \in OnWire(t, id)
  BY <1>1, <1>7, <1>8 DEF OnWire
<1>13. ASSUME NEW j \in In(queue, id) PROVE n + j \in OnWire(t, id)
  <2>1. j \in 1..l /\ queue[j].id = id
    BY <1>2 DEF In
  <2> QED
    BY <1>3, <1>7, <1>9, <2>1 DEF OnWire
<1> QED
  BY <1>1, <1>11, <1>12, <1>13 DEF t, q

=============================================================================
