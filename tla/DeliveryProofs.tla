--------------------------- MODULE DeliveryProofs ---------------------------
(***************************************************************************)
(* Where the datagrams of the network of NetworkSimulator are, for any     *)
(* traffic, any order of the routes and any bounds: each is in one place,  *)
(* and only where the routes of the simulator take it.                     *)
(***************************************************************************)
EXTENDS NetworkProofs

(* What a change of the queue for ip does.                                 *)
LEMMA RequeuedWaits ==
    ASSUME NEW old, NEW new, NEW ip, NEW queue, Requeued(new, old, ip, queue), NEW id
    PROVE  \A w : w \in Waits(new, id) <=> \/ w \in Waits(old, id) /\ w[1] # ip
                                           \/ \E j \in In(queue, id) : w = <<ip, j>>
<1> SUFFICES ASSUME NEW w
             PROVE  w \in Waits(new, id) <=> \/ w \in Waits(old, id) /\ w[1] # ip
                                             \/ \E j \in In(queue, id) : w = <<ip, j>>
  OBVIOUS
<1>1. ASSUME w \in Waits(new, id)
      PROVE  \/ w \in Waits(old, id) /\ w[1] # ip
             \/ \E j \in In(queue, id) : w = <<ip, j>>
  <2>1. PICK k, j : w = <<k, j>> /\ k \in DOMAIN new /\ j \in In(new[k], id)
    BY <1>1, WaitsAre
  <2>2. CASE k = ip
    BY <2>1, <2>2 DEF Requeued
  <2>3. CASE k # ip
    <3>1. k \in DOMAIN old /\ new[k] = old[k]
      BY <2>1, <2>3 DEF Requeued
    <3> QED
      BY <2>1, <2>3, <3>1, WaitsAre
  <2> QED
    BY <2>2, <2>3
<1>2. ASSUME w \in Waits(old, id), w[1] # ip PROVE w \in Waits(new, id)
  <2>1. PICK k, j : w = <<k, j>> /\ k \in DOMAIN old /\ j \in In(old[k], id)
    BY <1>2, WaitsAre
  <2>2. k \in DOMAIN new /\ new[k] = old[k]
    BY <1>2, <2>1 DEF Requeued
  <2> QED
    BY <2>1, <2>2, WaitsAre
<1>3. ASSUME NEW j \in In(queue, id), w = <<ip, j>> PROVE w \in Waits(new, id)
  <2>1. ip \in DOMAIN new /\ new[ip] = queue
    BY DEF Requeued
  <2> QED
    BY <1>3, <2>1, WaitsAre
<1> QED
  BY <1>1, <1>2, <1>3

(* The positions of a datagram in one queue, among those in all queues.    *)
LEMMA QueueWaits ==
    ASSUME NEW m, NEW ip, NEW id
    PROVE  /\ \A j \in In(Queue(m, ip), id) : <<ip, j>> \in Waits(m.dg_map, id)
           /\ \A w \in Waits(m.dg_map, id) :
                 w[1] = ip => \E j \in In(Queue(m, ip), id) : w = <<ip, j>>
<1>1. ASSUME NEW j \in In(Queue(m, ip), id) PROVE <<ip, j>> \in Waits(m.dg_map, id)
  <2>1. ip \in DOMAIN m.dg_map
    <3>1. SUFFICES ASSUME ip \notin DOMAIN m.dg_map PROVE FALSE
      OBVIOUS
    <3>2. Queue(m, ip) = <<>> /\ DOMAIN <<>> = {}
      BY <3>1 DEF Queue
    <3> QED
      BY <3>2 DEF In
  <2>2. Queue(m, ip) = m.dg_map[ip]
    BY <2>1 DEF Queue
  <2> QED
    BY <2>1, <2>2, WaitsAre
<1>2. ASSUME NEW w \in Waits(m.dg_map, id), w[1] = ip
      PROVE  \E j \in In(Queue(m, ip), id) : w = <<ip, j>>
  <2>1. PICK k, j : w = <<k, j>> /\ k \in DOMAIN m.dg_map /\ j \in In(m.dg_map[k], id)
    BY WaitsAre
  <2> QED
    BY <1>2, <2>1 DEF Queue
<1> QED
  BY <1>1, <1>2

(* An interface between calls has sequences where the code has queues.     *)
Sequential(m) ==
    /\ \E T : m.frames_out \in Seq(T)
    /\ \E T : m.datagrams_out \in Seq(T)
    /\ \A ip : \E T : Queue(m, ip) \in Seq(T)

(* An honest interface has the shape of one, fresh tables, and sequences   *)
(* for its queues.                                                         *)
LEMMA HonestSequential ==
    ASSUME NEW m, NEW e, NEW a, NEW N, NEW Q, NEW D, Honest(m, e, a, N, Q, D)
    PROVE  InterfaceType(m) /\ TablesFresh(m) /\ Sequential(m)
<1>1. \A ip : Queue(m, ip) \in Seq(Waiting(Q, ip))
  BY QueueOfHonest DEF Honest
<1> QED
  BY <1>1 DEF Honest, Sequential

(* A queue that is flushed leaves for the wire.                            *)
LEMMA FlushedOnce ==
    ASSUME NEW m, NEW p, NEW ip, NEW eth, NEW queue, NEW id, Sequential(m),
           p.datagrams_out = m.datagrams_out,
           \E T : queue \in Seq(T),
           p.frames_out = m.frames_out \o Sealed(m, eth, queue),
           Requeued(p.dg_map, m.dg_map, ip, <<>>)
    PROVE  /\ In(queue, id) = In(Queue(m, ip), id) => /\ Once(m, id) => Once(p, id)
                                                      /\ Free(m, id) => Free(p, id)
           /\ Free(m, id) /\ AtMostOne(In(queue, id)) => Once(p, id)
<1> DEFINE W == Waits(m.dg_map, id)
           F == OnWire(m.frames_out, id)
           O == In(m.datagrams_out, id)
           B == In(queue, id)
<1>1. PICK n \in Nat : n = Len(m.frames_out)
  BY LenProperties DEF Sequential
<1>2. OnWire(p.frames_out, id) = F \cup {n + j : j \in B}
  BY <1>1, SealedOnWire DEF Sequential
<1>3. \A w : w \in Waits(p.dg_map, id) <=> w \in W /\ w[1] # ip
  <2>1. In(<<>>, id) = {}
    BY DEF In
  <2> QED
    BY <2>1, RequeuedWaits
<1>4. B \subseteq Nat
  <2>1. PICK T : queue \in Seq(T)
    OBVIOUS
  <2>2. DOMAIN queue = 1..Len(queue) /\ Len(queue) \in Nat
    BY <2>1, LenProperties
  <2> QED
    BY <2>2 DEF In
<1>5. /\ \A j \in In(Queue(m, ip), id) : <<ip, j>> \in W
      /\ \A w \in W : w[1] = ip => \E j \in In(Queue(m, ip), id) : w = <<ip, j>>
  BY QueueWaits, Zenon
<1>6. In(p.datagrams_out, id) = O
  OBVIOUS
<1> DEFINE W2 == Waits(p.dg_map, id)
           F2 == OnWire(p.frames_out, id)
<1>7. (Once(m, id) <=> OnceOf(W, F, O)) /\ (Free(m, id) <=> O = {} /\ F = {} /\ W = {})
  BY DEF Once, Free
<1>8. (Once(p, id) <=> OnceOf(W2, F2, O)) /\ (Free(p, id) <=> O = {} /\ F2 = {} /\ W2 = {})
  BY <1>6 DEF Once, Free
<1> HIDE DEF W, F, O, B, W2, F2
<1>9. ASSUME B = In(Queue(m, ip), id), Free(m, id) PROVE Free(p, id)
  <2>1. B = {} /\ W = {} /\ F = {} /\ O = {}
    BY <1>5, <1>7, <1>9, Zenon
  <2> QED
    BY <1>2, <1>3, <1>8, <2>1 DEF W2, F2
<1>10. ASSUME B = In(Queue(m, ip), id), Once(m, id) PROVE Once(p, id)
  <2>1. OnceOf(W, F, O)
    BY <1>7, <1>10
  <2>2. CASE B = {}
    <3>1. F2 = F
      BY <1>2, <2>2 DEF F2
    <3>2. W2 \subseteq W
      BY <1>3 DEF W2
    <3> QED
      BY <1>8, <2>1, <3>1, <3>2 DEF OnceOf, AtMostOne
  <2>3. CASE B # {}
    <3>1. PICK j \in B : TRUE
      BY <2>3
    <3>2. <<ip, j>> \in W
      BY <1>5, <1>10
    <3>3. F = {} /\ O = {} /\ \A w \in W : w = <<ip, j>>
      BY <2>1, <3>2 DEF OnceOf, AtMostOne
    <3>4. W2 = {}
      BY <1>3, <3>3 DEF W2
    <3>5. ASSUME NEW i \in B PROVE i = j
      <4>1. <<ip, i>> \in W
        BY <1>5, <1>10
      <4>2. <<ip, i>> = <<ip, j>>
        BY <3>3, <4>1
      <4> QED
        BY <4>2
    <3>6. AtMostOne(F2)
      BY <1>2, <3>3, <3>5 DEF F2, AtMostOne
    <3> QED
      BY <1>8, <3>3, <3>4, <3>6 DEF OnceOf, AtMostOne
  <2> QED
    BY <2>2, <2>3
<1>11. ASSUME Free(m, id), AtMostOne(B) PROVE Once(p, id)
  <2>1. W = {} /\ F = {} /\ O = {}
    BY <1>7, <1>11
  <2>2. W2 = {}
    BY <1>3, <2>1 DEF W2
  <2>3. AtMostOne(F2)
    BY <1>2, <1>11, <2>1 DEF F2, AtMostOne
  <2> QED
    BY <1>8, <2>1, <2>2, <2>3 DEF OnceOf, AtMostOne
<1> QED
  BY <1>9, <1>10, <1>11 DEF B

(* A queue that grows.                                                     *)
LEMMA QueuedOnce ==
    ASSUME NEW m, NEW p, NEW ip, NEW queue, NEW id,
           p.datagrams_out = m.datagrams_out,
           OnWire(p.frames_out, id) = OnWire(m.frames_out, id),
           Requeued(p.dg_map, m.dg_map, ip, queue)
    PROVE  /\ In(queue, id) = In(Queue(m, ip), id) => /\ Once(m, id) => Once(p, id)
                                                      /\ Free(m, id) => Free(p, id)
           /\ Free(m, id) /\ AtMostOne(In(queue, id)) => Once(p, id)
<1> DEFINE W == Waits(m.dg_map, id)
           W2 == Waits(p.dg_map, id)
           B == In(queue, id)
<1>1. \A w : w \in W2 <=> (w \in W /\ w[1] # ip) \/ \E j \in B : w = <<ip, j>>
  <2>1. PICK new, old : new = p.dg_map /\ old = m.dg_map
    BY Zenon
  <2>2. Requeued(new, old, ip, queue)
    BY <2>1
  <2>3. \A w : w \in Waits(new, id) <=> \/ w \in Waits(old, id) /\ w[1] # ip
                                       \/ \E j \in In(queue, id) : w = <<ip, j>>
    BY <2>2, RequeuedWaits
  <2> QED
    BY <2>1, <2>3, Zenon
<1>2. /\ \A j \in In(Queue(m, ip), id) : <<ip, j>> \in W
      /\ \A w \in W : w[1] = ip => \E j \in In(Queue(m, ip), id) : w = <<ip, j>>
  BY QueueWaits
<1> HIDE DEF W, W2, B
<1>3. B = In(Queue(m, ip), id) => W2 = W
  BY <1>1, <1>2
<1>4. ASSUME W = {}, AtMostOne(B) PROVE AtMostOne(W2)
  BY <1>1, <1>4 DEF AtMostOne
<1> QED
  BY <1>3, <1>4, Zenon DEF W, W2, B, Once, Free, OnceOf, AtMostOne

(* send_datagram() brings dgram and leaves the other datagrams alone.      *)
LEMMA SendOnce ==
    ASSUME NEW m, InterfaceType(m), Sequential(m), NEW dgram, NEW hop, NEW id
    PROVE  LET p == SendDatagram(m, dgram, hop)
           IN  /\ dgram.id # id => (Once(m, id) => Once(p, id)) /\ (Free(m, id) => Free(p, id))
               /\ Free(m, id) => Once(p, id)
<1> DEFINE p == SendDatagram(m, dgram, hop)
           old == Queue(m, hop)
           queue == Append(old, dgram)
<1>1. PICK T : old \in Seq(T)
  BY DEF Sequential
<1>2. /\ dgram.id # id => In(queue, id) = In(old, id)
      /\ In(old, id) = {} => AtMostOne(In(queue, id))
  BY <1>1, AppendIn
<1>3. \E U : queue \in Seq(U)
  <2>1. old \in Seq(T \cup {dgram}) /\ dgram \in T \cup {dgram}
    BY <1>1, SeqMonotonic
  <2>2. queue \in Seq(T \cup {dgram})
    BY <2>1, AppendProperties
  <2> QED
    BY <2>2
<1>4. Free(m, id) => In(old, id) = {}
  BY QueueWaits, Zenon DEF Free
<1>5. /\ p.datagrams_out = m.datagrams_out
      /\ \/ /\ hop \in DOMAIN m.ip_to_eth_table
            /\ p.frames_out = m.frames_out \o Sealed(m, m.ip_to_eth_table[hop], queue)
            /\ Requeued(p.dg_map, m.dg_map, hop, <<>>)
         \/ /\ \/ p.frames_out = m.frames_out
               \/ p.frames_out = Append(m.frames_out, ArpFrame(m, Broadcast, "REQUEST", hop))
            /\ Requeued(p.dg_map, m.dg_map, hop, queue)
  BY SendEffect, Zenon
<1> HIDE DEF p, queue
<1>6. CASE /\ p.frames_out = m.frames_out \o Sealed(m, m.ip_to_eth_table[hop], queue)
           /\ Requeued(p.dg_map, m.dg_map, hop, <<>>)
  <2>1. /\ In(queue, id) = In(old, id) => /\ Once(m, id) => Once(p, id)
                                          /\ Free(m, id) => Free(p, id)
        /\ Free(m, id) /\ AtMostOne(In(queue, id)) => Once(p, id)
    BY <1>3, <1>5, <1>6, FlushedOnce, Zenon
  <2> QED
    BY <1>2, <1>4, <2>1 DEF p
<1>7. CASE /\ \/ p.frames_out = m.frames_out
              \/ p.frames_out = Append(m.frames_out, ArpFrame(m, Broadcast, "REQUEST", hop))
           /\ Requeued(p.dg_map, m.dg_map, hop, queue)
  <2>1. OnWire(p.frames_out, id) = OnWire(m.frames_out, id)
    <3>1. ArpFrame(m, Broadcast, "REQUEST", hop).type # "IPv4"
      BY DEF ArpFrame, Frame
    <3>2. PICK f : f = ArpFrame(m, Broadcast, "REQUEST", hop)
      OBVIOUS
    <3>3. OnWire(Append(m.frames_out, f), id) = OnWire(m.frames_out, id)
      BY <3>1, <3>2, AppendOther DEF Sequential
    <3> QED
      BY <1>7, <3>2, <3>3, Zenon
  <2>2. /\ In(queue, id) = In(old, id) => /\ Once(m, id) => Once(p, id)
                                          /\ Free(m, id) => Free(p, id)
        /\ Free(m, id) /\ AtMostOne(In(queue, id)) => Once(p, id)
    BY <1>5, <1>7, <2>1, QueuedOnce
  <2> QED
    BY <1>2, <1>4, <2>2 DEF p
<1> QED
  BY <1>5, <1>6, <1>7, Zenon

(* A frame that brings the datagram id to an interface.                    *)
Brings(frame, eth, id) ==
    /\ frame.type = "IPv4" /\ frame.payload # Garbled
    /\ frame.dst \in {Broadcast, eth} /\ frame.payload.id = id

(* recv_frame() brings at most what is in the frame.                       *)
LEMMA RecvOnce ==
    ASSUME NEW m, InterfaceType(m), TablesFresh(m), Sequential(m), NEW frame, NEW id
    PROVE  LET p == RecvFrame(m, frame)
           IN  /\ ~Brings(frame, m.ethernet_address, id) =>
                     (Once(m, id) => Once(p, id)) /\ (Free(m, id) => Free(p, id))
               /\ Free(m, id) => Once(p, id)
<1> DEFINE p == RecvFrame(m, frame)
           mine == frame.dst \in {Broadcast, m.ethernet_address} /\ frame.payload # Garbled
           ip == frame.payload.sender_ip_address
           eth == frame.payload.sender_ethernet_address
           reply == ArpFrame(m, frame.src, "REPLY", ip)
           brings == Brings(frame, m.ethernet_address, id)
<1>1. \/ p = m
      \/ /\ mine /\ frame.type = "IPv4" /\ p.dg_map = m.dg_map
         /\ p.frames_out = m.frames_out
         /\ p.datagrams_out = Append(m.datagrams_out, frame.payload)
      \/ /\ p.datagrams_out = m.datagrams_out
         /\ \/ p.dg_map = m.dg_map /\ p.frames_out = m.frames_out
            \/ p.dg_map = m.dg_map /\ p.frames_out = Append(m.frames_out, reply)
            \/ /\ Requeued(p.dg_map, m.dg_map, ip, <<>>)
               /\ p.frames_out = m.frames_out \o Sealed(m, eth, Queue(m, ip))
  BY RecvEffect, Zenon
<1>2. reply.type # "IPv4"
  BY DEF ArpFrame, Frame
<1>3. Free(m, id) => Once(m, id)
  BY FreeIsOnce
<1> HIDE DEF p, reply
<1>4. CASE p = m
  BY <1>3, <1>4 DEF p
<1>5. CASE /\ mine /\ frame.type = "IPv4" /\ p.dg_map = m.dg_map
           /\ p.frames_out = m.frames_out
           /\ p.datagrams_out = Append(m.datagrams_out, frame.payload)
  <2>1. /\ frame.payload.id # id => In(p.datagrams_out, id) = In(m.datagrams_out, id)
        /\ In(m.datagrams_out, id) = {} => AtMostOne(In(p.datagrams_out, id))
    BY <1>5, AppendIn DEF Sequential
  <2>2. ~brings => frame.payload.id # id
    BY <1>5 DEF Brings
  <2>3. ~brings => (Once(m, id) => Once(p, id)) /\ (Free(m, id) => Free(p, id))
    BY <1>5, <2>1, <2>2, Zenon DEF Once, Free
  <2>4. Free(m, id) => Once(p, id)
    BY <1>5, <2>1 DEF Once, Free, OnceOf, AtMostOne
  <2> QED
    BY <2>3, <2>4 DEF p
<1>6. CASE /\ p.datagrams_out = m.datagrams_out
           /\ p.dg_map = m.dg_map /\ p.frames_out = m.frames_out
  BY <1>3, <1>6, Zenon DEF p, Once, Free
<1>7. CASE /\ p.datagrams_out = m.datagrams_out
           /\ p.dg_map = m.dg_map /\ p.frames_out = Append(m.frames_out, reply)
  <2>1. OnWire(p.frames_out, id) = OnWire(m.frames_out, id)
    BY <1>2, <1>7, AppendOther DEF Sequential
  <2>2. (Once(m, id) => Once(p, id)) /\ (Free(m, id) => Free(p, id))
    BY <1>7, <2>1 DEF Once, Free
  <2> QED
    BY <1>3, <2>2 DEF p
<1>8. CASE /\ p.datagrams_out = m.datagrams_out
           /\ Requeued(p.dg_map, m.dg_map, ip, <<>>)
           /\ p.frames_out = m.frames_out \o Sealed(m, eth, Queue(m, ip))
  <2>1. \E T : Queue(m, ip) \in Seq(T)
    BY DEF Sequential
  <2> HIDE DEF ip, eth
  <2>2. (Once(m, id) => Once(p, id)) /\ (Free(m, id) => Free(p, id))
    BY <1>8, <2>1, FlushedOnce, Zenon
  <2> QED
    BY <1>3, <2>2 DEF p
<1> QED
  BY <1>1, <1>4, <1>5, <1>6, <1>7, <1>8, Zenon

(* What takes nothing but what is queued, and what passes time.            *)
LEMMA TakenOnce ==
    ASSUME NEW m, InterfaceType(m), TablesFresh(m), NEW id, NEW ms,
           NEW p \in {[m EXCEPT !.frames_out = <<>>], [m EXCEPT !.datagrams_out = <<>>],
                      InterfaceTick(m, ms)}
    PROVE  (Once(m, id) => Once(p, id)) /\ (Free(m, id) => Free(p, id))
<1>1. In(<<>>, id) = {} /\ OnWire(<<>>, id) = {}
  BY DEF In, OnWire
<1>2. /\ p.dg_map = m.dg_map
      /\ p.frames_out \in {m.frames_out, <<>>} /\ p.datagrams_out \in {m.datagrams_out, <<>>}
  <2>1. CASE p = [m EXCEPT !.frames_out = <<>>]
    BY <2>1, TakenEffect
  <2>2. CASE p = [m EXCEPT !.datagrams_out = <<>>]
    BY <2>2, TakenEffect
  <2>3. CASE p = InterfaceTick(m, ms)
    BY <2>3, TickEffect
  <2> QED
    BY <2>1, <2>2, <2>3
<1> QED
  BY <1>1, <1>2, Zenon DEF Once, Free, OnceOf, AtMostOne

(* Of the interfaces of f at most one holds the datagram id, once.         *)
OnceAmong(f, S, id) ==
    /\ \A x \in S : Once(f[x], id)
    /\ \A x, y \in S : x # y => Free(f[x], id) \/ Free(f[y], id)

FreeAmong(f, S, id) == \A x \in S : Free(f[x], id)

(* A loop of which one step at most, those in H, brings a datagram.        *)
LEMMA OnceLoop ==
    ASSUME NEW len \in Nat, NEW F, NEW O, NEW H,
           \A i \in 0..len : i \in F => i \in O,
           \A i \in 1..len : /\ i \notin H => (i - 1 \in F => i \in F) /\ (i - 1 \in O => i \in O)
                             /\ i - 1 \in F => i \in O
    PROVE  /\ 0 \in F /\ AtMostOne(H) => len \in O
           /\ 0 \in O /\ H = {} => len \in O
           /\ 0 \in F /\ H = {} => len \in F
<1> DEFINE Good(i) == /\ 0 \in F /\ AtMostOne(H) => i \in O
                      /\ 0 \in F /\ (\A h \in H : h \notin 1..i) => i \in F
                      /\ 0 \in O /\ H = {} => i \in O
           bad == {i \in 0..len : ~Good(i)}
<1>1. ASSUME bad # {} PROVE FALSE
  <2>1. PICK i \in bad : \A k \in bad : i <= k
    <3>1. bad \subseteq Nat
      OBVIOUS
    <3> HIDE DEF bad
    <3> QED
      BY <1>1, <3>1, LeastOfNat, Zenon
  <2>2. i \in 0..len /\ ~Good(i)
    OBVIOUS
  <2>3. i # 0
    BY <2>2
  <2>4. i \in 1..len /\ i - 1 \in 0..len /\ ~(i <= i - 1)
    BY <2>2, <2>3
  <2>5. Good(i - 1)
    <3>1. i - 1 \notin bad
      <4> HIDE DEF bad
      <4> QED
        BY <2>1, <2>4
    <3> HIDE DEF Good
    <3> QED
      BY <2>4, <3>1
  <2>6. PICK j \in 0..len : j = i - 1
    BY <2>4
  <2>7. /\ i \notin H => (j \in F => i \in F) /\ (j \in O => i \in O)
        /\ j \in F => i \in O
    BY <2>4, <2>6
  <2>8. \A h : h \in 1..i <=> h \in 1..j \/ h = i
    BY <2>4, <2>6
  <2>9. i \notin 1..j
    BY <2>4, <2>6
  <2>10. Good(j)
    BY <2>5, <2>6
  <2>11. 0 \in F /\ AtMostOne(H) => i \in O
    <3>1. SUFFICES ASSUME 0 \in F, AtMostOne(H) PROVE i \in O
      OBVIOUS
    <3>2. CASE i \in H
      <4>1. \A h \in H : h \notin 1..j
        BY <2>9, <3>1, <3>2 DEF AtMostOne
      <4> QED
        BY <2>7, <2>10, <3>1, <4>1
    <3>3. CASE i \notin H
      BY <2>7, <2>10, <3>1, <3>3
    <3> QED
      BY <3>2, <3>3
  <2>12. 0 \in F /\ (\A h \in H : h \notin 1..i) => i \in F
    BY <2>4, <2>7, <2>8, <2>10
  <2>13. 0 \in O /\ H = {} => i \in O
    BY <2>7, <2>10
  <2> QED
    BY <2>2, <2>11, <2>12, <2>13
<1>2. Good(len)
  BY <1>1
<1> QED
  BY <1>2

(* One datagram is routed.                                                 *)
LEMMA RouteStepOnce ==
    ASSUME NEW r, NEW table, NEW Q, NEW D, Ports(r, table, Q, D), Routable(table, Q, D),
           NEW k \in 1..5, NEW d \in D[<<"port", k>>], NEW id
    PROVE  LET p == RouteOneDatagram(r, d)
           IN  /\ d.id # id =>
                    /\ OnceAmong(r.interfaces, 1..5, id) => OnceAmong(p.interfaces, 1..5, id)
                    /\ FreeAmong(r.interfaces, 1..5, id) => FreeAmong(p.interfaces, 1..5, id)
               /\ FreeAmong(r.interfaces, 1..5, id) => OnceAmong(p.interfaces, 1..5, id)
<1> DEFINE p == RouteOneDatagram(r, d)
           n == Found(table, d.dst).interface_num
           hop == HopFor(table, d.dst)
<1>0. FreeAmong(r.interfaces, 1..5, id) => OnceAmong(r.interfaces, 1..5, id)
  BY FreeIsOnce DEF FreeAmong, OnceAmong
<1>1. /\ d \in [id : Nat, dst : Nat, ttl : Nat]
      /\ Matching(table, d.dst) # {} /\ TtlLeft(d.ttl) # 0 =>
            n \in 1..5 /\ hop \in Nat /\ <<hop, Routed(d)>> \in Q[<<"port", n>>]
  BY DEF Routable
<1>2. /\ r = [f \in {"interfaces", "rtable"} |-> r[f]] /\ r.rtable = table
      /\ r.interfaces = [i \in 1..5 |-> r.interfaces[i]]
      /\ \A i \in 1..5 : HonestAt(r.interfaces[i], <<"port", i>>, Q, D)
  BY DEF Ports
<1>3. CASE Matching(table, d.dst) = {} \/ TtlLeft(d.ttl) = 0
  <2>1. d.ttl \in Nat /\ [d EXCEPT !.ttl = TtlLeft(@)].ttl = TtlLeft(d.ttl)
    BY <1>1
  <2>2. p = r
    BY <1>2, <1>3, <2>1, Zenon DEF RouteOneDatagram, Matching
  <2> QED
    BY <1>0, <2>2
<1>4. CASE Matching(table, d.dst) # {} /\ TtlLeft(d.ttl) # 0
  <2>1. n \in 1..5 /\ Routed(d).id = d.id
    BY <1>1, <1>4 DEF Routed
  <2>2. /\ p.interfaces[n] = SendDatagram(r.interfaces[n], Routed(d), hop)
        /\ \A i \in 1..5 \ {n} : p.interfaces[i] = r.interfaces[i]
    BY <1>1, <1>2, <1>4, <2>1, RouteEffect, Zenon
  <2> HIDE DEF p, n, hop
  <2>3. InterfaceType(r.interfaces[n]) /\ Sequential(r.interfaces[n])
    BY <1>2, <2>1, HonestSequential DEF HonestAt
  <2>4. /\ d.id # id => /\ Once(r.interfaces[n], id) => Once(p.interfaces[n], id)
                        /\ Free(r.interfaces[n], id) => Free(p.interfaces[n], id)
        /\ Free(r.interfaces[n], id) => Once(p.interfaces[n], id)
    BY <2>1, <2>2, <2>3, SendOnce
  <2>5. \A i \in 1..5 \ {n} : /\ Once(p.interfaces[i], id) <=> Once(r.interfaces[i], id)
                              /\ Free(p.interfaces[i], id) <=> Free(r.interfaces[i], id)
    BY <2>2
  <2>6. d.id # id =>
           /\ OnceAmong(r.interfaces, 1..5, id) => OnceAmong(p.interfaces, 1..5, id)
           /\ FreeAmong(r.interfaces, 1..5, id) => FreeAmong(p.interfaces, 1..5, id)
    BY <2>4, <2>5 DEF OnceAmong, FreeAmong
  <2>7. FreeAmong(r.interfaces, 1..5, id) => OnceAmong(p.interfaces, 1..5, id)
    BY <1>0, <2>4, <2>5 DEF OnceAmong, FreeAmong
  <2> QED
    BY <2>6, <2>7 DEF p
<1> QED
  BY <1>3, <1>4

(* All datagrams are routed.                                               *)
LEMMA RouteAllOnce ==
    ASSUME NEW r, NEW table, NEW Q, NEW D, Ports(r, table, Q, D), Routable(table, Q, D), NEW id
    PROVE  LET p == RouteAll(r)
           IN  /\ OnceAmong(r.interfaces, 1..5, id) => OnceAmong(p.interfaces, 1..5, id)
               /\ FreeAmong(r.interfaces, 1..5, id) => FreeAmong(p.interfaces, 1..5, id)
<1> DEFINE base == Emptied(r)
           q == Queues(r)
           s == FlattenSeq(q)
           H == {p \in 1..Len(s) : s[p].id = id}
<1>1. PICK T : /\ s \in Seq(T)
               /\ \E at : Located(q, 5, s, at)
               /\ \A p \in 1..Len(s) : \E i \in 1..5 : s[p] \in D[<<"port", i>>]
  BY QueuesAre
<1>2. PICK at : Located(q, 5, s, at)
  BY <1>1
<1>3. PICK len \in Nat : len = Len(s) /\ DOMAIN s = 1..len
  BY <1>1, LenProperties
<1>4. \A i \in 1..5 : q[i] = r.interfaces[i].datagrams_out
  BY DEF Queues, Ports
<1>5. ASSUME NEW p \in H
      PROVE  at[p][1] \in 1..5 /\ at[p][2] \in In(r.interfaces[at[p][1]].datagrams_out, id)
  <2>1. p \in DOMAIN s /\ s[p].id = id
    BY <1>3
  <2>2. PICK i, k : i = at[p][1] /\ k = at[p][2]
    BY Zenon
  <2>3. i \in 1..5 /\ k \in DOMAIN q[i] /\ s[p] = q[i][k]
    BY <1>2, <2>1, <2>2 DEF Located
  <2>4. k \in In(r.interfaces[i].datagrams_out, id)
    BY <1>4, <2>1, <2>3 DEF In
  <2> QED
    BY <2>2, <2>3, <2>4
<1>6. \A p, t \in H : at[p][1] = at[t][1] /\ at[p][2] = at[t][2] => p = t
  BY <1>2, <1>3 DEF Located
<1>7. Ports(base, table, Q, D)
      /\ \A i \in 1..5 : base.interfaces[i] = [r.interfaces[i] EXCEPT !.datagrams_out = <<>>]
  BY EmptiedHonest
<1>8. RouteAll(r) = FoldLeft(RouteOneDatagram, base, s)
  BY RouteAllIs DEF Ports
<1>9. \A i \in 1..5 : InterfaceType(r.interfaces[i]) /\ TablesFresh(r.interfaces[i])
  BY HonestSequential DEF Ports, HonestAt
<1> HIDE DEF base, s, q
<1>10. PICK st : Loop("route", base, s, st) /\ FoldLeft(RouteOneDatagram, base, s) = st[Len(s)]
  BY <1>1, RouteLoop
<1>11. \A i \in 0..len : Ports(st[i], table, Q, D)
  BY <1>1, <1>3, <1>7, <1>10, RouteLoopHonest, Zenon
<1> DEFINE F == {i \in 0..len : FreeAmong(st[i].interfaces, 1..5, id)}
           O == {i \in 0..len : OnceAmong(st[i].interfaces, 1..5, id)}
<1>12. \A i \in 0..len : i \in F => i \in O
  BY FreeIsOnce DEF FreeAmong, OnceAmong
<1>13. ASSUME NEW i \in 1..len
       PROVE  /\ i \notin H => (i - 1 \in F => i \in F) /\ (i - 1 \in O => i \in O)
              /\ i - 1 \in F => i \in O
  <2>1. i - 1 \in 0..len /\ i \in 0..len /\ i \in 1..Len(s)
    BY <1>3
  <2>2. st[i] = RouteOneDatagram(st[i - 1], s[i])
    BY <1>10, <2>1 DEF Loop, Step
  <2>3. PICK k \in 1..5 : s[i] \in D[<<"port", k>>]
    BY <1>1, <2>1
  <2>4. PICK x, d : x = st[i - 1] /\ d = s[i]
    OBVIOUS
  <2>5. Ports(x, table, Q, D) /\ d \in D[<<"port", k>>] /\ st[i] = RouteOneDatagram(x, d)
    BY <1>11, <2>1, <2>2, <2>3, <2>4
  <2>6. /\ d.id # id =>
            /\ OnceAmong(x.interfaces, 1..5, id) => OnceAmong(st[i].interfaces, 1..5, id)
            /\ FreeAmong(x.interfaces, 1..5, id) => FreeAmong(st[i].interfaces, 1..5, id)
        /\ FreeAmong(x.interfaces, 1..5, id) => OnceAmong(st[i].interfaces, 1..5, id)
    BY <2>5, RouteStepOnce
  <2>7. i \notin H => d.id # id
    BY <2>1, <2>4
  <2> QED
    BY <2>1, <2>4, <2>6, <2>7
<1> HIDE DEF H
<1>14. /\ 0 \in F /\ AtMostOne(H) => len \in O
       /\ 0 \in O /\ H = {} => len \in O
       /\ 0 \in F /\ H = {} => len \in F
  <2> HIDE DEF F, O
  <2> QED
    BY <1>12, <1>13, OnceLoop
<1>15. /\ 0 \in F <=> FreeAmong(base.interfaces, 1..5, id)
       /\ 0 \in O <=> OnceAmong(base.interfaces, 1..5, id)
       /\ len \in F <=> FreeAmong(RouteAll(r).interfaces, 1..5, id)
       /\ len \in O <=> OnceAmong(RouteAll(r).interfaces, 1..5, id)
  <2>1. st[0] = base /\ st[len] = RouteAll(r) /\ 0 \in 0..len /\ len \in 0..len
    BY <1>3, <1>8, <1>10 DEF Loop
  <2> QED
    BY <2>1
<1> HIDE DEF F, O
<1>16. \A i \in 1..5 : /\ Once(r.interfaces[i], id) => Once(base.interfaces[i], id)
                       /\ Free(r.interfaces[i], id) => Free(base.interfaces[i], id)
  <2> SUFFICES ASSUME NEW i \in 1..5
               PROVE  /\ Once(r.interfaces[i], id) => Once(base.interfaces[i], id)
                      /\ Free(r.interfaces[i], id) => Free(base.interfaces[i], id)
    OBVIOUS
  <2>1. PICK m : m = r.interfaces[i]
    OBVIOUS
  <2>2. InterfaceType(m) /\ TablesFresh(m)
    BY <1>9, <2>1
  <2>3. base.interfaces[i] = [m EXCEPT !.datagrams_out = <<>>]
    BY <1>7, <2>1
  <2> DEFINE p == [m EXCEPT !.datagrams_out = <<>>]
  <2>4. (Once(m, id) => Once(p, id)) /\ (Free(m, id) => Free(p, id))
    BY <2>2, TakenOnce, Zenon
  <2> HIDE DEF p
  <2> QED
    BY <2>1, <2>3, <2>4 DEF p
<1>17. /\ OnceAmong(r.interfaces, 1..5, id) => OnceAmong(base.interfaces, 1..5, id)
       /\ FreeAmong(r.interfaces, 1..5, id) => FreeAmong(base.interfaces, 1..5, id)
  BY <1>16 DEF OnceAmong, FreeAmong
<1>18. ASSUME FreeAmong(r.interfaces, 1..5, id) PROVE H = {}
  BY <1>5, <1>18 DEF FreeAmong, Free
<1>19. ASSUME OnceAmong(r.interfaces, 1..5, id) PROVE AtMostOne(H)
  <2> SUFFICES ASSUME NEW p \in H, NEW t \in H PROVE p = t
    BY DEF AtMostOne
  <2>1. /\ at[p][1] \in 1..5 /\ at[p][2] \in In(r.interfaces[at[p][1]].datagrams_out, id)
        /\ at[t][1] \in 1..5 /\ at[t][2] \in In(r.interfaces[at[t][1]].datagrams_out, id)
    BY <1>5
  <2>2. at[p][1] = at[t][1]
    BY <1>19, <2>1, Zenon DEF OnceAmong, Free
  <2>3. at[p][2] = at[t][2]
    <3>1. AtMostOne(In(r.interfaces[at[p][1]].datagrams_out, id))
      BY <1>19, <2>1, Zenon DEF OnceAmong, Once, OnceOf
    <3> QED
      BY <2>1, <2>2, <3>1 DEF AtMostOne
  <2> QED
    BY <1>6, <2>2, <2>3
<1>20. ASSUME OnceAmong(r.interfaces, 1..5, id), H # {}
       PROVE  FreeAmong(base.interfaces, 1..5, id)
  <2>1. PICK p \in H : TRUE
    BY <1>20
  <2>2. PICK i \in 1..5 : In(r.interfaces[i].datagrams_out, id) # {}
    BY <1>5, <2>1
  <2>3. ASSUME NEW j \in 1..5 PROVE Free(base.interfaces[j], id)
    <3>1. CASE j # i
      <4>1. Free(r.interfaces[j], id)
        BY <1>20, <2>2, <3>1, Zenon DEF OnceAmong, Free
      <4> QED
        BY <1>16, <4>1
    <3>2. CASE j = i
      <4>1. Once(r.interfaces[i], id)
        BY <1>20 DEF OnceAmong
      <4>2. Waits(r.interfaces[i].dg_map, id) = {} /\ OnWire(r.interfaces[i].frames_out, id) = {}
        BY <2>2, <4>1 DEF Once, OnceOf
      <4>3. /\ base.interfaces[i].dg_map = r.interfaces[i].dg_map
            /\ base.interfaces[i].frames_out = r.interfaces[i].frames_out
            /\ base.interfaces[i].datagrams_out = <<>>
        <5>1. PICK m : m = r.interfaces[i]
          OBVIOUS
        <5>2. InterfaceType(m) /\ TablesFresh(m)
          BY <1>9, <5>1
        <5>3. LET p2 == [m EXCEPT !.datagrams_out = <<>>]
              IN  /\ p2.dg_map = m.dg_map /\ p2.frames_out = m.frames_out
                  /\ p2.datagrams_out = <<>>
          BY <5>2, TakenEffect
        <5> QED
          BY <1>7, <5>1, <5>3, Zenon
      <4>4. In(<<>>, id) = {}
        BY DEF In
      <4> QED
        BY <3>2, <4>2, <4>3, <4>4 DEF Free
    <3> QED
      BY <3>1, <3>2
  <2> QED
    BY <2>3 DEF FreeAmong
<1> QED
  BY <1>14, <1>15, <1>17, <1>18, <1>19, <1>20

(* A frame with the datagram id is on its way to the i-th end of a link.   *)
Reaches(ends, whole, port, i, id) ==
    /\ whole
    /\ \E j \in 1..EndCount[port] : \E k \in OnWire(ends[j].frames_out, id) :
          ends[j].frames_out[k].dst = EndName(port, i)

(* An end of a link takes the frames that arrive.                          *)
LEMMA ExchangedOne ==
    ASSUME NEW Q, NEW D, Compatible(Q, D), NEW port \in 1..5, NEW whole \in BOOLEAN,
           NEW ends, DOMAIN ends = 1..EndCount[port],
           \A j \in 1..EndCount[port] : HonestAt(ends[j], EndName(port, j), Q, D),
           NEW i \in 1..EndCount[port], NEW id
    PROVE  LET base == [ends[i] EXCEPT !.frames_out = <<>>]
               after == Exchanged(ends, whole)[i]
           IN  /\ ~Reaches(ends, whole, port, i, id) =>
                     (Once(base, id) => Once(after, id)) /\ (Free(base, id) => Free(after, id))
               /\ OnceAmong(ends, 1..EndCount[port], id) /\ Free(base, id) => Once(after, id)
<1> DEFINE g == EndName(port, i)
           base == [ends[i] EXCEPT !.frames_out = <<>>]
           s == Moved(ends, whole, i)
           H == {p \in 1..Len(s) : Brings(s[p], g, id)}
<1>1. PICK n \in Nat : n = EndCount[port]
  BY LinkList, Zenon
<1>2. \A j \in 1..n : EndName(port, j) \in Ends /\ LinkNo(EndName(port, j)) = port
  BY <1>1, LinkList, Zenon
<1>3. \A j \in 1..n :
         ends[j].frames_out \in Seq(FramesOf(EndName(port, j), AddressOf(EndName(port, j)),
                                             Neighbours(port), Q[EndName(port, j)]))
  BY <1>1, <1>2 DEF HonestAt, Honest
<1>4. /\ \E T : s \in Seq(T)
      /\ \E at : FromOthers(ends, whole, i, s, at)
  BY <1>1, <1>3, MovedFrames, Zenon
<1>5. PICK T, at : s \in Seq(T) /\ FromOthers(ends, whole, i, s, at)
  BY <1>4
<1>6. PICK len \in Nat : len = Len(s) /\ DOMAIN s = 1..len
  BY <1>5, LenProperties
<1> HIDE DEF s
<1>7. ASSUME NEW p \in 1..len
      PROVE  \E j \in 1..n : \E k \in DOMAIN ends[j].frames_out :
                /\ j = at[p][1] /\ k = at[p][2] /\ j # i
                /\ s[p] = Carried(ends[j].frames_out[k], whole)
                /\ ends[j].frames_out[k] \in FramesOf(EndName(port, j), AddressOf(EndName(port, j)),
                                                      Neighbours(port), Q[EndName(port, j)])
  <2>1. p \in DOMAIN s
    BY <1>6
  <2>2. PICK j, k : j = at[p][1] /\ k = at[p][2]
    BY Zenon
  <2>3. /\ j \in 1..n /\ j # i /\ k \in DOMAIN ends[j].frames_out
        /\ s[p] = Carried(ends[j].frames_out[k], whole)
    BY <1>1, <1>5, <2>1, <2>2 DEF FromOthers
  <2>4. ends[j].frames_out \in Seq(FramesOf(EndName(port, j), AddressOf(EndName(port, j)),
                                            Neighbours(port), Q[EndName(port, j)]))
    BY <1>3, <2>3
  <2>5. k \in 1..Len(ends[j].frames_out)
    BY <2>3, <2>4, LenProperties
  <2>6. ends[j].frames_out[k] \in FramesOf(EndName(port, j), AddressOf(EndName(port, j)),
                                           Neighbours(port), Q[EndName(port, j)])
    BY <2>4, <2>5, ElementOfSeq
  <2> QED
    BY <2>2, <2>3, <2>6, Zenon
<1>8. ASSUME NEW p \in 1..len PROVE Arrives(s[p], g, Neighbours(LinkNo(g)), D[g])
  <2>0. PICK j \in 1..n : \E k \in DOMAIN ends[j].frames_out :
            /\ j = at[p][1] /\ k = at[p][2] /\ j # i
            /\ s[p] = Carried(ends[j].frames_out[k], whole)
            /\ ends[j].frames_out[k] \in FramesOf(EndName(port, j), AddressOf(EndName(port, j)),
                                                  Neighbours(port), Q[EndName(port, j)])
    BY <1>7
  <2>1. PICK k \in DOMAIN ends[j].frames_out :
            /\ j = at[p][1] /\ j # i
            /\ s[p] = Carried(ends[j].frames_out[k], whole)
            /\ ends[j].frames_out[k] \in FramesOf(EndName(port, j), AddressOf(EndName(port, j)),
                                                  Neighbours(port), Q[EndName(port, j)])
    BY <2>0, Zenon
  <2>2. EndName(port, j) # g
    BY <1>1, <2>1, LinkList, Zenon
  <2>3. PICK e \in Ends : e = EndName(port, j) /\ LinkNo(e) = port
    BY <1>2, <2>1
  <2>4. g \in Ends /\ LinkNo(g) = port
    BY <1>1, <1>2
  <2> HIDE DEF g
  <2> QED
    BY <2>1, <2>2, <2>3, <2>4, ArrivesFromNeighbour
<1>9. ASSUME NEW p \in 1..len, Brings(s[p], g, id)
      PROVE  /\ whole /\ at[p][1] \in 1..n
             /\ at[p][2] \in OnWire(ends[at[p][1]].frames_out, id)
             /\ ends[at[p][1]].frames_out[at[p][2]].dst = g
  <2>0. PICK j \in 1..n : \E k \in DOMAIN ends[j].frames_out :
            /\ j = at[p][1] /\ k = at[p][2] /\ j # i
            /\ s[p] = Carried(ends[j].frames_out[k], whole)
            /\ ends[j].frames_out[k] \in FramesOf(EndName(port, j), AddressOf(EndName(port, j)),
                                                  Neighbours(port), Q[EndName(port, j)])
    BY <1>7
  <2>1. PICK k \in DOMAIN ends[j].frames_out :
            /\ j = at[p][1] /\ k = at[p][2]
            /\ s[p] = Carried(ends[j].frames_out[k], whole)
            /\ ends[j].frames_out[k] \in FramesOf(EndName(port, j), AddressOf(EndName(port, j)),
                                                  Neighbours(port), Q[EndName(port, j)])
    BY <2>0, Zenon
  <2>2. PICK f, e : f = ends[j].frames_out[k] /\ e = EndName(port, j)
    OBVIOUS
  <2>3. f \in FramesOf(e, AddressOf(e), Neighbours(port), Q[e]) /\ s[p] = Carried(f, whole)
    BY <2>1, <2>2
  <2>4. f = [x \in {"src", "dst", "type", "payload"} |-> f[x]]
    BY <2>3 DEF FramesOf, ArpFrames, DataFrames
  <2>5. whole
    <3>1. SUFFICES ASSUME ~whole PROVE s[p].payload = Garbled
      BY <1>9 DEF Brings
    <3> QED
      BY <2>3, <2>4, <3>1 DEF Carried
  <2>6. s[p] = f
    BY <2>3, <2>5 DEF Carried
  <2>7. f.type = "IPv4" /\ f.payload.id = id /\ f.dst \in {Broadcast, g}
    BY <1>9, <2>6 DEF Brings
  <2>8. f \in DataFrames(e, Neighbours(port), Q[e])
    <3>1. f \notin ArpFrames(e, AddressOf(e), Neighbours(port))
      BY <2>7 DEF ArpFrames
    <3> QED
      BY <2>3, <3>1 DEF FramesOf
  <2>9. PICK ip \in Nat : <<ip, f.dst>> \in Neighbours(port)
    BY <2>8, Zenon DEF DataFrames
  <2>10. f.dst # Broadcast
    BY <2>9, NeighbourPairs, NoBroadcast
  <2>11. k \in OnWire(ends[j].frames_out, id)
    BY <2>1, <2>2, <2>7, Zenon DEF OnWire
  <2> QED
    BY <2>1, <2>2, <2>5, <2>7, <2>10, <2>11, Zenon
<1>10. H # {} => Reaches(ends, whole, port, i, id)
  BY <1>1, <1>6, <1>9 DEF Reaches
<1>11. OnceAmong(ends, 1..n, id) => AtMostOne(H)
  <2> SUFFICES ASSUME OnceAmong(ends, 1..n, id), NEW p \in H, NEW t \in H PROVE p = t
    BY DEF AtMostOne
  <2>1. /\ at[p][1] \in 1..n /\ at[p][2] \in OnWire(ends[at[p][1]].frames_out, id)
        /\ at[t][1] \in 1..n /\ at[t][2] \in OnWire(ends[at[t][1]].frames_out, id)
    BY <1>6, <1>9
  <2>2. at[p][1] = at[t][1]
    BY <2>1, Zenon DEF OnceAmong, Free
  <2>3. at[p][2] = at[t][2]
    <3>1. PICK j \in 1..n : j = at[p][1]
      BY <2>1
    <3>2. AtMostOne(OnWire(ends[j].frames_out, id))
      BY DEF OnceAmong, Once, OnceOf
    <3> QED
      BY <2>1, <2>2, <3>1, <3>2 DEF AtMostOne
  <2> QED
    BY <1>5, <1>6, <2>2, <2>3 DEF FromOthers
<1>12. HonestAt(base, g, Q, D)
  BY TakenHonest, Zenon DEF HonestAt
<1> HIDE DEF base, g
<1>13. PICK st : Loop("recv", base, s, st) /\ FoldLeft(RecvFrame, base, s) = st[Len(s)]
  BY <1>5, RecvLoop
<1>14. \A k \in 0..len : Honest(st[k], g, AddressOf(g), Neighbours(LinkNo(g)), Q[g], D[g])
  BY <1>5, <1>6, <1>8, <1>12, <1>13, RecvLoopHonest, Zenon DEF HonestAt
<1> DEFINE F == {k \in 0..len : Free(st[k], id)}
           O == {k \in 0..len : Once(st[k], id)}
<1>15. \A k \in 0..len : k \in F => k \in O
  BY FreeIsOnce
<1>16. ASSUME NEW k \in 1..len
       PROVE  /\ k \notin H => (k - 1 \in F => k \in F) /\ (k - 1 \in O => k \in O)
              /\ k - 1 \in F => k \in O
  <2>1. k - 1 \in 0..len /\ k \in 0..len /\ k \in 1..Len(s)
    BY <1>6
  <2>2. PICK x, f : x = st[k - 1] /\ f = s[k]
    OBVIOUS
  <2>3. st[k] = RecvFrame(x, f)
    BY <1>13, <2>1, <2>2 DEF Loop, Step
  <2>4. /\ InterfaceType(x) /\ TablesFresh(x) /\ Sequential(x) /\ x.ethernet_address = g
    BY <1>14, <2>1, <2>2, HonestSequential, Zenon DEF Honest
  <2>5. /\ ~Brings(f, g, id) => (Once(x, id) => Once(st[k], id)) /\ (Free(x, id) => Free(st[k], id))
        /\ Free(x, id) => Once(st[k], id)
    BY <2>3, <2>4, RecvOnce
  <2>6. k \notin H => ~Brings(f, g, id)
    BY <2>1, <2>2
  <2> QED
    BY <2>1, <2>2, <2>5, <2>6
<1> HIDE DEF H
<1>17. /\ 0 \in F /\ AtMostOne(H) => len \in O
       /\ 0 \in O /\ H = {} => len \in O
       /\ 0 \in F /\ H = {} => len \in F
  <2> HIDE DEF F, O
  <2> QED
    BY <1>15, <1>16, OnceLoop, Zenon
<1>18. Exchanged(ends, whole)[i] = FoldLeft(RecvFrame, base, s)
  BY DEF Exchanged, base, s
<1>19. /\ 0 \in F <=> Free(base, id)
       /\ 0 \in O <=> Once(base, id)
       /\ len \in F <=> Free(Exchanged(ends, whole)[i], id)
       /\ len \in O <=> Once(Exchanged(ends, whole)[i], id)
  <2>1. st[0] = base /\ st[len] = Exchanged(ends, whole)[i] /\ 0 \in 0..len /\ len \in 0..len
    BY <1>6, <1>13, <1>18 DEF Loop
  <2> QED
    BY <2>1
<1> HIDE DEF F, O
<1> QED
  BY <1>1, <1>10, <1>11, <1>17, <1>19 DEF base

(* The ends of a link exchange their frames: what is on the wire reaches   *)
(* one end at most, and is with its sender no longer.                      *)
LEMMA ExchangedOnce ==
    ASSUME NEW Q, NEW D, Compatible(Q, D), NEW port \in 1..5, NEW whole \in BOOLEAN,
           NEW ends, DOMAIN ends = 1..EndCount[port],
           \A j \in 1..EndCount[port] : HonestAt(ends[j], EndName(port, j), Q, D), NEW id
    PROVE  LET after == Exchanged(ends, whole)
               S == 1..EndCount[port]
           IN  /\ OnceAmong(ends, S, id) => OnceAmong(after, S, id)
               /\ FreeAmong(ends, S, id) => FreeAmong(after, S, id)
<1> DEFINE after == Exchanged(ends, whole)
           S == 1..EndCount[port]
           base(i) == [ends[i] EXCEPT !.frames_out = <<>>]
           R(i) == Reaches(ends, whole, port, i, id)
<1>1. \A i \in S : InterfaceType(ends[i]) /\ TablesFresh(ends[i])
  BY HonestSequential DEF HonestAt
<1>2. ASSUME NEW i \in S
      PROVE  /\ ~R(i) => (Once(base(i), id) => Once(after[i], id))
                         /\ (Free(base(i), id) => Free(after[i], id))
             /\ OnceAmong(ends, S, id) /\ Free(base(i), id) => Once(after[i], id)
  BY ExchangedOne, Zenon
<1>3. ASSUME NEW i \in S
      PROVE  /\ Once(ends[i], id) => Once(base(i), id)
             /\ Free(ends[i], id) => Free(base(i), id)
             /\ base(i).dg_map = ends[i].dg_map /\ base(i).datagrams_out = ends[i].datagrams_out
             /\ base(i).frames_out = <<>>
  <2>1. PICK m : m = ends[i]
    OBVIOUS
  <2>2. InterfaceType(m) /\ TablesFresh(m)
    BY <1>1, <2>1
  <2>3. /\ Once(m, id) => Once([m EXCEPT !.frames_out = <<>>], id)
        /\ Free(m, id) => Free([m EXCEPT !.frames_out = <<>>], id)
    BY <2>2, TakenOnce, Zenon
  <2>4. LET p == [m EXCEPT !.frames_out = <<>>]
        IN  p.dg_map = m.dg_map /\ p.datagrams_out = m.datagrams_out /\ p.frames_out = <<>>
    BY <2>2, TakenEffect
  <2> QED
    BY <2>1, <2>3, <2>4
<1> HIDE DEF after, base
<1>4. ASSUME NEW i \in S, R(i)
      PROVE  \E j \in S : \E k \in OnWire(ends[j].frames_out, id) :
                ends[j].frames_out[k].dst = EndName(port, i)
  BY <1>4 DEF Reaches
<1>5. \A i, j \in S : EndName(port, i) = EndName(port, j) => i = j
  BY LinkList, Zenon
<1> HIDE DEF R
<1>6. ASSUME FreeAmong(ends, S, id) PROVE FreeAmong(after, S, id)
  <2>1. ASSUME NEW i \in S PROVE ~R(i)
    BY <1>4, <1>6 DEF FreeAmong, Free
  <2> QED
    BY <1>2, <1>3, <1>6, <2>1 DEF FreeAmong
<1>7. ASSUME OnceAmong(ends, S, id) PROVE OnceAmong(after, S, id)
  <2>1. CASE \A i \in S : ~R(i)
    <3>1. \A i \in S : /\ Once(ends[i], id) => Once(after[i], id)
                       /\ Free(ends[i], id) => Free(after[i], id)
      BY <1>2, <1>3, <2>1
    <3> QED
      BY <1>7, <3>1 DEF OnceAmong
  <2>2. CASE \E i \in S : R(i)
    <3>1. PICK i \in S : R(i)
      BY <2>2
    <3>0. PICK j \in S : \E k \in OnWire(ends[j].frames_out, id) :
                ends[j].frames_out[k].dst = EndName(port, i)
      BY <1>4, <3>1
    <3>2. PICK k \in OnWire(ends[j].frames_out, id) :
                ends[j].frames_out[k].dst = EndName(port, i)
      BY <3>0
    <3>3. ASSUME NEW x \in S PROVE Free(base(x), id)
      <4>1. CASE x # j
        <5>1. Free(ends[x], id)
          BY <1>7, <3>2, <4>1, Zenon DEF OnceAmong, Free
        <5> QED
          BY <1>3, <5>1
      <4>2. CASE x = j
        <5>1. Once(ends[j], id)
          BY <1>7 DEF OnceAmong
        <5>2. Waits(ends[j].dg_map, id) = {} /\ In(ends[j].datagrams_out, id) = {}
          BY <3>2, <5>1 DEF Once, OnceOf
        <5>3. OnWire(<<>>, id) = {}
          BY DEF OnWire
        <5> QED
          BY <1>3, <4>2, <5>2, <5>3, Zenon DEF Free
      <4> QED
        BY <4>1, <4>2
    <3>4. ASSUME NEW x \in S, x # i PROVE ~R(x)
      <4>1. SUFFICES ASSUME R(x) PROVE FALSE
        OBVIOUS
      <4>0. PICK y \in S : \E l \in OnWire(ends[y].frames_out, id) :
                ends[y].frames_out[l].dst = EndName(port, x)
        BY <1>4, <4>1
      <4>2. PICK l \in OnWire(ends[y].frames_out, id) :
                ends[y].frames_out[l].dst = EndName(port, x)
        BY <4>0
      <4>3. y = j
        BY <1>7, <3>2, <4>2, Zenon DEF OnceAmong, Free
      <4>4. l = k
        BY <1>7, <3>2, <4>2, <4>3, Zenon DEF OnceAmong, Once, OnceOf, AtMostOne
      <4> QED
        BY <1>5, <3>2, <3>4, <4>2, <4>3, <4>4
    <3>5. \A x \in S : Once(after[x], id)
      BY <1>2, <1>7, <3>3
    <3>6. \A x \in S : x # i => Free(after[x], id)
      BY <1>2, <3>3, <3>4
    <3> QED
      BY <3>5, <3>6 DEF OnceAmong
  <2> QED
    BY <2>1, <2>2
<1> QED
  BY <1>6, <1>7 DEF after

(* A step that moves a datagram within a part S of the places T, at most,  *)
(* keeps it in one.                                                        *)
LEMMA PartOnce ==
    ASSUME NEW f, NEW g, NEW T, NEW S \in SUBSET T, NEW id, OnceAmong(f, T, id),
           \A x \in T \ S : /\ Once(f[x], id) => Once(g[x], id)
                            /\ Free(f[x], id) => Free(g[x], id),
           OnceAmong(f, S, id) => OnceAmong(g, S, id),
           FreeAmong(f, S, id) => FreeAmong(g, S, id)
    PROVE  OnceAmong(g, T, id)
<1>1. OnceAmong(g, S, id)
  BY Zenon DEF OnceAmong
<1>2. ASSUME NEW x \in T PROVE Once(g[x], id)
  BY <1>1, Zenon DEF OnceAmong
<1>3. ASSUME NEW x \in S, NEW y \in T \ S PROVE Free(g[x], id) \/ Free(g[y], id)
  <2>1. CASE Free(f[y], id)
    BY <2>1
  <2>2. CASE ~Free(f[y], id)
    <3>1. FreeAmong(f, S, id)
      BY <2>2, Zenon DEF OnceAmong, FreeAmong
    <3> QED
      BY <3>1, Zenon DEF FreeAmong
  <2> QED
    BY <2>1, <2>2
<1>4. ASSUME NEW x \in T, NEW y \in T, x # y PROVE Free(g[x], id) \/ Free(g[y], id)
  <2>1. CASE x \in S /\ y \in S
    BY <1>1, <1>4, <2>1, Zenon DEF OnceAmong
  <2>2. CASE x \in S /\ y \notin S
    BY <1>3, <2>2
  <2>3. CASE x \notin S /\ y \in S
    BY <1>3, <2>3
  <2>4. CASE x \notin S /\ y \notin S
    BY <1>4, <2>4, Zenon DEF OnceAmong
  <2> QED
    BY <2>1, <2>2, <2>3, <2>4
<1> QED
  BY <1>2, <1>4, Zenon DEF OnceAmong

(* The same places under other names.                                      *)
LEMMA RenamedOnce ==
    ASSUME NEW f, NEW F, NEW S, NEW I, NEW name, NEW id,
           \A i \in I : name[i] \in S /\ f[name[i]] = F[i],
           \A i, j \in I : name[i] = name[j] => i = j,
           \A x \in S : \E i \in I : x = name[i]
    PROVE  /\ OnceAmong(f, S, id) <=> OnceAmong(F, I, id)
           /\ FreeAmong(f, S, id) <=> FreeAmong(F, I, id)
<1>1. OnceAmong(f, S, id) => OnceAmong(F, I, id)
  BY Zenon DEF OnceAmong
<1>2. ASSUME OnceAmong(F, I, id) PROVE OnceAmong(f, S, id)
  <2>1. \A x \in S : Once(f[x], id)
    BY <1>2 DEF OnceAmong
  <2>2. ASSUME NEW x \in S, NEW y \in S, x # y PROVE Free(f[x], id) \/ Free(f[y], id)
    <3>1. PICK i \in I : x = name[i]
      OBVIOUS
    <3>2. PICK j \in I : y = name[j]
      OBVIOUS
    <3>3. Free(F[i], id) \/ Free(F[j], id)
      BY <1>2, <2>2, <3>1, <3>2 DEF OnceAmong
    <3> QED
      BY <3>1, <3>2, <3>3
  <2> QED
    BY <2>1, <2>2, Zenon DEF OnceAmong
<1>3. FreeAmong(f, S, id) <=> FreeAmong(F, I, id)
  BY DEF FreeAmong
<1> QED
  BY <1>1, <1>2, <1>3

(* The interfaces of the network by their ends.                            *)
All(r, hs) == [e \in Ends |-> At(r, hs, e)]

(* What is yet to be sent is nowhere.                                      *)
LEMMA NewIsFree ==
    ASSUME NEW n \in Nat, NEW m, NEW e \in Ends, HonestAt(m, e, AnyQ(n), AnyD(n)),
           NEW id \in Nat, n <= id
    PROVE  Free(m, id)
<1> DEFINE N == Neighbours(LinkNo(e))
           a == AddressOf(e)
<1>1. AnyQ(n)[e] = Nat \X Sent(n) /\ AnyD(n)[e] = Sent(n)
  BY DEF AnyQ, AnyD
<1>2. \A d \in Sent(n) : d.id # id
  BY DEF Sent
<1>3. Honest(m, e, a, N, Nat \X Sent(n), Sent(n))
  BY <1>1 DEF HonestAt
<1>4. In(m.datagrams_out, id) = {}
  <2>1. m.datagrams_out \in Seq(Sent(n))
    BY <1>3 DEF Honest
  <2> QED
    BY <1>2, <2>1, ElementOfSeq, LenProperties DEF In
<1>5. Waits(m.dg_map, id) = {}
  <2>1. ASSUME NEW ip \in DOMAIN m.dg_map PROVE In(m.dg_map[ip], id) = {}
    <3>1. Waiting(Nat \X Sent(n), ip) \subseteq Sent(n)
      BY DEF Waiting
    <3>2. m.dg_map[ip] \in Seq(Sent(n))
      BY <1>3, <3>1, SeqMonotonic, Zenon DEF Honest
    <3> QED
      BY <1>2, <3>2, ElementOfSeq, LenProperties DEF In
  <2> QED
    BY <2>1 DEF Waits
<1>6. OnWire(m.frames_out, id) = {}
  <2>1. \A fr \in FramesOf(e, a, N, Nat \X Sent(n)) : fr.type = "IPv4" => fr.payload.id # id
    <3>1. Datagrams(Nat \X Sent(n)) \subseteq Sent(n)
      BY DEF Datagrams
    <3> QED
      BY <1>2, <3>1 DEF FramesOf, ArpFrames, DataFrames
  <2>2. m.frames_out \in Seq(FramesOf(e, a, N, Nat \X Sent(n)))
    BY <1>3 DEF Honest
  <2> QED
    BY <2>1, <2>2, ElementOfSeq, LenProperties DEF OnWire
<1> QED
  BY <1>4, <1>5, <1>6 DEF Free

(* A step of one host.                                                     *)
LEMMA HostStep ==
    ASSUME NEW r, NEW hs, hs = [g \in Hosts |-> hs[g]], NEW h \in Hosts, NEW new
    PROVE  LET e == <<"host", h>>
               hs2 == [hs EXCEPT ![h] = new]
           IN  /\ e \in Ends /\ At(r, hs, e) = hs[h] /\ At(r, hs2, e) = new
               /\ \A g \in Ends \ {e} : At(r, hs2, g) = At(r, hs, g)
<1> DEFINE e == <<"host", h>>
           hs2 == [hs EXCEPT ![h] = new]
<1>1. hs2[h] = new /\ \A g \in Hosts \ {h} : hs2[g] = hs[g]
  OBVIOUS
<1> HIDE DEF hs2
<1>2. e \in Ends /\ At(r, hs, e) = hs[h] /\ At(r, hs2, e) = new
  BY <1>1 DEF Ends, At
<1>3. ASSUME NEW g \in Ends \ {e} PROVE At(r, hs2, g) = At(r, hs, g)
  <2>1. CASE g \in {"port"} \X (1..5)
    BY <2>1 DEF At
  <2>2. CASE g \in {"host"} \X Hosts
    <3>1. PICK k \in Hosts : g = <<"host", k>>
      BY <2>2
    <3>2. k # h
      BY <3>1
    <3> QED
      BY <1>1, <3>1, <3>2 DEF At
  <2> QED
    BY <2>1, <2>2 DEF Ends
<1> QED
  BY <1>2, <1>3 DEF hs2

(* Where no interface gets a datagram it did not have.                     *)
LEMMA KeptOnce ==
    ASSUME NEW f, NEW g, NEW T, NEW id, OnceAmong(f, T, id),
           \A x \in T : (Once(f[x], id) => Once(g[x], id)) /\ (Free(f[x], id) => Free(g[x], id))
    PROVE  OnceAmong(g, T, id)
BY Zenon DEF OnceAmong

(* Sending a new datagram makes no second copy of any datagram.            *)
LEMMA SendNetOnce ==
    ASSUME NetInv, NEW t \in Traffic, SendTo(t[1], t[2], t[3]), NEW id \in Nat,
           OnceAmong(All(router, hosts), Ends, id)
    PROVE  OnceAmong(All(router', hosts'), Ends, id)
<1> DEFINE h == t[1]
           e == <<"host", h>>
           dgram == NewDatagram(t[2], t[3])
           new == SendDatagram(hosts[h], dgram, NextHop[h])
           f == All(router, hosts)
           g == All(router', hosts')
<1>1. h \in DOMAIN NextHop
  BY SimulatorAssumption
<1>2. h \in Hosts
  BY <1>1, HostsAre DEF NextHop
<1>3. hosts' = [hosts EXCEPT ![h] = new] /\ router' = router
  BY Zenon DEF SendTo
<1>4. hosts = [k \in Hosts |-> hosts[k]]
  BY DEF NetInv, Net, HostsHonest
<1>5. dgram.id = sent /\ sent \in Nat
  BY DEF NewDatagram, NetInv
<1> HIDE DEF new, dgram
<1>6. /\ e \in Ends /\ At(router, hosts, e) = hosts[h] /\ At(router, hosts', e) = new
      /\ \A x \in Ends \ {e} : At(router, hosts', x) = At(router, hosts, x)
  BY <1>2, <1>3, <1>4, HostStep
<1>7. /\ f[e] = hosts[h] /\ g[e] = new /\ \A x \in Ends \ {e} : g[x] = f[x]
  BY <1>3, <1>6, Zenon DEF All
<1>8. HonestAt(hosts[h], e, AnyQ(sent), AnyD(sent))
  BY <1>6, NetAt DEF NetInv
<1>9. InterfaceType(hosts[h]) /\ Sequential(hosts[h])
  BY <1>8, HonestSequential, Zenon DEF HonestAt
<1>10. /\ sent # id => /\ Once(hosts[h], id) => Once(new, id)
                       /\ Free(hosts[h], id) => Free(new, id)
       /\ Free(hosts[h], id) => Once(new, id)
  BY <1>5, <1>9, SendOnce, Zenon DEF new
<1>11. CASE id # sent
  <2>1. \A x \in Ends : (Once(f[x], id) => Once(g[x], id)) /\ (Free(f[x], id) => Free(g[x], id))
    BY <1>7, <1>10, <1>11
  <2> HIDE DEF f, g
  <2> QED
    BY <2>1, KeptOnce DEF f, g
<1>12. CASE id = sent
  <2>1. ASSUME NEW x \in Ends PROVE Free(f[x], id)
    <3>1. f[x] = At(router, hosts, x) /\ HonestAt(At(router, hosts, x), x, AnyQ(sent), AnyD(sent))
      BY NetAt DEF NetInv, All
    <3>2. sent <= id
      BY <1>5, <1>12
    <3> QED
      BY <1>5, <3>1, <3>2, NewIsFree
  <2> HIDE DEF f, g
  <2>2. \A x \in Ends \ {e} : Free(g[x], id) /\ Once(g[x], id)
    BY <1>7, <2>1, FreeIsOnce
  <2>3. Once(g[e], id)
    BY <1>6, <1>7, <1>10, <2>1
  <2>4. OnceAmong(g, Ends, id)
    BY <2>2, <2>3, Zenon DEF OnceAmong
  <2> QED
    BY <2>4 DEF g
<1> QED
  BY <1>11, <1>12

(* Taking what was received makes no second copy.                          *)
LEMMA CheckNetOnce ==
    ASSUME NetInv, NEW h \in Hosts, Check(h), NEW id, OnceAmong(All(router, hosts), Ends, id)
    PROVE  OnceAmong(All(router', hosts'), Ends, id)
<1> DEFINE e == <<"host", h>>
           new == [hosts[h] EXCEPT !.datagrams_out = <<>>]
           f == All(router, hosts)
           g == All(router', hosts')
<1>1. hosts = [k \in Hosts |-> hosts[k]]
  BY DEF NetInv, Net, HostsHonest
<1>2. hosts' = [hosts EXCEPT ![h] = new] /\ router' = router
  BY <1>1 DEF Check
<1> HIDE DEF new
<1>3. /\ e \in Ends /\ At(router, hosts, e) = hosts[h] /\ At(router, hosts', e) = new
      /\ \A x \in Ends \ {e} : At(router, hosts', x) = At(router, hosts, x)
  BY <1>1, <1>2, HostStep
<1>4. /\ f[e] = hosts[h] /\ g[e] = new /\ \A x \in Ends \ {e} : g[x] = f[x]
  BY <1>2, <1>3, Zenon DEF All
<1>5. HonestAt(hosts[h], e, AnyQ(sent), AnyD(sent))
  BY <1>3, NetAt DEF NetInv
<1>6. InterfaceType(hosts[h]) /\ TablesFresh(hosts[h])
  BY <1>5, HonestSequential DEF HonestAt
<1>7. (Once(hosts[h], id) => Once(new, id)) /\ (Free(hosts[h], id) => Free(new, id))
  BY <1>6, TakenOnce, Zenon DEF new
<1> HIDE DEF f, g
<1>8. \A x \in Ends : (Once(f[x], id) => Once(g[x], id)) /\ (Free(f[x], id) => Free(g[x], id))
  BY <1>4, <1>7
<1> QED
  BY <1>8, KeptOnce DEF f, g

(* Time passing makes no second copy.                                      *)
LEMMA TickNetOnce ==
    ASSUME NetInv, Tick, NEW id, OnceAmong(All(router, hosts), Ends, id)
    PROVE  OnceAmong(All(router', hosts'), Ends, id)
<1> DEFINE f == All(router, hosts)
           g == All(router', hosts')
<1>1. \A e \in Ends : At(router', hosts', e) = InterfaceTick(At(router, hosts, e), 1)
  BY TickNet DEF NetInv
<1>2. ASSUME NEW e \in Ends
      PROVE  (Once(f[e], id) => Once(g[e], id)) /\ (Free(f[e], id) => Free(g[e], id))
  <2>1. PICK m : m = At(router, hosts, e)
    OBVIOUS
  <2>2. f[e] = m /\ g[e] = InterfaceTick(m, 1)
    BY <1>1, <2>1 DEF All
  <2>3. HonestAt(m, e, AnyQ(sent), AnyD(sent))
    BY <2>1, NetAt DEF NetInv
  <2>4. InterfaceType(m) /\ TablesFresh(m)
    BY <2>3, HonestSequential DEF HonestAt
  <2> QED
    BY <2>2, <2>4, TakenOnce, Zenon
<1> HIDE DEF f, g
<1> QED
  BY <1>2, KeptOnce DEF f, g

(* A step of the router makes no second copy: what it takes from one       *)
(* interface it gives to at most one.                                      *)
LEMMA RouteNetOnce ==
    ASSUME NetInv, Route, NEW id, OnceAmong(All(router, hosts), Ends, id)
    PROVE  OnceAmong(All(router', hosts'), Ends, id)
<1> DEFINE S == {"port"} \X (1..5)
           name == [i \in 1..5 |-> <<"port", i>>]
           f == All(router, hosts)
           g == All(router', hosts')
<1>1. router' = RouteAll(router) /\ hosts' = hosts
  BY DEF Route
<1>2. S \in SUBSET Ends
  BY DEF Ends
<1>3. /\ \A i \in 1..5 : /\ name[i] \in S
                         /\ f[name[i]] = router.interfaces[i] /\ g[name[i]] = router'.interfaces[i]
      /\ \A i, j \in 1..5 : name[i] = name[j] => i = j
      /\ \A x \in S : \E i \in 1..5 : x = name[i]
  BY <1>2 DEF All, At
<1>4. \A x \in Ends \ S : g[x] = f[x]
  BY <1>1 DEF All, At, Ends
<1> HIDE DEF S, name, f, g
<1>5. PICK F, G, I : F = router.interfaces /\ G = router'.interfaces /\ I = 1..5
  BY Zenon
<1>6. /\ \A i \in I : name[i] \in S /\ f[name[i]] = F[i] /\ g[name[i]] = G[i]
      /\ \A i, j \in I : name[i] = name[j] => i = j
      /\ \A x \in S : \E i \in I : x = name[i]
  BY <1>3, <1>5
<1>7. /\ OnceAmong(f, S, id) <=> OnceAmong(F, I, id)
      /\ FreeAmong(f, S, id) <=> FreeAmong(F, I, id)
      /\ OnceAmong(g, S, id) <=> OnceAmong(G, I, id)
      /\ FreeAmong(g, S, id) <=> FreeAmong(G, I, id)
  <2>1. /\ OnceAmong(f, S, id) <=> OnceAmong(F, I, id)
        /\ FreeAmong(f, S, id) <=> FreeAmong(F, I, id)
    BY <1>6, RenamedOnce
  <2>2. /\ OnceAmong(g, S, id) <=> OnceAmong(G, I, id)
        /\ FreeAmong(g, S, id) <=> FreeAmong(G, I, id)
    BY <1>6, RenamedOnce
  <2> QED
    BY <2>1, <2>2
<1>8. Ports(router, router.rtable, AnyQ(sent), AnyD(sent)) /\ TableOf(router.rtable, 1..7)
  BY DEF NetInv, Net
<1>9. Routable(router.rtable, AnyQ(sent), AnyD(sent))
  BY <1>8, AnyRoutable
<1>10. /\ OnceAmong(F, I, id) => OnceAmong(G, I, id)
       /\ FreeAmong(F, I, id) => FreeAmong(G, I, id)
  BY <1>1, <1>5, <1>8, <1>9, RouteAllOnce
<1>11. OnceAmong(f, Ends, id)
  BY DEF f
<1>12. /\ OnceAmong(f, S, id) => OnceAmong(g, S, id)
       /\ FreeAmong(f, S, id) => FreeAmong(g, S, id)
  BY <1>7, <1>10
<1>13. OnceAmong(g, Ends, id)
  BY <1>2, <1>4, <1>11, <1>12, PartOnce
<1> QED
  BY <1>13 DEF g

(* An exchange makes no second copy, although every frame reaches all      *)
(* other ends of the link: those it is not addressed to drop it.           *)
LEMMA ExchangeNetOnce ==
    ASSUME NetInv, NEW port \in 1..5, NEW whole \in BOOLEAN, Exchange(port, whole), NEW id,
           OnceAmong(All(router, hosts), Ends, id)
    PROVE  OnceAmong(All(router', hosts'), Ends, id)
<1> DEFINE I == 1..EndCount[port]
           name == [j \in I |-> EndName(port, j)]
           S == {EndName(port, j) : j \in I}
           ends == LinkEnds(router, hosts, port)
           after == Exchanged(ends, whole)
           f == All(router, hosts)
           g == All(router', hosts')
           Q == AnyQ(sent)
           D == AnyD(sent)
<1>1. /\ NetShape(router, router.rtable, hosts)
      /\ \A e \in Ends : HonestAt(At(router, hosts, e), e, Q, D)
  BY NetIs DEF NetInv
<1>2. /\ \A e \in Ends : LinkNo(e) # port => At(router', hosts', e) = At(router, hosts, e)
      /\ \A j \in I : At(router', hosts', EndName(port, j)) = after[j]
  BY <1>1, ExchangeEffect
<1>3. DOMAIN ends = I /\ \A j \in I : ends[j] = At(router, hosts, EndName(port, j))
  BY LinkEndsAre
<1>4. /\ \A j \in I : EndName(port, j) \in Ends /\ LinkNo(EndName(port, j)) = port
      /\ \A i, j \in I : EndName(port, i) = EndName(port, j) => i = j
      /\ \A e \in Ends : LinkNo(e) = port => \E j \in I : e = EndName(port, j)
  BY LinkList, Zenon
<1> HIDE DEF I, ends, after, Q, D
<1>5. /\ \A j \in I : name[j] \in S /\ f[name[j]] = ends[j] /\ g[name[j]] = after[j]
      /\ \A i, j \in I : name[i] = name[j] => i = j
      /\ \A x \in S : \E j \in I : x = name[j]
      /\ S \in SUBSET Ends
  BY <1>2, <1>3, <1>4 DEF All
<1>6. \A x \in Ends \ S : g[x] = f[x]
  BY <1>2, <1>4 DEF All
<1> HIDE DEF S, name, f, g
<1>7. /\ OnceAmong(f, S, id) <=> OnceAmong(ends, I, id)
      /\ FreeAmong(f, S, id) <=> FreeAmong(ends, I, id)
  BY <1>5, RenamedOnce
<1>8. /\ OnceAmong(g, S, id) <=> OnceAmong(after, I, id)
      /\ FreeAmong(g, S, id) <=> FreeAmong(after, I, id)
  BY <1>5, RenamedOnce
<1>9. \A j \in I : HonestAt(ends[j], EndName(port, j), Q, D)
  BY <1>1, <1>3, <1>4
<1>10. /\ OnceAmong(ends, I, id) => OnceAmong(after, I, id)
       /\ FreeAmong(ends, I, id) => FreeAmong(after, I, id)
  BY <1>3, <1>9, AnyCompatible, ExchangedOnce, Zenon DEF I, after, Q, D
<1>11. OnceAmong(f, Ends, id)
  BY DEF f
<1>12. /\ OnceAmong(f, S, id) => OnceAmong(g, S, id)
       /\ FreeAmong(f, S, id) => FreeAmong(g, S, id)
  BY <1>7, <1>8, <1>10
<1>13. OnceAmong(g, Ends, id)
  BY <1>5, <1>6, <1>11, <1>12, PartOnce
<1> QED
  BY <1>13 DEF g

(* No datagram is in two places.                                           *)
OnceInv == NetInv /\ \A id \in Nat : OnceAmong(All(router, hosts), Ends, id)

(* The invariant holds initially.                                          *)
LEMMA OnceInvInit == Init => OnceInv
<1> SUFFICES ASSUME Init PROVE OnceInv
  OBVIOUS
<1>1. NetInv /\ sent = 0
  BY NetInvInit, Zenon DEF Init
<1>2. ASSUME NEW id \in Nat PROVE OnceAmong(All(router, hosts), Ends, id)
  <2>1. ASSUME NEW e \in Ends
        PROVE  Free(All(router, hosts)[e], id) /\ Once(All(router, hosts)[e], id)
    <3>1. HonestAt(At(router, hosts, e), e, AnyQ(sent), AnyD(sent))
      BY <1>1, NetAt DEF NetInv
    <3>2. All(router, hosts)[e] = At(router, hosts, e) /\ sent \in Nat /\ sent <= id
      BY <1>1 DEF All
    <3>3. Free(At(router, hosts, e), id)
      BY <3>1, <3>2, NewIsFree
    <3> QED
      BY <3>2, <3>3, FreeIsOnce
  <2> QED
    BY <2>1 DEF OnceAmong
<1> QED
  BY <1>1, <1>2 DEF OnceInv

(* Every step keeps the invariant.                                         *)
LEMMA OnceInvNext == OnceInv /\ [Next]_vars => OnceInv'
<1> SUFFICES ASSUME OnceInv, [Next]_vars PROVE OnceInv'
  OBVIOUS
<1>1. NetInv /\ NetInv'
  BY NetInvNext DEF OnceInv
<1> SUFFICES ASSUME NEW id \in Nat PROVE OnceAmong(All(router', hosts'), Ends, id)
  BY <1>1 DEF OnceInv
<1>2. OnceAmong(All(router, hosts), Ends, id)
  BY DEF OnceInv
<1>3. ASSUME NEW t \in Traffic, SendTo(t[1], t[2], t[3])
      PROVE  OnceAmong(All(router', hosts'), Ends, id)
  BY <1>1, <1>2, <1>3, SendNetOnce
<1>4. ASSUME Route PROVE OnceAmong(All(router', hosts'), Ends, id)
  BY <1>1, <1>2, <1>4, RouteNetOnce
<1>5. ASSUME Tick PROVE OnceAmong(All(router', hosts'), Ends, id)
  BY <1>1, <1>2, <1>5, TickNetOnce
<1>6. ASSUME NEW port \in Linked, NEW whole \in BOOLEAN, Exchange(port, whole)
      PROVE  OnceAmong(All(router', hosts'), Ends, id)
  <2>1. port \in 1..5
    BY DEF Linked, LinkHosts
  <2> QED
    BY <1>1, <1>2, <1>6, <2>1, ExchangeNetOnce
<1>7. ASSUME NEW h \in Hosts, Check(h) PROVE OnceAmong(All(router', hosts'), Ends, id)
  BY <1>1, <1>2, <1>7, CheckNetOnce
<1>8. CASE UNCHANGED vars
  BY <1>2, <1>8 DEF vars
<1> QED
  BY <1>3, <1>4, <1>5, <1>6, <1>7, <1>8 DEF Next

(* No datagram is ever in the network twice.                               *)
LEMMA OnceAlways == Spec => []OnceInv
BY OnceInvInit, OnceInvNext, PTL DEF Spec

(* The places are those of the invariant.                                  *)
LEMMA PlacesAre ==
    ASSUME NEW n, NEW id
    PROVE  /\ Once(n, id) => AtMostOne(Places(n, id))
           /\ Free(n, id) => Places(n, id) = {}
<1> DEFINE W == Waits(n.dg_map, id)
           F == OnWire(n.frames_out, id)
           O == In(n.datagrams_out, id)
           P == Places(n, id)
<1>1. ASSUME NEW p \in P
      PROVE  \/ \E w \in W : p = <<"queue", w[1], w[2]>>
             \/ \E i \in F : p = <<"frame", i>>
             \/ \E i \in O : p = <<"received", i>>
  <2>1. \/ \E ip \in DOMAIN n.dg_map : \E i \in In(n.dg_map[ip], id) : p = <<"queue", ip, i>>
        \/ \E i \in F : p = <<"frame", i>>
        \/ \E i \in O : p = <<"received", i>>
    <3> DEFINE queued == UNION {{<<"queue", ip, i>> : i \in In(n.dg_map[ip], id)} :
                                   ip \in DOMAIN n.dg_map}
               framed == {<<"frame", i>> : i \in F}
               received == {<<"received", i>> : i \in O}
    <3>1. P = queued \cup framed \cup received
      BY Zenon DEF Places
    <3>2. CASE p \in queued
      BY <3>2
    <3>3. CASE p \in framed
      BY <3>3
    <3>4. CASE p \in received
      BY <3>4
    <3> HIDE DEF P, queued, framed, received
    <3> QED
      BY <3>1, <3>2, <3>3, <3>4
  <2>2. CASE \E ip \in DOMAIN n.dg_map : \E i \in In(n.dg_map[ip], id) : p = <<"queue", ip, i>>
    <3>1. PICK ip \in DOMAIN n.dg_map : \E i \in In(n.dg_map[ip], id) : p = <<"queue", ip, i>>
      BY <2>2
    <3>2. PICK i \in In(n.dg_map[ip], id) : p = <<"queue", ip, i>>
      BY <3>1
    <3>3. <<ip, i>> \in W
      BY WaitsAre
    <3> QED
      BY <3>2, <3>3
  <2> QED
    BY <2>1, <2>2
<1> HIDE DEF W, F, O, P
<1>2. Free(n, id) => P = {}
  BY <1>1 DEF Free, W, F, O
<1>3. ASSUME Once(n, id), NEW p \in P, NEW q \in P PROVE p = q
  <2>1. OnceOf(W, F, O)
    BY <1>3 DEF Once, W, F, O
  <2>2. CASE \E w \in W : p = <<"queue", w[1], w[2]>>
    <3>1. \E w \in W : q = <<"queue", w[1], w[2]>>
      BY <1>1, <2>1, <2>2 DEF OnceOf
    <3> QED
      BY <2>1, <2>2, <3>1 DEF OnceOf, AtMostOne
  <2>3. CASE \E i \in F : p = <<"frame", i>>
    <3>1. \E i \in F : q = <<"frame", i>>
      BY <1>1, <2>1, <2>3 DEF OnceOf
    <3> QED
      BY <2>1, <2>3, <3>1 DEF OnceOf, AtMostOne
  <2>4. CASE \E i \in O : p = <<"received", i>>
    <3>1. \E i \in O : q = <<"received", i>>
      BY <1>1, <2>1, <2>4 DEF OnceOf
    <3> QED
      BY <2>1, <2>4, <3>1 DEF OnceOf, AtMostOne
  <2> QED
    BY <1>1, <2>2, <2>3, <2>4
<1> QED
  BY <1>2, <1>3 DEF AtMostOne, P

(* A set without two different members has at most one.                    *)
LEMMA AtMostOneIsSmall == ASSUME NEW S, AtMostOne(S) PROVE Cardinality(S) <= 1
<1>1. CASE S = {}
  BY <1>1, FS_EmptySet
<1>2. CASE S # {}
  <2>1. PICK x : x \in S
    BY <1>2
  <2>2. S = {x}
    BY <2>1 DEF AtMostOne
  <2>3. Cardinality({x}) = 1
    BY FS_Singleton
  <2> QED
    BY <2>2, <2>3
<1> QED
  BY <1>1, <1>2

(* A datagram is never in two places.                                      *)
THEOREM NoDuplicates == Spec => []OneCopy
<1>1. OnceInv => OneCopy
  <2> SUFFICES ASSUME OnceInv, NEW id \in 0..(sent - 1)
               PROVE  Cardinality(UNION {{n.ethernet_address} \X Places(n, id) :
                                            n \in Interfaces}) <= 1
    BY DEF OneCopy
  <2> DEFINE U == UNION {{n.ethernet_address} \X Places(n, id) : n \in Interfaces}
  <2>1. NetInv /\ OnceAmong(All(router, hosts), Ends, id)
    BY DEF OnceInv, NetInv
  <2>2. ASSUME NEW x \in U
        PROVE  \E e \in Ends : \E p \in Places(At(router, hosts, e), id) : x = <<e, p>>
    <3>1. PICK n \in Interfaces : x \in {n.ethernet_address} \X Places(n, id)
      OBVIOUS
    <3>2. PICK e \in Ends : n = At(router, hosts, e) /\ HonestAt(n, e, AnyQ(sent), AnyD(sent))
      BY <2>1, AllAtEnds
    <3>3. n.ethernet_address = e
      BY <3>2 DEF HonestAt, Honest
    <3> QED
      BY <3>1, <3>2, <3>3
  <2>3. /\ \A e \in Ends : Once(At(router, hosts, e), id)
        /\ \A e, g \in Ends : e # g => \/ Free(At(router, hosts, e), id)
                                       \/ Free(At(router, hosts, g), id)
    BY <2>1 DEF OnceAmong, All
  <2> HIDE DEF U
  <2>4. ASSUME NEW x \in U, NEW y \in U PROVE x = y
    <3>1. PICK e \in Ends : \E p \in Places(At(router, hosts, e), id) : x = <<e, p>>
      BY <2>2
    <3>2. PICK g \in Ends : \E p \in Places(At(router, hosts, g), id) : y = <<g, p>>
      BY <2>2
    <3>3. e = g
      BY <2>3, <3>1, <3>2, PlacesAre
    <3>4. AtMostOne(Places(At(router, hosts, e), id))
      BY <2>3, PlacesAre
    <3> QED
      BY <3>1, <3>2, <3>3, <3>4 DEF AtMostOne
  <2>5. AtMostOne(U)
    BY <2>4 DEF AtMostOne
  <2> QED
    BY <2>5, AtMostOneIsSmall DEF U
<1> QED
  BY <1>1, OnceAlways, PTL

-----------------------------------------------------------------------------
(* The routes that apply to an address, as BestRoute defines them.         *)
Applies(dst, j) ==
    dst \div 2^(AddressBits - Routes[j][2]) = Routes[j][1] \div 2^(AddressBits - Routes[j][2])

(* The addresses that are not in the network of the route that has bits    *)
(* behind its prefix, which the router never finds.                        *)
Findable == {dst \in 0..255 : dst \div 32 # Routes[7][1] \div 32}

(* For these the entry of a route matches exactly where the route applies. *)
LEMMA MatchesIffApplies ==
    ASSUME NEW dst \in Findable, NEW j \in 1..7
    PROVE  Routes[j][1] = MaskNet(dst, Routes[j][2]) <=> Applies(dst, j)
<1>1. AddressBits = 8 /\ dst \in 0..255 /\ dst \div 32 # 6
  BY SimulatorAssumption DEF Findable, Routes
<1>2. CASE j = 1
  <2>1. Routes[j][1] = 0 /\ Routes[j][2] = 0 /\ 2^(AddressBits - 0) = 256
    BY <1>1, <1>2 DEF Routes
  <2>2. MaskNet(dst, 0) = 0
    BY <1>1, <2>1 DEF MaskNet
  <2> QED
    BY <1>1, <2>1, <2>2 DEF Applies
<1>3. CASE j = 2
  <2>1. Routes[j][1] = 0 /\ Routes[j][2] = 2 /\ 2^(AddressBits - 2) = 64
    BY <1>1, <1>3 DEF Routes
  <2>2. MaskNet(dst, 2) = (dst \div 64) * 64
    BY <1>1, <2>1 DEF MaskNet
  <2> QED
    BY <1>1, <2>1, <2>2 DEF Applies
<1>4. CASE j = 3
  <2>1. Routes[j][1] = 64 /\ Routes[j][2] = 2 /\ 2^(AddressBits - 2) = 64
    BY <1>1, <1>4 DEF Routes
  <2>2. MaskNet(dst, 2) = (dst \div 64) * 64
    BY <1>1, <2>1 DEF MaskNet
  <2> QED
    BY <1>1, <2>1, <2>2 DEF Applies
<1>5. CASE j = 4
  <2>1. Routes[j][1] = 128 /\ Routes[j][2] = 3 /\ 2^(AddressBits - 3) = 32
    BY <1>1, <1>5 DEF Routes
  <2>2. MaskNet(dst, 3) = (dst \div 32) * 32
    BY <1>1, <2>1 DEF MaskNet
  <2> QED
    BY <1>1, <2>1, <2>2 DEF Applies
<1>6. CASE j = 5
  <2>1. Routes[j][1] = 160 /\ Routes[j][2] = 4 /\ 2^(AddressBits - 4) = 16
    BY <1>1, <1>6 DEF Routes
  <2>2. MaskNet(dst, 4) = (dst \div 16) * 16
    BY <1>1, <2>1 DEF MaskNet
  <2> QED
    BY <1>1, <2>1, <2>2 DEF Applies
<1>7. CASE j = 6
  <2>1. Routes[j][1] = 176 /\ Routes[j][2] = 5 /\ 2^(AddressBits - 5) = 8
    BY <1>1, <1>7 DEF Routes
  <2>2. MaskNet(dst, 5) = (dst \div 8) * 8
    BY <1>1, <2>1 DEF MaskNet
  <2> QED
    BY <1>1, <2>1, <2>2 DEF Applies
<1>8. CASE j = 7
  <2>1. Routes[j][1] = 195 /\ Routes[j][2] = 3 /\ 2^(AddressBits - 3) = 32
    BY <1>1, <1>8 DEF Routes
  <2>2. MaskNet(dst, 3) = (dst \div 32) * 32
    BY <1>1, <2>1 DEF MaskNet
  <2> QED
    BY <1>1, <2>1, <2>2 DEF Applies
<1> QED
  BY <1>2, <1>3, <1>4, <1>5, <1>6, <1>7, <1>8

(* One of the routes that apply is the longest, the default is one.        *)
LEMMA LongestIsUnique ==
    ASSUME NEW dst \in Findable
    PROVE  /\ Applies(dst, 1)
           /\ \A j, k \in 1..7 : Applies(dst, j) /\ Applies(dst, k) /\ Routes[j][2] = Routes[k][2]
                                    => j = k
<1>1. AddressBits = 8 /\ dst \in 0..255 /\ dst \div 32 # 6
  BY SimulatorAssumption DEF Findable, Routes
<1>2. Applies(dst, 1)
  BY <1>1 DEF Applies, Routes
<1>3. ~(Applies(dst, 2) /\ Applies(dst, 3)) /\ ~Applies(dst, 7)
  BY <1>1 DEF Applies, Routes
<1>4. ASSUME NEW j \in 1..7, NEW k \in 1..7, Routes[j][2] = Routes[k][2], j # k
      PROVE  {j, k} \in {{2, 3}, {4, 7}}
  BY <1>4 DEF Routes
<1>5. ASSUME NEW j \in 1..7, NEW k \in 1..7, Applies(dst, j), Applies(dst, k),
             Routes[j][2] = Routes[k][2], j # k
      PROVE  FALSE
  <2>1. {j, k} = {2, 3} \/ {j, k} = {4, 7}
    BY <1>4, <1>5, Zenon
  <2>2. (j = 2 /\ k = 3) \/ (j = 3 /\ k = 2) \/ j = 7 \/ k = 7
    BY <2>1
  <2> QED
    BY <1>3, <1>5, <2>2
<1> QED
  BY <1>2, <1>5

(* The route that is found is the best one.                                *)
LEMMA FoundIsBest ==
    ASSUME NEW table, TableOf(table, 1..7), NEW dst \in Findable
    PROVE  \E j \in 1..7 : Found(table, dst) = RouteEntry(j) /\ BestRoute(dst) = Routes[j]
<1> DEFINE A == {i \in 1..7 : Applies(dst, i)}
           M == Matching(table, dst)
           i == CHOOSE i \in A : \A j \in A : Routes[j][2] <= Routes[i][2]
<1>1. DOMAIN Routes = 1..7 /\ \A j \in 1..7 : Routes[j][2] \in Nat
  BY DEF Routes
<1>2. BestRoute(dst) = Routes[i]
  BY <1>1, Zenon DEF BestRoute, Applies
<1>3. \A j \in 1..7 : Applies(dst, j) => \E k \in M : table[k] = RouteEntry(j)
  <2>1. ASSUME NEW j \in 1..7, Applies(dst, j) PROVE \E k \in M : table[k] = RouteEntry(j)
    <3>1. PICK k \in DOMAIN table : table[k] = RouteEntry(j)
      BY DEF TableOf
    <3>2. table[k].prefix = Routes[j][1] /\ table[k].length = Routes[j][2]
      BY <3>1, RouteEntries
    <3>3. Routes[j][1] = MaskNet(dst, Routes[j][2])
      BY <2>1, MatchesIffApplies
    <3> QED
      BY <3>1, <3>2, <3>3 DEF Matching
  <2> QED
    BY <2>1
<1>4. M # {}
  <2>1. Applies(dst, 1) /\ 1 \in 1..7
    BY LongestIsUnique
  <2> HIDE DEF M
  <2> QED
    BY <1>3, <2>1
<1>5. Max(M) \in M /\ \A k \in M : table[k].length <= Found(table, dst).length
  BY <1>4, SortedIsLongestFirst DEF TableOf, LongestFirst, Found
<1>6. PICK j \in 1..7 : Found(table, dst) = RouteEntry(j)
  BY <1>4, FoundRoute DEF Findable
<1>7. Applies(dst, j)
  <2>1. Found(table, dst).prefix = MaskNet(dst, Found(table, dst).length)
    BY <1>5 DEF Matching, Found
  <2> QED
    BY <1>6, <2>1, MatchesIffApplies, RouteEntries
<1>8. \A k \in A : Routes[k][2] <= Routes[j][2]
  <2>1. ASSUME NEW k \in 1..7, Applies(dst, k) PROVE Routes[k][2] <= Routes[j][2]
    <3>1. PICK x \in M : table[x] = RouteEntry(k)
      BY <1>3, <2>1
    <3>2. table[x].length <= Found(table, dst).length
      BY <1>5
    <3> QED
      BY <1>6, <3>1, <3>2, RouteEntries
  <2> QED
    BY <2>1
<1>9. j \in A
  BY <1>7
<1>10. i \in A /\ \A k \in A : Routes[k][2] <= Routes[i][2]
  <2> HIDE DEF A
  <2> QED
    BY <1>8, <1>9, Zenon
<1>11. i = j
  <2>1. PICK x \in 1..7 : x = i /\ Applies(dst, x)
    BY <1>10, Zenon
  <2>2. Routes[x][2] = Routes[j][2]
    <3>1. Routes[x][2] <= Routes[j][2] /\ Routes[j][2] <= Routes[x][2]
      <4> HIDE DEF A, i
      <4> QED
        BY <1>8, <1>9, <1>10, <2>1
    <3> QED
      BY <1>1, <3>1
  <2> QED
    BY <1>7, <2>1, <2>2, LongestIsUnique, Zenon
<1> QED
  BY <1>2, <1>6, <1>11, Zenon

Datagram == [id : Nat, dst : Nat, ttl : Nat]

(* What may be received, when the hosts expect x: at a host what it        *)
(* expects, at the router what its receiver expects after one hop.         *)
DueD(x) ==
    [e \in Ends |->
        IF e[1] = "host" THEN x[e[2]]
        ELSE {d \in Datagram : /\ d.dst \in Findable
                               /\ d.ttl > 1 =>
                                     \A g \in Hosts \cap Receivers(d.dst) : Routed(d) \in x[g]}]

(* What may be sent: what may be received where it goes.                   *)
DueQ(x) ==
    [e \in Ends |->
        {y \in Nat \X Datagram :
            \A g \in Ends : e # g /\ LinkNo(e) = LinkNo(g) /\ AddressOf(g) = y[1] =>
                y[2] \in DueD(x)[g]}]

(* What is due on a link when it is sent is due when it arrives.           *)
LEMMA DueCompatible == ASSUME NEW x PROVE Compatible(DueQ(x), DueD(x))
BY Zenon DEF Compatible, DueQ

(* The hosts that should receive are those that the found route leads to.  *)
LEMMA FoundReceivers ==
    ASSUME NEW table, TableOf(table, 1..7), NEW dst \in Findable, NEW h \in Hosts,
           LinkOf[h] = Found(table, dst).interface_num, HostAddress[h] = HopFor(table, dst)
    PROVE  h \in Receivers(dst)
<1>1. PICK j \in 1..7 : Found(table, dst) = RouteEntry(j) /\ BestRoute(dst) = Routes[j]
  BY FoundIsBest
<1>2. /\ Found(table, dst).interface_num = Routes[j][4]
      /\ Found(table, dst).next_hop = Routes[j][3] /\ Routes[j][4] \in 1..5
  BY <1>1, RouteEntries
<1>3. h \in Range(LinkHosts[Routes[j][4]])
  <2>1. PICK port \in 1..5 : port = Routes[j][4]
    BY <1>2
  <2>2. LinkOf[h] = port
    BY <1>2, <2>1
  <2>3. h \in Range(LinkHosts[port])
    BY <2>2, HostsAre DEF LinkOf, LinkHosts, Range
  <2> QED
    BY <2>1, <2>3
<1> QED
  BY <1>1, <1>2, <1>3 DEF Receivers, HopFor

(* A datagram due at the router is due, once routed, on the link of its    *)
(* route.                                                                  *)
LEMMA DueRoutable ==
    ASSUME NEW table, TableOf(table, 1..7), NEW x PROVE Routable(table, DueQ(x), DueD(x))
<1> SUFFICES ASSUME NEW i \in 1..5, NEW d \in DueD(x)[<<"port", i>>]
             PROVE  /\ d \in Datagram
                    /\ Matching(table, d.dst) # {} /\ TtlLeft(d.ttl) # 0 =>
                          /\ Found(table, d.dst).interface_num \in 1..5
                          /\ HopFor(table, d.dst) \in Nat
                          /\ <<HopFor(table, d.dst), Routed(d)>>
                                \in DueQ(x)[<<"port", Found(table, d.dst).interface_num>>]
  BY Zenon DEF Routable, Datagram
<1>1. \A j \in 1..5 : <<"port", j>> \in Ends
  BY DEF Ends
<1>2. /\ d \in Datagram /\ d.dst \in Findable
      /\ d.ttl > 1 => \A g \in Hosts \cap Receivers(d.dst) : Routed(d) \in x[g]
  BY <1>1 DEF DueD
<1>3. d.dst \in Nat /\ d.ttl \in Nat
  BY <1>2 DEF Datagram
<1>4. ASSUME Matching(table, d.dst) # {}, TtlLeft(d.ttl) # 0
      PROVE  /\ Found(table, d.dst).interface_num \in 1..5
             /\ HopFor(table, d.dst) \in Nat
             /\ <<HopFor(table, d.dst), Routed(d)>>
                   \in DueQ(x)[<<"port", Found(table, d.dst).interface_num>>]
  <2>1. /\ Found(table, d.dst).interface_num \in 1..5
        /\ HopFor(table, d.dst) \in Nat
    BY <1>3, <1>4, FoundRoute
  <2>2. PICK port \in 1..5 : port = Found(table, d.dst).interface_num
    BY <2>1
  <2>3. PICK hop \in Nat : hop = HopFor(table, d.dst)
    BY <2>1
  <2>4. d.ttl > 1 /\ Routed(d) \in Datagram
    BY <1>2, <1>3, <1>4 DEF TtlLeft, Routed, Datagram
  <2>5. ASSUME NEW g \in Ends, <<"port", port>> # g, LinkNo(<<"port", port>>) = LinkNo(g),
               AddressOf(g) = hop
        PROVE  Routed(d) \in DueD(x)[g]
    <3>1. LinkNo(<<"port", port>>) = port
      BY DEF LinkNo
    <3>2. CASE g \in {"port"} \X (1..5)
      BY <2>5, <3>1, <3>2 DEF LinkNo
    <3>3. CASE g \in {"host"} \X Hosts
      <4>1. PICK h \in Hosts : g = <<"host", h>>
        BY <3>3
      <4>2. LinkOf[h] = port /\ HostAddress[h] = hop /\ DueD(x)[g] = x[h]
        BY <2>5, <3>1, <4>1 DEF LinkNo, AddressOf, DueD
      <4>3. h \in Receivers(d.dst)
        BY <1>2, <2>2, <2>3, <4>2, FoundReceivers
      <4> QED
        BY <1>2, <2>4, <4>2, <4>3
    <3> QED
      BY <3>2, <3>3 DEF Ends
  <2>6. <<hop, Routed(d)>> \in DueQ(x)[<<"port", port>>]
    BY <1>1, <2>4, <2>5, Zenon DEF DueQ
  <2> QED
    BY <2>1, <2>2, <2>3, <2>6
<1> QED
  BY <1>2, <1>4

(* When the hosts expect y and no longer x, the datagrams that both expect *)
(* are still due.                                                          *)
LEMMA DueKept ==
    ASSUME NEW x, NEW y, NEW R, \A h \in Hosts : \A d \in x[h] : d.id \notin R => d \in y[h],
           NEW e \in Ends
    PROVE  /\ \A d \in DueD(x)[e] : d.id \notin R => d \in DueD(y)[e]
           /\ \A z \in DueQ(x)[e] : z[2].id \notin R => z \in DueQ(y)[e]
<1>1. ASSUME NEW g \in Ends, NEW d \in DueD(x)[g], d.id \notin R PROVE d \in DueD(y)[g]
  <2>1. CASE g \in {"port"} \X (1..5)
    <3>1. d \in Datagram
      BY <2>1 DEF DueD
    <3>2. Routed(d).id = d.id
      BY <3>1 DEF Routed, Datagram
    <3> QED
      BY <1>1, <2>1, <3>2 DEF DueD
  <2>2. CASE g \in {"host"} \X Hosts
    BY <1>1, <2>2 DEF DueD
  <2> QED
    BY <2>1, <2>2 DEF Ends
<1>2. ASSUME NEW z \in DueQ(x)[e], z[2].id \notin R PROVE z \in DueQ(y)[e]
  BY <1>1, <1>2, Zenon DEF DueQ
<1> QED
  BY <1>1, <1>2

(* What a host sends is due.                                               *)
LEMMA DueSent ==
    ASSUME NEW x, NEW h \in DOMAIN NextHop, NEW d \in Datagram, d.dst \in Findable,
           d.ttl > 1 => \A g \in Hosts \cap Receivers(d.dst) : Routed(d) \in x[g]
    PROVE  <<NextHop[h], d>> \in DueQ(x)[<<"host", h>>]
<1>1. h \in Hosts /\ NextHop[h] \in Nat /\ \A k \in Hosts : HostAddress[k] # NextHop[h]
  BY HostsAre DEF NextHop, HostAddress
<1>2. <<"host", h>> \in Ends
  BY <1>1 DEF Ends
<1>3. ASSUME NEW g \in Ends, AddressOf(g) = NextHop[h] PROVE d \in DueD(x)[g]
  <2>1. CASE g \in {"port"} \X (1..5)
    BY <2>1 DEF DueD
  <2>2. CASE g \in {"host"} \X Hosts
    <3>1. PICK k \in Hosts : g = <<"host", k>>
      BY <2>2
    <3>2. HostAddress[k] = NextHop[h]
      BY <1>3, <3>1 DEF AddressOf
    <3> QED
      BY <1>1, <3>2
  <2> QED
    BY <2>1, <2>2 DEF Ends
<1>4. <<NextHop[h], d>> \in Nat \X Datagram
  BY <1>1
<1> QED
  BY <1>2, <1>3, <1>4, Zenon DEF DueQ

(* Datagrams that an interface does not have do not matter to it.          *)
LEMMA FreeHonest ==
    ASSUME NEW m, NEW e, NEW a, NEW N, NEW Q, NEW D, Honest(m, e, a, N, Q, D),
           NEW R, \A id \in R : Free(m, id),
           NEW Q2, \A y \in Q : y[2].id \notin R => y \in Q2,
           NEW D2, \A d \in D : d.id \notin R => d \in D2
    PROVE  Honest(m, e, a, N, Q2, D2)
<1>1. m.datagrams_out \in Seq(D2)
  <2>1. PICK s \in Seq(D) : s = m.datagrams_out
    BY DEF Honest
  <2>2. PICK n \in Nat : n = Len(s) /\ DOMAIN s = 1..n
    BY LenProperties
  <2>3. ASSUME NEW i \in 1..n PROVE s[i] \in D2
    <3>1. s[i] \in D
      BY <2>2, ElementOfSeq
    <3>2. s[i].id \notin R
      BY <2>1, <2>2 DEF Free, In
    <3> QED
      BY <3>1, <3>2
  <2> QED
    BY <2>1, <2>2, <2>3
<1>2. ASSUME NEW ip \in DOMAIN m.dg_map PROVE m.dg_map[ip] \in Seq(Waiting(Q2, ip))
  <2>1. PICK s \in Seq(Waiting(Q, ip)) : s = m.dg_map[ip]
    BY DEF Honest
  <2>2. PICK n \in Nat : n = Len(s) /\ DOMAIN s = 1..n
    BY LenProperties
  <2>3. ASSUME NEW i \in 1..n PROVE s[i] \in Waiting(Q2, ip)
    <3>1. s[i] \in Waiting(Q, ip)
      BY <2>2, ElementOfSeq
    <3>2. s[i].id \notin R
      <4>1. SUFFICES ASSUME s[i].id \in R PROVE FALSE
        OBVIOUS
      <4>2. <<ip, i>> \in Waits(m.dg_map, s[i].id)
        BY <2>1, <2>2, WaitsAre DEF In
      <4> QED
        BY <4>1, <4>2 DEF Free
    <3>3. PICK d : d = s[i] /\ <<ip, d>> \in Q
      BY <3>1 DEF Waiting
    <3>4. <<ip, d>> \in Q2
      BY <3>2, <3>3
    <3> QED
      BY <3>3, <3>4 DEF Waiting, Datagrams
  <2> QED
    BY <2>1, <2>2, <2>3
<1>3. m.frames_out \in Seq(FramesOf(e, a, N, Q2))
  <2>1. PICK s \in Seq(FramesOf(e, a, N, Q)) : s = m.frames_out
    BY DEF Honest
  <2>2. PICK n \in Nat : n = Len(s) /\ DOMAIN s = 1..n
    BY LenProperties
  <2>3. ASSUME NEW i \in 1..n PROVE s[i] \in FramesOf(e, a, N, Q2)
    <3>1. s[i] \in FramesOf(e, a, N, Q)
      BY <2>2, ElementOfSeq
    <3>2. CASE s[i] \in ArpFrames(e, a, N)
      BY <3>2 DEF FramesOf
    <3>3. CASE s[i] \in DataFrames(e, N, Q)
      <4>1. s[i] \in [src : {e}, dst : Addresses(N), type : {"IPv4"}, payload : Datagrams(Q)]
        BY <3>3 DEF DataFrames
      <4>2. PICK ip \in Nat : <<ip, s[i].dst>> \in N /\ <<ip, s[i].payload>> \in Q
        BY <3>3 DEF DataFrames
      <4>3. s[i].payload.id \notin R
        BY <2>1, <2>2, <4>1 DEF Free, OnWire
      <4>4. PICK d : d = s[i].payload
        OBVIOUS
      <4>5. <<ip, d>> \in Q2
        BY <4>2, <4>3, <4>4
      <4>6. d \in Datagrams(Q2)
        BY <4>5 DEF Datagrams
      <4>7. s[i] \in [src : {e}, dst : Addresses(N), type : {"IPv4"}, payload : Datagrams(Q2)]
        BY <4>1, <4>4, <4>6
      <4>8. s[i] \in DataFrames(e, N, Q2)
        BY <4>2, <4>4, <4>5, <4>7, Zenon DEF DataFrames
      <4> QED
        BY <4>8 DEF FramesOf
    <3> QED
      BY <3>1, <3>2, <3>3, Zenon DEF FramesOf
  <2> QED
    BY <2>1, <2>2, <2>3
<1> QED
  BY <1>1, <1>2, <1>3 DEF Honest

(* The traffic that the router can route.                                  *)
FindableTraffic == \A t \in Traffic : t[2] \in Findable

(* What is anywhere in the network is due there.                           *)
DueInv ==
    /\ OnceInv
    /\ expecting = [h \in Hosts |-> expecting[h]]
    /\ Net(router, router.rtable, hosts, DueQ(expecting), DueD(expecting))

(* A host that takes a datagram takes it off the list of what is expected; *)
(* copies of it elsewhere, that would then be unexpected, there are none.  *)
LEMMA CheckDue ==
    ASSUME DueInv, NEW h \in Hosts, Check(h)
    PROVE  Net(router', router.rtable, hosts', DueQ(expecting'), DueD(expecting'))
<1> DEFINE here == <<"host", h>>
           out == hosts[h].datagrams_out
           R == {d.id : d \in Range(out)}
           x == expecting
           y == expecting'
<1>1. NetInv /\ \A id \in Nat : OnceAmong(All(router, hosts), Ends, id)
  BY DEF DueInv, OnceInv
<1>2. /\ Net(router', router.rtable, hosts', DueQ(x), DueD(x))
      /\ hosts'[h] = [hosts[h] EXCEPT !.datagrams_out = <<>>]
      /\ \A k \in Hosts \ {h} : hosts'[k] = hosts[k]
  BY CheckNet DEF DueInv
<1>3. router' = router /\ y = [x EXCEPT ![h] = x[h] \ Range(out)]
  BY DEF Check, RemoveExpectations
<1>4. here \in Ends /\ At(router, hosts, here) = hosts[h] /\ At(router', hosts', here) = hosts'[h]
  BY DEF Ends, At
<1>5. ASSUME NEW e \in Ends \ {here} PROVE At(router', hosts', e) = At(router, hosts, e)
  BY <1>2, <1>3 DEF At, Ends
<1>6. HonestAt(hosts[h], here, AnyQ(sent), AnyD(sent))
  BY <1>1, <1>4, NetAt DEF NetInv
<1>7. R \subseteq Nat /\ \A id \in R : In(out, id) # {}
  <2>1. out \in Seq(Sent(sent))
    BY <1>4, <1>6 DEF HonestAt, Honest, AnyD
  <2>2. PICK n \in Nat : n = Len(out) /\ DOMAIN out = 1..n
    BY <2>1, LenProperties
  <2>3. \A i \in 1..n : out[i] \in Sent(sent)
    BY <2>1, <2>2, ElementOfSeq
  <2>4. \A id \in R : \E i \in 1..n : id = out[i].id
    BY <2>2 DEF Range
  <2> QED
    BY <2>2, <2>3, <2>4, Zenon DEF In, Sent
<1>8. ASSUME NEW e \in Ends, NEW id \in R PROVE Free(At(router', hosts', e), id)
  <2>1. /\ \A g \in Ends : Once(At(router, hosts, g), id)
        /\ \A g, k \in Ends : g # k => \/ Free(At(router, hosts, g), id)
                                       \/ Free(At(router, hosts, k), id)
    BY <1>1, <1>7 DEF OnceAmong, All
  <2>2. In(out, id) # {} /\ ~Free(hosts[h], id)
    BY <1>7 DEF Free
  <2>3. CASE e # here
    BY <1>4, <1>5, <2>1, <2>2, <2>3
  <2>4. CASE e = here
    <3>1. Waits(hosts[h].dg_map, id) = {} /\ OnWire(hosts[h].frames_out, id) = {}
      BY <1>4, <2>1, <2>2, Zenon DEF Once, OnceOf
    <3>2. InterfaceType(hosts[h]) /\ TablesFresh(hosts[h])
      BY <1>6, Zenon DEF HonestAt, Honest
    <3>3. /\ hosts'[h].dg_map = hosts[h].dg_map /\ hosts'[h].frames_out = hosts[h].frames_out
          /\ hosts'[h].datagrams_out = <<>>
      BY <1>2, <3>2, TakenEffect
    <3>4. In(<<>>, id) = {}
      BY DEF In
    <3> QED
      BY <1>4, <2>4, <3>1, <3>3, <3>4 DEF Free
  <2> QED
    BY <2>3, <2>4
<1>9. \A k \in Hosts : \A d \in x[k] : d.id \notin R => d \in y[k]
  <2>1. x = [k \in Hosts |-> x[k]]
    BY DEF DueInv
  <2> QED
    BY <1>3, <2>1
<1>10. PICK r, hs, z : r = router' /\ hs = hosts' /\ z = y
  OBVIOUS
<1> HIDE DEF R, x, y
<1>11. /\ NetShape(r, router.rtable, hs)
       /\ \A e \in Ends : HonestAt(At(r, hs, e), e, DueQ(x), DueD(x))
  BY <1>2, <1>10, NetIs
<1>12. ASSUME NEW e \in Ends PROVE HonestAt(At(r, hs, e), e, DueQ(z), DueD(z))
  <2>1. /\ \A d \in DueD(x)[e] : d.id \notin R => d \in DueD(z)[e]
        /\ \A w \in DueQ(x)[e] : w[2].id \notin R => w \in DueQ(z)[e]
    BY <1>9, <1>10, DueKept, Zenon
  <2>2. \A id \in R : Free(At(r, hs, e), id)
    BY <1>8, <1>10
  <2>3. HonestAt(At(r, hs, e), e, DueQ(x), DueD(x))
    BY <1>11
  <2> QED
    BY <2>1, <2>2, <2>3, FreeHonest, Zenon DEF HonestAt
<1>13. Net(r, router.rtable, hs, DueQ(z), DueD(z))
  BY <1>11, <1>12, NetIs
<1> QED
  BY <1>10, <1>13 DEF y

(* A datagram that is sent is expected at its receiver, whose link the     *)
(* router finds.                                                           *)
LEMMA SendDue ==
    ASSUME FindableTraffic, DueInv, NEW t \in Traffic, SendTo(t[1], t[2], t[3])
    PROVE  Net(router', router.rtable, hosts', DueQ(expecting'), DueD(expecting'))
<1> DEFINE d == NewDatagram(t[2], t[3])
           x == expecting
           y == expecting'
<1>1. t[1] \in DOMAIN NextHop /\ t[2] \in Findable /\ t[2] \in Nat /\ t[3] \in Nat
  BY SimulatorAssumption DEF FindableTraffic
<1>2. sent \in Nat
  BY DEF DueInv, OnceInv, NetInv
<1>3. y = [g \in Hosts |-> IF g \in Receivers(t[2]) /\ t[3] > 1
                           THEN x[g] \cup {[d EXCEPT !.ttl = @ - 1]} ELSE x[g]]
  BY Zenon DEF SendTo
<1>4. d \in Datagram /\ d.dst = t[2] /\ d.ttl = t[3]
  BY <1>1, <1>2 DEF NewDatagram, Datagram
<1>5. t[3] > 1 => Routed(d) = [d EXCEPT !.ttl = @ - 1]
  BY <1>1, <1>4 DEF Routed, TtlLeft, Datagram
<1> HIDE DEF d
<1>6. t[3] > 1 => \A g \in Hosts \cap Receivers(t[2]) : Routed(d) \in y[g]
  BY <1>3, <1>5
<1>7. \A k \in Hosts : \A c \in x[k] : c.id \notin {} => c \in y[k]
  BY <1>3
<1>8. PICK z : z = y
  OBVIOUS
<1> HIDE DEF x, y
<1>9. <<NextHop[t[1]], d>> \in DueQ(z)[<<"host", t[1]>>]
  BY <1>1, <1>4, <1>6, <1>8, DueSent
<1>10. ASSUME NEW e \in Ends
       PROVE  DueQ(x)[e] \subseteq DueQ(z)[e] /\ DueD(x)[e] \subseteq DueD(z)[e]
  <2>1. PICK R : R = {}
    BY Zenon
  <2>2. /\ \A c \in DueD(x)[e] : c.id \notin R => c \in DueD(z)[e]
        /\ \A w \in DueQ(x)[e] : w[2].id \notin R => w \in DueQ(z)[e]
    BY <1>7, <1>8, <2>1, DueKept, Zenon
  <2> QED
    BY <2>1, <2>2
<1>11. Net(router, router.rtable, hosts, DueQ(z), DueD(z))
  BY <1>10, NetGrows DEF DueInv, x
<1>12. Net(router', router.rtable, hosts', DueQ(z), DueD(z))
  BY <1>1, <1>9, <1>11, SendNet DEF d
<1> QED
  BY <1>8, <1>12 DEF y

(* The invariant holds initially.                                          *)
LEMMA DueInvInit == Init => DueInv
<1> SUFFICES ASSUME Init PROVE DueInv
  OBVIOUS
<1>1. expecting = [h \in Hosts |-> expecting[h]]
  BY Zenon DEF Init
<1> QED
  BY <1>1, InitNet, OnceInvInit DEF DueInv

(* Every step keeps the invariant, if the router can find the receivers of *)
(* the traffic.                                                            *)
LEMMA DueInvNext == FindableTraffic /\ DueInv /\ [Next]_vars => DueInv'
<1> SUFFICES ASSUME FindableTraffic, DueInv, [Next]_vars PROVE DueInv'
  OBVIOUS
<1> DEFINE table == router.rtable
           Q == DueQ(expecting)
           D == DueD(expecting)
<1>1. OnceInv /\ OnceInv' /\ expecting = [h \in Hosts |-> expecting[h]]
  BY OnceInvNext DEF DueInv
<1>2. /\ TableOf(table, 1..7) /\ Net(router, table, hosts, Q, D)
      /\ Compatible(Q, D) /\ Routable(table, Q, D)
  BY DueCompatible, DueRoutable DEF DueInv, OnceInv, NetInv
<1>3. ASSUME Net(router', table, hosts', DueQ(expecting'), DueD(expecting')),
             expecting' = [h \in Hosts |-> expecting'[h]]
      PROVE  DueInv'
  <2>1. router'.rtable = table
    BY <1>3 DEF Net, Ports
  <2> QED
    BY <1>1, <1>3, <2>1 DEF DueInv
<1>4. ASSUME Net(router', table, hosts', Q, D), expecting' = expecting PROVE DueInv'
  BY <1>1, <1>3, <1>4
<1> HIDE DEF Q, D, table
<1>5. ASSUME NEW t \in Traffic, SendTo(t[1], t[2], t[3]) PROVE DueInv'
  <2>1. expecting' = [h \in Hosts |-> expecting'[h]]
    BY <1>5 DEF SendTo
  <2> QED
    BY <1>3, <1>5, <2>1, SendDue DEF table
<1>6. ASSUME Route PROVE DueInv'
  BY <1>2, <1>4, <1>6, RouteNet DEF Route
<1>7. ASSUME Tick PROVE DueInv'
  BY <1>2, <1>4, <1>7, TickNet DEF Tick
<1>8. ASSUME NEW port \in Linked, NEW whole \in BOOLEAN, Exchange(port, whole) PROVE DueInv'
  <2>1. port \in 1..5
    BY DEF Linked, LinkHosts
  <2>2. expecting' = expecting
    BY <1>8, Zenon DEF Exchange
  <2> QED
    BY <1>2, <1>4, <1>8, <2>1, <2>2, ExchangeNet
<1>9. ASSUME NEW h \in Hosts, Check(h) PROVE DueInv'
  <2>1. expecting' = [k \in Hosts |-> expecting'[k]]
    BY <1>1, <1>9 DEF Check
  <2> QED
    BY <1>3, <1>9, <2>1, CheckDue DEF table
<1>10. ASSUME UNCHANGED vars PROVE DueInv'
  BY <1>2, <1>4, <1>10 DEF vars
<1> QED
  BY <1>5, <1>6, <1>7, <1>8, <1>9, <1>10 DEF Next

(* Hosts receive only what is expected: each datagram goes where the       *)
(* longest matching prefix says and has lost one from its time to live,    *)
(* and none is received that should have expired (router.cc:44, :47), as   *)
(* long as nothing is sent to the network of the route with bits behind    *)
(* its prefix, which the router does not find.                             *)
THEOREM OnlyExpected == FindableTraffic => (Spec => []NothingUnexpected)
<1> SUFFICES ASSUME FindableTraffic PROVE Spec => []NothingUnexpected
  OBVIOUS
<1>1. DueInv => NothingUnexpected
  <2> SUFFICES ASSUME DueInv, NEW h \in Hosts
               PROVE  Range(hosts[h].datagrams_out) \subseteq expecting[h]
    BY DEF NothingUnexpected
  <2>1. HonestAt(hosts[h], <<"host", h>>, DueQ(expecting), DueD(expecting))
    BY DEF DueInv, Net, HostsHonest
  <2>2. DueD(expecting)[<<"host", h>>] = expecting[h]
    BY DEF DueD, Ends
  <2>3. hosts[h].datagrams_out \in Seq(expecting[h])
    BY <2>1, <2>2 DEF HonestAt, Honest
  <2> QED
    BY <2>3, ElementOfSeq, LenProperties DEF Range
<1>2. DueInv /\ [Next]_vars => DueInv'
  BY DueInvNext
<1> QED
  BY <1>1, <1>2, DueInvInit, PTL DEF Spec

=============================================================================
