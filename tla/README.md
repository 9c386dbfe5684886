# A TLA+ model of the sponge TCP/IP stack

The repository implements a user-space TCP/IP stack in C++ (`src/libsponge`):
byte streams, a reassembler, a TCP receiver and sender, the connection that
joins them, an ARP-speaking network interface, a router, and a socket that runs
the stack in a thread of its own. This directory holds TLA+ modules translated
from that code, the TLC configurations that check them on small instances, and
proofs that TLAPS checks for every value of the constants.

## The system

| part | state | operations | talks to |
|---|---|---|---|
| `ByteStream` | buffered bytes, capacity, bytes written and read, input ended, error | `write`, `peek_output`, `pop_output`, `read`, `end_input`, `set_error` | owned by reassembler and sender |
| `StreamReassembler` | output stream, map of stored substrings, next expected index, count of unassembled bytes, end seen | `push_substring` (`validate`, `merge`, `merge_string`, `reorder_buffer`) | receiver, reading application |
| `wrap`/`unwrap` | none | conversion between 32-bit and 64-bit sequence numbers | receiver, sender |
| `TCPReceiver` | reassembler, initial sequence number, checkpoint, acknowledgment, SYN and FIN seen | `segment_received`, `ackno`, `window_size` | connection |
| `TCPSender` | stream to send, outstanding segments, bytes in flight, window left, retransmission timer | `fill_window`, `ack_received`, `tick`, `send_empty_segment` | connection |
| `TCPConnection` | a sender, a receiver, outgoing queue, linger flag, time since last segment | `connect`, `write`, `end_input_stream`, `segment_received`, `tick`, destructor | socket |
| `TCPState` | none | names a connection's state after RFC 793 | socket, tests |
| `TCPSpongeSocket`, `EventLoop` | a connection, a pipe to the owner, four rules with interest callbacks | `connect`, `listen_and_accept`, `wait_until_closed`, destructor, the event loop | application thread, adapter |
| adapters | own and peer's address, listening, for TAP a `NetworkInterface` | `read`, `write`, `tick` over UDP, TUN, TAP; a lossy wrapper | socket, device |
| wire formats | none | `parse` and `serialize` of TCP, IPv4, ARP, Ethernet | adapters, interface |
| `NetworkInterface` | address table, times, datagrams waiting for an address | `send_datagram`, `recv_frame`, `tick` | router, link |
| `Router` | routing table, interfaces | `add_route`, `route` | interfaces |
| `network_simulator` | a router, hosts, links, expected datagrams | send, exchange frames, check | router, interfaces |

What makes it hard: segments are lost, repeated and reordered; sequence numbers
wrap; a window closes and must be probed; acknowledgments of different age
overtake each other; the capacity is shared by assembled and unassembled bytes;
the FIN occupies a sequence number but no byte; two ends close in any order
and the last acknowledgment may be lost; addresses expire while datagrams wait
for them; the rules of an event loop are chosen before, and run after, the
state they looked at. `PROJECT.json` lists these hazards at the lines where
they bite.

## Modules

| module | models |
|---|---|
| `ByteStream` | `byte_stream.cc`; a stream is a record, a method an operator from the old record to the new one. Byte *i* of a stream is the number *i*, so a byte out of place is visible |
| `OrderedMap` | the operations of `std::map` the stack uses (external) |
| `StreamReassembler` | `stream_reassembler.cc`, and predicates on its state |
| `OrderedDelivery` | the abstract specification: bytes arriving inside the window are kept, and read in order |
| `Reassembly` | one reassembler, a network that pushes any substring at any time, an application that reads |
| `WrappingIntegers` | `wrapping_integers.cc`, with `Modulus` for 2^32 |
| `TCPSegment` | the header fields the endpoints look at, and the payload |
| `TCPReceiver` | `tcp_receiver.cc`; `Word` stands for 2^64 |
| `Receiving` | one receiver and the segments of a peer that respects the window |
| `TCPSender` | `tcp_sender.cc`. The loop of `fill_window` is one operator: all its segments but the last carry `MaxPayload` bytes |
| `Transfer` | a sender, the peer's receiver and a network; the actions are the connection's calls, with `flush_buffer` part of each |
| `TCPConnection` | `tcp_connection.cc`; a connection is a record of a sender, a receiver, the queue, and the linger state |
| `TCPState` | `tcp_state.cc`: the summaries and the combinations with a name |
| `Endpoints` | two connections and the wires between them. What a call queues goes to the wire in the same step, as the socket's fourth rule sees to (`TCPSpongeSocket` models that rule as a step of its own); the destructor's RST alone dies with its queue |
| `TCPSpongeSocket` | end `x` of `Endpoints` behind the socket: `poll`, the ready list, the four rules one at a time, the pipe, and the owner's thread; `y` is the peer |
| `NetworkInterface`, `Router` | `network_interface.cc`, `router.cc`. `Router` defines the loops `FoldLeft` and `FlattenSeq` and `InsertAt` itself, on `Folds`: `SequencesExt` would put the library's theorems on bags, sets and sequences before every step of the network's proofs and double their time |
| `NetworkSimulator` | `network_simulator.cc` around them. `BestRoute` and `Receivers` define who should get a datagram from the documented meaning of a route, not from the router's loop |
| `Wire` | parsing, serialising and checksums over sequences of bytes. A 32-bit number is a pair and an Ethernet address a triple of 16-bit ones, because TLC's integers have 32 bits |
| `Adapters` | the adapters of three stations: a listener `s` and two that open, `a` and `b` (with TAP, `s` and `a` share an Ethernet and `b` is not there) |
| `MC...` | the values of constants that a `.cfg` cannot hold |
| `ReceiverLemmas`, `SenderLemmas` | what the operators of the receiver and its parts, and of the sender, do, with proofs |
| `ReassemblyProofs`, `ReceivingProofs`, `TransferProofs`, `ConnectionProofs`, `NetworkProofs`, `DeliveryProofs` | theorems about `Reassembly`, `Receiving`, `Transfer`, `Endpoints` and, the last two, `NetworkSimulator`, with proofs |

Field names are those of the classes without the leading underscore. One field
has no counterpart: `dangling` of the reassembler records that `reorder_buffer`
took the branch in which it reads a map node it has just erased.
Operators introduced by a comment "Mutant:" are deliberately wrong variants of
the definition that follows; each is used to show that a property can fail.

## Runs

| run | checks | instance |
|---|---|---|
| `Reassembly.cfg` | `TypeOK`, `Apart`, `InPlace`, `NoDanglingRead`, `UnassembledExact`, `WithinCapacity`, `RefinesDelivery`, `AllRead` | capacity 7, 9 bytes: three substrings stored apart, so that `merge` also deletes a middle one, and a window that moves across the stream |
| `ReassemblyEof.cfg` | `EndIsSeen`, **violated** | capacity 2, 2 bytes |
| `Receiving.cfg` | `TypeOK`, `InPlace`, `AckExact`, `EndExact`, `EdgesAdvance`, `RefinesDelivery`, `StreamEnds` | capacity 3, 22 bytes with modulus 20, so that the numbers wrap for either initial number |
| `ReceivingFin.cfg` | `AckExact`, **violated** | 2 bytes, a FIN without payload may overtake the data |
| `Transfer.cfg` | `TypeOK`, `InFlightExact`, `NothingForgotten`, `TimerRuns`, `WindowRespected`, `InPlace`, `EndAgrees`, `ArrivesInOrder` | 3 bytes through a window of 2, payloads up to 2, one loss, two acknowledgments on their way, in order or reordered; the numbers wrap |
| `TransferStaleAck.cfg` | `EverythingArrives`, **violated** | 2 bytes through a window of 1, acknowledgments reordered |
| `Endpoints.cfg` | `CleanEnd`, `StateMachine`, `EndsForGood`, `BothEnd` | one byte each way through windows of 1, one loss, one retransmission before giving up, `y` may be destroyed; no time passes while two segments are on their way |
| `NetworkSimulator.cfg` | `NothingUnexpected`, `OneCopy`, `Fresh`, `KnowsNeighbours`, `AllReceived` | the simulator's hosts and routes with 8-bit addresses, added in two orders, two datagrams of six kinds, one exchange garbled, addresses expiring |
| `NetworkSimulatorPrefix.cfg` | `NothingUnexpected`, **violated** | one datagram to the network of the last route |
| `TCPSpongeSocket.cfg` | `OwnerReadsAll`, `NothingStranded`, `ThrowsOnlyOnReset`, `Joins` | two bytes in, one out, a pipe of one byte, the socket may be destroyed at any time |
| `TCPSpongeSocketReset.cfg` | `NeverThrows`, **violated** | the same without the destructor |
| `Adapters.cfg` | `Intact`, `OnePeer`, `Accepted` | real byte layouts: a SYN from each opener, data of odd length with a FIN, a SYN-ACK; UDP, TUN and TAP; one dropped segment, which is then written again, one datagram damaged at any byte or cut anywhere |

Deadlock is checked except in the simulator and the adapters, whose traffic is
finite and really ends.

### Bounds

The stream is longer than the window in every passing run of the reassembler,
the receiver and the transfer, so the window has to move. Capacity 7 lets three
substrings be stored apart; capacity 5 would allow only two. The instances of
`Receiving` and `Transfer` reach a closed window and its probe, data out of
order, a checkpoint moved back by an old segment, a FIN with the last bytes and
one of its own, retransmissions, several segments outstanding, and wrapped
sequence numbers. `Lifetime` bounds how far behind the acknowledgment an old
segment may be; with the window it must stay within half the sequence space, as
it does for 2^32 and windows below 2^16. `MaxLosses`, `MaxRetx` and `MaxAcks`
bound the network and the retries of `Transfer`; `MaxRetx` plays the role of
`MAX_RETX_ATTEMPTS`, and a sender that reaches it has given up and no longer
ticks. `Transfer` bounds the sequence numbers in use to half the space.

`Endpoints` has a window of one byte: data, a FIN that has to wait for the
window, its probe and the handshake all happen, and every state of RFC 793 is
reached that two ends of which one listens can reach. `MaxOnWire` lets time
pass only while fewer segments are on their way, so that a timeout means a loss
or a slow answer and the wires stay short. A lost segment
is enough for a retransmitted FIN in TIME_WAIT, and two timeouts for an abort
with RST. In the socket, a pipe of one byte and a stream of two make every
write into the pipe partial. In the simulator, a datagram may wait through an
expiring request and an expiring address, and a table keeps its time across
both. The two route orders put long prefixes first and last.

### Fairness

* `Reassembly`: each byte is pushed, and the output read, again and again.
* `Receiving`: until everything is acknowledged the segment that starts at the
  acknowledged number keeps arriving, which is what the peer's retransmission
  timer provides, and the application keeps reading. The variable `retries`
  only serves to state this.
* `Transfer`, `Endpoints`: time passes (the socket's loop calls `tick` in every
  round), nothing that can be delivered stays on its way forever, and the
  application reads, in `Endpoints` while its connection is active. Nothing is
  assumed of opening, writing or closing, nor of a FIN that `FinOvertakes =
  FALSE` keeps back (`HeldBack`): that the data before it arrives is for the
  sender's timer to bring about. Losses are bounded.
* `TCPSpongeSocket`: as above; the thread takes steps while it runs, which it
  always can, its clock advances, and the owner empties the pipe until it
  destroys the socket. From then on it waits in `join()` and reads nothing, so
  `Joins` covers a socket destroyed with bytes unread. The owner need not write
  or close.
* `NetworkSimulator`: queues of frames and datagrams are emptied again and
  again, as `simulate()` does by routing and exchanging 256 times before it
  checks. Nothing is assumed of time.

Reading in `Reassembly`, `Receiving` and `Transfer` is weakly fair as such. The
rest is written out as "again and again" over state predicates, because the
enabling conditions are nested expressions: weak fairness of `Tick` is "again
and again a tick changes nothing, or again and again a tick", and that nothing
stays on its way is "again and again the wire is empty". That is more than weak
fairness of delivery. In `Endpoints` it holds because ticks, which fill the wire,
wait for it. In `Transfer` ticks do not wait: there it is an assumption about the
network, that for every sequence number all copies sent have arrived again and
again, and all acknowledgments; a network that always has one more copy of the
same segment on its way is left out.

### What the violated runs show

* `ReassemblyEof`: `validate` rejects a substring that is already assembled
  before it looks at `eof`. A last byte that first came without `eof` therefore
  never ends the stream, however often it comes with it.
* `ReceivingFin`: a FIN without payload sets `_end` wherever it stands. If it
  overtakes data while nothing is stored out of order, the stream ends early and
  the acknowledgment covers a number not received. `Receiving.cfg` and
  `Transfer.cfg` exclude this one reordering (`FinOvertakes = FALSE`) so that
  the rest can be checked.
* `TransferStaleAck`: `ack_received` sets the window left to 0 for an
  acknowledgment that leaves no room for what was sent, also when that
  acknowledgment is older than the last one processed. If everything is
  acknowledged by then, no timer runs and no reply will come: later writes are
  never sent. `ArrivesInOrder` therefore speaks of behaviours with the
  acknowledgments in order; the safety properties of `Transfer.cfg` hold with
  any order. For the same reason `Endpoints.cfg` delivers in order.
* `NetworkSimulatorPrefix`: `route_one_datagram` compares the masked destination
  with the whole prefix of a route. A route with bits behind its length, like the
  simulator's `128.30.76.255/16`, never matches, and its datagrams take the
  default route. The program does not notice, because it never sends there.
* `TCPSpongeSocketReset`: the interest of rule 2 is asked before `poll`, its
  callback runs after rule 1. When rule 1 handles a RST, `write` then takes
  nothing, and rule 2 throws in the thread. `ThrowsOnlyOnReset` shows that this
  needs a reset. A second way to the same end: after a reset with more bytes
  inbound than the pipe holds, rule 3 shuts the pipe down and writes to it again.

### Remarks on what the properties say

* `StateMachine` needs two states that RFC 793 and `tcp_state.cc` have no name
  for: `FIN_UNSENT`, in which both ends have closed and this end's FIN waits for
  the window, and `UNREAD`, in which everything is acknowledged but the
  application has not read all (`active()` asks for `eof`, not `input_ended`).
* `BothEnd` has two exceptions, both at a connection whose peer is already over:
  the peer was reset and its RST lost, or the peer last announced a window of
  zero. A FIN sent into that window is repeated without ever being counted
  (`tcp_sender.cc:166`), and nobody answers.
* `Fresh` says that no mapping is older than the timeout. A mapping may last
  less: it inherits the time of the request (`network_interface.cc:131`).
* `Intact` holds although `IPv4Datagram::parse` and `TCPSegment::parse` go on
  after their header's parser reported a bad checksum, version or length, and
  `EthernetFrame::parse` never reports a short frame: what is left of such a
  datagram fails the TCP checksum or the filter. It is a statement about one
  changed byte or a cut datagram; a checksum of 16 bits promises no more.

## Proofs

| theorem | says | for every |
|---|---|---|
| `ReassemblyProofs`: `TypeCorrect`, `StoredStayApart`, `BytesStayInPlace`, `NoErasedNodeRead`, `CountIsExact`, `CapacityHolds` | `TypeOK`, `Apart`, `InPlace`, `NoDanglingRead`, `UnassembledExact`, `WithinCapacity` | capacity and stream length |
| `ReassemblyProofs!ImplementsDelivery` | `Reassembly` implements `OrderedDelivery` | capacity and stream length |
| `ReceiverLemmas!UnwrapWrap` | `unwrap` undoes `wrap` less than half the space from the checkpoint | even modulus, initial number |
| `ReceivingProofs`: `TypeCorrect`, `BytesStayInPlace`, `ImplementsDelivery` | `TypeOK`, `InPlace`, `RefinesDelivery` | constants of `Receiving` |
| `ReceivingProofs`: `AckIsExact`, `EndIsExact`, `EdgesOnlyAdvance` | `AckExact`, `EndExact`, `EdgesAdvance` | constants of `Receiving` with `~FinOvertakes` |
| `TransferProofs`: `TypeCorrect`, `FlightIsExact`, `BytesStayInPlace`, `TimerAlwaysRuns` | `TypeOK`, `InFlightExact`, `InPlace`, `TimerRuns` | constants of `Transfer` |
| `TransferProofs`: `NeverForgets`, `StaysInWindow`, `EndsAgree` | `NothingForgotten`, `WindowRespected`, `EndAgrees` | constants of `Transfer` with `~FinOvertakes` |
| `ConnectionProofs!StaysOver` | `EndsForGood` | constants of `Endpoints` |
| `NetworkProofs!AlwaysFresh` | `TablesFresh` of an interface given any datagrams, frames and times | timeouts |
| `NetworkProofs!LongestPrefixWins` | the first match in the table is one of the longest prefix | sequence of `add_route` calls |
| `NetworkProofs`: `NetworkFresh`, `NeighboursKnown` | `Fresh`, `KnowsNeighbours` | traffic, order of the routes, timeouts, number of datagrams, garbled exchanges and ticks |
| `DeliveryProofs!NoDuplicates` | `OneCopy` | the same |
| `DeliveryProofs!OnlyExpected` | `NothingUnexpected` | the same, with traffic the router can find a route for (`FindableTraffic`) |

The assumptions are those the modules declare about their constants: natural
numbers, a modulus that is even, initial sequence numbers below it, sequence
numbers in use within half the space (`ReceivingAssumption`,
`TransferAssumption`), a capacity of at least one byte for `Receiving`, every
route added, and no host with the broadcast address (`SimulatorAssumption`,
`BroadcastAssumption`). TLC evaluates them in the runs.

Two groups of theorems have a hypothesis, and a violated run shows why each needs
it. A FIN without payload that overtakes the data ends the stream early
(`ReceivingFin.cfg`), so what is said about ends, acknowledgments and windows
assumes `~FinOvertakes`; what does not depend on it is proved without. A route
with bits behind its length is never found (`NetworkSimulatorPrefix.cfg`), so
`OnlyExpected` leaves out destinations in the network of the one such route; the
traffic of `NetworkSimulator.cfg` and of the program satisfies this.

### The arguments

*Reassembler.* Its properties are not inductive: whether `reorder_buffer` can
meet a substring longer than the room left depends on the output never holding
more than the capacity, and on `expected_index` agreeing with the bytes written.
`IInv` adds these, and that the count of unassembled bytes is the number of
waiting positions, which `merge` keeps although it computes it by differences.
The work is in `ReceiverLemmas`, along the call graph: `MergeStringUnion` (two
touching substrings give their union), `MergeCorrect` (the map stays apart and
gains exactly the new positions), `ReorderBufferCorrect`, `ValidateCorrect`, and
`PushSubstringCorrect` and `ReadOutputCorrect`, which the step lemmas cite.

*Receiver.* `IInv` of `ReceivingProofs` adds that the checkpoint, which is the
number of the segment that came last and may lie behind or before the
acknowledgment, stays within a window and a `Lifetime` of it; then `UnwrapWrap`
says that every segment is put where the peer meant it, and the reassembler's
lemmas do the rest. `EndInv` relates the FIN to the bytes before it.

*Transfer.* `Base` says that each end is in a state of its own class
(`SenderOK`, `ReceiverOK`), that everything on its way was issued, and that
nothing is received that was not sent. `Link` adds what spans the ends when no
FIN overtakes the data: at most one FIN, where the stream ended; every
acknowledgment on its way lies behind what the receiver assembled and its window
behind the receiver's edge (`AcksBehind`); and what the sender may still send
lies inside that edge, or is the one byte of a probe (`InWindow`). The lemmas
`FillGoes`, `AckGoes` and `TickGoes` of `SenderLemmas` say what each operation
of the sender does in these terms. `TimerAlwaysRuns` needs none of it: `TimerInv`
says that the outstanding segments form a function and the flag is a Boolean, and
the places that touch the timer and those that touch the map agree.

*Connection.* `StaysOver` uses `ShapeInv`: the connections are records of the
right fields and their queues are empty between steps, because each step puts its
queue on the wire. From it, every guarded operation of a connection that is over
(a segment, a tick, a write, a close: applications and the socket call the last
two without knowing that it is over) returns before it changes the sender.
Reading, which is not guarded, can only bring the inbound stream closer to its
end, which `Active` counts towards being over. `connect`, which is not guarded
either, is only called on a connection just made (`NewIsActive`).

*Interface and router.* `AlwaysFresh` and `LongestPrefixWins` are about one
interface and one router under every call (`InterfaceNext`, `RouterNext`), not
only those of the simulator. For the router the inductive invariant is that the
table is sorted by length as the comparison with `<=` inserts; the search runs
backwards through it.

*Network.* All three invariants instantiate one predicate, `Net(r, table, hs, Q,
D)`: every interface is honest, that is, its frames and tables name only ends of
its own link under their own addresses, what waits in it is permitted by `Q`, and
what it received by `D`. One lemma per action shows that `Net` is kept when `Q`
and `D` fit together along links (`Compatible`) and through the router
(`Routable`). `NetInv` takes every datagram sent so far for permitted and gives
`Fresh` and `KnowsNeighbours`. `OnceInv` adds that a datagram is at one position
of one interface at most; a frame reaches all other ends of a link, and it is
`NetInv` that makes all but the addressed one drop it, since no two ends share
an address and a datagram is never sent to the broadcast address. `DueInv`
takes for permitted, at each place, the datagrams that some host on the way from
there still expects; a host that takes a datagram stops expecting it, so this is
inductive only together with `OnceInv`. `FoundIsBest` relates the router's search
to `BestRoute`, the documented meaning of the routes.

Loops of the code are folds in the model, and a fold is unfolded into the
sequence of its states (`Loop` in `NetworkProofs`, `FlattensExists`,
`SumsExists`). A property of all these states is shown by taking the least index
at which it fails (`LeastOfNat`), because the library's induction theorems take a
predicate as a parameter, which the provers cannot instantiate.

### Only model-checked

* Every liveness property: fairness is outside the prover's reach.
* `CleanEnd` and `StateMachine` of `Endpoints`, and `OwnerReadsAll`,
  `NothingStranded` and `ThrowsOnlyOnReset` of `TCPSpongeSocket`. Each needs that
  no byte follows an end of stream, hence the invariant `Link` of `Transfer` for
  both directions at once, with the acknowledgments of one direction carried by
  the segments of the other, and with lingering, resets and the two queues of a
  connection added to it.
* `Intact`, `OnePeer` and `Accepted` of `Adapters`: they rest on what `Wire`
  computes byte by byte, checksums included, which is recursion over data.

## Not modelled

* `util/buffer.cc`: the models use the byte sequence that a `BufferList` stands
  for. How it is cut into chunks decides nothing above it.
* `listen_and_accept` of the socket differs from `connect` in the condition of
  its first loop; `x` of `TCPSpongeSocket` connects and the peer, which listens,
  is a bare connection. `CS144TCPSocket` and `FullStackSocket` choose addresses
  and a device.
* `wait_until_closed` shuts down both directions of the pipe
  (`tcp_sponge_socket.cc:195`) and waits for the thread. `OwnerCloses` shuts down
  the owner's writing direction only, which is the same once the owner has read
  the end of the stream, as the programs in `apps` do first unless their own
  standard input or output fails; called earlier, it would make rule 3 write into a pipe that nobody reads, and that is not modelled.
  `Joins` is about the wait.
* The busy-wait check of the event loop cannot fire with these four rules, since
  each callback reads or writes its descriptor; it is left out.
* `bidirectional_stream_copy` and `tcp_benchmark` are schedules of calls that
  `TCPSpongeSocket` and `Endpoints` allow in any order; the other programs parse
  arguments and print.
* System call wrappers, but for the partial reads and writes of a pipe.
* The simulator's `eth1` has no host, and `eth2` repeats `eth0`.
* Absolute sequence numbers are not exhausted at 2^64, and `wdn_sz` and `rto` do
  not overflow within the bounds `MAX_RETX_ATTEMPTS` and a 16-bit window set.
  `mask_net` for length 1 overflows a signed `int` (`router.cc:83`); the model
  takes the result that wrapping gives, and no route has that length.
