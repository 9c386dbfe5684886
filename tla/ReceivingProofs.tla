-------------------------- MODULE ReceivingProofs --------------------------
(***************************************************************************)
(* The receiver is correct for every capacity, stream length, lifetime of  *)
(* old segments and initial sequence number that leave half the sequence   *)
(* space between what may arrive and the checkpoint.                       *)
(***************************************************************************)
EXTENDS Receiving, ReceiverLemmas

(* The inductive invariant.  The checkpoint is the number of the segment   *)
(* that arrived last, not the acknowledgment: the last two conjuncts bound *)
(* how far the two can be apart, which is what makes unwrap exact.         *)
IInv ==
    /\ ReceiverOK(receiver, isn)
    /\ receiver.capacity = Capacity
    /\ isn \in 0..(Modulus - 1) /\ fin_alone \in BOOLEAN
    /\ Received(reassembler) \subseteq 0..(StreamLength - 1)
    /\ receiver.checkpoint <= StreamLength + 2
    /\ receiver.syn =>
           /\ Output.total_written <= receiver.checkpoint + Lifetime + Capacity
           /\ receiver.checkpoint <= Output.total_written + Capacity + 1

(* Its extension when no FIN overtakes the data: a peer that sends its FIN *)
(* with the last bytes has it seen as soon as the last byte is there.      *)
EndInv ==
    /\ Ending(receiver, StreamLength)
    /\ ~fin_alone /\ StreamLength - 1 \in Received(reassembler) => receiver.end

-----------------------------------------------------------------------------
(* The constructor establishes both.                                       *)
LEMMA InitIInv == Init => IInv /\ EndInv
<1> SUFFICES ASSUME Init PROVE IInv /\ EndInv
  OBVIOUS
<1>1. /\ Capacity \in Nat /\ StreamLength \in Nat \ {0} /\ Isns \subseteq 0..(Modulus - 1)
  BY ReceivingAssumption
<1>2. /\ ReceiverOK(receiver, isn) /\ receiver.capacity = Capacity
      /\ receiver.syn = FALSE /\ reassembler = NewReassembler(Capacity)
  BY <1>1, NewReceiverOK DEF Init, reassembler
<1>3. /\ Received(reassembler) = {} /\ reassembler.input_ended = FALSE
      /\ Output.input_ended = FALSE
  BY <1>1, <1>2, NewReassemblerReady DEF Output
<1>4. receiver.checkpoint = 0 /\ ~receiver.end /\ ~receiver.syn
  BY <1>2 DEF ReceiverOK
<1>5. IInv
  BY <1>1, <1>2, <1>3, <1>4 DEF IInv, Init
<1>6. EndInv
  BY <1>1, <1>3, <1>4 DEF EndInv, Ending, reassembler, Output
<1> QED
  BY <1>5, <1>6

(* The quantities of an invariant state that the window is made of.        *)
LEMMA Quantities ==
    ASSUME IInv
    PROVE  /\ Output.total_written \in 0..StreamLength /\ Output.total_read \in Nat
           /\ Output.total_read <= Output.total_written
           /\ RightEdge(reassembler) = Output.total_read + Capacity
           /\ WindowSize(receiver) = RightEdge(reassembler) - Output.total_written
           /\ WindowSize(receiver) \in 0..Capacity
           /\ receiver.syn =>
                  /\ receiver.exp_ack \in Nat
                  /\ receiver.exp_ack > Output.total_written
                  /\ receiver.exp_ack <= Output.total_written + 2
           /\ ~receiver.syn => Output.total_written = 0 /\ receiver.exp_ack = 0
<1>1. /\ Ready(reassembler) /\ Counted(reassembler) /\ receiver.capacity = Output.cap
      /\ Output.cap = Capacity /\ Capacity \in Nat /\ StreamLength \in Nat
      /\ Received(reassembler) \subseteq 0..(StreamLength - 1)
  BY ReceivingAssumption DEF IInv, ReceiverOK, reassembler, Output
<1>2. /\ Output.total_written \in Nat /\ Output.total_written \notin Received(reassembler)
      /\ \A p \in Nat : p < Output.total_written => p \in Received(reassembler)
  BY <1>1, NextMissing DEF Output
<1>3. Output.total_written \in 0..StreamLength
  <2>1. StreamLength \notin Received(reassembler)
    BY <1>1
  <2> QED
    BY <1>1, <1>2, <2>1
<1>4. /\ Output.total_read \in Nat /\ Output.total_read <= Output.total_written
      /\ RightEdge(reassembler) = Output.total_read + Capacity
      /\ BufferSize(Output) = Output.total_written - Output.total_read
      /\ Output.total_written <= RightEdge(reassembler)
  BY <1>1, OutputRoom DEF Ready, OutputInPlace, Output
<1>5. WindowSize(receiver) = RightEdge(reassembler) - Output.total_written
  BY <1>1, <1>2, <1>4 DEF WindowSize, Output, reassembler
<1>6. receiver.syn => receiver.exp_ack = ExpectedAck(reassembler, receiver.end)
  BY DEF IInv, ReceiverOK, reassembler
<1>7. /\ ExpectedAck(reassembler, receiver.end) \in Nat
      /\ ExpectedAck(reassembler, receiver.end) > Output.total_written
      /\ ExpectedAck(reassembler, receiver.end) <= Output.total_written + 2
  BY <1>2 DEF ExpectedAck, Output
<1>8. ~receiver.syn => Output.total_written = 0 /\ receiver.exp_ack = 0
  <2>1. ~receiver.syn => Received(reassembler) = {} /\ receiver.exp_ack = 0
    BY DEF IInv, ReceiverOK, reassembler
  <2> QED
    BY <1>2, <2>1
<1> QED
  BY <1>1, <1>2, <1>3, <1>4, <1>5, <1>6, <1>7, <1>8

(* The receiver changes only when it takes a segment in at its place.      *)
Accepts(abs, len, syn, fin) ==
    /\ syn # receiver.syn /\ ReceiverOK(receiver', isn)
    /\ \E index : /\ TakesIn(receiver, abs, index, len, fin, receiver')
                  /\ len > 0 => index = IF syn THEN 0 ELSE abs - 1

(* What the guard of Arrive says of a segment that is not dropped.         *)
LEMMA SegmentNear ==
    ASSUME IInv, NEW abs \in Nat, NEW len \in Nat,
           NEW syn \in BOOLEAN, NEW fin \in BOOLEAN,
           Sendable(abs, len, syn, fin),
           syn \/ abs + Lifetime >= receiver.exp_ack
    PROVE  /\ SegmentAt(PeerSegment(abs, len, syn, fin), isn, abs, len, syn, fin)
           /\ ~syn => abs <= Output.total_written + Capacity + 1
           /\ receiver.syn /\ ~syn =>
                  /\ Output.total_written < abs + Lifetime
                  /\ abs < receiver.checkpoint + Half
                  /\ receiver.checkpoint < abs + Half
           /\ fin => (IF syn THEN 0 ELSE abs - 1) + len <= RightEdge(reassembler)
<1> DEFINE index == IF syn THEN 0 ELSE abs - 1
<1>1. /\ Capacity \in Nat \ {0} /\ StreamLength \in Nat \ {0} /\ Lifetime \in Nat
      /\ Half \in Nat /\ Lifetime + 2 * Capacity + 2 <= Half
      /\ Word \in Nat /\ StreamLength + Capacity < Word
  BY ReceivingAssumption, WordAssumption, HalfOfModulus
<1>2. /\ syn => abs = 0
      /\ len > 0 => index >= 0 /\ index + len <= StreamLength
      /\ index + len + (IF fin THEN 1 ELSE 0)
            <= RightEdge(reassembler) + (IF WindowSize(receiver) = 0 THEN 1 ELSE 0)
  BY DEF Sendable
<1>3. /\ Output.total_written \in Nat /\ RightEdge(reassembler) \in Nat
      /\ WindowSize(receiver) = RightEdge(reassembler) - Output.total_written
      /\ WindowSize(receiver) \in 0..Capacity
  BY <1>1, Quantities
<1>4. SegmentAt(PeerSegment(abs, len, syn, fin), isn, abs, len, syn, fin)
  <2> DEFINE seg == PeerSegment(abs, len, syn, fin)
  <2>1. /\ seg.seqno = Wrap(abs, isn) /\ seg.payload = Substring(index, len)
        /\ seg.syn = syn /\ seg.fin = fin
    BY DEF PeerSegment, EmptySegment
  <2>2. len > 0 => (syn \/ abs > 0) /\ abs + len <= Word
    BY <1>1, <1>2
  <2> HIDE DEF seg
  <2> QED
    BY <1>2, <2>1, <2>2 DEF SegmentAt, seg
<1>5. ~syn => abs <= Output.total_written + Capacity + 1
  BY <1>1, <1>2, <1>3
<1>6. ASSUME receiver.syn, ~syn
      PROVE  /\ Output.total_written < abs + Lifetime
             /\ abs < receiver.checkpoint + Half
             /\ receiver.checkpoint < abs + Half
  <2>1. receiver.exp_ack \in Nat /\ receiver.exp_ack > Output.total_written
    BY <1>6, Quantities
  <2>2. /\ receiver.checkpoint \in Nat
        /\ Output.total_written <= receiver.checkpoint + Lifetime + Capacity
        /\ receiver.checkpoint <= Output.total_written + Capacity + 1
    BY <1>6 DEF IInv, ReceiverOK
  <2>3. abs + Lifetime >= receiver.exp_ack
    BY <1>6
  <2> QED
    BY <1>1, <1>3, <1>5, <1>6, <2>1, <2>2, <2>3
<1>7. fin => index + len <= RightEdge(reassembler)
  BY <1>2, <1>3
<1> QED
  BY <1>4, <1>5, <1>6, <1>7

(* What an arrival does to an invariant state.                             *)
LEMMA ArriveStep ==
    ASSUME IInv, NEW abs \in 0..(StreamLength + 2), NEW len \in 0..Capacity,
           NEW syn \in BOOLEAN, NEW fin \in BOOLEAN, Arrive(abs, len, syn, fin)
    PROVE  receiver' = receiver \/ Accepts(abs, len, syn, fin)
<1>1. /\ abs \in Nat /\ len \in Nat /\ isn \in 0..(Modulus - 1)
      /\ ReceiverOK(receiver, isn) /\ receiver.syn \in BOOLEAN
  BY ReceivingAssumption DEF IInv, ReceiverOK
<1>2. receiver' = SegmentReceived(receiver, PeerSegment(abs, len, syn, fin))
  BY DEF Arrive
<1>3. Sendable(abs, len, syn, fin) /\ (syn \/ abs + Lifetime >= receiver.exp_ack)
  BY DEF Arrive
<1>4. /\ SegmentAt(PeerSegment(abs, len, syn, fin), isn, abs, len, syn, fin)
      /\ receiver.syn /\ ~syn => /\ abs < receiver.checkpoint + Half
                                 /\ receiver.checkpoint < abs + Half
  BY <1>1, <1>3, SegmentNear
<1>5. CASE receiver.syn /\ syn
  BY <1>2, <1>4, <1>5 DEF SegmentReceived, SegmentAt
<1>6. CASE ~(receiver.syn /\ syn)
  <2>1. receiver.syn => /\ abs < receiver.checkpoint + Half
                        /\ receiver.checkpoint < abs + Half
    BY <1>4, <1>6
  <2>2. PICK seg : /\ SegmentAt(seg, isn, abs, len, syn, fin)
                   /\ receiver' = SegmentReceived(receiver, seg)
    BY <1>2, <1>4
  <2>3. \/ syn = receiver.syn /\ receiver' = receiver
        \/ /\ syn # receiver.syn /\ ReceiverOK(receiver', isn)
           /\ \E index : /\ TakesIn(receiver, abs, index, len, fin, receiver')
                         /\ len > 0 => index = IF syn THEN 0 ELSE abs - 1
    BY <1>1, <2>1, <2>2, SegmentReceivedCorrect
  <2> QED
    BY <2>3, Zenon DEF Accepts
<1> QED
  BY <1>5, <1>6

(* An accepted segment in terms of what the receiver has.                  *)
LEMMA AcceptsMeaning ==
    ASSUME IInv, NEW abs \in Nat, NEW len \in Nat,
           NEW syn \in BOOLEAN, NEW fin \in BOOLEAN, Accepts(abs, len, syn, fin)
    PROVE  /\ \A p \in Nat : p \in Received(reassembler)' <=>
                  \/ p \in Received(reassembler)
                  \/ LET index == IF syn THEN 0 ELSE abs - 1
                     IN  len > 0 /\ index <= p /\ p < index + len
                             /\ p < RightEdge(reassembler)
           /\ Received(reassembler)' \subseteq Nat
           /\ Output'.total_read = Output.total_read
           /\ Output.total_written <= Output'.total_written
           /\ RightEdge(reassembler)' = RightEdge(reassembler)
           /\ Output'.total_written <= RightEdge(reassembler)
           /\ receiver'.capacity = Capacity /\ receiver'.checkpoint = abs
           /\ receiver'.syn = TRUE /\ receiver'.end = (receiver.end \/ fin)
<1> DEFINE place == IF syn THEN 0 ELSE abs - 1
<1>1. PICK index : /\ TakesIn(receiver, abs, index, len, fin, receiver')
                   /\ len > 0 => index = place
  BY DEF Accepts
<1>2. /\ index \in Nat /\ Pushed(reassembler, index, len, reassembler')
      /\ receiver'.capacity = receiver.capacity /\ receiver'.checkpoint = abs
      /\ receiver'.syn = TRUE /\ receiver'.end = (receiver.end \/ fin)
  BY <1>1 DEF TakesIn, reassembler
<1>3. /\ Ready(reassembler) /\ Ready(reassembler') /\ receiver.capacity = Capacity
  BY <1>2 DEF IInv, ReceiverOK, reassembler, Pushed
<1>4. /\ \A p \in Nat : p \in Received(reassembler') <=>
             \/ p \in Received(reassembler)
             \/ index <= p /\ p < index + len /\ p < RightEdge(reassembler)
      /\ Output'.total_read = Output.total_read /\ Output'.cap = Output.cap
  BY <1>2 DEF Pushed, Output
<1>5. /\ Received(reassembler) \subseteq Nat /\ Received(reassembler') \subseteq Nat
  BY <1>3, NextMissing
<1>6. \A p \in Nat : p \in Received(reassembler') <=>
          \/ p \in Received(reassembler)
          \/ len > 0 /\ place <= p /\ p < place + len /\ p < RightEdge(reassembler)
  <2>1. CASE len = 0
    BY <1>2, <1>4, <2>1
  <2>2. CASE len > 0
    BY <1>1, <1>4, <2>2
  <2> QED
    BY <2>1, <2>2
<1>7. Received(reassembler) \subseteq Received(reassembler')
  BY <1>5, <1>6
<1>8. Output.total_written <= Output'.total_written
  BY <1>3, <1>7, SameNextMissing DEF Output
<1>9. RightEdge(reassembler') = RightEdge(reassembler)
  BY <1>4 DEF RightEdge, Output
<1>10. Output'.total_written <= RightEdge(reassembler)
  BY <1>3, <1>9 DEF Ready, OutputInPlace, Output
<1> QED
  BY <1>2, <1>3, <1>4, <1>5, <1>6, <1>8, <1>9, <1>10

(* What a read does to an invariant state.                                 *)
LEMMA ReadStep ==
    ASSUME IInv, NEW len \in 1..Capacity, Read(len)
    PROVE  ReceiverOK(receiver', isn) /\ \E n \in 0..len : ReaderTook(receiver, n, receiver')
<1>1. len \in Nat /\ ReceiverOK(receiver, isn)
  BY ReceivingAssumption DEF IInv
<1>2. receiver' = [receiver EXCEPT !.reassembler = ReadOutput(@, len)]
  BY DEF Read
<1>3. /\ ReceiverOK(receiver', isn)
      /\ \E n \in Nat : n <= len /\ ReaderTook(receiver, n, receiver')
  BY <1>1, <1>2, ReceiverRead, Zenon
<1> QED
  BY <1>1, <1>3

(* The invariant is inductive.                                             *)
LEMMA NextIInv == IInv /\ [Next]_vars => IInv'
<1> SUFFICES ASSUME IInv, [Next]_vars PROVE IInv'
  OBVIOUS
<1>1. ASSUME NEW abs \in 0..(StreamLength + 2), NEW len \in 0..Capacity,
             NEW syn \in BOOLEAN, NEW fin \in BOOLEAN, Arrive(abs, len, syn, fin)
      PROVE  IInv'
  <2>1. UNCHANGED <<isn, fin_alone>> /\ Sendable(abs, len, syn, fin)
        /\ (syn \/ abs + Lifetime >= receiver.exp_ack)
    BY <1>1 DEF Arrive
  <2>2. CASE receiver' = receiver
    BY <2>1, <2>2 DEF IInv, Output, reassembler
  <2>3. CASE Accepts(abs, len, syn, fin)
    <3>1. /\ Capacity \in Nat /\ StreamLength \in Nat /\ Lifetime \in Nat
          /\ abs \in Nat /\ len \in Nat /\ receiver.syn \in BOOLEAN
          /\ Received(reassembler) \subseteq 0..(StreamLength - 1)
      BY ReceivingAssumption DEF IInv, ReceiverOK
    <3>2. /\ ReceiverOK(receiver, isn)' /\ syn # receiver.syn
      BY <2>1, <2>3 DEF Accepts
    <3>3. Received(reassembler)' \subseteq 0..(StreamLength - 1)
      <4>1. \A p \in Nat : p \in Received(reassembler)' =>
                \/ p \in Received(reassembler)
                \/ len > 0 /\ p < (IF syn THEN 0 ELSE abs - 1) + len
        BY <2>3, <3>1, AcceptsMeaning
      <4>2. Received(reassembler)' \subseteq Nat
        BY <2>3, <3>1, AcceptsMeaning
      <4>3. len > 0 => (IF syn THEN 0 ELSE abs - 1) + len <= StreamLength
        BY <2>1 DEF Sendable
      <4> QED
        BY <3>1, <4>1, <4>2, <4>3
    <3>4. /\ Output'.total_written <= abs + Lifetime + Capacity
          /\ abs <= Output'.total_written + Capacity + 1
      <4>1. /\ Output.total_written <= Output'.total_written
            /\ Output'.total_written <= RightEdge(reassembler)
        BY <2>3, <3>1, AcceptsMeaning
      <4>2. /\ Output.total_written \in Nat /\ Output.total_read \in Nat
            /\ Output.total_read <= Output.total_written
            /\ RightEdge(reassembler) = Output.total_read + Capacity
            /\ ~receiver.syn => Output.total_written = 0
        BY Quantities
      <4>3. Output'.total_written \in Nat
        BY <3>2, NextMissing DEF ReceiverOK, Output, reassembler
      <4>4. CASE syn
        <5>1. abs = 0 /\ Output.total_written = 0
          BY <2>1, <3>1, <3>2, <4>2, <4>4 DEF Sendable
        <5> QED
          BY <3>1, <4>1, <4>2, <4>3, <5>1
      <4>5. CASE ~syn
        <5>1. /\ abs <= Output.total_written + Capacity + 1
              /\ Output.total_written < abs + Lifetime
          BY <2>1, <3>1, <3>2, <4>5, SegmentNear
        <5> QED
          BY <3>1, <4>1, <4>2, <4>3, <5>1
      <4> QED
        BY <4>4, <4>5
    <3>5. /\ receiver'.capacity = Capacity /\ receiver'.checkpoint = abs
      BY <2>3, <3>1, AcceptsMeaning
    <3>6. abs <= StreamLength + 2
      BY <3>1
    <3> QED
      BY <2>1, <3>2, <3>3, <3>4, <3>5, <3>6 DEF IInv
  <2> QED
    BY <1>1, <2>2, <2>3, ArriveStep
<1>2. ASSUME NEW len \in 1..Capacity, Read(len)
      PROVE  IInv'
  <2>1. UNCHANGED <<isn, fin_alone>>
    BY <1>2 DEF Read
  <2>2. PICK n \in 0..len : ReaderTook(receiver, n, receiver')
    BY <1>2, ReadStep
  <2>3. ReceiverOK(receiver, isn)'
    BY <1>2, <2>1, ReadStep
  <2>4. /\ Received(reassembler)' = Received(reassembler)
        /\ Output'.total_written = Output.total_written
        /\ receiver'.capacity = receiver.capacity
        /\ receiver'.checkpoint = receiver.checkpoint
        /\ receiver'.syn = receiver.syn
    BY <2>2 DEF ReaderTook, HasRead, Output, reassembler
  <2> QED
    BY <2>1, <2>3, <2>4 DEF IInv
<1>3. CASE UNCHANGED vars
  BY <1>3 DEF IInv, vars, Output, reassembler
<1> QED
  BY <1>1, <1>2, <1>3 DEF Next

(* Whatever arrives, in any order and any number of times, the invariant   *)
(* holds between two calls of the receiver.                                *)
THEOREM Invariant == Spec => []IInv
<1>1. Init => IInv
  BY InitIInv
<1> QED
  BY <1>1, NextIInv, PTL DEF Spec

-----------------------------------------------------------------------------
(* What holds whether or not a FIN overtakes the data.                     *)

(* Every state satisfies the type invariant: acknowledgment, checkpoint    *)
(* and window keep their ranges.                                           *)
THEOREM TypeCorrect == Spec => []TypeOK
<1>1. ASSUME IInv PROVE TypeOK
  <2>1. /\ ReassemblerType(reassembler) /\ receiver.checkpoint \in Nat
        /\ StreamLength \in Nat /\ isn \in 0..(Modulus - 1) /\ receiver.syn \in BOOLEAN
    BY <1>1, ReceivingAssumption DEF IInv, ReceiverOK, Ready, reassembler
  <2>2. receiver.checkpoint \in 0..(StreamLength + 2)
    BY <1>1, <2>1 DEF IInv
  <2>3. WindowSize(receiver) \in 0..Capacity
    BY <1>1, Quantities
  <2>4. receiver.exp_ack \in 0..(StreamLength + 2)
    BY <1>1, <2>1, Quantities
  <2>5. /\ receiver.syn => receiver.isn = isn /\ receiver.ack = Wrap(receiver.exp_ack, isn)
        /\ ~receiver.syn => receiver.isn = 0 /\ receiver.ack = 0
    BY <1>1 DEF IInv, ReceiverOK
  <2>6. 0 \in 0..(Modulus - 1)
    BY <2>1, HalfOfModulus
  <2>7. Wrap(receiver.exp_ack, isn) \in 0..(Modulus - 1)
    <3>1. receiver.exp_ack \in Nat /\ isn \in 0..(Modulus - 1)
      BY <2>1, <2>4
    <3> QED
      BY <3>1, WrapRange, Zenon
  <2>8. receiver.ack \in 0..(Modulus - 1) /\ receiver.isn \in 0..(Modulus - 1)
    BY <2>1, <2>5, <2>6, <2>7
  <2> QED
    BY <2>1, <2>2, <2>3, <2>4, <2>8 DEF TypeOK
<1> QED
  BY <1>1, Invariant, PTL

(* unwrap puts the payload of every segment at its own place of the        *)
(* stream, however often the sequence numbers have wrapped.                *)
THEOREM BytesStayInPlace == Spec => []InPlace
<1>1. ASSUME IInv PROVE InPlace
  <2>1. /\ OutputInPlace(reassembler)
        /\ Stored(reassembler, reassembler.expected_index + 1)
    BY <1>1 DEF IInv, ReceiverOK, Ready, reassembler
  <2> QED
    BY <2>1 DEF InPlace, BytesInPlace, OutputInPlace, Stored
<1> QED
  BY <1>1, Invariant, PTL

(* The receiver implements OrderedDelivery: of a segment that is not       *)
(* dropped it keeps exactly the bytes inside the window.                   *)
THEOREM ImplementsDelivery == Spec => RefinesDelivery
<1> DEFINE have == Received(reassembler)
           read == Output.total_read
<1>1. Init => Delivery!Init
  <2> SUFFICES ASSUME Init PROVE Delivery!Init
    OBVIOUS
  <2>1. Capacity \in Nat
    BY ReceivingAssumption
  <2>2. reassembler = NewReassembler(Capacity)
    BY <2>1, NewReceiverOK DEF Init, reassembler
  <2>3. have = {} /\ read = 0
    BY <2>1, <2>2, NewReassemblerReady DEF Output
  <2> QED
    BY <2>3 DEF Delivery!Init
<1>2. IInv /\ [Next]_vars => [Delivery!Next]_<<have, read>>
  <2> SUFFICES ASSUME IInv, [Next]_vars PROVE [Delivery!Next]_<<have, read>>
    OBVIOUS
  <2>1. /\ Capacity \in Nat /\ StreamLength \in Nat /\ read \in Nat
        /\ RightEdge(reassembler) = read + Capacity
        /\ have \subseteq 0..(StreamLength - 1)
    BY ReceivingAssumption, Quantities DEF IInv
  <2>2. ASSUME NEW abs \in 0..(StreamLength + 2), NEW len \in 0..Capacity,
               NEW syn \in BOOLEAN, NEW fin \in BOOLEAN, Arrive(abs, len, syn, fin)
        PROVE  [Delivery!Next]_<<have, read>>
    <3>1. CASE receiver' = receiver
      BY <3>1 DEF reassembler, Output
    <3>2. CASE Accepts(abs, len, syn, fin)
      <4>1. PICK place \in Int : place = IF syn THEN 0 ELSE abs - 1
        BY <2>1
      <4>2. abs \in Nat /\ len \in Nat
        BY <2>1
      <4>3. /\ \A p \in Nat : p \in have' <=>
                    \/ p \in have
                    \/ len > 0 /\ place <= p /\ p < place + len /\ p < read + Capacity
            /\ have' \subseteq Nat /\ read' = read
        BY <2>1, <3>2, <4>1, <4>2, AcceptsMeaning DEF reassembler, Output
      <4>4. len > 0 => place >= 0 /\ place + len <= StreamLength
        BY <2>2, <4>1 DEF Arrive, Sendable
      <4>5. \A p : p \in Delivery!Window <=> p \in 0..(StreamLength - 1) /\ p < read + Capacity
        BY DEF Delivery!Window
      <4> HIDE DEF have, read
      <4>6. CASE len = 0
        <5>1. have' = have
          <6>1. \A p \in Nat : p \in have' <=> p \in have
            BY <4>3, <4>6
          <6>2. have \subseteq Nat
            BY <2>1
          <6> QED
            BY <4>3, <6>1, <6>2, Zenon
        <5> QED
          BY <4>3, <5>1
      <4>7. CASE len > 0
        <5>1. \A p : p \in have' <=>
                  p \in have \/ (p \in Delivery!Window /\ place <= p /\ p < place + len)
          <6>1. \A p \in Nat : p \in have' <=>
                    p \in have \/ (p \in Delivery!Window /\ place <= p /\ p < place + len)
            BY <2>1, <4>2, <4>3, <4>4, <4>5, <4>7
          <6>2. \A p : p \in have \/ p \in Delivery!Window => p \in Nat
            <7>1. 0..(StreamLength - 1) \subseteq Nat
              BY <2>1
            <7> QED
              BY <2>1, <4>5, <7>1, Zenon
          <6> QED
            BY <4>3, <6>1, <6>2, Zenon
        <5>2. have' = have \cup {p \in Delivery!Window : place <= p /\ p < place + len}
          BY <5>1, Zenon
        <5>3. Delivery!Arrive(place, len)
          BY <4>3, <5>2 DEF Delivery!Arrive, have, read
        <5>4. place \in 0..StreamLength /\ len \in 0..StreamLength
          BY <2>1, <4>2, <4>4, <4>7
        <5> QED
          BY <5>3, <5>4 DEF Delivery!Next
      <4> QED
        BY <4>2, <4>6, <4>7
    <3> QED
      BY <2>2, <3>1, <3>2, ArriveStep
  <2>3. ASSUME NEW len \in 1..Capacity, Read(len)
        PROVE  [Delivery!Next]_<<have, read>>
    <3>1. PICK n \in 0..len : ReaderTook(receiver, n, receiver')
      BY <2>3, ReadStep
    <3>2. /\ have' = have /\ read' = read + n /\ read + n <= Output.total_written
      BY <3>1 DEF ReaderTook, HasRead, reassembler, Output
    <3>3. CASE n = 0
      BY <2>1, <3>2, <3>3
    <3>4. CASE n # 0
      <4>1. n \in 1..Capacity
        BY <2>1, <3>4
      <4>2. /\ Output.total_written \in Nat
            /\ \A p \in Nat : p < Output.total_written => p \in have
        BY NextMissing DEF IInv, ReceiverOK, reassembler, Output
      <4>3. 0..(read + n - 1) \subseteq have
        BY <2>1, <3>2, <4>1, <4>2
      <4>4. Delivery!Consume(n)
        BY <3>2, <4>3 DEF Delivery!Consume
      <4> QED
        BY <4>1, <4>4 DEF Delivery!Next
    <3> QED
      BY <3>3, <3>4
  <2>4. CASE UNCHANGED vars
    BY <2>4 DEF vars, reassembler, Output
  <2> QED
    BY <2>2, <2>3, <2>4 DEF Next
<1> QED
  BY <1>1, <1>2, Invariant, PTL DEF Spec, RefinesDelivery, Delivery!Spec

-----------------------------------------------------------------------------
(* What holds when a FIN without payload waits for the data before it.     *)

(* The extension is inductive, and no step moves an edge back.             *)
LEMMA NextEndInv ==
    ASSUME ~FinOvertakes
    PROVE  IInv /\ EndInv /\ [Next]_vars =>
               /\ EndInv'
               /\ Output.total_written <= Output'.total_written
               /\ Output.input_ended => Output'.input_ended
               /\ RightEdge(reassembler) <= RightEdge(reassembler)'
<1> SUFFICES ASSUME IInv, EndInv, [Next]_vars
             PROVE  /\ EndInv'
                    /\ Output.total_written <= Output'.total_written
                    /\ Output.input_ended => Output'.input_ended
                    /\ RightEdge(reassembler) <= RightEdge(reassembler)'
  OBVIOUS
<1>1. /\ Capacity \in Nat /\ StreamLength \in Nat \ {0} /\ fin_alone \in BOOLEAN
      /\ Output.total_written \in Nat /\ RightEdge(reassembler) \in Nat
      /\ ReceiverOK(receiver, isn) /\ Ending(receiver, StreamLength)
  BY ReceivingAssumption, Quantities DEF IInv, EndInv
<1>2. CASE receiver' = receiver /\ UNCHANGED fin_alone
  BY <1>1, <1>2 DEF EndInv, Output, reassembler
<1>3. ASSUME NEW abs \in 0..(StreamLength + 2), NEW len \in 0..Capacity,
             NEW syn \in BOOLEAN, NEW fin \in BOOLEAN, Arrive(abs, len, syn, fin),
             Accepts(abs, len, syn, fin)
      PROVE  /\ EndInv'
             /\ Output.total_written <= Output'.total_written
             /\ Output.input_ended => Output'.input_ended
             /\ RightEdge(reassembler) <= RightEdge(reassembler)'
  <2>1. /\ abs \in Nat /\ len \in Nat /\ UNCHANGED fin_alone
        /\ Sendable(abs, len, syn, fin) /\ (syn \/ abs + Lifetime >= receiver.exp_ack)
    BY <1>1, <1>3 DEF Arrive
  <2>2. PICK place \in Int : place = IF syn THEN 0 ELSE abs - 1
    BY <2>1
  <2>3. /\ len > 0 => place + len <= StreamLength
        /\ fin => place + len = StreamLength /\ (len = 0 <=> fin_alone)
        /\ ~fin_alone /\ len > 0 /\ place + len = StreamLength => fin
        /\ fin_alone /\ fin => Output.total_written = StreamLength
    BY <2>1, <2>2 DEF Sendable
  <2>4. fin => place + len <= RightEdge(reassembler)
    BY <2>1, <2>2, SegmentNear
  <2>5. PICK index : /\ TakesIn(receiver, abs, index, len, fin, receiver')
                     /\ len > 0 => index = place
    BY <1>3, <2>2 DEF Accepts
  <2>6. FinInPlace(receiver, index, len, fin, StreamLength)
    <3>1. ~fin_alone /\ StreamLength - 1 \in Received(reassembler) => receiver.end
      BY DEF EndInv
    <3>2. len = 0 \/ len > 0
      BY <2>1
    <3> QED
      BY <1>1, <2>3, <2>4, <2>5, <3>1, <3>2 DEF FinInPlace, reassembler, Output
  <2>7. ReceiverOK(receiver', isn)
    BY <1>3 DEF Accepts
  <2>8. /\ Ending(receiver', StreamLength)
        /\ Output.total_written <= Output'.total_written
        /\ Output.input_ended => Output'.input_ended
    <3>1. Continues(receiver, StreamLength, receiver')
      BY <1>1, <2>1, <2>5, <2>6, <2>7, EndingKept
    <3> QED
      BY <3>1 DEF Continues, reassembler, Output
  <2>9. /\ RightEdge(reassembler)' = RightEdge(reassembler)
        /\ receiver'.end = (receiver.end \/ fin)
        /\ \A p \in Nat : p \in Received(reassembler)' =>
               \/ p \in Received(reassembler)
               \/ len > 0 /\ p < place + len
    BY <1>3, <2>1, <2>2, AcceptsMeaning
  <2>10. ASSUME ~fin_alone, StreamLength - 1 \in Received(reassembler)'
         PROVE  receiver'.end
    <3>1. CASE StreamLength - 1 \in Received(reassembler)
      BY <2>9, <2>10, <3>1 DEF EndInv
    <3>2. CASE len > 0 /\ StreamLength - 1 < place + len
      <4>1. place + len = StreamLength
        BY <1>1, <2>1, <2>3, <3>2
      <4> QED
        BY <2>3, <2>9, <2>10, <3>2, <4>1
    <3> QED
      BY <1>1, <2>9, <2>10, <3>1, <3>2
  <2> QED
    BY <1>1, <2>1, <2>8, <2>9, <2>10 DEF EndInv
<1>4. ASSUME NEW len \in 1..Capacity, Read(len)
      PROVE  /\ EndInv'
             /\ Output.total_written <= Output'.total_written
             /\ Output.input_ended => Output'.input_ended
             /\ RightEdge(reassembler) <= RightEdge(reassembler)'
  <2>1. PICK n \in 0..len : ReaderTook(receiver, n, receiver')
    BY <1>4, ReadStep
  <2>2. Ending(receiver', StreamLength)
    BY <1>1, <2>1, EndingRead
  <2>3. /\ Received(reassembler)' = Received(reassembler) /\ receiver'.end = receiver.end
        /\ Output'.total_written = Output.total_written
        /\ Output'.input_ended = Output.input_ended
        /\ Output'.total_read = Output.total_read + n /\ Output'.cap = Output.cap
    BY <2>1 DEF ReaderTook, HasRead, Output, reassembler
  <2>4. RightEdge(reassembler)' = RightEdge(reassembler) + n
    <3>1. Output.total_read \in Nat /\ RightEdge(reassembler) = Output.total_read + Capacity
          /\ Output.cap = Capacity
      BY Quantities DEF IInv, ReceiverOK, Output, reassembler
    <3> QED
      BY <1>1, <2>3, <3>1 DEF RightEdge, Output
  <2>5. UNCHANGED fin_alone /\ n \in Nat
    BY <1>1, <1>4 DEF Read
  <2> QED
    BY <1>1, <2>2, <2>3, <2>4, <2>5 DEF EndInv
<1> QED
  BY <1>2, <1>3, <1>4, ArriveStep DEF Next, Arrive, vars

(* Both invariants hold in every state.                                    *)
THEOREM EndInvariant ==
    ASSUME ~FinOvertakes
    PROVE  Spec => [](IInv /\ EndInv)
<1>1. Init => IInv /\ EndInv
  BY InitIInv
<1>2. IInv /\ EndInv /\ [Next]_vars => IInv' /\ EndInv'
  BY NextIInv, NextEndInv
<1> QED
  BY <1>1, <1>2, PTL DEF Spec

(* The acknowledgment in terms of the stream handed on.                    *)
LEMMA AckOfStream ==
    ASSUME IInv, EndInv
    PROVE  /\ receiver.syn => receiver.exp_ack = Output.total_written + 1
                                  + (IF Output.input_ended THEN 1 ELSE 0)
           /\ Output.input_ended => Output.total_written = StreamLength /\ receiver.syn
<1>1. ReceiverOK(receiver, isn) /\ Ending(receiver, StreamLength)
  BY DEF IInv, EndInv
<1>2. /\ Output.input_ended => Output.total_written = StreamLength /\ receiver.end
      /\ receiver.syn => receiver.exp_ack = Output.total_written + 1
                             + (IF Output.input_ended THEN 1 ELSE 0)
  BY <1>1, EndingMeaning, Zenon DEF Output, reassembler
<1>3. receiver.end => receiver.syn
  BY <1>1 DEF ReceiverOK
<1> QED
  BY <1>2, <1>3

(* ackno() is the number of the first byte that is missing, whatever order *)
(* the segments arrived in, and counts the FIN once none is.               *)
THEOREM AckIsExact ==
    ASSUME ~FinOvertakes
    PROVE  Spec => []AckExact
<1>1. ASSUME IInv, EndInv PROVE AckExact
  <2>1. /\ StreamLength \in Nat /\ Output.total_written \in 0..StreamLength
        /\ Ready(reassembler)
    BY <1>1, ReceivingAssumption, Quantities DEF IInv, ReceiverOK, reassembler
  <2>2. FirstMissing = Output.total_written
    <3> DEFINE S == (0..StreamLength) \ Received(reassembler)
    <3>1. /\ Output.total_written \in S
          /\ \A p \in S : Output.total_written <= p
      <4>1. /\ Output.total_written \notin Received(reassembler)
            /\ \A p \in Nat : p < Output.total_written => p \in Received(reassembler)
        BY <2>1, NextMissing DEF Output
      <4> QED
        BY <2>1, <4>1
    <3>2. S \subseteq Nat
      BY <2>1
    <3>3. Min(S) \in S /\ \A y \in S : Min(S) <= y
      BY <3>1, <3>2, MinOfNat
    <3>4. Min(S) \in Nat
      BY <3>2, <3>3
    <3>5. Min(S) = Output.total_written
      BY <2>1, <3>1, <3>3, <3>4
    <3> QED
      BY <3>5 DEF FirstMissing
  <2>3. receiver.syn => receiver.ack = Wrap(receiver.exp_ack, isn)
    BY <1>1 DEF IInv, ReceiverOK
  <2>4. CASE receiver.syn /\ Output.input_ended
    <3>1. Output.total_written = StreamLength
      BY <1>1, <2>4, AckOfStream
    <3>2. receiver.exp_ack = StreamLength + 2
      BY <1>1, <2>1, <2>4, <3>1, AckOfStream
    <3> QED
      BY <2>2, <2>3, <2>4, <3>1, <3>2 DEF AckExact
  <2>5. CASE receiver.syn /\ ~Output.input_ended
    <3>1. receiver.exp_ack = FirstMissing + 1
      BY <1>1, <2>1, <2>2, <2>5, AckOfStream
    <3> QED
      BY <2>3, <2>5, <3>1 DEF AckExact
  <2> QED
    BY <2>4, <2>5 DEF AckExact
<1> QED
  BY <1>1, EndInvariant, PTL

(* The application sees the end of the stream exactly when the FIN has     *)
(* been acknowledged, and then it has, or can read, the whole stream.      *)
THEOREM EndIsExact ==
    ASSUME ~FinOvertakes
    PROVE  Spec => []EndExact
<1>1. ASSUME IInv, EndInv PROVE EndExact
  <2>1. /\ StreamLength \in Nat /\ Output.total_written \in 0..StreamLength
        /\ ~receiver.syn => receiver.exp_ack = 0
    BY <1>1, ReceivingAssumption, Quantities
  <2>2. CASE Output.input_ended
    <3>1. Output.total_written = StreamLength /\ receiver.syn
      BY <1>1, <2>2, AckOfStream
    <3>2. receiver.exp_ack = StreamLength + 2
      BY <1>1, <2>1, <2>2, <3>1, AckOfStream
    <3> QED
      BY <2>2, <3>1, <3>2 DEF EndExact
  <2>3. CASE ~Output.input_ended
    <3>1. receiver.exp_ack # StreamLength + 2
      BY <1>1, <2>1, <2>3, AckOfStream
    <3> QED
      BY <2>3, <3>1 DEF EndExact
  <2> QED
    BY <2>2, <2>3
<1> QED
  BY <1>1, EndInvariant, PTL

(* The edges of the window in terms of the stream handed on.               *)
EdgesOfStream ==
    /\ Output.total_written \in Nat /\ RightEdge(reassembler) \in Nat
    /\ WindowSize(receiver) = RightEdge(reassembler) - Output.total_written
    /\ ~receiver.syn => Output.total_written = 0
    /\ receiver.exp_ack =
           IF ~receiver.syn THEN 0
           ELSE Output.total_written + 1 + (IF Output.input_ended THEN 1 ELSE 0)

(* No arrival and no read moves the acknowledgment or the right edge of    *)
(* the window back.                                                        *)
THEOREM EdgesOnlyAdvance ==
    ASSUME ~FinOvertakes
    PROVE  Spec => EdgesAdvance
<1>1. IInv /\ EndInv => EdgesOfStream
  <2> SUFFICES ASSUME IInv, EndInv PROVE EdgesOfStream
    OBVIOUS
  <2>1. /\ Output.total_written \in Nat /\ RightEdge(reassembler) \in Nat
        /\ WindowSize(receiver) = RightEdge(reassembler) - Output.total_written
        /\ ~receiver.syn => receiver.exp_ack = 0 /\ Output.total_written = 0
    BY ReceivingAssumption, Quantities
  <2> QED
    BY <2>1, AckOfStream DEF EdgesOfStream
<1>2. IInv /\ [Next]_vars => (receiver.syn => receiver'.syn)
  <2> SUFFICES ASSUME IInv, [Next]_vars, receiver.syn PROVE receiver'.syn
    OBVIOUS
  <2>1. ASSUME NEW abs \in 0..(StreamLength + 2), NEW len \in 0..Capacity,
               NEW syn \in BOOLEAN, NEW fin \in BOOLEAN, Accepts(abs, len, syn, fin)
        PROVE  receiver'.syn
    BY <2>1 DEF Accepts, TakesIn
  <2>2. ASSUME NEW len \in 1..Capacity, Read(len)
        PROVE  receiver'.syn
    BY <2>2, ReadStep DEF ReaderTook
  <2> QED
    BY <2>1, <2>2, ArriveStep DEF Next, vars
<1>3. (IInv /\ EndInv => EdgesOfStream)'
  BY <1>1, PTL
<1>4. ASSUME IInv, EndInv, [Next]_vars
      PROVE  /\ receiver'.exp_ack >= receiver.exp_ack
             /\ receiver'.exp_ack + WindowSize(receiver')
                    >= receiver.exp_ack + WindowSize(receiver)
  <2>1. EdgesOfStream /\ EdgesOfStream'
    BY <1>1, <1>3, <1>4, NextIInv, NextEndInv
  <2>2. /\ Output.total_written <= Output'.total_written
        /\ Output.input_ended => Output'.input_ended
        /\ RightEdge(reassembler) <= RightEdge(reassembler)'
        /\ receiver.syn => receiver'.syn
    BY <1>2, <1>4, NextEndInv
  <2>3. /\ Output'.total_written \in Nat /\ RightEdge(reassembler)' \in Nat
        /\ WindowSize(receiver') = RightEdge(reassembler)' - Output'.total_written
        /\ ~receiver'.syn => Output'.total_written = 0
        /\ receiver'.exp_ack =
               IF ~receiver'.syn THEN 0
               ELSE Output'.total_written + 1 + (IF Output'.input_ended THEN 1 ELSE 0)
    BY <2>1 DEF EdgesOfStream
  <2>4. PICK e \in {0, 1}, f \in {0, 1} :
            /\ e = IF Output.input_ended THEN 1 ELSE 0
            /\ f = IF Output'.input_ended THEN 1 ELSE 0
            /\ e <= f
    BY <2>2
  <2>5. /\ receiver.syn => receiver.exp_ack = Output.total_written + 1 + e
        /\ ~receiver.syn => receiver.exp_ack = 0
        /\ receiver'.syn => receiver'.exp_ack = Output'.total_written + 1 + f
        /\ ~receiver'.syn => receiver'.exp_ack = 0
    BY <2>1, <2>3, <2>4, Zenon DEF EdgesOfStream
  <2>6. CASE receiver'.syn
    <3>1. receiver'.exp_ack = Output'.total_written + 1 + f
      BY <2>5, <2>6
    <3>2. \/ receiver.exp_ack = Output.total_written + 1 + e
          \/ receiver.exp_ack = 0
      BY <2>5
    <3> QED
      BY <2>1, <2>2, <2>3, <2>4, <3>1, <3>2 DEF EdgesOfStream
  <2>7. CASE ~receiver'.syn
    <3>1. receiver'.exp_ack = 0 /\ receiver.exp_ack = 0
      BY <2>2, <2>5, <2>7
    <3>2. Output'.total_written = Output.total_written
      BY <2>1, <2>2, <2>3, <2>7 DEF EdgesOfStream
    <3> QED
      BY <2>1, <2>2, <2>3, <3>1, <3>2 DEF EdgesOfStream
  <2> QED
    BY <2>6, <2>7
<1>5. IInv /\ EndInv /\ [Next]_vars =>
          [/\ receiver'.exp_ack >= receiver.exp_ack
           /\ receiver'.exp_ack + WindowSize(receiver')
                >= receiver.exp_ack + WindowSize(receiver)]_vars
  BY <1>4
<1> QED
  BY <1>5, EndInvariant, PTL DEF Spec, EdgesAdvance
=============================================================================
