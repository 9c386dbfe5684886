-------------------------- MODULE ReassemblyProofs --------------------------
(***************************************************************************)
(* The reassembler is correct for every capacity and every stream length.  *)
(***************************************************************************)
EXTENDS Reassembly, ReceiverLemmas

(* The inductive invariant.  Ready strengthens the properties by what they *)
(* leave open: the output never holds more than the capacity.  Counted     *)
(* says that the count of unassembled bytes is that of the positions held. *)
IInv ==
    /\ Ready(reassembler)
    /\ Output.cap = Capacity
    /\ Received(reassembler) \subseteq 0..(StreamLength - 1)
    /\ Counted(reassembler)

(* The constructor establishes the invariant.                              *)
LEMMA InitIInv == Init => IInv
BY NewReassemblerReady, CapacityAssumption, StreamLengthAssumption DEF Init, IInv, Output

(* What one step does to an invariant state, in terms of the operations.   *)
LEMMA PushStep ==
    ASSUME IInv, NEW index \in 0..StreamLength, NEW len \in 0..StreamLength,
           NEW eof \in BOOLEAN, Push(index, len, eof)
    PROVE  IInv' /\ Pushed(reassembler, index, len, reassembler')
<1>1. /\ index \in Nat /\ len \in Nat /\ index + len <= StreamLength
  BY StreamLengthAssumption DEF Push
<1>2. reassembler' = PushSubstring(reassembler, Substring(index, len), index, eof)
  BY DEF Push
<1>3. Pushed(reassembler, index, len, reassembler')
  BY <1>1, <1>2, PushSubstringCorrect DEF IInv
<1>4. /\ Ready(reassembler') /\ Output'.cap = Capacity /\ Counted(reassembler')
      /\ ReassemblerType(reassembler')
  BY <1>3 DEF Pushed, IInv, Output, Ready
<1>5. Received(reassembler') \subseteq 0..(StreamLength - 1)
  <2>1. Received(reassembler') \subseteq Nat
    <3>1. Waiting(reassembler') \subseteq Nat
      BY <1>4, WaitingMember
    <3>2. reassembler'.output.total_written \in Nat
      BY <1>4 DEF ReassemblerType
    <3> QED
      BY <3>1, <3>2 DEF Received
  <2> QED
    BY <1>1, <1>3, <2>1, StreamLengthAssumption DEF Pushed, IInv
<1> QED
  BY <1>3, <1>4, <1>5 DEF IInv

(* The invariant survives a read, which consumes bytes in order.           *)
LEMMA ReadStep ==
    ASSUME IInv, NEW len \in 1..Capacity, Read(len)
    PROVE  IInv' /\ \E n \in 0..len : HasRead(reassembler, n, reassembler')
<1>1. PICK n \in Nat : n <= len /\ HasRead(reassembler, n, reassembler')
  BY CapacityAssumption, ReadOutputCorrect DEF Read, IInv
<1> QED
  BY <1>1, CapacityAssumption DEF HasRead, IInv, Output, Counted

(* The invariant is inductive.                                             *)
LEMMA NextIInv == IInv /\ [Next]_reassembler => IInv'
<1> SUFFICES ASSUME IInv, [Next]_reassembler PROVE IInv'
  OBVIOUS
<1>1. ASSUME NEW index \in 0..StreamLength, NEW len \in 0..StreamLength,
             NEW eof \in BOOLEAN, Push(index, len, eof)
      PROVE  IInv'
  BY <1>1, PushStep
<1>2. ASSUME NEW len \in 1..Capacity, Read(len)
      PROVE  IInv'
  BY <1>2, ReadStep
<1>3. CASE UNCHANGED reassembler
  BY <1>3 DEF IInv, Output
<1> QED
  BY <1>1, <1>2, <1>3 DEF Next

(* Whatever is pushed and read, in any order, the invariant holds between  *)
(* two calls of the reassembler.                                           *)
THEOREM Invariant == Spec => []IInv
BY InitIInv, NextIInv, PTL DEF Spec

(* Every state satisfies the type invariant.                               *)
THEOREM TypeCorrect == Spec => []TypeOK
<1>1. IInv => TypeOK
  BY DEF IInv, TypeOK, Ready
<1> QED
  BY <1>1, Invariant, PTL

(* What the inductive invariant says, as the properties state it.          *)
LEMMA IInvMeaning == IInv => Apart /\ InPlace /\ NoDanglingRead /\ UnassembledExact
<1> SUFFICES ASSUME IInv PROVE Apart /\ InPlace /\ NoDanglingRead /\ UnassembledExact
  OBVIOUS
<1>1. /\ ReassemblerType(reassembler) /\ OutputInPlace(reassembler)
      /\ ~reassembler.dangling /\ reassembler.expected_index \in Nat
      /\ Stored(reassembler, reassembler.expected_index + 1)
  BY DEF IInv, Ready, ReassemblerType
<1>2. \A k \in DOMAIN reassembler.buf : reassembler.expected_index < k
  BY <1>1, StoredEnds DEF Stored
<1>3. Apart
  BY <1>1, <1>2 DEF Apart, StoredApart, Stored
<1>4. InPlace
  BY <1>1 DEF InPlace, BytesInPlace, OutputInPlace, Stored
<1> QED
  BY <1>1, <1>3, <1>4 DEF NoDanglingRead, UnassembledExact, Counted, IInv

(* Stored substrings never overlap or touch, and none that could be        *)
(* written out stays stored.                                               *)
THEOREM StoredStayApart == Spec => []Apart
BY IInvMeaning, Invariant, PTL

(* Every byte waits, or sits in the output, at its own position.           *)
THEOREM BytesStayInPlace == Spec => []InPlace
BY IInvMeaning, Invariant, PTL

(* reorder_buffer never reads the map node it has erased.                  *)
THEOREM NoErasedNodeRead == Spec => []NoDanglingRead
BY IInvMeaning, Invariant, PTL

(* unassembled_bytes counts every stored position once, so that empty()    *)
(* and with it the end of the output can rely on it: no sequence of        *)
(* overlapping substrings makes merge count a byte twice or lose one.      *)
THEOREM CountIsExact == Spec => []UnassembledExact
BY IInvMeaning, Invariant, PTL

(* The assembled and the stored bytes together never exceed the capacity.  *)
THEOREM CapacityHolds == Spec => []WithinCapacity
<1>1. ASSUME IInv PROVE WithinCapacity
  <2> DEFINE r == reassembler
  <2>1. /\ ReassemblerType(r) /\ OutputInPlace(r) /\ Stored(r, r.expected_index + 1)
        /\ Output.cap = Capacity
    BY <1>1 DEF IInv, Ready
  <2>2. PICK low \in Nat, edge \in Nat, size \in Nat :
            /\ low = r.expected_index /\ edge = RightEdge(r) /\ low <= edge
            /\ size = BufferSize(r.output) /\ size + (edge - low) = Capacity
    BY <2>1, OutputRoom, CapacityAssumption DEF OutputInPlace, Output
  <2>3. Waiting(r) \subseteq low..(edge - 1)
    <3>1. PICK start \in Nat : start = r.expected_index + 1 /\ low <= start
      BY <2>2
    <3>2. Waiting(r) \subseteq start..(edge - 1)
      BY <2>1, <2>2, <3>1, WaitingFinite
    <3> QED
      BY <3>1, <3>2
  <2>4. /\ IsFiniteSet(low..(edge - 1))
        /\ Cardinality(low..(edge - 1)) = edge - low
    BY <2>2, IntervalSize
  <2>5. /\ Cardinality(Waiting(r)) \in Nat
        /\ Cardinality(Waiting(r)) <= edge - low
    BY <2>3, <2>4, FS_Subset, FS_CardinalityType
  <2> QED
    BY <2>2, <2>5 DEF WithinCapacity, Output
<1> QED
  BY <1>1, Invariant, PTL

(* The reassembler implements OrderedDelivery: a push keeps exactly the    *)
(* bytes that arrive inside the window, and a read consumes bytes that are *)
(* all there, in order.                                                    *)
THEOREM ImplementsDelivery == Spec => RefinesDelivery
<1> DEFINE r == reassembler
           have == Received(r)
           read == r.output.total_read
<1>1. Init => Delivery!Init
  <2> SUFFICES ASSUME Init PROVE Delivery!Init
    OBVIOUS
  <2>1. /\ r.output.total_written = 0 /\ r.output.total_read = 0
        /\ DOMAIN r.buf = {}
    BY DEF Init, NewReassembler, NewByteStream, EmptyMap
  <2> QED
    BY <2>1 DEF Delivery!Init, Received, Waiting, Output
<1>2. IInv /\ [Next]_reassembler => [Delivery!Next]_<<have, read>>
  <2> SUFFICES ASSUME IInv, [Next]_reassembler
               PROVE  [Delivery!Next]_<<have, read>>
    OBVIOUS
  <2>1. /\ read \in Nat /\ RightEdge(r) = read + Capacity
        /\ have \subseteq 0..(StreamLength - 1)
        /\ 0..(r.output.total_written - 1) \subseteq have
        /\ r.output.total_written \in Nat
    BY OutputRoom DEF IInv, Ready, Output, Received
  <2>2. ASSUME NEW index \in 0..StreamLength, NEW len \in 0..StreamLength,
               NEW eof \in BOOLEAN, Push(index, len, eof)
        PROVE  Delivery!Next
    <3>1. /\ IInv' /\ Pushed(r, index, len, r')
      BY <2>2, PushStep
    <3>2. have' \subseteq 0..(StreamLength - 1) /\ read' = read
      BY <3>1 DEF IInv, Pushed
    <3>3. \A p \in Nat : p \in have' <=>
              p \in have \/ (index <= p /\ p < index + len /\ p < read + Capacity)
      BY <2>1, <3>1 DEF Pushed
    <3>4. have' = have \cup {p \in Delivery!Window : index <= p /\ p < index + len}
      <4>1. index + len <= StreamLength
        BY <2>2 DEF Push
      <4>2. \A p : p \in Delivery!Window <=> p \in 0..(StreamLength - 1) /\ p < read + Capacity
        BY DEF Delivery!Window, Output
      <4>3. \A p \in Nat : p \in have' <=>
                p \in have \/ (p \in Delivery!Window /\ index <= p /\ p < index + len)
        <5> HIDE DEF have, read
        <5> QED
          BY <3>3, <4>1, <4>2, StreamLengthAssumption
      <4>4. \A p : p \in have' \/ p \in have \/ p \in Delivery!Window => p \in Nat
        <5>1. 0..(StreamLength - 1) \subseteq Nat
          BY StreamLengthAssumption
        <5>2. /\ have \subseteq 0..(StreamLength - 1)
              /\ have' \subseteq 0..(StreamLength - 1)
              /\ Delivery!Window \subseteq 0..(StreamLength - 1)
          BY <2>1, <3>2 DEF Delivery!Window
        <5> HIDE DEF have, read
        <5> QED
          BY <5>1, <5>2, Zenon
      <4> HIDE DEF have, read
      <4> QED
        BY <4>3, <4>4, Zenon
    <3>5. Delivery!Arrive(index, len)
      BY <3>2, <3>4 DEF Delivery!Arrive, Output
    <3> QED
      BY <3>5 DEF Delivery!Next
  <2>3. ASSUME NEW len \in 1..Capacity, Read(len)
        PROVE  [Delivery!Next]_<<have, read>>
    <3>1. PICK n \in 0..len : HasRead(r, n, r')
      BY <2>3, ReadStep
    <3>2. /\ have' = have /\ read' = read + n /\ read + n <= r.output.total_written
      BY <3>1 DEF HasRead
    <3>3. CASE n = 0
      BY <2>1, <3>2, <3>3
    <3>4. CASE n # 0
      <4>1. n \in 1..Capacity
        BY <3>4, CapacityAssumption
      <4>2. 0..(read + n - 1) \subseteq have
        BY <2>1, <3>2, CapacityAssumption
      <4>3. Delivery!Consume(n)
        BY <3>2, <4>2 DEF Delivery!Consume, Output
      <4> QED
        BY <4>1, <4>3 DEF Delivery!Next
    <3> QED
      BY <3>3, <3>4
  <2>4. CASE UNCHANGED reassembler
    BY <2>4
  <2> QED
    BY <2>2, <2>3, <2>4 DEF Next
<1> QED
  BY <1>1, <1>2, Invariant, PTL DEF Spec, RefinesDelivery, Delivery!Spec, Output
=============================================================================
