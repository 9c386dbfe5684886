--------------------------- MODULE TransferProofs ---------------------------
(***************************************************************************)
(* A sender and a receiver joined by an unreliable network agree, for      *)
(* every payload size, capacity, stream length, window and timeout, and    *)
(* whatever the network loses, repeats or reorders.                        *)
(***************************************************************************)
EXTENDS Transfer, SenderLemmas

-----------------------------------------------------------------------------
(* The invariants.                                                         *)

(* The inductive invariant of the two ends, whether or not a FIN overtakes *)
(* the data: all that is on its way was sent, all that is received too.    *)
Base ==
    /\ SenderOK(sender) /\ sender.isn = Isn /\ sender.segments_out = <<>>
    /\ sender.stream.total_written <= StreamLength
    /\ sender.abs_ackno \in 0..(StreamLength + 2)
    /\ ReceiverOK(receiver, Isn) /\ receiver.capacity = RecvCapacity
    /\ receiver.checkpoint <= StreamLength + 2
    /\ Received(reassembler) \subseteq 0..(sender.stream.total_read - 1)
    /\ receiver.end => sender.fin_sent
    /\ \A seg \in wire : Issued(sender, seg)
    /\ acks \in Seq([ackno : Int, win : 0..MaxWindow])
    /\ \A i \in DOMAIN acks :
           sender.syn /\ \E n \in 0..(StreamLength + 2) : acks[i].ackno = Wrap(n, Isn)

(* The segments that are, or may still come, on their way.                 *)
Pending == wire \cup Range(sender.outstanding)

(* The right edge of the window, which an acknowledgment tells the sender. *)
Edge == receiver.exp_ack + WindowSize(receiver)

(* A FIN that goes with the last byte goes with every copy of it.          *)
OneFin ==
    FinWithData(Pending) =>
        /\ \A seg \in Pending : HoldsLast(seg, sender.stream.total_written) => seg.fin
        /\ sender.stream.total_written - 1 \in Received(reassembler) => receiver.end

(* No acknowledgment on its way is ahead of the receiver.                  *)
AcksBehind ==
    \A i \in DOMAIN acks : \E n \in Nat :
        /\ acks[i].ackno = Wrap(n, Isn) /\ n <= receiver.exp_ack
        /\ n + acks[i].win <= Edge

(* The sender frees nothing that the receiver has not acknowledged, and    *)
(* its window ends at the receiver's, or one behind it for a probe.        *)
InWindow ==
    /\ sender.next_seqno - sender.bytes_in_flight <= receiver.exp_ack
    /\ \/ sender.next_seqno + sender.recv_wdn_sz <= Edge
       \/ /\ sender.next_seqno + sender.recv_wdn_sz = Edge + 1
          /\ sender.bytes_in_flight + sender.recv_wdn_sz = 1

(* The extension of the inductive invariant when no FIN overtakes the data.*)
Link ==
    /\ Ending(receiver, sender.stream.total_written)
    /\ OneFin /\ AcksBehind /\ InWindow

-----------------------------------------------------------------------------
(* The retransmission timer.                                               *)

(* The timer of a TCPSender runs exactly while a segment is outstanding,   *)
(* so that no segment waits for a retransmission that nobody triggers: for *)
(* every application, every network and all sizes (tcp_sender.cc:29, :95,  *)
(* :147).                                                                  *)
THEOREM TimerAlwaysRuns == Spec => []TimerRuns
<1>1. Init => TimerInv(sender)
  <2> SUFFICES ASSUME Init PROVE TimerInv(sender)
    OBVIOUS
  <2>1. /\ sender = [f \in SenderFields |-> sender[f]]
        /\ sender.outstanding = EmptyMap /\ sender.timer_on = FALSE
    BY DEF Init, NewSender, SenderFields
  <2>2. DOMAIN EmptyMap = {} /\ EmptyMap = [k \in DOMAIN EmptyMap |-> EmptyMap[k]]
    BY DEF EmptyMap
  <2> QED
    BY <2>1, <2>2, Zenon DEF TimerInv
<1>2. TimerInv(sender) /\ [Next]_vars => TimerInv(sender)'
  <2> SUFFICES ASSUME TimerInv(sender), [Next]_vars PROVE TimerInv(sender')
    BY DEF TimerInv
  <2>1. ASSUME NEW s, TimerInv(s), Flush(s) PROVE TimerInv(sender')
    <3>1. sender' = [s EXCEPT !.segments_out = <<>>]
      BY <2>1 DEF Flush
    <3> QED
      BY <2>1, <3>1 DEF TimerInv, SenderFields
  <2>2. ASSUME NEW stream PROVE TimerInv([sender EXCEPT !.stream = stream])
    BY DEF TimerInv, SenderFields
  <2>3. CASE Connect
    BY <2>1, <2>3, FillKeepsTimer DEF Connect
  <2>4. CASE Close
    <3>1. Flush(FillWindow([sender EXCEPT !.stream = EndInput(sender.stream)]))
      BY <2>4 DEF Close
    <3> QED
      BY <2>1, <2>2, <3>1, FillKeepsTimer
  <2>5. ASSUME NEW len \in 1..SendCapacity, Write(len) PROVE TimerInv(sender')
    <3> DEFINE stream == StreamWrite(sender.stream, Substring(sender.stream.total_written, len))
    <3>1. Flush(FillWindow([sender EXCEPT !.stream = stream]))
      BY <2>5 DEF Write
    <3> HIDE DEF stream
    <3> QED
      BY <2>1, <2>2, <3>1, FillKeepsTimer
  <2>6. CASE Tick
    BY <2>1, <2>6, TickKeepsTimer DEF Tick
  <2>7. ASSUME NEW seg \in wire, NEW again \in BOOLEAN, Deliver(seg, again)
        PROVE  TimerInv(sender')
    BY <2>7 DEF Deliver
  <2>8. ASSUME NEW i \in DOMAIN acks, NEW again \in BOOLEAN, ReceiveAck(i, again)
        PROVE  TimerInv(sender')
    BY <2>1, <2>8, AckKeepsTimer DEF ReceiveAck
  <2>9. ASSUME NEW len \in 1..RecvCapacity, Read(len) PROVE TimerInv(sender')
    BY <2>9 DEF Read
  <2>10. CASE UNCHANGED vars
    BY <2>10 DEF vars
  <2> QED
    BY <2>3, <2>4, <2>5, <2>6, <2>7, <2>8, <2>9, <2>10 DEF Next
<1>3. TimerInv(sender) => TimerRuns
  BY TimerInvMeaning DEF TimerRuns
<1> QED
  BY <1>1, <1>2, <1>3, PTL DEF Spec

-----------------------------------------------------------------------------
(* Both ends.                                                              *)

(* flush_buffer empties the queue and leaves the rest of the sender alone. *)
LEMMA Flushed ==
    ASSUME NEW w, SenderOK(w)
    PROVE  LET v == [w EXCEPT !.segments_out = <<>>]
           IN  /\ SenderOK(v) /\ SameNumbers(w, v) /\ v.segments_out = <<>>
               /\ v.isn = w.isn /\ v.stream = w.stream /\ v.fin_sent = w.fin_sent
               /\ v.outstanding = w.outstanding
<1>1. PICK none : none = <<>>
  OBVIOUS
<1> DEFINE v == [w EXCEPT !.segments_out = none]
<1>2. FlightOK(w) /\ StreamOK(w.stream) /\ w = [f \in SenderFields |-> w[f]]
  BY DEF SenderOK, FlightOK
<1>3. /\ v = [f \in SenderFields |-> v[f]] /\ v.segments_out = none
      /\ v.isn = w.isn /\ v.stream = w.stream /\ v.fin_sent = w.fin_sent
      /\ v.outstanding = w.outstanding /\ v.syn = w.syn
      /\ v.elapsed_time = w.elapsed_time /\ v.rto = w.rto
      /\ v.next_seqno = w.next_seqno /\ v.bytes_in_flight = w.bytes_in_flight
      /\ v.recv_wdn_sz = w.recv_wdn_sz /\ v.abs_ackno = w.abs_ackno
  BY <1>2 DEF SenderFields
<1> HIDE DEF v
<1>4. w.stream.total_read \in Nat /\ w.stream.total_written \in Nat
  BY SenderNumbers
<1>5. FlightOK(v)
  BY <1>2, <1>3, Zenon DEF FlightOK
<1>6. Onward(w, v)
  BY <1>3, <1>4 DEF Onward
<1>7. \A seg \in Range(w.outstanding) : Issued(v, seg)
  BY <1>2, <1>3, <1>6, IssuedStays DEF SenderOK
<1>8. SenderOK(v)
  BY <1>3, <1>5, <1>7, Zenon DEF SenderOK
<1>9. SameNumbers(w, v)
  BY <1>3 DEF SameNumbers
<1> QED
  BY <1>1, <1>3, <1>8, <1>9 DEF v

(* One element of a sequence is taken out.                                 *)
LEMMA RemoveOne ==
    ASSUME NEW S, NEW q \in Seq(S), NEW i \in DOMAIN q
    PROVE  LET w == SubSeq(q, 1, i - 1) \o SubSeq(q, i + 1, Len(q))
           IN  w \in Seq(S) /\ \A j \in DOMAIN w : \E k \in DOMAIN q : w[j] = q[k]
<1> DEFINE a == SubSeq(q, 1, i - 1)
           b == SubSeq(q, i + 1, Len(q))
           w == a \o b
           n == Len(q)
<1>1. /\ n \in Nat /\ DOMAIN q = 1..n /\ i \in 1..n /\ \A k \in 1..n : q[k] \in S
  OBVIOUS
<1>2. /\ a \in Seq(S) /\ Len(a) = i - 1
      /\ \A j \in 1..(i - 1) : a[j] = q[j]
  <2>1. 1 \in Int /\ i - 1 \in Int /\ \A k \in 1..(i - 1) : q[k] \in S
    BY <1>1
  <2>2. /\ a \in Seq(S) /\ Len(a) = IF 1 <= i - 1 THEN (i - 1) - 1 + 1 ELSE 0
        /\ \A j \in 1..((i - 1) - 1 + 1) : a[j] = q[1 + j - 1]
    BY <2>1, SubSeqProperties
  <2> HIDE DEF a, n
  <2> QED
    BY <1>1, <2>2
<1>3. /\ b \in Seq(S) /\ Len(b) = n - i
      /\ \A j \in 1..(n - i) : b[j] = q[i + j]
  <2>1. i + 1 \in Int /\ n \in Int /\ \A k \in (i + 1)..n : q[k] \in S
    BY <1>1
  <2>2. /\ b \in Seq(S) /\ Len(b) = IF i + 1 <= n THEN n - (i + 1) + 1 ELSE 0
        /\ \A j \in 1..(n - (i + 1) + 1) : b[j] = q[(i + 1) + j - 1]
    BY <2>1, SubSeqProperties
  <2> HIDE DEF b, n
  <2>3. ASSUME NEW j \in 1..(n - i) PROVE b[j] = q[i + j]
    <3>1. j \in 1..(n - (i + 1) + 1) /\ (i + 1) + j - 1 = i + j
      BY <1>1
    <3> QED
      BY <2>2, <3>1
  <2>4. Len(b) = n - i
    BY <1>1, <2>2
  <2> QED
    BY <2>2, <2>3, <2>4
<1> HIDE DEF a, b
<1>4. /\ w \in Seq(S) /\ Len(w) = n - 1 /\ DOMAIN w = 1..(n - 1)
      /\ \A j \in 1..(n - 1) : w[j] = IF j <= i - 1 THEN a[j] ELSE b[j - (i - 1)]
  <2>1. /\ w \in Seq(S) /\ Len(w) = Len(a) + Len(b)
        /\ \A j \in 1..(Len(a) + Len(b)) :
               w[j] = IF j <= Len(a) THEN a[j] ELSE b[j - Len(a)]
    BY <1>2, <1>3, ConcatProperties, Zenon
  <2> HIDE DEF w, n
  <2>2. DOMAIN w = 1..Len(w) /\ Len(a) + Len(b) = n - 1
    BY <1>1, <1>2, <1>3, <2>1
  <2> QED
    BY <1>2, <2>1, <2>2
<1> HIDE DEF w, n
<1>5. ASSUME NEW j \in 1..(n - 1) PROVE \E k \in DOMAIN q : w[j] = q[k]
  <2>1. CASE j <= i - 1
    <3>1. j \in 1..(i - 1) /\ j \in DOMAIN q
      BY <1>1, <2>1
    <3>2. w[j] = a[j]
      BY <1>4, <2>1
    <3>3. a[j] = q[j]
      BY <1>2, <3>1
    <3> QED
      BY <3>1, <3>2, <3>3, Zenon
  <2>2. CASE ~(j <= i - 1)
    <3>1. j - (i - 1) \in 1..(n - i) /\ i + (j - (i - 1)) = j + 1 /\ j + 1 \in 1..n
      BY <1>1, <2>2
    <3> QED
      BY <1>1, <1>3, <1>4, <2>2, <3>1, Zenon
  <2> QED
    BY <2>1, <2>2
<1> QED
  BY <1>4, <1>5, Zenon DEF w, a, b, n

(* The quantities of a receiver in order.                                  *)
LEMMA ReceiverNumbers ==
    ASSUME NEW r, NEW isn, ReceiverOK(r, isn), r.capacity \in Nat
    PROVE  LET a == r.reassembler
               tw == a.output.total_written
           IN  /\ tw \in Nat /\ a.output.total_read \in Nat /\ a.output.total_read <= tw
               /\ RightEdge(a) = a.output.total_read + r.capacity
               /\ WindowSize(r) = RightEdge(a) - tw /\ WindowSize(r) \in Nat
               /\ r.exp_ack \in Nat
               /\ r.syn => r.exp_ack > tw /\ r.exp_ack <= tw + 2
               /\ ~r.syn => tw = 0 /\ r.exp_ack = 0
<1> DEFINE a == r.reassembler
           tw == a.output.total_written
<1>1. /\ Ready(a) /\ Counted(a) /\ r.capacity = a.output.cap /\ r.syn \in BOOLEAN
  BY DEF ReceiverOK
<1>2. /\ tw \in Nat /\ tw \notin Received(a)
      /\ \A p \in Nat : p < tw => p \in Received(a)
  BY <1>1, NextMissing
<1>4. /\ a.output.total_read \in Nat /\ a.output.total_read <= tw
      /\ RightEdge(a) = a.output.total_read + r.capacity /\ RightEdge(a) \in Nat
      /\ BufferSize(a.output) = tw - a.output.total_read
      /\ tw <= RightEdge(a)
  BY <1>1, OutputRoom DEF Ready, OutputInPlace
<1>5. WindowSize(r) = RightEdge(a) - tw
  <2>1. WindowSize(r) = r.capacity - BufferSize(a.output)
    BY DEF WindowSize
  <2> HIDE DEF a, tw
  <2> QED
    BY <1>2, <1>4, <2>1
<1>6. r.syn => r.exp_ack = ExpectedAck(a, r.end)
  BY DEF ReceiverOK
<1>7. /\ ExpectedAck(a, r.end) \in Nat /\ ExpectedAck(a, r.end) > tw
      /\ ExpectedAck(a, r.end) <= tw + 2
  BY <1>2 DEF ExpectedAck
<1>8. ~r.syn => tw = 0 /\ r.exp_ack = 0
  <2>1. ~r.syn => Received(a) = {} /\ r.exp_ack = 0
    BY DEF ReceiverOK
  <2> HIDE DEF a, tw
  <2> QED
    BY <1>2, <2>1
<1> HIDE DEF a, tw
<1>9. WindowSize(r) \in Nat
  BY <1>2, <1>4, <1>5
<1>10. r.exp_ack \in Nat
  BY <1>1, <1>6, <1>7, <1>8
<1> QED
  BY <1>2, <1>4, <1>5, <1>6, <1>7, <1>8, <1>9, <1>10 DEF a, tw

(* A call of the sender takes it to w, and keeps its numbers small.        *)
Moves(w) ==
    /\ Goes(sender, w) /\ w.stream.total_written <= StreamLength
    /\ w.abs_ackno \in 0..(StreamLength + 2)

(* The part of the window already used grows with what is sent, and only   *)
(* with it.                                                                *)
Keeps(s, w) ==
    /\ w.next_seqno - w.bytes_in_flight = s.next_seqno - s.bytes_in_flight
    /\ \/ w.next_seqno + w.recv_wdn_sz = s.next_seqno + s.recv_wdn_sz
       \/ ~s.syn /\ w.next_seqno = 1 /\ w.recv_wdn_sz = 0

(* The constants in the form the steps use.                                *)
LEMMA Constants ==
    /\ SendCapacity \in Nat /\ RecvCapacity \in Nat /\ StreamLength \in Nat
    /\ Isn \in 0..(Modulus - 1) /\ Isn \in Int /\ Half \in Nat /\ Modulus \in Nat
    /\ StreamLength + 2 < Half /\ Word \in Nat /\ StreamLength < Word
<1>1. Half \in Nat /\ Modulus \in Nat /\ Word \in Nat
  BY HalfOfModulus, WordAssumption
<1>2. /\ SendCapacity \in Nat /\ RecvCapacity \in Nat /\ StreamLength \in Nat
      /\ Isn \in 0..(Modulus - 1) /\ StreamLength + 2 < Half
      /\ StreamLength + RecvCapacity < Word
  BY TransferAssumption
<1> QED
  BY <1>1, <1>2

(* The calls of the writer and of the clock.                               *)
LEMMA CallStep ==
    ASSUME Base, Connect \/ Close \/ Tick \/ \E len \in 1..SendCapacity : Write(len)
    PROVE  /\ UNCHANGED <<receiver, acks>>
           /\ \E w : Moves(w) /\ Keeps(sender, w) /\ Flush(w)
<1>1. /\ SenderOK(sender) /\ sender.segments_out = <<>>
      /\ sender.stream.total_written <= StreamLength
      /\ sender.abs_ackno \in 0..(StreamLength + 2)
  BY DEF Base
<1>2. StreamOK(sender.stream) /\ StreamLength \in Nat /\ Word \in Nat /\ StreamLength < Word
  BY <1>1, Constants DEF SenderOK
<1>3. CASE Connect
  <2>1. PICK w : w = FillWindow(sender)
    OBVIOUS
  <2>2. FillResult(sender, w)
    BY <1>1, <2>1, FillGoes
  <2>3. Moves(w) /\ Keeps(sender, w)
    BY <1>1, <1>3, <2>2 DEF FillResult, Moves, Keeps, Connect
  <2> QED
    BY <1>3, <2>1, <2>3 DEF Connect
<1>4. ASSUME NEW st, StreamOK(st), st.total_written <= StreamLength,
             st.total_read = sender.stream.total_read,
             sender.stream.total_written <= st.total_written,
             sender.syn, ~sender.stream.input_ended
      PROVE  LET w == FillWindow([sender EXCEPT !.stream = st])
             IN  Moves(w) /\ Keeps(sender, w)
  <2> DEFINE s1 == [sender EXCEPT !.stream = st]
  <2>1. st.total_written < Word
    BY <1>2, <1>4 DEF StreamOK
  <2>2. /\ SenderOK(s1) /\ SameSent(sender, s1) /\ SameNumbers(sender, s1)
        /\ s1.stream = st /\ s1.segments_out = <<>>
    BY <1>1, <1>4, <2>1, NewStream
  <2> HIDE DEF s1
  <2>3. PICK w : w = FillWindow(s1)
    OBVIOUS
  <2>4. FillResult(s1, w)
    BY <2>2, <2>3, FillGoes
  <2>5. Goes(s1, w) /\ StreamOK(s1.stream)
    BY <2>2, <2>4 DEF FillResult, SenderOK
  <2>6. Goes(sender, w)
    BY <1>2, <2>2, <2>5, GoesOn
  <2>7. Moves(w)
    BY <1>1, <1>4, <2>2, <2>4, <2>6 DEF Moves, FillResult, SameNumbers
  <2>8. Keeps(sender, w)
    BY <1>4, <2>2, <2>4 DEF Keeps, FillResult, SameNumbers
  <2> QED
    BY <2>3, <2>7, <2>8 DEF s1
<1>5. CASE Close
  <2>1. PICK st : st = EndInput(sender.stream)
    OBVIOUS
  <2>2. /\ StreamOK(st) /\ st.total_read = sender.stream.total_read
        /\ st.total_written = sender.stream.total_written
    BY <1>2, <2>1, EndStream
  <2>3. sender.syn /\ ~sender.stream.input_ended
        /\ Flush(FillWindow([sender EXCEPT !.stream = st]))
    BY <1>5, <2>1 DEF Close
  <2>4. /\ sender.stream.total_written <= st.total_written
        /\ st.total_written <= StreamLength
    BY <1>1, <1>2, <2>2 DEF StreamOK
  <2> QED
    BY <1>4, <1>5, <2>2, <2>3, <2>4 DEF Close
<1>6. ASSUME NEW len \in 1..SendCapacity, Write(len)
      PROVE  \E w : Moves(w) /\ Keeps(sender, w) /\ Flush(w)
  <2>1. PICK st : st = StreamWrite(sender.stream,
                                   Substring(sender.stream.total_written, len))
    OBVIOUS
  <2>2. len \in Nat
    BY Constants
  <2>3. /\ StreamOK(st) /\ st.total_read = sender.stream.total_read
        /\ sender.stream.total_written <= st.total_written
        /\ st.total_written <= sender.stream.total_written + len
    BY <1>2, <2>1, <2>2, WriteStream
  <2>4. /\ sender.syn /\ ~sender.stream.input_ended
        /\ sender.stream.total_written + len <= StreamLength
        /\ Flush(FillWindow([sender EXCEPT !.stream = st]))
    BY <1>6, <2>1 DEF Write
  <2>5. st.total_written <= StreamLength
    BY <1>2, <2>2, <2>3, <2>4 DEF StreamOK
  <2> QED
    BY <1>4, <2>3, <2>4, <2>5
<1>7. CASE Tick
  <2>1. PICK w : w = SenderTick(sender, 1)
    OBVIOUS
  <2>2. /\ Goes(sender, w) /\ SameNumbers(sender, w)
        /\ w.stream.total_written = sender.stream.total_written
    BY <1>1, <2>1, TickGoes
  <2>3. Moves(w) /\ Keeps(sender, w)
    BY <1>1, <2>2 DEF Moves, Keeps, SameNumbers
  <2> QED
    BY <1>7, <2>1, <2>3 DEF Tick
<1>8. UNCHANGED <<receiver, acks>>
  BY Zenon DEF Connect, Close, Tick, Write
<1> QED
  BY <1>3, <1>5, <1>6, <1>7, <1>8

(* Two numbers of the stream are less than half the space apart.           *)
LEMMA LessThanHalf ==
    ASSUME NEW a \in 0..(StreamLength + 2), NEW b \in 0..(StreamLength + 2)
    PROVE  a \in Nat /\ b \in Nat /\ a < b + Half /\ b < a + Half
<1>1. StreamLength \in Nat /\ Half \in Nat /\ StreamLength + 2 < Half
  BY Constants
<1> QED
  BY <1>1

(* An acknowledgment that reaches the sender is read as the number the     *)
(* receiver wrapped.                                                       *)
LEMMA AckStep ==
    ASSUME Base, NEW i \in DOMAIN acks, NEW again \in BOOLEAN, ReceiveAck(i, again),
           NEW n \in 0..(StreamLength + 2), acks[i].ackno = Wrap(n, Isn), sender.syn
    PROVE  \E w : Moves(w) /\ AckResult(sender, n, acks[i].win, w) /\ Flush(w)
<1>1. /\ SenderOK(sender) /\ sender.segments_out = <<>> /\ sender.isn = Isn
      /\ sender.stream.total_written <= StreamLength
      /\ sender.abs_ackno \in 0..(StreamLength + 2) /\ sender.syn \in BOOLEAN
      /\ acks \in Seq([ackno : Int, win : 0..MaxWindow])
  BY DEF Base, SenderOK
<1>2. /\ n \in Nat /\ sender.abs_ackno \in Nat
      /\ n < sender.abs_ackno + Half /\ sender.abs_ackno < n + Half
  BY <1>1, LessThanHalf, Zenon
<1>3. n = Unwrap(acks[i].ackno, sender.isn, sender.abs_ackno)
  <2>1. PICK ack \in Nat : ack = sender.abs_ackno
    BY <1>2
  <2>2. n < ack + Half /\ ack < n + Half
    BY <1>2, <2>1
  <2>3. Unwrap(Wrap(n, Isn), Isn, ack) = n
    BY <2>2, Constants, UnwrapWrap
  <2> QED
    BY <1>1, <2>1, <2>3
<1>4. acks[i].win \in 0..MaxWindow /\ sender.syn = TRUE
  <2>1. acks[i] \in [ackno : Int, win : 0..MaxWindow]
    <3>1. i \in 1..Len(acks)
      BY <1>1
    <3> QED
      BY <1>1, <3>1, ElementOfSeq, Zenon
  <2>2. sender.syn = TRUE
    BY <1>1, Zenon
  <2> QED
    BY <2>1, <2>2
<1>5. PICK w : w = AckReceived(sender, acks[i].ackno, acks[i].win)
  OBVIOUS
<1>6. AckResult(sender, n, acks[i].win, w)
  BY <1>1, <1>2, <1>3, <1>4, <1>5, AckGoes, Zenon
<1>7. Moves(w)
  BY <1>1, <1>6 DEF AckResult, Moves
<1> QED
  BY <1>5, <1>6, <1>7 DEF ReceiveAck

(* The constructors of the two ends establish the invariant.               *)
LEMMA InitBase == Init => Base
<1> SUFFICES ASSUME Init PROVE Base
  OBVIOUS
<1>1. /\ sender = NewSender(SendCapacity, Isn) /\ receiver = NewReceiver(RecvCapacity)
      /\ wire = {} /\ acks = <<>>
  BY DEF Init
<1>2. /\ SenderOK(sender) /\ sender.isn = Isn /\ sender.segments_out = <<>>
      /\ sender.stream.total_written = 0 /\ sender.stream.total_read = 0
      /\ sender.abs_ackno = 0
  <2>1. SendCapacity \in Nat
    BY Constants
  <2> QED
    BY <1>1, <2>1, NewSenderOK, Zenon
<1>3. /\ ReceiverOK(receiver, Isn) /\ receiver.capacity = RecvCapacity
      /\ receiver.syn = FALSE /\ reassembler = NewReassembler(RecvCapacity)
  BY <1>1, Constants, NewReceiverOK, Zenon DEF reassembler
<1>4. Received(reassembler) = {}
  BY <1>3, Constants, NewReassemblerReady, Zenon
<1>5. receiver.checkpoint = 0 /\ ~receiver.end
  BY <1>3 DEF ReceiverOK
<1>6. acks \in Seq([ackno : Int, win : 0..MaxWindow]) /\ DOMAIN acks = {}
  BY <1>1
<1>7. \A seg \in wire : Issued(sender, seg)
  BY <1>1
<1>8. /\ sender.stream.total_written <= StreamLength
      /\ sender.abs_ackno \in 0..(StreamLength + 2)
      /\ receiver.checkpoint <= StreamLength + 2
  BY <1>2, <1>5, Constants
<1> QED
  BY <1>2, <1>3, <1>4, <1>5, <1>6, <1>7, <1>8 DEF Base

(* acks' has no acknowledgment that acks has not.                          *)
OldAcks ==
    /\ acks' \in Seq([ackno : Int, win : 0..MaxWindow])
    /\ \A j \in DOMAIN acks' : \E k \in DOMAIN acks : acks'[j] = acks[k]

(* flush_buffer keeps the order of the sender.                             *)
LEMMA FlushStep ==
    ASSUME SenderOK(sender), NEW w, Goes(sender, w), Flush(w)
    PROVE  /\ SenderOK(sender') /\ Onward(sender, sender') /\ SameNumbers(w, sender')
           /\ sender'.segments_out = <<>> /\ sender'.outstanding = w.outstanding
           /\ sender'.stream = w.stream /\ sender'.fin_sent = w.fin_sent
           /\ \A seg \in Range(w.segments_out) : Issued(sender', seg)
           /\ wire' \subseteq wire \cup Range(w.segments_out)
<1>1. sender' = [w EXCEPT !.segments_out = <<>>] /\ SenderOK(w) /\ Onward(sender, w)
  BY DEF Flush, Goes
<1>2. /\ SenderOK(sender') /\ SameNumbers(w, sender') /\ sender'.segments_out = <<>>
      /\ sender'.isn = w.isn /\ sender'.stream = w.stream
      /\ sender'.fin_sent = w.fin_sent /\ sender'.outstanding = w.outstanding
  BY <1>1, Flushed
<1>3. StreamOK(w.stream) /\ StreamOK(sender'.stream)
  BY <1>1, <1>2 DEF SenderOK
<1>4. Onward(sender, sender') /\ Onward(w, sender')
  BY <1>1, <1>2, <1>3 DEF Onward, SameNumbers, StreamOK
<1>5. \A seg \in Range(w.segments_out) : Issued(sender', seg)
  BY <1>3, <1>4, IssuedStays DEF Goes
<1>6. wire' \subseteq wire \cup Range(w.segments_out)
  BY DEF Flush
<1> QED
  BY <1>2, <1>4, <1>5, <1>6

(* A call of the sender preserves the invariant.                           *)
LEMMA FlushBase ==
    ASSUME Base, NEW w, Moves(w), Flush(w), receiver' = receiver, OldAcks
    PROVE  Base'
<1>1. /\ SenderOK(sender) /\ sender.isn = Isn /\ StreamOK(sender.stream)
      /\ ReceiverOK(receiver, Isn) /\ receiver.capacity = RecvCapacity
      /\ receiver.checkpoint <= StreamLength + 2
      /\ Received(reassembler) \subseteq 0..(sender.stream.total_read - 1)
      /\ receiver.end => sender.fin_sent
  BY DEF Base, SenderOK
<1>2. Goes(sender, w)
  BY DEF Moves
<1>3. /\ SenderOK(sender') /\ Onward(sender, sender') /\ SameNumbers(w, sender')
      /\ sender'.segments_out = <<>> /\ sender'.stream = w.stream
      /\ \A seg \in Range(w.segments_out) : Issued(sender', seg)
      /\ wire' \subseteq wire \cup Range(w.segments_out)
  BY <1>1, <1>2, FlushStep
<1>4. /\ sender'.stream.total_written <= StreamLength
      /\ sender'.abs_ackno \in 0..(StreamLength + 2) /\ sender'.isn = Isn
  BY <1>1, <1>3 DEF Moves, SameNumbers, Onward
<1>5. Received(reassembler)' \subseteq 0..(sender'.stream.total_read - 1)
  <2>1. /\ sender.stream.total_read \in Nat /\ sender'.stream.total_read \in Nat
        /\ sender.stream.total_read <= sender'.stream.total_read
    BY <1>1, <1>3, SenderNumbers DEF Onward
  <2>2. Received(reassembler)' = Received(reassembler)
    BY DEF reassembler
  <2> QED
    BY <1>1, <2>1, <2>2
<1>6. receiver'.end => sender'.fin_sent
  BY <1>1, <1>3 DEF Onward
<1>7. \A seg \in wire' : Issued(sender', seg)
  <2>1. StreamOK(sender'.stream) /\ \A seg \in wire : Issued(sender, seg)
    BY <1>3 DEF SenderOK, Base
  <2>2. \A seg \in wire : Issued(sender', seg)
    BY <1>1, <1>3, <2>1, IssuedStays
  <2> QED
    BY <1>3, <2>2
<1>8. \A j \in DOMAIN acks' :
          sender'.syn /\ \E n \in 0..(StreamLength + 2) : acks'[j].ackno = Wrap(n, Isn)
  <2>1. sender.syn => sender'.syn
    BY <1>3 DEF Onward
  <2>2. \A k \in DOMAIN acks :
            sender.syn /\ \E n \in 0..(StreamLength + 2) : acks[k].ackno = Wrap(n, Isn)
    BY DEF Base
  <2> QED
    BY <2>1, <2>2, Zenon DEF OldAcks
<1>9. ReceiverOK(receiver', Isn) /\ receiver'.capacity = RecvCapacity
      /\ receiver'.checkpoint <= StreamLength + 2
  BY <1>1
<1> QED
  BY <1>3, <1>4, <1>5, <1>6, <1>7, <1>8, <1>9 DEF Base, OldAcks

(* The receiver has handed on no more than what it has received.           *)
LEMMA WrittenBound ==
    ASSUME NEW r, NEW isn, ReceiverOK(r, isn), NEW n \in Nat,
           Received(r.reassembler) \subseteq 0..(n - 1)
    PROVE  r.reassembler.output.total_written <= n
<1>1. /\ r.reassembler.output.total_written \in Nat
      /\ \A p \in Nat : p < r.reassembler.output.total_written
                            => p \in Received(r.reassembler)
  BY NextMissing DEF ReceiverOK
<1>2. n \notin Received(r.reassembler)
  OBVIOUS
<1> QED
  BY <1>1, <1>2

(* The receiver changes only when it takes a segment in at its place.      *)
Accepts(abs, len, syn, fin) ==
    /\ syn # receiver.syn /\ ReceiverOK(receiver', Isn)
    /\ \E index : /\ TakesIn(receiver, abs, index, len, fin, receiver')
                  /\ len > 0 => index = abs - 1

(* Where a segment that was sent lies.                                     *)
LEMMA IssuedPlace ==
    ASSUME Base, NEW seg, NEW abs \in Nat, NEW len \in Nat,
           NEW syn \in BOOLEAN, NEW fin \in BOOLEAN,
           IssuedAt(sender, seg, abs, len, syn, fin)
    PROVE  /\ SegmentAt(seg, Isn, abs, len, syn, fin) /\ sender.syn
           /\ abs <= StreamLength + 1
           /\ syn => abs = 0 /\ len = 0 /\ ~fin
           /\ ~syn => abs > 0 /\ abs - 1 + len <= sender.stream.total_read
           /\ fin => sender.fin_sent /\ abs - 1 + len = sender.stream.total_written
<1>1. /\ sender.isn = Isn /\ sender.stream.total_written <= StreamLength
      /\ sender.stream.total_read \in Nat /\ sender.stream.total_written \in Nat
      /\ sender.stream.total_read <= sender.stream.total_written
      /\ StreamLength \in Nat
  BY Constants, SenderNumbers DEF Base
<1>2. /\ SegmentAt(seg, Isn, abs, len, syn, fin) /\ sender.syn
      /\ syn => abs = 0 /\ len = 0 /\ ~fin
      /\ ~syn => abs > 0 /\ abs - 1 + len <= sender.stream.total_read
      /\ fin => sender.fin_sent /\ abs - 1 + len = sender.stream.total_written
  BY <1>1 DEF IssuedAt, SegmentAt
<1>3. abs <= StreamLength + 1
  BY <1>1, <1>2
<1> QED
  BY <1>2, <1>3

(* What a delivery does to the receiver.                                   *)
LEMMA DeliverStep ==
    ASSUME Base, NEW seg \in wire, NEW again \in BOOLEAN, Deliver(seg, again),
           NEW abs \in Nat, NEW len \in Nat, NEW syn \in BOOLEAN, NEW fin \in BOOLEAN,
           IssuedAt(sender, seg, abs, len, syn, fin)
    PROVE  receiver' = receiver \/ Accepts(abs, len, syn, fin)
<1>1. /\ ReceiverOK(receiver, Isn) /\ receiver.checkpoint <= StreamLength + 2
      /\ receiver.checkpoint \in Nat /\ receiver.syn \in BOOLEAN
  BY DEF Base, ReceiverOK
<1>2. /\ SegmentAt(seg, Isn, abs, len, syn, fin) /\ abs <= StreamLength + 1
      /\ syn => len = 0
  BY IssuedPlace
<1>3. /\ abs < receiver.checkpoint + Half /\ receiver.checkpoint < abs + Half
  BY <1>1, <1>2, Constants
<1>4. receiver' = SegmentReceived(receiver, seg)
  BY DEF Deliver
<1>5. \/ syn = receiver.syn /\ receiver' = receiver
      \/ /\ syn # receiver.syn /\ ReceiverOK(receiver', Isn)
         /\ \E index : /\ TakesIn(receiver, abs, index, len, fin, receiver')
                       /\ len > 0 => index = IF syn THEN 0 ELSE abs - 1
  BY <1>1, <1>2, <1>3, <1>4, Constants, SegmentReceivedCorrect
<1>6. CASE syn = receiver.syn /\ receiver' = receiver
  BY <1>6
<1>7. ASSUME syn # receiver.syn, ReceiverOK(receiver', Isn),
             NEW index, TakesIn(receiver, abs, index, len, fin, receiver'),
             len > 0 => index = IF syn THEN 0 ELSE abs - 1
      PROVE  Accepts(abs, len, syn, fin)
  <2>1. len > 0 => index = abs - 1
    BY <1>2, <1>7
  <2> QED
    BY <1>7, <2>1, Zenon DEF Accepts
<1> QED
  BY <1>5, <1>6, <1>7, Zenon

(* An accepted segment in terms of what the receiver has.                  *)
LEMMA AcceptsMeaning ==
    ASSUME Base, NEW abs \in Nat, NEW len \in Nat,
           NEW syn \in BOOLEAN, NEW fin \in BOOLEAN, Accepts(abs, len, syn, fin)
    PROVE  /\ \A p \in Nat : p \in Received(reassembler)' =>
                  \/ p \in Received(reassembler)
                  \/ len > 0 /\ p < abs - 1 + len
           /\ Received(reassembler)' \subseteq Nat
           /\ Output'.total_read = Output.total_read
           /\ RightEdge(reassembler)' = RightEdge(reassembler)
           /\ receiver'.capacity = RecvCapacity /\ receiver'.checkpoint = abs
           /\ receiver'.syn = TRUE /\ receiver'.end = (receiver.end \/ fin)
<1>1. PICK index : /\ TakesIn(receiver, abs, index, len, fin, receiver')
                   /\ len > 0 => index = abs - 1
  BY DEF Accepts
<1>2. /\ index \in Nat /\ Pushed(reassembler, index, len, reassembler')
      /\ receiver'.capacity = receiver.capacity /\ receiver'.checkpoint = abs
      /\ receiver'.syn = TRUE /\ receiver'.end = (receiver.end \/ fin)
  BY <1>1 DEF TakesIn, reassembler
<1>3. Ready(reassembler') /\ receiver.capacity = RecvCapacity
  BY <1>2 DEF Base, Pushed
<1>4. /\ \A p \in Nat : p \in Received(reassembler') <=>
             \/ p \in Received(reassembler)
             \/ index <= p /\ p < index + len /\ p < RightEdge(reassembler)
      /\ Output'.total_read = Output.total_read /\ Output'.cap = Output.cap
  BY <1>2 DEF Pushed, Output
<1>5. Received(reassembler') \subseteq Nat
  BY <1>3, NextMissing
<1>6. \A p \in Nat : p \in Received(reassembler') =>
          \/ p \in Received(reassembler)
          \/ len > 0 /\ p < abs - 1 + len
  <2>1. CASE len = 0
    BY <1>2, <1>4, <2>1
  <2>2. CASE len > 0
    BY <1>1, <1>4, <2>2
  <2> QED
    BY <2>1, <2>2
<1>7. RightEdge(reassembler') = RightEdge(reassembler)
  BY <1>4 DEF RightEdge, Output
<1> QED
  BY <1>2, <1>3, <1>4, <1>5, <1>6, <1>7

(* What a delivery does to the acknowledgments: at most the reply, which   *)
(* carries the receiver's number and its window, is added.                 *)
Reply(ack) ==
    /\ receiver'.syn /\ ack.ackno = receiver'.ack
    /\ ack.win = Least(WindowSize(receiver'), MaxWindow)

LEMMA DeliverAcks ==
    ASSUME acks \in Seq([ackno : Int, win : 0..MaxWindow]),
           NEW seg \in wire, NEW again \in BOOLEAN, Deliver(seg, again),
           receiver'.syn => receiver'.ack \in Int /\ WindowSize(receiver') \in Nat
    PROVE  /\ acks' \in Seq([ackno : Int, win : 0..MaxWindow])
           /\ \A j \in DOMAIN acks' :
                  (\E k \in DOMAIN acks : acks'[j] = acks[k]) \/ Reply(acks'[j])
<1> DEFINE T == [ackno : Int, win : 0..MaxWindow]
           x == [ackno |-> receiver'.ack, win |-> Least(WindowSize(receiver'), MaxWindow)]
<1>1. acks' = acks \/ (receiver'.syn /\ acks' = Append(acks, x))
  BY DEF Deliver
<1>2. CASE acks' = acks
  BY <1>2
<1>3. CASE receiver'.syn /\ acks' = Append(acks, x)
  <2>1. x \in T
    BY <1>3, MaxWindowNat DEF Least
  <2>2. Reply(x)
    BY <1>3 DEF Reply
  <2> HIDE DEF x
  <2>3. /\ acks' \in Seq(T) /\ Len(acks') = Len(acks) + 1
        /\ \A j \in 1..Len(acks) : acks'[j] = acks[j]
        /\ acks'[Len(acks) + 1] = x
    BY <1>3, <2>1, AppendProperties
  <2>4. DOMAIN acks' = 1..(Len(acks) + 1) /\ DOMAIN acks = 1..Len(acks) /\ Len(acks) \in Nat
    BY <2>3
  <2>5. ASSUME NEW j \in DOMAIN acks'
        PROVE  (\E k \in DOMAIN acks : acks'[j] = acks[k]) \/ Reply(acks'[j])
    <3>1. j \in 1..Len(acks) \/ j = Len(acks) + 1
      BY <2>4
    <3> QED
      BY <2>2, <2>3, <2>4, <3>1, Zenon
  <2> QED
    BY <2>3, <2>5
<1> QED
  BY <1>1, <1>2, <1>3

(* A delivery preserves the invariant.                                     *)
LEMMA DeliverBase ==
    ASSUME Base, NEW seg \in wire, NEW again \in BOOLEAN, Deliver(seg, again)
    PROVE  Base'
<1>1. /\ UNCHANGED sender /\ wire' \subseteq wire
  BY DEF Deliver
<1>2. /\ SenderOK(sender) /\ sender.isn = Isn /\ sender.segments_out = <<>>
      /\ sender.stream.total_written <= StreamLength
      /\ sender.abs_ackno \in 0..(StreamLength + 2)
      /\ Received(reassembler) \subseteq 0..(sender.stream.total_read - 1)
      /\ receiver.end => sender.fin_sent
      /\ \A s \in wire : Issued(sender, s)
      /\ acks \in Seq([ackno : Int, win : 0..MaxWindow])
  BY DEF Base
<1>3. /\ sender.stream.total_read \in Nat /\ sender.stream.total_written \in Nat
      /\ sender.stream.total_read <= sender.stream.total_written /\ StreamLength \in Nat
  BY <1>2, Constants, SenderNumbers
<1>4. PICK abs \in Nat, len \in Nat, syn \in BOOLEAN, fin \in BOOLEAN :
          IssuedAt(sender, seg, abs, len, syn, fin)
  BY <1>2 DEF Issued
<1>5. /\ abs <= StreamLength + 1 /\ sender.syn
      /\ len > 0 => abs - 1 + len <= sender.stream.total_read
      /\ fin => sender.fin_sent
  BY <1>4, IssuedPlace
<1>6. /\ ReceiverOK(receiver', Isn) /\ receiver'.capacity = RecvCapacity
      /\ receiver'.checkpoint <= StreamLength + 2
      /\ Received(reassembler)' \subseteq 0..(sender.stream.total_read - 1)
      /\ receiver'.end => sender.fin_sent
  <2>1. CASE receiver' = receiver
    BY <2>1 DEF Base, reassembler
  <2>2. CASE Accepts(abs, len, syn, fin)
    <3>1. /\ \A p \in Nat : p \in Received(reassembler)' =>
                 \/ p \in Received(reassembler)
                 \/ len > 0 /\ p < abs - 1 + len
          /\ Received(reassembler)' \subseteq Nat
          /\ receiver'.capacity = RecvCapacity /\ receiver'.checkpoint = abs
          /\ receiver'.end = (receiver.end \/ fin)
      BY <2>2, AcceptsMeaning, Zenon
    <3>2. Received(reassembler)' \subseteq 0..(sender.stream.total_read - 1)
      BY <1>2, <1>3, <1>5, <3>1
    <3>3. receiver'.checkpoint <= StreamLength + 2
      BY <1>3, <1>5, <3>1
    <3> QED
      BY <1>2, <1>5, <2>2, <3>1, <3>2, <3>3 DEF Accepts
  <2> QED
    BY <1>4, <2>1, <2>2, DeliverStep
<1>7. /\ receiver'.exp_ack \in 0..(StreamLength + 2) /\ WindowSize(receiver') \in Nat
      /\ receiver'.syn => receiver'.ack = Wrap(receiver'.exp_ack, Isn)
  <2>1. /\ Received(receiver'.reassembler) \subseteq 0..(sender.stream.total_read - 1)
        /\ receiver'.capacity \in Nat /\ receiver'.syn \in BOOLEAN
    BY <1>6, Constants DEF reassembler, ReceiverOK
  <2>2. receiver'.reassembler.output.total_written <= sender.stream.total_read
    BY <1>3, <1>6, <2>1, WrittenBound
  <2>3. /\ receiver'.reassembler.output.total_written \in Nat
        /\ receiver'.exp_ack \in Nat /\ WindowSize(receiver') \in Nat
        /\ receiver'.syn =>
               receiver'.exp_ack <= receiver'.reassembler.output.total_written + 2
        /\ ~receiver'.syn => receiver'.exp_ack = 0
    BY <1>6, <2>1, ReceiverNumbers
  <2>4. receiver'.exp_ack \in 0..(StreamLength + 2)
    <3>1. CASE receiver'.syn
      <4>1. sender.stream.total_read <= StreamLength
        BY <1>2, <1>3
      <4>2. receiver'.exp_ack <= receiver'.reassembler.output.total_written + 2
        BY <2>3, <3>1
      <4> QED
        BY <1>3, <2>2, <2>3, <4>1, <4>2
    <3>2. CASE ~receiver'.syn
      BY <1>3, <2>3, <3>2
    <3> QED
      BY <3>1, <3>2
  <2>5. receiver'.syn => receiver'.ack = Wrap(receiver'.exp_ack, Isn)
    BY <1>6 DEF ReceiverOK
  <2> QED
    BY <2>3, <2>4, <2>5
<1>8. receiver'.syn => receiver'.ack \in Int
  <2>1. PICK n \in Nat : n = receiver'.exp_ack
    BY <1>7, Constants
  <2>2. Wrap(n, Isn) \in 0..(Modulus - 1)
    BY Constants, WrapRange
  <2>3. Wrap(n, Isn) \in Int
    BY <2>2, Constants
  <2> QED
    BY <1>7, <2>1, <2>3
<1>9. /\ acks' \in Seq([ackno : Int, win : 0..MaxWindow])
      /\ \A j \in DOMAIN acks' :
             (\E k \in DOMAIN acks : acks'[j] = acks[k]) \/ Reply(acks'[j])
  BY <1>2, <1>7, <1>8, DeliverAcks, Zenon
<1>10. \A j \in DOMAIN acks' :
           sender.syn /\ \E n \in 0..(StreamLength + 2) : acks'[j].ackno = Wrap(n, Isn)
  <2>1. \A k \in DOMAIN acks : \E n \in 0..(StreamLength + 2) : acks[k].ackno = Wrap(n, Isn)
    BY DEF Base
  <2> QED
    BY <1>5, <1>7, <1>9, <2>1, Zenon DEF Reply
<1>11. \A s \in wire' : Issued(sender, s)
  BY <1>1, <1>2
<1> QED
  BY <1>1, <1>2, <1>6, <1>9, <1>10, <1>11 DEF Base

(* What a read does to an invariant state.                                 *)
LEMMA ReadStep ==
    ASSUME Base, NEW len \in 1..RecvCapacity, Read(len)
    PROVE  /\ ReceiverOK(receiver', Isn)
           /\ \E n \in Nat : ReaderTook(receiver, n, receiver')
           /\ UNCHANGED <<sender, wire, acks>>
<1>1. len \in Nat /\ ReceiverOK(receiver, Isn)
  BY Constants DEF Base
<1>2. /\ receiver' = [receiver EXCEPT !.reassembler = ReadOutput(@, len)]
      /\ UNCHANGED <<sender, wire, acks>>
  BY DEF Read
<1>3. /\ ReceiverOK(receiver', Isn)
      /\ \E n \in Nat : n <= len /\ ReaderTook(receiver, n, receiver')
  BY <1>1, <1>2, ReceiverRead, Zenon
<1> QED
  BY <1>2, <1>3

(* A sequence of acknowledgments from which one is taken, or none.         *)
LEMMA TakenAcks ==
    ASSUME Base, NEW i \in DOMAIN acks, NEW again \in BOOLEAN, ReceiveAck(i, again)
    PROVE  OldAcks
<1>1. acks \in Seq([ackno : Int, win : 0..MaxWindow])
  BY DEF Base
<1>2. CASE again
  BY <1>1, <1>2 DEF ReceiveAck, OldAcks
<1>3. CASE ~again
  <2>1. acks' = SubSeq(acks, 1, i - 1) \o SubSeq(acks, i + 1, Len(acks))
    BY <1>3, Zenon DEF ReceiveAck
  <2> QED
    BY <1>1, <2>1, RemoveOne, Zenon DEF OldAcks
<1> QED
  BY <1>2, <1>3

(* The invariant is inductive.                                             *)
LEMMA NextBase == Base /\ [Next]_vars => Base'
<1> SUFFICES ASSUME Base, [Next]_vars PROVE Base'
  OBVIOUS
<1>1. CASE Connect \/ Close \/ Tick \/ \E len \in 1..SendCapacity : Write(len)
  <2>1. UNCHANGED <<receiver, acks>>
    BY <1>1, CallStep
  <2>2. PICK w : Moves(w) /\ Flush(w)
    BY <1>1, CallStep
  <2>3. OldAcks
    BY <2>1 DEF OldAcks, Base
  <2> QED
    BY <2>1, <2>2, <2>3, FlushBase
<1>2. ASSUME NEW seg \in wire, NEW again \in BOOLEAN, Deliver(seg, again)
      PROVE  Base'
  BY <1>2, DeliverBase
<1>3. ASSUME NEW i \in DOMAIN acks, NEW again \in BOOLEAN, ReceiveAck(i, again)
      PROVE  Base'
  <2>1. PICK n \in 0..(StreamLength + 2) : acks[i].ackno = Wrap(n, Isn)
    BY DEF Base
  <2>2. sender.syn
    BY DEF Base
  <2>3. PICK w : Moves(w) /\ Flush(w)
    BY <1>3, <2>1, <2>2, AckStep
  <2>4. receiver' = receiver
    BY <1>3 DEF ReceiveAck
  <2> QED
    BY <1>3, <2>3, <2>4, TakenAcks, FlushBase
<1>4. ASSUME NEW len \in 1..RecvCapacity, Read(len)
      PROVE  Base'
  <2>1. ReceiverOK(receiver', Isn) /\ UNCHANGED <<sender, wire, acks>>
    BY <1>4, ReadStep
  <2>2. PICK n \in Nat : ReaderTook(receiver, n, receiver')
    BY <1>4, ReadStep
  <2>3. /\ Received(reassembler)' = Received(reassembler)
        /\ receiver'.capacity = receiver.capacity
        /\ receiver'.checkpoint = receiver.checkpoint /\ receiver'.end = receiver.end
    BY <2>2 DEF ReaderTook, HasRead, reassembler
  <2> QED
    BY <2>1, <2>3, Zenon DEF Base
<1>5. CASE UNCHANGED vars
  BY <1>5 DEF Base, vars, reassembler
<1> QED
  BY <1>1, <1>2, <1>3, <1>4, <1>5 DEF Next

(* Whatever the network loses, repeats or reorders, the invariant holds    *)
(* between two calls.                                                      *)
THEOREM Invariant == Spec => []Base
BY InitBase, NextBase, PTL DEF Spec

(* Every state satisfies the type invariant: sequence numbers and window   *)
(* keep their ranges.                                                      *)
THEOREM TypeCorrect == Spec => []TypeOK
<1>1. ASSUME Base PROVE TypeOK
  <2>1. /\ SenderOK(sender) /\ sender.stream.total_written <= StreamLength
        /\ StreamLength \in Nat /\ Ready(reassembler)
        /\ FlightOK(sender) /\ StreamOK(sender.stream)
        /\ sender.fin_sent \in BOOLEAN /\ sender.syn \in BOOLEAN
    BY <1>1, Constants DEF Base, ReceiverOK, reassembler, SenderOK
  <2>2. /\ sender.next_seqno \in Nat
        /\ sender.stream.total_read \in Nat /\ sender.stream.total_written \in Nat
        /\ sender.stream.total_read <= sender.stream.total_written
        /\ sender.recv_wdn_sz \in 0..MaxWindow
        /\ sender.elapsed_time \in Nat /\ sender.rto \in Nat
    BY <2>1, SenderNumbers DEF SenderOK, FlightOK
  <2>3. sender.next_seqno \in 0..(StreamLength + 2)
    <3>1. sender.next_seqno <= sender.stream.total_read + 2
      <4>1. /\ sender.syn => sender.next_seqno
                                 = sender.stream.total_read + (IF sender.fin_sent THEN 2 ELSE 1)
            /\ ~sender.syn => sender.next_seqno = 0
        BY <2>1 DEF SenderOK
      <4>2. CASE sender.syn
        BY <2>2, <4>1, <4>2
      <4>3. CASE ~sender.syn
        BY <2>2, <4>1, <4>3
      <4> QED
        BY <4>2, <4>3
    <3> QED
      BY <2>1, <2>2, <3>1
  <2>4. DOMAIN sender.outstanding \subseteq 1..(StreamLength + 2)
    <3> DEFINE f == Lengths(sender.outstanding)
    <3>1. /\ DOMAIN f = DOMAIN sender.outstanding /\ DOMAIN f \subseteq Nat
          /\ sender.next_seqno - sender.bytes_in_flight \in Nat
          /\ \A k \in DOMAIN f : /\ f[k] \in Nat \ {0} /\ k <= sender.next_seqno
                                 /\ sender.next_seqno - sender.bytes_in_flight <= k - f[k]
      BY <2>1, Zenon DEF FlightOK, Tiles, Lengths
    <3> HIDE DEF f
    <3> QED
      BY <2>1, <2>3, <3>1
  <2>5. sender.stream.buf \in Seq(Nat)
    <3>1. sender.stream.total_written - sender.stream.total_read \in Nat
      BY <2>2
    <3> QED
      BY <2>1, <2>2, <3>1, SubstringSeq DEF StreamOK
  <2>6. ReassemblerType(reassembler)
    BY <2>1 DEF Ready
  <2> QED
    BY <2>2, <2>3, <2>4, <2>5, <2>6 DEF TypeOK
<1> QED
  BY <1>1, Invariant, PTL

(* The outstanding segments leave no gap.                                  *)
LEMMA BaseFlight ==
    ASSUME Base
    PROVE  InFlightExact
<1> DEFINE f == Lengths(sender.outstanding)
<1>1. Tiles(f, sender.next_seqno - sender.bytes_in_flight, sender.next_seqno)
  BY DEF Base, SenderOK, FlightOK
<1>2. UNION {(k - f[k])..(k - 1) : k \in DOMAIN f}
          = (sender.next_seqno - sender.bytes_in_flight)..(sender.next_seqno - 1)
  BY <1>1, TilesCover
<1>3. InFlight = UNION {(k - f[k])..(k - 1) : k \in DOMAIN f}
  BY Zenon DEF InFlight, Lengths
<1> QED
  BY <1>2, <1>3 DEF InFlightExact

(* The outstanding segments are the last bytes_in_flight numbers sent,     *)
(* whatever acknowledgments arrived, and in whatever order.                *)
THEOREM FlightIsExact == Spec => []InFlightExact
BY BaseFlight, Invariant, PTL

(* Every byte is read at the position it was written at, though segments   *)
(* are cut by fill_window, numbered modulo the sequence space, lost,       *)
(* repeated and reordered on the way.                                      *)
THEOREM BytesStayInPlace == Spec => []InPlace
<1>1. ASSUME Base PROVE InPlace
  <2>1. /\ OutputInPlace(reassembler)
        /\ Stored(reassembler, reassembler.expected_index + 1)
    BY <1>1 DEF Base, ReceiverOK, Ready, reassembler
  <2> QED
    BY <2>1 DEF InPlace, BytesInPlace, OutputInPlace, Stored
<1> QED
  BY <1>1, Invariant, PTL

-----------------------------------------------------------------------------
(* What holds when a FIN without payload waits for the data before it.     *)

(* The constructors establish the extension.                               *)
LEMMA InitLink == Init => Link
<1> SUFFICES ASSUME Init PROVE Link
  OBVIOUS
<1>1. /\ sender = NewSender(SendCapacity, Isn) /\ receiver = NewReceiver(RecvCapacity)
      /\ wire = {} /\ acks = <<>> /\ SendCapacity \in Nat /\ RecvCapacity \in Nat
  BY Constants DEF Init
<1>2. /\ sender.stream.total_written = 0 /\ sender.next_seqno = 0
      /\ sender.bytes_in_flight = 0 /\ sender.recv_wdn_sz = 0
      /\ sender.outstanding = EmptyMap
  BY <1>1, NewSenderOK, Zenon
<1>3. /\ ReceiverOK(receiver, Isn) /\ receiver.capacity = RecvCapacity
      /\ receiver.syn = FALSE /\ reassembler = NewReassembler(RecvCapacity)
  BY <1>1, NewReceiverOK, Zenon DEF reassembler
<1>4. /\ Received(reassembler) = {} /\ reassembler.input_ended = FALSE
      /\ Output.input_ended = FALSE
  BY <1>1, <1>3, NewReassemblerReady, Zenon DEF Output
<1>5. receiver.exp_ack = 0 /\ ~receiver.end
  BY <1>3 DEF ReceiverOK
<1>6. WindowSize(receiver) \in Nat
  BY <1>1, <1>3, ReceiverNumbers
<1>7. Ending(receiver, sender.stream.total_written)
  BY <1>2, <1>4, <1>5 DEF Ending, reassembler, Output
<1>8. OneFin
  <2>1. Pending = {}
    BY <1>1, <1>2 DEF Pending, Range, EmptyMap
  <2> QED
    BY <2>1 DEF OneFin, FinWithData
<1>9. AcksBehind
  BY <1>1 DEF AcksBehind
<1>10. InWindow
  BY <1>2, <1>5, <1>6 DEF InWindow, Edge
<1> QED
  BY <1>7, <1>8, <1>9, <1>10 DEF Link

(* A segment that holds the last byte ends the stream.                     *)
LEMMA LastByte ==
    ASSUME NEW s, NEW seg, NEW abs \in Nat, NEW len \in Nat,
           NEW syn \in BOOLEAN, NEW fin \in BOOLEAN, IssuedAt(s, seg, abs, len, syn, fin)
    PROVE  /\ seg.payload # <<>> <=> len > 0
           /\ len > 0 => seg.payload[Len(seg.payload)] = abs - 1 + len - 1
           /\ len > 0 => abs > 0 /\ abs - 1 + len <= s.stream.total_read
<1>1. /\ seg.payload = Substring(IF syn THEN 0 ELSE abs - 1, len)
      /\ syn => len = 0
      /\ ~syn => abs > 0 /\ abs - 1 + len <= s.stream.total_read
  BY DEF IssuedAt, SegmentAt
<1>2. PICK i \in Nat : /\ i = (IF syn THEN 0 ELSE abs - 1)
                       /\ len > 0 => i = abs - 1
  BY <1>1
<1>3. /\ seg.payload \in Seq(Nat) /\ Len(seg.payload) = len
      /\ \A j \in 1..len : seg.payload[j] = i + j - 1
      /\ seg.payload = <<>> <=> len = 0
  <2>1. seg.payload = Substring(i, len)
    BY <1>1, <1>2
  <2> QED
    BY <2>1, SubstringSeq
<1>4. seg.payload # <<>> <=> len > 0
  BY <1>3
<1>5. ASSUME len > 0 PROVE seg.payload[Len(seg.payload)] = abs - 1 + len - 1
  <2>1. len \in 1..len /\ i = abs - 1
    BY <1>2, <1>5
  <2> QED
    BY <1>3, <2>1
<1> QED
  BY <1>1, <1>4, <1>5

(* What is pending was sent.                                               *)
LEMMA PendingIssued ==
    ASSUME Base, NEW seg \in Pending
    PROVE  /\ Issued(sender, seg)
           /\ seg.fin => sender.fin_sent
           /\ \A n \in Nat : HoldsLast(seg, n) => n <= sender.stream.total_read
<1>1. Issued(sender, seg)
  BY DEF Base, SenderOK, Pending
<1>2. PICK abs \in Nat, len \in Nat, syn \in BOOLEAN, fin \in BOOLEAN :
          IssuedAt(sender, seg, abs, len, syn, fin)
  BY <1>1 DEF Issued
<1>3. seg.fin => sender.fin_sent
  BY <1>2 DEF IssuedAt, SegmentAt
<1>4. /\ seg.payload # <<>> <=> len > 0
      /\ len > 0 => seg.payload[Len(seg.payload)] = abs - 1 + len - 1
      /\ len > 0 => abs > 0 /\ abs - 1 + len <= sender.stream.total_read
  BY <1>2, LastByte, Zenon
<1>5. sender.stream.total_read \in Nat
  BY SenderNumbers DEF Base
<1>6. ASSUME NEW n \in Nat, HoldsLast(seg, n) PROVE n <= sender.stream.total_read
  <2>1. len > 0 /\ seg.payload[Len(seg.payload)] = n - 1
    BY <1>4, <1>6 DEF HoldsLast
  <2> QED
    BY <1>4, <1>5, <2>1
<1> QED
  BY <1>1, <1>3, <1>6

(* A call of the sender preserves what Link says of the end and of the     *)
(* acknowledgments.                                                        *)
LEMMA FlushLink ==
    ASSUME Base, Link, NEW w, Moves(w), Flush(w), receiver' = receiver, OldAcks
    PROVE  /\ Ending(receiver, sender.stream.total_written)'
           /\ OneFin' /\ AcksBehind'
<1>1. /\ SenderOK(sender) /\ Goes(sender, w)
      /\ Received(reassembler) \subseteq 0..(sender.stream.total_read - 1)
      /\ receiver.end => sender.fin_sent
      /\ Ending(receiver, sender.stream.total_written)
  BY DEF Base, Moves, Link
<1>2. /\ SenderOK(sender') /\ Onward(sender, sender')
      /\ sender'.outstanding = w.outstanding /\ sender'.stream = w.stream
      /\ wire' \subseteq wire \cup Range(w.segments_out)
  BY <1>1, FlushStep
<1> DEFINE tw == sender.stream.total_written
           tr == sender.stream.total_read
           queue == Range(w.segments_out)
<1>3. /\ tw \in Nat /\ tr \in Nat /\ tr <= tw /\ tw' \in Nat
      /\ tw <= tw' /\ (sender.fin_sent => tw' = tw)
  BY <1>1, <1>2, SenderNumbers DEF Onward
<1>4. Ending(receiver', tw')
  <2>1. CASE receiver.end
    <3>1. tw' = tw
      BY <1>1, <1>3, <2>1
    <3> QED
      BY <1>1, <3>1
  <2>2. CASE ~receiver.end
    BY <1>1, <1>3, <2>2 DEF Ending
  <2> QED
    BY <2>1, <2>2
<1>5. Pending' \subseteq Pending \cup queue
  BY <1>1, <1>2 DEF Pending, Goes
<1>6. Received(reassembler)' = Received(reassembler)
  BY DEF reassembler
<1>7. ASSUME FinWithData(Pending')
      PROVE  /\ \A seg \in Pending' : HoldsLast(seg, tw') => seg.fin
             /\ tw' - 1 \in Received(reassembler) => receiver.end
  <2>1. CASE queue \subseteq Range(sender.outstanding)
    <3>1. Pending' \subseteq Pending
      BY <1>5, <2>1 DEF Pending
    <3>2. FinWithData(Pending)
      BY <1>7, <3>1 DEF FinWithData
    <3>3. sender.fin_sent
      BY <3>2, PendingIssued DEF FinWithData
    <3>4. tw' = tw
      BY <1>3, <3>3
    <3>5. /\ \A seg \in Pending : HoldsLast(seg, tw) => seg.fin
          /\ tw - 1 \in Received(reassembler) => receiver.end
      BY <3>2 DEF Link, OneFin
    <3> HIDE DEF tw
    <3> QED
      BY <3>1, <3>4, <3>5
  <2>2. CASE Fresh(sender, w)
    <3>1. ~sender.fin_sent
      BY <2>2 DEF Fresh
    <3>2. FinWithData(queue)
      BY <1>5, <1>7, <3>1, PendingIssued DEF FinWithData
    <3>3. tr < tw' /\ \A seg \in queue : HoldsLast(seg, tw') => seg.fin
      BY <1>2, <2>2, <3>2 DEF Fresh
    <3>4. \A seg \in Pending : ~HoldsLast(seg, tw')
      <4> SUFFICES ASSUME NEW seg \in Pending, HoldsLast(seg, tw') PROVE FALSE
        OBVIOUS
      <4>1. tw' <= tr
        BY <1>3, PendingIssued
      <4> QED
        BY <1>3, <3>3, <4>1
    <3>5. tw' - 1 \notin Received(reassembler)
      BY <1>1, <1>3, <3>3
    <3> QED
      BY <1>5, <3>3, <3>4, <3>5
  <2> QED
    BY <1>1, <2>1, <2>2 DEF Goes
<1>8. OneFin'
  BY <1>6, <1>7 DEF OneFin, FinWithData
<1>9. AcksBehind'
  <2>1. Edge' = Edge
    BY DEF Edge
  <2>2. \A k \in DOMAIN acks : \E n \in Nat :
            /\ acks[k].ackno = Wrap(n, Isn) /\ n <= receiver.exp_ack
            /\ n + acks[k].win <= Edge
    BY DEF Link, AcksBehind
  <2> QED
    BY <2>1, <2>2, Zenon DEF AcksBehind, OldAcks
<1> QED
  BY <1>4, <1>8, <1>9

(* The numbers of both ends and of the sender after a call.                *)
LEMMA WindowNumbers ==
    ASSUME Base, NEW w, Moves(w), Flush(w), receiver' = receiver
    PROVE  /\ sender.next_seqno \in Nat /\ sender.bytes_in_flight \in Nat
           /\ sender.recv_wdn_sz \in Nat /\ sender.bytes_in_flight <= sender.next_seqno
           /\ w.next_seqno \in Nat /\ w.bytes_in_flight \in Nat /\ w.recv_wdn_sz \in Nat
           /\ sender'.next_seqno = w.next_seqno
           /\ sender'.bytes_in_flight = w.bytes_in_flight
           /\ sender'.recv_wdn_sz = w.recv_wdn_sz
           /\ receiver.exp_ack \in Nat /\ Edge \in Nat
           /\ receiver'.exp_ack = receiver.exp_ack /\ Edge' = Edge
<1>1. /\ SenderOK(sender) /\ Goes(sender, w) /\ SenderOK(w)
      /\ ReceiverOK(receiver, Isn) /\ receiver.capacity \in Nat
  BY Constants DEF Base, Moves, Goes
<1>2. SameNumbers(w, sender')
  BY <1>1, FlushStep
<1>3. receiver.exp_ack \in Nat /\ WindowSize(receiver) \in Nat
  BY <1>1, ReceiverNumbers
<1>4. Edge \in Nat
  BY <1>3 DEF Edge
<1> QED
  BY <1>1, <1>2, <1>3, <1>4, SenderNumbers DEF SameNumbers, Edge

(* The calls of the writer and of the clock stay inside the window.        *)
LEMMA CallWindow ==
    ASSUME Base, InWindow, NEW w, Moves(w), Keeps(sender, w), Flush(w), receiver' = receiver
    PROVE  InWindow'
<1>1. PICK n, b, r, n1, b1, r1, a, e \in Nat :
          /\ n = sender.next_seqno /\ b = sender.bytes_in_flight /\ r = sender.recv_wdn_sz
          /\ n1 = w.next_seqno /\ b1 = w.bytes_in_flight /\ r1 = w.recv_wdn_sz
          /\ a = receiver.exp_ack /\ e = Edge /\ b <= n
          /\ n1 = sender'.next_seqno /\ b1 = sender'.bytes_in_flight
          /\ r1 = sender'.recv_wdn_sz /\ a = receiver'.exp_ack /\ e = Edge'
  BY WindowNumbers, Zenon
<1>2. n - b <= a /\ (n + r <= e \/ (n + r = e + 1 /\ b + r = 1))
  BY <1>1 DEF InWindow
<1>3. /\ n1 - b1 = n - b
      /\ n1 + r1 = n + r \/ (n = 0 /\ n1 = 1 /\ r1 = 0)
  BY <1>1 DEF Keeps, Base, SenderOK
<1>4. n1 - b1 <= a /\ (n1 + r1 <= e \/ (n1 + r1 = e + 1 /\ b1 + r1 = 1))
  <2>1. b <= n
    BY <1>1
  <2> QED
    BY <1>2, <1>3, <2>1
<1> QED
  BY <1>1, <1>4 DEF InWindow

(* So does a call of ack_received: the window it learns of is the          *)
(* receiver's, or an older one.                                            *)
LEMMA AckWindow ==
    ASSUME Base, InWindow, NEW w, Moves(w), Flush(w), receiver' = receiver,
           NEW k \in Nat, NEW win \in Nat, AckResult(sender, k, win, w),
           k <= receiver.exp_ack, k + win <= Edge
    PROVE  InWindow'
<1>1. PICK n, b, r, n1, b1, r1, a, e \in Nat :
          /\ n = sender.next_seqno /\ b = sender.bytes_in_flight /\ r = sender.recv_wdn_sz
          /\ n1 = w.next_seqno /\ b1 = w.bytes_in_flight /\ r1 = w.recv_wdn_sz
          /\ a = receiver.exp_ack /\ e = Edge /\ b <= n
          /\ n1 = sender'.next_seqno /\ b1 = sender'.bytes_in_flight
          /\ r1 = sender'.recv_wdn_sz /\ a = receiver'.exp_ack /\ e = Edge'
  BY WindowNumbers, Zenon
<1>2. n - b <= a /\ (n + r <= e \/ (n + r = e + 1 /\ b + r = 1))
  BY <1>1 DEF InWindow
<1>3. /\ n1 - b1 \in {n - b, k}
      /\ \/ n1 = n /\ r1 \in {0, r} /\ b1 = b
         \/ n1 + r1 = k + win
         \/ win = 0 /\ n1 - b1 = k /\ n1 + r1 = k + 1
  BY <1>1 DEF AckResult
<1>4. k <= a /\ k + win <= e
  BY <1>1
<1>5. n1 - b1 <= a
  BY <1>2, <1>3, <1>4
<1>6. n1 + r1 <= e \/ (n1 + r1 = e + 1 /\ b1 + r1 = 1)
  <2>1. CASE n1 = n /\ r1 \in {0, r} /\ b1 = b
    BY <1>2, <2>1
  <2>2. CASE n1 + r1 = k + win
    BY <1>4, <2>2
  <2>3. CASE win = 0 /\ n1 - b1 = k /\ n1 + r1 = k + 1
    BY <1>4, <2>3
  <2> QED
    BY <1>3, <2>1, <2>2, <2>3
<1> QED
  BY <1>1, <1>5, <1>6 DEF InWindow

(* The acknowledgment and the right edge of the window in terms of the     *)
(* stream that a receiver has handed on.                                   *)
LEMMA EdgeMeaning ==
    ASSUME NEW r, ReceiverOK(r, Isn), r.capacity \in Nat, NEW n, Ending(r, n)
    PROVE  LET a == r.reassembler
           IN  \E e \in {0, 1} :
                   /\ a.output.input_ended <=> e = 1
                   /\ r.syn => /\ r.exp_ack = a.output.total_written + 1 + e
                               /\ r.exp_ack + WindowSize(r) = RightEdge(a) + 1 + e
                   /\ ~r.syn => r.exp_ack = 0 /\ r.exp_ack + WindowSize(r) = RightEdge(a)
<1> DEFINE a == r.reassembler
           tw == a.output.total_written
<1>1. PICK e \in {0, 1} : e = (IF a.output.input_ended THEN 1 ELSE 0)
  BY Zenon
<1>2. a.output.input_ended <=> e = 1
  BY <1>1
<1>3. /\ tw \in Nat /\ a.output.total_read \in Nat
      /\ RightEdge(a) = a.output.total_read + r.capacity
      /\ WindowSize(r) = RightEdge(a) - tw /\ r.exp_ack \in Nat
      /\ ~r.syn => tw = 0 /\ r.exp_ack = 0
  BY ReceiverNumbers
<1>4. r.syn => r.exp_ack = tw + 1 + e
  BY <1>1, EndingMeaning
<1> HIDE DEF a, tw
<1>5. RightEdge(a) \in Nat
  BY <1>3
<1>6. r.syn => r.exp_ack + WindowSize(r) = RightEdge(a) + 1 + e
  BY <1>3, <1>4, <1>5
<1>7. ~r.syn => r.exp_ack = 0 /\ r.exp_ack + WindowSize(r) = RightEdge(a)
  BY <1>3, <1>5
<1> QED
  BY <1>2, <1>4, <1>6, <1>7 DEF a, tw

(* A receiver that got further acknowledges no less, and its window does   *)
(* not shrink.                                                             *)
LEMMA EdgeAdvances ==
    ASSUME NEW r, ReceiverOK(r, Isn), r.capacity \in Nat, NEW n, Ending(r, n),
           NEW w, ReceiverOK(w, Isn), w.capacity \in Nat, Ending(w, n),
           r.syn => w.syn,
           r.reassembler.output.total_written <= w.reassembler.output.total_written,
           r.reassembler.output.input_ended => w.reassembler.output.input_ended,
           RightEdge(r.reassembler) <= RightEdge(w.reassembler)
    PROVE  /\ r.exp_ack <= w.exp_ack
           /\ r.exp_ack + WindowSize(r) <= w.exp_ack + WindowSize(w)
<1> DEFINE a == r.reassembler
           b == w.reassembler
<1>1. PICK e \in {0, 1} :
          /\ a.output.input_ended <=> e = 1
          /\ r.syn => /\ r.exp_ack = a.output.total_written + 1 + e
                      /\ r.exp_ack + WindowSize(r) = RightEdge(a) + 1 + e
          /\ ~r.syn => r.exp_ack = 0 /\ r.exp_ack + WindowSize(r) = RightEdge(a)
  BY EdgeMeaning
<1>2. PICK d \in {0, 1} :
          /\ b.output.input_ended <=> d = 1
          /\ w.syn => /\ w.exp_ack = b.output.total_written + 1 + d
                      /\ w.exp_ack + WindowSize(w) = RightEdge(b) + 1 + d
          /\ ~w.syn => w.exp_ack = 0 /\ w.exp_ack + WindowSize(w) = RightEdge(b)
  BY EdgeMeaning
<1>3. /\ a.output.total_written \in Nat /\ RightEdge(a) \in Nat
      /\ a.output.total_read \in Nat /\ r.syn \in BOOLEAN
  <2>1. /\ a.output.total_written \in Nat /\ a.output.total_read \in Nat
        /\ RightEdge(a) = a.output.total_read + r.capacity
    BY ReceiverNumbers
  <2>2. r.syn \in BOOLEAN
    BY DEF ReceiverOK
  <2> QED
    BY <2>1, <2>2
<1>4. /\ b.output.total_written \in Nat /\ RightEdge(b) \in Nat
      /\ b.output.total_read \in Nat /\ w.syn \in BOOLEAN
  <2>1. /\ b.output.total_written \in Nat /\ b.output.total_read \in Nat
        /\ RightEdge(b) = b.output.total_read + w.capacity
    BY ReceiverNumbers
  <2>2. w.syn \in BOOLEAN
    BY DEF ReceiverOK
  <2> QED
    BY <2>1, <2>2
<1>5. e <= d
  BY <1>1, <1>2
<1> HIDE DEF a, b
<1>6. /\ a.output.total_written <= b.output.total_written /\ RightEdge(a) <= RightEdge(b)
  BY DEF a, b
<1>7. CASE r.syn
  BY <1>1, <1>2, <1>3, <1>4, <1>5, <1>6, <1>7
<1>8. CASE ~r.syn /\ w.syn
  BY <1>1, <1>2, <1>3, <1>4, <1>6, <1>8
<1>9. CASE ~r.syn /\ ~w.syn
  BY <1>1, <1>2, <1>3, <1>4, <1>6, <1>9
<1> QED
  BY <1>7, <1>8, <1>9

(* A step of the receiver takes its stream further, and back nowhere.      *)
Further ==
    /\ Ending(receiver', sender.stream.total_written)
    /\ receiver.syn => receiver'.syn
    /\ Output.total_written <= Output'.total_written
    /\ Output.input_ended => Output'.input_ended
    /\ RightEdge(reassembler) <= RightEdge(reassembler)'

(* Such a step preserves what Link says of acknowledgments and window, for *)
(* the reply it sends too.                                                 *)
LEMMA FurtherLink ==
    ASSUME Base, Link, Base', UNCHANGED sender, Further,
           \A j \in DOMAIN acks' :
               (\E k \in DOMAIN acks : acks'[j] = acks[k]) \/ Reply(acks'[j])
    PROVE  AcksBehind' /\ InWindow'
<1>1. /\ ReceiverOK(receiver, Isn) /\ ReceiverOK(receiver', Isn)
      /\ receiver.capacity \in Nat /\ receiver'.capacity \in Nat
  BY Constants DEF Base
<1>2. /\ receiver.exp_ack <= receiver'.exp_ack /\ Edge <= Edge'
  <2>1. /\ receiver.exp_ack <= receiver'.exp_ack
        /\ receiver.exp_ack + WindowSize(receiver)
               <= receiver'.exp_ack + WindowSize(receiver')
    BY <1>1, EdgeAdvances DEF Further, Link, Output, reassembler
  <2> QED
    BY <2>1 DEF Edge
<1>3. /\ receiver.exp_ack \in Nat /\ WindowSize(receiver) \in Nat
  BY <1>1, ReceiverNumbers
<1>4. /\ receiver'.exp_ack \in Nat /\ WindowSize(receiver') \in Nat
  BY <1>1, ReceiverNumbers
<1>5. Edge \in Nat /\ Edge' \in Nat /\ Edge' = receiver'.exp_ack + WindowSize(receiver')
  BY <1>3, <1>4 DEF Edge
<1>6. ASSUME NEW j \in DOMAIN acks'
      PROVE  \E n \in Nat : /\ acks'[j].ackno = Wrap(n, Isn) /\ n <= receiver'.exp_ack
                            /\ n + acks'[j].win <= Edge'
  <2>1. ASSUME NEW k \in DOMAIN acks, acks'[j] = acks[k]
        PROVE  \E n \in Nat : /\ acks'[j].ackno = Wrap(n, Isn) /\ n <= receiver'.exp_ack
                              /\ n + acks'[j].win <= Edge'
    <3>1. acks[k] \in [ackno : Int, win : 0..MaxWindow]
      <4>1. acks \in Seq([ackno : Int, win : 0..MaxWindow])
        BY DEF Base
      <4>2. k \in 1..Len(acks)
        BY <4>1
      <4> QED
        BY <4>1, <4>2, ElementOfSeq, Zenon
    <3>2. acks[k].win \in Nat
      BY <3>1, MaxWindowNat
    <3>3. PICK n \in Nat : /\ acks[k].ackno = Wrap(n, Isn) /\ n <= receiver.exp_ack
                           /\ n + acks[k].win <= Edge
      BY DEF Link, AcksBehind
    <3>4. n <= receiver'.exp_ack /\ n + acks[k].win <= Edge'
      BY <1>2, <1>3, <1>4, <1>5, <3>2, <3>3
    <3> QED
      BY <2>1, <3>3, <3>4
  <2>2. ASSUME Reply(acks'[j])
        PROVE  \E n \in Nat : /\ acks'[j].ackno = Wrap(n, Isn) /\ n <= receiver'.exp_ack
                              /\ n + acks'[j].win <= Edge'
    <3>1. /\ acks'[j].ackno = Wrap(receiver'.exp_ack, Isn)
          /\ acks'[j].win = Least(WindowSize(receiver'), MaxWindow)
      BY <1>1, <2>2 DEF Reply, ReceiverOK
    <3>2. Least(WindowSize(receiver'), MaxWindow) \in Nat
          /\ Least(WindowSize(receiver'), MaxWindow) <= WindowSize(receiver')
      BY <1>4, MaxWindowNat DEF Least
    <3>3. /\ receiver'.exp_ack <= receiver'.exp_ack
          /\ receiver'.exp_ack + acks'[j].win <= Edge'
      BY <1>4, <1>5, <3>1, <3>2
    <3> QED
      BY <1>4, <3>1, <3>3
  <2> QED
    BY <2>1, <2>2
<1>7. AcksBehind'
  BY <1>6 DEF AcksBehind
<1>8. InWindow'
  <2>1. PICK n, b, r \in Nat :
            /\ n = sender.next_seqno /\ b = sender.bytes_in_flight
            /\ r = sender.recv_wdn_sz
    BY SenderNumbers, Zenon DEF Base
  <2>2. /\ n - b <= receiver.exp_ack
        /\ n + r <= Edge \/ (n + r = Edge + 1 /\ b + r = 1)
    BY <2>1 DEF Link, InWindow
  <2>3. /\ n - b <= receiver'.exp_ack
        /\ n + r <= Edge' \/ (n + r = Edge' + 1 /\ b + r = 1)
    BY <1>2, <1>3, <1>4, <1>5, <2>2
  <2> QED
    BY <2>1, <2>3 DEF InWindow
<1> QED
  BY <1>7, <1>8

(* A segment that comes with the FIN lies inside the window, and the FIN   *)
(* marks the end where the stream ends.                                    *)
LEMMA FinArrives ==
    ASSUME ~FinOvertakes, Base, Link,
           NEW seg \in wire, NEW again \in BOOLEAN, Deliver(seg, again),
           NEW abs \in Nat, NEW len \in Nat, NEW syn \in BOOLEAN, NEW fin \in BOOLEAN,
           IssuedAt(sender, seg, abs, len, syn, fin), syn # receiver.syn,
           NEW index, len > 0 => index = abs - 1
    PROVE  FinInPlace(receiver, index, len, fin, sender.stream.total_written)
<1> DEFINE tw == sender.stream.total_written
           tr == sender.stream.total_read
<1>1. /\ syn => len = 0 /\ ~fin
      /\ ~syn => abs > 0 /\ abs - 1 + len <= tr
      /\ fin => sender.fin_sent /\ abs - 1 + len = tw
  BY IssuedPlace
<1>2. tr \in Nat /\ tw \in Nat /\ tr <= tw /\ receiver.syn \in BOOLEAN
  BY SenderNumbers DEF Base, ReceiverOK
<1>3. len > 0 => index + len <= tw
  BY <1>1, <1>2
<1>4. seg.fin = fin /\ (seg.payload # <<>> <=> len > 0)
  <2>1. seg.fin = fin
    BY DEF IssuedAt, SegmentAt
  <2>2. seg.payload # <<>> <=> len > 0
    BY LastByte, Zenon
  <2> QED
    BY <2>1, <2>2
<1>5. ASSUME fin, len = 0 PROVE Output.total_written = tw
  BY <1>4, <1>5 DEF Deliver, HeldBack, Output, reassembler
<1>6. ASSUME fin, len > 0
      PROVE  /\ index + len = tw /\ tw <= RightEdge(reassembler)
             /\ tw - 1 \in Received(reassembler) => receiver.end
  <2>1. index + len = tw
    BY <1>1, <1>6
  <2>2. seg \in Pending /\ FinWithData(Pending)
    BY <1>4, <1>6, Zenon DEF Pending, FinWithData
  <2>3. tw - 1 \in Received(reassembler) => receiver.end
    BY <2>2 DEF Link, OneFin
  <2>4. ~syn /\ receiver.syn
    BY <1>1, <1>2, <1>6
  <2>5. /\ ReceiverOK(receiver, Isn) /\ receiver.capacity \in Nat /\ Ending(receiver, tw)
    BY Constants DEF Base, Link
  <2>6. PICK e \in {0, 1} : /\ Output.input_ended <=> e = 1
                            /\ receiver.exp_ack = Output.total_written + 1 + e
                            /\ Edge = RightEdge(reassembler) + 1 + e
    BY <2>4, <2>5, EdgeMeaning DEF Output, reassembler, Edge
  <2>7. /\ Output.input_ended => Output.total_written = tw
    BY <2>5, EndingMeaning DEF Output, reassembler
  <2>8. /\ Output.total_written \in Nat /\ RightEdge(reassembler) \in Nat
        /\ Output.total_written <= RightEdge(reassembler)
    <3>1. /\ Output.total_written \in Nat /\ Output.total_read \in Nat
          /\ RightEdge(reassembler) = Output.total_read + receiver.capacity
          /\ WindowSize(receiver) = RightEdge(reassembler) - Output.total_written
          /\ WindowSize(receiver) \in Nat
      BY <2>5, ReceiverNumbers DEF Output, reassembler
    <3> QED
      BY <2>5, <3>1
  <2>9. /\ sender.next_seqno = tw + 2 /\ sender.recv_wdn_sz \in Nat
    <3>1. sender.fin_sent
      BY <1>1, <1>6
    <3>2. sender.syn /\ tr = tw
      BY <3>1, Zenon DEF Base, SenderOK
    <3>3. sender.next_seqno = tr + (IF sender.fin_sent THEN 2 ELSE 1)
      BY <3>2 DEF Base, SenderOK
    <3> QED
      BY <3>1, <3>2, <3>3, SenderNumbers DEF Base
  <2>10. tw + 2 + sender.recv_wdn_sz <= Edge + 1
    <3>1. \/ sender.next_seqno + sender.recv_wdn_sz <= Edge
          \/ sender.next_seqno + sender.recv_wdn_sz = Edge + 1
      BY DEF Link, InWindow
    <3> QED
      BY <1>2, <2>6, <2>8, <2>9, <3>1
  <2>11. tw <= RightEdge(reassembler)
    <3>1. CASE e = 1
      BY <2>6, <2>7, <2>8, <3>1
    <3>2. CASE e = 0
      BY <1>2, <2>6, <2>8, <2>9, <2>10, <3>2
    <3> QED
      BY <3>1, <3>2
  <2> QED
    BY <2>1, <2>3, <2>11
<1>7. len = 0 \/ len > 0
  OBVIOUS
<1> QED
  BY <1>3, <1>5, <1>6, <1>7 DEF FinInPlace, Output, reassembler

(* A delivery takes the receiver further and preserves the extension.      *)
LEMMA DeliverLink ==
    ASSUME ~FinOvertakes, Base, Base', Link,
           NEW seg \in wire, NEW again \in BOOLEAN, Deliver(seg, again)
    PROVE  Further /\ Link'
<1> DEFINE tw == sender.stream.total_written
           tr == sender.stream.total_read
<1>1. /\ UNCHANGED sender /\ wire' \subseteq wire
      /\ ReceiverOK(receiver, Isn) /\ ReceiverOK(receiver', Isn) /\ Ending(receiver, tw)
      /\ receiver'.capacity \in Nat
      /\ \A s \in wire : Issued(sender, s)
      /\ acks \in Seq([ackno : Int, win : 0..MaxWindow])
  BY Constants DEF Deliver, Base, Link
<1>2. tr \in Nat /\ tw \in Nat /\ tr <= tw
  BY SenderNumbers, Zenon DEF Base
<1>3. Pending' \subseteq Pending
  BY <1>1 DEF Pending
<1>4. PICK abs \in Nat, len \in Nat, syn \in BOOLEAN, fin \in BOOLEAN :
          IssuedAt(sender, seg, abs, len, syn, fin)
  BY <1>1 DEF Issued
<1>5. ASSUME receiver' = receiver PROVE Further /\ OneFin'
  <2>1. Further
    <3>1. Output.total_written \in Nat /\ RightEdge(reassembler) \in Nat
      <4>1. /\ receiver.capacity \in Nat
        BY Constants DEF Base
      <4>2. /\ Output.total_written \in Nat /\ Output.total_read \in Nat
            /\ RightEdge(reassembler) = Output.total_read + receiver.capacity
        BY <1>1, <4>1, ReceiverNumbers DEF Output, reassembler
      <4> QED
        BY <4>1, <4>2
    <3>2. Output' = Output /\ RightEdge(reassembler)' = RightEdge(reassembler)
      BY <1>5 DEF Output, reassembler
    <3> QED
      BY <1>1, <1>5, <3>1, <3>2 DEF Further
  <2>2. OneFin'
    BY <1>1, <1>3, <1>5 DEF Link, OneFin, FinWithData, reassembler
  <2> QED
    BY <2>1, <2>2
<1>6. ASSUME Accepts(abs, len, syn, fin) PROVE Further /\ OneFin'
  <2>1. PICK index : /\ TakesIn(receiver, abs, index, len, fin, receiver')
                     /\ len > 0 => index = abs - 1
    BY <1>6 DEF Accepts
  <2>2. FinInPlace(receiver, index, len, fin, tw)
    BY <1>4, <1>6, <2>1, FinArrives DEF Accepts
  <2>3. Continues(receiver, tw, receiver')
    BY <1>1, <2>1, <2>2, EndingKept
  <2>4. /\ \A p \in Nat : p \in Received(reassembler)' =>
               \/ p \in Received(reassembler)
               \/ len > 0 /\ p < abs - 1 + len
        /\ RightEdge(reassembler)' = RightEdge(reassembler)
        /\ receiver'.syn = TRUE /\ receiver'.end = (receiver.end \/ fin)
    BY <1>6, AcceptsMeaning, Zenon
  <2>5. RightEdge(reassembler) \in Nat
    <3>1. /\ receiver.capacity \in Nat
      BY Constants DEF Base
    <3>2. /\ Output.total_read \in Nat
          /\ RightEdge(reassembler) = Output.total_read + receiver.capacity
      BY <1>1, <3>1, ReceiverNumbers DEF Output, reassembler
    <3> QED
      BY <3>1, <3>2
  <2>6. Further
    BY <2>3, <2>4, <2>5 DEF Further, Continues, Output, reassembler
  <2>7. ASSUME FinWithData(Pending)
        PROVE  tw - 1 \in Received(reassembler)' => receiver'.end
    <3>1. /\ \A s \in Pending : HoldsLast(s, tw) => s.fin
          /\ tw - 1 \in Received(reassembler) => receiver.end
      BY <2>7 DEF Link, OneFin
    <3>2. CASE tw - 1 \in Received(reassembler)
      BY <2>4, <3>1, <3>2, Zenon
    <3>3. CASE tw - 1 \in Nat /\ len > 0 /\ tw - 1 < abs - 1 + len
      <4>1. /\ seg.payload # <<>> <=> len > 0
            /\ len > 0 => seg.payload[Len(seg.payload)] = abs - 1 + len - 1
            /\ len > 0 => abs > 0 /\ abs - 1 + len <= tr
        BY <1>4, LastByte
      <4>2. abs - 1 + len = tw
        BY <1>2, <3>3, <4>1
      <4>3. HoldsLast(seg, tw) /\ seg \in Pending
        BY <3>3, <4>1, <4>2 DEF HoldsLast, Pending
      <4>4. fin
        BY <1>4, <3>1, <4>3 DEF IssuedAt, SegmentAt
      <4> QED
        BY <2>4, <4>4, Zenon
    <3>4. Received(reassembler)' \subseteq Nat
      BY <1>6, AcceptsMeaning, Zenon
    <3> QED
      BY <2>4, <3>2, <3>3, <3>4
  <2>8. OneFin'
    <3>1. FinWithData(Pending') => FinWithData(Pending)
      BY <1>3 DEF FinWithData
    <3>2. FinWithData(Pending) => \A s \in Pending : HoldsLast(s, tw) => s.fin
      BY DEF Link, OneFin
    <3> QED
      BY <1>1, <1>3, <2>7, <3>1, <3>2 DEF OneFin, FinWithData
  <2> QED
    BY <2>6, <2>8
<1>7. Further /\ OneFin'
  <2>1. receiver' = receiver \/ Accepts(abs, len, syn, fin)
    BY <1>4, DeliverStep
  <2> QED
    BY <1>5, <1>6, <2>1
<1>8. receiver'.syn => receiver'.ack \in Int /\ WindowSize(receiver') \in Nat
  <2>1. receiver'.exp_ack \in Nat /\ WindowSize(receiver') \in Nat
    BY <1>1, ReceiverNumbers
  <2>2. receiver'.syn => receiver'.ack = Wrap(receiver'.exp_ack, Isn)
    BY <1>1 DEF ReceiverOK
  <2>3. PICK n \in Nat : n = receiver'.exp_ack
    BY <2>1
  <2>4. Wrap(n, Isn) \in 0..(Modulus - 1)
    BY Constants, WrapRange
  <2>5. Wrap(n, Isn) \in Int
    BY <2>4, Constants
  <2> QED
    BY <2>1, <2>2, <2>3, <2>5
<1>9. \A j \in DOMAIN acks' :
          (\E k \in DOMAIN acks : acks'[j] = acks[k]) \/ Reply(acks'[j])
  BY <1>1, <1>8, DeliverAcks
<1>10. AcksBehind' /\ InWindow'
  BY <1>1, <1>7, <1>9, FurtherLink
<1> QED
  BY <1>1, <1>7, <1>10 DEF Link, Further

(* A read opens the window and preserves the extension.                    *)
LEMMA ReadLink ==
    ASSUME Base, Base', Link, NEW len \in 1..RecvCapacity, Read(len)
    PROVE  Further /\ Link'
<1>1. /\ UNCHANGED <<sender, wire, acks>>
  BY ReadStep
<1>2. PICK n \in Nat : ReaderTook(receiver, n, receiver')
  BY ReadStep
<1>3. Ending(receiver', sender.stream.total_written)
  BY <1>2, EndingRead DEF Link
<1>4. /\ Received(reassembler)' = Received(reassembler)
      /\ Output'.total_written = Output.total_written
      /\ Output'.input_ended = Output.input_ended
      /\ Output'.total_read = Output.total_read + n
      /\ receiver'.end = receiver.end /\ receiver'.syn = receiver.syn
  BY <1>2 DEF ReaderTook, HasRead, reassembler, Output
<1>5. /\ Output.total_read \in Nat /\ Output.total_written \in Nat
      /\ RightEdge(reassembler) = Output.total_read + RecvCapacity
      /\ RightEdge(reassembler)' = Output'.total_read + RecvCapacity
  <2>1. /\ ReceiverOK(receiver, Isn) /\ ReceiverOK(receiver', Isn) /\ RecvCapacity \in Nat
        /\ receiver.capacity = RecvCapacity /\ receiver'.capacity = RecvCapacity
    BY Constants DEF Base
  <2>2. /\ Output.total_read \in Nat /\ Output.total_written \in Nat
        /\ RightEdge(reassembler) = Output.total_read + receiver.capacity
    BY <2>1, ReceiverNumbers DEF Output, reassembler
  <2>3. RightEdge(reassembler)' = Output'.total_read + receiver'.capacity
    BY <2>1, ReceiverNumbers DEF Output, reassembler
  <2> QED
    BY <2>1, <2>2, <2>3
<1>6. RightEdge(reassembler) <= RightEdge(reassembler)'
  BY <1>4, <1>5, Constants
<1>7. Further
  BY <1>3, <1>4, <1>5, <1>6 DEF Further
<1>8. OneFin'
  BY <1>1, <1>4 DEF Link, OneFin, Pending, FinWithData
<1>9. AcksBehind' /\ InWindow'
  BY <1>1, <1>7, FurtherLink
<1> QED
  BY <1>1, <1>7, <1>8, <1>9 DEF Link, Further

(* The acknowledgment number of the receiver keeps the range of the        *)
(* sender's numbers.                                                       *)
LEMMA AckBound ==
    ASSUME Base
    PROVE  receiver.exp_ack \in Nat /\ receiver.exp_ack <= StreamLength + 2
<1>1. /\ ReceiverOK(receiver, Isn) /\ receiver.capacity \in Nat /\ StreamLength \in Nat
      /\ Received(receiver.reassembler) \subseteq 0..(sender.stream.total_read - 1)
      /\ receiver.syn \in BOOLEAN
  BY Constants DEF Base, ReceiverOK, reassembler
<1>2. /\ sender.stream.total_read \in Nat
      /\ sender.stream.total_read <= StreamLength
  <2>1. /\ sender.stream.total_read \in Nat /\ sender.stream.total_written \in Nat
        /\ sender.stream.total_read <= sender.stream.total_written
    BY SenderNumbers DEF Base
  <2>2. sender.stream.total_written <= StreamLength
    BY DEF Base
  <2> QED
    BY <1>1, <2>1, <2>2
<1> DEFINE tw == receiver.reassembler.output.total_written
<1>3. /\ tw \in Nat /\ receiver.exp_ack \in Nat
      /\ receiver.syn => receiver.exp_ack <= tw + 2
      /\ ~receiver.syn => receiver.exp_ack = 0
  BY <1>1, ReceiverNumbers
<1>4. tw <= sender.stream.total_read
  BY <1>1, <1>2, WrittenBound
<1> QED
  BY <1>1, <1>2, <1>3, <1>4

(* The extension is inductive.                                             *)
LEMMA NextLink ==
    ASSUME ~FinOvertakes, Base, Link, [Next]_vars
    PROVE  Link'
<1>1. Base'
  BY NextBase
<1>2. CASE Connect \/ Close \/ Tick \/ \E len \in 1..SendCapacity : Write(len)
  <2>1. UNCHANGED <<receiver, acks>>
    BY <1>2, CallStep
  <2>2. PICK w : Moves(w) /\ Keeps(sender, w) /\ Flush(w)
    BY <1>2, CallStep
  <2>3. OldAcks
    BY <2>1 DEF OldAcks, Base
  <2>4. InWindow'
    BY <2>1, <2>2, CallWindow DEF Link
  <2> QED
    BY <2>1, <2>2, <2>3, <2>4, FlushLink DEF Link
<1>3. ASSUME NEW seg \in wire, NEW again \in BOOLEAN, Deliver(seg, again)
      PROVE  Link'
  BY <1>1, <1>3, DeliverLink
<1>4. ASSUME NEW i \in DOMAIN acks, NEW again \in BOOLEAN, ReceiveAck(i, again)
      PROVE  Link'
  <2>1. PICK n \in Nat : /\ acks[i].ackno = Wrap(n, Isn) /\ n <= receiver.exp_ack
                         /\ n + acks[i].win <= Edge
    BY DEF Link, AcksBehind
  <2>2. n \in 0..(StreamLength + 2) /\ sender.syn
    <3>1. sender.syn
      BY DEF Base
    <3>2. n \in 0..(StreamLength + 2)
      BY <2>1, AckBound, Constants
    <3> QED
      BY <3>1, <3>2
  <2>3. PICK w : Moves(w) /\ AckResult(sender, n, acks[i].win, w) /\ Flush(w)
    BY <1>4, <2>1, <2>2, AckStep
  <2>4. acks[i].win \in Nat
    <3>1. acks \in Seq([ackno : Int, win : 0..MaxWindow])
      BY DEF Base
    <3>2. i \in 1..Len(acks)
      BY <3>1
    <3>3. acks[i] \in [ackno : Int, win : 0..MaxWindow]
      BY <3>1, <3>2, ElementOfSeq, Zenon
    <3> QED
      BY <3>3, MaxWindowNat
  <2>5. receiver' = receiver /\ OldAcks
    BY <1>4, TakenAcks DEF ReceiveAck
  <2>6. InWindow'
    BY <2>1, <2>3, <2>4, <2>5, AckWindow DEF Link
  <2> QED
    BY <2>3, <2>5, <2>6, FlushLink DEF Link
<1>5. ASSUME NEW len \in 1..RecvCapacity, Read(len)
      PROVE  Link'
  BY <1>1, <1>5, ReadLink
<1>6. CASE UNCHANGED vars
  BY <1>6, Zenon DEF Link, OneFin, AcksBehind, InWindow, Pending, Edge, vars, reassembler
<1> QED
  BY <1>2, <1>3, <1>4, <1>5, <1>6 DEF Next

(* Between two calls the sender is behind the receiver's acknowledgments   *)
(* and inside its window, and the FIN marks the end of the stream.         *)
THEOREM LinkInvariant ==
    ASSUME ~FinOvertakes
    PROVE  Spec => [](Base /\ Link)
<1>1. Init => Base /\ Link
  BY InitBase, InitLink
<1>2. Base /\ Link /\ [Next]_vars => (Base /\ Link)'
  BY NextBase, NextLink
<1> QED
  BY <1>1, <1>2, PTL DEF Spec

(* ack_received frees a segment, and so ends its retransmission, only once *)
(* the receiver has all of it, whatever acknowledgments arrive late, twice *)
(* or not at all (tcp_sender.cc:113).                                      *)
THEOREM NeverForgets ==
    ASSUME ~FinOvertakes
    PROVE  Spec => []NothingForgotten
<1>1. ASSUME Base, Link PROVE NothingForgotten
  <2>1. InFlightExact
    BY <1>1, BaseFlight
  <2>2. sender.next_seqno - sender.bytes_in_flight <= receiver.exp_ack
    BY <1>1 DEF Link, InWindow
  <2>3. /\ sender.next_seqno \in Nat /\ sender.bytes_in_flight \in Nat
        /\ receiver.exp_ack \in Nat
    BY <1>1, SenderNumbers, AckBound DEF Base
  <2> QED
    BY <2>1, <2>2, <2>3 DEF NothingForgotten, InFlightExact
<1> QED
  BY <1>1, LinkInvariant, PTL

(* fill_window stays inside the window that the receiver offers, but for   *)
(* one number that probes a closed window, also when announcements of the  *)
(* window are lost, repeated or overtaken (tcp_sender.cc:48).              *)
THEOREM StaysInWindow ==
    ASSUME ~FinOvertakes
    PROVE  Spec => []WindowRespected
<1>1. ASSUME Base, Link PROVE WindowRespected
  <2>1. PICK n, b, r \in Nat :
            /\ n = sender.next_seqno /\ b = sender.bytes_in_flight
            /\ r = sender.recv_wdn_sz
    BY <1>1, SenderNumbers DEF Base
  <2>2. /\ n - b <= receiver.exp_ack
        /\ n + r <= Edge \/ (n + r = Edge + 1 /\ b + r = 1)
    BY <1>1, <2>1 DEF Link, InWindow
  <2>3. PICK a, s \in Nat : a = receiver.exp_ack /\ s = WindowSize(receiver)
    <3>1. ReceiverOK(receiver, Isn) /\ receiver.capacity \in Nat
      BY <1>1, Constants DEF Base
    <3> QED
      BY <3>1, ReceiverNumbers
  <2>4. Edge = a + s
    BY <2>3 DEF Edge
  <2>5. n - b <= a /\ (n + r <= a + s \/ (n + r = a + s + 1 /\ b + r = 1))
    BY <2>2, <2>3, <2>4
  <2>6. n <= a + s \/ (n = a + s + 1 /\ b = 1)
    BY <2>5
  <2> QED
    BY <2>1, <2>3, <2>6 DEF WindowRespected
<1> QED
  BY <1>1, LinkInvariant, PTL

(* The reader sees the end of the stream only once it is closed and all of *)
(* it is there, and the sender takes its FIN for acknowledged only once    *)
(* the reader sees the end (stream_reassembler.cc:53, tcp_sender.cc:113).  *)
THEOREM EndsAgree ==
    ASSUME ~FinOvertakes
    PROVE  Spec => []EndAgrees
<1>1. ASSUME Base, Link PROVE EndAgrees
  <2> DEFINE tw == sender.stream.total_written
  <2>1. ReceiverOK(receiver, Isn) /\ Ending(receiver, tw)
    BY <1>1 DEF Base, Link
  <2>2. /\ Output.total_written \in 0..tw
        /\ Output.input_ended => Output.total_written = tw /\ receiver.end
        /\ receiver.syn => receiver.exp_ack = Output.total_written + 1
                               + (IF Output.input_ended THEN 1 ELSE 0)
    BY <2>1, EndingMeaning DEF Output, reassembler
  <2>3. Output.input_ended => sender.fin_sent /\ Output.total_written = tw
    BY <1>1, <2>2 DEF Base
  <2>4. ASSUME sender.fin_sent, sender.outstanding = EmptyMap PROVE Output.input_ended
    <3>1. PICK n, b \in Nat : n = sender.next_seqno /\ b = sender.bytes_in_flight
      BY <1>1, SenderNumbers DEF Base
    <3>2. n = tw + 2 /\ tw \in Nat
      <4>1. sender.syn /\ sender.stream.total_read = tw
        BY <1>1, <2>4 DEF Base, SenderOK
      <4>2. sender.next_seqno = sender.stream.total_read + 2
        BY <1>1, <2>4, <4>1 DEF Base, SenderOK
      <4> QED
        BY <1>1, <3>1, <4>1, <4>2, SenderNumbers DEF Base
    <3>3. n - b = n
      <4>1. Tiles(Lengths(sender.outstanding), n - b, n)
        BY <1>1, <3>1 DEF Base, SenderOK, FlightOK
      <4>2. DOMAIN Lengths(sender.outstanding) = {}
        BY <2>4 DEF Lengths, EmptyMap
      <4> QED
        BY <3>1, <4>1, <4>2 DEF Tiles
    <3>4. receiver.exp_ack \in Nat /\ tw + 2 <= receiver.exp_ack
      <4>1. n - b <= receiver.exp_ack
        BY <1>1, <3>1 DEF Link, InWindow
      <4> QED
        BY <1>1, <3>2, <3>3, <4>1, AckBound
    <3>5. receiver.syn
      <4>1. ~receiver.syn => receiver.exp_ack = 0
        <5>1. receiver.capacity \in Nat
          BY <1>1, Constants DEF Base
        <5> QED
          BY <2>1, <5>1, ReceiverNumbers
      <4> QED
        BY <3>2, <3>4, <4>1
    <3>6. ASSUME ~Output.input_ended PROVE FALSE
      <4>1. receiver.exp_ack = Output.total_written + 1
        BY <2>2, <3>5, <3>6
      <4> QED
        BY <2>2, <3>2, <3>4, <4>1
    <3> QED
      BY <3>6
  <2> QED
    BY <2>3, <2>4 DEF EndAgrees
<1> QED
  BY <1>1, LinkInvariant, PTL
=============================================================================
