-------------------------- MODULE ConnectionProofs --------------------------
(***************************************************************************)
(* A connection that is over stays over, for all sizes, timeouts, streams  *)
(* and networks.                                                           *)
(***************************************************************************)
EXTENDS Endpoints, SequenceTheorems, TLAPS

ConnectionFields ==
    {"sender", "receiver", "segments_out", "linger_after_streams_finish",
     "time_since_last_segment_received", "initiator"}
ReceiverFields ==
    {"reassembler", "capacity", "ack", "isn", "exp_ack", "checkpoint", "syn", "end"}
ReassemblerFields ==
    {"output", "unassembled_bytes", "expected_index", "buf", "input_ended", "dangling"}
StreamFields == {"buf", "cap", "total_written", "total_read", "input_ended", "error"}

(* The shape of the records that reading from a connection changes.        *)
ReassemblerShape(m) ==
    /\ m = [f \in ReassemblerFields |-> m[f]]
    /\ m.output = [f \in StreamFields |-> m.output[f]]

ReceiverShape(r) ==
    /\ r = [f \in ReceiverFields |-> r[f]]
    /\ ReassemblerShape(r.reassembler)

Shape(c) ==
    /\ c = [f \in ConnectionFields |-> c[f]]
    /\ ReceiverShape(c.receiver)

(* The inductive invariant: between two steps no connection has a segment  *)
(* left to send.                                                           *)
ShapeInv ==
    /\ conn = [e \in Ends |-> conn[e]] /\ wire = [e \in Ends |-> wire[e]]
    /\ \A e \in Ends : Shape(conn[e]) /\ conn[e].segments_out = <<>>

(* push_substring() only assigns to fields.                                *)
LEMMA PushShape ==
    ASSUME NEW m, ReassemblerShape(m), NEW data, NEW index, NEW eof
    PROVE  ReassemblerShape(PushSubstring(m, data, index, eof))
<1> DEFINE v == Validate(m, data, index, eof)
           merged == Merge(m, v.data, v.index)
           assembled == IF v.data = <<>> THEN m ELSE ReorderBuffer(merged)
           marked == [assembled EXCEPT !.input_ended = assembled.input_ended \/ v.eof]
<1>1. ASSUME NEW p, ReassemblerShape(p), NEW b, NEW n
      PROVE  ReassemblerShape([p EXCEPT !.buf = b, !.unassembled_bytes = n])
  BY <1>1 DEF ReassemblerShape, ReassemblerFields
<1>2. ReassemblerShape(merged)
  <2> DEFINE d == v.data
             index_ == v.index
             end == index_ + Len(d)
             touched == {k \in DOMAIN m.buf : k + Len(m.buf[k]) >= index_ /\ k <= end}
             first == Min(touched)
             it_prev == Max({k \in DOMAIN m.buf : k <= end})
             lo == IF index_ < first THEN index_ ELSE first
             head == IF index_ < first THEN d
                     ELSE MergeString(m.buf[first], first, d, index_)
             s == MergeString(head, lo, m.buf[it_prev], it_prev)
             b1 == Insert(m.buf, index_, d)
             n1 == m.unassembled_bytes + Len(d)
             b2 == Insert(Erase(m.buf, touched), lo, s)
             n2 == m.unassembled_bytes - (StoredLength(m.buf, touched) - Len(s))
  <2>1. merged = IF touched = {} THEN [m EXCEPT !.buf = b1, !.unassembled_bytes = n1]
                 ELSE [m EXCEPT !.buf = b2, !.unassembled_bytes = n2]
    BY Zenon DEF Merge
  <2> HIDE DEF b1, b2, n1, n2, touched, merged
  <2> QED
    BY <1>1, <2>1
<1> HIDE DEF merged
<1>3. ReassemblerShape(ReorderBuffer(merged))
  <2>1. ASSUME NEW data_, NEW i, NEW n, NEW b, NEW d
        PROVE  ReassemblerShape([merged EXCEPT !.output = StreamWrite(merged.output, data_),
                                    !.expected_index = i, !.unassembled_bytes = n,
                                    !.buf = b, !.dangling = d])
    <3> DEFINE o == StreamWrite(merged.output, data_)
    <3>1. merged = [f \in ReassemblerFields |-> merged[f]]
          /\ merged.output = [f \in StreamFields |-> merged.output[f]]
      BY <1>2 DEF ReassemblerShape
    <3>2. o = [f \in StreamFields |-> o[f]]
      <4>1. \E buf_, w : o = [merged.output EXCEPT !.buf = buf_, !.total_written = w]
        BY Zenon DEF StreamWrite
      <4> HIDE DEF o
      <4> QED
        BY <3>1, <4>1 DEF StreamFields
    <3> HIDE DEF o
    <3>3. ReassemblerShape([merged EXCEPT !.output = o, !.expected_index = i,
                                !.unassembled_bytes = n, !.buf = b, !.dangling = d])
      BY <3>1, <3>2 DEF ReassemblerShape, ReassemblerFields
    <3> QED
      BY <3>3, Zenon DEF o
  <2> DEFINE first == Min(DOMAIN merged.buf)
             piece == merged.buf[first]
             room == RemainingCapacity(merged.output)
             n == Least(Len(piece), room)
             rest == Erase(merged.buf, {first})
             written == Take(piece, n)
             index_ == merged.expected_index + n
             left == merged.unassembled_bytes - n
             buf == IF Len(piece) > room THEN Insert(rest, first + n, Drop(piece, n)) ELSE rest
             dangling == merged.dangling \/ Len(piece) > room
             moved == [merged EXCEPT !.output = StreamWrite(merged.output, written),
                                     !.expected_index = index_, !.unassembled_bytes = left,
                                     !.buf = buf, !.dangling = dangling]
  <2>2. ReorderBuffer(merged) =
           IF DOMAIN merged.buf = {} THEN merged
           ELSE IF first # merged.expected_index \/ room = 0 THEN merged ELSE moved
    BY Zenon DEF ReorderBuffer
  <2> HIDE DEF written, index_, left, buf, dangling, first, room
  <2>3. ReassemblerShape(moved)
    BY <2>1
  <2> HIDE DEF moved
  <2> QED
    BY <1>2, <2>2, <2>3
<1>4. ReassemblerShape(assembled)
  BY <1>3
<1> HIDE DEF assembled
<1>5. ReassemblerShape(marked)
  <2> DEFINE ended == assembled.input_ended \/ v.eof
  <2>1. marked = [assembled EXCEPT !.input_ended = ended]
    OBVIOUS
  <2> HIDE DEF ended, marked
  <2> QED
    BY <1>4, <2>1 DEF ReassemblerShape, ReassemblerFields
<1> HIDE DEF marked
<1>6. ReassemblerShape([marked EXCEPT !.output = EndInput(marked.output)])
  BY <1>5 DEF ReassemblerShape, ReassemblerFields, StreamFields, EndInput
<1>7. \/ PushSubstring(m, data, index, eof) \in
            {m, marked, [marked EXCEPT !.output = EndInput(marked.output)]}
  BY Zenon DEF PushSubstring, marked, assembled, merged
<1> QED
  BY <1>5, <1>6, <1>7

(* segment_received() of the receiver.                                     *)
LEMMA ReceiverKeepsShape ==
    ASSUME NEW r, ReceiverShape(r), NEW seg
    PROVE  ReceiverShape(SegmentReceived(r, seg))
<1> DEFINE isn == IF seg.syn THEN seg.seqno ELSE r.isn
           checkpoint == Unwrap(seg.seqno, isn, r.checkpoint)
           end == r.end \/ seg.fin
           m == PushSubstring(r.reassembler, seg.payload, StreamIndex(seg, checkpoint), end)
           exp_ack == ExpectedAck(m, end)
           ack == Wrap(exp_ack, isn)
           taken == [r EXCEPT !.reassembler = m, !.isn = isn, !.checkpoint = checkpoint,
                              !.end = end, !.syn = TRUE, !.exp_ack = exp_ack, !.ack = ack]
<1>1. SegmentReceived(r, seg) =
         IF seg.syn /\ r.syn THEN r ELSE IF ~seg.syn /\ ~r.syn THEN r ELSE taken
  BY Zenon DEF SegmentReceived
<1>2. ReassemblerShape(m)
  BY PushShape DEF ReceiverShape
<1> HIDE DEF isn, checkpoint, end, m, exp_ack, ack
<1>3. ReceiverShape(taken)
  BY <1>2 DEF ReceiverShape, ReceiverFields
<1> HIDE DEF taken
<1> QED
  BY <1>1, <1>3

(* Assignments to the fields of a connection keep its shape, and all but   *)
(* the one to the receiver keep the receiver.                              *)
LEMMA FieldsKeepShape ==
    ASSUME NEW c, Shape(c), NEW a, NEW b, NEW t
    PROVE  /\ Shape([c EXCEPT !.sender = a])
           /\ Shape([c EXCEPT !.segments_out = b])
           /\ Shape([c EXCEPT !.linger_after_streams_finish = t])
           /\ Shape([c EXCEPT !.time_since_last_segment_received = t])
           /\ Shape([c EXCEPT !.time_since_last_segment_received = t, !.sender = a])
           /\ Shape([c EXCEPT !.sender = a, !.segments_out = b])
           /\ Shape([c EXCEPT !.sender = a, !.segments_out = b, !.initiator = t])
           /\ ReceiverShape(a) => Shape([c EXCEPT !.receiver = a])
           /\ ReceiverShape(a) => Shape([c EXCEPT !.receiver = a, !.sender = b])
           /\ ReceiverShape(b) =>
                 Shape([c EXCEPT !.sender = a, !.receiver = b,
                                 !.linger_after_streams_finish = t])
BY DEF Shape, ConnectionFields

(* flush_buffer() (tcp_connection.cc:194) and the reply to a segment.      *)
LEMMA FlushShape ==
    ASSUME NEW c, Shape(c)
    PROVE  Shape(FlushBuffer(c)) /\ Shape(Reply(c))
<1> DEFINE queue == c.sender.segments_out
           flushed == [c.sender EXCEPT !.segments_out = <<>>]
           all == c.segments_out \o [i \in DOMAIN queue |->
                     IF c.receiver.syn THEN Acknowledging(c, queue[i]) ELSE queue[i]]
           rest == [c.sender EXCEPT !.segments_out = Tail(c.sender.segments_out)]
           seg == [Head(queue) EXCEPT
                     !.ackno = IF c.receiver.syn THEN c.receiver.ack ELSE Head(queue).ackno,
                     !.ack = TRUE, !.win = Window(c)]
           more == Append(c.segments_out, seg)
<1>1. FlushBuffer(c) = [c EXCEPT !.sender = flushed, !.segments_out = all]
  BY DEF FlushBuffer, Shape, ConnectionFields
<1>2. Reply(c) = IF queue = <<>> THEN c ELSE [c EXCEPT !.sender = rest, !.segments_out = more]
  BY DEF Reply, Shape, ConnectionFields
<1> HIDE DEF flushed, all, rest, more, queue
<1>3. /\ Shape([c EXCEPT !.sender = flushed, !.segments_out = all])
      /\ Shape([c EXCEPT !.sender = rest, !.segments_out = more])
  BY FieldsKeepShape
<1> QED
  BY <1>1, <1>2, <1>3

(* A reset sets the errors of both streams.                                *)
LEMMA ErrorShape ==
    ASSUME NEW c, Shape(c)
    PROVE  Shape(SetErrors(c))
<1> DEFINE sender == [c.sender EXCEPT !.stream = SetError(c.sender.stream)]
           output == SetError(c.receiver.reassembler.output)
           m == [c.receiver.reassembler EXCEPT !.output = output]
           receiver == [c.receiver EXCEPT !.reassembler = m]
<1>1. SetErrors(c) = [c EXCEPT !.sender = sender, !.receiver = receiver,
                               !.linger_after_streams_finish = FALSE]
  BY DEF SetErrors, Shape, ConnectionFields
<1>2. output = [f \in StreamFields |-> output[f]]
  BY DEF Shape, ReceiverShape, ReassemblerShape, StreamFields, SetError
<1> HIDE DEF output
<1>3. ReassemblerShape(m)
  BY <1>2 DEF Shape, ReceiverShape, ReassemblerShape, ReassemblerFields
<1> HIDE DEF m
<1>4. ReceiverShape(receiver)
  BY <1>3 DEF Shape, ReceiverShape, ReceiverFields
<1> HIDE DEF receiver, sender
<1>5. Shape([c EXCEPT !.sender = sender, !.receiver = receiver,
                      !.linger_after_streams_finish = FALSE])
  BY <1>4, FieldsKeepShape
<1> QED
  BY <1>1, <1>5

(* Every operation of a connection keeps its shape.                        *)
LEMMA OperationsKeepShape ==
    ASSUME NEW c, Shape(c), NEW data, NEW ms, NEW seg
    PROVE  /\ Shape(UncleanShutdown(c)) /\ Shape(ConnectionConnect(c))
           /\ Shape(ConnectionWrite(c, data)) /\ Shape(EndInputStream(c))
           /\ Shape(ConnectionTick(c, ms)) /\ Shape(ConnectionReceived(c, seg))
<1>1. ASSUME NEW d, Shape(d) PROVE Shape(UncleanShutdown(d))
  <2> DEFINE sender == IF d.sender.segments_out = <<>> THEN SendEmptySegment(d.sender)
                       ELSE d.sender
             rst == [Head(sender.segments_out) EXCEPT
                        !.ackno = IF d.receiver.syn THEN d.receiver.ack
                                  ELSE Head(sender.segments_out).ackno,
                        !.rst = TRUE]
             rest == [sender EXCEPT !.segments_out = Tail(sender.segments_out)]
             more == Append(d.segments_out, rst)
  <2>1. UncleanShutdown(d) = SetErrors([d EXCEPT !.sender = rest, !.segments_out = more])
    BY Zenon DEF UncleanShutdown
  <2> HIDE DEF rest, more
  <2>2. Shape([d EXCEPT !.sender = rest, !.segments_out = more])
    BY <1>1, FieldsKeepShape, Zenon
  <2> QED
    BY <2>1, <2>2, ErrorShape
<1>2. Shape(ConnectionConnect(c))
  <2> DEFINE sender == FillWindow(c.sender)
             rest == [sender EXCEPT !.segments_out = Tail(sender.segments_out)]
             more == Append(c.segments_out, Head(sender.segments_out))
  <2>1. ConnectionConnect(c) =
           IF sender.segments_out = <<>> THEN [c EXCEPT !.sender = sender]
           ELSE [c EXCEPT !.sender = rest, !.segments_out = more, !.initiator = TRUE]
    BY Zenon DEF ConnectionConnect
  <2> HIDE DEF sender, rest, more
  <2>2. /\ Shape([c EXCEPT !.sender = sender])
        /\ Shape([c EXCEPT !.sender = rest, !.segments_out = more, !.initiator = TRUE])
    BY FieldsKeepShape
  <2> QED
    BY <2>1, <2>2
<1>3. ASSUME NEW sender PROVE Shape(FlushBuffer([c EXCEPT !.sender = sender]))
  BY FieldsKeepShape, FlushShape, Zenon
<1>4. Shape(ConnectionWrite(c, data))
  <2> DEFINE sender == FillWindow([c.sender EXCEPT !.stream = StreamWrite(c.sender.stream, data)])
  <2>1. ConnectionWrite(c, data) =
           IF ~Active(c) THEN c ELSE FlushBuffer([c EXCEPT !.sender = sender])
    BY Zenon DEF ConnectionWrite
  <2> HIDE DEF sender
  <2> QED
    BY <1>3, <2>1, Zenon
<1>5. Shape(EndInputStream(c))
  <2> DEFINE sender == FillWindow([c.sender EXCEPT !.stream = EndInput(c.sender.stream)])
  <2>1. EndInputStream(c) =
           IF ~Active(c) THEN c ELSE FlushBuffer([c EXCEPT !.sender = sender])
    BY Zenon DEF EndInputStream
  <2> HIDE DEF sender
  <2> QED
    BY <1>3, <2>1, Zenon
<1>6. Shape(ConnectionTick(c, ms))
  <2> DEFINE time == Least(c.time_since_last_segment_received + ms, LingerTime)
             sender == SenderTick(c.sender, ms)
             ticked == [c EXCEPT !.time_since_last_segment_received = time, !.sender = sender]
             ended == IF ticked.sender.consecutive_retransmissions > MaxRetxAttempts
                      THEN UncleanShutdown(ticked) ELSE ticked
  <2>1. Ticked(c, ms) = FlushBuffer(ended)
    BY Zenon DEF Ticked
  <2> HIDE DEF time, sender
  <2>2. Shape(ticked)
    BY FieldsKeepShape, Zenon
  <2> HIDE DEF ticked
  <2>3. Shape(ended)
    BY <1>1, <2>2
  <2> HIDE DEF ended
  <2> QED
    BY <2>1, <2>3, FlushShape DEF ConnectionTick
<1>7. Shape(ConnectionReceived(c, seg))
  <2> DEFINE heard == [c EXCEPT !.time_since_last_segment_received = 0]
             receiver == SegmentReceived(heard.receiver, seg)
             sender == IF seg.ack THEN AckReceived(heard.sender, seg.ackno, seg.win)
                       ELSE heard.sender
             taken == [heard EXCEPT !.receiver = receiver, !.sender = sender]
             opening == seg.syn /\ ~seg.ack /\ ~c.initiator
             answering == IF opening THEN FillWindow(taken.sender)
                          ELSE SendEmptySegment(taken.sender)
             answered == IF LengthInSequenceSpace(seg) = 0 THEN FlushBuffer(taken)
                         ELSE Reply([taken EXCEPT !.sender = answering])
             linger == answered.linger_after_streams_finish /\ ~PassiveClose(answered)
  <2>1. ConnectionReceived(c, seg) =
           IF ~Active(c) THEN c
           ELSE IF seg.rst THEN SetErrors(heard)
           ELSE [answered EXCEPT !.linger_after_streams_finish = linger]
    BY Zenon DEF ConnectionReceived
  <2>2. Shape(heard)
    BY FieldsKeepShape, Zenon
  <2> HIDE DEF heard
  <2>3. ReceiverShape(receiver)
    BY <2>2, ReceiverKeepsShape DEF Shape
  <2> HIDE DEF receiver, sender
  <2>4. Shape(taken)
    BY <2>2, <2>3, FieldsKeepShape, Zenon
  <2> HIDE DEF taken, answering
  <2>5. Shape([taken EXCEPT !.sender = answering])
    BY <2>4, FieldsKeepShape, Zenon
  <2>6. Shape(answered)
    BY <2>4, <2>5, FlushShape, Zenon
  <2> HIDE DEF answered, linger
  <2>7. Shape([answered EXCEPT !.linger_after_streams_finish = linger])
    BY <2>6, FieldsKeepShape, Zenon
  <2> QED
    BY <2>1, <2>2, <2>7, ErrorShape
<1> QED
  BY <1>1, <1>2, <1>4, <1>5, <1>6, <1>7

(* Reading keeps the shape and the sender, and a connection that is over.  *)
LEMMA ReadKeepsOver ==
    ASSUME NEW c, Shape(c), NEW len \in Nat
    PROVE  /\ Shape(ConnectionRead(c, len))
           /\ ConnectionRead(c, len).sender = c.sender
           /\ ConnectionRead(c, len).segments_out = c.segments_out
           /\ ~Active(c) => ~Active(ConnectionRead(c, len))
<1> DEFINE o == c.receiver.reassembler.output
           n == Least(len, BufferSize(o))
           buf == Drop(o.buf, n)
           read == o.total_read + n
           output == [o EXCEPT !.buf = buf, !.total_read = read]
           m == [c.receiver.reassembler EXCEPT !.output = output]
           receiver == [c.receiver EXCEPT !.reassembler = m]
           d == [c EXCEPT !.receiver = receiver]
<1>1. PopOutput(o, len) = output
  BY Zenon DEF PopOutput
<1>2. ConnectionRead(c, len) = d
  <2>1. ReadOutput(c.receiver.reassembler, len) = m
    BY <1>1, Zenon DEF ReadOutput
  <2> HIDE DEF m
  <2> QED
    BY <2>1 DEF ConnectionRead
<1>3. Eof(o) => Len(buf) = 0
  <2> SUFFICES ASSUME Len(o.buf) = 0 PROVE Len(buf) = 0
    BY DEF Eof, BufferSize
  <2>1. n = 0
    BY DEF BufferSize, Least
  <2>2. buf = SubSeq(o.buf, 1, 0)
    BY <2>1 DEF Drop
  <2> QED
    BY <2>2, SubSeqEmpty
<1>4. o = [f \in StreamFields |-> o[f]]
  BY DEF Shape, ReceiverShape, ReassemblerShape
<1> HIDE DEF o, n, buf, read
<1>5. /\ output = [f \in StreamFields |-> output[f]] /\ output.buf = buf
      /\ output.error = o.error /\ output.input_ended = o.input_ended
  BY <1>4 DEF StreamFields
<1> HIDE DEF output
<1>6. ReassemblerShape(m) /\ m.output = output
  BY <1>5 DEF Shape, ReceiverShape, ReassemblerShape, ReassemblerFields
<1> HIDE DEF m
<1>7. ReceiverShape(receiver) /\ receiver.reassembler = m
  BY <1>6 DEF Shape, ReceiverShape, ReceiverFields
<1> HIDE DEF receiver
<1>8. /\ Shape(d) /\ d.sender = c.sender /\ d.receiver = receiver
      /\ d.segments_out = c.segments_out
      /\ d.linger_after_streams_finish = c.linger_after_streams_finish
      /\ d.time_since_last_segment_received = c.time_since_last_segment_received
  BY <1>7 DEF Shape, ConnectionFields
<1> HIDE DEF d
<1>9. Inbound(d) = output /\ Outbound(d) = Outbound(c) /\ Inbound(c) = o
  BY <1>6, <1>7, <1>8 DEF Inbound, Outbound, o
<1>10. Eof(o) => Eof(output)
  BY <1>3, <1>5 DEF Eof, BufferSize
<1>11. ~Active(c) => ~Active(d)
  BY <1>5, <1>8, <1>9, <1>10, Zenon DEF Active
<1> QED
  BY <1>2, <1>8, <1>11

(* Without its queue a connection is as active as with it.                 *)
LEMMA QueueNotActive ==
    ASSUME NEW c, Shape(c), NEW queue
    PROVE  /\ Shape([c EXCEPT !.segments_out = queue])
           /\ [c EXCEPT !.segments_out = queue].sender = c.sender
           /\ [c EXCEPT !.segments_out = queue].segments_out = queue
           /\ Active([c EXCEPT !.segments_out = queue]) <=> Active(c)
<1> DEFINE d == [c EXCEPT !.segments_out = queue]
<1>1. /\ Shape(d) /\ d.sender = c.sender /\ d.receiver = c.receiver
      /\ d.segments_out = queue
      /\ d.linger_after_streams_finish = c.linger_after_streams_finish
      /\ d.time_since_last_segment_received = c.time_since_last_segment_received
  BY DEF Shape, ConnectionFields
<1> HIDE DEF d
<1>2. Active(d) <=> Active(c)
  BY <1>1, Zenon DEF Active, Inbound, Outbound
<1> QED
  BY <1>1, <1>2 DEF d

(* connect() meets a connection that has not ended: nothing is read, ended *)
(* or reset in a new one (tcp_connection.cc:154).                          *)
LEMMA NewIsActive ==
    ASSUME NEW send_capacity, NEW recv_capacity, NEW isn
    PROVE  Active(NewConnection(send_capacity, recv_capacity, isn))
<1> DEFINE c == NewConnection(send_capacity, recv_capacity, isn)
<1>1. c.sender = NewSender(send_capacity, isn)
  BY DEF NewConnection
<1>2. Outbound(c) = NewByteStream(send_capacity)
  BY <1>1 DEF Outbound, NewSender
<1>3. ~Outbound(c).error /\ ~Outbound(c).input_ended
  BY <1>2 DEF NewByteStream
<1> QED
  BY <1>3 DEF Active, Eof

(* Once a connection is over, no late segment, no tick, no write and no    *)
(* close that the application still asks for, and no read, makes it        *)
(* active, changes its sender or makes it send, whatever its peer and the  *)
(* network do (tcp_connection.cc:32, :87, :114, :131, :147).               *)
THEOREM StaysOver == Spec => EndsForGood
<1> DEFINE Fewer(w) == {w} \cup {RemoveAt(w, i) : i \in DOMAIN w}
           Kept == \A e \in Ends : ~Active(conn[e]) =>
                      /\ ~Active(conn'[e]) /\ conn'[e].sender = conn[e].sender
                      /\ wire'[Peer(e)] \in Fewer(wire[Peer(e)])
<1>1. Init => ShapeInv
  <2> SUFFICES ASSUME Init PROVE ShapeInv
    OBVIOUS
  <2>1. ASSUME NEW e \in Ends PROVE Shape(conn[e]) /\ conn[e].segments_out = <<>>
    <3> DEFINE c == NewConnection(SendCapacity, RecvCapacity, Isn[e])
    <3>1. conn[e] = c
      BY DEF Init
    <3>2. /\ c = [f \in ConnectionFields |-> c[f]] /\ c.receiver = NewReceiver(RecvCapacity)
          /\ c.segments_out = <<>>
      BY DEF NewConnection, ConnectionFields
    <3>3. ReceiverShape(NewReceiver(RecvCapacity))
      BY DEF ReceiverShape, ReassemblerShape, NewReceiver, NewReassembler, NewByteStream,
             ReceiverFields, ReassemblerFields, StreamFields
    <3> HIDE DEF c
    <3> QED
      BY <3>1, <3>2, <3>3 DEF Shape
  <2> QED
    BY <2>1 DEF Init, ShapeInv
<1>2. ShapeInv /\ [Next]_vars => ShapeInv' /\ (Kept \/ UNCHANGED vars)
  <2> SUFFICES ASSUME ShapeInv, [Next]_vars PROVE ShapeInv' /\ (Kept \/ UNCHANGED vars)
    OBVIOUS
  <2>1. /\ conn = [e \in Ends |-> conn[e]] /\ wire = [e \in Ends |-> wire[e]]
        /\ \A e \in Ends : Shape(conn[e]) /\ conn[e].segments_out = <<>>
    BY DEF ShapeInv
  <2>2. ASSUME NEW e \in Ends PROVE /\ Peer(e) \in Ends /\ Peer(e) # e
                                    /\ \A f \in Ends : f # e => Peer(f) = e
    BY DEF Ends, Peer
  <2>3. ASSUME NEW e \in Ends, NEW c, Shape(c), c.segments_out = <<>>,
               conn' = [conn EXCEPT ![e] = c], wire' = [f \in Ends |-> wire'[f]],
               wire'[e] \in Fewer(wire[e]),
               ~Active(conn[e]) => /\ ~Active(c) /\ c.sender = conn[e].sender
                                   /\ wire'[Peer(e)] = wire[Peer(e)]
        PROVE  ShapeInv' /\ Kept
    <3>1. /\ conn' = [f \in Ends |-> conn'[f]] /\ conn'[e] = c
          /\ \A f \in Ends : f # e => conn'[f] = conn[f]
      BY <2>1, <2>3
    <3>2. ShapeInv'
      BY <2>1, <2>3, <3>1, Zenon DEF ShapeInv
    <3> HIDE DEF Fewer
    <3>3. \A w : w \in Fewer(w)
      BY Zenon DEF Fewer
    <3>4. ASSUME NEW f \in Ends, ~Active(conn[f])
          PROVE  /\ ~Active(conn'[f]) /\ conn'[f].sender = conn[f].sender
                 /\ wire'[Peer(f)] \in Fewer(wire[Peer(f)])
      <4>1. CASE f = e
        BY <2>3, <3>1, <3>3, <3>4, <4>1, Zenon
      <4>2. CASE f # e
        BY <2>2, <2>3, <3>1, <3>4, <4>2, Zenon
      <4> QED
        BY <4>1, <4>2
    <3> QED
      BY <3>2, <3>4
  <2>4. ASSUME NEW e \in Ends, NEW c, NEW rest, Shape(c), Send(e, c, rest),
               rest \in Fewer(wire[e]), Active(conn[e]) \/ c = conn[e]
        PROVE  ShapeInv' /\ Kept
    <3> DEFINE d == [c EXCEPT !.segments_out = <<>>]
               left == [wire EXCEPT ![e] = rest]
               queue == left[Peer(e)] \o c.segments_out
               sent == [left EXCEPT ![Peer(e)] = queue]
    <3>1. Shape(d) /\ d.sender = c.sender /\ d.segments_out = <<>> /\ (Active(d) <=> Active(c))
      BY <2>4, QueueNotActive
    <3>2. /\ conn' = [conn EXCEPT ![e] = d]
          /\ wire' = left \/ (c.segments_out # <<>> /\ wire' = sent)
      BY <2>4 DEF Send
    <3> HIDE DEF d, queue
    <3>3. /\ left = [f \in Ends |-> left[f]] /\ left[e] = rest
          /\ left[Peer(e)] = wire[Peer(e)]
      BY <2>1, <2>2
    <3> HIDE DEF left
    <3>4. sent = [f \in Ends |-> sent[f]] /\ sent[e] = rest
      BY <2>2, <3>3
    <3> HIDE DEF sent, Fewer
    <3>5. wire' = [f \in Ends |-> wire'[f]] /\ wire'[e] \in Fewer(wire[e])
      BY <2>4, <3>2, <3>3, <3>4
    <3>6. ~Active(conn[e]) => /\ ~Active(d) /\ d.sender = conn[e].sender
                              /\ wire'[Peer(e)] = wire[Peer(e)]
      BY <2>1, <2>4, <3>1, <3>2, <3>3
    <3> QED
      BY <2>3, <3>1, <3>2, <3>5, <3>6
  <2>5. \A w : w \in Fewer(w)
    OBVIOUS
  <2>6. ASSUME UNCHANGED wire PROVE /\ wire' = [f \in Ends |-> wire'[f]]
                                    /\ \A f \in Ends : /\ wire'[f] = wire[f]
                                                      /\ wire'[f] \in Fewer(wire[f])
    BY <2>1, <2>5, <2>6
  <2>7. CASE Connect
    <3>1. /\ Send("x", ConnectionConnect(conn["x"]), wire["x"]) /\ "x" \in Ends
          /\ conn["x"] = NewConnection(SendCapacity, RecvCapacity, Isn["x"])
      BY <2>7 DEF Connect, Ends
    <3>2. Active(conn["x"])
      BY <3>1, NewIsActive
    <3> HIDE DEF Fewer
    <3> QED
      BY <2>1, <2>4, <2>5, <3>1, <3>2, OperationsKeepShape
  <2>8. ASSUME NEW e \in Ends, Close(e) PROVE ShapeInv' /\ Kept
    <3>1. Send(e, EndInputStream(conn[e]), wire[e])
      BY <2>8 DEF Close
    <3>2. Active(conn[e]) \/ EndInputStream(conn[e]) = conn[e]
      BY DEF EndInputStream
    <3> HIDE DEF Fewer
    <3> QED
      BY <2>1, <2>4, <2>5, <3>1, <3>2, OperationsKeepShape
  <2>9. ASSUME NEW e \in Ends, Tick(e) PROVE ShapeInv' /\ Kept
    <3>1. Send(e, ConnectionTick(conn[e], 1), wire[e])
      BY <2>9 DEF Tick
    <3>2. Active(conn[e]) \/ ConnectionTick(conn[e], 1) = conn[e]
      BY DEF ConnectionTick
    <3> HIDE DEF Fewer
    <3> QED
      BY <2>1, <2>4, <2>5, <3>1, <3>2, OperationsKeepShape
  <2>10. ASSUME NEW e \in Ends, Read(e) PROVE ShapeInv' /\ Kept
    <3> DEFINE c == ConnectionRead(conn[e], RecvCapacity)
    <3>1. conn' = [conn EXCEPT ![e] = c] /\ UNCHANGED wire
      BY <2>10 DEF Read
    <3>2. RecvCapacity \in Nat
      BY EndpointsAssumption
    <3>3. /\ Shape(c) /\ c.sender = conn[e].sender /\ c.segments_out = <<>>
          /\ ~Active(conn[e]) => ~Active(c)
      BY <2>1, <3>2, ReadKeepsOver
    <3> HIDE DEF c, Fewer
    <3> QED
      BY <2>2, <2>3, <2>6, <3>1, <3>3
  <2>11. ASSUME NEW e \in Ends, Destroy(e) PROVE ShapeInv' /\ Kept
    <3> DEFINE c == UncleanShutdown(conn[e])
               d == [c EXCEPT !.segments_out = <<>>]
    <3>1. conn' = [conn EXCEPT ![e] = d] /\ Active(conn[e]) /\ UNCHANGED wire
      BY <2>11 DEF Destroy
    <3>2. Shape(c)
      BY <2>1, OperationsKeepShape
    <3> HIDE DEF c
    <3>3. Shape(d) /\ d.segments_out = <<>>
      BY <3>2, QueueNotActive
    <3> HIDE DEF d, Fewer
    <3> QED
      BY <2>3, <2>6, <3>1, <3>3
  <2>12. ASSUME NEW e \in Ends, NEW len \in 1..SendCapacity, Write(e, len)
         PROVE  ShapeInv' /\ Kept
    <3> DEFINE data == Substring(Outbound(conn[e]).total_written, len)
    <3>1. Send(e, ConnectionWrite(conn[e], data), wire[e])
      BY <2>12 DEF Write
    <3>2. Active(conn[e]) \/ ConnectionWrite(conn[e], data) = conn[e]
      BY DEF ConnectionWrite
    <3> HIDE DEF data, Fewer
    <3> QED
      BY <2>1, <2>4, <2>5, <3>1, <3>2, OperationsKeepShape
  <2>13. ASSUME NEW e \in Ends, NEW i \in DOMAIN wire[e], Deliver(e, i)
         PROVE  ShapeInv' /\ Kept
    <3> DEFINE c == ConnectionReceived(conn[e], wire[e][i])
    <3>1. Send(e, c, RemoveAt(wire[e], i))
      BY <2>13 DEF Deliver
    <3>2. Active(conn[e]) \/ c = conn[e]
      BY DEF ConnectionReceived
    <3>3. Shape(c)
      BY <2>1, OperationsKeepShape
    <3> HIDE DEF c
    <3>4. RemoveAt(wire[e], i) \in Fewer(wire[e])
      BY <2>13
    <3> HIDE DEF Fewer
    <3> QED
      BY <2>4, <3>1, <3>2, <3>3, <3>4
  <2>14. CASE UNCHANGED vars
    BY <2>14 DEF vars, ShapeInv
  <2> QED
    BY <2>7, <2>8, <2>9, <2>10, <2>11, <2>12, <2>13, <2>14 DEF Next
<1> QED
  BY <1>1, <1>2, PTL DEF Spec, EndsForGood
=============================================================================
