--------------------------- MODULE TCPConnection ---------------------------
(***************************************************************************)
(* The class of libsponge/tcp_connection.cc as a data type: a sender and a *)
(* receiver that share their segments, and the rules by which the two of   *)
(* them end.                                                               *)
(***************************************************************************)
EXTENDS TCPSender, TCPReceiver

CONSTANTS MaxRetxAttempts,   \* TCPConfig::MAX_RETX_ATTEMPTS
          LingerTime         \* 10 * rt_timeout

ASSUME ConnectionAssumption == MaxRetxAttempts \in Nat /\ LingerTime \in Nat

NewConnection(send_capacity, recv_capacity, isn) ==
    [sender |-> NewSender(send_capacity, isn), receiver |-> NewReceiver(recv_capacity),
     segments_out |-> <<>>, linger_after_streams_finish |-> TRUE,
     time_since_last_segment_received |-> 0, initiator |-> FALSE]

Outbound(c) == c.sender.stream
Inbound(c) == c.receiver.reassembler.output

(* Mutant: a connection ends without waiting for its bytes in flight.      *)
ActiveUnlessRead(c) ==
    ~ \/ Outbound(c).error /\ Inbound(c).error
      \/ Eof(Inbound(c)) /\ Eof(Outbound(c)) /\ ~c.linger_after_streams_finish

(* Mutant: the linger time is not compared, the connection waits forever.  *)
ActiveWhileLingering(c) ==
    ~ \/ Outbound(c).error /\ Inbound(c).error
      \/ /\ Eof(Inbound(c)) /\ Eof(Outbound(c)) /\ c.sender.bytes_in_flight = 0
         /\ ~c.linger_after_streams_finish

(* Reset, or both streams over and, at the end that closed first, nothing  *)
(* heard for the linger time.                                              *)
Active(c) ==
    ~ \/ Outbound(c).error /\ Inbound(c).error
      \/ /\ Eof(Inbound(c)) /\ Eof(Outbound(c)) /\ c.sender.bytes_in_flight = 0
         /\ c.linger_after_streams_finish =>
                c.time_since_last_segment_received >= LingerTime

RemainingOutboundCapacity(c) == RemainingCapacity(Outbound(c))

(* The window as a header field of 16 bits.                                *)
Window(c) == Least(WindowSize(c.receiver), MaxWindow)

Acknowledging(c, seg) ==
    [seg EXCEPT !.ackno = c.receiver.ack, !.ack = TRUE, !.win = Window(c)]

(* All segments of the sender leave; once there is something to            *)
(* acknowledge, all of them do.                                            *)
FlushBuffer(c) ==
    LET queue == c.sender.segments_out
    IN  [c EXCEPT !.sender.segments_out = <<>>,
                  !.segments_out =
                     @ \o [i \in DOMAIN queue |->
                             IF c.receiver.syn THEN Acknowledging(c, queue[i]) ELSE queue[i]]]

(* Only the segment at the front leaves, as an acknowledgment; the others  *)
(* wait for the next flush.                                                *)
Reply(c) ==
    LET queue == c.sender.segments_out
        seg   == [Head(queue) EXCEPT !.ackno = IF c.receiver.syn THEN c.receiver.ack ELSE @,
                                     !.ack = TRUE, !.win = Window(c)]
    IN  IF queue = <<>> THEN c
        ELSE [c EXCEPT !.sender.segments_out = Tail(@), !.segments_out = Append(@, seg)]

SetErrors(c) ==
    [c EXCEPT !.sender.stream = SetError(@), !.receiver.reassembler.output = SetError(@),
              !.linger_after_streams_finish = FALSE]

UncleanShutdown(c) ==
    LET sender == IF c.sender.segments_out = <<>> THEN SendEmptySegment(c.sender) ELSE c.sender
        seg    == [Head(sender.segments_out) EXCEPT
                      !.ackno = IF c.receiver.syn THEN c.receiver.ack ELSE @, !.rst = TRUE]
    IN  SetErrors([c EXCEPT !.sender = [sender EXCEPT !.segments_out = Tail(@)],
                            !.segments_out = Append(@, seg)])
-----------------------------------------------------------------------------
ConnectionConnect(c) ==
    LET sender == FillWindow(c.sender)
    IN  IF sender.segments_out = <<>> THEN [c EXCEPT !.sender = sender]
        ELSE [c EXCEPT !.sender = [sender EXCEPT !.segments_out = Tail(@)],
                       !.segments_out = Append(@, Head(sender.segments_out)),
                       !.initiator = TRUE]

(* Mutant: write() does not ask whether the connection is over.            *)
WriteAnyway(c, data) ==
    FlushBuffer([c EXCEPT !.sender =
                FillWindow([c.sender EXCEPT !.stream = StreamWrite(@, data)])])

ConnectionWrite(c, data) ==
    IF ~Active(c) THEN c
    ELSE FlushBuffer([c EXCEPT !.sender =
                FillWindow([c.sender EXCEPT !.stream = StreamWrite(@, data)])])

EndInputStream(c) ==
    IF ~Active(c) THEN c
    ELSE FlushBuffer([c EXCEPT !.sender =
                FillWindow([c.sender EXCEPT !.stream = EndInput(@)])])

(* What tick() does once it knows that the connection is active.  The time *)
(* only matters up to LingerTime and is not counted beyond it.             *)
Ticked(c, ms) ==
    LET ticked == [c EXCEPT !.time_since_last_segment_received = Least(@ + ms, LingerTime),
                            !.sender = SenderTick(@, ms)]
    IN  FlushBuffer(IF ticked.sender.consecutive_retransmissions > MaxRetxAttempts
                    THEN UncleanShutdown(ticked) ELSE ticked)

ConnectionTick(c, ms) == IF Active(c) THEN Ticked(c, ms) ELSE c

(* Mutant: the end that closed first does not linger either.               *)
PeerEnded(c) == Inbound(c).input_ended

(* The peer ended its stream first.                                        *)
PassiveClose(c) == Inbound(c).input_ended /\ ~Eof(Outbound(c))

(* A reset ends both streams at once.  Any other segment goes to the       *)
(* receiver and, if it acknowledges, to the sender; one that takes         *)
(* sequence numbers is answered.  A peer that ends its stream first makes  *)
(* this end close without lingering.                                       *)
ConnectionReceived(c, seg) ==
    LET heard    == [c EXCEPT !.time_since_last_segment_received = 0]
        taken    == [heard EXCEPT !.receiver = SegmentReceived(@, seg),
                                  !.sender = IF seg.ack THEN AckReceived(@, seg.ackno, seg.win)
                                             ELSE @]
        opening  == seg.syn /\ ~seg.ack /\ ~c.initiator
        answered == IF LengthInSequenceSpace(seg) = 0 THEN FlushBuffer(taken)
                    ELSE Reply([taken EXCEPT !.sender = IF opening THEN FillWindow(@)
                                                        ELSE SendEmptySegment(@)])
    IN  IF ~Active(c) THEN c
        ELSE IF seg.rst THEN SetErrors(heard)
        ELSE [answered EXCEPT !.linger_after_streams_finish = @ /\ ~PassiveClose(answered)]

(* Mutant: everything is popped, however much was read.                    *)
ConnectionReadAll(c, len) ==
    [c EXCEPT !.receiver.reassembler = ReadOutput(@, BufferSize(Inbound(c)))]

(* The application reads from inbound_stream().                            *)
ConnectionRead(c, len) ==
    [c EXCEPT !.receiver.reassembler = ReadOutput(@, len)]
=============================================================================
