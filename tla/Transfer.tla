------------------------------ MODULE Transfer ------------------------------
(***************************************************************************)
(* One direction of a TCP connection: an application writes into a         *)
(* TCPSender, another one reads from the TCPReceiver of the peer, and a    *)
(* network between them loses, repeats and reorders segments, and loses    *)
(* acknowledgments.  Segments leave the sender's queue in the step that    *)
(* put them there, as TCPConnection::flush_buffer sees to.                 *)
(***************************************************************************)
EXTENDS TCPSender, TCPReceiver

CONSTANTS SendCapacity, RecvCapacity, StreamLength, Isn,
          MaxLosses,      \* how many segments and replies the network loses
          MaxRetx,        \* retransmissions in a row before the connection gives up
          MaxAcks,        \* acknowledgments on their way at a time
          AckOrders,      \* do acknowledgments stay in order and single, or not?
          FinOvertakes    \* may a FIN without payload arrive before the data?

ASSUME TransferAssumption ==
    /\ {SendCapacity, RecvCapacity, StreamLength, MaxLosses, MaxRetx, MaxAcks} \subseteq Nat
    /\ Isn \in 0..(Modulus - 1)
    /\ AckOrders \subseteq BOOLEAN /\ FinOvertakes \in BOOLEAN
    /\ StreamLength + 2 < Half /\ StreamLength + RecvCapacity < Word

VARIABLES sender, receiver,
          wire,     \* the segments on their way
          acks,     \* the acknowledgments on their way, oldest first
          losses,   \* the number of segments and replies lost so far
          in_order  \* the network neither repeats nor reorders acknowledgments

vars == <<sender, receiver, wire, acks, losses, in_order>>

Init ==
    /\ sender = NewSender(SendCapacity, Isn)
    /\ receiver = NewReceiver(RecvCapacity)
    /\ wire = {} /\ acks = <<>> /\ losses = 0 /\ in_order \in AckOrders

(* The sender goes to state s, and the segments in its queue to the wire,  *)
(* where all of them may get lost.                                         *)
Flush(s) ==
    /\ sender' = [s EXCEPT !.segments_out = <<>>]
    /\ UNCHANGED in_order
    /\ \/ wire' = wire \cup Range(s.segments_out) /\ UNCHANGED losses
       \/ /\ s.segments_out # <<>> /\ losses < MaxLosses
          /\ losses' = losses + 1 /\ UNCHANGED wire

Connect ==
    /\ ~sender.syn
    /\ Flush(FillWindow(sender))
    /\ UNCHANGED <<receiver, acks>>

Write(len) ==
    /\ sender.syn /\ ~sender.stream.input_ended
    /\ sender.stream.total_written + len <= StreamLength
    /\ Flush(FillWindow([sender EXCEPT
                !.stream = StreamWrite(@, Substring(@.total_written, len))]))
    /\ UNCHANGED <<receiver, acks>>

Close ==
    /\ sender.syn /\ ~sender.stream.input_ended
    /\ Flush(FillWindow([sender EXCEPT !.stream = EndInput(@)]))
    /\ UNCHANGED <<receiver, acks>>

GivenUp == sender.consecutive_retransmissions = MaxRetx

Tick ==
    /\ sender.timer_on
    /\ ~GivenUp
    /\ Flush(SenderTick(sender, 1))
    /\ UNCHANGED <<receiver, acks>>

(* The network keeps back a FIN without payload that would overtake data.  *)
HeldBack(seg) ==
    /\ seg.fin /\ seg.payload = <<>> /\ ~FinOvertakes
    /\ receiver.reassembler.output.total_written # sender.stream.total_written

(* A segment reaches the receiver, and may stay on the wire to be repeated.*)
(* The reply carries the acknowledgment and the window.                    *)
Deliver(seg, again) ==
    LET r == SegmentReceived(receiver, seg)
    IN  /\ ~HeldBack(seg)
        /\ Len(acks) < MaxAcks
        /\ receiver' = r
        /\ wire' = IF again THEN wire ELSE wire \ {seg}
        /\ \/ /\ r.syn
              /\ acks' = Append(acks, [ackno |-> r.ack,
                                       win |-> Least(WindowSize(r), MaxWindow)])
              /\ UNCHANGED losses
           \/ ~r.syn /\ UNCHANGED <<acks, losses>>
           \/ losses < MaxLosses /\ losses' = losses + 1 /\ UNCHANGED acks
        /\ UNCHANGED <<sender, in_order>>

ReceiveAck(i, again) ==
    /\ in_order => i = 1 /\ ~again
    /\ Flush(AckReceived(sender, acks[i].ackno, acks[i].win))
    /\ acks' = IF again THEN acks
               ELSE SubSeq(acks, 1, i - 1) \o SubSeq(acks, i + 1, Len(acks))
    /\ UNCHANGED receiver

Read(len) ==
    /\ receiver' = [receiver EXCEPT !.reassembler = ReadOutput(@, len)]
    /\ UNCHANGED <<sender, wire, acks, losses, in_order>>

Next ==
    \/ Connect \/ Close \/ Tick
    \/ \E len \in 1..SendCapacity : Write(len)
    \/ \E seg \in wire, again \in BOOLEAN : Deliver(seg, again)
    \/ \E i \in DOMAIN acks, again \in BOOLEAN : ReceiveAck(i, again)
    \/ \E len \in 1..RecvCapacity : Read(len)

(* Time passes, no segment that may be delivered and no acknowledgment     *)
(* stays on its way forever, and the application keeps reading.            *)
Fairness ==
    /\ []<>(SenderTick(sender, 1) = sender \/ GivenUp) \/ []<><<Tick>>_vars
    /\ \A abs \in 0..(StreamLength + 1) :
            []<>(\A seg \in wire : HeldBack(seg) \/ seg.seqno # Wrap(abs, Isn))
    /\ []<>(acks = <<>>)
    /\ WF_vars(Read(RecvCapacity))

Spec == Init /\ [][Next]_vars

FairSpec == Spec /\ Fairness

-----------------------------------------------------------------------------
reassembler == receiver.reassembler
Output == reassembler.output

(* Type invariant.                                                         *)
TypeOK ==
    /\ sender.stream.buf \in Seq(Nat)
    /\ sender.next_seqno \in 0..(StreamLength + 2)
    /\ DOMAIN sender.outstanding \subseteq 1..(StreamLength + 2)
    /\ sender.recv_wdn_sz \in 0..MaxWindow
    /\ sender.elapsed_time \in Nat /\ sender.rto \in Nat
    /\ ReassemblerType(reassembler)

(* The sequence numbers of the outstanding segments.                       *)
InFlight ==
    UNION {(k - LengthInSequenceSpace(sender.outstanding[k]))..(k - 1) :
                k \in DOMAIN sender.outstanding}

(* The outstanding segments are the last bytes_in_flight numbers sent,     *)
(* without a gap: nothing between them was dropped or counted twice.       *)
InFlightExact ==
    InFlight = (sender.next_seqno - sender.bytes_in_flight)..(sender.next_seqno - 1)

(* ack_received never frees a segment, and so never stops retransmitting   *)
(* it, before the receiver has all of it.                                  *)
NothingForgotten == receiver.exp_ack..(sender.next_seqno - 1) \subseteq InFlight

(* The timer runs exactly while something is outstanding: a segment is     *)
(* never left to a timer that nobody starts again.                         *)
TimerRuns == sender.timer_on <=> sender.outstanding # EmptyMap

(* The sender stays inside the window of the receiver, except for a probe  *)
(* of one number, and the FIN counts.                                      *)
WindowRespected ==
    LET edge == receiver.exp_ack + WindowSize(receiver)
    IN  \/ sender.next_seqno <= edge
        \/ sender.next_seqno = edge + 1 /\ sender.bytes_in_flight = 1

(* Every byte is read at the position it was written at.                   *)
InPlace == BytesInPlace(reassembler)

(* The reader sees the end of the stream only after the writer closed it   *)
(* and all bytes written have arrived; and when the sender takes its FIN   *)
(* for acknowledged, the reader sees the end.                              *)
EndAgrees ==
    /\ Output.input_ended =>
            sender.fin_sent /\ Output.total_written = sender.stream.total_written
    /\ sender.fin_sent /\ sender.outstanding = EmptyMap => Output.input_ended

(* The reader has read all that was written, and the end after the close.  *)
Level ==
    /\ Output.total_read = sender.stream.total_written
    /\ sender.stream.input_ended => Eof(Output)

(* The reader always catches up with the writer: every byte written is     *)
(* read, and a stream that is closed is seen to end, unless the sender     *)
(* runs out of retransmissions.                                            *)
EverythingArrives == []<>(Level \/ GivenUp)

(* The same over a network that keeps the acknowledgments in order:        *)
(* retransmission and the probing of a closed window bring everything      *)
(* across (tcp_sender.cc:113, :157).                                       *)
ArrivesInOrder == []<>(in_order => Level \/ GivenUp)
=============================================================================
