----------------------------- MODULE Receiving -----------------------------
(***************************************************************************)
(* One TCPReceiver, an application that reads its stream, and a network    *)
(* that reorders, repeats and loses the segments of a peer.  The peer      *)
(* respects the advertised window; the network delivers nothing that is    *)
(* more than Lifetime sequence numbers older than the acknowledgment.      *)
(***************************************************************************)
EXTENDS TCPReceiver

CONSTANTS Capacity, StreamLength,
          Lifetime,      \* how far behind the acknowledgment an old segment is
          Isns,          \* the initial sequence numbers the peer may choose
          FinOvertakes   \* may a FIN without payload arrive before the data?

ASSUME ReceivingAssumption ==
    /\ {Capacity, StreamLength} \subseteq Nat \ {0} /\ Lifetime \in Nat
    /\ Isns \subseteq 0..(Modulus - 1)
    /\ FinOvertakes \in BOOLEAN
    /\ Lifetime + 2 * Capacity + 2 <= Half
    /\ StreamLength + Capacity < Word

VARIABLES receiver,
          isn,       \* the peer's initial sequence number
          fin_alone, \* does the peer send its FIN in a segment of its own?
          retries    \* parity of the arrivals of the first missing segment

vars == <<receiver, isn, fin_alone, retries>>

Init ==
    /\ receiver = NewReceiver(Capacity)
    /\ isn \in Isns
    /\ fin_alone \in BOOLEAN
    /\ retries = 0

reassembler == receiver.reassembler
Output == reassembler.output

(* The peer's segment from absolute sequence number abs on, with len bytes *)
(* of the stream.                                                          *)
PeerSegment(abs, len, syn, fin) ==
    [EmptySegment EXCEPT !.seqno = Wrap(abs, isn), !.syn = syn, !.fin = fin,
        !.payload = Substring(IF syn THEN 0 ELSE abs - 1, len)]

(* The segments the peer may have sent.  They stay inside the window or    *)
(* probe a closed one with one sequence number, the FIN stands at the end  *)
(* of the stream, and those without payload are acknowledgments or         *)
(* keep-alives.                                                            *)
Sendable(abs, len, syn, fin) ==
    LET index == IF syn THEN 0 ELSE abs - 1
        limit == RightEdge(reassembler)
                    + (IF WindowSize(receiver) = 0 THEN 1 ELSE 0)
    IN  /\ syn => abs = 0
        /\ len > 0 => index >= 0 /\ index + len <= StreamLength
        /\ index + len + (IF fin THEN 1 ELSE 0) <= limit
        /\ fin => index + len = StreamLength /\ (len = 0 <=> fin_alone)
        /\ ~fin_alone /\ len > 0 /\ index + len = StreamLength => fin
        /\ fin_alone /\ fin /\ ~FinOvertakes => Output.total_written = StreamLength

Arrive(abs, len, syn, fin) ==
    /\ Sendable(abs, len, syn, fin)
    /\ syn \/ abs + Lifetime >= receiver.exp_ack
    /\ receiver' = SegmentReceived(receiver, PeerSegment(abs, len, syn, fin))
    /\ retries' = IF abs = receiver.exp_ack /\ (syn \/ len > 0 \/ fin)
                  THEN 1 - retries ELSE retries
    /\ UNCHANGED <<isn, fin_alone>>

Read(len) ==
    /\ receiver' = [receiver EXCEPT !.reassembler = ReadOutput(@, len)]
    /\ UNCHANGED <<isn, fin_alone, retries>>

(* No sequence number is beyond the one that follows the FIN.              *)
Next ==
    \/ \E abs \in 0..(StreamLength + 2), len \in 0..Capacity,
          syn, fin \in BOOLEAN : Arrive(abs, len, syn, fin)
    \/ \E len \in 1..Capacity : Read(len)

(* Until everything is acknowledged, the peer's retransmission timer sends *)
(* the segment that starts at the acknowledged number again and again, and *)
(* the network lets it through again and again; the application keeps      *)
(* reading.                                                                *)
Fairness ==
    /\ <>[](receiver.exp_ack = StreamLength + 2) \/ []<><<retries' # retries>>_vars
    /\ WF_vars(Read(Capacity))

Spec == Init /\ [][Next]_vars

FairSpec == Spec /\ Fairness

-----------------------------------------------------------------------------
(* Type invariant.                                                         *)
TypeOK ==
    /\ ReassemblerType(reassembler)
    /\ receiver.ack \in 0..(Modulus - 1)
    /\ receiver.isn \in 0..(Modulus - 1)
    /\ receiver.exp_ack \in 0..(StreamLength + 2)
    /\ receiver.checkpoint \in 0..(StreamLength + 2)
    /\ WindowSize(receiver) \in 0..Capacity

(* unwrap and the shift by the SYN put the payload of every segment at its *)
(* own place of the stream, also after the sequence numbers have wrapped   *)
(* and whatever old segment moved the checkpoint back.                     *)
InPlace == BytesInPlace(reassembler)

(* The first position of the stream that has not been received.            *)
FirstMissing == Min((0..StreamLength) \ Received(reassembler))

(* ackno() is the sequence number of the first byte the receiver has not   *)
(* received; the number after the FIN once there is none.                  *)
AckExact ==
    receiver.syn =>
        \/ receiver.ack = Wrap(FirstMissing + 1, isn)
        \/ FirstMissing = StreamLength /\ receiver.ack = Wrap(StreamLength + 2, isn)

(* The stream handed to the application ends when, and only when, the FIN  *)
(* has been acknowledged, and then it is complete.                         *)
EndExact ==
    /\ Output.input_ended <=> receiver.exp_ack = StreamLength + 2
    /\ Output.input_ended => Output.total_written = StreamLength

(* Neither the acknowledgment nor the right edge of the window, which the  *)
(* peer adds up from ackno() and window_size(), ever moves back.           *)
EdgesAdvance ==
    [][/\ receiver'.exp_ack >= receiver.exp_ack
       /\ receiver'.exp_ack + WindowSize(receiver')
            >= receiver.exp_ack + WindowSize(receiver)]_vars

(* Seen from the application the receiver is an OrderedDelivery.           *)
Delivery == INSTANCE OrderedDelivery
                WITH have <- Received(reassembler), read <- Output.total_read

RefinesDelivery == Delivery!Spec

(* If the peer keeps retransmitting and the application keeps reading, the *)
(* application sees the end of the stream.                                 *)
StreamEnds == <>[](Eof(Output) /\ Output.total_read = StreamLength)
=============================================================================
