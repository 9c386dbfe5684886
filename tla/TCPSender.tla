----------------------------- MODULE TCPSender -----------------------------
(***************************************************************************)
(* The class of libsponge/tcp_sender.cc as a data type.  The outstanding   *)
(* segments are kept in a map under the absolute sequence number that      *)
(* follows them, which is the number that acknowledges them.               *)
(***************************************************************************)
EXTENDS ByteStream, OrderedMap, WrappingIntegers, TCPSegment, FiniteSetsExt

CONSTANTS MaxPayload,   \* TCPConfig::MAX_PAYLOAD_SIZE
          InitialRto    \* the initial retransmission timeout

ASSUME SenderAssumption == MaxPayload \in Nat \ {0} /\ InitialRto \in Nat \ {0}

NewSender(capacity, isn) ==
    [isn |-> isn, segments_out |-> <<>>, stream |-> NewByteStream(capacity),
     next_seqno |-> 0, outstanding |-> EmptyMap, bytes_in_flight |-> 0,
     syn |-> FALSE, fin_sent |-> FALSE, wdn_sz |-> 1, abs_ackno |-> 0,
     recv_wdn_sz |-> 0, max_abs_seqno |-> 0, rto |-> 0,
     consecutive_retransmissions |-> 0, elapsed_time |-> 0, timer_on |-> FALSE]

(* Mutant: a segment sent when nothing is in flight starts no timer.       *)
StartTimerNever(s) == s

StartTimer(s) ==
    IF s.timer_on THEN s
    ELSE [s EXCEPT !.elapsed_time = 0, !.rto = InitialRto, !.timer_on = TRUE]

(* send_segment for each of the segments in turn; all of them but the last *)
(* carry MaxPayload bytes and no flag.                                     *)
SendSegments(s, segments) ==
    LET first(i) == s.next_seqno + (i - 1) * MaxPayload
        ends     == [i \in DOMAIN segments |->
                        first(i) + LengthInSequenceSpace(segments[i])]
        numbered == [i \in DOMAIN segments |->
                        [segments[i] EXCEPT !.seqno = Wrap(first(i), s.isn)]]
        next     == ends[Len(segments)]
    IN  IF segments = <<>> THEN s
        ELSE StartTimer(
                [s EXCEPT !.bytes_in_flight = @ + next - s.next_seqno,
                          !.next_seqno = next,
                          !.segments_out = @ \o numbered,
                          !.outstanding = InsertAll(@, ends, numbered)])

(* Mutant: the FIN does not wait for the bytes that do not fit.            *)
FinFitsEarly(s) == s.stream.input_ended /\ s.recv_wdn_sz > 0 /\ ~s.fin_sent

(* Mutant: the FIN is sent again whenever there is room.                   *)
FinFitsAgain(s) ==
    Eof(s.stream) /\ s.recv_wdn_sz > BufferSize(s.stream)

(* The bytes end inside the window and the FIN fits behind them: it goes   *)
(* with the last of them or, if there are none, in a segment of its own.   *)
FinFits(s) ==
    /\ Eof(PopOutput(s.stream, s.recv_wdn_sz))
    /\ s.recv_wdn_sz > BufferSize(s.stream)
    /\ BufferSize(s.stream) = 0 => ~s.fin_sent

(* The bytes that fit the window, cut into segments of MaxPayload bytes.   *)
WindowSegments(s) ==
    LET data  == PeekOutput(s.stream, s.recv_wdn_sz)
        count == (Len(data) + MaxPayload - 1) \div MaxPayload
        n     == IF data = <<>> /\ FinFits(s) THEN 1 ELSE count
    IN  [i \in 1..n |->
            [EmptySegment EXCEPT
                !.fin = FinFits(s) /\ i = n,
                !.payload = SubSeq(data, (i - 1) * MaxPayload + 1,
                                   Least(i * MaxPayload, Len(data)))]]

(* The SYN first; then as much as the window takes, until it is full.      *)
FillWindow(s) ==
    LET data == PeekOutput(s.stream, s.recv_wdn_sz)
        left == s.recv_wdn_sz - Len(data)
    IN  IF ~s.syn
        THEN SendSegments([s EXCEPT !.syn = TRUE],
                          <<[EmptySegment EXCEPT !.syn = TRUE]>>)
        ELSE SendSegments(
                [s EXCEPT !.stream = PopOutput(@, Len(data)),
                          !.recv_wdn_sz = IF FinFits(s) THEN left - 1 ELSE left,
                          !.fin_sent = @ \/ FinFits(s)],
                WindowSegments(s))

(* Mutant: only the segment that ends there is freed.                      *)
AcknowledgedOne(s, abs_ackno) == DOMAIN s.outstanding \cap {abs_ackno}

(* Mutant: the segment behind the acknowledged ones is freed too.          *)
AcknowledgedOneMore(s, abs_ackno) ==
    {k \in DOMAIN s.outstanding : k <= abs_ackno + 1}

(* The outstanding segments an acknowledgment frees: none, unless it is    *)
(* the end of one of them.                                                 *)
Acknowledged(s, abs_ackno) ==
    {k \in DOMAIN s.outstanding : abs_ackno \in DOMAIN s.outstanding /\ k <= abs_ackno}

(* Mutant: the bytes in flight do not count against the window.            *)
WindowLeftOfAll(s, abs_ackno, window_size) == IF window_size = 0 THEN 1 ELSE window_size

(* Mutant: a closed window is not probed.                                  *)
WindowLeftUnprobed(s, abs_ackno, window_size) == abs_ackno + window_size - s.next_seqno

(* A closed window is taken for a window of one, to probe it.              *)
WindowLeft(s, abs_ackno, window_size) ==
    IF window_size = 0 THEN 1 ELSE abs_ackno + window_size - s.next_seqno

(* An acknowledgment of a number not yet sent is dropped; one that leaves  *)
(* no room for what has been sent only closes the window.                  *)
AckReceived(s, ackno, window_size) ==
    LET abs_ackno == Unwrap(ackno, s.isn, s.abs_ackno)
        acked     == Acknowledged(s, abs_ackno)
        left      == Erase(s.outstanding, acked)
        newer     == abs_ackno > s.max_abs_seqno
        freed     == SumFunctionOnSet(
                        [k \in acked |-> LengthInSequenceSpace(s.outstanding[k])], acked)
    IN  IF abs_ackno > s.next_seqno THEN s
        ELSE IF abs_ackno + window_size < s.next_seqno
        THEN [s EXCEPT !.recv_wdn_sz = 0]
        ELSE FillWindow(
                [s EXCEPT !.abs_ackno = abs_ackno, !.wdn_sz = window_size,
                          !.bytes_in_flight = @ - freed, !.outstanding = left,
                          !.recv_wdn_sz = WindowLeft(s, abs_ackno, window_size),
                          !.max_abs_seqno = IF newer THEN abs_ackno ELSE @,
                          !.rto = IF newer THEN InitialRto ELSE @,
                          !.consecutive_retransmissions = IF newer THEN 0 ELSE @,
                          !.elapsed_time = IF newer /\ left # EmptyMap THEN 0 ELSE @,
                          !.timer_on = @ /\ left # EmptyMap])

(* When the timer expires the earliest outstanding segment is sent again,  *)
(* and the timeout doubles unless the window is closed.                    *)
SenderTick(s, ms) ==
    LET idle    == s.outstanding = EmptyMap
        elapsed == IF idle THEN 0 ELSE s.elapsed_time + ms
        rto     == IF idle THEN InitialRto ELSE s.rto
        expired == elapsed >= rto
        backoff == expired /\ s.wdn_sz > 0
    IN  IF ~s.timer_on THEN s
        ELSE [s EXCEPT !.elapsed_time = IF expired THEN 0 ELSE elapsed,
                       !.rto = IF backoff THEN 2 * rto ELSE rto,
                       !.consecutive_retransmissions = IF backoff THEN @ + 1 ELSE @,
                       !.segments_out =
                            IF expired /\ ~idle
                            THEN Append(@, s.outstanding[Min(DOMAIN s.outstanding)])
                            ELSE @]

(* A segment that only acknowledges: it takes no sequence number and is    *)
(* never sent again.                                                       *)
SendEmptySegment(s) ==
    [s EXCEPT !.segments_out =
        Append(@, [EmptySegment EXCEPT !.ack = TRUE, !.seqno = Wrap(s.next_seqno, s.isn)])]
=============================================================================
