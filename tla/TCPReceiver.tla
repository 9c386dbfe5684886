---------------------------- MODULE TCPReceiver ----------------------------
(***************************************************************************)
(* The class of libsponge/tcp_receiver.cc as a data type: it turns the     *)
(* sequence number of a segment into a stream index, pushes the payload    *)
(* into the reassembler and computes the acknowledgment and the window.    *)
(***************************************************************************)
EXTENDS StreamReassembler, WrappingIntegers, TCPSegment

CONSTANT Word   \* 2^64 in the code, the range of a stream index

ASSUME WordAssumption == Word \in Nat \ {0}

NewReceiver(capacity) ==
    [reassembler |-> NewReassembler(capacity), capacity |-> capacity,
     ack |-> 0, isn |-> 0, exp_ack |-> 0, checkpoint |-> 0,
     syn |-> FALSE, end |-> FALSE]

(* Mutant: the acknowledgment counts the FIN before all bytes are there.   *)
ExpectedAckOfEnd(reassembler, end) ==
    reassembler.output.total_written + 1 + (IF end THEN 1 ELSE 0)

(* Mutant: the FIN is never acknowledged.                                  *)
ExpectedAckWithoutFin(reassembler, end) == reassembler.output.total_written + 1

(* The absolute sequence number to acknowledge: the SYN, the bytes written *)
(* and the FIN each count.                                                 *)
ExpectedAck(reassembler, end) ==
    reassembler.output.total_written + 1
        + (IF end /\ Empty(reassembler) THEN 1 ELSE 0)

(* Mutant: the SYN is not counted when the stream index is computed.       *)
StreamIndexOfSeqno(seg, checkpoint) == IF seg.syn THEN 0 ELSE checkpoint

StreamIndex(seg, checkpoint) == IF seg.syn THEN 0 ELSE (checkpoint - 1) % Word

(* A second SYN, and anything before the first one, is dropped.  Once a    *)
(* FIN has been seen every later substring is pushed with eof set.         *)
SegmentReceived(r, seg) ==
    LET isn         == IF seg.syn THEN seg.seqno ELSE r.isn
        checkpoint  == Unwrap(seg.seqno, isn, r.checkpoint)
        end         == r.end \/ seg.fin
        reassembler == PushSubstring(r.reassembler, seg.payload,
                                     StreamIndex(seg, checkpoint), end)
        exp_ack     == ExpectedAck(reassembler, end)
    IN  IF seg.syn /\ r.syn THEN r
        ELSE IF ~seg.syn /\ ~r.syn THEN r
        ELSE [r EXCEPT !.reassembler = reassembler, !.isn = isn,
                       !.checkpoint = checkpoint, !.end = end, !.syn = TRUE,
                       !.exp_ack = exp_ack, !.ack = Wrap(exp_ack, isn)]

(* Mutant: the window also gives up the room of the unassembled bytes.     *)
WindowSizeOfFree(r) ==
    r.capacity - BufferSize(r.reassembler.output)
               - r.reassembler.unassembled_bytes

WindowSize(r) == r.capacity - BufferSize(r.reassembler.output)
=============================================================================
