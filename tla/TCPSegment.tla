---------------------------- MODULE TCPSegment ----------------------------
(***************************************************************************)
(* TCP segments as the two ends see them after parsing: the header fields  *)
(* that the sender, the receiver and the connection look at, and the       *)
(* payload (libsponge/tcp_helpers/tcp_segment.hh and tcp_header.hh).       *)
(***************************************************************************)
EXTENDS Integers, Sequences

(* The largest value of the 16-bit window field.                           *)
MaxWindow == 65535

(* A default-constructed segment.                                          *)
EmptySegment ==
    [seqno |-> 0, ackno |-> 0, ack |-> FALSE, rst |-> FALSE, syn |-> FALSE,
     fin |-> FALSE, win |-> 0, payload |-> <<>>]

LengthInSequenceSpace(seg) ==
    Len(seg.payload) + (IF seg.syn THEN 1 ELSE 0) + (IF seg.fin THEN 1 ELSE 0)
=============================================================================
