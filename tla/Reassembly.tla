----------------------------- MODULE Reassembly -----------------------------
(***************************************************************************)
(* One StreamReassembler between a network that delivers any substring of  *)
(* a stream, in any order and any number of times, and an application that *)
(* reads.                                                                  *)
(***************************************************************************)
EXTENDS StreamReassembler

CONSTANTS Capacity,      \* the capacity given to the constructor
          StreamLength   \* the number of bytes of the whole stream

ASSUME CapacityAssumption == Capacity \in Nat
ASSUME StreamLengthAssumption == StreamLength \in Nat

VARIABLE reassembler

Init == reassembler = NewReassembler(Capacity)

(* eof says that the substring ends the stream; the last bytes may arrive  *)
(* without it, as when a FIN follows in a segment of its own.              *)
Push(index, len, eof) ==
    /\ index + len <= StreamLength
    /\ eof => index + len = StreamLength
    /\ reassembler' = PushSubstring(reassembler, Substring(index, len), index, eof)

Read(len) == reassembler' = ReadOutput(reassembler, len)

Next ==
    \/ \E index, len \in 0..StreamLength, eof \in BOOLEAN : Push(index, len, eof)
    \/ \E len \in 1..Capacity : Read(len)

Spec == Init /\ [][Next]_reassembler

(* The substring at index is again and again pushed, or would change       *)
(* nothing: it is then received already or outside the window.  This is    *)
(* the weak fairness of Push, as pushing once makes pushing again change   *)
(* nothing.                                                                *)
KeepsArriving(index, len, eof) ==
    []<>(PushSubstring(reassembler, Substring(index, len), index, eof) = reassembler)

(* The network delivers every single byte again and again, as a sender     *)
(* that retransmits does, and the application keeps reading.               *)
Fairness ==
    /\ \A index \in 0..(StreamLength - 1) : KeepsArriving(index, 1, FALSE)
    /\ WF_reassembler(Read(Capacity))

FairSpec == Spec /\ Fairness

-----------------------------------------------------------------------------
Output == reassembler.output

(* Type invariant; the positions also stay inside the stream.              *)
TypeOK ==
    /\ ReassemblerType(reassembler)
    /\ Output.cap = Capacity
    /\ Received(reassembler) \subseteq 0..(StreamLength - 1)

(* merge leaves no two stored substrings that overlap or touch, and        *)
(* reorder_buffer leaves none that could have been written out; all of     *)
(* them lie inside the window.                                             *)
Apart == StoredApart(reassembler)

(* merge_string, the clipping of validate and the writing out never        *)
(* misplace, skip or repeat a byte.                                        *)
InPlace == BytesInPlace(reassembler)

(* reorder_buffer never takes the branch in which it reads the map node it *)
(* has erased: a stored substring always fits the output when its turn     *)
(* comes.                                                                  *)
NoDanglingRead == ~reassembler.dangling

(* unassembled_bytes counts each stored position once, however often it    *)
(* was pushed; empty() relies on it.                                       *)
UnassembledExact ==
    reassembler.unassembled_bytes = Cardinality(Waiting(reassembler))

(* The capacity bounds the assembled and the unassembled bytes together.   *)
WithinCapacity ==
    BufferSize(Output) + Cardinality(Waiting(reassembler)) <= Capacity

(* The reassembler does what OrderedDelivery says: exactly the bytes that  *)
(* arrive inside the window are kept, and they are read in order.          *)
Delivery == INSTANCE OrderedDelivery
                WITH have <- Received(reassembler), read <- Output.total_read

RefinesDelivery == Delivery!Spec

(* If the network keeps retransmitting and the application keeps reading,  *)
(* the whole stream is read.                                               *)
AllRead == <>[](Output.total_read = StreamLength)

(* As FairSpec, and the last byte also keeps arriving with eof set.        *)
EofFairSpec ==
    /\ FairSpec
    /\ StreamLength > 0 => KeepsArriving(StreamLength - 1, 1, TRUE)

(* push_substring is told by eof that the last byte of data is the last    *)
(* byte of the stream: when it is told so often enough the output ends.    *)
EndIsSeen == <>Output.input_ended
=============================================================================
