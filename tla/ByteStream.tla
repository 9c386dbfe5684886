----------------------------- MODULE ByteStream -----------------------------
(***************************************************************************)
(* The flow-controlled in-memory byte stream of libsponge/byte_stream.cc,  *)
(* as a data type: a stream is a record, and each method of the class is   *)
(* an operator from the old record to the new one.  The chunked BufferList *)
(* that holds the bytes is the sequence of bytes it stands for.            *)
(***************************************************************************)
EXTENDS Integers, Sequences

Least(a, b) == IF a < b THEN a ELSE b

Take(data, n) == SubSeq(data, 1, n)

Drop(data, n) == SubSeq(data, n + 1, Len(data))

(* The len bytes of the stream from position index on.  Byte i of a stream *)
(* is the number i, so that a byte that ends up out of place is seen.      *)
Substring(index, len) == [j \in 1..len |-> index + j - 1]

NewByteStream(capacity) ==
    [buf |-> <<>>, cap |-> capacity, total_written |-> 0, total_read |-> 0,
     input_ended |-> FALSE, error |-> FALSE]

BufferSize(s) == Len(s.buf)

(* Mutant: reading does not give the room back.                            *)
RemainingCapacityOfAll(s) ==
    IF s.cap < s.total_written THEN 0 ELSE s.cap - s.total_written

(* Mutant: the bytes waiting to be read take no room.                      *)
RemainingCapacityEmpty(s) == s.cap

RemainingCapacity(s) ==
    IF s.cap < BufferSize(s) THEN 0 ELSE s.cap - BufferSize(s)

(* write keeps the longest prefix of data that fits; it does not look at   *)
(* input_ended.                                                            *)
StreamWrite(s, data) ==
    LET n == Least(RemainingCapacity(s), Len(data))
    IN  [s EXCEPT !.buf = @ \o Take(data, n), !.total_written = @ + n]

PeekOutput(s, len) == Take(s.buf, Least(len, BufferSize(s)))

(* Mutant: the bytes asked for are counted, not the bytes there are.       *)
PopOutputCountsAsked(s, len) ==
    [s EXCEPT !.buf = Drop(@, Least(len, BufferSize(s))), !.total_read = @ + len]

PopOutput(s, len) ==
    LET n == Least(len, BufferSize(s))
    IN  [s EXCEPT !.buf = Drop(@, n), !.total_read = @ + n]

EndInput(s) == [s EXCEPT !.input_ended = TRUE]

SetError(s) == [s EXCEPT !.error = TRUE]

Eof(s) == s.input_ended /\ BufferSize(s) = 0
=============================================================================
