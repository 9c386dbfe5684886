-------------------------- MODULE StreamReassembler --------------------------
(***************************************************************************)
(* The class of libsponge/stream_reassembler.cc as a data type.  Field buf *)
(* is the std::map from the index of a stored substring to its bytes.      *)
(***************************************************************************)
EXTENDS ByteStream, OrderedMap, FiniteSetsExt

NewReassembler(capacity) ==
    [output |-> NewByteStream(capacity), unassembled_bytes |-> 0,
     expected_index |-> 0, buf |-> EmptyMap,
     input_ended |-> FALSE, dangling |-> FALSE]

(* Mutant: the overlap is not removed.                                     *)
MergeStringConcat(str1, ind1, str2, ind2) ==
    IF ind1 <= ind2 THEN str1 \o str2 ELSE str2 \o str1

(* The union of two substrings that overlap or touch.                      *)
MergeString(str1, ind1, str2, ind2) ==
    LET end1 == ind1 + Len(str1)
        end2 == ind2 + Len(str2)
    IN  IF end1 < ind2 \/ end2 < ind1 THEN <<>>
        ELSE IF ind1 <= ind2 THEN str1 \o Drop(str2, end1 - ind2)
        ELSE str2 \o Drop(str1, end2 - ind1)

(* Mutant: only the first of the absorbed entries is subtracted.           *)
StoredLengthOfFirst(buf, keys) == Len(buf[Min(keys)])

StoredLength(buf, keys) ==
    SumFunctionOnSet([k \in keys |-> Len(buf[k])], keys)

(* Mutant: the new substring replaces all that is stored.                  *)
MergeForgets(r, data, index) ==
    [r EXCEPT !.buf = [k \in {index} |-> data], !.unassembled_bytes = Len(data)]

(* The stored substrings that overlap or touch the new one are replaced by *)
(* one: only the first of them and it_prev, the last one the loop visits,  *)
(* contribute bytes, what lies between is covered by the new data.         *)
Merge(r, data, index) ==
    LET end     == index + Len(data)
        touched == {k \in DOMAIN r.buf : k + Len(r.buf[k]) >= index /\ k <= end}
        first   == Min(touched)
        it_prev == Max({k \in DOMAIN r.buf : k <= end})
        lo      == IF index < first THEN index ELSE first
        head    == IF index < first THEN data
                   ELSE MergeString(r.buf[first], first, data, index)
        s       == MergeString(head, lo, r.buf[it_prev], it_prev)
    IN  IF touched = {}
        THEN [r EXCEPT !.buf = Insert(@, index, data),
                       !.unassembled_bytes = @ + Len(data)]
        ELSE [r EXCEPT !.buf = Insert(Erase(@, touched), lo, s),
                       !.unassembled_bytes =
                            @ - (StoredLength(r.buf, touched) - Len(s))]

(* Write the first stored substring out if it is the next one.  When it    *)
(* does not fit the code reads the map node it has just erased; dangling   *)
(* records that, and the remainder is the one an intact node would give.   *)
ReorderBuffer(r) ==
    LET first == Min(DOMAIN r.buf)
        piece == r.buf[first]
        room  == RemainingCapacity(r.output)
        n     == Least(Len(piece), room)
        rest  == Erase(r.buf, {first})
    IN  IF DOMAIN r.buf = {} THEN r
        ELSE IF first # r.expected_index \/ room = 0 THEN r
        ELSE [r EXCEPT !.output = StreamWrite(@, Take(piece, n)),
                       !.expected_index = @ + n,
                       !.unassembled_bytes = @ - n,
                       !.buf = IF Len(piece) > room
                               THEN Insert(rest, first + n, Drop(piece, n))
                               ELSE rest,
                       !.dangling = @ \/ Len(piece) > room]

(* Mutant: every substring is accepted as it is.                           *)
ValidateAnything(r, data, index, eof) ==
    [data |-> data, index |-> index, eof |-> eof, verified |-> TRUE]

(* Clip the substring to the window of indices that can be stored.         *)
Validate(r, data, index, eof) ==
    LET room  == RemainingCapacity(r.output)
        upper == r.expected_index + room
        end   == index + Len(data)
        from  == IF index <= r.expected_index THEN r.expected_index ELSE index
        to    == Least(end, upper)
    IN  IF room = 0 \/ Len(data) = 0
        THEN [data |-> <<>>, index |-> 0, eof |-> eof, verified |-> TRUE]
        ELSE IF index >= upper \/ end <= r.expected_index
        THEN [data |-> <<>>, index |-> 0, eof |-> FALSE, verified |-> FALSE]
        ELSE [data |-> SubSeq(data, from - index + 1, to - index),
              index |-> from, eof |-> eof /\ end <= upper, verified |-> TRUE]

PushSubstring(r, data, index, eof) ==
    LET v         == Validate(r, data, index, eof)
        assembled == IF v.data = <<>> THEN r
                     ELSE ReorderBuffer(Merge(r, v.data, v.index))
        marked    == [assembled EXCEPT !.input_ended = @ \/ v.eof]
    IN  IF ~v.verified THEN r
        ELSE IF marked.input_ended /\ marked.unassembled_bytes = 0
        THEN [marked EXCEPT !.output = EndInput(@)]
        ELSE marked

Empty(r) == r.unassembled_bytes = 0

(* Reading the assembled bytes, stream_out().read(len).                    *)
ReadOutput(r, len) == [r EXCEPT !.output = PopOutput(@, len)]

-----------------------------------------------------------------------------
(* What the state of a reassembler says about the stream it receives.      *)

End(r, k) == k + Len(r.buf[k])

(* The first position that cannot be stored yet.                           *)
RightEdge(r) == r.output.total_read + r.output.cap

(* The positions of the bytes stored but not yet written to the output,    *)
(* and of all bytes kept so far.                                           *)
Waiting(r) == UNION {k..(End(r, k) - 1) : k \in DOMAIN r.buf}

Received(r) == (0..(r.output.total_written - 1)) \cup Waiting(r)

ReassemblerType(r) ==
    /\ r = [output |-> r.output, unassembled_bytes |-> r.unassembled_bytes,
            expected_index |-> r.expected_index, buf |-> r.buf,
            input_ended |-> r.input_ended, dangling |-> r.dangling]
    /\ r.output \in [buf : Seq(Nat), cap : Nat, total_written : Nat,
                     total_read : Nat, input_ended : BOOLEAN, error : BOOLEAN]
    /\ r.expected_index \in Nat
    /\ DOMAIN r.buf \subseteq Nat
    /\ \A k \in DOMAIN r.buf : r.buf[k] \in Seq(Nat)
    /\ r.input_ended \in BOOLEAN
    /\ r.dangling \in BOOLEAN

(* Stored substrings neither overlap nor touch, and each lies between the  *)
(* next expected index and the right edge.                                 *)
StoredApart(r) ==
    /\ \A k \in DOMAIN r.buf :
            r.expected_index < k /\ k < End(r, k) /\ End(r, k) <= RightEdge(r)
    /\ \A k, l \in DOMAIN r.buf : k < l => End(r, k) < l

(* Every byte waits, or sits in the output, at its own position.           *)
BytesInPlace(r) ==
    /\ r.output.total_read <= r.output.total_written
    /\ r.output.buf = Substring(r.output.total_read,
                                r.output.total_written - r.output.total_read)
    /\ r.expected_index = r.output.total_written
    /\ \A k \in DOMAIN r.buf : r.buf[k] = Substring(k, Len(r.buf[k]))
=============================================================================
