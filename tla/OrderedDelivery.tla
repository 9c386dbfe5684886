-------------------------- MODULE OrderedDelivery --------------------------
(***************************************************************************)
(* What a reassembler promises, without saying how: it keeps every byte    *)
(* that arrives inside the window of Capacity bytes above the last byte    *)
(* read, and a byte can be read once it and all bytes before it are there. *)
(***************************************************************************)
EXTENDS Integers

CONSTANTS Capacity, StreamLength

VARIABLES have,   \* the positions of the bytes kept so far
          read    \* the number of bytes read so far

Init == have = {} /\ read = 0

Window == {p \in 0..(StreamLength - 1) : p < read + Capacity}

Arrive(index, len) ==
    /\ have' = have \cup {p \in Window : index <= p /\ p < index + len}
    /\ UNCHANGED read

Consume(len) ==
    /\ 0..(read + len - 1) \subseteq have
    /\ read' = read + len
    /\ UNCHANGED have

Next ==
    \/ \E index, len \in 0..StreamLength : Arrive(index, len)
    \/ \E len \in 1..Capacity : Consume(len)

Spec == Init /\ [][Next]_<<have, read>>
=============================================================================
