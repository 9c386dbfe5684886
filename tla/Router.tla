------------------------------- MODULE Router -------------------------------
(***************************************************************************)
(* The class of libsponge/router.cc as a data type.  Addresses have        *)
(* AddressBits bits.                                                       *)
(***************************************************************************)
EXTENDS NetworkInterface, FiniteSetsExt

CONSTANTS AddressBits,  \* 32
          NoHop         \* the empty optional of a directly attached network

ASSUME RouterAssumption == AddressBits \in Nat

(* A loop over a sequence, as a fold over its positions.                   *)
FoldLeft(op(_, _), base, seq) ==
    MapThenFoldSet(LAMBDA x, acc : op(acc, x), base, LAMBDA i : seq[i], LAMBDA S : Max(S),
                   DOMAIN seq)

(* What a loop over sequences and, inside it, over each of them, meets.    *)
FlattenSeq(seqs) ==
    LET upTo[i \in 1..Len(seqs)] == IF i = 1 THEN seqs[i] ELSE upTo[i - 1] \o seqs[i]
    IN  IF seqs = <<>> THEN <<>> ELSE upTo[Len(seqs)]

(* e becomes element i, and those from there on move up by one.            *)
InsertAt(s, i, e) == SubSeq(s, 1, i - 1) \o <<e>> \o SubSeq(s, i, Len(s))

NewRouter(interfaces) == [interfaces |-> interfaces, rtable |-> <<>>]

(* Mutant: the table keeps the order in which routes were added.           *)
AddRouteLast(r, prefix, length, next_hop, interface_num) ==
    [r EXCEPT !.rtable = Append(@, [length |-> length, prefix |-> prefix,
                                    next_hop |-> next_hop, interface_num |-> interface_num])]

(* The tree is sorted with <= for <: a key of the same length never counts *)
(* as equal and goes before those that are there.                          *)
AddRoute(r, prefix, length, next_hop, interface_num) ==
    LET shorter == Cardinality({i \in DOMAIN r.rtable : r.rtable[i].length < length})
    IN  [r EXCEPT !.rtable = InsertAt(@, shorter + 1,
            [length |-> length, prefix |-> prefix,
             next_hop |-> next_hop, interface_num |-> interface_num])]

(* The low AddressBits - prefix_length bits cleared.                       *)
MaskNet(ip, prefix_length) ==
    LET low == 2^(AddressBits - prefix_length)
    IN  IF prefix_length > AddressBits \/ prefix_length = 0 THEN 0
        ELSE (ip \div low) * low

(* A time to live of 0 does not wrap around.                               *)
TtlLeft(ttl) == IF ttl > 0 THEN ttl - 1 ELSE 0

(* The table is searched from its end, for the prefix and not for a prefix *)
(* of the prefix.                                                          *)
RouteOneDatagram(r, dgram) ==
    LET matching == {i \in DOMAIN r.rtable :
                        r.rtable[i].prefix = MaskNet(dgram.dst, r.rtable[i].length)}
        route    == r.rtable[Max(matching)]
        routed   == [dgram EXCEPT !.ttl = TtlLeft(@)]
        hop      == IF route.next_hop = NoHop THEN dgram.dst ELSE route.next_hop
    IN  IF matching = {} \/ routed.ttl = 0 THEN r
        ELSE [r EXCEPT !.interfaces[route.interface_num] = SendDatagram(@, routed, hop)]

(* All datagrams of all interfaces, interface by interface.                *)
RouteAll(r) ==
    LET queues  == [i \in DOMAIN r.interfaces |-> r.interfaces[i].datagrams_out]
        emptied == [r EXCEPT !.interfaces =
                        [i \in DOMAIN @ |-> [@[i] EXCEPT !.datagrams_out = <<>>]]]
    IN  FoldLeft(RouteOneDatagram, emptied, FlattenSeq(queues))
=============================================================================
