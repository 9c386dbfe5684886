----------------------------- MODULE OrderedMap -----------------------------
(***************************************************************************)
(* The operations of std::map that the stack uses: a map is a function     *)
(* from its keys, which are natural numbers, to its values.                *)
(***************************************************************************)
EXTENDS Integers, Functions

EmptyMap == [k \in {} |-> <<>>]

(* Mutant: the merged entries stay in the map.                             *)
EraseNothing(map, keys) == map

Erase(map, keys) == Restrict(map, DOMAIN map \ keys)

(* std::map::insert: an entry that is already there stays.                 *)
Insert(map, key, value) ==
    [k \in DOMAIN map \cup {key} |-> IF k \in DOMAIN map THEN map[k] ELSE value]

(* insert for each pair of a key and a value of two sequences.             *)
InsertAll(map, keys, values) ==
    LET new == {keys[i] : i \in DOMAIN keys} \ DOMAIN map
    IN  [k \in DOMAIN map \cup new |->
            IF k \in DOMAIN map THEN map[k]
            ELSE values[CHOOSE i \in DOMAIN keys : keys[i] = k]]
=============================================================================
