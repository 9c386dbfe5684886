-------------------------- MODULE WrappingIntegers --------------------------
(***************************************************************************)
(* Sequence numbers on the wire, libsponge/wrapping_integers.cc: an        *)
(* absolute sequence number is a natural number (64 bits in the code), a   *)
(* WrappingInt32 is its residue, shifted by the initial sequence number.   *)
(***************************************************************************)
EXTENDS Integers

CONSTANT Modulus   \* 2^32 in the code

ASSUME ModulusAssumption ==
    Modulus \in Nat /\ \E half \in 1..Modulus : Modulus = 2 * half

Half == Modulus \div 2

Wrap(n, isn) == (isn + n) % Modulus

(* Mutant: the number of times the sequence space wrapped is left out.     *)
UnwrapFirstRound(n, isn, checkpoint) == (n - isn) % Modulus

(* The absolute sequence number that wraps to n and is closest to the      *)
(* checkpoint.                                                             *)
Unwrap(n, isn, checkpoint) ==
    LET re_sq == (n - isn) % Modulus
        k     == checkpoint \div Modulus
        near  == re_sq + Modulus * k
    IN  IF checkpoint <= re_sq THEN re_sq
        ELSE IF near > checkpoint + Half THEN near - Modulus
        ELSE IF near + Half < checkpoint THEN near + Modulus
        ELSE near
=============================================================================
