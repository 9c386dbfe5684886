--------------------------- MODULE ReceiverLemmas ---------------------------
(***************************************************************************)
(* Facts about the operators of StreamReassembler, WrappingIntegers and    *)
(* TCPReceiver, for every stream, capacity and initial sequence number.    *)
(* They lead to PushSubstringCorrect and ReadOutputCorrect, which say what *)
(* the two operations of a reassembler keep, to UnwrapWrap, and to what    *)
(* segment_received makes of a segment of the peer.                        *)
(***************************************************************************)
EXTENDS TCPReceiver, FiniteSetTheorems, SequenceTheorems, TLAPS

-----------------------------------------------------------------------------
(* Least and greatest elements of sets of natural numbers, and sums over   *)
(* finite sets.  LeastOfNat is also how these proofs do induction: a       *)
(* property that fails somewhere fails at a least number, and holds below. *)

(* Every nonempty set of naturals has a least element: what begin() of a   *)
(* nonempty std::map refers to.                                            *)
LEMMA LeastOfNat ==
    ASSUME NEW S, S \subseteq Nat, S # {}
    PROVE  \E x \in S : \A y \in S : x <= y
<1> DEFINE R == OpToRel(<, Nat)
<1>1. IsWellFoundedOn(R, Nat)
  BY NatLessThanWellFounded, Zenon
<1>2. \A x, y \in Nat : <<y, x>> \in R <=> y < x
  BY DEF OpToRel
<1> HIDE DEF R
<1>3. PICK x \in S : \A y \in S : ~(<<y, x>> \in R)
  BY <1>1, WFMin, Zenon
<1>4. ASSUME NEW y \in S PROVE x <= y
  <2>1. x \in Nat /\ y \in Nat
    OBVIOUS
  <2>2. ~(y < x)
    BY <1>2, <1>3, <2>1, Zenon
  <2> QED
    BY <2>1, <2>2
<1> QED
  BY <1>4

(* Min finds that least element.                                           *)
LEMMA MinOfNat ==
    ASSUME NEW S, S \subseteq Nat, S # {}
    PROVE  Min(S) \in S /\ \A y \in S : Min(S) <= y
BY LeastOfNat, Zenon DEF Min

(* A nonempty set of naturals with an upper bound has a greatest element.  *)
LEMMA MaxOfNat ==
    ASSUME NEW S, S \subseteq Nat, S # {}, NEW b \in Nat, \A y \in S : y <= b
    PROVE  Max(S) \in S /\ \A y \in S : y <= Max(S)
<1> DEFINE T == {n \in Nat : \A y \in S : y <= n}
<1>1. T \subseteq Nat /\ T # {}
  OBVIOUS
<1>2. PICK t \in T : \A y \in T : t <= y
  <2> HIDE DEF T
  <2> QED
    BY <1>1, LeastOfNat, Zenon
<1>3. t \in S
  <2>1. SUFFICES ASSUME t \notin S PROVE FALSE
    OBVIOUS
  <2>2. PICK y \in S : TRUE
    BY Zenon
  <2>3. t - 1 \in T
    BY <2>1, <2>2
  <2> QED
    BY <1>2, <2>3
<1> QED
  BY <1>2, <1>3, Zenon DEF Max

(* What the recursive function in the definition of a sum must satisfy.    *)
Sums(f, S, g) ==
    g = [s \in SUBSET S |->
            IF s = {} THEN 0
            ELSE LET x == CHOOSE x \in s : TRUE IN f[x] + g[s \ {x}]]

(* There is such a function.                                               *)
LEMMA SumsExists ==
    ASSUME NEW S, IsFiniteSet(S), NEW f
    PROVE  \E g : Sums(f, S, g)
<1> DEFINE Small(n) == {s \in SUBSET S : Cardinality(s) <= n}
           step(g, s) == IF s = {} THEN 0
                         ELSE f[CHOOSE x \in s : TRUE] + g[s \ {CHOOSE x \in s : TRUE}]
           Solves(n, g) == g = [s \in Small(n) |-> step(g, s)]
           bad == {n \in Nat : ~ \E g : Solves(n, g)}
<1>1. \A s \in SUBSET S : IsFiniteSet(s) /\ Cardinality(s) \in Nat
                            /\ Cardinality(s) <= Cardinality(S)
  BY FS_Subset, FS_CardinalityType
<1>2. bad = {}
  <2>1. SUFFICES ASSUME bad # {} PROVE FALSE
    BY Zenon
  <2>2. PICK n \in bad : \A m \in bad : n <= m
    BY <2>1, LeastOfNat, Zenon
  <2>3. n \in Nat /\ ~ \E g : Solves(n, g)
    BY Zenon
  <2>4. CASE n = 0
    <3>1. \A s \in Small(0) : s = {}
      BY <1>1, FS_EmptySet
    <3> DEFINE g == [s \in Small(0) |-> 0]
    <3>2. Solves(0, g)
      <4>1. [s \in Small(0) |-> step(g, s)] = [s \in Small(0) |-> 0]
        BY <3>1, Zenon
      <4> QED
        BY <4>1
    <3> QED
      BY <2>3, <2>4, <3>2, Zenon
  <2>5. CASE n # 0
    <3>1. n - 1 \in Nat /\ n - 1 \notin bad
      <4> HIDE DEF bad, Solves
      <4> QED
        BY <2>2, <2>3, <2>5
    <3>2. PICK h : Solves(n - 1, h)
      BY <3>1, Zenon
    <3> DEFINE g == [s \in Small(n) |-> step(h, s)]
    <3>3. ASSUME NEW s \in Small(n - 1) PROVE s \in Small(n) /\ g[s] = h[s]
      <4>1. s \in Small(n)
        BY <1>1, <2>3
      <4>2. g[s] = step(h, s)
        BY <4>1
      <4>3. h[s] = step(h, s)
        <5> HIDE DEF Small, step
        <5> QED
          BY <3>2
      <4> QED
        BY <4>1, <4>2, <4>3, Zenon
    <3>4. ASSUME NEW s \in Small(n), s # {}
          PROVE  s \ {CHOOSE x \in s : TRUE} \in Small(n - 1)
      <4>1. PICK y : y = CHOOSE x \in s : TRUE
        OBVIOUS
      <4>2. y \in s
        BY <3>4, <4>1
      <4>3. IsFiniteSet(s) /\ Cardinality(s) \in Nat /\ Cardinality(s) <= n
        BY <1>1
      <4>4. Cardinality(s \ {y}) = Cardinality(s) - 1
        BY <4>2, <4>3, FS_RemoveElement, Zenon
      <4> QED
        BY <2>3, <4>1, <4>3, <4>4
    <3>5. ASSUME NEW s \in Small(n) PROVE step(h, s) = step(g, s)
      <4>1. CASE s = {}
        BY <4>1
      <4>2. CASE s # {}
        <5> DEFINE t == s \ {CHOOSE x \in s : TRUE}
        <5>1. g[t] = h[t]
          <6> HIDE DEF g
          <6> QED
            BY <3>3, <3>4, <4>2, Zenon
        <5> HIDE DEF g
        <5> QED
          BY <4>2, <5>1, Zenon
      <4> QED
        BY <4>1, <4>2
    <3>6. Solves(n, g)
      <4>1. [s \in Small(n) |-> step(h, s)] = [s \in Small(n) |-> step(g, s)]
        <5> HIDE DEF Small, step, g
        <5> QED
          BY <3>5, Zenon
      <4> QED
        BY <4>1, Zenon
    <3> QED
      BY <2>3, <3>6, Zenon
  <2> QED
    BY <2>4, <2>5
<1>3. Cardinality(S) \in Nat
  BY <1>1
<1>4. PICK g : Solves(Cardinality(S), g)
  BY <1>2, <1>3, Zenon
<1>5. Small(Cardinality(S)) = SUBSET S
  BY <1>1
<1> QED
  BY <1>4, <1>5, Zenon DEF Sums

(* What a sum is.                                                          *)
LEMMA SumUnfolds ==
    ASSUME NEW S, IsFiniteSet(S), NEW f
    PROVE  \E g : Sums(f, S, g) /\ SumFunctionOnSet(f, S) = g[S]
<1> DEFINE g == CHOOSE g : Sums(f, S, g)
<1>1. Sums(f, S, g)
  BY SumsExists, Zenon
<1>2. SumFunctionOnSet(f, S) = g[S]
  BY Zenon DEF SumFunctionOnSet, FoldFunctionOnSet, MapThenFoldSet, Sums
<1> QED
  BY <1>1, <1>2, Zenon

(* Two disjoint finite sets have, together, as many elements as each.      *)
LEMMA SizeOfUnion ==
    ASSUME NEW A, NEW B, IsFiniteSet(A), IsFiniteSet(B), A \cap B = {}
    PROVE  /\ IsFiniteSet(A \cup B)
           /\ Cardinality(A) \in Nat /\ Cardinality(B) \in Nat
           /\ Cardinality(A \cup B) = Cardinality(A) + Cardinality(B)
<1>1. Cardinality(A \cap B) = 0
  BY FS_EmptySet
<1>2. Cardinality(A) \in Nat /\ Cardinality(B) \in Nat
  BY FS_CardinalityType
<1>3. /\ IsFiniteSet(A \cup B)
      /\ Cardinality(A \cup B) = Cardinality(A) + Cardinality(B) - Cardinality(A \cap B)
  BY FS_Union, Zenon
<1> QED
  BY <1>1, <1>2, <1>3

(* The sum of the sizes of pairwise disjoint finite sets is the size of    *)
(* their union.                                                            *)
LEMMA SumOfDisjoint ==
    ASSUME NEW S, IsFiniteSet(S), NEW f, NEW piece,
           \A k \in S : IsFiniteSet(piece[k]) /\ Cardinality(piece[k]) = f[k],
           \A k, l \in S : k # l => piece[k] \cap piece[l] = {}
    PROVE  /\ IsFiniteSet(UNION {piece[k] : k \in S})
           /\ SumFunctionOnSet(f, S) = Cardinality(UNION {piece[k] : k \in S})
<1> DEFINE all(s) == UNION {piece[k] : k \in s}
           good(g, s) == IsFiniteSet(all(s)) /\ g[s] = Cardinality(all(s))
<1>1. PICK g : Sums(f, S, g) /\ SumFunctionOnSet(f, S) = g[S]
  BY SumUnfolds
<1> DEFINE bad == {n \in Nat : \E s \in SUBSET S : Cardinality(s) = n /\ ~good(g, s)}
<1>2. \A s \in SUBSET S : IsFiniteSet(s) /\ Cardinality(s) \in Nat
  BY FS_Subset, FS_CardinalityType
<1>3. ASSUME NEW s \in SUBSET S, s # {}
      PROVE  \E x \in s : g[s] = f[x] + g[s \ {x}]
  <2>1. (CHOOSE x \in s : TRUE) \in s
    BY <1>3
  <2>2. g[s] = f[CHOOSE x \in s : TRUE] + g[s \ {CHOOSE x \in s : TRUE}]
    BY <1>1, <1>3 DEF Sums
  <2> QED
    BY <2>1, <2>2, Zenon
<1>4. bad = {}
  <2>1. SUFFICES ASSUME bad # {} PROVE FALSE
    OBVIOUS
  <2>2. PICK n \in bad : \A m \in bad : n <= m
    BY <2>1, LeastOfNat, Zenon
  <2>3. PICK s \in SUBSET S : Cardinality(s) = n /\ ~good(g, s)
    BY <2>2
  <2>4. s # {}
    <3>1. SUFFICES ASSUME s = {} PROVE good(g, s)
      BY <2>3
    <3>2. g[s] = 0
      BY <1>1, <3>1 DEF Sums
    <3>3. all(s) = {}
      BY <3>1
    <3> HIDE DEF all
    <3> QED
      BY <3>2, <3>3, FS_EmptySet
  <2>5. PICK x \in s : g[s] = f[x] + g[s \ {x}]
    BY <1>3, <2>4
  <2> DEFINE rest == s \ {x}
  <2>6. Cardinality(rest) \in Nat /\ Cardinality(rest) < n
    BY <1>2, <2>3, FS_RemoveElement
  <2>7. good(g, rest)
    <3> HIDE DEF good
    <3> QED
      BY <2>2, <2>6
  <2>8. all(s) = all(rest) \cup piece[x]
    OBVIOUS
  <2>9. all(rest) \cap piece[x] = {}
    OBVIOUS
  <2>10. IsFiniteSet(piece[x]) /\ Cardinality(piece[x]) = f[x]
    OBVIOUS
  <2> HIDE DEF all, rest
  <2>11. /\ IsFiniteSet(all(rest) \cup piece[x])
         /\ Cardinality(all(rest) \cup piece[x])
              = Cardinality(all(rest)) + Cardinality(piece[x])
    BY <2>7, <2>9, <2>10, SizeOfUnion, Zenon
  <2>12. Cardinality(all(rest)) \in Nat /\ f[x] \in Nat
    BY <2>7, <2>10, FS_CardinalityType
  <2> QED
    BY <2>3, <2>5, <2>7, <2>8, <2>10, <2>11, <2>12 DEF rest
<1>5. good(g, S)
  <2> HIDE DEF good
  <2> QED
    BY <1>2, <1>4
<1> QED
  BY <1>1, <1>5

-----------------------------------------------------------------------------
(* Substrings of the stream.                                               *)

(* What the bytes of the stream from position i on are.                    *)
LEMMA SubstringSeq ==
    ASSUME NEW i \in Nat, NEW n \in Nat
    PROVE  /\ Substring(i, n) \in Seq(Nat)
           /\ Len(Substring(i, n)) = n
           /\ \A j \in 1..n : Substring(i, n)[j] = i + j - 1
           /\ Substring(i, n) = <<>> <=> n = 0
BY DEF Substring

(* A part of a substring of the stream is a substring of the stream:       *)
(* substr, as validate and merge_string use it.                            *)
LEMMA SubstringCut ==
    ASSUME NEW i \in Nat, NEW n \in Nat, NEW a \in Nat, NEW b \in Nat,
           a <= b, b <= n
    PROVE  SubSeq(Substring(i, n), a + 1, b) = Substring(i + a, b - a)
<1> DEFINE s == Substring(i, n)
           c == SubSeq(s, a + 1, b)
           t == Substring(i + a, b - a)
<1>1. s \in Seq(Nat) /\ Len(s) = n /\ \A j \in 1..n : s[j] = i + j - 1
  BY SubstringSeq
<1>2. i + a \in Nat /\ b - a \in Nat
  OBVIOUS
<1>3. t \in Seq(Nat) /\ Len(t) = b - a /\ \A j \in 1..(b - a) : t[j] = (i + a) + j - 1
  BY <1>2, SubstringSeq, Zenon
<1> HIDE DEF s, t
<1>4. \A j \in (a + 1)..b : s[j] \in Nat
  BY <1>1
<1>5. /\ c \in Seq(Nat)
      /\ Len(c) = IF a + 1 <= b THEN b - (a + 1) + 1 ELSE 0
      /\ \A j \in 1..(b - (a + 1) + 1) : c[j] = s[a + 1 + j - 1]
  BY <1>4, SubSeqProperties
<1> HIDE DEF c
<1>6. Len(c) = b - a
  BY <1>5
<1>7. ASSUME NEW j \in 1..(b - a) PROVE c[j] = t[j]
  <2>1. c[j] = s[a + j] /\ a + j \in 1..n
    BY <1>5
  <2>2. s[a + j] = i + (a + j) - 1
    BY <1>1, <2>1
  <2> QED
    BY <1>3, <2>1, <2>2
<1>8. c = t
  BY <1>3, <1>5, <1>6, <1>7, SeqEqual
<1> QED
  BY <1>8 DEF c, s, t

(* The same, with the condition on the cut as one predicate.               *)
Inside(i, n, a, b) ==
    i \in Nat /\ n \in Nat /\ a \in Nat /\ b \in Nat /\ a <= b /\ b <= n

(* SubstringCut with its premises as one predicate.                        *)
LEMMA SubstringInside ==
    ASSUME NEW i, NEW n, NEW a, NEW b, Inside(i, n, a, b)
    PROVE  SubSeq(Substring(i, n), a + 1, b) = Substring(i + a, b - a)
<1>1. i \in Nat /\ n \in Nat /\ a \in Nat /\ b \in Nat /\ a <= b /\ b <= n
  BY DEF Inside
<1> QED
  BY <1>1, SubstringCut, ZenonT(60)

(* Dropping the overlap, as merge_string does.                             *)
LEMMA SubstringDrop ==
    ASSUME NEW i \in Nat, NEW n \in Nat, NEW a \in Nat
    PROVE  /\ a <= n => Drop(Substring(i, n), a) = Substring(i + a, n - a)
           /\ n < a => Drop(Substring(i, n), a) = <<>>
<1>1. Len(Substring(i, n)) = n
  BY SubstringSeq
<1>2. CASE a <= n
  <2>1. n <= n
    OBVIOUS
  <2>2. SubSeq(Substring(i, n), a + 1, n) = Substring(i + a, n - a)
    BY <1>2, <2>1, SubstringCut, Zenon
  <2>3. Drop(Substring(i, n), a) = Substring(i + a, n - a)
    BY <1>1, <2>2, Zenon DEF Drop
  <2> QED
    BY <1>2, <2>3
<1>3. CASE n < a
  BY <1>1, <1>3, SubSeqEmpty DEF Drop
<1> QED
  BY <1>2, <1>3

(* Two adjoining substrings make one.                                      *)
LEMMA SubstringCat ==
    ASSUME NEW i \in Nat, NEW n \in Nat, NEW m \in Nat
    PROVE  Substring(i, n) \o Substring(i + n, m) = Substring(i, n + m)
<1> DEFINE s == Substring(i, n)
           t == Substring(i + n, m)
           u == Substring(i, n + m)
           c == s \o t
<1>1. s \in Seq(Nat) /\ Len(s) = n /\ \A j \in 1..n : s[j] = i + j - 1
  BY SubstringSeq
<1>2. i + n \in Nat /\ n + m \in Nat
  OBVIOUS
<1>3. t \in Seq(Nat) /\ Len(t) = m /\ \A j \in 1..m : t[j] = (i + n) + j - 1
  BY <1>2, SubstringSeq
<1>4. u \in Seq(Nat) /\ Len(u) = n + m /\ \A j \in 1..(n + m) : u[j] = i + j - 1
  BY <1>2, SubstringSeq
<1> HIDE DEF s, t, u
<1>5. /\ c \in Seq(Nat) /\ Len(c) = n + m
      /\ \A j \in 1..(n + m) : c[j] = IF j <= n THEN s[j] ELSE t[j - n]
  BY <1>1, <1>3, ConcatProperties, Zenon
<1>6. \A j \in 1..(n + m) : c[j] = u[j]
  BY <1>1, <1>3, <1>4, <1>5
<1> HIDE DEF c
<1>7. c = u
  BY <1>4, <1>5, <1>6, SeqEqual
<1> QED
  BY <1>7 DEF c, s, t, u

-----------------------------------------------------------------------------
(* Substrings at i1 and i2 overlap or touch, and lo..hi-1 is their union.  *)
Spans(i1, n1, i2, n2, lo, hi) ==
    /\ i1 \in Nat /\ n1 \in Nat /\ i2 \in Nat /\ n2 \in Nat
    /\ i1 <= i2 + n2 /\ i2 <= i1 + n1
    /\ lo \in Nat /\ lo <= i1 /\ lo <= i2 /\ lo \in {i1, i2}
    /\ hi \in Nat /\ hi >= i1 + n1 /\ hi >= i2 + n2 /\ hi \in {i1 + n1, i2 + n2}

(* merge_string of two substrings that overlap or touch is their union.    *)
LEMMA MergeStringUnion ==
    ASSUME NEW i1, NEW n1, NEW i2, NEW n2, NEW lo, NEW hi,
           Spans(i1, n1, i2, n2, lo, hi)
    PROVE  MergeString(Substring(i1, n1), i1, Substring(i2, n2), i2)
               = Substring(lo, hi - lo)
<1> SUFFICES ASSUME i1 \in Nat, n1 \in Nat, i2 \in Nat, n2 \in Nat,
                    i1 <= i2 + n2, i2 <= i1 + n1,
                    lo \in Nat, lo <= i1, lo <= i2, lo \in {i1, i2},
                    hi \in Nat, hi >= i1 + n1, hi >= i2 + n2, hi \in {i1 + n1, i2 + n2}
             PROVE  MergeString(Substring(i1, n1), i1, Substring(i2, n2), i2)
                        = Substring(lo, hi - lo)
  BY DEF Spans
<1>1. Len(Substring(i1, n1)) = n1 /\ Len(Substring(i2, n2)) = n2
  BY SubstringSeq
<1>2. /\ Substring(i1, n1) \o <<>> = Substring(i1, n1)
      /\ Substring(i2, n2) \o <<>> = Substring(i2, n2)
  BY SubstringSeq, ConcatEmptySeq
<1>3. CASE i1 <= i2
  <2>1. PICK a \in Nat : a = i1 + n1 - i2
    BY <1>3
  <2>2. MergeString(Substring(i1, n1), i1, Substring(i2, n2), i2)
            = Substring(i1, n1) \o Drop(Substring(i2, n2), a)
    BY <1>1, <1>3, <2>1 DEF MergeString
  <2>4. CASE a <= n2
    <3>0. Drop(Substring(i2, n2), a) = Substring(i2 + a, n2 - a)
      BY <2>4, SubstringDrop
    <3>1. i2 + a = i1 + n1 /\ n2 - a \in Nat /\ n1 + (n2 - a) = hi - lo /\ lo = i1
      BY <1>3, <2>1, <2>4
    <3>2. Substring(i1, n1) \o Substring(i1 + n1, n2 - a) = Substring(i1, n1 + (n2 - a))
      <4>1. PICK b \in Nat : b = n2 - a
        BY <3>1
      <4>2. Substring(i1, n1) \o Substring(i1 + n1, b) = Substring(i1, n1 + b)
        BY SubstringCat, ZenonT(60)
      <4> QED
        BY <4>1, <4>2, Zenon
    <3> QED
      BY <2>2, <3>0, <3>1, <3>2, Zenon
  <2>5. CASE n2 < a
    <3>1. lo = i1 /\ hi - lo = n1
      BY <1>3, <2>1, <2>5
    <3>2. Drop(Substring(i2, n2), a) = <<>>
      BY <2>5, SubstringDrop
    <3>3. Substring(lo, hi - lo) = Substring(i1, n1)
      BY <3>1
    <3> QED
      BY <1>2, <2>2, <3>2, <3>3
  <2> QED
    BY <2>1, <2>4, <2>5
<1>4. CASE i2 < i1
  <2>1. PICK a \in Nat : a = i2 + n2 - i1
    BY <1>4
  <2>2. MergeString(Substring(i1, n1), i1, Substring(i2, n2), i2)
            = Substring(i2, n2) \o Drop(Substring(i1, n1), a)
    BY <1>1, <1>4, <2>1 DEF MergeString
  <2>4. CASE a <= n1
    <3>0. Drop(Substring(i1, n1), a) = Substring(i1 + a, n1 - a)
      BY <2>4, SubstringDrop
    <3>1. i1 + a = i2 + n2 /\ n1 - a \in Nat /\ n2 + (n1 - a) = hi - lo /\ lo = i2
      BY <1>4, <2>1, <2>4
    <3>2. Substring(i2, n2) \o Substring(i2 + n2, n1 - a) = Substring(i2, n2 + (n1 - a))
      <4>1. PICK b \in Nat : b = n1 - a
        BY <3>1
      <4>2. Substring(i2, n2) \o Substring(i2 + n2, b) = Substring(i2, n2 + b)
        BY SubstringCat, ZenonT(60)
      <4> QED
        BY <4>1, <4>2, Zenon
    <3> QED
      BY <2>2, <3>0, <3>1, <3>2, Zenon
  <2>5. CASE n1 < a
    <3>1. lo = i2 /\ hi - lo = n2
      BY <1>4, <2>1, <2>5
    <3>2. Drop(Substring(i1, n1), a) = <<>>
      BY <2>5, SubstringDrop
    <3>3. Substring(lo, hi - lo) = Substring(i2, n2)
      BY <3>1
    <3> QED
      BY <1>2, <2>2, <3>2, <3>3
  <2> QED
    BY <2>1, <2>4, <2>5
<1> QED
  BY <1>3, <1>4

-----------------------------------------------------------------------------
(* merge.                                                                  *)

(* What push_substring keeps between calls, and, with expected_index also  *)
(* a possible start, what holds between merge and reorder_buffer.          *)
Stored(r, low) ==
    /\ \A k \in DOMAIN r.buf :
            /\ low <= k /\ k < End(r, k) /\ End(r, k) <= RightEdge(r)
            /\ r.buf[k] = Substring(k, Len(r.buf[k]))
    /\ \A k, l \in DOMAIN r.buf : k < l => End(r, k) < l

(* The key, the length and the end of an entry of the map are numbers.     *)
LEMMA StoredEnds ==
    ASSUME NEW r, ReassemblerType(r), NEW k \in DOMAIN r.buf
    PROVE  /\ k \in Nat /\ Len(r.buf[k]) \in Nat
           /\ End(r, k) \in Nat /\ End(r, k) = k + Len(r.buf[k])
<1>1. k \in Nat /\ r.buf[k] \in Seq(Nat)
  BY DEF ReassemblerType
<1> QED
  BY <1>1, LenProperties DEF End

(* The len > 0 bytes at index can be merged into a well-formed r.          *)
Fits(r, low, index, len) ==
    /\ ReassemblerType(r) /\ low \in Nat /\ Stored(r, low)
    /\ index \in Nat /\ len \in Nat /\ len > 0
    /\ low <= index /\ index + len <= RightEdge(r)

(* m is r with another map and another count.                              *)
WithBuffer(r, buf, m) ==
    m = [output |-> r.output, unassembled_bytes |-> m.unassembled_bytes,
         expected_index |-> r.expected_index, buf |-> buf,
         input_ended |-> r.input_ended, dangling |-> r.dangling]

(* m is r with those bytes waiting, and nothing else changed.              *)
Absorbed(r, low, index, len, m) ==
    /\ ReassemblerType(m) /\ Stored(m, low)
    /\ m.output = r.output /\ m.expected_index = r.expected_index
    /\ m.input_ended = r.input_ended /\ m.dangling = r.dangling
    /\ Waiting(m) = Waiting(r) \cup index..(index + len - 1)

(* A position waits exactly if some entry of the map covers it.            *)
LEMMA WaitingMember ==
    ASSUME NEW r, ReassemblerType(r), NEW p
    PROVE  p \in Waiting(r) <=>
               p \in Nat /\ \E k \in DOMAIN r.buf : k <= p /\ p < End(r, k)
BY DEF Waiting, ReassemblerType, End

(* No stored substring touches the new one: it is stored as it is.         *)
LEMMA MergeApart ==
    ASSUME NEW r, NEW low, NEW index, NEW len, Fits(r, low, index, len),
           \A k \in DOMAIN r.buf : End(r, k) < index \/ index + len < k,
           NEW m, WithBuffer(r, Insert(r.buf, index, Substring(index, len)), m)
    PROVE  Absorbed(r, low, index, len, m)
<1> SUFFICES ASSUME ReassemblerType(r), low \in Nat, Stored(r, low),
                    index \in Nat, len \in Nat, len > 0,
                    low <= index, index + len <= RightEdge(r)
             PROVE  Absorbed(r, low, index, len, m)
  BY DEF Fits
<1>1. /\ Substring(index, len) \in Seq(Nat)
      /\ Len(Substring(index, len)) = len
  BY SubstringSeq
<1>2. /\ m = [output |-> r.output, unassembled_bytes |-> m.unassembled_bytes,
              expected_index |-> r.expected_index,
              buf |-> Insert(r.buf, index, Substring(index, len)),
              input_ended |-> r.input_ended, dangling |-> r.dangling]
  BY DEF WithBuffer
<1>3. index \notin DOMAIN r.buf
  BY StoredEnds DEF Stored
<1>4. /\ DOMAIN m.buf = DOMAIN r.buf \cup {index}
      /\ m.buf[index] = Substring(index, len)
      /\ \A k \in DOMAIN r.buf : m.buf[k] = r.buf[k]
  BY <1>2, <1>3 DEF Insert
<1>5. ReassemblerType(m)
  BY <1>1, <1>2, <1>4 DEF ReassemblerType
<1>6. /\ End(m, index) = index + len
      /\ \A k \in DOMAIN r.buf : End(m, k) = End(r, k)
      /\ RightEdge(m) = RightEdge(r)
  BY <1>1, <1>2, <1>4 DEF End, RightEdge
<1>7. Stored(m, low)
  <2>1. ASSUME NEW k \in DOMAIN m.buf
        PROVE  /\ low <= k /\ k < End(m, k) /\ End(m, k) <= RightEdge(m)
               /\ m.buf[k] = Substring(k, Len(m.buf[k]))
    BY <1>1, <1>4, <1>6 DEF Stored
  <2>2. ASSUME NEW k \in DOMAIN m.buf, NEW l \in DOMAIN m.buf, k < l
        PROVE  End(m, k) < l
    <3>1. k \in Nat /\ l \in Nat
      BY <1>5 DEF ReassemblerType
    <3>2. CASE k = index
      <4>1. l \in DOMAIN r.buf /\ index < l
        BY <1>4, <2>2, <3>1, <3>2
      <4>2. index + len < l
        BY <4>1, StoredEnds DEF Stored
      <4> QED
        BY <1>6, <3>2, <4>2
    <3>3. CASE k # index /\ l = index
      BY <1>4, <1>6, <2>2, <3>1, <3>3 DEF Stored
    <3>4. CASE k # index /\ l # index
      BY <1>4, <1>6, <2>2, <3>4 DEF Stored
    <3> QED
      BY <3>2, <3>3, <3>4
  <2> QED
    BY <2>1, <2>2 DEF Stored
<1>8. ASSUME NEW p PROVE p \in Waiting(m) <=> p \in Waiting(r) \/ p \in index..(index + len - 1)
  BY <1>4, <1>5, <1>6, WaitingMember
<1> QED
  BY <1>2, <1>5, <1>7, <1>8 DEF Absorbed

(* touched are the stored substrings, from first to last, that overlap or  *)
(* touch the new one, and lo..hi-1 is the union of them and the new one.   *)
Covers(r, index, len, touched, first, last, lo, hi) ==
    /\ touched = {k \in DOMAIN r.buf : End(r, k) >= index /\ k <= index + len}
    /\ first \in touched /\ \A k \in touched : first <= k
    /\ last \in touched /\ \A k \in touched : k <= last
    /\ lo \in Nat /\ lo <= index /\ lo <= first /\ lo \in {index, first}
    /\ hi \in Nat /\ hi >= index + len /\ hi >= End(r, last)
    /\ hi \in {index + len, End(r, last)}

(* What the touched substrings and the new one make is one substring, and  *)
(* the others stay clear of it.                                            *)
CoversUnion(r, index, len, touched, lo, hi) ==
    /\ \A k \in DOMAIN r.buf \ touched : End(r, k) < lo \/ hi < k
    /\ \A p \in Nat : lo <= p /\ p < hi <=>
            \/ index <= p /\ p < index + len
            \/ \E k \in touched : k <= p /\ p < End(r, k)

(* The loop of merge stops at the right entries: those it absorbs make one *)
(* substring with the new one, those it leaves do not even touch it.       *)
LEMMA TouchedUnion ==
    ASSUME NEW r, NEW low, NEW index, NEW len, Fits(r, low, index, len),
           NEW touched, NEW first, NEW last, NEW lo, NEW hi,
           Covers(r, index, len, touched, first, last, lo, hi)
    PROVE  /\ CoversUnion(r, index, len, touched, lo, hi)
           /\ lo < hi /\ low <= lo /\ hi <= RightEdge(r)
<1> SUFFICES ASSUME ReassemblerType(r), low \in Nat, Stored(r, low),
                    index \in Nat, len \in Nat, len > 0,
                    low <= index, index + len <= RightEdge(r),
                    touched = {k \in DOMAIN r.buf : End(r, k) >= index /\ k <= index + len},
                    first \in touched, \A k \in touched : first <= k,
                    last \in touched, \A k \in touched : k <= last,
                    lo \in Nat, lo <= index, lo <= first, lo \in {index, first},
                    hi \in Nat, hi >= index + len, hi >= End(r, last),
                    hi \in {index + len, End(r, last)}
             PROVE  /\ CoversUnion(r, index, len, touched, lo, hi)
                    /\ lo < hi /\ low <= lo /\ hi <= RightEdge(r)
  BY DEF Fits, Covers
<1>1. /\ hi - lo \in Nat /\ lo < hi /\ lo + (hi - lo) = hi
      /\ first \in DOMAIN r.buf /\ last \in DOMAIN r.buf
      /\ first \in Nat /\ last \in Nat
  <2>1. hi - lo \in Nat /\ lo < hi /\ lo + (hi - lo) = hi
    OBVIOUS
  <2>2. first \in DOMAIN r.buf /\ last \in DOMAIN r.buf
    OBVIOUS
  <2>3. first \in Nat /\ last \in Nat
    BY <2>2, StoredEnds
  <2> QED
    BY <2>1, <2>2, <2>3
<1>2. ASSUME NEW k \in DOMAIN r.buf \ touched
      PROVE  End(r, k) < lo \/ hi < k
  <2>1. k \in DOMAIN r.buf /\ k \in Nat /\ End(r, k) \in Nat /\ k < End(r, k)
    BY <1>2, StoredEnds DEF Stored
  <2>2. End(r, k) < index \/ index + len < k
    BY <1>2, <2>1
  <2>3. CASE End(r, k) < index
    <3>1. CASE lo = index
      BY <2>3, <3>1
    <3>2. CASE lo = first
      <4>1. End(r, first) >= index /\ first < End(r, first) /\ End(r, first) \in Nat
        BY <1>1, StoredEnds DEF Stored
      <4>2. k # first
        BY <2>1, <2>3, <4>1
      <4>3. ~(first < k)
        BY <1>1, <2>1, <2>3, <4>1 DEF Stored
      <4>4. k < first
        BY <1>1, <2>1, <4>2, <4>3
      <4> QED
        BY <1>1, <2>1, <3>2, <4>4 DEF Stored
    <3> QED
      BY <3>1, <3>2
  <2>4. CASE index + len < k
    <3>1. last <= index + len /\ last < k
      BY <1>1, <2>1, <2>4
    <3>2. End(r, last) < k
      BY <1>1, <2>1, <3>1 DEF Stored
    <3> QED
      BY <2>4, <3>2
  <2> QED
    BY <2>2, <2>3, <2>4
<1>3. ASSUME NEW p \in Nat
      PROVE  lo <= p /\ p < hi <=>
                 \/ index <= p /\ p < index + len
                 \/ \E k \in touched : k <= p /\ p < End(r, k)
  <2>1. ASSUME NEW k \in touched, k <= p, p < End(r, k) PROVE lo <= p /\ p < hi
    <3>1. k \in DOMAIN r.buf /\ k \in Nat /\ End(r, k) \in Nat /\ first <= k /\ k <= last
      BY <2>1, StoredEnds
    <3>2. k < last => End(r, k) < last
      BY <1>1, <3>1 DEF Stored
    <3>3. last <= index + len
      OBVIOUS
    <3>4. End(r, k) <= hi
      BY <1>1, <3>1, <3>2, <3>3
    <3> QED
      BY <1>1, <2>1, <3>1, <3>4
  <2>2. ASSUME lo <= p, p < hi, ~(index <= p /\ p < index + len)
        PROVE  \E k \in touched : k <= p /\ p < End(r, k)
    <3>1. CASE p < index
      <4>1. lo = first /\ End(r, first) >= index /\ End(r, first) \in Nat
        BY <1>1, <2>2, <3>1, StoredEnds
      <4>2. first <= p /\ p < End(r, first)
        BY <2>2, <3>1, <4>1
      <4> QED
        BY <4>2
    <3>2. CASE index + len <= p
      <4>1. last <= index + len /\ hi = End(r, last)
        BY <2>2, <3>2
      <4>2. last <= p /\ p < End(r, last)
        BY <1>1, <2>2, <3>2, <4>1
      <4> QED
        BY <4>2
    <3> QED
      BY <2>2, <3>1, <3>2
  <2>3. index <= p /\ p < index + len => lo <= p /\ p < hi
    OBVIOUS
  <2> QED
    BY <2>1, <2>2, <2>3
<1>4. low <= lo /\ hi <= RightEdge(r)
  BY <1>1 DEF Stored
<1> QED
  BY <1>1, <1>2, <1>3, <1>4 DEF CoversUnion

(* The touched substrings are replaced by the one from lo to hi.           *)
LEMMA MergeReplace ==
    ASSUME NEW r, NEW low, NEW index, NEW len, Fits(r, low, index, len),
           NEW touched, NEW first, NEW last, NEW lo, NEW hi,
           Covers(r, index, len, touched, first, last, lo, hi),
           NEW m, WithBuffer(r, Insert(Erase(r.buf, touched), lo, Substring(lo, hi - lo)), m)
    PROVE  Absorbed(r, low, index, len, m)
<1>0. /\ CoversUnion(r, index, len, touched, lo, hi)
      /\ lo < hi /\ low <= lo /\ hi <= RightEdge(r)
  BY TouchedUnion, Zenon
<1> SUFFICES ASSUME ReassemblerType(r), low \in Nat, Stored(r, low),
                    index \in Nat, len \in Nat, len > 0,
                    low <= index, index + len <= RightEdge(r),
                    touched = {k \in DOMAIN r.buf : End(r, k) >= index /\ k <= index + len},
                    first \in touched, \A k \in touched : first <= k,
                    last \in touched, \A k \in touched : k <= last,
                    lo \in Nat, lo <= index, lo <= first, lo \in {index, first},
                    hi \in Nat, hi >= index + len, hi >= End(r, last),
                    hi \in {index + len, End(r, last)}
             PROVE  Absorbed(r, low, index, len, m)
  BY DEF Fits, Covers
<1> DEFINE kept == DOMAIN r.buf \ touched
<1>1. /\ hi - lo \in Nat /\ lo < hi /\ lo + (hi - lo) = hi
      /\ first \in DOMAIN r.buf /\ last \in DOMAIN r.buf
      /\ first \in Nat /\ last \in Nat
  <2>1. hi - lo \in Nat /\ lo < hi /\ lo + (hi - lo) = hi
    OBVIOUS
  <2>2. first \in DOMAIN r.buf /\ last \in DOMAIN r.buf
    OBVIOUS
  <2>3. first \in Nat /\ last \in Nat
    BY <2>2, StoredEnds
  <2> QED
    BY <2>1, <2>2, <2>3
<1>2. /\ Substring(lo, hi - lo) \in Seq(Nat)
      /\ Len(Substring(lo, hi - lo)) = hi - lo
  BY <1>1, SubstringSeq, Zenon
<1>3. /\ m = [output |-> r.output, unassembled_bytes |-> m.unassembled_bytes,
              expected_index |-> r.expected_index,
              buf |-> Insert(Erase(r.buf, touched), lo, Substring(lo, hi - lo)),
              input_ended |-> r.input_ended, dangling |-> r.dangling]
  BY DEF WithBuffer
<1>4. \A k \in kept : End(r, k) < lo \/ hi < k
  BY <1>0 DEF CoversUnion
<1>5. lo \notin kept
  <2>1. SUFFICES ASSUME lo \in kept PROVE FALSE
    OBVIOUS
  <2>2. End(r, lo) < lo \/ hi < lo
    BY <1>4, <2>1
  <2>3. lo < End(r, lo) /\ End(r, lo) \in Nat
    BY <2>1, StoredEnds DEF Stored
  <2> QED
    BY <1>1, <2>2, <2>3
<1>6. /\ DOMAIN m.buf = kept \cup {lo}
      /\ m.buf[lo] = Substring(lo, hi - lo)
      /\ \A k \in kept : m.buf[k] = r.buf[k]
  <2>1. m.buf = Insert(Erase(r.buf, touched), lo, Substring(lo, hi - lo))
    BY <1>3
  <2>2. DOMAIN Erase(r.buf, touched) = kept /\ \A k \in kept : Erase(r.buf, touched)[k] = r.buf[k]
    BY DEF Erase, Restrict
  <2>3. /\ DOMAIN m.buf = kept \cup {lo}
        /\ \A k \in kept \cup {lo} :
                m.buf[k] = IF k \in kept THEN Erase(r.buf, touched)[k] ELSE Substring(lo, hi - lo)
    BY <2>1, <2>2 DEF Insert
  <2> QED
    BY <1>5, <2>2, <2>3
<1>7. ReassemblerType(m)
  <2>1. m = [output |-> r.output, unassembled_bytes |-> m.unassembled_bytes,
             expected_index |-> r.expected_index, buf |-> m.buf,
             input_ended |-> r.input_ended, dangling |-> r.dangling]
    BY <1>3
  <2>2. DOMAIN m.buf \subseteq Nat /\ \A k \in DOMAIN m.buf : m.buf[k] \in Seq(Nat)
    BY <1>2, <1>6, Zenon DEF ReassemblerType
  <2> QED
    BY <2>1, <2>2 DEF ReassemblerType
<1>8. /\ End(m, lo) = hi
      /\ \A k \in kept : End(m, k) = End(r, k)
      /\ RightEdge(m) = RightEdge(r)
  <2>1. m.output = r.output
    BY <1>3
  <2> QED
    BY <1>1, <1>2, <1>6, <2>1 DEF End, RightEdge
<1>9. low <= lo /\ hi <= RightEdge(r)
  BY <1>0
<1>10. Stored(m, low)
  <2>1. ASSUME NEW k \in DOMAIN m.buf
        PROVE  /\ low <= k /\ k < End(m, k) /\ End(m, k) <= RightEdge(m)
               /\ m.buf[k] = Substring(k, Len(m.buf[k]))
    BY <1>1, <1>2, <1>6, <1>8, <1>9, Zenon DEF Stored
  <2>2. ASSUME NEW k \in DOMAIN m.buf, NEW l \in DOMAIN m.buf, k < l
        PROVE  End(m, k) < l
    <3>1. k \in Nat /\ l \in Nat
      BY <1>7 DEF ReassemblerType
    <3>2. CASE k = lo
      <4>1. l \in kept /\ l \in DOMAIN r.buf
        BY <1>6, <2>2, <3>1, <3>2
      <4>2. End(r, l) \in Nat /\ l < End(r, l)
        BY <4>1, StoredEnds DEF Stored
      <4>3. hi < l
        BY <1>4, <2>2, <3>1, <3>2, <4>1, <4>2
      <4> QED
        BY <1>8, <3>2, <4>3
    <3>3. CASE k # lo /\ l = lo
      <4>1. k \in kept /\ ~(hi < k)
        BY <1>1, <1>6, <2>2, <3>1, <3>3
      <4> QED
        BY <1>4, <1>8, <3>3, <4>1
    <3>4. CASE k # lo /\ l # lo
      BY <1>6, <1>8, <2>2, <3>4 DEF Stored
    <3> QED
      BY <3>2, <3>3, <3>4
  <2> QED
    BY <2>1, <2>2 DEF Stored
<1>11. ASSUME NEW p \in Nat
       PROVE  p \in Waiting(m) <=> p \in Waiting(r) \/ (index <= p /\ p < index + len)
  <2>1. p \in Waiting(m) <=> (lo <= p /\ p < hi) \/ \E k \in kept : k <= p /\ p < End(r, k)
    BY <1>6, <1>7, <1>8, WaitingMember
  <2>2. p \in Waiting(r) <=> \/ \E k \in touched : k <= p /\ p < End(r, k)
                             \/ \E k \in kept : k <= p /\ p < End(r, k)
    BY WaitingMember
  <2>3. lo <= p /\ p < hi <=>
            \/ index <= p /\ p < index + len
            \/ \E k \in touched : k <= p /\ p < End(r, k)
    BY <1>0 DEF CoversUnion
  <2> QED
    BY <2>1, <2>2, <2>3
<1>12. Waiting(m) = Waiting(r) \cup index..(index + len - 1)
  <2>1. Waiting(m) \subseteq Nat /\ Waiting(r) \subseteq Nat
    BY <1>7, WaitingMember
  <2> QED
    BY <1>11, <2>1
<1> QED
  BY <1>3, <1>7, <1>10, <1>12 DEF Absorbed

-----------------------------------------------------------------------------
(* unassembled_bytes.                                                      *)

(* The counter is the number of stored positions.                          *)
Counted(r) == r.unassembled_bytes = Cardinality(Waiting(r))

(* How many positions there are from a up to b.                            *)
LEMMA IntervalSize ==
    ASSUME NEW a \in Nat, NEW b \in Nat, a <= b
    PROVE  IsFiniteSet(a..(b - 1)) /\ Cardinality(a..(b - 1)) = b - a
<1>1. PICK top \in Int : top = b - 1
  OBVIOUS
<1>2. /\ IsFiniteSet(a..top)
      /\ Cardinality(a..top) = IF a > top THEN 0 ELSE top - a + 1
  <2>1. a \in Int /\ top \in Int
    OBVIOUS
  <2> QED
    BY <2>1, FS_Interval, Zenon
<1> QED
  BY <1>1, <1>2

(* Only finitely many substrings and positions are stored.                 *)
LEMMA WaitingFinite ==
    ASSUME NEW r, ReassemblerType(r), NEW low \in Nat, Stored(r, low)
    PROVE  /\ IsFiniteSet(Waiting(r)) /\ IsFiniteSet(DOMAIN r.buf)
           /\ Waiting(r) \subseteq low..(RightEdge(r) - 1)
<1>1. PICK edge \in Nat : edge = RightEdge(r)
  BY DEF RightEdge, ReassemblerType
<1>2. \A k \in DOMAIN r.buf : /\ k \in Nat /\ End(r, k) \in Nat
                              /\ low <= k /\ k < End(r, k) /\ End(r, k) <= edge
  BY <1>1, StoredEnds DEF Stored
<1>3. Waiting(r) \subseteq low..(edge - 1)
  <2>1. ASSUME NEW p \in Waiting(r) PROVE p \in low..(edge - 1)
    <3>1. p \in Nat /\ \E k \in DOMAIN r.buf : k <= p /\ p < End(r, k)
      BY WaitingMember
    <3> QED
      BY <1>2, <3>1
  <2> QED
    BY <2>1
<1>4. DOMAIN r.buf \subseteq 0..(edge - 1)
  BY <1>2
<1>5. IsFiniteSet(low..(edge - 1)) /\ IsFiniteSet(0..(edge - 1))
  <2>1. low \in Int /\ edge - 1 \in Int /\ 0 \in Int
    OBVIOUS
  <2> QED
    BY <2>1, FS_Interval, Zenon
<1> QED
  BY <1>1, <1>3, <1>4, <1>5, FS_Subset

(* A new substring that touches no other adds its own length.              *)
LEMMA ApartCount ==
    ASSUME NEW r, NEW low, NEW index, NEW len, Fits(r, low, index, len),
           \A k \in DOMAIN r.buf : End(r, k) < index \/ index + len < k,
           NEW m, Absorbed(r, low, index, len, m), Counted(r),
           m.unassembled_bytes = r.unassembled_bytes + len
    PROVE  Counted(m)
<1> DEFINE new == index..(index + len - 1)
<1>1. /\ ReassemblerType(r) /\ low \in Nat /\ Stored(r, low)
      /\ index \in Nat /\ len \in Nat
  BY DEF Fits
<1>2. IsFiniteSet(Waiting(r))
  BY <1>1, WaitingFinite
<1>3. IsFiniteSet(new) /\ Cardinality(new) = len
  <2>1. PICK b \in Nat : b = index + len
    BY <1>1
  <2>2. IsFiniteSet(index..(b - 1)) /\ Cardinality(index..(b - 1)) = b - index
    <3>1. index <= b
      BY <1>1, <2>1
    <3> QED
      BY <1>1, <3>1, IntervalSize, Zenon
  <2> QED
    BY <1>1, <2>1, <2>2
<1>4. Waiting(r) \cap new = {}
  <2>1. ASSUME NEW p \in Waiting(r) PROVE p \notin new
    <3>1. p \in Nat /\ \E k \in DOMAIN r.buf : k <= p /\ p < End(r, k)
      BY <1>1, WaitingMember
    <3>2. \A k \in DOMAIN r.buf : k \in Nat /\ End(r, k) \in Nat
      BY <1>1, StoredEnds
    <3> QED
      BY <1>1, <3>1, <3>2
  <2> QED
    BY <2>1, Zenon
<1> HIDE DEF new
<1>5. Cardinality(Waiting(r) \cup new) = Cardinality(Waiting(r)) + Cardinality(new)
  BY <1>2, <1>3, <1>4, SizeOfUnion, Zenon
<1> QED
  BY <1>3, <1>5 DEF Counted, Absorbed, new

(* A new substring that absorbs others is counted once, and what they held *)
(* no longer.                                                              *)
LEMMA ReplaceCount ==
    ASSUME NEW r, NEW low, NEW index, NEW len, Fits(r, low, index, len),
           NEW touched, NEW first, NEW last, NEW lo, NEW hi,
           Covers(r, index, len, touched, first, last, lo, hi),
           NEW m, Absorbed(r, low, index, len, m), Counted(r),
           m.unassembled_bytes =
               r.unassembled_bytes - (StoredLength(r.buf, touched) - (hi - lo))
    PROVE  Counted(m)
<1>1. /\ ReassemblerType(r) /\ low \in Nat /\ Stored(r, low)
      /\ index \in Nat /\ len \in Nat /\ len > 0
  BY DEF Fits
<1>2. lo \in Nat /\ hi \in Nat /\ touched \subseteq DOMAIN r.buf
  BY DEF Covers
<1>3. /\ CoversUnion(r, index, len, touched, lo, hi) /\ lo < hi
  BY TouchedUnion, Zenon
<1> DEFINE piece == [k \in touched |-> k..(End(r, k) - 1)]
           size  == [k \in touched |-> Len(r.buf[k])]
           old   == UNION {piece[k] : k \in touched}
           new   == lo..(hi - 1)
           rest  == Waiting(r) \ old
<1>4. /\ IsFiniteSet(Waiting(r)) /\ IsFiniteSet(touched)
  BY <1>1, <1>2, WaitingFinite, FS_Subset
<1>5. ASSUME NEW k \in touched
      PROVE  IsFiniteSet(piece[k]) /\ Cardinality(piece[k]) = size[k]
  <2>1. /\ k \in Nat /\ End(r, k) \in Nat /\ k <= End(r, k)
        /\ Len(r.buf[k]) \in Nat /\ End(r, k) = k + Len(r.buf[k])
    BY <1>1, <1>2, StoredEnds
  <2>2. /\ IsFiniteSet(k..(End(r, k) - 1))
        /\ Cardinality(k..(End(r, k) - 1)) = End(r, k) - k
    BY <2>1, IntervalSize, Zenon
  <2> QED
    BY <2>1, <2>2
<1>6. ASSUME NEW k \in touched, NEW l \in touched, k # l
      PROVE  piece[k] \cap piece[l] = {}
  <2>1. /\ k \in Nat /\ End(r, k) \in Nat /\ l \in Nat /\ End(r, l) \in Nat
        /\ k < l => End(r, k) < l
        /\ l < k => End(r, l) < k
    BY <1>1, <1>2, StoredEnds DEF Stored
  <2>2. \A p \in Int : ~(k <= p /\ p < End(r, k) /\ l <= p /\ p < End(r, l))
    BY <1>6, <2>1
  <2> QED
    BY <2>1, <2>2
<1>7. /\ IsFiniteSet(old) /\ StoredLength(r.buf, touched) = Cardinality(old)
  <2>1. StoredLength(r.buf, touched) = SumFunctionOnSet(size, touched)
    BY DEF StoredLength
  <2> HIDE DEF piece, size
  <2> QED
    BY <1>4, <1>5, <1>6, <2>1, SumOfDisjoint
<1>8. \A p : p \in old <=> p \in Nat /\ \E k \in touched : k <= p /\ p < End(r, k)
  <2>1. \A p : p \in old <=> \E k \in touched : p \in k..(End(r, k) - 1)
    OBVIOUS
  <2>2. \A k \in touched : k \in Nat /\ End(r, k) \in Nat
    BY <1>1, <1>2, StoredEnds
  <2> HIDE DEF old
  <2> QED
    BY <2>1, <2>2
<1>9. \A p : p \in Waiting(r) <=> p \in Nat /\ \E k \in DOMAIN r.buf : k <= p /\ p < End(r, k)
  BY <1>1, WaitingMember
<1>10. \A p : p \in new <=> p \in Nat /\ lo <= p /\ p < hi
  BY <1>2
<1>11. \A k \in DOMAIN r.buf : k \in Nat /\ End(r, k) \in Nat
  BY <1>1, StoredEnds
<1> HIDE DEF old, new
<1>12. old \subseteq Waiting(r)
  BY <1>2, <1>8, <1>9
<1>13. rest \cap new = {}
  <2>1. ASSUME NEW p \in rest, p \in new PROVE FALSE
    <3>1. p \in Nat /\ lo <= p /\ p < hi
      BY <1>10, <2>1
    <3>2. PICK k \in DOMAIN r.buf : k <= p /\ p < End(r, k)
      BY <1>9, <2>1
    <3>3. k \notin touched
      BY <1>8, <2>1, <3>1, <3>2
    <3>4. End(r, k) < lo \/ hi < k
      BY <1>3, <3>3 DEF CoversUnion
    <3> QED
      BY <1>2, <1>11, <3>1, <3>2, <3>4
  <2> QED
    BY <2>1
<1>14. Waiting(m) = rest \cup new
  <2>1. Waiting(m) = Waiting(r) \cup index..(index + len - 1)
    BY DEF Absorbed
  <2>2. ASSUME NEW p PROVE p \in Waiting(m) <=> p \in rest \/ p \in new
    <3>1. p \in Waiting(m) <=>
              p \in Waiting(r) \/ (p \in Nat /\ index <= p /\ p < index + len)
      BY <1>1, <2>1
    <3>2. p \in new <=> p \in Nat /\ (\/ index <= p /\ p < index + len
                                      \/ p \in old)
      BY <1>3, <1>8, <1>10 DEF CoversUnion
    <3>3. p \in old => p \in Nat
      BY <1>8
    <3> QED
      BY <1>12, <3>1, <3>2, <3>3
  <2> QED
    BY <2>2
<1>15. /\ Cardinality(rest) = Cardinality(Waiting(r)) - Cardinality(old)
       /\ IsFiniteSet(rest)
  <2>1. IsFiniteSet(rest)
    BY <1>4, FS_Subset
  <2>2. rest \cap old = {} /\ rest \cup old = Waiting(r)
    BY <1>12
  <2>3. /\ Cardinality(rest) \in Nat /\ Cardinality(old) \in Nat
        /\ Cardinality(rest \cup old) = Cardinality(rest) + Cardinality(old)
    <3> HIDE DEF rest
    <3> QED
      BY <1>7, <2>1, <2>2, SizeOfUnion, Zenon
  <2> HIDE DEF rest
  <2> QED
    BY <2>1, <2>2, <2>3
<1>16. IsFiniteSet(new) /\ Cardinality(new) = hi - lo
  BY <1>2, <1>3, IntervalSize DEF new
<1>17. Cardinality(rest \cup new) = Cardinality(rest) + Cardinality(new)
  <2> HIDE DEF rest
  <2> QED
    BY <1>13, <1>15, <1>16, SizeOfUnion, Zenon
<1>18. Cardinality(Waiting(r)) \in Nat /\ Cardinality(old) \in Nat
  BY <1>4, <1>7, FS_CardinalityType
<1> HIDE DEF rest
<1> QED
  BY <1>2, <1>7, <1>14, <1>15, <1>16, <1>17, <1>18 DEF Counted

-----------------------------------------------------------------------------
(* merge adds the positions of the new substring to the waiting ones, and  *)
(* keeps the stored substrings apart and inside the window.                *)
LEMMA MergeCorrect ==
    ASSUME NEW r, NEW low, NEW index, NEW len, Fits(r, low, index, len),
           NEW m, m = Merge(r, Substring(index, len), index)
    PROVE  Absorbed(r, low, index, len, m) /\ (Counted(r) => Counted(m))
<1> SUFFICES ASSUME ReassemblerType(r), low \in Nat, Stored(r, low),
                    index \in Nat, len \in Nat, len > 0,
                    low <= index, index + len <= RightEdge(r)
             PROVE  Absorbed(r, low, index, len, m) /\ (Counted(r) => Counted(m))
  BY DEF Fits
<1> DEFINE data    == Substring(index, len)
           end     == index + len
           touched == {k \in DOMAIN r.buf : End(r, k) >= index /\ k <= end}
           below   == {k \in DOMAIN r.buf : k <= end}
           first   == Min(touched)
           it_prev == Max(below)
           lo      == IF index < first THEN index ELSE first
           head    == IF index < first THEN data
                      ELSE MergeString(r.buf[first], first, data, index)
           s       == MergeString(head, lo, r.buf[it_prev], it_prev)
           hi      == IF End(r, it_prev) <= end THEN end ELSE End(r, it_prev)
<1>0. Fits(r, low, index, len)
  OBVIOUS
<1>1. Len(data) = len
  BY SubstringSeq
<1>2. m = IF touched = {}
          THEN [r EXCEPT !.buf = Insert(@, index, data),
                         !.unassembled_bytes = @ + Len(data)]
          ELSE [r EXCEPT !.buf = Insert(Erase(@, touched), lo, s),
                         !.unassembled_bytes =
                              @ - (StoredLength(r.buf, touched) - Len(s))]
  <2>1. touched = {k \in DOMAIN r.buf : k + Len(r.buf[k]) >= index /\ k <= index + Len(data)}
    BY <1>1 DEF End
  <2>2. below = {k \in DOMAIN r.buf : k <= index + Len(data)}
    BY <1>1
  <2> HIDE DEF touched, below, data
  <2> QED
    BY <2>1, <2>2, Zenon DEF Merge, data
<1>3. CASE touched = {}
  <2>1. \A k \in DOMAIN r.buf : End(r, k) < index \/ end < k
    BY <1>3, StoredEnds
  <2>2. PICK u : /\ u = r.unassembled_bytes + len
                 /\ m = [r EXCEPT !.buf = Insert(@, index, data),
                                  !.unassembled_bytes = u]
    <3> HIDE DEF touched, data
    <3> QED
      BY <1>1, <1>2, <1>3, Zenon
  <2>3. WithBuffer(r, Insert(r.buf, index, data), m) /\ m.unassembled_bytes = u
    <3> HIDE DEF data
    <3> QED
      BY <2>2, Zenon DEF WithBuffer, ReassemblerType
  <2>4. Absorbed(r, low, index, len, m)
    BY <1>0, <2>1, <2>3, MergeApart, Zenon
  <2> QED
    BY <1>0, <2>1, <2>2, <2>3, <2>4, ApartCount, Zenon
<1>4. CASE touched # {}
  <2>1. /\ first \in touched /\ \A k \in touched : first <= k
        /\ first \in DOMAIN r.buf /\ first \in Nat /\ End(r, first) \in Nat
        /\ End(r, first) >= index /\ first <= end
        /\ r.buf[first] = Substring(first, Len(r.buf[first]))
        /\ Len(r.buf[first]) \in Nat /\ End(r, first) = first + Len(r.buf[first])
    <3>1. touched \subseteq Nat
      BY StoredEnds
    <3>2. first \in touched /\ \A k \in touched : first <= k
      <4> HIDE DEF touched
      <4> QED
        BY <1>4, <3>1, MinOfNat, Zenon
    <3> HIDE DEF first
    <3> QED
      BY <3>2, StoredEnds DEF Stored
  <2>2. it_prev \in below /\ \A k \in below : k <= it_prev
    <3>1. below \subseteq Nat /\ below # {} /\ end \in Nat /\ \A k \in below : k <= end
      BY <1>4, StoredEnds
    <3> HIDE DEF below, end
    <3> QED
      BY <3>1, MaxOfNat, Zenon
  <2> HIDE DEF first, it_prev
  <2>3. /\ it_prev \in DOMAIN r.buf /\ it_prev \in Nat /\ End(r, it_prev) \in Nat
        /\ it_prev <= end /\ first <= it_prev
        /\ r.buf[it_prev] = Substring(it_prev, Len(r.buf[it_prev]))
        /\ Len(r.buf[it_prev]) \in Nat
        /\ End(r, it_prev) = it_prev + Len(r.buf[it_prev])
    BY <2>1, <2>2, StoredEnds DEF Stored
  <2>4. End(r, it_prev) >= index
    <3>1. first < it_prev => End(r, first) < it_prev
      BY <2>1, <2>3 DEF Stored
    <3>2. it_prev < End(r, it_prev)
      BY <2>3 DEF Stored
    <3> QED
      BY <2>1, <2>3, <3>1, <3>2
  <2>5. it_prev \in touched /\ \A k \in touched : k <= it_prev
    BY <2>2, <2>3, <2>4
  <2>6. PICK mid \in Nat : /\ mid \in {end, End(r, first)}
                           /\ index < first => mid = end
                           /\ first <= index => end <= mid /\ End(r, first) <= mid
    BY <2>1
  <2>7. lo \in Nat /\ lo <= index /\ lo <= first /\ lo \in {index, first} /\ mid - lo \in Nat
    BY <2>1, <2>6
  <2>8. head = Substring(lo, mid - lo)
    <3>1. CASE index < first
      BY <2>6, <3>1
    <3>2. CASE first <= index
      <4>1. MergeString(Substring(first, Len(r.buf[first])), first, Substring(index, len), index)
                = Substring(lo, mid - lo)
        <5>1. Spans(first, Len(r.buf[first]), index, len, lo, mid)
          BY <2>1, <2>6, <2>7, <3>2 DEF Spans
        <5> HIDE DEF lo
        <5> QED
          BY <5>1, MergeStringUnion
      <4> QED
        BY <2>1, <3>2, <4>1
    <3> QED
      BY <2>1, <3>1, <3>2
  <2>9. /\ hi \in Nat /\ hi >= end /\ hi >= End(r, it_prev) /\ hi \in {end, End(r, it_prev)}
        /\ hi >= mid /\ hi \in {mid, End(r, it_prev)} /\ mid >= it_prev
    <3>1. first < it_prev => End(r, first) < it_prev
      BY <2>1, <2>3 DEF Stored
    <3> QED
      BY <2>1, <2>3, <2>6, <3>1
  <2>10. s = Substring(lo, hi - lo)
    <3>1. Spans(lo, mid - lo, it_prev, Len(r.buf[it_prev]), lo, hi)
      <4> HIDE DEF lo, hi
      <4> QED
        BY <2>1, <2>3, <2>4, <2>6, <2>7, <2>9 DEF Spans
    <3>2. MergeString(Substring(lo, mid - lo), lo,
                      Substring(it_prev, Len(r.buf[it_prev])), it_prev)
              = Substring(lo, hi - lo)
      <4> HIDE DEF lo, hi
      <4> QED
        BY <3>1, MergeStringUnion
    <3> QED
      BY <2>3, <2>8, <3>2
  <2>11. PICK u : /\ u = r.unassembled_bytes - (StoredLength(r.buf, touched) - (hi - lo))
                  /\ m = [r EXCEPT !.buf = Insert(Erase(@, touched), lo, Substring(lo, hi - lo)),
                                   !.unassembled_bytes = u]
    <3>1. Len(s) = hi - lo
      <4>1. hi - lo \in Nat
        <5> HIDE DEF lo, hi
        <5> QED
          BY <2>7, <2>9
      <4> HIDE DEF lo, hi, s
      <4> QED
        BY <2>7, <2>10, <4>1, SubstringSeq
    <3> HIDE DEF lo, hi, head, s, touched
    <3> QED
      BY <1>2, <1>4, <2>10, <3>1, Zenon
  <2>12. Covers(r, index, len, touched, first, it_prev, lo, hi)
    <3> HIDE DEF lo, hi
    <3> QED
      BY <2>1, <2>5, <2>7, <2>9 DEF Covers
  <2> HIDE DEF lo, hi, touched
  <2>13. /\ WithBuffer(r, Insert(Erase(r.buf, touched), lo, Substring(lo, hi - lo)), m)
         /\ m.unassembled_bytes = u
    BY <2>11, Zenon DEF WithBuffer, ReassemblerType
  <2>14. Absorbed(r, low, index, len, m)
    BY <1>0, <2>12, <2>13, MergeReplace, Zenon
  <2> QED
    BY <1>0, <2>11, <2>12, <2>13, <2>14, ReplaceCount, Zenon
<1> QED
  BY <1>3, <1>4

-----------------------------------------------------------------------------
(* reorder_buffer.                                                         *)

(* The output holds the bytes from total_read up to expected_index, and    *)
(* not more than fit.                                                      *)
OutputInPlace(r) ==
    /\ r.output.total_read <= r.output.total_written
    /\ r.output.buf = Substring(r.output.total_read,
                                r.output.total_written - r.output.total_read)
    /\ r.expected_index = r.output.total_written
    /\ r.output.total_written <= RightEdge(r)

(* What merge leaves, when the output has room, and what push_substring    *)
(* leaves.                                                                 *)
Merged(r) ==
    /\ ReassemblerType(r) /\ OutputInPlace(r) /\ ~r.dangling
    /\ Stored(r, r.expected_index) /\ r.expected_index < RightEdge(r)

(* The state between two calls: nothing stored can be written out.         *)
Ready(r) ==
    /\ ReassemblerType(r) /\ OutputInPlace(r) /\ ~r.dangling
    /\ Stored(r, r.expected_index + 1)

(* remaining_capacity is the distance from the next expected index to the  *)
(* right edge.                                                             *)
LEMMA OutputRoom ==
    ASSUME NEW r, ReassemblerType(r), OutputInPlace(r)
    PROVE  /\ r.output.total_read \in Nat /\ r.output.total_written \in Nat
           /\ r.output.cap \in Nat /\ RightEdge(r) \in Nat
           /\ RightEdge(r) = r.output.total_read + r.output.cap
           /\ r.output.total_written - r.output.total_read \in Nat
           /\ BufferSize(r.output) = r.output.total_written - r.output.total_read
           /\ RemainingCapacity(r.output) \in Nat
           /\ RemainingCapacity(r.output) = RightEdge(r) - r.expected_index
<1>1. /\ r.output.total_read \in Nat /\ r.output.total_written \in Nat
      /\ r.output.cap \in Nat
  BY DEF ReassemblerType
<1>2. /\ r.output.total_written - r.output.total_read \in Nat
      /\ RightEdge(r) = r.output.total_read + r.output.cap
  BY <1>1 DEF OutputInPlace, RightEdge
<1>3. Len(r.output.buf) = r.output.total_written - r.output.total_read
  BY <1>1, <1>2, SubstringSeq DEF OutputInPlace
<1> QED
  BY <1>1, <1>2, <1>3 DEF BufferSize, RemainingCapacity, OutputInPlace

(* w holds the same bytes as r, some of them moved to the output.          *)
Moved(r, w) ==
    /\ Ready(w) /\ Received(w) = Received(r)
    /\ w.output.total_read = r.output.total_read /\ w.output.cap = r.output.cap
    /\ Counted(r) => Counted(w)

(* w is r with its first stored substring written out whole.               *)
WrittenOut(r, first, len, w) ==
    /\ w = [output |-> w.output, unassembled_bytes |-> w.unassembled_bytes,
            expected_index |-> w.expected_index, buf |-> w.buf,
            input_ended |-> w.input_ended, dangling |-> w.dangling]
    /\ w.output = [buf |-> r.output.buf \o r.buf[first], cap |-> r.output.cap,
                   total_written |-> r.output.total_written + len,
                   total_read |-> r.output.total_read,
                   input_ended |-> r.output.input_ended,
                   error |-> r.output.error]
    /\ w.expected_index = r.expected_index + len
    /\ w.unassembled_bytes = r.unassembled_bytes - len
    /\ w.buf = Erase(r.buf, {first})
    /\ w.input_ended = r.input_ended /\ w.dangling = r.dangling

(* Writing out the first entry when its turn has come, the branch of       *)
(* reorder_buffer that erases the entry.                                   *)
LEMMA WriteOut ==
    ASSUME NEW r, Merged(r), NEW first \in DOMAIN r.buf,
           first = r.expected_index, \A k \in DOMAIN r.buf : first <= k,
           NEW len \in Nat, len = Len(r.buf[first]),
           NEW w, WrittenOut(r, first, len, w)
    PROVE  Moved(r, w)
<1>1. ReassemblerType(r) /\ OutputInPlace(r) /\ Stored(r, first) /\ ~r.dangling
  BY DEF Merged
<1>2. PICK tr \in Nat, tw \in Nat, edge \in Nat :
          /\ tr = r.output.total_read /\ tw = r.output.total_written
          /\ edge = RightEdge(r) /\ tw - tr \in Nat
  BY <1>1, OutputRoom
<1>3. first = tw /\ r.output.buf = Substring(tr, tw - tr) /\ tr <= tw
  BY <1>1, <1>2 DEF OutputInPlace
<1>4. /\ r.buf[first] = Substring(tw, len) /\ len > 0
      /\ End(r, first) = tw + len /\ tw + len <= edge
  BY <1>1, <1>2, <1>3 DEF Stored, End
<1>5. /\ w.output = [buf |-> r.output.buf \o r.buf[first], cap |-> r.output.cap,
                     total_written |-> tw + len, total_read |-> tr,
                     input_ended |-> r.output.input_ended, error |-> r.output.error]
      /\ w.expected_index = tw + len /\ w.dangling = r.dangling
      /\ w.buf = Erase(r.buf, {first})
  <2>1. r.expected_index + len = tw + len /\ r.output.total_written + len = tw + len
    BY <1>2, <1>3
  <2> QED
    BY <1>2, <2>1, Zenon DEF WrittenOut
<1>6. /\ DOMAIN w.buf = DOMAIN r.buf \ {first}
      /\ \A k \in DOMAIN w.buf : w.buf[k] = r.buf[k]
  BY <1>5 DEF Erase, Restrict
<1>7. w.output.buf = Substring(tr, tw + len - tr)
  <2>1. PICK n \in Nat : n = tw - tr
    BY <1>2
  <2>2. Substring(tr, n) \o Substring(tr + n, len) = Substring(tr, n + len)
    BY SubstringCat, ZenonT(60)
  <2>3. n + len = tw + len - tr /\ tr + n = tw
    BY <2>1
  <2>4. w.output.buf = Substring(tr, tw - tr) \o Substring(tw, len)
    <3> DEFINE joined == r.output.buf \o r.buf[first]
    <3>1. w.output = [buf |-> joined, cap |-> r.output.cap,
                      total_written |-> tw + len, total_read |-> tr,
                      input_ended |-> r.output.input_ended, error |-> r.output.error]
      BY <1>5, Zenon
    <3>2. joined = Substring(tr, tw - tr) \o Substring(tw, len)
      BY <1>3, <1>4, Zenon
    <3> HIDE DEF joined
    <3>3. w.output.buf = joined
      BY <3>1
    <3> QED
      BY <3>2, <3>3, Zenon
  <2> QED
    BY <2>1, <2>2, <2>3, <2>4, Zenon
<1>8. ReassemblerType(w)
  <2>1. w.output.buf \in Seq(Nat)
    <3>1. tw + len - tr \in Nat
      BY <1>3
    <3> QED
      BY <1>7, <3>1, SubstringSeq
  <2>2. tw + len \in Nat
    OBVIOUS
  <2>3. /\ w.output \in [buf : Seq(Nat), cap : Nat, total_written : Nat,
                         total_read : Nat, input_ended : BOOLEAN, error : BOOLEAN]
    BY <1>1, <1>5, <2>1, <2>2 DEF ReassemblerType
  <2>4. /\ DOMAIN w.buf \subseteq Nat
        /\ \A k \in DOMAIN w.buf : w.buf[k] \in Seq(Nat)
    BY <1>1, <1>6 DEF ReassemblerType
  <2>5. /\ w.input_ended \in BOOLEAN /\ w.dangling \in BOOLEAN
        /\ w = [output |-> w.output, unassembled_bytes |-> w.unassembled_bytes,
                expected_index |-> w.expected_index, buf |-> w.buf,
                input_ended |-> w.input_ended, dangling |-> w.dangling]
    BY <1>1 DEF WrittenOut, ReassemblerType
  <2> QED
    BY <1>5, <2>2, <2>3, <2>4, <2>5, Zenon DEF ReassemblerType
<1>9. RightEdge(w) = edge
  BY <1>2, <1>5 DEF RightEdge
<1>10. \A k \in DOMAIN w.buf : End(w, k) = End(r, k)
  BY <1>6 DEF End
<1>11. OutputInPlace(w)
  <2>1. /\ w.output.total_read = tr /\ w.output.total_written = tw + len
        /\ w.expected_index = tw + len
    BY <1>5
  <2>2. tr <= tw + len /\ tw + len <= edge
    BY <1>3, <1>4
  <2>3. w.output.buf = Substring(w.output.total_read,
                                 w.output.total_written - w.output.total_read)
    BY <1>7, <2>1
  <2>4. /\ w.output.total_read <= w.output.total_written
        /\ w.output.total_written <= RightEdge(w)
    BY <1>9, <2>1, <2>2, Zenon
  <2> QED
    BY <2>1, <2>3, <2>4, Zenon DEF OutputInPlace
<1>12. ASSUME NEW k \in DOMAIN w.buf PROVE k \in Nat /\ tw + len < k
  <2>1. k \in DOMAIN r.buf /\ k # first /\ k \in Nat
    BY <1>1, <1>6, StoredEnds
  <2>2. first < k
    BY <1>3, <2>1
  <2> QED
    BY <1>1, <1>4, <2>1, <2>2 DEF Stored
<1>13. Stored(w, tw + len + 1)
  <2>1. ASSUME NEW k \in DOMAIN w.buf
        PROVE  /\ tw + len + 1 <= k /\ k < End(w, k) /\ End(w, k) <= RightEdge(w)
               /\ w.buf[k] = Substring(k, Len(w.buf[k]))
    <3>1. k \in DOMAIN r.buf /\ w.buf[k] = r.buf[k] /\ End(w, k) = End(r, k)
      BY <1>6, <1>10
    <3>2. /\ k < End(r, k) /\ End(r, k) <= RightEdge(r)
          /\ r.buf[k] = Substring(k, Len(r.buf[k]))
      BY <1>1, <3>1 DEF Stored
    <3>3. k \in Nat /\ tw + len + 1 <= k
      BY <1>12
    <3> QED
      BY <1>2, <1>9, <3>1, <3>2, <3>3
  <2>2. \A k, l \in DOMAIN w.buf : k < l => End(w, k) < l
    BY <1>1, <1>6, <1>10 DEF Stored
  <2> QED
    BY <2>1, <2>2 DEF Stored
<1>14. ASSUME NEW p \in Nat
       PROVE  p \in Waiting(r) <=> p \in Waiting(w) \/ (tw <= p /\ p < tw + len)
  <2>1. p \in Waiting(r) <=> \E k \in DOMAIN r.buf : k <= p /\ p < End(r, k)
    BY <1>1, WaitingMember
  <2>2. p \in Waiting(w) <=> \E k \in DOMAIN w.buf : k <= p /\ p < End(r, k)
    BY <1>8, <1>10, WaitingMember
  <2> QED
    BY <1>3, <1>4, <1>6, <2>1, <2>2
<1>15. ASSUME NEW p \in Nat PROVE p \in Received(w) <=> p \in Received(r)
  <2>1. p \in Waiting(r) <=> p \in Waiting(w) \/ (tw <= p /\ p < tw + len)
    BY <1>14
  <2>2. p \in Received(r) <=> p < tw \/ p \in Waiting(r)
    BY <1>2 DEF Received
  <2>3. p \in Received(w) <=> p < tw + len \/ p \in Waiting(w)
    BY <1>5 DEF Received
  <2> QED
    BY <2>1, <2>2, <2>3
<1>16. Received(w) \subseteq Nat /\ Received(r) \subseteq Nat
  <2>1. Waiting(w) \subseteq Nat /\ Waiting(r) \subseteq Nat
    BY <1>1, <1>8, WaitingMember
  <2> QED
    BY <2>1 DEF Received
<1>17. Received(w) = Received(r)
  BY <1>15, <1>16, Zenon
<1>18. Counted(r) => Counted(w)
  <2> DEFINE new == tw..(tw + len - 1)
  <2>1. \A p : p \in new <=> p \in Nat /\ tw <= p /\ p < tw + len
    OBVIOUS
  <2>2. IsFiniteSet(new) /\ Cardinality(new) = len
    <3>1. PICK b \in Nat : b = tw + len
      OBVIOUS
    <3>2. tw <= b
      BY <3>1
    <3>3. IsFiniteSet(tw..(b - 1)) /\ Cardinality(tw..(b - 1)) = b - tw
      BY <3>2, IntervalSize, Zenon
    <3> QED
      BY <3>1, <3>3
  <2> HIDE DEF new
  <2>3. IsFiniteSet(Waiting(w)) /\ Waiting(w) \subseteq Nat /\ Waiting(r) \subseteq Nat
    <3>1. tw + len + 1 \in Nat
      OBVIOUS
    <3> QED
      BY <1>1, <1>8, <1>13, <3>1, WaitingFinite, WaitingMember
  <2>4. Waiting(w) \cap new = {}
    <3>1. ASSUME NEW p \in Waiting(w) PROVE p \notin new
      <4>1. p \in Nat /\ \E k \in DOMAIN w.buf : k <= p /\ p < End(w, k)
        BY <1>8, WaitingMember
      <4> QED
        BY <1>12, <2>1, <4>1
    <3> QED
      BY <3>1, Zenon
  <2>5. Waiting(r) = Waiting(w) \cup new
    BY <1>14, <2>1, <2>3
  <2>6. /\ Cardinality(Waiting(w)) \in Nat
        /\ Cardinality(Waiting(w) \cup new) = Cardinality(Waiting(w)) + Cardinality(new)
    BY <2>2, <2>3, <2>4, SizeOfUnion, Zenon
  <2>7. w.unassembled_bytes = r.unassembled_bytes - len
    BY DEF WrittenOut
  <2> QED
    BY <2>2, <2>5, <2>6, <2>7 DEF Counted
<1> QED
  BY <1>1, <1>2, <1>5, <1>8, <1>11, <1>13, <1>17, <1>18 DEF Moved, Ready

(* reorder_buffer after a merge: a stored substring that starts at         *)
(* expected_index is written out whole, so the branch that reads an erased *)
(* node is never taken.                                                    *)
LEMMA ReorderBufferCorrect ==
    ASSUME NEW r, Merged(r)
    PROVE  /\ Moved(r, ReorderBuffer(r))
           /\ ReorderBuffer(r).input_ended = r.input_ended
           /\ ReorderBuffer(r).output.input_ended = r.output.input_ended
<1>1. /\ ReassemblerType(r) /\ OutputInPlace(r) /\ Stored(r, r.expected_index)
      /\ ~r.dangling /\ r.expected_index < RightEdge(r) /\ r.expected_index \in Nat
  BY DEF Merged, ReassemblerType
<1>2. PICK room \in Nat : /\ room = RemainingCapacity(r.output) /\ room > 0
                          /\ r.expected_index + room = RightEdge(r)
  BY <1>1, OutputRoom
<1>3. CASE r.expected_index \notin DOMAIN r.buf
  <2>1. ReorderBuffer(r) = r
    <3>1. DOMAIN r.buf # {} => Min(DOMAIN r.buf) \in DOMAIN r.buf
      BY <1>1, MinOfNat DEF ReassemblerType
    <3> QED
      BY <1>3, <3>1 DEF ReorderBuffer
  <2>2. Stored(r, r.expected_index + 1)
    <3>1. \A k \in DOMAIN r.buf : r.expected_index + 1 <= k
      BY <1>1, <1>3, StoredEnds DEF Stored
    <3> QED
      BY <1>1, <3>1 DEF Stored
  <2> QED
    BY <1>1, <2>1, <2>2 DEF Moved, Ready
<1>4. CASE r.expected_index \in DOMAIN r.buf
  <2>1. PICK first \in DOMAIN r.buf : first = r.expected_index
    BY <1>4
  <2>2. \A k \in DOMAIN r.buf : k \in Nat /\ first <= k
    BY <1>1, <2>1, StoredEnds DEF Stored
  <2>3. Min(DOMAIN r.buf) = first
    <3>1. /\ Min(DOMAIN r.buf) \in DOMAIN r.buf
          /\ \A k \in DOMAIN r.buf : Min(DOMAIN r.buf) <= k
      BY <2>1, <2>2, MinOfNat
    <3> QED
      BY <2>2, <3>1
  <2>4. PICK len \in Nat : len = Len(r.buf[first]) /\ len <= room
    BY <1>1, <1>2, <2>1, <2>2, StoredEnds DEF Stored
  <2>5. /\ Least(len, room) = len /\ ~(len > room) /\ room # 0
    BY <1>2, <2>4 DEF Least
  <2>6. /\ r.buf[first] \in Seq(Nat) /\ Take(r.buf[first], len) = r.buf[first]
    BY <1>1, <2>4, SubSeqFull DEF ReassemblerType, Take
  <2>7. StreamWrite(r.output, r.buf[first])
            = [r.output EXCEPT !.buf = @ \o r.buf[first], !.total_written = @ + len]
    <3>1. Least(room, len) = len
      BY <2>4 DEF Least
    <3> QED
      BY <1>2, <2>4, <2>6, <3>1, Zenon DEF StreamWrite
  <2>8. ReorderBuffer(r) =
            [r EXCEPT !.output = StreamWrite(@, r.buf[first]),
                      !.expected_index = @ + len,
                      !.unassembled_bytes = @ - len,
                      !.buf = Erase(r.buf, {first}),
                      !.dangling = @ \/ FALSE]
    <3>1. /\ DOMAIN r.buf # {} /\ ~(first # r.expected_index \/ room = 0)
      BY <2>1, <2>5
    <3> QED
      BY <1>2, <2>3, <2>4, <2>5, <2>6, <3>1, Zenon DEF ReorderBuffer
  <2>9. WrittenOut(r, first, len, ReorderBuffer(r))
    <3>1. PICK u : u = r.unassembled_bytes - len
      OBVIOUS
    <3>2. ReorderBuffer(r) =
            [output |-> StreamWrite(r.output, r.buf[first]), unassembled_bytes |-> u,
             expected_index |-> r.expected_index + len,
             buf |-> Erase(r.buf, {first}),
             input_ended |-> r.input_ended, dangling |-> r.dangling]
      <4>1. PICK o : o = StreamWrite(r.output, r.buf[first])
        OBVIOUS
      <4> QED
        BY <1>1, <2>8, <3>1, <4>1, Zenon DEF ReassemblerType
    <3>3. StreamWrite(r.output, r.buf[first])
            = [buf |-> r.output.buf \o r.buf[first], cap |-> r.output.cap,
               total_written |-> r.output.total_written + len,
               total_read |-> r.output.total_read,
               input_ended |-> r.output.input_ended,
               error |-> r.output.error]
      BY <1>1, <2>7, Zenon DEF ReassemblerType
    <3> QED
      BY <3>1, <3>2, <3>3 DEF WrittenOut
  <2>10. Moved(r, ReorderBuffer(r))
    BY <2>1, <2>2, <2>4, <2>9, WriteOut
  <2> QED
    BY <2>9, <2>10 DEF WrittenOut
<1> QED
  BY <1>3, <1>4

-----------------------------------------------------------------------------
(* validate.                                                               *)

(* v is what validate makes of the len bytes at index: nothing that can be *)
(* stored, or exactly the n bytes at from that lie between expected_index  *)
(* and the right edge.                                                     *)
ClipsNothing(r, index, len, v) ==
    /\ v.data = <<>>
    /\ \A p \in Nat : index <= p /\ p < index + len
                          => p < r.expected_index \/ RightEdge(r) <= p

(* validate cuts the substring down to the n > 0 bytes from position from  *)
(* on, which are the ones that can be stored.                              *)
ClipsTo(r, index, len, from, n, v) ==
    /\ Fits(r, r.expected_index, from, n) /\ r.expected_index < RightEdge(r)
    /\ v.verified /\ v.data = Substring(from, n) /\ v.data # <<>> /\ v.index = from
    /\ \A p \in Nat : from <= p /\ p < from + n <=>
                          /\ index <= p /\ p < index + len
                          /\ r.expected_index <= p /\ p < RightEdge(r)

(* A state between two calls satisfies what merge needs.                   *)
LEMMA ReadyStored ==
    ASSUME NEW r, Ready(r)
    PROVE  /\ ReassemblerType(r) /\ OutputInPlace(r) /\ ~r.dangling
           /\ r.expected_index \in Nat /\ Stored(r, r.expected_index)
<1>1. /\ ReassemblerType(r) /\ OutputInPlace(r) /\ ~r.dangling
      /\ r.expected_index \in Nat /\ Stored(r, r.expected_index + 1)
  BY DEF Ready, ReassemblerType
<1>2. \A k \in DOMAIN r.buf : r.expected_index <= k
  BY <1>1, StoredEnds DEF Stored
<1> QED
  BY <1>1, <1>2 DEF Stored

(* validate keeps exactly the bytes that lie between the next expected     *)
(* index and the right edge.                                               *)
LEMMA ValidateCorrect ==
    ASSUME NEW r, Ready(r), NEW index \in Nat, NEW len \in Nat, NEW eof \in BOOLEAN,
           NEW v, v = Validate(r, Substring(index, len), index, eof)
    PROVE  /\ v.eof \in BOOLEAN
           /\ \/ ClipsNothing(r, index, len, v)
              \/ \E from, n \in Nat : ClipsTo(r, index, len, from, n, v)
<1> DEFINE data == Substring(index, len)
<1>1. /\ ReassemblerType(r) /\ OutputInPlace(r)
      /\ r.expected_index \in Nat /\ Stored(r, r.expected_index)
  BY ReadyStored
<1>2. PICK room \in Nat, low \in Nat, upper \in Nat :
          /\ room = RemainingCapacity(r.output) /\ low = r.expected_index
          /\ upper = low + room /\ upper = RightEdge(r)
  BY <1>1, OutputRoom
<1>3. PICK from \in Nat, to \in Nat :
          /\ from = IF index <= low THEN low ELSE index
          /\ to = Least(index + len, upper)
  BY DEF Least
<1>4. Len(data) = len
  BY SubstringSeq
<1>5. v = IF room = 0 \/ len = 0
          THEN [data |-> <<>>, index |-> 0, eof |-> eof, verified |-> TRUE]
          ELSE IF index >= upper \/ index + len <= low
          THEN [data |-> <<>>, index |-> 0, eof |-> FALSE, verified |-> FALSE]
          ELSE [data |-> SubSeq(data, from - index + 1, to - index),
                index |-> from, eof |-> eof /\ index + len <= upper, verified |-> TRUE]
  <2> HIDE DEF data
  <2> QED
    BY <1>2, <1>3, <1>4, Zenon DEF Validate, data
<1>6. CASE room = 0 \/ len = 0 \/ index >= upper \/ index + len <= low
  <2> HIDE DEF data
  <2>1. \/ v = [data |-> <<>>, index |-> 0, eof |-> eof, verified |-> TRUE]
        \/ v = [data |-> <<>>, index |-> 0, eof |-> FALSE, verified |-> FALSE]
    BY <1>5, <1>6, Zenon
  <2>2. v.data = <<>> /\ v.eof \in BOOLEAN
    <3>1. v.data = <<>>
      BY <2>1
    <3>2. v.eof = eof \/ v.eof = FALSE
      BY <2>1
    <3> QED
      BY <3>1, <3>2, Zenon
  <2> QED
    BY <1>2, <1>6, <2>2 DEF ClipsNothing
<1>7. CASE ~(room = 0 \/ len = 0 \/ index >= upper \/ index + len <= low)
  <2>1. /\ from < to /\ low <= from /\ index <= from /\ to <= upper /\ to <= index + len
        /\ \A p \in Nat : from <= p /\ p < to <=>
                              /\ index <= p /\ p < index + len /\ low <= p /\ p < upper
    BY <1>2, <1>3, <1>7 DEF Least
  <2>2. PICK n \in Nat, a \in Nat, b \in Nat :
            n = to - from /\ a = from - index /\ b = to - index
    BY <2>1
  <2>3. n > 0 /\ from + n = to /\ b <= len /\ a <= b /\ low < upper
    BY <2>1, <2>2
  <2>4. v = [data |-> SubSeq(data, a + 1, b), index |-> from,
             eof |-> eof /\ index + len <= upper, verified |-> TRUE]
    <3> HIDE DEF data
    <3> QED
      BY <1>5, <1>7, <2>2, Zenon
  <2>5. SubSeq(data, a + 1, b) = Substring(from, n)
    <3>1. index + a = from /\ b - a = n
      BY <2>2
    <3>2. SubSeq(data, a + 1, b) = Substring(index + a, b - a)
      <4>1. Inside(index, len, a, b)
        BY <2>3 DEF Inside
      <4> QED
        BY <4>1, SubstringInside, Zenon
    <3> QED
      BY <3>1, <3>2
  <2>6. v.data = Substring(from, n) /\ v.index = from /\ v.verified /\ v.eof \in BOOLEAN
    <3> HIDE DEF data
    <3> QED
      BY <2>4, <2>5
  <2>7. Substring(from, n) # <<>>
    BY <2>3, SubstringSeq
  <2>8. Fits(r, low, from, n)
    BY <1>1, <1>2, <2>1, <2>3 DEF Fits
  <2>9. ClipsTo(r, index, len, from, n, v)
    BY <1>2, <2>1, <2>3, <2>6, <2>7, <2>8 DEF ClipsTo
  <2> QED
    BY <2>6, <2>9
<1> QED
  BY <1>6, <1>7

-----------------------------------------------------------------------------
(* push_substring and read.                                                *)

(* The end-of-input flags have no part in what Ready says.                 *)
LEMMA FlagsFree ==
    ASSUME NEW r, Ready(r), NEW w, ReassemblerType(w),
           w.buf = r.buf, w.expected_index = r.expected_index, w.dangling = r.dangling,
           w.output.buf = r.output.buf, w.output.cap = r.output.cap,
           w.output.total_written = r.output.total_written,
           w.output.total_read = r.output.total_read,
           w.unassembled_bytes = r.unassembled_bytes
    PROVE  Moved(r, w)
<1>1. RightEdge(w) = RightEdge(r) /\ \A k : End(w, k) = End(r, k)
  BY DEF RightEdge, End
<1>2. Stored(w, w.expected_index + 1)
  BY <1>1 DEF Ready, Stored
<1>3. OutputInPlace(w)
  BY <1>1 DEF Ready, OutputInPlace
<1>4. Waiting(w) = Waiting(r)
  BY <1>1 DEF Waiting
<1>5. Received(w) = Received(r)
  BY <1>4 DEF Received
<1>6. Counted(r) => Counted(w)
  BY <1>4 DEF Counted
<1> QED
  BY <1>2, <1>3, <1>5, <1>6 DEF Moved, Ready

(* end_input changes one flag.                                             *)
LEMMA EndInputFields ==
    ASSUME NEW s \in [buf : Seq(Nat), cap : Nat, total_written : Nat,
                      total_read : Nat, input_ended : BOOLEAN, error : BOOLEAN]
    PROVE  EndInput(s) = [buf |-> s.buf, cap |-> s.cap,
                          total_written |-> s.total_written,
                          total_read |-> s.total_read, input_ended |-> TRUE,
                          error |-> s.error]
<1>1. PICK flag : flag = TRUE
  BY Zenon
<1>2. [s EXCEPT !.input_ended = flag] =
          [buf |-> s.buf, cap |-> s.cap, total_written |-> s.total_written,
           total_read |-> s.total_read, input_ended |-> flag, error |-> s.error]
  OBVIOUS
<1> QED
  BY <1>1, <1>2, Zenon DEF EndInput

(* The eof bookkeeping at the end of push_substring moves no byte.         *)
LEMMA MarkEnd ==
    ASSUME NEW r, Ready(r), NEW flag \in BOOLEAN,
           NEW w, \/ w = [r EXCEPT !.input_ended = flag]
                  \/ w = [[r EXCEPT !.input_ended = flag] EXCEPT !.output = EndInput(@)]
    PROVE  Moved(r, w)
<1>1. ReassemblerType(r)
  BY DEF Ready
<1>2. CASE w = [r EXCEPT !.input_ended = flag]
  <2>1. w = [output |-> r.output, unassembled_bytes |-> r.unassembled_bytes,
             expected_index |-> r.expected_index, buf |-> r.buf,
             input_ended |-> flag, dangling |-> r.dangling]
    BY <1>1, <1>2 DEF ReassemblerType
  <2>2. ReassemblerType(w)
    BY <1>1, <2>1 DEF ReassemblerType
  <2> QED
    BY <2>1, <2>2, FlagsFree
<1>3. CASE w = [[r EXCEPT !.input_ended = flag] EXCEPT !.output = EndInput(@)]
  <2>1. w = [output |-> EndInput(r.output), unassembled_bytes |-> r.unassembled_bytes,
             expected_index |-> r.expected_index, buf |-> r.buf,
             input_ended |-> flag, dangling |-> r.dangling]
    BY <1>1, <1>3, Zenon DEF ReassemblerType
  <2>2. EndInput(r.output) =
            [buf |-> r.output.buf, cap |-> r.output.cap,
             total_written |-> r.output.total_written,
             total_read |-> r.output.total_read, input_ended |-> TRUE,
             error |-> r.output.error]
    BY <1>1, EndInputFields DEF ReassemblerType
  <2>3. EndInput(r.output) \in [buf : Seq(Nat), cap : Nat, total_written : Nat,
                                total_read : Nat, input_ended : BOOLEAN, error : BOOLEAN]
    BY <1>1, <2>2 DEF ReassemblerType
  <2>4. ReassemblerType(w)
    BY <1>1, <2>1, <2>3 DEF ReassemblerType
  <2> QED
    BY <2>1, <2>2, <2>4, FlagsFree
<1> QED
  BY <1>2, <1>3

(* The constructor.                                                        *)
LEMMA NewReassemblerReady ==
    ASSUME NEW capacity \in Nat
    PROVE  LET r == NewReassembler(capacity)
           IN  /\ Ready(r) /\ Counted(r) /\ Received(r) = {}
               /\ r.output.cap = capacity /\ r.output.total_written = 0
               /\ r.output.total_read = 0 /\ r.unassembled_bytes = 0
               /\ r.input_ended = FALSE /\ r.output.input_ended = FALSE
<1> DEFINE o == NewByteStream(capacity)
           r == NewReassembler(capacity)
<1>1. o = [buf |-> <<>>, cap |-> capacity, total_written |-> 0, total_read |-> 0,
           input_ended |-> FALSE, error |-> FALSE]
  BY DEF NewByteStream
<1>2. r = [output |-> o, unassembled_bytes |-> 0, expected_index |-> 0,
           buf |-> [k \in {} |-> <<>>], input_ended |-> FALSE, dangling |-> FALSE]
  BY DEF NewReassembler, EmptyMap
<1>3. o \in [buf : Seq(Nat), cap : Nat, total_written : Nat, total_read : Nat,
             input_ended : BOOLEAN, error : BOOLEAN]
  BY <1>1
<1> HIDE DEF o, r
<1>4. /\ r.output = o /\ r.expected_index = 0 /\ r.unassembled_bytes = 0
      /\ DOMAIN r.buf = {} /\ r.dangling = FALSE /\ r.input_ended = FALSE
  BY <1>2
<1>5. ReassemblerType(r)
  BY <1>2, <1>3 DEF ReassemblerType
<1>6. OutputInPlace(r)
  <2>1. Substring(0, 0) = <<>>
    BY SubstringSeq
  <2> QED
    BY <1>1, <1>4, <2>1 DEF OutputInPlace, RightEdge
<1>7. Waiting(r) = {} /\ Stored(r, r.expected_index + 1)
  BY <1>4 DEF Waiting, Stored
<1>8. Counted(r)
  BY <1>4, <1>7, FS_EmptySet DEF Counted
<1>9. Ready(r) /\ Received(r) = {}
  BY <1>1, <1>4, <1>5, <1>6, <1>7 DEF Ready, Received
<1> QED
  BY <1>1, <1>4, <1>8, <1>9 DEF r

(* w has all that r had and the bytes at index that lie in the window.     *)
Pushed(r, index, len, w) ==
    /\ Ready(w)
    /\ \A p \in Nat : p \in Received(w) <=>
           p \in Received(r) \/ (index <= p /\ p < index + len /\ p < RightEdge(r))
    /\ w.output.total_read = r.output.total_read /\ w.output.cap = r.output.cap
    /\ Counted(r) => Counted(w)

(* push_substring keeps exactly the bytes that fit the window, at their    *)
(* places, whatever was pushed before.                                     *)
LEMMA PushSubstringCorrect ==
    ASSUME NEW r, Ready(r), NEW index \in Nat, NEW len \in Nat, NEW eof \in BOOLEAN
    PROVE  Pushed(r, index, len, PushSubstring(r, Substring(index, len), index, eof))
<1> DEFINE v == Validate(r, Substring(index, len), index, eof)
           assembled == IF v.data = <<>> THEN r
                        ELSE ReorderBuffer(Merge(r, v.data, v.index))
           marked == [assembled EXCEPT !.input_ended = @ \/ v.eof]
           w == PushSubstring(r, Substring(index, len), index, eof)
<1>1. /\ ReassemblerType(r) /\ OutputInPlace(r) /\ ~r.dangling
      /\ r.expected_index \in Nat /\ RightEdge(r) \in Nat
      /\ Stored(r, r.expected_index)
  BY ReadyStored, OutputRoom
<1>2. /\ v.eof \in BOOLEAN
      /\ \/ ClipsNothing(r, index, len, v)
         \/ \E from, n \in Nat : ClipsTo(r, index, len, from, n, v)
  <2> HIDE DEF v
  <2> QED
    BY ValidateCorrect, Zenon DEF v
<1>3. \/ ~v.verified /\ w = r
      \/ v.verified /\ w = marked
      \/ v.verified /\ w = [marked EXCEPT !.output = EndInput(@)]
  BY Zenon DEF PushSubstring
<1> SUFFICES Pushed(r, index, len, w)
  OBVIOUS
<1> HIDE DEF v, w
<1>4. \A p \in Nat : p < r.expected_index => p \in Received(r)
  BY <1>1 DEF Received, OutputInPlace
<1>5. CASE ClipsNothing(r, index, len, v)
  <2>1. assembled = r
    BY <1>5 DEF ClipsNothing
  <2>2. Moved(r, r)
    BY <1>1 DEF Moved
  <2>3. (r.input_ended \/ v.eof) \in BOOLEAN
    BY <1>1, <1>2, Zenon DEF ReassemblerType
  <2>4. Moved(r, w)
    BY <1>3, <2>1, <2>2, <2>3, MarkEnd, Zenon
  <2>5. \A p \in Nat : index <= p /\ p < index + len /\ p < RightEdge(r) => p \in Received(r)
    BY <1>1, <1>4, <1>5 DEF ClipsNothing
  <2> QED
    BY <2>4, <2>5 DEF Moved, Pushed
<1>6. ASSUME NEW from \in Nat, NEW n \in Nat, ClipsTo(r, index, len, from, n, v)
      PROVE  Pushed(r, index, len, w)
  <2> DEFINE m == Merge(r, Substring(from, n), from)
  <2>1. /\ Fits(r, r.expected_index, from, n) /\ r.expected_index < RightEdge(r)
        /\ v.verified /\ v.data = Substring(from, n) /\ v.data # <<>> /\ v.index = from
    BY <1>6 DEF ClipsTo
  <2>2. Absorbed(r, r.expected_index, from, n, m) /\ (Counted(r) => Counted(m))
    BY <2>1, MergeCorrect
  <2> HIDE DEF m
  <2>3. /\ ReassemblerType(m) /\ Stored(m, r.expected_index)
        /\ m.output = r.output /\ m.expected_index = r.expected_index
        /\ m.input_ended = r.input_ended /\ m.dangling = r.dangling
        /\ Waiting(m) = Waiting(r) \cup from..(from + n - 1)
    BY <2>2 DEF Absorbed
  <2>4. Merged(m)
    BY <1>1, <2>1, <2>3 DEF Merged, OutputInPlace, RightEdge
  <2>5. Moved(m, ReorderBuffer(m)) /\ ReorderBuffer(m).input_ended = r.input_ended
    BY <2>3, <2>4, ReorderBufferCorrect
  <2>6. assembled = ReorderBuffer(m)
    BY <2>1 DEF m
  <2> HIDE DEF assembled
  <2>7. Ready(assembled) /\ (assembled.input_ended \/ v.eof) \in BOOLEAN
    BY <1>1, <1>2, <2>5, <2>6, Zenon DEF Moved, ReassemblerType
  <2>8. Moved(assembled, w)
    BY <1>3, <2>1, <2>7, MarkEnd, Zenon
  <2>9. /\ Ready(w) /\ Received(w) = Received(m)
        /\ w.output.total_read = r.output.total_read /\ w.output.cap = r.output.cap
        /\ Counted(r) => Counted(w)
    BY <2>2, <2>3, <2>5, <2>6, <2>8 DEF Moved
  <2>10. \A p \in Nat : p \in Received(m) <=> p \in Received(r) \/ (from <= p /\ p < from + n)
    BY <2>3 DEF Received
  <2>11. \A p \in Nat : from <= p /\ p < from + n <=>
                              /\ index <= p /\ p < index + len
                              /\ r.expected_index <= p /\ p < RightEdge(r)
    BY <1>6 DEF ClipsTo
  <2>12. \A p \in Nat : p < r.expected_index \/ r.expected_index <= p
    BY <1>1
  <2> HIDE DEF marked
  <2>13. \A p \in Nat : p \in Received(w) <=>
             p \in Received(r) \/ (index <= p /\ p < index + len /\ p < RightEdge(r))
    BY <1>4, <2>9, <2>10, <2>11, <2>12, Zenon
  <2> QED
    BY <2>9, <2>13, Zenon DEF Pushed
<1> QED
  BY <1>2, <1>5, <1>6, Zenon

(* What push_substring does to the flags of the end: a substring that lies *)
(* wholly outside the window is ignored with its eof; otherwise eof counts *)
(* unless the substring reaches past the window, and the output ends once  *)
(* the end is known and nothing waits.                                     *)
EndMarked(r, index, len, eof, w) ==
    \/ /\ w = r /\ len > 0 /\ r.expected_index < RightEdge(r)
       /\ RightEdge(r) <= index \/ index + len <= r.expected_index
    \/ /\ w.input_ended <=>
              r.input_ended \/ (eof /\ (\/ len = 0 \/ r.expected_index = RightEdge(r)
                                        \/ index + len <= RightEdge(r)))
       /\ w.output.input_ended <=>
              r.output.input_ended \/ (w.input_ended /\ w.unassembled_bytes = 0)

(* push_substring tracks the end of the stream as EndMarked says.          *)
LEMMA PushSubstringEnds ==
    ASSUME NEW r, Ready(r), NEW index \in Nat, NEW len \in Nat, NEW eof \in BOOLEAN
    PROVE  EndMarked(r, index, len, eof, PushSubstring(r, Substring(index, len), index, eof))
<1> DEFINE v == Validate(r, Substring(index, len), index, eof)
           assembled == IF v.data = <<>> THEN r
                        ELSE ReorderBuffer(Merge(r, v.data, v.index))
           marked == [assembled EXCEPT !.input_ended = @ \/ v.eof]
           w == PushSubstring(r, Substring(index, len), index, eof)
<1>1. /\ ReassemblerType(r) /\ OutputInPlace(r) /\ ~r.dangling
      /\ r.expected_index \in Nat /\ RightEdge(r) \in Nat
      /\ Stored(r, r.expected_index)
  BY ReadyStored, OutputRoom
<1>2. /\ v.eof \in BOOLEAN
      /\ \/ ClipsNothing(r, index, len, v)
         \/ \E from, n \in Nat : ClipsTo(r, index, len, from, n, v)
  <2> HIDE DEF v
  <2> QED
    BY ValidateCorrect, Zenon DEF v
<1>3. \/ ~v.verified /\ w = r
      \/ v.verified /\ ~(marked.input_ended /\ marked.unassembled_bytes = 0) /\ w = marked
      \/ /\ v.verified /\ marked.input_ended /\ marked.unassembled_bytes = 0
         /\ w = [marked EXCEPT !.output = EndInput(@)]
  BY Zenon DEF PushSubstring
<1>4. \/ /\ ~v.verified /\ len > 0 /\ r.expected_index < RightEdge(r)
         /\ RightEdge(r) <= index \/ index + len <= r.expected_index
      \/ /\ v.verified
         /\ v.eof <=> eof /\ (\/ len = 0 \/ r.expected_index = RightEdge(r)
                              \/ index + len <= RightEdge(r))
  <2>1. PICK room \in Nat, low \in Nat, upper \in Nat :
            /\ room = RemainingCapacity(r.output) /\ low = r.expected_index
            /\ upper = low + room /\ upper = RightEdge(r)
    BY <1>1, OutputRoom
  <2>2. Len(Substring(index, len)) = len
    BY SubstringSeq
  <2>3. \/ /\ room = 0 \/ len = 0
           /\ v.eof = eof /\ v.verified = TRUE
        \/ /\ ~(room = 0 \/ len = 0) /\ (index >= upper \/ index + len <= low)
           /\ v.verified = FALSE
        \/ /\ ~(room = 0 \/ len = 0) /\ ~(index >= upper \/ index + len <= low)
           /\ v.eof = (eof /\ index + len <= upper) /\ v.verified = TRUE
    <3>1. PICK data, n : data = Substring(index, len) /\ n = len /\ Len(data) = n
      BY <2>2
    <3> QED
      BY <2>1, <3>1, Zenon DEF Validate
  <2> HIDE DEF v
  <2>4. /\ room = 0 <=> r.expected_index = RightEdge(r)
        /\ room # 0 <=> r.expected_index < RightEdge(r)
        /\ len = 0 \/ len > 0
        /\ index >= upper <=> RightEdge(r) <= index
        /\ index + len <= upper <=> index + len <= RightEdge(r)
        /\ low = r.expected_index
    BY <2>1
  <2> QED
    BY <2>3, <2>4, Zenon
<1> SUFFICES EndMarked(r, index, len, eof, w)
  OBVIOUS
<1>5. /\ Ready(assembled) /\ assembled.input_ended = r.input_ended
      /\ assembled.output.input_ended = r.output.input_ended
  <2> HIDE DEF v
  <2>1. CASE ClipsNothing(r, index, len, v)
    BY <2>1 DEF ClipsNothing
  <2>2. ASSUME NEW from \in Nat, NEW n \in Nat, ClipsTo(r, index, len, from, n, v)
        PROVE  /\ Ready(assembled) /\ assembled.input_ended = r.input_ended
               /\ assembled.output.input_ended = r.output.input_ended
    <3> DEFINE m == Merge(r, Substring(from, n), from)
    <3>1. /\ Fits(r, r.expected_index, from, n) /\ r.expected_index < RightEdge(r)
          /\ v.verified /\ v.data = Substring(from, n) /\ v.data # <<>> /\ v.index = from
      BY <2>2 DEF ClipsTo
    <3>2. Absorbed(r, r.expected_index, from, n, m)
      BY <3>1, MergeCorrect
    <3> HIDE DEF m
    <3>3. /\ ReassemblerType(m) /\ Stored(m, r.expected_index)
          /\ m.output = r.output /\ m.expected_index = r.expected_index
          /\ m.input_ended = r.input_ended /\ m.dangling = r.dangling
      BY <3>2 DEF Absorbed
    <3>4. Merged(m)
      BY <1>1, <3>1, <3>3 DEF Merged, OutputInPlace, RightEdge
    <3>5. assembled = ReorderBuffer(m)
      BY <3>1 DEF m
    <3> HIDE DEF assembled
    <3> QED
      BY <3>3, <3>4, <3>5, ReorderBufferCorrect DEF Moved
  <2> HIDE DEF assembled
  <2> QED
    BY <1>2, <2>1, <2>2
<1> HIDE DEF v, assembled, w
<1>6. ReassemblerType(assembled)
  BY <1>5 DEF Ready
<1>7. PICK flag \in BOOLEAN : flag = (assembled.input_ended \/ v.eof)
  BY <1>2, <1>6, Zenon DEF ReassemblerType
<1>8. marked = [output |-> assembled.output,
                unassembled_bytes |-> assembled.unassembled_bytes,
                expected_index |-> assembled.expected_index, buf |-> assembled.buf,
                input_ended |-> flag, dangling |-> assembled.dangling]
  <2>1. marked = [assembled EXCEPT !.input_ended = flag]
    BY <1>7, Zenon
  <2> HIDE DEF marked
  <2> QED
    BY <1>6, <2>1 DEF ReassemblerType
<1> HIDE DEF marked
<1>9. flag <=> r.input_ended \/ v.eof
  BY <1>5, <1>7, Zenon
<1>10. CASE ~v.verified
  BY <1>3, <1>4, <1>10 DEF EndMarked
<1>11. CASE v.verified
  <2>1. \/ ~(flag /\ assembled.unassembled_bytes = 0) /\ w = marked
        \/ /\ flag /\ assembled.unassembled_bytes = 0
           /\ w = [marked EXCEPT !.output = EndInput(@)]
    BY <1>3, <1>8, <1>11
  <2>2. /\ w.input_ended = flag /\ w.unassembled_bytes = assembled.unassembled_bytes
    BY <1>8, <2>1
  <2>3. EndInput(assembled.output).input_ended = TRUE
    BY <1>6 DEF EndInput, ReassemblerType
  <2>4. r.output.input_ended \in BOOLEAN
    BY <1>1 DEF ReassemblerType
  <2>5. \/ /\ ~(flag /\ assembled.unassembled_bytes = 0)
           /\ w.output.input_ended = r.output.input_ended
        \/ /\ flag /\ assembled.unassembled_bytes = 0
           /\ w.output.input_ended = TRUE
    BY <1>5, <1>8, <2>1, <2>3
  <2> QED
    BY <1>4, <1>9, <1>11, <2>2, <2>4, <2>5, Zenon DEF EndMarked
<1> QED
  BY <1>10, <1>11

(* w has read n bytes more than r, all of them assembled.                  *)
HasRead(r, n, w) ==
    /\ Ready(w) /\ Received(w) = Received(r)
    /\ w.output.total_read = r.output.total_read + n
    /\ w.output.total_read <= r.output.total_written
    /\ w.output.cap = r.output.cap
    /\ w.unassembled_bytes = r.unassembled_bytes /\ Waiting(w) = Waiting(r)
    /\ w.input_ended = r.input_ended /\ w.output.input_ended = r.output.input_ended

(* Reading takes the next bytes in order and opens the window as far.      *)
LEMMA ReadOutputCorrect ==
    ASSUME NEW r, Ready(r), NEW len \in Nat
    PROVE  \E n \in Nat : n <= len /\ HasRead(r, n, ReadOutput(r, len))
<1> DEFINE w == ReadOutput(r, len)
<1>1. /\ ReassemblerType(r) /\ OutputInPlace(r) /\ ~r.dangling
      /\ Stored(r, r.expected_index + 1) /\ r.expected_index \in Nat
  BY DEF Ready, ReassemblerType
<1>2. PICK tr \in Nat, tw \in Nat, cap \in Nat, size \in Nat :
          /\ tr = r.output.total_read /\ tw = r.output.total_written
          /\ cap = r.output.cap /\ size = tw - tr
          /\ size = BufferSize(r.output) /\ RightEdge(r) = tr + cap
  BY <1>1, OutputRoom
<1>3. /\ r.output.buf = Substring(tr, size) /\ tr <= tw
      /\ r.expected_index = tw /\ tw <= tr + cap
  BY <1>1, <1>2 DEF OutputInPlace
<1>4. PICK n \in Nat : n = Least(len, size) /\ n <= size /\ n <= len
  BY DEF Least
<1>5. Drop(r.output.buf, n) = Substring(tr + n, size - n)
  BY <1>3, <1>4, SubstringDrop
<1>6. PopOutput(r.output, len)
          = [r.output EXCEPT !.buf = Substring(tr + n, size - n), !.total_read = tr + n]
  BY <1>2, <1>4, <1>5, Zenon DEF PopOutput
<1>7. w = [output |-> PopOutput(r.output, len),
           unassembled_bytes |-> r.unassembled_bytes,
           expected_index |-> r.expected_index, buf |-> r.buf,
           input_ended |-> r.input_ended, dangling |-> r.dangling]
  <2>1. PICK o : o = PopOutput(r.output, len)
    OBVIOUS
  <2>2. w = [r EXCEPT !.output = o]
    BY <2>1, Zenon DEF ReadOutput
  <2> HIDE DEF w
  <2> QED
    BY <1>1, <2>1, <2>2 DEF ReassemblerType
<1>8. PopOutput(r.output, len)
          = [buf |-> Substring(tr + n, size - n), cap |-> r.output.cap,
             total_written |-> r.output.total_written, total_read |-> tr + n,
             input_ended |-> r.output.input_ended, error |-> r.output.error]
  BY <1>1, <1>6, Zenon DEF ReassemblerType
<1> HIDE DEF w
<1>9. /\ w.output = [buf |-> Substring(tr + n, size - n), cap |-> r.output.cap,
                     total_written |-> r.output.total_written, total_read |-> tr + n,
                     input_ended |-> r.output.input_ended, error |-> r.output.error]
      /\ w.expected_index = r.expected_index /\ w.buf = r.buf
      /\ w.dangling = r.dangling /\ w.input_ended = r.input_ended
      /\ w.unassembled_bytes = r.unassembled_bytes
      /\ w = [output |-> w.output, unassembled_bytes |-> w.unassembled_bytes,
              expected_index |-> w.expected_index, buf |-> w.buf,
              input_ended |-> w.input_ended, dangling |-> w.dangling]
  BY <1>7, <1>8
<1>10. /\ w.output.total_read = tr + n /\ w.output.total_written = tw
       /\ w.output.cap = cap /\ w.output.buf = Substring(tr + n, size - n)
  BY <1>2, <1>9
<1>11. ReassemblerType(w)
  <2>1. Substring(tr + n, size - n) \in Seq(Nat) /\ tr + n \in Nat
    <3>1. tr + n \in Nat /\ size - n \in Nat
      BY <1>4
    <3> QED
      BY <3>1, SubstringSeq
  <2>2. w.output \in [buf : Seq(Nat), cap : Nat, total_written : Nat,
                      total_read : Nat, input_ended : BOOLEAN, error : BOOLEAN]
    BY <1>1, <1>9, <2>1 DEF ReassemblerType
  <2> QED
    BY <1>1, <1>9, <2>2 DEF ReassemblerType
<1>12. RightEdge(w) = tr + n + cap
  BY <1>10 DEF RightEdge
<1>13. OutputInPlace(w)
  <2>1. /\ tw - (tr + n) = size - n /\ tr + n <= tw /\ tw <= tr + n + cap
    BY <1>2, <1>3, <1>4
  <2>2. w.output.buf = Substring(w.output.total_read,
                                 w.output.total_written - w.output.total_read)
    BY <1>10, <2>1
  <2>3. /\ w.output.total_read <= w.output.total_written
        /\ w.output.total_written <= RightEdge(w)
        /\ w.expected_index = w.output.total_written
    BY <1>3, <1>9, <1>10, <1>12, <2>1
  <2> QED
    BY <2>2, <2>3, Zenon DEF OutputInPlace
<1>14. \A k : End(w, k) = End(r, k)
  BY <1>9 DEF End
<1>15. Stored(w, w.expected_index + 1)
  <2>1. \A k \in DOMAIN r.buf : End(r, k) \in Nat /\ End(r, k) <= tr + cap
    BY <1>1, <1>2, StoredEnds DEF Stored
  <2>2. \A k \in DOMAIN r.buf : End(r, k) <= tr + n + cap
    BY <2>1
  <2> QED
    BY <1>1, <1>9, <1>12, <1>14, <2>2 DEF Stored
<1>16. Received(w) = Received(r) /\ Waiting(w) = Waiting(r)
  <2>1. Waiting(w) = Waiting(r)
    BY <1>9, <1>14 DEF Waiting
  <2> QED
    BY <1>2, <1>10, <2>1 DEF Received
<1>17. HasRead(r, n, w)
  <2>1. /\ tr + n = r.output.total_read + n /\ tr + n <= tw
    BY <1>2, <1>4
  <2> QED
    BY <1>1, <1>2, <1>9, <1>10, <1>11, <1>13, <1>15, <1>16, <2>1 DEF HasRead, Ready
<1> QED
  BY <1>4, <1>17 DEF w

(* The next byte to be written out is the first that is missing, and the   *)
(* counter is zero exactly when no byte is kept beyond it.                 *)
LEMMA NextMissing ==
    ASSUME NEW r, Ready(r)
    PROVE  /\ r.output.total_written \in Nat
           /\ Received(r) \subseteq Nat
           /\ r.output.total_written \notin Received(r)
           /\ \A p \in Nat : p < r.output.total_written => p \in Received(r)
           /\ Counted(r) =>
                  (r.unassembled_bytes = 0 <=> Received(r) = 0..(r.output.total_written - 1))
<1>1. /\ ReassemblerType(r) /\ OutputInPlace(r) /\ r.expected_index \in Nat
      /\ Stored(r, r.expected_index + 1) /\ r.expected_index = r.output.total_written
  BY DEF Ready, ReassemblerType, OutputInPlace
<1>2. PICK low \in Nat : low = r.output.total_written + 1
  BY <1>1
<1>3. /\ IsFiniteSet(Waiting(r)) /\ Waiting(r) \subseteq low..(RightEdge(r) - 1)
  BY <1>1, <1>2, WaitingFinite
<1>4. RightEdge(r) \in Nat
  BY <1>1, OutputRoom
<1>5. Counted(r) => (r.unassembled_bytes = 0 <=> Waiting(r) = {})
  <2>1. Cardinality(Waiting(r)) = 0 <=> Waiting(r) = {}
    BY <1>3, FS_EmptySet
  <2> QED
    BY <2>1 DEF Counted
<1>6. Waiting(r) = {} <=> Received(r) = 0..(r.output.total_written - 1)
  BY <1>1, <1>2, <1>3, <1>4 DEF Received
<1> QED
  BY <1>1, <1>2, <1>3, <1>4, <1>5, <1>6 DEF Received

(* The output has received just as many bytes as follow each other from    *)
(* the start of the stream on.                                             *)
LEMMA SameNextMissing ==
    ASSUME NEW r, Ready(r), NEW w, Ready(w)
    PROVE  /\ Received(r) \subseteq Received(w) =>
                  r.output.total_written <= w.output.total_written
           /\ Received(r) = Received(w) =>
                  r.output.total_written = w.output.total_written
<1>1. /\ r.output.total_written \in Nat /\ w.output.total_written \in Nat
      /\ r.output.total_written \notin Received(r)
      /\ w.output.total_written \notin Received(w)
      /\ \A p \in Nat : p < r.output.total_written => p \in Received(r)
      /\ \A p \in Nat : p < w.output.total_written => p \in Received(w)
  BY NextMissing
<1> QED
  BY <1>1

-----------------------------------------------------------------------------
(* Sequence numbers.                                                       *)

(* The sequence space splits into two halves.                              *)
LEMMA HalfOfModulus ==
    Half \in Nat /\ Half > 0 /\ Modulus \in Nat /\ Modulus > 0 /\ Modulus = 2 * Half
BY ModulusAssumption DEF Half

(* Division with remainder.                                                *)
LEMMA Remainder ==
    ASSUME NEW m \in Nat, m > 0, NEW a \in Int
    PROVE  a % m \in Nat /\ a % m < m
OBVIOUS

(* Division with remainder, the quotient.                                  *)
LEMMA Quotient ==
    ASSUME NEW m \in Nat, m > 0, NEW a \in Int
    PROVE  a \div m \in Int /\ a = m * (a \div m) + (a % m)
<1>1. a \div m \in Int
  OBVIOUS
<1>2. a = m * (a \div m) + (a % m)
  OBVIOUS
<1> QED
  BY <1>1, <1>2

(* A multiple of m between -2m and 2m.                                     *)
LEMMA SmallMultiple ==
    ASSUME NEW m \in Nat, m > 0, NEW d \in Int, m * d < 2 * m, -(2 * m) < m * d
    PROVE  \/ d = 0 /\ m * d = 0
           \/ d = 1 /\ m * d = m
           \/ d = -1 /\ m * d = -m
<1>1. d >= 2 => m * d >= 2 * m
  OBVIOUS
<1>2. d <= -2 => m * d <= -(2 * m)
  OBVIOUS
<1>3. d \in {-1, 0, 1}
  BY <1>1, <1>2
<1> QED
  BY <1>3

(* A whole number of rounds does not change the remainder.                 *)
LEMMA Rounds ==
    ASSUME NEW m \in Nat, m > 0, NEW a \in Int, NEW k \in Int
    PROVE  (a + m * k) % m = a % m
<1>1. m * k \in Int /\ a + m * k \in Int
  OBVIOUS
<1>2. PICK q \in Int, r \in Nat : r = a % m /\ r < m /\ a = m * q + r
  BY Quotient, Remainder
<1>3. PICK p \in Int, s \in Nat :
          s = (a + m * k) % m /\ s < m /\ a + m * k = m * p + s
  BY <1>1, Quotient, Remainder
<1>4. (q + k) - p \in Int /\ m * ((q + k) - p) = (m * q + m * k) - m * p
  OBVIOUS
<1>5. m * ((q + k) - p) = s - r
  BY <1>1, <1>2, <1>3, <1>4
<1>6. s - r < m /\ -m < s - r
  BY <1>2, <1>3
<1>7. m * ((q + k) - p) = 0
  BY <1>4, <1>5, <1>6, SmallMultiple
<1> QED
  BY <1>2, <1>3, <1>5, <1>7

(* The first line of unwrap takes the initial sequence number off again.   *)
LEMMA Relative ==
    ASSUME NEW isn \in Int, NEW abs \in Int
    PROVE  (Wrap(abs, isn) - isn) % Modulus = abs % Modulus
<1> DEFINE q == (isn + abs) \div Modulus
<1>1. Modulus \in Nat /\ Modulus > 0 /\ isn + abs \in Int
  BY HalfOfModulus
<1>2. q \in Int /\ isn + abs = Modulus * q + Wrap(abs, isn)
  BY <1>1, Quotient DEF Wrap
<1>3. Wrap(abs, isn) \in Nat
  BY <1>1, Remainder DEF Wrap
<1> HIDE DEF q
<1>4. -q \in Int /\ Modulus * (-q) = -(Modulus * q)
  BY <1>1, <1>2
<1>5. Wrap(abs, isn) - isn = abs + Modulus * (-q)
  BY <1>1, <1>2, <1>3, <1>4
<1> QED
  BY <1>1, <1>4, <1>5, Rounds, Zenon

(* unwrap(wrap(n, isn), isn, checkpoint) is n for every n closer to the    *)
(* checkpoint than half the sequence space.                                *)
THEOREM UnwrapWrap ==
    ASSUME NEW isn \in Int, NEW abs \in Nat, NEW checkpoint \in Nat,
           abs < checkpoint + Half, checkpoint < abs + Half
    PROVE  Unwrap(Wrap(abs, isn), isn, checkpoint) = abs
<1>1. PICK m \in Nat, h \in Nat :
          m = Modulus /\ h = Half /\ m > 0 /\ h > 0 /\ m = 2 * h
  BY HalfOfModulus
<1>2. PICK re \in Nat, p \in Int : re = abs % m /\ re < m /\ abs = m * p + re
  BY <1>1, Remainder, Quotient
<1>3. PICK k \in Int, c \in Nat : k = checkpoint \div m /\ c < m /\ checkpoint = m * k + c
  BY <1>1, Remainder, Quotient
<1>4. PICK near \in Int : near = re + m * k
  BY <1>1, <1>2, <1>3
<1>5. Unwrap(Wrap(abs, isn), isn, checkpoint) =
          IF checkpoint <= re THEN re
          ELSE IF near > checkpoint + h THEN near - m
          ELSE IF near + h < checkpoint THEN near + m
          ELSE near
  <2>1. (Wrap(abs, isn) - isn) % Modulus = re
    BY <1>1, <1>2, Relative
  <2>2. checkpoint \div Modulus = k /\ re + Modulus * k = near
    BY <1>1, <1>3, <1>4
  <2> QED
    BY <1>1, <2>1, <2>2, Zenon DEF Unwrap
<1>6. abs < checkpoint + h /\ checkpoint < abs + h
  BY <1>1
<1>7. CASE checkpoint <= re
  <2>1. p >= 1 => m * p >= m
    BY <1>1
  <2>2. p <= -1 => m * p <= -m
    BY <1>1
  <2>3. p = 0 => m * p = 0
    BY <1>1
  <2>4. abs = re
    BY <1>1, <1>2, <1>6, <1>7, <2>1, <2>2, <2>3
  <2> QED
    BY <1>5, <1>7, <2>4
<1>8. CASE ~(checkpoint <= re)
  <2>1. PICK d \in Int : d = p - k
    OBVIOUS
  <2>2. m * d = m * p - m * k
    BY <1>1, <1>2, <1>3, <2>1
  <2>3. PICK e \in Int : e = m * d
    BY <1>1, <2>1
  <2>4. PICK mp \in Int, mk \in Int : mp = m * p /\ mk = m * k
    BY <1>1, <1>2, <1>3
  <2>5. e = abs - near /\ near - checkpoint = re - c
    BY <1>2, <1>3, <1>4, <2>2, <2>3, <2>4
  <2>6. e < 2 * m /\ -(2 * m) < e
    BY <1>1, <1>2, <1>3, <1>6, <2>5
  <2>7. e = 0 \/ e = m \/ e = -m
    BY <1>1, <2>1, <2>3, <2>6, SmallMultiple
  <2> QED
    BY <1>1, <1>5, <1>6, <1>8, <2>5, <2>7
<1> QED
  BY <1>7, <1>8

(* Wrapping gives a number of the sequence space, and leaves the initial   *)
(* sequence number alone.                                                  *)
LEMMA WrapRange ==
    ASSUME NEW isn \in 0..(Modulus - 1), NEW abs \in Nat
    PROVE  /\ Wrap(abs, isn) \in 0..(Modulus - 1)
           /\ Wrap(0, isn) = isn
<1>1. PICK m \in Nat : m = Modulus /\ m > 0
  BY HalfOfModulus
<1>2. (isn + abs) % m \in 0..(m - 1)
  BY <1>1, Remainder
<1>3. (isn + 0) % m = isn
  BY <1>1
<1> QED
  BY <1>1, <1>2, <1>3 DEF Wrap

-----------------------------------------------------------------------------
(* segment_received.                                                       *)

(* What holds of a receiver between two calls, when isn is the initial     *)
(* sequence number of the peer: the reassembler is in order, and ackno()   *)
(* is computed from it.                                                    *)
ReceiverOK(r, isn) ==
    /\ r = [reassembler |-> r.reassembler, capacity |-> r.capacity,
            ack |-> r.ack, isn |-> r.isn, exp_ack |-> r.exp_ack,
            checkpoint |-> r.checkpoint, syn |-> r.syn, end |-> r.end]
    /\ Ready(r.reassembler) /\ Counted(r.reassembler)
    /\ r.capacity = r.reassembler.output.cap
    /\ r.checkpoint \in Nat /\ r.syn \in BOOLEAN /\ r.end \in BOOLEAN
    /\ r.syn => /\ r.isn = isn
                /\ r.exp_ack = ExpectedAck(r.reassembler, r.end)
                /\ r.ack = Wrap(r.exp_ack, isn)
    /\ ~r.syn => /\ r.isn = 0 /\ r.exp_ack = 0 /\ r.ack = 0 /\ r.checkpoint = 0
                 /\ ~r.end /\ Received(r.reassembler) = {}

(* The segment that starts at absolute sequence number abs, of a peer with *)
(* initial sequence number isn.                                            *)
SegmentAt(seg, isn, abs, len, syn, fin) ==
    /\ seg.seqno = Wrap(abs, isn) /\ seg.syn = syn /\ seg.fin = fin
    /\ seg.payload = Substring(IF syn THEN 0 ELSE abs - 1, len)
    /\ abs \in Nat /\ len \in Nat /\ syn \in BOOLEAN /\ fin \in BOOLEAN
    /\ syn => abs = 0
    /\ len > 0 => (syn \/ abs > 0) /\ abs + len <= Word

(* The receiver takes the segment in: its bytes are pushed at index.       *)
TakesIn(r, abs, index, len, fin, w) ==
    /\ index \in Nat
    /\ w.syn = TRUE /\ w.checkpoint = abs /\ w.end = (r.end \/ fin)
    /\ w.capacity = r.capacity
    /\ Pushed(r.reassembler, index, len, w.reassembler)
    /\ EndMarked(r.reassembler, index, len, w.end, w.reassembler)

(* segment_received drops a second SYN and what comes before the first     *)
(* one.  Of any other segment within half the sequence space around the    *)
(* checkpoint it finds the absolute sequence number and the place in the   *)
(* stream, whatever was received before.                                   *)
LEMMA SegmentReceivedCorrect ==
    ASSUME NEW r, NEW isn \in 0..(Modulus - 1), ReceiverOK(r, isn),
           NEW seg, NEW abs, NEW len, NEW syn, NEW fin,
           SegmentAt(seg, isn, abs, len, syn, fin),
           r.syn => abs < r.checkpoint + Half /\ r.checkpoint < abs + Half
    PROVE  LET w == SegmentReceived(r, seg)
           IN  \/ syn = r.syn /\ w = r
               \/ /\ syn # r.syn /\ ReceiverOK(w, isn)
                  /\ \E index : /\ TakesIn(r, abs, index, len, fin, w)
                                /\ len > 0 => index = IF syn THEN 0 ELSE abs - 1
<1> DEFINE sisn == IF seg.syn THEN seg.seqno ELSE r.isn
           chk == Unwrap(seg.seqno, sisn, r.checkpoint)
           end == r.end \/ seg.fin
           index == StreamIndex(seg, chk)
           re == PushSubstring(r.reassembler, seg.payload, index, end)
           exp == ExpectedAck(re, end)
           acc == [r EXCEPT !.reassembler = re, !.isn = sisn, !.checkpoint = chk,
                            !.end = end, !.syn = TRUE, !.exp_ack = exp,
                            !.ack = Wrap(exp, sisn)]
           w == SegmentReceived(r, seg)
<1>1. w = IF seg.syn /\ r.syn THEN r ELSE IF ~seg.syn /\ ~r.syn THEN r ELSE acc
  BY Zenon DEF SegmentReceived
<1>2. /\ abs \in Nat /\ len \in Nat /\ syn \in BOOLEAN /\ fin \in BOOLEAN
      /\ seg.syn = syn /\ seg.fin = fin /\ seg.seqno = Wrap(abs, isn)
      /\ r.syn \in BOOLEAN /\ r.end \in BOOLEAN
      /\ Ready(r.reassembler) /\ Counted(r.reassembler)
  BY DEF SegmentAt, ReceiverOK
<1>3. CASE syn = r.syn
  BY <1>1, <1>2, <1>3, Zenon
<1>4. CASE syn # r.syn
  <2>1. w = acc
    BY <1>1, <1>2, <1>4, Zenon
  <2>2. sisn = isn /\ chk = abs
    <3>1. CASE syn
      <4>1. abs = 0 /\ r.checkpoint = 0
        BY <1>2, <1>4, <3>1, Zenon DEF SegmentAt, ReceiverOK
      <4>2. sisn = isn
        BY <1>2, <3>1, <4>1, WrapRange
      <4>3. Unwrap(Wrap(0, isn), isn, 0) = 0
        BY UnwrapWrap, HalfOfModulus
      <4> QED
        BY <1>2, <4>1, <4>2, <4>3
    <3>2. CASE ~syn
      <4>1. sisn = isn /\ abs < r.checkpoint + Half /\ r.checkpoint < abs + Half
            /\ r.checkpoint \in Nat
        BY <1>2, <1>4, <3>2 DEF ReceiverOK
      <4>2. isn \in Int
        OBVIOUS
      <4>3. Unwrap(Wrap(abs, isn), isn, r.checkpoint) = abs
        <5> HIDE DEF sisn
        <5> QED
          BY <1>2, <4>1, <4>2, UnwrapWrap
      <4> QED
        BY <1>2, <4>1, <4>3
    <3> QED
      BY <1>2, <3>1, <3>2
  <2>3. /\ index \in Nat /\ seg.payload = Substring(index, len)
        /\ len > 0 => index = IF syn THEN 0 ELSE abs - 1
    <3>1. PICK m \in Nat : m = Word /\ m > 0
      BY WordAssumption
    <3>2. index = IF syn THEN 0 ELSE (abs - 1) % m
      BY <1>2, <2>2, <3>1 DEF StreamIndex
    <3>3. (abs - 1) % m \in Nat
      BY <1>2, <3>1, Remainder
    <3>4. len > 0 /\ ~syn => (abs - 1) % m = abs - 1
      <4>1. len > 0 /\ ~syn => abs - 1 \in 0..(m - 1)
        BY <1>2, <3>1 DEF SegmentAt
      <4>2. \A a \in 0..(m - 1) : a % m = a
        BY <3>1
      <4> QED
        BY <4>1, <4>2
    <3>5. index \in Nat /\ (len > 0 => index = IF syn THEN 0 ELSE abs - 1)
      BY <3>2, <3>3, <3>4
    <3>6. \A i \in Int : Substring(i, 0) = <<>>
      BY DEF Substring
    <3>7. seg.payload = Substring(IF syn THEN 0 ELSE abs - 1, len)
      BY DEF SegmentAt
    <3> HIDE DEF index
    <3> QED
      BY <1>2, <3>5, <3>6, <3>7
  <2> HIDE DEF index, chk, sisn, w
  <2>4. PICK e \in BOOLEAN : e = end /\ e = (r.end \/ fin)
    BY <1>2
  <2>5. /\ Pushed(r.reassembler, index, len, re)
        /\ EndMarked(r.reassembler, index, len, e, re)
    BY <1>2, <2>3, <2>4, PushSubstringCorrect, PushSubstringEnds
  <2> HIDE DEF re, exp, end
  <2>6. w = [reassembler |-> re, capacity |-> r.capacity, ack |-> Wrap(exp, sisn),
             isn |-> sisn, exp_ack |-> exp, checkpoint |-> chk, syn |-> TRUE,
             end |-> end]
    <3>1. PICK flag : flag = TRUE
      OBVIOUS
    <3>2. w = [reassembler |-> re, capacity |-> r.capacity, ack |-> Wrap(exp, sisn),
               isn |-> sisn, exp_ack |-> exp, checkpoint |-> chk, syn |-> flag,
               end |-> end]
      BY <2>1, <3>1, Zenon DEF ReceiverOK
    <3> QED
      BY <3>1, <3>2, Zenon
  <2>7. /\ w.reassembler = re /\ w.capacity = r.capacity /\ w.ack = Wrap(exp, sisn)
        /\ w.isn = sisn /\ w.exp_ack = exp /\ w.checkpoint = chk /\ w.syn = TRUE
        /\ w.end = end
        /\ w = [reassembler |-> w.reassembler, capacity |-> w.capacity,
                ack |-> w.ack, isn |-> w.isn, exp_ack |-> w.exp_ack,
                checkpoint |-> w.checkpoint, syn |-> w.syn, end |-> w.end]
    BY <2>6
  <2>8. TakesIn(r, abs, index, len, fin, w)
    BY <2>2, <2>3, <2>4, <2>5, <2>7, Zenon DEF TakesIn
  <2>9. /\ Ready(re) /\ Counted(re) /\ re.output.cap = r.reassembler.output.cap
    BY <1>2, <2>5 DEF Pushed
  <2>10. exp = ExpectedAck(re, end)
    BY DEF exp
  <2>11. r.capacity = r.reassembler.output.cap
    BY DEF ReceiverOK
  <2>12. ReceiverOK(w, isn)
    BY <1>2, <2>2, <2>4, <2>7, <2>9, <2>10, <2>11, Zenon DEF ReceiverOK
  <2> QED
    BY <1>4, <2>3, <2>8, <2>12 DEF w
<1> QED
  BY <1>3, <1>4

(* The constructor.                                                        *)
LEMMA NewReceiverOK ==
    ASSUME NEW capacity \in Nat, NEW isn
    PROVE  LET r == NewReceiver(capacity)
           IN  /\ ReceiverOK(r, isn) /\ r.capacity = capacity /\ r.syn = FALSE
               /\ r.reassembler = NewReassembler(capacity)
<1> DEFINE r == NewReceiver(capacity)
<1>1. PICK a : a = NewReassembler(capacity)
  OBVIOUS
<1>2. r = [reassembler |-> a, capacity |-> capacity, ack |-> 0, isn |-> 0,
           exp_ack |-> 0, checkpoint |-> 0, syn |-> FALSE, end |-> FALSE]
  BY <1>1 DEF NewReceiver
<1>3. /\ Ready(a) /\ Counted(a) /\ Received(a) = {} /\ a.output.cap = capacity
  BY <1>1, NewReassemblerReady, Zenon
<1> HIDE DEF r
<1>4. /\ r.reassembler = a /\ r.capacity = capacity /\ r.ack = 0 /\ r.isn = 0
      /\ r.exp_ack = 0 /\ r.checkpoint = 0 /\ r.syn = FALSE /\ r.end = FALSE
      /\ r = [reassembler |-> r.reassembler, capacity |-> r.capacity,
              ack |-> r.ack, isn |-> r.isn, exp_ack |-> r.exp_ack,
              checkpoint |-> r.checkpoint, syn |-> r.syn, end |-> r.end]
  BY <1>2
<1>5. ReceiverOK(r, isn)
  <2>1. r.checkpoint \in Nat
    BY <1>4
  <2>2. r.capacity = r.reassembler.output.cap
    BY <1>3, <1>4
  <2> QED
    BY <1>3, <1>4, <2>1, <2>2, Zenon DEF ReceiverOK
<1> QED
  BY <1>1, <1>4, <1>5 DEF r

(* Only the output of the reassembler has been read.                       *)
ReaderTook(r, n, w) ==
    /\ HasRead(r.reassembler, n, w.reassembler)
    /\ w.capacity = r.capacity /\ w.ack = r.ack /\ w.isn = r.isn
    /\ w.exp_ack = r.exp_ack /\ w.checkpoint = r.checkpoint
    /\ w.syn = r.syn /\ w.end = r.end
    /\ w.reassembler.output.total_written = r.reassembler.output.total_written

(* Reading from the stream leaves a receiver in order.                     *)
LEMMA ReceiverRead ==
    ASSUME NEW r, NEW isn, ReceiverOK(r, isn), NEW len \in Nat
    PROVE  LET w == [r EXCEPT !.reassembler = ReadOutput(@, len)]
           IN  ReceiverOK(w, isn) /\ \E n \in Nat : n <= len /\ ReaderTook(r, n, w)
<1> DEFINE w == [r EXCEPT !.reassembler = ReadOutput(@, len)]
<1>1. /\ Ready(r.reassembler) /\ Counted(r.reassembler)
      /\ r.capacity = r.reassembler.output.cap
      /\ r.syn \in BOOLEAN /\ r.end \in BOOLEAN /\ r.checkpoint \in Nat
  BY DEF ReceiverOK
<1>2. PICK a : a = ReadOutput(r.reassembler, len)
  OBVIOUS
<1>3. PICK n \in Nat : n <= len /\ HasRead(r.reassembler, n, a)
  BY <1>1, <1>2, ReadOutputCorrect
<1>4. w = [reassembler |-> a, capacity |-> r.capacity, ack |-> r.ack, isn |-> r.isn,
           exp_ack |-> r.exp_ack, checkpoint |-> r.checkpoint, syn |-> r.syn,
           end |-> r.end]
  BY <1>2 DEF ReceiverOK
<1> HIDE DEF w
<1>5. /\ w.reassembler = a /\ w.capacity = r.capacity /\ w.ack = r.ack
      /\ w.isn = r.isn /\ w.exp_ack = r.exp_ack /\ w.checkpoint = r.checkpoint
      /\ w.syn = r.syn /\ w.end = r.end
      /\ w = [reassembler |-> w.reassembler, capacity |-> w.capacity,
              ack |-> w.ack, isn |-> w.isn, exp_ack |-> w.exp_ack,
              checkpoint |-> w.checkpoint, syn |-> w.syn, end |-> w.end]
  BY <1>4
<1>6. /\ Ready(a) /\ Counted(a) /\ a.output.cap = r.reassembler.output.cap
      /\ a.unassembled_bytes = r.reassembler.unassembled_bytes
      /\ Received(a) = Received(r.reassembler)
  BY <1>1, <1>3 DEF HasRead, Counted
<1>7. a.output.total_written = r.reassembler.output.total_written
  BY <1>1, <1>6, SameNextMissing
<1>8. ExpectedAck(a, r.end) = ExpectedAck(r.reassembler, r.end)
  BY <1>6, <1>7, Zenon DEF ExpectedAck, Empty
<1>9. ReceiverOK(w, isn)
  BY <1>1, <1>5, <1>6, <1>8 DEF ReceiverOK
<1> QED
  BY <1>3, <1>5, <1>7, <1>9 DEF ReaderTook, w

-----------------------------------------------------------------------------
(* The end of the stream.                                                  *)

(* What holds of a receiver whose peer sends a stream of n bytes, when the *)
(* FIN was never seen but at its place: the stream handed on has ended     *)
(* exactly when the FIN has been seen and nothing is missing.              *)
Ending(r, n) ==
    LET a == r.reassembler
    IN  /\ n \in Nat
        /\ Received(a) \subseteq 0..(n - 1)
        /\ r.end <=> a.input_ended
        /\ a.output.input_ended <=> (r.end /\ a.unassembled_bytes = 0)
        /\ r.end => n = 0 \/ n - 1 \in Received(a)

(* A FIN comes with the last byte, inside the window, or after it; and it  *)
(* comes with every copy of the last byte, or with none.                   *)
FinInPlace(r, index, len, fin, n) ==
    /\ len > 0 => index + len <= n
    /\ fin => \/ len = 0 /\ r.reassembler.output.total_written = n
              \/ /\ len > 0 /\ index + len = n /\ n <= RightEdge(r.reassembler)
                 /\ n - 1 \in Received(r.reassembler) => r.end

(* What Ending says of the acknowledgment: it is the first missing byte's, *)
(* and counts the FIN exactly when the stream has ended.                   *)
LEMMA EndingMeaning ==
    ASSUME NEW r, NEW isn, ReceiverOK(r, isn), NEW n, Ending(r, n)
    PROVE  /\ r.reassembler.output.total_written \in 0..n
           /\ r.reassembler.output.input_ended =>
                  r.reassembler.output.total_written = n /\ r.end
           /\ r.end /\ r.reassembler.output.total_written = n =>
                  r.reassembler.output.input_ended
           /\ r.syn => r.exp_ack = r.reassembler.output.total_written + 1
                          + (IF r.reassembler.output.input_ended THEN 1 ELSE 0)
<1> DEFINE a == r.reassembler
           tw == a.output.total_written
<1>1. /\ Ready(a) /\ Counted(a) /\ n \in Nat /\ Received(a) \subseteq 0..(n - 1)
      /\ r.end \in BOOLEAN
  BY DEF ReceiverOK, Ending
<1>2. /\ tw \in Nat /\ Received(a) \subseteq Nat /\ tw \notin Received(a)
      /\ \A p \in Nat : p < tw => p \in Received(a)
      /\ a.unassembled_bytes = 0 <=> Received(a) = 0..(tw - 1)
  BY <1>1, NextMissing
<1> HIDE DEF a, tw
<1>3. tw \in 0..n
  <2>1. n \notin Received(a)
    BY <1>1
  <2> QED
    BY <1>1, <1>2, <2>1
<1>4. ASSUME r.end, a.unassembled_bytes = 0 PROVE tw = n
  <2>1. n = 0 \/ n - 1 \in Received(a)
    BY <1>4 DEF Ending, a
  <2> QED
    BY <1>1, <1>2, <1>3, <1>4, <2>1
<1>5. ASSUME tw = n PROVE a.unassembled_bytes = 0
  <2>1. Received(a) = 0..(tw - 1)
    <3>1. Received(a) \subseteq 0..(tw - 1)
      BY <1>1, <1>5
    <3>2. 0..(tw - 1) \subseteq Received(a)
      BY <1>2
    <3> QED
      BY <3>1, <3>2, Zenon
  <2> QED
    BY <1>2, <2>1
<1>6. a.output.input_ended <=> (r.end /\ a.unassembled_bytes = 0)
  BY DEF Ending, a
<1>7. ASSUME r.syn PROVE r.exp_ack = tw + 1 + (IF a.output.input_ended THEN 1 ELSE 0)
  <2>1. r.exp_ack = tw + 1 + (IF r.end /\ a.unassembled_bytes = 0 THEN 1 ELSE 0)
    BY <1>7, Zenon DEF ReceiverOK, ExpectedAck, Empty, a, tw
  <2>2. CASE r.end /\ a.unassembled_bytes = 0
    BY <1>6, <2>1, <2>2
  <2>3. CASE ~(r.end /\ a.unassembled_bytes = 0)
    BY <1>6, <2>1, <2>3
  <2> QED
    BY <2>2, <2>3
<1> QED
  BY <1>3, <1>4, <1>5, <1>6, <1>7 DEF a, tw

(* w goes on from r with a stream of n bytes.                              *)
Continues(r, n, w) ==
    /\ Ending(w, n)
    /\ Received(r.reassembler) \subseteq Received(w.reassembler)
    /\ r.reassembler.output.total_written <= w.reassembler.output.total_written
    /\ r.reassembler.output.input_ended => w.reassembler.output.input_ended

(* A segment taken in keeps Ending, and what has ended stays ended.        *)
LEMMA EndingKept ==
    ASSUME NEW r, NEW isn, ReceiverOK(r, isn), NEW n, Ending(r, n),
           NEW w, ReceiverOK(w, isn), NEW abs, NEW index, NEW len \in Nat,
           NEW fin \in BOOLEAN, TakesIn(r, abs, index, len, fin, w),
           FinInPlace(r, index, len, fin, n)
    PROVE  Continues(r, n, w)
<1> DEFINE a == r.reassembler
           b == w.reassembler
           tw == a.output.total_written
<1>1. /\ Ready(a) /\ Counted(a) /\ Ready(b) /\ Counted(b)
      /\ r.end \in BOOLEAN /\ w.end \in BOOLEAN
      /\ n \in Nat /\ Received(a) \subseteq 0..(n - 1) /\ index \in Nat
      /\ w.end = (r.end \/ fin)
      /\ Pushed(a, index, len, b) /\ EndMarked(a, index, len, w.end, b)
  BY DEF ReceiverOK, Ending, TakesIn
<1>2. /\ r.end <=> a.input_ended
      /\ a.output.input_ended <=> (r.end /\ a.unassembled_bytes = 0)
      /\ r.end => n = 0 \/ n - 1 \in Received(a)
  BY DEF Ending
<1>3. /\ len > 0 => index + len <= n
      /\ fin => \/ len = 0 /\ tw = n
                \/ /\ len > 0 /\ index + len = n /\ n <= RightEdge(a)
                   /\ n - 1 \in Received(a) => r.end
  BY DEF FinInPlace
<1>4. /\ \A p \in Nat : p \in Received(b) <=>
             p \in Received(a) \/ (index <= p /\ p < index + len /\ p < RightEdge(a))
  BY <1>1 DEF Pushed
<1>5. RightEdge(a) \in Nat /\ a.expected_index = tw
  BY <1>1, OutputRoom, Zenon DEF Ready, OutputInPlace
<1>6. /\ tw \in Nat /\ \A p \in Nat : p < tw => p \in Received(a)
      /\ Received(a) \subseteq Nat /\ Received(b) \subseteq Nat
  BY <1>1, NextMissing
<1>7. Received(a) \subseteq Received(b)
  BY <1>4, <1>6
<1>8. tw <= b.output.total_written
  BY <1>1, <1>7, SameNextMissing
<1>9. Received(b) \subseteq 0..(n - 1)
  BY <1>1, <1>3, <1>4, <1>6
<1>10. a.output.input_ended => b = a \/ b.unassembled_bytes = 0
  <2>1. a.output.input_ended => tw = n
    BY EndingMeaning
  <2>2. b.unassembled_bytes = 0 <=> Received(b) = 0..(b.output.total_written - 1)
    BY <1>1, NextMissing
  <2>3. b.output.total_written \in Nat /\ b.output.total_written \notin Received(b)
        /\ \A p \in Nat : p < b.output.total_written => p \in Received(b)
    BY <1>1, NextMissing
  <2>4. ASSUME tw = n PROVE Received(b) = 0..(b.output.total_written - 1)
    <3>1. b.output.total_written = n
      <4>1. n \notin Received(b)
        BY <1>1, <1>9
      <4> QED
        BY <1>1, <1>8, <2>3, <2>4, <4>1
    <3>2. 0..(n - 1) \subseteq Received(b)
      BY <2>3, <3>1
    <3> QED
      BY <1>9, <3>1, <3>2, Zenon
  <2> QED
    BY <2>1, <2>2, <2>4
<1>11. ASSUME fin PROVE n = 0 \/ n - 1 \in Received(b)
  BY <1>1, <1>3, <1>4, <1>5, <1>6, <1>7, <1>11
<1>12. w.end => n = 0 \/ n - 1 \in Received(b)
  BY <1>1, <1>2, <1>7, <1>11
<1>13. /\ w.end <=> b.input_ended
       /\ b.output.input_ended <=> (w.end /\ b.unassembled_bytes = 0)
       /\ a.output.input_ended => b.output.input_ended
  <2>1. CASE /\ b = a /\ len > 0 /\ a.expected_index < RightEdge(a)
             /\ RightEdge(a) <= index \/ index + len <= a.expected_index
    <3>1. fin => r.end
      <4> SUFFICES ASSUME fin PROVE r.end
        OBVIOUS
      <4>1. index + len = n /\ n <= RightEdge(a) /\ (n - 1 \in Received(a) => r.end)
        BY <1>3, <2>1
      <4>2. index + len <= tw
        BY <1>1, <1>5, <2>1, <4>1
      <4>3. n - 1 \in Received(a)
        BY <1>1, <1>6, <2>1, <4>1, <4>2
      <4> QED
        BY <4>1, <4>3
    <3>2. w.end <=> r.end
      BY <1>1, <3>1
    <3>3. b = a
      BY <2>1
    <3> QED
      BY <1>2, <3>2, <3>3
  <2>2. CASE /\ b.input_ended <=>
                    a.input_ended \/ (w.end /\ (\/ len = 0
                                                \/ a.expected_index = RightEdge(a)
                                                \/ index + len <= RightEdge(a)))
             /\ b.output.input_ended <=>
                    a.output.input_ended \/ (b.input_ended /\ b.unassembled_bytes = 0)
    <3>1. fin => len = 0 \/ index + len <= RightEdge(a)
      BY <1>3
    <3>2. w.end <=> b.input_ended
      BY <1>1, <1>2, <2>2, <3>1
    <3>3. a.output.input_ended => w.end /\ b.unassembled_bytes = 0
      <4>1. b = a => b.unassembled_bytes = a.unassembled_bytes
        OBVIOUS
      <4> QED
        BY <1>1, <1>2, <1>10, <4>1
    <3> QED
      BY <2>2, <3>2, <3>3
  <2> QED
    BY <1>1, <2>1, <2>2 DEF EndMarked
<1> QED
  BY <1>1, <1>7, <1>8, <1>9, <1>12, <1>13 DEF Ending, Continues

(* Reading keeps Ending.                                                   *)
LEMMA EndingRead ==
    ASSUME NEW r, NEW n, Ending(r, n), NEW w, NEW k, ReaderTook(r, k, w)
    PROVE  Ending(w, n)
BY DEF Ending, ReaderTook, HasRead
=============================================================================
