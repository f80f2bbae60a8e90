--------------------------- MODULE CountingProofs ---------------------------
(***************************************************************************)
(* Lemmas about counting: what one element more or less, an append, a tail *)
(* and a concatenation do to a count.                                      *)
(***************************************************************************)
EXTENDS Counting, SequenceTheorems, FiniteSetTheorems, TLAPS

\* 1 or 0: what x adds to a count of what is in S.
In(x, S) == IF x \in S THEN 1 ELSE 0

\* A set that changes in one element.
LEMMA OneChanges ==
  ASSUME NEW S, NEW T, NEW x, IsFiniteSet(S), S \ {x} = T \ {x}
  PROVE  /\ IsFiniteSet(T) /\ Cardinality(S) \in Nat /\ Cardinality(T) \in Nat
         /\ Cardinality(T) = Cardinality(S) + In(x, T) - In(x, S)
<1>. DEFINE R == S \ {x}
<1>1. /\ IsFiniteSet(R)
      /\ Cardinality(R) = IF x \in S THEN Cardinality(S) - 1 ELSE Cardinality(S)
  BY FS_RemoveElement
<1>2. x \notin R /\ (x \in T => T = R \cup {x}) /\ (x \notin T => T = R)
  OBVIOUS
<1>. HIDE DEF R
<1>3. /\ IsFiniteSet(R \cup {x})
      /\ Cardinality(R \cup {x}) = Cardinality(R) + 1
  BY <1>1, <1>2, FS_AddElement
<1>4. Cardinality(S) \in Nat /\ Cardinality(R) \in Nat
  BY <1>1, FS_CardinalityType
<1>5. Cardinality(R) = Cardinality(S) - In(x, S)
  BY <1>1, <1>4 DEF In
<1>6. IsFiniteSet(T) /\ Cardinality(T) = Cardinality(R) + In(x, T)
  BY <1>1, <1>2, <1>3, <1>4 DEF In
<1>7. In(x, S) \in Int /\ In(x, T) \in Int
  BY DEF In
<1>. QED
  BY <1>4, <1>5, <1>6, <1>7, FS_CardinalityType

LEMMA CardinalityIsNat ==
  ASSUME NEW S, IsFiniteSet(S)
  PROVE  Cardinality(S) \in Nat
BY FS_CardinalityType

LEMMA NoneCounted == IsFiniteSet({}) /\ Cardinality({}) = 0
BY FS_EmptySet

\* The indices up to n that are in S.
LEMMA FewIndices ==
  ASSUME NEW n \in Nat, NEW S
  PROVE  /\ IsFiniteSet({i \in 1 .. n : i \in S})
         /\ Cardinality({i \in 1 .. n : i \in S}) \in Nat
         /\ Cardinality({i \in 1 .. n + 1 : i \in S}) =
              Cardinality({i \in 1 .. n : i \in S}) + In(n + 1, S)
<1>. DEFINE A == {i \in 1 .. n : i \in S}
            B == {i \in 1 .. n + 1 : i \in S}
<1>1. IsFiniteSet(A)
  <2>1. IsFiniteSet(1 .. n)
    BY FS_Interval
  <2>. QED
    BY <2>1, FS_Subset
<1>2. A \ {n + 1} = B \ {n + 1} /\ n + 1 \notin A /\ (n + 1 \in B <=> n + 1 \in S)
  OBVIOUS
<1>. HIDE DEF A, B
<1>3. /\ Cardinality(A) \in Nat
      /\ Cardinality(B) = Cardinality(A) + In(n + 1, B) - In(n + 1, A)
  BY <1>1, <1>2, OneChanges
<1>4. In(n + 1, A) = 0 /\ In(n + 1, B) = In(n + 1, S) /\ In(n + 1, S) \in Nat
  BY <1>2 DEF In
<1>. QED
  BY <1>1, <1>3, <1>4 DEF A, B

\* The entries of a queue that are in S.
LEMMA CountType ==
  ASSUME NEW X, NEW q \in Seq(X), NEW S
  PROVE  /\ IsFiniteSet({n \in DOMAIN q : q[n] \in S})
         /\ Count(q, S) \in Nat
<1>1. Len(q) \in Nat /\ DOMAIN q = 1 .. Len(q)
  OBVIOUS
<1>2. IsFiniteSet(1 .. Len(q))
  BY <1>1, FS_Interval
<1>3. {n \in DOMAIN q : q[n] \in S} \in SUBSET (1 .. Len(q))
  BY <1>1
<1>4. IsFiniteSet({n \in DOMAIN q : q[n] \in S})
  BY <1>2, <1>3, FS_Subset
<1>. QED
  BY <1>4, FS_CardinalityType DEF Count

LEMMA CountConcat ==
  ASSUME NEW X, NEW q \in Seq(X), NEW r \in Seq(X), NEW S
  PROVE  Count(q \o r, S) = Count(q, S) + Count(r, S)
<1>. DEFINE A == {n \in DOMAIN q : q[n] \in S}
            B == {n \in DOMAIN r : r[n] \in S}
            C == {n \in DOMAIN (q \o r) : (q \o r)[n] \in S}
            D == {n + Len(q) : n \in B}
            f == [n \in B |-> n + Len(q)]
<1>1. /\ Len(q) \in Nat /\ DOMAIN q = 1 .. Len(q)
      /\ Len(r) \in Nat /\ DOMAIN r = 1 .. Len(r)
  OBVIOUS
<1>2. /\ DOMAIN (q \o r) = 1 .. Len(q) + Len(r)
      /\ \A i \in 1 .. Len(q) + Len(r) :
           (q \o r)[i] = IF i <= Len(q) THEN q[i] ELSE r[i - Len(q)]
  BY ConcatProperties
<1>3. IsFiniteSet(A) /\ IsFiniteSet(B)
  BY CountType
<1>4. f \in Bijection(B, D)
  <2>1. \A m, n \in B : f[m] = f[n] => m = n
    BY <1>1
  <2>2. f \in [B -> D] /\ \A d \in D : \E n \in B : f[n] = d
    OBVIOUS
  <2>. QED
    BY <2>1, <2>2 DEF Bijection, Injection, IsInjective, Surjection
<1>5. IsFiniteSet(D) /\ Cardinality(D) = Cardinality(B)
  <2>. HIDE DEF B, D, f
  <2>. QED
    BY <1>3, <1>4, FS_Bijection DEF ExistsBijection
<1>6. A \cap D = {}
  BY <1>1
<1>7. C = A \cup D
  <2>1. ASSUME NEW n \in C PROVE n \in A \cup D
    <3>1. CASE n <= Len(q)
      BY <1>1, <1>2, <2>1, <3>1
    <3>2. CASE ~(n <= Len(q))
      <4>1. n - Len(q) \in B /\ n = (n - Len(q)) + Len(q)
        BY <1>1, <1>2, <2>1, <3>2
      <4>. QED
        BY <4>1
    <3>. QED
      BY <3>1, <3>2
  <2>2. A \subseteq C
    BY <1>1, <1>2
  <2>3. ASSUME NEW n \in B PROVE n + Len(q) \in C
    <3>1. /\ n \in 1 .. Len(r) /\ r[n] \in S
          /\ n + Len(q) \in 1 .. Len(q) + Len(r)
          /\ ~(n + Len(q) <= Len(q)) /\ (n + Len(q)) - Len(q) = n
      BY <1>1, <2>3
    <3>. QED
      BY <1>2, <3>1
  <2>. QED
    BY <2>1, <2>2, <2>3
<1>. HIDE DEF A, B, C, D
<1>8. Cardinality(A \cup D) = Cardinality(A) + Cardinality(D) - Cardinality({})
  BY <1>3, <1>5, <1>6, FS_Union
<1>9. Cardinality(A) \in Nat /\ Cardinality(D) \in Nat /\ Cardinality({}) = 0
  BY <1>3, <1>5, FS_CardinalityType, FS_EmptySet
<1>10. Cardinality(C) = Cardinality(A) + Cardinality(B)
  BY <1>5, <1>7, <1>8, <1>9
<1>. QED
  BY <1>10 DEF Count, A, B, C

LEMMA CountFew ==
  ASSUME NEW S
  PROVE  /\ Count(<<>>, S) = 0
         /\ \A x : Count(<<x>>, S) = In(x, S)
<1>1. Count(<<>>, S) = 0
  <2>1. {n \in DOMAIN <<>> : <<>>[n] \in S} = {}
    OBVIOUS
  <2>. QED
    BY <2>1, FS_EmptySet DEF Count
<1>2. ASSUME NEW x PROVE Count(<<x>>, S) = In(x, S)
  <2>1. {n \in DOMAIN <<x>> : <<x>>[n] \in S} = IF x \in S THEN {1} ELSE {}
    OBVIOUS
  <2>. QED
    BY <2>1, FS_EmptySet, FS_Singleton DEF Count, In
<1>. QED
  BY <1>1, <1>2

LEMMA CountAppend ==
  ASSUME NEW X, NEW q \in Seq(X), NEW x \in X, NEW S
  PROVE  Count(Append(q, x), S) = Count(q, S) + In(x, S)
<1>1. <<x>> \in Seq(X) /\ Append(q, x) = q \o <<x>>
  OBVIOUS
<1>2. Count(q \o <<x>>, S) = Count(q, S) + Count(<<x>>, S)
  BY <1>1, CountConcat
<1>3. Count(<<x>>, S) = In(x, S)
  BY CountFew
<1>. QED
  BY <1>1, <1>2, <1>3

LEMMA CountTail ==
  ASSUME NEW X, NEW q \in Seq(X), q # <<>>, NEW S
  PROVE  /\ Tail(q) \in Seq(X) /\ Head(q) \in X
         /\ Count(Tail(q), S) = Count(q, S) - In(Head(q), S)
         /\ Count(Tail(q), S) \in Nat
<1>1. /\ Tail(q) \in Seq(X) /\ Head(q) \in X
      /\ <<Head(q)>> \in Seq(X) /\ q = <<Head(q)>> \o Tail(q)
  BY HeadTailProperties, ConcatProperties
<1>2. Count(q, S) = Count(<<Head(q)>>, S) + Count(Tail(q), S)
  BY <1>1, CountConcat
<1>3. Count(Tail(q), S) \in Nat /\ Count(<<Head(q)>>, S) = In(Head(q), S)
  BY <1>1, CountType, CountFew
<1>. QED
  BY <1>1, <1>2, <1>3 DEF In
=============================================================================
