------------------------------- MODULE OrderLemmas -------------------------------
(***************************************************************************)
(* Facts about numbers, finite sets and orders on them that the proofs of  *)
(* several components rest on: smallest and largest elements, images,      *)
(* unions, and the ranks of the elements of a finite set. An induction is  *)
(* carried out as the search of a smallest counterexample.                 *)
(***************************************************************************)
EXTENDS FiniteSetTheorems, TLAPS

\* Every nonempty set of natural numbers has a smallest element.
LEMMA Smallest ==
    ASSUME NEW S \in SUBSET Nat, S # {}
    PROVE  \E m \in S : \A n \in S : m <= n
<1>1. PICK m \in S : \A n \in S : ~(<<n, m>> \in OpToRel(<, Nat))
  BY NatLessThanWellFounded, WFMin
<1>2. \A n \in S : ~(n < m)
  BY <1>1 DEF OpToRel
<1> QED BY <1>2

\* A bounded one has a largest.
LEMMA Largest ==
    ASSUME NEW S \in SUBSET Nat, S # {}, NEW b \in Nat, \A n \in S : n <= b
    PROVE  \E m \in S : \A n \in S : n <= m
<1> DEFINE T == {k \in Nat : b - k \in S}
<1>1. PICK n \in S : TRUE
  OBVIOUS
<1>2. b - n \in T
  <2>1. (b - n) \in Nat /\ b - (b - n) = n
    OBVIOUS
  <2> QED BY <2>1
<1>3. PICK k \in T : \A j \in T : k <= j
  <2>1. T \in SUBSET Nat /\ T # {}
    BY <1>2
  <2> HIDE DEF T
  <2> QED BY <2>1, Smallest
<1>4. \A m \in S : m <= b - k
  <2> TAKE m \in S
  <2>1. (b - m) \in Nat /\ b - (b - m) = m
    OBVIOUS
  <2>2. b - m \in T
    BY <2>1
  <2>3. k <= b - m
    BY <1>3, <2>2
  <2>4. k \in Nat /\ m \in Nat
    OBVIOUS
  <2> QED BY <2>3, <2>4
<1> QED BY <1>3, <1>4

\* Sets written out are finite; with FS_Union, those of more elements too.
LEMMA TripleFinite == \A a, b, c : IsFiniteSet({a, b, c})
<1> SUFFICES ASSUME NEW a, NEW b, NEW c PROVE IsFiniteSet({a, b, c})
  OBVIOUS
<1>1. IsFiniteSet({}) /\ IsFiniteSet({} \union {a})
  BY FS_EmptySet, FS_AddElement
<1>2. IsFiniteSet(({} \union {a}) \union {b})
  BY <1>1, FS_AddElement
<1>3. IsFiniteSet((({} \union {a}) \union {b}) \union {c})
  BY <1>2, FS_AddElement
<1>4. {a, b, c} = (({} \union {a}) \union {b}) \union {c}
  OBVIOUS
<1> QED BY <1>3, <1>4

\* The image of a finite set is finite.
LEMMA FiniteImage ==
    ASSUME NEW S, IsFiniteSet(S), NEW f
    PROVE  IsFiniteSet({f[x] : x \in S})
<1> DEFINE T == {f[x] : x \in S}
           g == [x \in S |-> f[x]]
<1>1. g \in [S -> T] /\ \A t \in T : \E x \in S : g[x] = t
  OBVIOUS
<1> HIDE DEF g, T
<1>2. g \in Surjection(S, T)
  BY <1>1 DEF Surjection
<1> QED BY <1>2, FS_Surjection DEF T

-----------------------------------------------------------------------------
\* A strict total order on a finite set, given as a set of pairs.

StrictOrder(before, S) ==
    /\ \A x \in S : <<x, x>> \notin before
    /\ \A x, y, z \in S : <<x, y>> \in before /\ <<y, z>> \in before => <<x, z>> \in before

Total(before, S) ==
    \A x, y \in S : x = y \/ <<x, y>> \in before \/ <<y, x>> \in before

\* How many elements come before x.
Below(before, S, x) == {y \in S : <<y, x>> \in before}

LEMMA BelowGrows ==
    ASSUME NEW S, IsFiniteSet(S), NEW before, StrictOrder(before, S),
           NEW x \in S, NEW y \in S, <<x, y>> \in before
    PROVE  /\ Cardinality(Below(before, S, x)) \in Nat
           /\ Cardinality(Below(before, S, y)) \in Nat
           /\ Cardinality(Below(before, S, x)) < Cardinality(Below(before, S, y))
<1> DEFINE A == Below(before, S, x)
           B == Below(before, S, y)
<1>1. A \subseteq S /\ B \subseteq S
  BY DEF Below
<1>2. IsFiniteSet(A) /\ IsFiniteSet(B)
  BY <1>1, FS_Subset
<1>3. A \subseteq B /\ x \in B /\ x \notin A
  BY DEF Below, StrictOrder
<1> HIDE DEF A, B
<1>4. Cardinality(A) \in Nat /\ Cardinality(B) \in Nat
  BY <1>2, FS_CardinalityType
<1>5. Cardinality(A) <= Cardinality(B) /\ Cardinality(A) # Cardinality(B)
  BY <1>2, <1>3, FS_Subset
<1> QED BY <1>4, <1>5 DEF A, B

\* A nonempty finite set has a first element.
LEMMA First ==
    ASSUME NEW S, IsFiniteSet(S), S # {}, NEW before,
           StrictOrder(before, S), Total(before, S)
    PROVE  \E x \in S : \A y \in S \ {x} : <<x, y>> \in before
<1> DEFINE Rank(x) == Cardinality(Below(before, S, x))
           R == {Rank(x) : x \in S}
<1>1. \A x \in S : Rank(x) \in Nat
  <2> TAKE x \in S
  <2>1. IsFiniteSet(Below(before, S, x))
    BY FS_Subset DEF Below
  <2> QED BY <2>1, FS_CardinalityType
<1>2. R \in SUBSET Nat /\ R # {}
  BY <1>1
<1>3. PICK r \in R : \A s \in R : r <= s
  <2> HIDE DEF R
  <2> QED BY <1>2, Smallest
<1>4. PICK x \in S : r = Rank(x)
  BY <1>3
<1>5. ASSUME NEW y \in S \ {x} PROVE <<x, y>> \in before
  <2>1. CASE <<y, x>> \in before
    <3>1. Rank(y) < Rank(x)
      BY <2>1, BelowGrows
    <3>2. Rank(x) <= Rank(y)
      BY <1>3, <1>4
    <3> QED BY <3>1, <3>2, <1>1
  <2> QED BY <2>1 DEF Total
<1> QED BY <1>5

\* The elements of a finite set can be counted in order: each number of an
\* element before its size is that of one element.
LEMMA Ranked ==
    ASSUME NEW S, IsFiniteSet(S), NEW before, StrictOrder(before, S), Total(before, S)
    PROVE  /\ Cardinality(S) \in Nat
           /\ \A x \in S : Cardinality(Below(before, S, x)) \in 0 .. Cardinality(S) - 1
           /\ \A k \in 0 .. Cardinality(S) - 1 :
                 \E x \in S : Cardinality(Below(before, S, x)) = k
           /\ \A x, y \in S :
                 <<x, y>> \in before
                    <=> Cardinality(Below(before, S, x)) < Cardinality(Below(before, S, y))
<1> DEFINE Rank(x) == Cardinality(Below(before, S, x))
           N == Cardinality(S)
           rank == [x \in S |-> Rank(x)]
<1>1. N \in Nat
  BY FS_CardinalityType
<1>2. ASSUME NEW x \in S PROVE Rank(x) \in 0 .. N - 1
  <2> DEFINE B == Below(before, S, x)
  <2>1. B \in SUBSET S /\ x \notin B
    BY DEF Below, StrictOrder
  <2> HIDE DEF B
  <2>2. IsFiniteSet(B) /\ Cardinality(B) <= N /\ Cardinality(B) # N
    BY <2>1, FS_Subset
  <2>3. Cardinality(B) \in Nat
    BY <2>2, FS_CardinalityType
  <2> QED BY <2>2, <2>3, <1>1 DEF B
<1>3. ASSUME NEW x \in S, NEW y \in S
      PROVE  <<x, y>> \in before <=> Rank(x) < Rank(y)
  <2>1. <<x, y>> \in before => Rank(x) < Rank(y)
    BY BelowGrows
  <2>2. <<y, x>> \in before => Rank(y) < Rank(x)
    BY BelowGrows
  <2>3. Rank(x) \in Int /\ Rank(y) \in Int
    BY <1>2
  <2> HIDE DEF Rank
  <2> QED BY <2>1, <2>2, <2>3 DEF Total
<1>4. rank \in [S -> 0 .. N - 1]
  BY <1>2
<1>5. \A x, y \in S : rank[x] = rank[y] => x = y
  <2> TAKE x, y \in S
  <2>1. Rank(x) \in Int /\ Rank(y) \in Int
    BY <1>2
  <2>2. <<x, y>> \in before => Rank(x) < Rank(y)
    BY <1>3
  <2>3. <<y, x>> \in before => Rank(y) < Rank(x)
    BY <1>3
  <2> HIDE DEF Rank
  <2> QED BY <2>1, <2>2, <2>3 DEF Total
<1>6. rank \in Injection(S, 0 .. N - 1)
  <2> HIDE DEF rank
  <2> QED BY <1>4, <1>5 DEF Injection, IsInjective
<1>7. IsFiniteSet(0 .. N - 1) /\ Cardinality(0 .. N - 1) = N
  <2>1. 0 \in Int /\ N - 1 \in Int /\ (0 > N - 1 => N = 0) /\ N - 1 - 0 + 1 = N
    BY <1>1
  <2> QED BY <2>1, FS_Interval
<1>8. rank \in Surjection(S, 0 .. N - 1)
  BY <1>6, <1>7, FS_Injection
<1>9. \A k \in 0 .. N - 1 : \E x \in S : rank[x] = k
  <2> HIDE DEF rank
  <2> QED BY <1>8 DEF Surjection
<1> QED BY <1>1, <1>2, <1>3, <1>9

=============================================================================
