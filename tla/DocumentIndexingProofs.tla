------------------------- MODULE DocumentIndexingProofs -------------------------
(***************************************************************************)
(* Every property of the DocumentIndexing run, for every file and every    *)
(* configured window. The proof goes from the text up: what splitting and  *)
(* joining make of a text; that normalizing a normal text, or stripping it,*)
(* changes nothing, so that the offsets of a chunk are offsets of the page *)
(* that is stored; where a window ends and where the next one begins; what *)
(* the extraction returns; and then the invariant of the loop that cuts the*)
(* pages.                                                                  *)
(***************************************************************************)
EXTENDS DocumentIndexing, OrderLemmas, SequenceTheorems, FiniteSetTheorems, TLAPS

\* A function on an initial segment is the sequence of its values.
LEMMA TupleIs ==
    ASSUME NEW S, NEW n \in Nat, NEW s \in [1 .. n -> S]
    PROVE  Tuple(s) = s /\ s \in Seq(S) /\ Len(s) = n
<1>1. s \in Seq(S)
  BY IsASeq
<1>2. Len(s) = n
  BY <1>1, LenProperties
<1> QED BY <1>1, <1>2 DEF Tuple

\* Ascending counts a finite set of numbers from the smallest to the largest.
LEMMA AscendingCounts ==
    ASSUME NEW S \in SUBSET Int, IsFiniteSet(S)
    PROVE  /\ Ascending(S) \in Seq(S) /\ Len(Ascending(S)) = Cardinality(S)
           /\ \A x \in S : \E k \in DOMAIN Ascending(S) : Ascending(S)[k] = x
           /\ \A j, k \in DOMAIN Ascending(S) :
                 j < k <=> Ascending(S)[j] < Ascending(S)[k]
<1> DEFINE before == {z \in S \X S : z[1] < z[2]}
           n == Cardinality(S)
           Rank(x) == Cardinality({y \in S : y < x})
           s == [k \in 1 .. n |-> CHOOSE x \in S : Rank(x) = k - 1]
<1>1. StrictOrder(before, S) /\ Total(before, S)
  BY DEF StrictOrder, Total
<1>2. \A x, y \in S : <<x, y>> \in before <=> x < y
  OBVIOUS
<1>3. \A x \in S : Below(before, S, x) = {y \in S : y < x}
  BY DEF Below
<1>4. /\ n \in Nat
      /\ \A x \in S : Rank(x) \in 0 .. n - 1
      /\ \A k \in 0 .. n - 1 : \E x \in S : Rank(x) = k
      /\ \A x, y \in S : x < y <=> Rank(x) < Rank(y)
  <2>1. \A x \in S : Cardinality(Below(before, S, x)) = Rank(x)
    BY <1>3
  <2> HIDE DEF before, Rank
  <2>2. /\ Cardinality(S) \in Nat
        /\ \A x \in S : Cardinality(Below(before, S, x)) \in 0 .. Cardinality(S) - 1
        /\ \A k \in 0 .. Cardinality(S) - 1 :
              \E x \in S : Cardinality(Below(before, S, x)) = k
        /\ \A x, y \in S :
              <<x, y>> \in before
                 <=> Cardinality(Below(before, S, x)) < Cardinality(Below(before, S, y))
    BY <1>1, Ranked
  <2>3. \A x \in S : Rank(x) \in 0 .. n - 1
    BY <2>1, <2>2
  <2>4. \A k \in 0 .. n - 1 : \E x \in S : Rank(x) = k
    BY <2>1, <2>2
  <2>5. \A x, y \in S : x < y <=> Rank(x) < Rank(y)
    <3> SUFFICES ASSUME NEW x \in S, NEW y \in S PROVE x < y <=> Rank(x) < Rank(y)
      OBVIOUS
    <3>1. Cardinality(Below(before, S, x)) = Rank(x) /\ Cardinality(Below(before, S, y)) = Rank(y)
      BY <2>1
    <3>2. <<x, y>> \in before <=> x < y
      BY <1>2
    <3>3. <<x, y>> \in before
             <=> Cardinality(Below(before, S, x)) < Cardinality(Below(before, S, y))
      BY <2>2
    <3> QED BY <3>1, <3>2, <3>3
  <2> QED BY <2>2, <2>3, <2>4, <2>5
<1> HIDE DEF n
<1>5. ASSUME NEW k \in 1 .. n PROVE s[k] \in S /\ Rank(s[k]) = k - 1
  <2> HIDE DEF Rank
  <2>1. \E x \in S : Rank(x) = k - 1
    BY <1>4
  <2>2. s[k] = CHOOSE x \in S : Rank(x) = k - 1
    OBVIOUS
  <2> HIDE DEF s
  <2> QED BY <2>1, <2>2
<1>6. s \in [1 .. n -> S]
  <2> DEFINE g(k) == CHOOSE x \in S : Rank(x) = k - 1
  <2>1. s = [k \in 1 .. n |-> g(k)]
    OBVIOUS
  <2>2. \A k \in 1 .. n : s[k] = g(k)
    OBVIOUS
  <2> HIDE DEF g, s
  <2>3. \A k \in 1 .. n : g(k) \in S
    BY <1>5, <2>2
  <2> QED BY <2>1, <2>3
<1>7. Ascending(S) = s /\ s \in Seq(S) /\ Len(s) = n
  <2>1. Ascending(S) = Tuple(s)
    BY Zenon DEF Ascending, n
  <2> HIDE DEF s
  <2> QED BY <1>4, <1>6, <2>1, TupleIs
<1>8. DOMAIN s = 1 .. n
  OBVIOUS
<1>9. ASSUME NEW x \in S PROVE \E k \in 1 .. n : s[k] = x
  <2> HIDE DEF Rank, s
  <2>1. Rank(x) + 1 \in 1 .. n /\ n \in Nat
    BY <1>4
  <2> DEFINE k == Rank(x) + 1
  <2>2. s[k] \in S /\ Rank(s[k]) = k - 1 /\ Rank(x) \in Int
    BY <1>5, <2>1, <1>4
  <2>3. Rank(s[k]) = Rank(x)
    BY <2>2
  <2>4. ~(s[k] < x) /\ ~(x < s[k])
    <3>1. s[k] < x <=> Rank(s[k]) < Rank(x)
      BY <1>4, <2>2
    <3>2. x < s[k] <=> Rank(x) < Rank(s[k])
      BY <1>4, <2>2
    <3> HIDE DEF k
    <3> QED BY <2>2, <2>3, <3>1, <3>2
  <2>5. s[k] = x
    <3> HIDE DEF k
    <3>1. s[k] \in Int /\ x \in Int
      BY <2>2
    <3> QED BY <2>4, <3>1
  <2> QED BY <2>1, <2>5
<1>10. ASSUME NEW j \in 1 .. n, NEW k \in 1 .. n PROVE j < k <=> s[j] < s[k]
  <2> HIDE DEF Rank, s
  <2>1. s[j] \in S /\ s[k] \in S /\ Rank(s[j]) = j - 1 /\ Rank(s[k]) = k - 1
    BY <1>5
  <2>2. s[j] < s[k] <=> Rank(s[j]) < Rank(s[k])
    BY <1>4, <2>1
  <2> QED BY <2>1, <2>2
<1> HIDE DEF s
<1> QED BY <1>7, <1>8, <1>9, <1>10 DEF n

-----------------------------------------------------------------------------
\* Induction, with a set for the property.
LEMMA Induction ==
    ASSUME NEW P, 0 \in P, \A k \in Nat : k \in P => k + 1 \in P
    PROVE  \A k \in Nat : k \in P
<1> DEFINE C == {k \in Nat : k \notin P}
<1> SUFFICES ASSUME C # {} PROVE FALSE
  OBVIOUS
<1>1. PICK m \in C : \A n \in C : m <= n
  <2>1. C \in SUBSET Nat
    OBVIOUS
  <2> HIDE DEF C
  <2> QED BY <2>1, Smallest
<1>2. m # 0 /\ m - 1 \in Nat
  BY <1>1
<1>3. m - 1 \in P
  BY <1>1, <1>2
<1> QED BY <1>1, <1>2, <1>3

\* Picked takes the elements at the given positions.
LEMMA PickedAre ==
    ASSUME NEW T, NEW s \in Seq(T), NEW P \in SUBSET DOMAIN s
    PROVE  /\ IsFiniteSet(P) /\ P \in SUBSET Int
           /\ Ascending(P) \in Seq(P) /\ Len(Ascending(P)) \in Nat
           /\ Picked(s, P) \in Seq(T) /\ Len(Picked(s, P)) = Len(Ascending(P))
           /\ \A k \in 1 .. Len(Ascending(P)) :
                 Ascending(P)[k] \in P /\ Picked(s, P)[k] = s[Ascending(P)[k]]
<1> DEFINE place == Ascending(P)
           picked == [k \in DOMAIN place |-> s[place[k]]]
<1>1. DOMAIN s = 1 .. Len(s) /\ Len(s) \in Nat
  BY LenProperties
<1>2. IsFiniteSet(P) /\ P \in SUBSET Int
  <2>1. IsFiniteSet(1 .. Len(s)) /\ P \in SUBSET (1 .. Len(s))
    BY <1>1, FS_Interval
  <2> QED BY <1>1, <2>1, FS_Subset
<1>3. place \in Seq(P)
  BY <1>2, AscendingCounts
<1> HIDE DEF place
<1>4. DOMAIN place = 1 .. Len(place) /\ Len(place) \in Nat
  BY <1>3, LenProperties
<1>5. \A k \in 1 .. Len(place) : place[k] \in P
  BY <1>3, ElementOfSeq
<1>6. \A k \in 1 .. Len(place) : s[place[k]] \in T
  BY <1>1, <1>5, ElementOfSeq
<1>7. picked \in [1 .. Len(place) -> T]
  BY <1>4, <1>6
<1>8. \A k \in 1 .. Len(place) : picked[k] = s[place[k]]
  BY <1>4
<1>9. Picked(s, P) = Tuple(picked)
  BY Zenon DEF Picked, place
<1> HIDE DEF picked
<1>10. Picked(s, P) = picked /\ picked \in Seq(T) /\ Len(picked) = Len(place)
  BY <1>4, <1>7, <1>9, TupleIs
<1> QED BY <1>2, <1>3, <1>4, <1>5, <1>8, <1>10 DEF place

\* And all of them when there is nothing to leave out.
LEMMA PickedAll ==
    ASSUME NEW T, NEW s \in Seq(T)
    PROVE  Picked(s, DOMAIN s) = s
<1> DEFINE P == DOMAIN s
           place == Ascending(P)
<1>1. P = 1 .. Len(s) /\ Len(s) \in Nat
  BY LenProperties
<1>2. /\ IsFiniteSet(P) /\ P \in SUBSET Int
      /\ place \in Seq(P) /\ Len(place) \in Nat
      /\ Picked(s, P) \in Seq(T) /\ Len(Picked(s, P)) = Len(place)
      /\ \A k \in 1 .. Len(place) : place[k] \in P /\ Picked(s, P)[k] = s[place[k]]
  BY PickedAre
<1>3. Len(place) = Cardinality(P) /\ \A j, k \in DOMAIN place : j < k <=> place[j] < place[k]
  BY <1>2, AscendingCounts
<1>4. Len(place) = Len(s)
  <2> DEFINE L == Len(s)
  <2>0. L \in Int /\ L >= 0
    BY <1>1
  <2> HIDE DEF L, P, place
  <2>1. Cardinality(1 .. L) = L
    <3>1. Cardinality(1 .. L) = IF 1 > L THEN 0 ELSE L - 1 + 1
      BY <2>0, FS_Interval
    <3> QED BY <2>0, <3>1
  <2>2. Len(place) = Cardinality(P)
    BY <1>3
  <2> QED BY <1>1, <2>1, <2>2 DEF L
<1>5. DOMAIN place = 1 .. Len(s)
  BY <1>2, <1>4, LenProperties
<1> HIDE DEF place, P
<1> DEFINE L == Len(s)
<1>6. \A k \in 1 .. L : place[k] \in 1 .. L
  BY <1>1, <1>2, <1>4
<1>7. \A j, k \in 1 .. L : j < k => place[j] < place[k]
  BY <1>3, <1>5
<1> HIDE DEF L
<1>l. L \in Nat
  BY <1>1 DEF L
<1>8. \A k \in Nat : k \in {i \in Nat : i \in 1 .. L => place[i] >= i}
  <2> DEFINE Q == {i \in Nat : i \in 1 .. L => place[i] >= i}
  <2>1. 0 \in Q
    OBVIOUS
  <2>2. \A k \in Nat : k \in Q => k + 1 \in Q
    <3> SUFFICES ASSUME NEW k \in Nat, k \in Q, k + 1 \in 1 .. L PROVE place[k + 1] >= k + 1
      OBVIOUS
    <3>1. CASE k = 0
      BY <1>6, <3>1
    <3>2. CASE k # 0
      <4>1. k \in 1 .. L /\ k < k + 1
        BY <3>2, <1>l
      <4>2. place[k] < place[k + 1]
        BY <1>7, <4>1
      <4>3. place[k] \in Int /\ place[k + 1] \in Int /\ place[k] >= k
        BY <1>6, <4>1
      <4> QED BY <4>2, <4>3
    <3> QED BY <3>1, <3>2
  <2> HIDE DEF Q
  <2> QED BY <2>1, <2>2, Induction DEF Q
<1>9. \A k \in Nat : k \in {i \in Nat : i < L => place[L - i] <= L - i}
  <2> DEFINE Q == {i \in Nat : i < L => place[L - i] <= L - i}
  <2>1. 0 \in Q
    BY <1>6, <1>l
  <2>2. \A k \in Nat : k \in Q => k + 1 \in Q
    <3> SUFFICES ASSUME NEW k \in Nat, k \in Q, k + 1 < L PROVE place[L - (k + 1)] <= L - (k + 1)
      OBVIOUS
    <3> DEFINE a == L - (k + 1)
               b == L - k
    <3>1. a \in 1 .. L /\ b \in 1 .. L /\ a < b /\ a = b - 1
      BY <1>l
    <3>2. place[a] < place[b]
      BY <1>7, <3>1
    <3>3. place[a] \in Int /\ place[b] \in Int /\ place[b] <= b
      BY <1>6, <3>1, <1>l
    <3> QED BY <3>1, <3>2, <3>3
  <2> HIDE DEF Q
  <2> QED BY <2>1, <2>2, Induction DEF Q
<1>10. \A k \in 1 .. L : place[k] = k
  <2> SUFFICES ASSUME NEW k \in 1 .. L PROVE place[k] = k
    OBVIOUS
  <2>1. place[k] >= k
    BY <1>8
  <2> DEFINE i == L - k
  <2>2. i \in Nat /\ i < L /\ L - i = k
    BY <1>l
  <2>3. place[L - i] <= L - i
    BY <1>9, <2>2
  <2>4. place[k] <= k
    BY <2>2, <2>3
  <2>5. place[k] \in Int
    BY <1>6
  <2> QED BY <2>1, <2>4, <2>5
<1>11. \A k \in 1 .. Len(s) : Picked(s, P)[k] = s[k]
  BY <1>2, <1>4, <1>10 DEF L
<1> QED BY <1>2, <1>4, <1>11, SeqEqual DEF P

\* Where a text is cut: at its separators, and before and behind it.
CutsOf(text, separators) ==
    Ascending({0, Len(text) + 1} \union {i \in DOMAIN text : text[i] \in separators})

Cuts(c, n, text, separators) ==
    /\ n \in Nat /\ n >= 2 /\ DOMAIN c = 1 .. n
    /\ c[1] = 0 /\ c[n] = Len(text) + 1
    /\ \A k \in 1 .. n : c[k] \in 0 .. Len(text) + 1
    /\ \A j, k \in 1 .. n : j < k <=> c[j] < c[k]
    /\ \A k \in 2 .. n - 1 : c[k] \in 1 .. Len(text) /\ text[c[k]] \in separators
    /\ \A k \in 1 .. n - 1 : \A i \in (c[k] + 1) .. (c[k + 1] - 1) :
          i \in 1 .. Len(text) /\ text[i] \notin separators

LEMMA CutsAre ==
    ASSUME NEW text \in Text, NEW separators
    PROVE  Cuts(CutsOf(text, separators), Len(CutsOf(text, separators)), text, separators)
<1> SUFFICES ASSUME NEW c, c = CutsOf(text, separators), NEW n, n = Len(c)
             PROVE  Cuts(c, n, text, separators)
  OBVIOUS
<1> DEFINE L == Len(text)
           S == {0, L + 1} \union {i \in DOMAIN text : text[i] \in separators}
<1>1. L \in Nat /\ DOMAIN text = 1 .. L
  BY LenProperties DEF Text
<1> HIDE DEF L
<1>2. S \subseteq 0 .. L + 1
  BY <1>1
<1>3. S \in SUBSET Int /\ IsFiniteSet(S)
  <2> HIDE DEF S
  <2>1. L + 1 \in Int /\ 0 \in Int
    BY <1>1
  <2>2. IsFiniteSet(0 .. L + 1)
    BY <2>1, FS_Interval
  <2>3. IsFiniteSet(S)
    BY <1>2, <2>2, FS_Subset
  <2>4. S \in SUBSET Int
    BY <1>2
  <2> QED BY <2>3, <2>4
<1>4. c = Ascending(S)
  BY <1>1, Zenon DEF CutsOf, L
<1>5. /\ c \in Seq(S)
      /\ \A x \in S : \E k \in DOMAIN c : c[k] = x
      /\ \A j, k \in DOMAIN c : j < k <=> c[j] < c[k]
  <2> HIDE DEF S
  <2> QED BY <1>3, <1>4, AscendingCounts
<1>6. n \in Nat /\ DOMAIN c = 1 .. n
  BY <1>5, LenProperties
<1>7. \A k \in 1 .. n : c[k] \in S
  BY <1>5, ElementOfSeq
<1>8. 0 \in S /\ L + 1 \in S
  OBVIOUS
<1>9. \A x \in S : x \in 0 .. L + 1
  BY <1>2
<1>10. \A i \in 1 .. L : text[i] \in separators => i \in S
  BY <1>1
<1>11. \A x \in S : x = 0 \/ x = L + 1 \/ (x \in 1 .. L /\ text[x] \in separators)
  BY <1>1
<1> HIDE DEF S
<1>12. \A j, k \in 1 .. n : j < k <=> c[j] < c[k]
  BY <1>5, <1>6
<1>13. PICK a \in 1 .. n : c[a] = 0
  BY <1>5, <1>6, <1>8
<1>14. PICK b \in 1 .. n : c[b] = L + 1
  BY <1>5, <1>6, <1>8
<1>15. \A k \in 1 .. n : c[k] \in 0 .. L + 1
  BY <1>7, <1>9
<1>16. a < b
  BY <1>1, <1>12, <1>13, <1>14
<1>17. a = 1
  <2> SUFFICES ASSUME a # 1 PROVE FALSE
    OBVIOUS
  <2>1. 1 \in 1 .. n /\ 1 < a
    BY <1>6
  <2>2. c[1] < c[a]
    BY <1>12, <2>1
  <2> QED BY <1>13, <1>15, <2>1, <2>2
<1>18. b = n
  <2> SUFFICES ASSUME b # n PROVE FALSE
    OBVIOUS
  <2>1. n \in 1 .. n /\ b < n
    BY <1>6
  <2>2. c[b] < c[n]
    BY <1>12, <2>1
  <2> QED BY <1>1, <1>14, <1>15, <2>1, <2>2
<1>19. ASSUME NEW k \in 2 .. n - 1 PROVE c[k] \in 1 .. L /\ text[c[k]] \in separators
  <2>1. k \in 1 .. n /\ 1 \in 1 .. n /\ n \in 1 .. n /\ 1 < k /\ k < n
    BY <1>6
  <2>2. c[1] < c[k] /\ c[k] < c[n]
    BY <1>12, <2>1
  <2>3. c[k] \in S
    BY <1>7, <2>1
  <2>4. c[k] # 0 /\ c[k] # L + 1
    BY <1>1, <1>13, <1>14, <1>15, <1>17, <1>18, <2>1, <2>2
  <2> QED BY <1>11, <2>3, <2>4
<1>20. ASSUME NEW k \in 1 .. n - 1, NEW i \in (c[k] + 1) .. (c[k + 1] - 1)
       PROVE  i \in 1 .. L /\ text[i] \notin separators
  <2>1. k \in 1 .. n /\ k + 1 \in 1 .. n
    BY <1>6
  <2>2. c[k] \in 0 .. L + 1 /\ c[k + 1] \in 0 .. L + 1
    BY <1>15, <2>1
  <2>3. i \in 1 .. L /\ c[k] < i /\ i < c[k + 1]
    BY <1>1, <2>2
  <2>4. ASSUME text[i] \in separators PROVE FALSE
    <3>1. i \in S
      BY <1>10, <2>3, <2>4
    <3>2. PICK j \in 1 .. n : c[j] = i
      BY <1>5, <1>6, <3>1
    <3>3. k < j
      BY <1>12, <2>1, <2>3, <3>2
    <3>4. j < k + 1
      BY <1>12, <2>1, <2>3, <3>2
    <3> QED BY <2>1, <3>3, <3>4
  <2> QED BY <2>3, <2>4
<1>21. n >= 2
  BY <1>6, <1>16
<1> QED BY <1>6, <1>12, <1>13, <1>14, <1>15, <1>17, <1>18, <1>19, <1>20, <1>21 DEF L, Cuts

\* A text is split into the texts between its cuts.
Pieces(s, c, n, text, separators) ==
    /\ s \in Seq(Text) /\ Len(s) = n - 1 /\ DOMAIN s = 1 .. n - 1
    /\ \A k \in 1 .. n - 1 :
          /\ s[k] = SubSeq(text, c[k] + 1, c[k + 1] - 1)
          /\ s[k] \in Text /\ Len(s[k]) = c[k + 1] - c[k] - 1
          /\ \A i \in 1 .. Len(s[k]) :
                /\ c[k] + i \in 1 .. Len(text)
                /\ s[k][i] = text[c[k] + i] /\ s[k][i] \notin separators

LEMMA SplitAre ==
    ASSUME NEW text \in Text, NEW separators
    PROVE  Pieces(Split(text, separators), CutsOf(text, separators),
                  Len(CutsOf(text, separators)), text, separators)
<1> SUFFICES ASSUME NEW c, c = CutsOf(text, separators), NEW n, n = Len(c),
                    NEW s, s = Split(text, separators)
             PROVE  Pieces(s, c, n, text, separators)
  OBVIOUS
<1> DEFINE L == Len(text)
           pieces == [k \in 1 .. Len(c) - 1 |-> SubSeq(text, c[k] + 1, c[k + 1] - 1)]
<1>1. L \in Nat /\ \A i \in 1 .. L : text[i] \in Character
  BY LenProperties, ElementOfSeq DEF Text
<1>2. /\ n \in Nat /\ n >= 2
      /\ \A k \in 1 .. n : c[k] \in 0 .. L + 1
      /\ \A j, k \in 1 .. n : j < k <=> c[j] < c[k]
      /\ \A k \in 1 .. n - 1 : \A i \in (c[k] + 1) .. (c[k + 1] - 1) :
            i \in 1 .. L /\ text[i] \notin separators
  <2>1. Cuts(c, n, text, separators)
    BY CutsAre
  <2> QED BY <2>1 DEF Cuts
<1>3. s = Tuple(pieces)
  BY Zenon DEF Split, CutsOf
<1> HIDE DEF L
<1>4. ASSUME NEW k \in 1 .. n - 1, NEW p, p = SubSeq(text, c[k] + 1, c[k + 1] - 1)
      PROVE  /\ p \in Text /\ Len(p) = c[k + 1] - c[k] - 1
             /\ \A i \in 1 .. Len(p) :
                   /\ c[k] + i \in 1 .. L
                   /\ p[i] = text[c[k] + i] /\ p[i] \notin separators
  <2> DEFINE a == c[k] + 1
             b == c[k + 1] - 1
  <2>1. k \in 1 .. n /\ k + 1 \in 1 .. n /\ k < k + 1
    BY <1>2
  <2>2. c[k] < c[k + 1] /\ c[k] \in 0 .. L + 1 /\ c[k + 1] \in 0 .. L + 1
    BY <1>2, <2>1
  <2>3. a \in Int /\ b \in Int /\ a <= b + 1
    BY <1>1, <2>2
  <2>4. \A i \in a .. b : i \in 1 .. L /\ text[i] \notin separators
    BY <1>2
  <2>5. \A i \in a .. b : text[i] \in Character
    BY <1>1, <2>4
  <2>p. p = SubSeq(text, a, b)
    BY <1>4
  <2> HIDE DEF a, b
  <2>6. /\ p \in Seq(Character) /\ Len(p) = (IF a <= b THEN b - a + 1 ELSE 0)
        /\ \A i \in 1 .. b - a + 1 : p[i] = text[a + i - 1]
    BY <2>3, <2>5, <2>p, SubSeqProperties
  <2>7. Len(p) = b - a + 1
    BY <2>3, <2>6
  <2>8. \A i \in 1 .. Len(p) : a + i - 1 \in a .. b
    BY <2>3, <2>7
  <2>9. \A i \in 1 .. Len(p) : a + i - 1 = c[k] + i
    BY <2>2 DEF a
  <2>10. Len(p) = c[k + 1] - c[k] - 1
    BY <2>2, <2>7 DEF a, b
  <2>11. \A i \in 1 .. Len(p) :
            /\ c[k] + i \in 1 .. L /\ p[i] = text[c[k] + i] /\ p[i] \notin separators
    BY <2>4, <2>6, <2>7, <2>8, <2>9
  <2> QED BY <2>6, <2>10, <2>11 DEF Text
<1> DEFINE m == n - 1
<1>5. m \in Nat \ {0}
  BY <1>2
<1>6. pieces \in [1 .. m -> Text]
  BY <1>4
<1>7. \A k \in 1 .. m : pieces[k] = SubSeq(text, c[k] + 1, c[k + 1] - 1)
  OBVIOUS
<1> HIDE DEF pieces, m
<1>8. s = pieces /\ s \in Seq(Text) /\ Len(s) = m
  BY <1>3, <1>5, <1>6, TupleIs
<1>9. DOMAIN s = 1 .. m
  BY <1>6, <1>8
<1>10. s \in Seq(Text) /\ Len(s) = n - 1 /\ DOMAIN s = 1 .. n - 1
  BY <1>8, <1>9 DEF m
<1>11. \A k \in 1 .. n - 1 : s[k] = SubSeq(text, c[k] + 1, c[k + 1] - 1)
  BY <1>7, <1>8 DEF m
<1>12. ASSUME NEW k \in 1 .. n - 1
       PROVE  /\ s[k] \in Text /\ Len(s[k]) = c[k + 1] - c[k] - 1
              /\ \A i \in 1 .. Len(s[k]) :
                    /\ c[k] + i \in 1 .. L
                    /\ s[k][i] = text[c[k] + i] /\ s[k][i] \notin separators
  <2>1. s[k] = SubSeq(text, c[k] + 1, c[k + 1] - 1)
    BY <1>11
  <2> QED BY <1>4, <2>1
<1> QED BY <1>10, <1>11, <1>12 DEF L, Pieces

-----------------------------------------------------------------------------
\* Joined, as the recursive function that it is.

JoinStep(f, k, pieces, separator) ==
    CASE k = 0 -> <<>>
      [] k = 1 -> pieces[1]
      [] OTHER -> f[k - 1] \o separator \o pieces[k]

Joins(f, pieces, separator) ==
    f = [k \in 0 .. Len(pieces) |->
            CASE k = 0 -> <<>>
              [] k = 1 -> pieces[1]
              [] OTHER -> f[k - 1] \o separator \o pieces[k]]

LEMMA JoinedAre ==
    ASSUME NEW pieces \in Seq(Text), NEW separator \in Text
    PROVE  \E f \in [0 .. Len(pieces) -> Text] :
              /\ Joined(pieces, separator) = f[Len(pieces)]
              /\ f[0] = <<>> /\ (Len(pieces) > 0 => f[1] = pieces[1])
              /\ \A k \in 2 .. Len(pieces) : f[k] = f[k - 1] \o separator \o pieces[k]
<1> DEFINE N == Len(pieces)
           S(f, k) == JoinStep(f, k, pieces, separator)
           Q == {n \in Nat : n <= N => \E f \in [0 .. n -> Text] : \A k \in 0 .. n : f[k] = S(f, k)}
<1>1. N \in Nat /\ \A k \in 1 .. N : pieces[k] \in Text
  BY LenProperties, ElementOfSeq
<1> HIDE DEF N
<1>2. <<>> \in Text
  BY DEF Text
<1>3. \A f : S(f, 0) = <<>> /\ S(f, 1) = pieces[1]
  BY DEF JoinStep
<1>4. \A f, k : k \in Nat /\ k >= 2 => S(f, k) = f[k - 1] \o separator \o pieces[k]
  <2> SUFFICES ASSUME NEW f, NEW k \in Nat, k >= 2
               PROVE  S(f, k) = f[k - 1] \o separator \o pieces[k]
    OBVIOUS
  <2>1. k # 0 /\ k # 1
    OBVIOUS
  <2> QED BY <2>1, Zenon DEF JoinStep
<1>5. \A u, v \in Text : u \o v \in Text
  BY ConcatProperties DEF Text
<1>6. \A f, g, k : k \in Nat /\ (k >= 2 => f[k - 1] = g[k - 1]) => S(f, k) = S(g, k)
  <2> SUFFICES ASSUME NEW f, NEW g, NEW k \in Nat, k >= 2 => f[k - 1] = g[k - 1]
               PROVE  S(f, k) = S(g, k)
    OBVIOUS
  <2>1. k = 0 \/ k = 1 \/ k >= 2
    OBVIOUS
  <2> HIDE DEF S
  <2> QED BY <2>1, <1>3, <1>4
<1> HIDE DEF S
<1>7. 0 \in Q
  <2> DEFINE f == [k \in 0 .. 0 |-> <<>>]
  <2>1. f \in [0 .. 0 -> Text]
    BY <1>2
  <2>2. \A k \in 0 .. 0 : f[k] = S(f, k)
    BY <1>3
  <2> HIDE DEF f
  <2> QED BY <2>1, <2>2
<1>8. \A n \in Nat : n \in Q => n + 1 \in Q
  <2> SUFFICES ASSUME NEW n \in Nat, n \in Q, n + 1 <= N
               PROVE  \E g \in [0 .. n + 1 -> Text] : \A k \in 0 .. n + 1 : g[k] = S(g, k)
    OBVIOUS
  <2>1. PICK f \in [0 .. n -> Text] : \A k \in 0 .. n : f[k] = S(f, k)
    BY <1>1
  <2> DEFINE g == [k \in 0 .. n + 1 |-> IF k = n + 1 THEN S(f, n + 1) ELSE f[k]]
  <2>2. S(f, n + 1) \in Text
    <3>1. pieces[n + 1] \in Text
      BY <1>1
    <3>2. CASE n = 0
      BY <1>3, <3>1, <3>2
    <3>3. CASE n # 0
      <4>1. n + 1 >= 2 /\ n + 1 \in Nat /\ (n + 1) - 1 = n
        BY <3>3
      <4>2. S(f, n + 1) = f[n] \o separator \o pieces[n + 1]
        BY <1>4, <4>1
      <4>3. f[n] \in Text
        OBVIOUS
      <4>4. f[n] \o separator \in Text
        BY <1>5, <4>3
      <4> QED BY <1>5, <3>1, <4>2, <4>4
    <3> QED BY <3>2, <3>3
  <2>3. g \in [0 .. n + 1 -> Text]
    BY <2>2
  <2>4. \A k \in 0 .. n : g[k] = f[k]
    OBVIOUS
  <2>5. g[n + 1] = S(f, n + 1)
    OBVIOUS
  <2> HIDE DEF g
  <2>6. ASSUME NEW k \in 0 .. n + 1 PROVE g[k] = S(g, k)
    <3>1. k \in Nat /\ (k >= 2 => k - 1 \in 0 .. n)
      OBVIOUS
    <3>2. k >= 2 => f[k - 1] = g[k - 1]
      BY <2>4, <3>1
    <3>3. S(f, k) = S(g, k)
      BY <1>6, <3>1, <3>2
    <3>4. k \in 0 .. n \/ k = n + 1
      OBVIOUS
    <3> QED BY <2>1, <2>4, <2>5, <3>3, <3>4
  <2> QED BY <2>3, <2>6
<1>9. \E f \in [0 .. N -> Text] : \A k \in 0 .. N : f[k] = S(f, k)
  <2>1. N \in Q
    <3> HIDE DEF Q
    <3> QED BY <1>1, <1>7, <1>8, Induction
  <2> QED BY <2>1, <1>1
<1>10. \E f : Joins(f, pieces, separator)
  <2>1. PICK f \in [0 .. N -> Text] : \A k \in 0 .. N : f[k] = S(f, k)
    BY <1>9
  <2>2. f = [k \in 0 .. N |-> S(f, k)]
    BY <2>1
  <2> QED BY <2>2, Zenon DEF Joins, N, S, JoinStep
<1> DEFINE h == CHOOSE f : Joins(f, pieces, separator)
<1>11. Joins(h, pieces, separator)
  BY <1>10, Zenon
<1>12. Joined(pieces, separator) = h[N]
  BY Zenon DEF Joined, Joins, N
<1> HIDE DEF h
<1>13. h = [k \in 0 .. N |-> S(h, k)]
  BY <1>11, Zenon DEF Joins, N, S, JoinStep
<1>14. \A k \in 0 .. N : h[k] = S(h, k)
  BY <1>13
<1>15. \A k \in Nat : k \in {i \in Nat : i <= N => h[i] \in Text}
  <2> DEFINE R == {i \in Nat : i <= N => h[i] \in Text}
  <2>1. 0 \in R
    BY <1>1, <1>2, <1>3, <1>14
  <2>2. \A k \in Nat : k \in R => k + 1 \in R
    <3> SUFFICES ASSUME NEW k \in Nat, k \in R, k + 1 <= N PROVE h[k + 1] \in Text
      OBVIOUS
    <3>1. h[k + 1] = S(h, k + 1) /\ pieces[k + 1] \in Text /\ h[k] \in Text
      BY <1>1, <1>14
    <3>2. CASE k = 0
      BY <1>3, <3>1, <3>2
    <3>3. CASE k # 0
      <4>1. k + 1 \in Nat /\ k + 1 >= 2 /\ (k + 1) - 1 = k
        BY <3>3
      <4>2. S(h, k + 1) = h[k] \o separator \o pieces[k + 1]
        BY <1>4, <4>1
      <4>3. h[k] \o separator \in Text
        BY <1>5, <3>1
      <4> QED BY <1>5, <3>1, <4>2, <4>3
    <3> QED BY <3>2, <3>3
  <2> HIDE DEF R
  <2> QED BY <2>1, <2>2, Induction DEF R
<1>16. h \in [0 .. N -> Text]
  BY <1>13, <1>14, <1>15
<1>17. h[0] = <<>> /\ (N > 0 => h[1] = pieces[1])
  BY <1>1, <1>3, <1>14
<1>18. \A k \in 2 .. N : h[k] = h[k - 1] \o separator \o pieces[k]
  <2> SUFFICES ASSUME NEW k \in 2 .. N PROVE h[k] = h[k - 1] \o separator \o pieces[k]
    OBVIOUS
  <2>1. k \in Nat /\ k >= 2 /\ k \in 0 .. N
    OBVIOUS
  <2>2. S(h, k) = h[k - 1] \o separator \o pieces[k]
    BY <1>4, <2>1
  <2> QED BY <1>14, <2>1, <2>2
<1> QED BY <1>12, <1>16, <1>17, <1>18 DEF N

-----------------------------------------------------------------------------
\* Normal texts: lines that are not empty, with single blanks.

Normal(t) ==
    /\ \A i \in 1 .. Len(t) : t[i] # Return
    /\ Len(t) > 0 => IsVisible(t[1]) /\ IsVisible(t[Len(t)])
    /\ \A i \in 1 .. Len(t) - 1 : IsVisible(t[i]) \/ IsVisible(t[i + 1])

LEMMA TextIs ==
    ASSUME NEW t \in Text
    PROVE  /\ Len(t) \in Nat /\ DOMAIN t = 1 .. Len(t) /\ \A i \in 1 .. Len(t) : t[i] \in Character
           /\ t = <<>> <=> Len(t) = 0
BY LenProperties, ElementOfSeq, EmptySeq DEF Text

\* A character between two texts.
Between(u, w, v) == u \o <<w>> \o v

LEMMA BetweenAre ==
    ASSUME NEW u \in Text, NEW v \in Text, NEW w \in Character
    PROVE  /\ Between(u, w, v) \in Text /\ Len(Between(u, w, v)) = Len(u) + 1 + Len(v)
           /\ \A i \in 1 .. Len(u) : Between(u, w, v)[i] = u[i]
           /\ Between(u, w, v)[Len(u) + 1] = w
           /\ \A i \in 1 .. Len(v) : Between(u, w, v)[Len(u) + 1 + i] = v[i]
<1> DEFINE x == Between(u, w, v)
<1> DEFINE y == u \o <<w>>
<1>1. Len(u) \in Nat /\ Len(v) \in Nat
  BY TextIs
<1>2. <<w>> \in Seq(Character) /\ Len(<<w>>) = 1 /\ <<w>>[1] = w
  OBVIOUS
<1>3. /\ y \in Seq(Character) /\ Len(y) = Len(u) + 1
      /\ \A i \in 1 .. Len(u) + 1 : y[i] = IF i <= Len(u) THEN u[i] ELSE <<w>>[i - Len(u)]
  BY <1>2, ConcatProperties DEF Text
<1>4. x = y \o v
  BY DEF Between
<1> HIDE DEF x
<1>5. y[Len(u) + 1] = w /\ \A i \in 1 .. Len(u) : y[i] = u[i]
  BY <1>1, <1>2, <1>3
<1> HIDE DEF y
<1>6. /\ x \in Seq(Character) /\ Len(x) = Len(y) + Len(v)
      /\ \A i \in 1 .. Len(y) + Len(v) : x[i] = IF i <= Len(y) THEN y[i] ELSE v[i - Len(y)]
  <2>1. y \in Seq(Character) /\ v \in Seq(Character)
    BY <1>3 DEF Text
  <2>2. /\ y \o v \in Seq(Character) /\ Len(y \o v) = Len(y) + Len(v)
        /\ \A i \in 1 .. Len(y) + Len(v) :
              (y \o v)[i] = IF i <= Len(y) THEN y[i] ELSE v[i - Len(y)]
    BY <2>1, ConcatProperties
  <2> QED BY <1>4, <2>2
<1>7. \A i \in 1 .. Len(u) : x[i] = u[i]
  BY <1>1, <1>3, <1>5, <1>6
<1>8. x[Len(u) + 1] = w
  BY <1>1, <1>3, <1>5, <1>6
<1>9. \A i \in 1 .. Len(v) : x[Len(u) + 1 + i] = v[i]
  <2> SUFFICES ASSUME NEW i \in 1 .. Len(v) PROVE x[Len(u) + 1 + i] = v[i]
    OBVIOUS
  <2> DEFINE j == Len(u) + 1 + i
  <2>1. j \in 1 .. Len(y) + Len(v) /\ ~(j <= Len(y)) /\ j - Len(y) = i
    BY <1>1, <1>3
  <2> HIDE DEF j
  <2>2. x[j] = v[j - Len(y)]
    BY <1>6, <2>1
  <2> QED BY <2>1, <2>2 DEF j
<1>10. x \in Text /\ Len(x) = Len(u) + 1 + Len(v)
  BY <1>1, <1>3, <1>6 DEF Text
<1> QED BY <1>7, <1>8, <1>9, <1>10 DEF x

LEMMA NormalBetween ==
    ASSUME NEW u \in Text, NEW v \in Text, Normal(u), Normal(v), Len(u) > 0, Len(v) > 0,
           NEW w \in {Blank, NewLine}, NEW x, x = Between(u, w, v)
    PROVE  x \in Text /\ Len(x) > 0 /\ Normal(x)
<1> DEFINE m == Len(u)
           n == Len(v)
<1>1. m \in Nat /\ n \in Nat
  BY TextIs
<1>2. w \in Character /\ w # Return
  BY DEF Character, Blank, NewLine, Return
<1>3. /\ x \in Text /\ Len(x) = m + 1 + n
      /\ \A i \in 1 .. m : x[i] = u[i]
      /\ x[m + 1] = w
      /\ \A i \in 1 .. n : x[m + 1 + i] = v[i]
  <2> DEFINE y == Between(u, w, v)
  <2>1. w \in Character
    BY <1>2
  <2>2. /\ y \in Text /\ Len(y) = Len(u) + 1 + Len(v)
        /\ \A i \in 1 .. Len(u) : y[i] = u[i]
        /\ y[Len(u) + 1] = w
        /\ \A i \in 1 .. Len(v) : y[Len(u) + 1 + i] = v[i]
    BY <2>1, BetweenAre, ZenonT(40)
  <2> HIDE DEF y
  <2>3. x = y
    BY DEF y
  <2> QED BY <2>2, <2>3
<1>4. /\ \A i \in 1 .. m : u[i] # Return
      /\ IsVisible(u[1]) /\ IsVisible(u[m])
      /\ \A i \in 1 .. m - 1 : IsVisible(u[i]) \/ IsVisible(u[i + 1])
      /\ \A i \in 1 .. n : v[i] # Return
      /\ IsVisible(v[1]) /\ IsVisible(v[n])
      /\ \A i \in 1 .. n - 1 : IsVisible(v[i]) \/ IsVisible(v[i + 1])
  BY DEF Normal
<1>5. m > 0 /\ n > 0
  OBVIOUS
<1> HIDE DEF m, n, IsVisible
<1>6. ASSUME NEW i \in 1 .. Len(x)
      PROVE  i \in 1 .. m \/ i = m + 1 \/ \E j \in 1 .. n : i = m + 1 + j
  <2>1. i \in 1 .. m \/ i = m + 1 \/ i - (m + 1) \in 1 .. n
    BY <1>1, <1>3
  <2>2. i = m + 1 + (i - (m + 1))
    BY <1>1
  <2> QED BY <2>1, <2>2
<1>7. ASSUME NEW i \in 1 .. Len(x) PROVE x[i] # Return
  <2>1. CASE i \in 1 .. m
    BY <1>3, <1>4, <2>1
  <2>2. CASE i = m + 1
    BY <1>2, <1>3, <2>2
  <2>3. ASSUME NEW j \in 1 .. n, i = m + 1 + j PROVE x[i] # Return
    BY <1>3, <1>4, <2>3
  <2> QED BY <1>6, <2>1, <2>2, <2>3
<1>8. IsVisible(x[1])
  BY <1>1, <1>3, <1>4, <1>5
<1>9. IsVisible(x[Len(x)])
  BY <1>1, <1>3, <1>4, <1>5
<1>10. ASSUME NEW i \in 1 .. Len(x) - 1 PROVE IsVisible(x[i]) \/ IsVisible(x[i + 1])
  <2>1. i \in 1 .. m - 1 \/ i = m \/ i = m + 1 \/ i - (m + 1) \in 1 .. n - 1
    BY <1>1, <1>3
  <2>2. CASE i \in 1 .. m - 1
    <3>1. i \in 1 .. m /\ i + 1 \in 1 .. m
      BY <1>1, <2>2
    <3> QED BY <1>3, <1>4, <2>2, <3>1
  <2>3. CASE i = m
    <3>1. i \in 1 .. m
      BY <1>1, <1>5, <2>3
    <3> QED BY <1>3, <1>4, <2>3, <3>1
  <2>4. CASE i = m + 1
    <3>1. 1 \in 1 .. n /\ i + 1 = m + 1 + 1
      BY <1>1, <1>5, <2>4
    <3>2. x[i + 1] = v[1]
      BY <1>3, <3>1
    <3> QED BY <1>4, <3>2
  <2>5. CASE i - (m + 1) \in 1 .. n - 1
    <3> DEFINE j == i - (m + 1)
    <3>1. j \in 1 .. n - 1 /\ j \in 1 .. n /\ j + 1 \in 1 .. n
      BY <1>1, <2>5
    <3>2. i = m + 1 + j /\ i + 1 = m + 1 + (j + 1)
      BY <1>1
    <3> HIDE DEF j
    <3>3. x[i] = v[j] /\ x[i + 1] = v[j + 1]
      BY <1>3, <3>1, <3>2
    <3> QED BY <1>4, <3>1, <3>3
  <2> QED BY <2>1, <2>2, <2>3, <2>4, <2>5
<1>11. Len(x) > 0
  BY <1>1, <1>3
<1> QED BY <1>3, <1>7, <1>8, <1>9, <1>10, <1>11 DEF Normal

\* Normal texts that are not empty, joined, are normal.
LEMMA JoinedNormal ==
    ASSUME NEW pieces \in Seq(Text), NEW w \in {Blank, NewLine},
           \A k \in 1 .. Len(pieces) : Len(pieces[k]) > 0 /\ Normal(pieces[k])
    PROVE  Joined(pieces, <<w>>) \in Text /\ Normal(Joined(pieces, <<w>>))
<1> DEFINE N == Len(pieces)
<1>1. N \in Nat /\ \A k \in 1 .. N : pieces[k] \in Text
  BY LenProperties, ElementOfSeq
<1>2. <<w>> \in Text
  BY DEF Text, Character
<1>3. PICK f \in [0 .. N -> Text] :
         /\ Joined(pieces, <<w>>) = f[N]
         /\ f[0] = <<>> /\ (N > 0 => f[1] = pieces[1])
         /\ \A k \in 2 .. N : f[k] = f[k - 1] \o <<w>> \o pieces[k]
  BY <1>2, JoinedAre
<1> HIDE DEF N
<1> DEFINE Q == {k \in Nat : k + 1 <= N => Len(f[k + 1]) > 0 /\ Normal(f[k + 1])}
<1>4. 0 \in Q
  BY <1>1, <1>3 DEF N
<1>5. \A k \in Nat : k \in Q => k + 1 \in Q
  <2> SUFFICES ASSUME NEW k \in Nat, k \in Q, k + 1 + 1 <= N
               PROVE  Len(f[k + 1 + 1]) > 0 /\ Normal(f[k + 1 + 1])
    OBVIOUS
  <2> DEFINE j == k + 1 + 1
  <2>1. j \in 2 .. N /\ j \in 1 .. N /\ j - 1 = k + 1 /\ k + 1 \in 0 .. N
    BY <1>1
  <2>2. f[j] = Between(f[k + 1], w, pieces[j])
    BY <1>3, <2>1 DEF Between
  <2>3. Len(f[k + 1]) > 0 /\ Normal(f[k + 1]) /\ f[k + 1] \in Text
    BY <1>1, <2>1
  <2>4. pieces[j] \in Text /\ Len(pieces[j]) > 0 /\ Normal(pieces[j])
    BY <1>1, <2>1 DEF N
  <2> HIDE DEF j
  <2> QED BY <2>2, <2>3, <2>4, NormalBetween DEF j
<1>6. \A k \in Nat : k \in Q
  <2> HIDE DEF Q
  <2> QED BY <1>4, <1>5, Induction
<1>7. CASE N = 0
  <2>1. f[N] = <<>> /\ f[N] \in Text
    BY <1>1, <1>3, <1>7
  <2>2. Len(f[N]) = 0
    BY <2>1
  <2> QED BY <1>3, <2>1, <2>2 DEF Normal
<1>8. CASE N # 0
  <2>1. (N - 1) \in Nat /\ (N - 1) + 1 = N
    BY <1>1, <1>8
  <2>2. Normal(f[N])
    BY <1>6, <2>1, <1>1
  <2> QED BY <1>1, <1>3, <2>2
<1> QED BY <1>7, <1>8

-----------------------------------------------------------------------------
\* What NormalizeExtractedText makes of a text is normal, and stays as it is.

LEMMA NonEmptyAre ==
    ASSUME NEW pieces \in Seq(Text)
    PROVE  /\ NonEmpty(pieces) \in Seq(Text)
           /\ \A k \in 1 .. Len(NonEmpty(pieces)) :
                 /\ Len(NonEmpty(pieces)[k]) > 0
                 /\ \E j \in 1 .. Len(pieces) : NonEmpty(pieces)[k] = pieces[j]
           /\ (\A j \in 1 .. Len(pieces) : Len(pieces[j]) = 0) => Len(NonEmpty(pieces)) = 0
           /\ (\A j \in 1 .. Len(pieces) : Len(pieces[j]) > 0) => NonEmpty(pieces) = pieces
<1> DEFINE P == {i \in DOMAIN pieces : pieces[i] # <<>>}
           place == Ascending(P)
           kept == Picked(pieces, P)
<1>1. /\ DOMAIN pieces = 1 .. Len(pieces) /\ Len(pieces) \in Nat
      /\ \A i \in 1 .. Len(pieces) : pieces[i] \in Text
  BY LenProperties, ElementOfSeq
<1>2. \A i \in 1 .. Len(pieces) :
         Len(pieces[i]) \in Nat /\ (pieces[i] = <<>> <=> Len(pieces[i]) = 0)
  BY <1>1, TextIs
<1>3. NonEmpty(pieces) = kept
  BY DEF NonEmpty
<1>4. P \in SUBSET DOMAIN pieces
  OBVIOUS
<1>5. \A i \in P : i \in 1 .. Len(pieces) /\ Len(pieces[i]) > 0
  BY <1>1, <1>2
<1>6. (\A j \in 1 .. Len(pieces) : Len(pieces[j]) = 0) => P = {}
  BY <1>1, <1>2
<1>7. (\A j \in 1 .. Len(pieces) : Len(pieces[j]) > 0) => P = DOMAIN pieces
  BY <1>1, <1>2
<1> HIDE DEF P
<1>8. /\ IsFiniteSet(P) /\ P \in SUBSET Int
      /\ place \in Seq(P) /\ Len(place) \in Nat
      /\ kept \in Seq(Text) /\ Len(kept) = Len(place)
      /\ \A k \in 1 .. Len(place) : place[k] \in P /\ kept[k] = pieces[place[k]]
  BY <1>4, PickedAre
<1>9. Len(place) = Cardinality(P)
  BY <1>8, AscendingCounts
<1>10. P = {} => Len(kept) = 0
  BY <1>8, <1>9, FS_EmptySet
<1>11. P = DOMAIN pieces => kept = pieces
  BY PickedAll
<1> HIDE DEF place, kept
<1>12. \A k \in 1 .. Len(kept) :
          Len(kept[k]) > 0 /\ \E j \in 1 .. Len(pieces) : kept[k] = pieces[j]
  BY <1>5, <1>8
<1> QED BY <1>3, <1>6, <1>7, <1>8, <1>10, <1>11, <1>12

LEMMA CollapsedNormal ==
    ASSUME NEW line \in Text, \A i \in 1 .. Len(line) : line[i] \notin {NewLine, Return}
    PROVE  CollapseBlanks(line) \in Text /\ Normal(CollapseBlanks(line))
<1> DEFINE c == CutsOf(line, {Blank})
           n == Len(c)
           s == Split(line, {Blank})
           e == NonEmpty(s)
<1>1. Pieces(s, c, n, line, {Blank})
  BY SplitAre
<1>2. CollapseBlanks(line) = Joined(e, <<Blank>>)
  BY DEF CollapseBlanks
<1>3. s \in Seq(Text)
  BY <1>1 DEF Pieces
<1> HIDE DEF s, c, n
<1>4. /\ e \in Seq(Text)
      /\ \A k \in 1 .. Len(e) : Len(e[k]) > 0 /\ \E j \in 1 .. Len(s) : e[k] = s[j]
  BY <1>3, NonEmptyAre
<1>5. ASSUME NEW j \in 1 .. Len(s) PROVE Normal(s[j])
  <2>1. /\ j \in 1 .. n - 1 /\ s[j] \in Text
        /\ \A i \in 1 .. Len(s[j]) :
              c[j] + i \in 1 .. Len(line) /\ s[j][i] = line[c[j] + i] /\ s[j][i] \notin {Blank}
    BY <1>1 DEF Pieces
  <2>2. Len(s[j]) \in Nat
    BY <2>1, TextIs
  <2>3. \A i \in 1 .. Len(s[j]) : IsVisible(s[j][i])
    BY <2>1 DEF IsVisible, WhiteSpace
  <2> DEFINE t == s[j]
  <2> HIDE DEF t
  <2>4. \A i \in 1 .. Len(t) : IsVisible(t[i])
    BY <2>3 DEF t
  <2>5. Len(t) \in Nat
    BY <2>2 DEF t
  <2>6. Normal(t)
    <3>1. \A i \in 1 .. Len(t) : t[i] # Return
      BY <2>4 DEF IsVisible, WhiteSpace
    <3>2. Len(t) > 0 => IsVisible(t[1]) /\ IsVisible(t[Len(t)])
      BY <2>4, <2>5
    <3>3. \A i \in 1 .. Len(t) - 1 : IsVisible(t[i]) \/ IsVisible(t[i + 1])
      BY <2>4, <2>5
    <3> QED BY <3>1, <3>2, <3>3 DEF Normal
  <2> QED BY <2>6 DEF t
<1> HIDE DEF e
<1>6. \A k \in 1 .. Len(e) : Len(e[k]) > 0 /\ Normal(e[k])
  BY <1>4, <1>5
<1>7. Joined(e, <<Blank>>) \in Text /\ Normal(Joined(e, <<Blank>>))
  BY <1>4, <1>6, JoinedNormal
<1> QED BY <1>2, <1>7

LEMMA NormalizedNormal ==
    ASSUME NEW text \in Text
    PROVE  NormalizeExtractedText(text) \in Text /\ Normal(NormalizeExtractedText(text))
<1> DEFINE seps == {NewLine, Return}
           c == CutsOf(text, seps)
           n == Len(c)
           s == Split(text, seps)
           d == [l \in DOMAIN s |-> CollapseBlanks(s[l])]
           e == NonEmpty(d)
<1>1. Pieces(s, c, n, text, seps) /\ Cuts(c, n, text, seps)
  BY SplitAre, CutsAre
<1>2. NormalizeExtractedText(text) = Joined(e, <<NewLine>>)
  BY DEF NormalizeExtractedText
<1>3. \A l \in 1 .. n - 1 :
         CollapseBlanks(s[l]) \in Text /\ Normal(CollapseBlanks(s[l]))
  <2> SUFFICES ASSUME NEW l \in 1 .. n - 1
               PROVE  CollapseBlanks(s[l]) \in Text /\ Normal(CollapseBlanks(s[l]))
    OBVIOUS
  <2>1. s[l] \in Text /\ \A i \in 1 .. Len(s[l]) : s[l][i] \notin {NewLine, Return}
    BY <1>1 DEF Pieces
  <2> QED BY <2>1, CollapsedNormal
<1> DEFINE m == n - 1
<1>4. m \in Nat /\ DOMAIN s = 1 .. m
  <2> HIDE DEF s, c, n
  <2>1. n \in Nat /\ n >= 2
    BY <1>1 DEF Cuts
  <2>2. DOMAIN s = 1 .. m
    BY <1>1 DEF Pieces
  <2> QED BY <2>1, <2>2
<1>5. d \in [1 .. m -> Text] /\ \A l \in 1 .. m : Normal(d[l])
  BY <1>3, <1>4
<1> HIDE DEF d, s, c, n, m
<1>6. d \in Seq(Text) /\ Len(d) = m
  BY <1>4, <1>5, TupleIs
<1>7. /\ e \in Seq(Text)
      /\ \A k \in 1 .. Len(e) : Len(e[k]) > 0 /\ \E j \in 1 .. Len(d) : e[k] = d[j]
  BY <1>6, NonEmptyAre
<1> HIDE DEF e
<1>8. \A k \in 1 .. Len(e) : Len(e[k]) > 0 /\ Normal(e[k])
  BY <1>5, <1>6, <1>7
<1>9. Joined(e, <<NewLine>>) \in Text /\ Normal(Joined(e, <<NewLine>>))
  BY <1>7, <1>8, JoinedNormal
<1> QED BY <1>2, <1>9

LEMMA Rejoin ==
    ASSUME NEW t \in Text, NEW a \in 1 .. Len(t), NEW b \in (a + 1) .. (Len(t) + 1)
    PROVE  SubSeq(t, 1, a - 1) \o <<t[a]>> \o SubSeq(t, a + 1, b - 1) = SubSeq(t, 1, b - 1)
<1>1. Len(t) \in Nat /\ t \in Seq(Character)
  BY TextIs DEF Text
<1>2. SubSeq(t, 1, a) = SubSeq(t, 1, a - 1) \o <<t[a]>>
  <2>1. 1 \in 1 .. Len(t) /\ a \in 1 .. Len(t)
    BY <1>1
  <2> QED BY <1>1, <2>1, SubSeqRecursiveSecond
<1>3. SubSeq(t, 1, a) \o SubSeq(t, a + 1, b - 1) = SubSeq(t, 1, b - 1)
  <2>1. 1 \in 1 .. Len(t) + 1 /\ a \in 1 - 1 .. Len(t) /\ b - 1 \in a .. Len(t)
    BY <1>1
  <2> QED BY <1>1, <2>1, ConcatAdjacentSubSeq
<1> QED BY <1>2, <1>3

\* A text is its pieces with the separator between them.
LEMMA SplitJoin ==
    ASSUME NEW t \in Text, NEW w \in Character
    PROVE  Joined(Split(t, {w}), <<w>>) = t
<1> DEFINE c == CutsOf(t, {w})
           n == Len(c)
           s == Split(t, {w})
           N == Len(s)
<1>1. Pieces(s, c, n, t, {w}) /\ Cuts(c, n, t, {w})
  BY SplitAre, CutsAre
<1>2. /\ s \in Seq(Text) /\ n \in Nat /\ n >= 2 /\ N = n - 1
      /\ c[1] = 0 /\ c[n] = Len(t) + 1
      /\ \A k \in 1 .. N : s[k] = SubSeq(t, c[k] + 1, c[k + 1] - 1)
      /\ \A k \in 1 .. n : c[k] \in 0 .. Len(t) + 1
      /\ \A j, k \in 1 .. n : j < k <=> c[j] < c[k]
      /\ \A k \in 2 .. n - 1 : c[k] \in 1 .. Len(t) /\ t[c[k]] \in {w}
  BY <1>1 DEF Pieces, Cuts
<1>3. <<w>> \in Text
  BY DEF Text
<1>4. Len(t) \in Nat
  BY TextIs
<1> HIDE DEF c, n, s
<1>5. PICK f \in [0 .. N -> Text] :
         /\ Joined(s, <<w>>) = f[N]
         /\ f[0] = <<>> /\ (N > 0 => f[1] = s[1])
         /\ \A k \in 2 .. N : f[k] = f[k - 1] \o <<w>> \o s[k]
  BY <1>2, <1>3, JoinedAre
<1> HIDE DEF N
<1> DEFINE Q == {k \in Nat : k + 1 <= N => f[k + 1] = SubSeq(t, 1, c[k + 1 + 1] - 1)}
<1>6. 0 \in Q
  <2> SUFFICES f[1] = SubSeq(t, 1, c[2] - 1)
    OBVIOUS
  <2>1. N > 0 /\ 1 \in 1 .. N
    BY <1>2
  <2>2. s[1] = SubSeq(t, c[1] + 1, c[1 + 1] - 1)
    BY <1>2, <2>1
  <2>3. c[1] + 1 = 1 /\ 1 + 1 = 2
    BY <1>2
  <2> QED BY <1>5, <2>1, <2>2, <2>3
<1>7. \A k \in Nat : k \in Q => k + 1 \in Q
  <2> SUFFICES ASSUME NEW k \in Nat, k \in Q, k + 1 + 1 <= N
               PROVE  f[k + 1 + 1] = SubSeq(t, 1, c[k + 1 + 1 + 1] - 1)
    OBVIOUS
  <2> DEFINE j == k + 1 + 1
             a == c[j]
             b == c[j + 1]
  <2>1. /\ j \in 2 .. N /\ j \in 1 .. N /\ j - 1 = k + 1 /\ j \in 2 .. n - 1
        /\ j \in 1 .. n /\ j + 1 \in 1 .. n /\ j < j + 1
    BY <1>2
  <2>2. f[j] = f[k + 1] \o <<w>> \o s[j]
    BY <1>5, <2>1
  <2>3. f[k + 1] = SubSeq(t, 1, a - 1)
    BY <1>2
  <2>4. s[j] = SubSeq(t, a + 1, b - 1)
    BY <1>2, <2>1
  <2> HIDE DEF j
  <2>5. a \in 1 .. Len(t) /\ t[a] = w
    BY <1>2, <2>1
  <2>6. c[j] < c[j + 1] /\ b \in 0 .. Len(t) + 1
    BY <1>2, <2>1
  <2> HIDE DEF a, b
  <2>7. b \in (a + 1) .. (Len(t) + 1)
    BY <1>4, <2>5, <2>6 DEF a, b
  <2>8. f[j] = SubSeq(t, 1, b - 1)
    BY <2>2, <2>3, <2>4, <2>5, <2>7, Rejoin
  <2> QED BY <2>8 DEF j, b
<1>8. \A k \in Nat : k \in Q
  <2> HIDE DEF Q
  <2> QED BY <1>6, <1>7, Induction
<1>9. f[N] = SubSeq(t, 1, c[n] - 1)
  <2> DEFINE k == N - 1
  <2>1. k \in Nat /\ k + 1 = N /\ k + 1 + 1 = n
    BY <1>2
  <2>2. f[k + 1] = SubSeq(t, 1, c[k + 1 + 1] - 1)
    BY <1>8, <2>1
  <2> HIDE DEF k
  <2> QED BY <2>1, <2>2
<1>10. c[n] - 1 = Len(t)
  BY <1>2, <1>4
<1>11. SubSeq(t, 1, Len(t)) = t
  BY SubSeqFull DEF Text
<1> QED BY <1>5, <1>9, <1>10, <1>11 DEF s

\* Cut at white space, a normal text has normal pieces, and none is empty.
LEMMA NormalPieces ==
    ASSUME NEW t \in Text, Normal(t), Len(t) > 0, NEW seps \in SUBSET WhiteSpace
    PROVE  \A k \in 1 .. Len(Split(t, seps)) :
              Len(Split(t, seps)[k]) > 0 /\ Normal(Split(t, seps)[k])
<1> DEFINE c == CutsOf(t, seps)
           n == Len(c)
           s == Split(t, seps)
           L == Len(t)
<1>1. Pieces(s, c, n, t, seps) /\ Cuts(c, n, t, seps)
  BY SplitAre, CutsAre
<1> HIDE DEF c, n, s
<1>2. L \in Nat /\ L > 0
  BY TextIs
<1>3. /\ \A i \in 1 .. L : t[i] # Return
      /\ IsVisible(t[1]) /\ IsVisible(t[L])
      /\ \A i \in 1 .. L - 1 : IsVisible(t[i]) \/ IsVisible(t[i + 1])
  BY <1>2 DEF Normal
<1>4. \A x \in seps : ~IsVisible(x)
  BY DEF IsVisible
<1> SUFFICES ASSUME NEW k \in 1 .. Len(s) PROVE Len(s[k]) > 0 /\ Normal(s[k])
  BY DEF s
<1> DEFINE a == c[k]
           b == c[k + 1]
           p == s[k]
<1>5. k \in 1 .. n - 1 /\ k \in 1 .. n /\ k + 1 \in 1 .. n /\ k < k + 1 /\ n \in Nat
  BY <1>1 DEF Pieces, Cuts
<1>6. a < b /\ a \in 0 .. L + 1 /\ b \in 0 .. L + 1
  BY <1>1, <1>5 DEF Cuts
<1>7. a = 0 \/ (a \in 1 .. L /\ t[a] \in seps)
  <2>1. k = 1 \/ k \in 2 .. n - 1
    BY <1>5
  <2> QED BY <2>1, <1>1 DEF Cuts
<1>8. b = L + 1 \/ (b \in 1 .. L /\ t[b] \in seps)
  <2>1. k + 1 = n \/ k + 1 \in 2 .. n - 1
    BY <1>5
  <2> QED BY <2>1, <1>1 DEF Cuts
<1>9. /\ p \in Text /\ Len(p) = b - a - 1
      /\ \A i \in 1 .. Len(p) : a + i \in 1 .. L /\ p[i] = t[a + i]
  BY <1>1, <1>5 DEF Pieces
<1> HIDE DEF a, b, p, L
<1>10. IsVisible(t[a + 1]) /\ a + 1 \in 1 .. L
  <2>1. CASE a = 0
    BY <1>2, <1>3, <2>1
  <2>2. CASE a \in 1 .. L /\ t[a] \in seps
    <3>1. a # L
      BY <1>3, <1>4, <2>2
    <3>2. a \in 1 .. L - 1
      BY <1>2, <2>2, <3>1
    <3> QED BY <1>2, <1>3, <1>4, <2>2, <3>2
  <2> QED BY <1>7, <2>1, <2>2
<1>11. IsVisible(t[b - 1]) /\ b - 1 \in 1 .. L
  <2>1. CASE b = L + 1
    BY <1>2, <1>3, <2>1
  <2>2. CASE b \in 1 .. L /\ t[b] \in seps
    <3>1. b # 1
      BY <1>3, <1>4, <2>2
    <3>2. b - 1 \in 1 .. L - 1 /\ (b - 1) + 1 = b
      BY <1>2, <2>2, <3>1
    <3> QED BY <1>2, <1>3, <1>4, <2>2, <3>2
  <2> QED BY <1>8, <2>1, <2>2
<1>12. b # a + 1
  <2> SUFFICES ASSUME b = a + 1 PROVE FALSE
    OBVIOUS
  <2>1. b \in 1 .. L /\ t[b] \in seps
    BY <1>2, <1>8, <1>10
  <2> QED BY <1>4, <1>10, <2>1
<1>13. Len(p) > 0 /\ Len(p) \in Nat
  BY <1>2, <1>6, <1>9, <1>12
<1>14. ASSUME NEW i \in 1 .. Len(p) PROVE p[i] # Return
  BY <1>3, <1>9
<1>15. IsVisible(p[1])
  <2>1. p[1] = t[a + 1]
    BY <1>9, <1>13
  <2> QED BY <1>10, <2>1
<1>16. IsVisible(p[Len(p)])
  <2>1. p[Len(p)] = t[a + Len(p)]
    BY <1>9, <1>13
  <2>2. a + Len(p) = b - 1
    BY <1>6, <1>9
  <2> QED BY <1>11, <2>1, <2>2
<1>17. ASSUME NEW i \in 1 .. Len(p) - 1 PROVE IsVisible(p[i]) \/ IsVisible(p[i + 1])
  <2>1. i \in 1 .. Len(p) /\ i + 1 \in 1 .. Len(p)
    BY <1>13
  <2>2. a + i \in 1 .. L /\ a + (i + 1) \in 1 .. L /\ p[i] = t[a + i] /\ p[i + 1] = t[a + (i + 1)]
    BY <1>9, <2>1
  <2>3. a + i \in 1 .. L - 1 /\ a + (i + 1) = (a + i) + 1
    BY <1>2, <1>6, <2>2
  <2> QED BY <1>3, <2>2, <2>3
<1>18. Normal(p)
  BY <1>14, <1>15, <1>16, <1>17 DEF Normal
<1> QED BY <1>13, <1>18 DEF p

LEMMA CollapsedStays ==
    ASSUME NEW line \in Text, Normal(line), Len(line) > 0
    PROVE  CollapseBlanks(line) = line
<1> DEFINE s == Split(line, {Blank})
<1>1. s \in Seq(Text)
  BY SplitAre DEF Pieces
<1>2. \A k \in 1 .. Len(s) : Len(s[k]) > 0
  <2>1. {Blank} \in SUBSET WhiteSpace
    BY DEF WhiteSpace
  <2> QED BY <2>1, NormalPieces
<1>3. Joined(s, <<Blank>>) = line
  <2>1. Blank \in Character
    BY DEF Character
  <2> QED BY <2>1, SplitJoin
<1> HIDE DEF s
<1>4. NonEmpty(s) = s
  BY <1>1, <1>2, NonEmptyAre
<1> QED BY <1>3, <1>4 DEF CollapseBlanks, s

LEMMA JoinedNothing ==
    ASSUME NEW pieces \in Seq(Text), Len(pieces) = 0, NEW w \in Text
    PROVE  Joined(pieces, w) = <<>>
<1>1. PICK f \in [0 .. Len(pieces) -> Text] :
         Joined(pieces, w) = f[Len(pieces)] /\ f[0] = <<>>
  BY JoinedAre
<1> QED BY <1>1

\* The pieces of nothing are nothing.
LEMMA SplitNothing ==
    ASSUME NEW t \in Text, Len(t) = 0, NEW seps
    PROVE  /\ Split(t, seps) \in Seq(Text)
           /\ \A k \in 1 .. Len(Split(t, seps)) : Len(Split(t, seps)[k]) = 0
<1> DEFINE c == CutsOf(t, seps)
           n == Len(c)
           s == Split(t, seps)
<1>1. Pieces(s, c, n, t, seps)
  BY SplitAre
<1> HIDE DEF c, n, s
<1>2. s \in Seq(Text) /\ Len(s) = n - 1
  BY <1>1 DEF Pieces
<1>3. ASSUME NEW k \in 1 .. Len(s) PROVE Len(s[k]) = 0
  <2>1. s[k] \in Text /\ \A i \in 1 .. Len(s[k]) : c[k] + i \in 1 .. Len(t)
    BY <1>1, <1>2 DEF Pieces
  <2>2. Len(s[k]) \in Nat
    BY <2>1, TextIs
  <2> DEFINE l == Len(s[k])
  <2> HIDE DEF l
  <2>3. \A i \in 1 .. l : FALSE
    BY <2>1 DEF l
  <2> QED BY <2>2, <2>3 DEF l
<1> QED BY <1>2, <1>3 DEF s

\* str.splitlines and " ".join(line.split()) change nothing of a normal text.
LEMMA NormalStays ==
    ASSUME NEW t \in Text, Normal(t)
    PROVE  NormalizeExtractedText(t) = t
<1> DEFINE seps == {NewLine, Return}
           s == Split(t, seps)
           d == [l \in DOMAIN s |-> CollapseBlanks(s[l])]
           N == Len(s)
<1>1. /\ s \in Seq(Text) /\ N \in Nat /\ DOMAIN s = 1 .. N
      /\ \A l \in 1 .. N : s[l] \in Text
  <2>1. s \in Seq(Text)
    BY SplitAre DEF Pieces
  <2> HIDE DEF s
  <2> QED BY <2>1, LenProperties, ElementOfSeq
<1>2. NormalizeExtractedText(t) = Joined(NonEmpty(d), <<NewLine>>)
  BY DEF NormalizeExtractedText
<1>3. NewLine \in Character /\ <<NewLine>> \in Text /\ <<Blank>> \in Text
  BY DEF Character, Text
<1>4. CASE Len(t) = 0
  <2>1. \A l \in 1 .. N : Len(s[l]) = 0
    BY <1>4, SplitNothing
  <2>2. ASSUME NEW l \in 1 .. N PROVE CollapseBlanks(s[l]) = <<>>
    <3> DEFINE q == s[l]
               e == NonEmpty(Split(q, {Blank}))
    <3>1. q \in Text /\ Len(q) = 0
      BY <1>1, <2>1
    <3> HIDE DEF q
    <3>2. e \in Seq(Text) /\ Len(e) = 0
      BY <3>1, SplitNothing, NonEmptyAre
    <3>3. CollapseBlanks(q) = Joined(e, <<Blank>>)
      BY DEF CollapseBlanks
    <3> HIDE DEF e
    <3> QED BY <1>3, <3>2, <3>3, JoinedNothing DEF q
  <2>3. <<>> \in Text /\ Len(<<>>) = 0
    BY DEF Text
  <2>4. d \in [1 .. N -> Text] /\ \A l \in 1 .. N : d[l] = <<>>
    BY <1>1, <2>2, <2>3
  <2> HIDE DEF d, s, N
  <2>5. d \in Seq(Text) /\ Len(d) = N
    BY <1>1, <2>4, TupleIs
  <2>6. \A l \in 1 .. Len(d) : Len(d[l]) = 0
    BY <2>3, <2>4, <2>5
  <2>7. NonEmpty(d) \in Seq(Text) /\ Len(NonEmpty(d)) = 0
    BY <2>5, <2>6, NonEmptyAre
  <2>8. Joined(NonEmpty(d), <<NewLine>>) = <<>>
    BY <1>3, <2>7, JoinedNothing
  <2>9. t = <<>>
    BY <1>4, TextIs
  <2> QED BY <1>2, <2>8, <2>9
<1>5. CASE Len(t) > 0
  <2>1. \A l \in 1 .. N : Len(s[l]) > 0 /\ Normal(s[l])
    <3>1. seps \in SUBSET WhiteSpace
      BY DEF WhiteSpace
    <3> HIDE DEF seps
    <3> QED BY <1>5, <3>1, NormalPieces
  <2>2. \A l \in 1 .. N : CollapseBlanks(s[l]) = s[l]
    BY <1>1, <2>1, CollapsedStays
  <2>3. d = s
    <3>1. s = [l \in 1 .. N |-> s[l]]
      <4> HIDE DEF s
      <4> QED BY <1>1, TupleIs, SeqEqual DEF N
    <3>2. d = [l \in 1 .. N |-> s[l]]
      BY <1>1, <2>2
    <3> QED BY <3>1, <3>2
  <2>4. NonEmpty(s) = s
    <3> HIDE DEF s
    <3> QED BY <1>1, <2>1, NonEmptyAre DEF N
  <2>5. s = Split(t, {NewLine})
    <3>1. \A i \in DOMAIN t : t[i] \in seps <=> t[i] \in {NewLine}
      BY TextIs DEF Normal
    <3>2. {i \in DOMAIN t : t[i] \in seps} = {i \in DOMAIN t : t[i] \in {NewLine}}
      BY <3>1
    <3> HIDE DEF seps
    <3> QED BY <3>2, Zenon DEF Split, s
  <2>6. Joined(Split(t, {NewLine}), <<NewLine>>) = t
    BY <1>3, SplitJoin
  <2> QED BY <1>2, <2>3, <2>4, <2>5, <2>6
<1>6. Len(t) \in Nat
  BY TextIs
<1> QED BY <1>4, <1>5, <1>6

-----------------------------------------------------------------------------
\* str.strip().

LEMMA StripAre ==
    ASSUME NEW t \in Text
    PROVE  /\ Strip(t) \in Text
           /\ Strip(t) = <<>> <=> \A i \in 1 .. Len(t) : ~IsVisible(t[i])
           /\ (Len(t) > 0 /\ IsVisible(t[1]) /\ IsVisible(t[Len(t)])) => Strip(t) = t
<1> DEFINE V == {i \in DOMAIN t : IsVisible(t[i])}
           a == CHOOSE i \in V : \A j \in V : i <= j
           b == CHOOSE i \in V : \A j \in V : i >= j
           L == Len(t)
<1>1. L \in Nat /\ DOMAIN t = 1 .. L /\ \A i \in 1 .. L : t[i] \in Character
  BY TextIs
<1>2. V = {} => Strip(t) = <<>>
  BY DEF Strip
<1>3. V # {} => Strip(t) = SubSeq(t, a, b)
  BY Zenon DEF Strip
<1>4. V \in SUBSET Nat /\ \A i \in V : i <= L /\ i \in 1 .. L
  BY <1>1
<1>5. V = {} <=> \A i \in 1 .. L : ~IsVisible(t[i])
  BY <1>1
<1>6. (L > 0 /\ IsVisible(t[1]) /\ IsVisible(t[L])) => 1 \in V /\ L \in V
  BY <1>1
<1> HIDE DEF V
<1>7. V # {} => /\ a \in V /\ \A j \in V : a <= j
                /\ b \in V /\ \A j \in V : b >= j
  <2> SUFFICES ASSUME V # {} PROVE /\ a \in V /\ \A j \in V : a <= j
                                   /\ b \in V /\ \A j \in V : b >= j
    OBVIOUS
  <2>1. \E i \in V : \A j \in V : i <= j
    BY <1>4, Smallest
  <2>2. \E i \in V : \A j \in V : j <= i
    BY <1>1, <1>4, Largest
  <2>3. \E i \in V : \A j \in V : i >= j
    BY <1>4, <2>2
  <2> QED BY <2>1, <2>3, Zenon
<1> HIDE DEF a, b
<1>8. ASSUME V # {}
      PROVE  /\ a \in 1 .. L /\ b \in 1 .. L /\ a <= b
             /\ SubSeq(t, a, b) \in Text /\ Len(SubSeq(t, a, b)) = b - a + 1
  <2>1. a \in 1 .. L /\ b \in 1 .. L /\ a <= b
    BY <1>4, <1>7, <1>8
  <2>2. a \in Int /\ b \in Int /\ \A i \in a .. b : t[i] \in Character
    BY <1>1, <2>1
  <2>3. /\ SubSeq(t, a, b) \in Seq(Character)
        /\ Len(SubSeq(t, a, b)) = IF a <= b THEN b - a + 1 ELSE 0
    BY <2>2, SubSeqProperties
  <2> QED BY <2>1, <2>3 DEF Text
<1>9. Strip(t) \in Text
  <2>1. <<>> \in Text
    BY DEF Text
  <2> QED BY <1>2, <1>3, <1>8, <2>1
<1>10. V # {} => Strip(t) # <<>>
  <2> SUFFICES ASSUME V # {}, Strip(t) = <<>> PROVE FALSE
    OBVIOUS
  <2> DEFINE q == SubSeq(t, a, b)
  <2>1. q = <<>>
    BY <1>3
  <2>2. Len(q) \in Int /\ Len(q) > 0
    BY <1>8
  <2> HIDE DEF q
  <2>3. Len(q) = 0
    BY <2>1
  <2> QED BY <2>2, <2>3
<1>11. ASSUME L > 0, IsVisible(t[1]), IsVisible(t[L]) PROVE Strip(t) = t
  <2>1. 1 \in V /\ L \in V /\ V # {}
    BY <1>6, <1>11
  <2>2. a = 1 /\ b = L
    BY <1>1, <1>7, <1>8, <2>1
  <2>3. SubSeq(t, 1, L) = t
    BY SubSeqFull DEF Text
  <2> QED BY <1>3, <2>1, <2>2, <2>3
<1> QED BY <1>2, <1>5, <1>9, <1>10, <1>11 DEF L

LEMMA NormalStrip ==
    ASSUME NEW t \in Text, Normal(t)
    PROVE  Strip(t) = t
<1>1. CASE Len(t) = 0
  <2>1. t = <<>>
    BY <1>1, TextIs
  <2>2. \A i \in 1 .. Len(t) : ~IsVisible(t[i])
    BY <1>1
  <2> QED BY <2>1, <2>2, StripAre
<1>2. CASE Len(t) > 0
  BY <1>2, StripAre DEF Normal
<1>3. Len(t) \in Nat
  BY TextIs
<1> QED BY <1>1, <1>2, <1>3

-----------------------------------------------------------------------------
\* Windows over a text.

\* Max and Min are what they are called.
LEMMA MaxIs ==
    ASSUME NEW S \in SUBSET Nat, S # {}, NEW b \in Nat, \A n \in S : n <= b
    PROVE  Max(S) \in S /\ \A n \in S : n <= Max(S)
<1>1. PICK m \in S : \A n \in S : n <= m
  BY Largest
<1>2. \A n \in S : m >= n
  BY <1>1
<1>3. Max(S) \in S /\ \A n \in S : Max(S) >= n
  BY <1>1, <1>2, Zenon DEF Max
<1> QED BY <1>3

LEMMA MinIs ==
    ASSUME NEW S \in SUBSET Nat, S # {}
    PROVE  Min(S) \in S /\ \A n \in S : Min(S) <= n
<1>1. PICK m \in S : \A n \in S : m <= n
  BY Smallest
<1> QED BY <1>1, Zenon DEF Min

LEMMA SeparatorsAre ==
    \A s \in BreakSeparators : Len(s) \in {1, 2}
BY DEF BreakSeparators

\* The positions behind the separators that lie between two offsets.
Breaks(text, from, to) ==
    UNION {{p + Len(s) : p \in Occurrences(text, s, from, to)} : s \in BreakSeparators}

\* Occurrences, as membership.
LEMMA OccursIn ==
    ASSUME NEW text, NEW part, NEW from \in Int, NEW to \in Int, Len(part) \in Nat, NEW p
    PROVE  p \in Occurrences(text, part, from, to) <=>
              /\ p \in Int /\ from <= p /\ p + Len(part) <= to
              /\ SubSeq(text, p + 1, p + Len(part)) = part
<1> DEFINE n == Len(part)
           Q(x) == SubSeq(text, x + 1, x + n) = part
<1>1. Occurrences(text, part, from, to) = {x \in from .. to - n : Q(x)}
  BY Zenon DEF Occurrences
<1>2. n \in Nat
  OBVIOUS
<1>3. SubSeq(text, p + 1, p + Len(part)) = part <=> Q(p)
  OBVIOUS
<1> HIDE DEF Q, n
<1>4. p \in Occurrences(text, part, from, to) <=> p \in from .. to - n /\ Q(p)
  BY <1>1
<1>5. p \in from .. to - n <=> p \in Int /\ from <= p /\ p + n <= to
  BY <1>2
<1> QED BY <1>3, <1>4, <1>5 DEF n

LEMMA OccursOnce ==
    ASSUME NEW text, NEW part, NEW from \in Int, NEW to \in Int, Len(part) = 1,
           NEW p \in Occurrences(text, part, from, to)
    PROVE  p \in Int /\ from <= p /\ p + 1 <= to /\ SubSeq(text, p + 1, p + 1) = part
<1> DEFINE Q(x) == SubSeq(text, x + 1, x + Len(part)) = part
<1>1. Occurrences(text, part, from, to) = {x \in from .. to - Len(part) : Q(x)}
  BY Zenon DEF Occurrences
<1>2. Q(p) => SubSeq(text, p + 1, p + 1) = part
  OBVIOUS
<1> HIDE DEF Q
<1>3. p \in from .. to - Len(part) /\ Q(p)
  BY <1>1
<1> QED BY <1>2, <1>3

\* A break lies behind the offset from which it is looked for.
LEMMA BreaksAre ==
    ASSUME NEW text, NEW from \in Nat, NEW to \in Nat
    PROVE  \A e \in Breaks(text, from, to) : e \in Nat /\ from + 1 <= e /\ e <= to
<1> SUFFICES ASSUME NEW e \in Breaks(text, from, to)
             PROVE  e \in Nat /\ from + 1 <= e /\ e <= to
  OBVIOUS
<1>1. PICK s \in BreakSeparators : \E p \in Occurrences(text, s, from, to) : e = p + Len(s)
  BY DEF Breaks
<1>2. PICK p \in Occurrences(text, s, from, to) : e = p + Len(s)
  BY <1>1
<1>3. Len(s) \in {1, 2} /\ Len(s) \in Nat
  BY SeparatorsAre
<1> DEFINE n == Len(s)
<1>4. p \in Int /\ from <= p /\ p + n <= to /\ n \in {1, 2} /\ e = p + n
  BY <1>2, <1>3, OccursIn
<1> HIDE DEF n
<1> QED BY <1>4

\* A break of a later window is one of an earlier window that reaches so far, and
\* a break of an earlier window is one of a later that begins before it.
LEMMA BreaksMove ==
    ASSUME NEW text, NEW from1 \in Nat, NEW to1 \in Nat, NEW from2 \in Nat, NEW to2 \in Nat,
           from1 <= from2, to1 <= to2
    PROVE  /\ \A e \in Breaks(text, from2, to2) : e <= to1 => e \in Breaks(text, from1, to1)
           /\ \A e \in Breaks(text, from1, to1) :
                 e <= from2 + 1 \/ e \in Breaks(text, from2, to2)
<1>1. ASSUME NEW e \in Breaks(text, from2, to2), e <= to1
      PROVE  e \in Breaks(text, from1, to1)
  <2>1. PICK s \in BreakSeparators : \E p \in Occurrences(text, s, from2, to2) : e = p + Len(s)
    BY DEF Breaks
  <2>2. PICK p \in Occurrences(text, s, from2, to2) : e = p + Len(s)
    BY <2>1
  <2>3. Len(s) \in {1, 2} /\ Len(s) \in Nat
    BY SeparatorsAre
  <2>4. p \in Int /\ from2 <= p /\ SubSeq(text, p + 1, p + Len(s)) = s
    BY <2>3, OccursIn
  <2>5. from1 <= p /\ p + Len(s) <= to1
    BY <1>1, <2>2, <2>4
  <2>6. p \in Occurrences(text, s, from1, to1)
    <3>1. from1 \in Int /\ to1 \in Int
      OBVIOUS
    <3> QED BY <2>3, <2>4, <2>5, <3>1, OccursIn
  <2> QED BY <2>2, <2>6 DEF Breaks
<1>2. ASSUME NEW e \in Breaks(text, from1, to1), ~(e <= from2 + 1)
      PROVE  e \in Breaks(text, from2, to2)
  <2>1. PICK s \in BreakSeparators : \E p \in Occurrences(text, s, from1, to1) : e = p + Len(s)
    BY DEF Breaks
  <2>2. PICK p \in Occurrences(text, s, from1, to1) : e = p + Len(s)
    BY <2>1
  <2>3. Len(s) \in {1, 2} /\ Len(s) \in Nat
    BY SeparatorsAre
  <2>4. p \in Int /\ p + Len(s) <= to1 /\ SubSeq(text, p + 1, p + Len(s)) = s
    BY <2>3, OccursIn
  <2>5. from2 <= p /\ p + Len(s) <= to2
    <3> DEFINE n == Len(s)
    <3>1. n \in {1, 2} /\ e = p + n /\ p + n <= to1 /\ p \in Int
      BY <2>2, <2>3, <2>4
    <3> HIDE DEF n
    <3>2. from2 <= p /\ p + n <= to2
      BY <1>2, <3>1
    <3> QED BY <3>2 DEF n
  <2>6. p \in Occurrences(text, s, from2, to2)
    <3>1. from2 \in Int /\ to2 \in Int
      OBVIOUS
    <3> QED BY <2>3, <2>4, <2>5, <3>1, OccursIn
  <2> QED BY <2>2, <2>6 DEF Breaks
<1> QED BY <1>1, <1>2

MinimumEnd(begin, size) == Min({begin + size, begin + MinimumBreak(size)})

\* The least end of a window lies behind its start, and moves with it.
LEMMA MinimumEndIs ==
    ASSUME NEW size \in Nat, size > 0
    PROVE  \A begin \in Nat : /\ MinimumEnd(begin, size) \in Nat
                              /\ begin + 1 <= MinimumEnd(begin, size)
                              /\ \A later \in Nat : begin <= later =>
                                    MinimumEnd(begin, size) <= MinimumEnd(later, size)
<1> DEFINE m == MinimumBreak(size)
<1>1. m \in Nat /\ m >= 1
  <2> DEFINE q == (size * 6) \div 10
             b == IF q > 1 THEN q ELSE 1
  <2>1. q \in Int
    OBVIOUS
  <2> HIDE DEF q
  <2>2. {1, q} # {}
    OBVIOUS
  <2>3. b \in {1, q} /\ (\A n \in {1, q} : b >= n)
    BY <2>1
  <2>4. m \in {1, q} /\ \A n \in {1, q} : m >= n
    BY <2>3, Zenon DEF MinimumBreak, Max, q
  <2> QED BY <2>1, <2>4
<1>2. ASSUME NEW begin \in Nat
      PROVE  MinimumEnd(begin, size) = IF size <= m THEN begin + size ELSE begin + m
  <2> HIDE DEF m
  <2> DEFINE S == {begin + size, begin + m}
  <2>1. S \in SUBSET Nat /\ S # {}
    BY <1>1
  <2>2. Min(S) \in S /\ \A n \in S : Min(S) <= n
    BY <2>1, MinIs
  <2>3. MinimumEnd(begin, size) = Min(S)
    BY Zenon DEF MinimumEnd, m
  <2> QED BY <1>1, <2>2, <2>3
<1> HIDE DEF m
<1> QED BY <1>1, <1>2

LEMMA ChunkEndIs ==
    ASSUME NEW text, Len(text) \in Nat, NEW begin \in Nat, NEW size \in Nat, size > 0
    PROVE  FindChunkEnd(text, begin, size) =
              LET breaks == Breaks(text, MinimumEnd(begin, size), begin + size)
              IN  IF begin + size >= Len(text) THEN Len(text)
                  ELSE IF breaks = {} THEN begin + size ELSE Max(breaks)
BY Zenon DEF FindChunkEnd, Breaks, MinimumEnd

\* A window ends behind its start, and not behind its size or the text.
LEMMA ChunkEndBounds ==
    ASSUME NEW text, Len(text) \in Nat, NEW begin \in Nat, begin < Len(text),
           NEW size \in Nat, size > 0
    PROVE  /\ FindChunkEnd(text, begin, size) \in begin + 1 .. begin + size
           /\ FindChunkEnd(text, begin, size) <= Len(text)
<1> DEFINE from == MinimumEnd(begin, size)
           to == begin + size
           breaks == Breaks(text, from, to)
           e == FindChunkEnd(text, begin, size)
<1>1. from \in Nat /\ begin + 1 <= from /\ to \in Nat
  <2>1. MinimumEnd(begin, size) \in Nat /\ begin + 1 <= MinimumEnd(begin, size)
    BY MinimumEndIs
  <2> QED BY <2>1
<1>2. e = IF to >= Len(text) THEN Len(text) ELSE IF breaks = {} THEN to ELSE Max(breaks)
  BY ChunkEndIs, Zenon
<1> HIDE DEF from, e
<1>3. \A n \in breaks : n \in Nat /\ begin + 1 <= n /\ n <= to
  BY <1>1, BreaksAre
<1> HIDE DEF breaks
<1>4. breaks # {} => Max(breaks) \in breaks
  BY <1>1, <1>3, MaxIs
<1>5. CASE to >= Len(text)
  BY <1>2, <1>5 DEF e
<1>6. CASE ~(to >= Len(text)) /\ breaks = {}
  BY <1>2, <1>6 DEF e
<1>7. CASE ~(to >= Len(text)) /\ breaks # {}
  BY <1>1, <1>2, <1>3, <1>4, <1>7 DEF e
<1> QED BY <1>5, <1>6, <1>7

\* A later window does not end earlier.
LEMMA ChunkEndGrows ==
    ASSUME NEW text, Len(text) \in Nat, NEW start1 \in Nat, NEW start2 \in Nat,
           start1 < start2, start2 < Len(text), NEW size \in Nat, size > 0
    PROVE  FindChunkEnd(text, start1, size) <= FindChunkEnd(text, start2, size)
<1> DEFINE L == Len(text)
           from1 == MinimumEnd(start1, size)
           to1 == start1 + size
           breaks1 == Breaks(text, from1, to1)
           e1 == FindChunkEnd(text, start1, size)
           from2 == MinimumEnd(start2, size)
           to2 == start2 + size
           breaks2 == Breaks(text, from2, to2)
           e2 == FindChunkEnd(text, start2, size)
<1>1. /\ from1 \in Nat /\ from2 \in Nat /\ from1 <= from2
      /\ to1 \in Nat /\ to2 \in Nat /\ to1 < to2
  <2>1. /\ MinimumEnd(start1, size) \in Nat /\ MinimumEnd(start2, size) \in Nat
        /\ MinimumEnd(start1, size) <= MinimumEnd(start2, size)
    <3>1. start1 <= start2
      OBVIOUS
    <3> QED BY <3>1, MinimumEndIs
  <2> QED BY <2>1
<1>2. e1 = IF to1 >= L THEN L ELSE IF breaks1 = {} THEN to1 ELSE Max(breaks1)
  BY ChunkEndIs, Zenon
<1>3. e2 = IF to2 >= L THEN L ELSE IF breaks2 = {} THEN to2 ELSE Max(breaks2)
  BY ChunkEndIs, Zenon
<1>4. e1 \in Int /\ e1 <= to1 /\ e1 <= L /\ e2 \in Int
  <2>1. start1 < Len(text)
    OBVIOUS
  <2>2. e1 \in start1 + 1 .. start1 + size /\ e1 <= Len(text)
    BY <2>1, ChunkEndBounds
  <2>3. e2 \in start2 + 1 .. start2 + size
    BY ChunkEndBounds
  <2> QED BY <2>2, <2>3
<1> HIDE DEF from1, from2, to1, to2, e1, e2, L
<1>5. /\ \A n \in breaks1 : n \in Nat /\ n <= to1
      /\ \A n \in breaks2 : n \in Nat /\ from2 + 1 <= n /\ n <= to2
  BY <1>1, BreaksAre
<1>6. /\ \A n \in breaks2 : n <= to1 => n \in breaks1
      /\ \A n \in breaks1 : n <= from2 + 1 \/ n \in breaks2
  BY <1>1, BreaksMove
<1> HIDE DEF breaks1, breaks2
<1>7. /\ breaks1 # {} => Max(breaks1) \in breaks1
      /\ breaks2 # {} => Max(breaks2) \in breaks2 /\ \A n \in breaks2 : n <= Max(breaks2)
  BY <1>1, <1>5, MaxIs
<1>8. L \in Nat
  BY DEF L
<1>9. CASE to2 >= L
  BY <1>3, <1>4, <1>9 DEF e1, e2
<1>10. CASE ~(to2 >= L) /\ breaks2 = {}
  BY <1>1, <1>3, <1>4, <1>10 DEF e1, e2
<1>11. CASE ~(to2 >= L) /\ breaks2 # {} /\ breaks1 = {}
  <2>1. e2 \in breaks2
    BY <1>3, <1>7, <1>11
  <2>2. ~(e2 <= to1)
    BY <1>6, <1>11, <2>1
  <2> QED BY <1>1, <1>4, <2>2 DEF e1, e2
<1>12. CASE ~(to2 >= L) /\ breaks2 # {} /\ breaks1 # {}
  <2>1. e2 \in breaks2 /\ \A n \in breaks2 : n <= e2
    BY <1>3, <1>7, <1>12
  <2>2. e1 \in breaks1
    <3>1. ~(to1 >= L)
      BY <1>1, <1>8, <1>12
    <3> QED BY <1>2, <1>7, <1>12, <3>1
  <2>3. e1 <= from2 + 1 \/ e1 \in breaks2
    BY <1>6, <2>2
  <2>4. from2 + 1 <= e2
    BY <1>5, <2>1
  <2> QED BY <1>1, <1>4, <2>1, <2>3, <2>4 DEF e1, e2
<1> QED BY <1>9, <1>10, <1>11, <1>12

\* A window that begins with a visible character loses only white space behind.
LEMMA Trimmed ==
    ASSUME NEW text \in Text, NEW begin \in Nat, NEW end \in Nat,
           begin < end, end <= Len(text), IsVisible(text[begin + 1])
    PROVE  LET r == TrimChunkRange(text, begin, end)
           IN  /\ r = [start |-> begin, end |-> r.end, text |-> SubSeq(text, begin + 1, r.end)]
               /\ r.end \in begin + 1 .. end /\ IsVisible(text[r.end])
               /\ \A i \in r.end + 1 .. end : ~IsVisible(text[i])
<1> DEFINE V == {i \in begin .. end - 1 : IsVisible(text[i + 1])}
           first == Min(V)
           last == Max(V)
           r == TrimChunkRange(text, begin, end)
<1>1. begin \in V /\ V \in SUBSET Nat /\ \A i \in V : begin <= i /\ i <= end - 1
  OBVIOUS
<1>2. \A i \in begin .. end - 1 : IsVisible(text[i + 1]) => i \in V
  OBVIOUS
<1>3. \A i \in V : IsVisible(text[i + 1])
  OBVIOUS
<1>4. r = IF V = {} THEN [start |-> end, end |-> end, text |-> <<>>]
          ELSE [start |-> first, end |-> last + 1, text |-> SubSeq(text, first + 1, last + 1)]
  BY Zenon DEF TrimChunkRange
<1> HIDE DEF V, r
<1>5. first \in V /\ \A n \in V : first <= n
  BY <1>1, MinIs
<1>6. last \in V /\ \A n \in V : n <= last
  <2>1. end \in Nat /\ \A n \in V : n <= end
    BY <1>1
  <2> QED BY <1>1, <2>1, MaxIs
<1> HIDE DEF first, last
<1>7. first = begin
  BY <1>1, <1>5
<1>8. r = [start |-> begin, end |-> last + 1, text |-> SubSeq(text, begin + 1, last + 1)]
  BY <1>1, <1>4, <1>7
<1>9. r.end = last + 1
  BY <1>8
<1>10. last \in Nat /\ begin <= last /\ last <= end - 1
  BY <1>1, <1>6
<1>11. IsVisible(text[last + 1])
  BY <1>3, <1>6
<1>12. ASSUME NEW i \in last + 2 .. end PROVE ~IsVisible(text[i])
  <2> DEFINE j == i - 1
  <2>1. j \in begin .. end - 1 /\ j + 1 = i /\ ~(j <= last)
    BY <1>10
  <2> HIDE DEF j
  <2>2. j \notin V
    BY <1>6, <2>1
  <2> QED BY <1>2, <2>1, <2>2
<1>13. r.end \in begin + 1 .. end
  BY <1>9, <1>10
<1>14. \A i \in r.end + 1 .. end : ~IsVisible(text[i])
  <2> SUFFICES ASSUME NEW i \in r.end + 1 .. end PROVE ~IsVisible(text[i])
    OBVIOUS
  <2>1. i \in last + 2 .. end
    BY <1>9, <1>10
  <2> QED BY <1>12, <2>1
<1>15. r = [start |-> begin, end |-> r.end, text |-> SubSeq(text, begin + 1, r.end)]
  BY <1>8, <1>9
<1> QED BY <1>9, <1>11, <1>13, <1>14, <1>15 DEF r

\* Only white space is skipped.
LEMMA Skipped ==
    ASSUME NEW text \in Text, NEW from \in Nat, from <= Len(text)
    PROVE  LET n == SkipWhiteSpace(text, from)
           IN  /\ n \in from .. Len(text)
               /\ n < Len(text) => IsVisible(text[n + 1])
               /\ \A i \in from + 1 .. n : ~IsVisible(text[i])
<1> DEFINE L == Len(text)
           S == {p \in from .. L : p = L \/ IsVisible(text[p + 1])}
           n == SkipWhiteSpace(text, from)
<1>1. L \in Nat
  BY TextIs
<1>2. n = Min(S)
  BY Zenon DEF SkipWhiteSpace
<1>3. S \in SUBSET Nat /\ L \in S
  BY <1>1
<1>4. \A p \in S : p \in from .. L /\ (p = L \/ IsVisible(text[p + 1]))
  OBVIOUS
<1>5. \A p \in from .. L : IsVisible(text[p + 1]) => p \in S
  OBVIOUS
<1> HIDE DEF S, n, L
<1>6. n \in S /\ \A p \in S : n <= p
  BY <1>2, <1>3, MinIs
<1>7. n \in from .. L /\ (n < L => IsVisible(text[n + 1]))
  BY <1>1, <1>4, <1>6
<1>8. ASSUME NEW i \in from + 1 .. n PROVE ~IsVisible(text[i])
  <2> DEFINE j == i - 1
  <2>1. j \in from .. L /\ j + 1 = i /\ ~(n <= j)
    BY <1>1, <1>7
  <2> HIDE DEF j
  <2>2. j \notin S
    BY <1>6, <2>1
  <2> QED BY <1>5, <2>1, <2>2
<1> QED BY <1>7, <1>8 DEF n, L

\* The next window begins behind the start of this one, with a visible character
\* if the text has not ended, and between the windows lies only white space.
LEMMA NextStartIs ==
    ASSUME NEW text \in Text, NEW begin \in Nat, NEW end \in Nat,
           begin < end, end <= Len(text), NEW overlap \in Nat
    PROVE  LET n == FindNextStart(text, begin, end, overlap)
           IN  /\ n \in begin + 1 .. Len(text)
               /\ n < Len(text) => IsVisible(text[n + 1])
               /\ \A i \in end + 1 .. n : ~IsVisible(text[i])
<1> DEFINE L == Len(text)
           S == {begin + 1, end - overlap}
           wanted == Max(S)
           blanks == Occurrences(text, <<Blank>>, begin + 1, wanted + 1)
           back == InsideWord(text, wanted) /\ blanks # {}
           from == IF back THEN Max(blanks) + 1 ELSE wanted
           n == FindNextStart(text, begin, end, overlap)
<1>1. L \in Nat
  BY TextIs
<1>2. n = IF end >= L THEN L ELSE SkipWhiteSpace(text, from)
  BY Zenon DEF FindNextStart
<1>3. CASE end >= L
  <2>1. n = L /\ end = L
    BY <1>1, <1>2, <1>3
  <2> HIDE DEF n
  <2>2. L \in begin + 1 .. L /\ ~(L < L) /\ \A i \in end + 1 .. L : FALSE
    BY <1>1, <2>1
  <2> HIDE DEF L
  <2> QED BY <2>1, <2>2 DEF n, L
<1>4. CASE ~(end >= L)
  <2>1. wanted \in begin + 1 .. end
    <3> DEFINE b == IF begin + 1 >= end - overlap THEN begin + 1 ELSE end - overlap
    <3>1. b \in S /\ (\A x \in S : b >= x) /\ S \in SUBSET Int
      OBVIOUS
    <3> HIDE DEF b
    <3>2. wanted \in S /\ \A x \in S : wanted >= x
      BY <3>1, Zenon DEF Max
    <3> HIDE DEF wanted
    <3> QED BY <3>2
  <2> HIDE DEF wanted, L
  <2>2. Len(<<Blank>>) = 1 /\ <<Blank>>[1] = Blank
    OBVIOUS
  <2>3. ASSUME NEW p \in blanks
        PROVE  p \in begin + 1 .. wanted /\ SubSeq(text, p + 1, p + 1) = <<Blank>>
    <3>1. wanted + 1 \in Int /\ begin + 1 \in Int /\ wanted \in Int
      BY <2>1
    <3> DEFINE to == wanted + 1
               low == begin + 1
               w == <<Blank>>
    <3>2. p \in Occurrences(text, w, low, to) /\ to \in Int /\ low \in Int /\ Len(w) = 1
      BY <2>2, <3>1
    <3> HIDE DEF to, low, w
    <3>3. p \in Int /\ low <= p /\ p + 1 <= to /\ SubSeq(text, p + 1, p + 1) = w
      <4> HIDE DEF blanks
      <4> QED BY <3>2, OccursOnce
    <3> QED BY <3>1, <3>3 DEF to, low, w
  <2>4. \A p \in blanks : p \in Nat /\ p <= wanted
    BY <2>1, <2>3
  <2> HIDE DEF blanks
  <2>5. from \in begin + 1 .. end
    <3>1. CASE back
      <4>1. Max(blanks) \in blanks
        <5>1. wanted \in Nat
          BY <2>1
        <5> QED BY <2>4, <3>1, <5>1, MaxIs
      <4> DEFINE p == Max(blanks)
      <4>2. p \in begin + 1 .. wanted /\ SubSeq(text, p + 1, p + 1) = <<Blank>>
        BY <2>3, <4>1
      <4>3. from = p + 1
        BY <3>1
      <4> HIDE DEF p
      <4>4. wanted < L /\ text[wanted + 1] = Letter
        BY <3>1 DEF InsideWord, L
      <4>5. p # wanted
        <5> SUFFICES ASSUME p = wanted PROVE FALSE
          OBVIOUS
        <5> DEFINE x == SubSeq(text, p + 1, p + 1)
                   j == p + 1
        <5>1. j \in 1 .. L /\ j \in Int
          BY <1>1, <2>1, <4>4
        <5>2. \A i \in j .. j : text[i] \in Character
          BY <5>1, TextIs DEF L
        <5>3. x[1] = text[j]
          <6> HIDE DEF j
          <6>1. /\ Len(SubSeq(text, j, j)) = IF j <= j THEN j - j + 1 ELSE 0
                /\ \A i \in 1 .. j - j + 1 : SubSeq(text, j, j)[i] = text[j + i - 1]
            BY <5>1, <5>2, SubSeqProperties
          <6>2. SubSeq(text, j, j)[1] = text[j + 1 - 1]
            BY <5>1, <6>1
          <6>3. j + 1 - 1 = j
            BY <5>1
          <6> QED BY <6>2, <6>3 DEF j
        <5>4. x[1] = Blank
          BY <2>2, <4>2
        <5> HIDE DEF x, j
        <5>5. text[j] = Letter
          BY <4>4 DEF j
        <5> QED BY <5>3, <5>4, <5>5 DEF Letter, Blank
      <4> QED BY <2>1, <4>2, <4>3, <4>5
    <3>2. CASE ~back
      BY <2>1, <3>2
    <3> QED BY <3>1, <3>2
  <2>6. n = SkipWhiteSpace(text, from)
    BY <1>2, <1>4
  <2> HIDE DEF from, n
  <2>7. from \in Nat /\ from <= Len(text)
    BY <1>1, <1>4, <2>5 DEF L
  <2>8. /\ n \in from .. Len(text)
        /\ n < Len(text) => IsVisible(text[n + 1])
        /\ \A i \in from + 1 .. n : ~IsVisible(text[i])
    BY <2>6, <2>7, Skipped
  <2>9. n \in begin + 1 .. Len(text)
    BY <2>5, <2>7, <2>8
  <2>10. \A i \in end + 1 .. n : i \in from + 1 .. n
    BY <2>5, <2>7, <2>8
  <2> QED BY <2>8, <2>9, <2>10 DEF n
<1> QED BY <1>3, <1>4

-----------------------------------------------------------------------------
\* The inductive invariant.

ExtractionMethod ==
    {"pdf_native_text", "pdf_ocr", "image_ocr", "structured_csv", "structured_excel"}

PageRecord == [number : Nat, method : ExtractionMethod, text : Text]

\* The pages of a document are numbered from 1, and their texts are normal.
PagesOK(ps) ==
    /\ ps \in Seq(PageRecord)
    /\ \A i \in 1 .. Len(ps) : ps[i].number = i /\ Normal(ps[i].text)

ChunkRecord == [index : Nat, page : Nat, start : Nat, end : Nat, text : Text]

\* Chunk c is what TrimChunkRange left of the window that begins with c.
IsWindow(c, text, w) ==
    /\ WindowIsValid(w.size, w.overlap)
    /\ c.start < Len(text) /\ IsVisible(text[c.start + 1])
    /\ LET range == TrimChunkRange(text, c.start, FindChunkEnd(text, c.start, w.size))
       IN  c.end = range.end /\ c.text = SubSeq(text, c.start + 1, c.end)

Follows(c, page, from) == c.page < page \/ (c.page = page /\ c.start < from)

ChunksOK(cs, ps, w) ==
    /\ cs \in Seq(ChunkRecord)
    /\ \A k \in 1 .. Len(cs) :
          /\ cs[k].index = k - 1
          /\ cs[k].page \in 1 .. Len(ps) /\ IsWindow(cs[k], ps[cs[k].page].text, w)
    /\ \A k \in 2 .. Len(cs) : Follows(cs[k - 1], cs[k].page, cs[k].start)

\* The visible characters of a page, up to a position, lie in chunks of it.
CoveredUpTo(n, page, ps, cs) ==
    \A i \in 1 .. n : IsVisible(ps[page].text[i]) =>
        \E k \in 1 .. Len(cs) : cs[k].page = page /\ cs[k].start < i /\ i <= cs[k].end

Covered(page, ps, cs) == CoveredUpTo(Len(ps[page].text), page, ps, cs)

\* A page is covered up to the start of its next window, where a visible character
\* is or the end, and no chunk was cut from there on.
Reached(from, page, ps, cs) ==
    LET text == ps[page].text
    IN  /\ from <= Len(text) /\ (from < Len(text) => IsVisible(text[from + 1]))
        /\ CoveredUpTo(from, page, ps, cs)
        /\ cs # <<>> => Follows(cs[Len(cs)], page, from)

Sources(ps) ==
    Picked([i \in DOMAIN ps |-> [ps[i] EXCEPT !.text = Strip(@)]],
           {i \in DOMAIN ps : Strip(ps[i].text) # <<>>})

\* The source pages before the one that is being cut are covered.
Progress(a, from, ps, cs) ==
    LET sources == Sources(ps)
    IN  /\ a \in 1 .. Len(sources) + 1
        /\ \A k \in 1 .. a - 1 : Covered(sources[k].number, ps, cs)
        /\ a <= Len(sources) => Reached(from, sources[a].number, ps, cs)

VectorsMatch ==
    /\ Len(vectors) = Len(chunks)
    /\ \A k \in 1 .. Len(chunks) : vectors[k] = Vector(NormalizeEmbeddingText(chunks[k].text))

SavedOK ==
    /\ \A r \in DOMAIN saved.rows : ChunkOK(saved.rows[r])
    /\ VisibleTextIsIndexed
    /\ ChunksQuoteTheirPage
    /\ ChunksInReadingOrder
    /\ VectorsBelongToChunks

IndexInv ==
    /\ file \in Files /\ window \in Windows /\ pc \in Step
    /\ at \in Nat /\ start \in Nat /\ executions \in 1 .. MaxExecutions /\ faulty \in BOOLEAN
    /\ PagesOK(pages)
    /\ ChunksOK(chunks, pages, window)
    /\ Len(vectors) \in Nat /\ Len(vectors) <= Len(chunks)
    /\ pc = "extract" => at = 1 /\ start = 0 /\ chunks = <<>>
    /\ pc \in {"extract", "chunk", "embed"} => vectors = <<>>
    /\ pc = "chunk" => Progress(at, start, pages, chunks)
    /\ pc = "embed" => chunks # <<>>
    /\ pc \in {"embed", "save"} => \A i \in 1 .. Len(pages) : Covered(i, pages, chunks)
    /\ pc = "save" => VectorsMatch
    /\ SavedOK
    /\ FailureHasReason

-----------------------------------------------------------------------------
\* What the extraction returns.

\* str.join() of texts is a text.
LEMMA JoinedText ==
    ASSUME NEW pieces \in Seq(Text), NEW separator \in Text
    PROVE  Joined(pieces, separator) \in Text
<1>1. PICK f \in [0 .. Len(pieces) -> Text] : Joined(pieces, separator) = f[Len(pieces)]
  BY JoinedAre
<1>2. Len(pieces) \in 0 .. Len(pieces)
  BY LenProperties
<1> QED BY <1>1, <1>2

LEMMA SeparatorTexts == <<Blank>> \in Text /\ <<NewLine>> \in Text /\ <<Letter, NewLine>> \in Text
BY DEF Text, Character

\* What is used of a sequence.
LEMMA SequenceIs ==
    ASSUME NEW T, NEW s \in Seq(T)
    PROVE  /\ Len(s) \in Nat /\ DOMAIN s = 1 .. Len(s)
           /\ \A i \in 1 .. Len(s) : s[i] \in T
           /\ s = <<>> <=> Len(s) = 0
BY LenProperties, ElementOfSeq, EmptySeq

LEMMA StrippedWords ==
    ASSUME NEW ws \in Seq(ScannedWord)
    PROVE  [i \in DOMAIN ws |-> Strip(ws[i].text)] \in Seq(Text)
<1>1. Len(ws) \in Nat /\ DOMAIN ws = 1 .. Len(ws) /\ \A i \in 1 .. Len(ws) : ws[i] \in ScannedWord
  BY SequenceIs
<1>2. \A i \in 1 .. Len(ws) : Strip(ws[i].text) \in Text
  BY <1>1, StripAre DEF ScannedWord
<1> DEFINE t == [i \in DOMAIN ws |-> Strip(ws[i].text)]
<1>3. t \in [1 .. Len(ws) -> Text]
  BY <1>1, <1>2
<1> HIDE DEF t
<1>4. t \in Seq(Text)
  BY <1>1, <1>3, TupleIs
<1> QED BY <1>4 DEF t

\* build_ocr_text returns a normal text.
LEMMA OcrText ==
    ASSUME NEW scan \in Seq(ScannedWord)
    PROVE  BuildOcrText(scan) \in Text /\ Normal(BuildOcrText(scan))
<1> DEFINE P == {i \in DOMAIN scan : Strip(scan[i].text) # <<>>}
           words == Picked(scan, P)
           K == {words[i].line : i \in DOMAIN words}
           keys == Ascending(K)
           Q(k) == {i \in DOMAIN words : words[i].line = k}
           line(k) == Picked(words, Q(k))
           textOf(ws) == Joined([i \in DOMAIN ws |-> Strip(ws[i].text)], <<Blank>>)
           lines == [l \in DOMAIN keys |-> textOf(line(keys[l]))]
           all == Joined(lines, <<NewLine>>)
<1>1. BuildOcrText(scan) = NormalizeExtractedText(all)
  BY Zenon DEF BuildOcrText
<1>2. words \in Seq(ScannedWord)
  <2>1. P \in SUBSET DOMAIN scan
    OBVIOUS
  <2> HIDE DEF P
  <2> QED BY <2>1, PickedAre
<1> HIDE DEF words
<1>3. \A k : line(k) \in Seq(ScannedWord)
  <2> TAKE k
  <2>1. Q(k) \in SUBSET DOMAIN words
    OBVIOUS
  <2> HIDE DEF Q
  <2> QED BY <1>2, <2>1, PickedAre
<1>4. \A ws \in Seq(ScannedWord) : textOf(ws) \in Text
  <2> TAKE ws \in Seq(ScannedWord)
  <2> DEFINE t == [i \in DOMAIN ws |-> Strip(ws[i].text)]
  <2>1. t \in Seq(Text)
    BY StrippedWords
  <2> HIDE DEF t
  <2>2. Joined(t, <<Blank>>) \in Text
    BY <2>1, SeparatorTexts, JoinedText
  <2> QED BY <2>2 DEF t
<1>5. Len(words) \in Nat /\ DOMAIN words = 1 .. Len(words)
      /\ \A i \in 1 .. Len(words) : words[i] \in ScannedWord
  BY <1>2, SequenceIs
<1>6. IsFiniteSet(K) /\ K \in SUBSET Int
  <2>1. IsFiniteSet(1 .. Len(words))
    BY <1>5, FS_Interval
  <2> DEFINE f == [i \in 1 .. Len(words) |-> words[i].line]
  <2>2. K = {f[i] : i \in 1 .. Len(words)}
    BY <1>5
  <2> HIDE DEF f
  <2>3. IsFiniteSet(K)
    BY <2>1, <2>2, FiniteImage
  <2>4. K \in SUBSET Int
    BY <1>5 DEF ScannedWord
  <2> QED BY <2>3, <2>4
<1> HIDE DEF K
<1>7. keys \in Seq(K)
  BY <1>6, AscendingCounts
<1> HIDE DEF keys, line, textOf
<1>8. Len(keys) \in Nat /\ DOMAIN keys = 1 .. Len(keys)
  BY <1>7, SequenceIs
<1>9. lines \in [1 .. Len(keys) -> Text]
  BY <1>3, <1>4, <1>8
<1> HIDE DEF lines
<1>10. lines \in Seq(Text)
  BY <1>8, <1>9, TupleIs
<1>11. all \in Text
  BY <1>10, SeparatorTexts, JoinedText
<1> HIDE DEF all
<1> QED BY <1>1, <1>11, NormalizedNormal

LEMMA PageIs ==
    ASSUME NEW number \in Nat, NEW method \in ExtractionMethod, NEW text \in Text
    PROVE  /\ Page(number, method, text) \in PageRecord
           /\ Page(number, method, text).number = number
           /\ Page(number, method, text).text = text
BY DEF Page, PageRecord

\* The pages that an extraction returns, if it returns any, are numbered from 1
\* and their texts are normal.
LEMMA ExtractedPages ==
    ASSUME NEW f, FileOK(f), NEW ocrWorks \in BOOLEAN,
           ExtractDocument(f, ocrWorks).error = "none"
    PROVE  PagesOK(ExtractDocument(f, ocrWorks).pages)
<1> DEFINE r == ExtractDocument(f, ocrWorks)
           ps == f.parts
           N == Len(ps)
<1>1. N \in Nat /\ DOMAIN ps = 1 .. N /\ \A i \in 1 .. N : ps[i] \in FilePart
  <2>1. ps \in Seq(FilePart)
    BY DEF FileOK
  <2> HIDE DEF ps
  <2> QED BY <2>1, SequenceIs
<1>2. \A p \in FilePart :
         /\ NormalizeExtractedText(p.native) \in Text /\ Normal(NormalizeExtractedText(p.native))
         /\ BuildOcrText(p.scan) \in Text /\ Normal(BuildOcrText(p.scan))
  BY NormalizedNormal, OcrText DEF FilePart
<1>3. ASSUME NEW n \in Nat, NEW s, DOMAIN s = 1 .. n, s = [i \in 1 .. n |-> s[i]],
             \A i \in 1 .. n : s[i] \in PageRecord /\ s[i].number = i /\ Normal(s[i].text)
      PROVE  PagesOK(s) /\ Tuple(s) = s
  <2>1. s \in [1 .. n -> PageRecord]
    BY <1>3
  <2>2. s \in Seq(PageRecord) /\ Len(s) = n /\ Tuple(s) = s
    BY <2>1, TupleIs
  <2> QED BY <1>3, <2>2 DEF PagesOK
<1>4. \A text \in Text, method \in ExtractionMethod : Normal(text) => PagesOK(<<Page(1, method, text)>>)
  <2> TAKE text \in Text, method \in ExtractionMethod
  <2> SUFFICES ASSUME Normal(text) PROVE PagesOK(<<Page(1, method, text)>>)
    OBVIOUS
  <2> DEFINE p == Page(1, method, text)
             s == <<p>>
  <2>1. p \in PageRecord /\ p.number = 1 /\ Normal(p.text)
    BY PageIs
  <2> HIDE DEF p
  <2>2. s \in Seq(PageRecord) /\ Len(s) = 1 /\ s[1] = p
    BY <2>1
  <2> HIDE DEF s
  <2>3. PagesOK(s)
    BY <2>1, <2>2 DEF PagesOK
  <2> QED BY <2>3 DEF s, p
<1>5. /\ f.extension \in SupportedExtension /\ f.content = "readable"
      /\ \/ f.extension \in PdfExtension /\ r = ExtractPdf(ps, ocrWorks)
         \/ f.extension \in ImageExtension /\ r = ExtractImage(ps[1], ocrWorks)
         \/ f.extension \in TableExtension /\ r = ExtractCsv(ps[1])
         \/ f.extension \in WorkbookExtension /\ r = ExtractExcel(ps)
  <2>1. r = Refused("UnsupportedExtractionType") \/ r = Refused("CorruptDocument")
           => r.error # "none"
    BY DEF Refused
  <2>2. f.extension \in SupportedExtension /\ f.content = "readable"
    <3>1. f.extension \notin SupportedExtension => r = Refused("UnsupportedExtractionType")
      BY DEF ExtractDocument
    <3>2. f.extension \in SupportedExtension /\ f.content # "readable"
             => r = Refused("CorruptDocument")
      BY DEF ExtractDocument
    <3> HIDE DEF r
    <3> QED BY <2>1, <3>1, <3>2 DEF r
  <2> DEFINE e == f.extension
  <2>3. r = CASE e \in PdfExtension -> ExtractPdf(f.parts, ocrWorks)
              [] e \in ImageExtension -> ExtractImage(f.parts[1], ocrWorks)
              [] e \in TableExtension -> ExtractCsv(f.parts[1])
              [] e \in WorkbookExtension -> ExtractExcel(f.parts)
    BY <2>2 DEF ExtractDocument
  <2>4. e \in {".pdf"} \union {".png", ".jpg", ".jpeg", ".webp"} \union {".csv"} \union {".xls", ".xlsx"}
    BY <2>2 DEF SupportedExtension, PdfExtension, ImageExtension, TableExtension, WorkbookExtension
  <2> HIDE DEF r, e
  <2>5. CASE e = ".pdf"
    <3>1. e \in PdfExtension /\ r = ExtractPdf(f.parts, ocrWorks)
      BY <2>3, <2>5 DEF PdfExtension, ImageExtension, TableExtension, WorkbookExtension
    <3> QED BY <2>2, <3>1 DEF e
  <2>6. CASE e \in {".png", ".jpg", ".jpeg", ".webp"}
    <3>1. e \in ImageExtension /\ r = ExtractImage(f.parts[1], ocrWorks)
      BY <2>3, <2>6 DEF PdfExtension, ImageExtension, TableExtension, WorkbookExtension
    <3> QED BY <2>2, <3>1 DEF e
  <2>7. CASE e = ".csv"
    <3>1. e \in TableExtension /\ r = ExtractCsv(f.parts[1])
      BY <2>3, <2>7 DEF PdfExtension, ImageExtension, TableExtension, WorkbookExtension
    <3> QED BY <2>2, <3>1 DEF e
  <2>8. CASE e \in {".xls", ".xlsx"}
    <3>1. e \in WorkbookExtension /\ r = ExtractExcel(f.parts)
      BY <2>3, <2>8 DEF PdfExtension, ImageExtension, TableExtension, WorkbookExtension
    <3> QED BY <2>2, <3>1 DEF e
  <2> QED BY <2>4, <2>5, <2>6, <2>7, <2>8
<1>6. r.error = "none"
  OBVIOUS
<1>7. f.extension \in ImageExtension \union TableExtension => 1 \in 1 .. N
  <2>1. f.extension \in ImageExtension \union TableExtension => ps # <<>>
    BY <1>5 DEF FileOK
  <2>2. ps \in Seq(FilePart)
    BY DEF FileOK
  <2> HIDE DEF ps
  <2>3. ps # <<>> => N # 0
    BY <2>2, SequenceIs
  <2> QED BY <1>1, <2>1, <2>3
<1>8. f.extension \in ImageExtension \union TableExtension => ps[1] \in FilePart
  BY <1>1, <1>7
<1> HIDE DEF r, ps, N
<1>9. CASE r = ExtractPdf(ps, ocrWorks)
  <2> DEFINE pages1 == [i \in DOMAIN ps |-> ExtractPdfPage(ps[i], i)]
  <2>1. r = IF ps = <<>> THEN Refused("CorruptDocument")
            ELSE IF ~ocrWorks /\ \E i \in DOMAIN Tuple(pages1) : Tuple(pages1)[i].method = "pdf_ocr"
            THEN Refused("ExtractionDependency")
            ELSE Extracted(Tuple(pages1))
    BY <1>9, Zenon DEF ExtractPdf
  <2>2. ASSUME NEW i \in 1 .. N
        PROVE  /\ ExtractPdfPage(ps[i], i) \in PageRecord
               /\ ExtractPdfPage(ps[i], i).number = i /\ Normal(ExtractPdfPage(ps[i], i).text)
    <3> DEFINE native == NormalizeExtractedText(ps[i].native)
               ocr == BuildOcrText(ps[i].scan)
    <3>1. native \in Text /\ Normal(native) /\ ocr \in Text /\ Normal(ocr)
      BY <1>1, <1>2
    <3>2. \/ ExtractPdfPage(ps[i], i) = Page(i, "pdf_native_text", native)
          \/ ExtractPdfPage(ps[i], i) = Page(i, "pdf_ocr", ocr)
      BY Zenon DEF ExtractPdfPage
    <3> HIDE DEF native, ocr
    <3>3. i \in Nat /\ "pdf_native_text" \in ExtractionMethod /\ "pdf_ocr" \in ExtractionMethod
      BY <1>1 DEF ExtractionMethod
    <3>4. CASE ExtractPdfPage(ps[i], i) = Page(i, "pdf_native_text", native)
      <4> DEFINE p == Page(i, "pdf_native_text", native)
      <4>1. p \in PageRecord /\ p.number = i /\ p.text = native
        BY <3>1, <3>3, PageIs
      <4> HIDE DEF p
      <4> QED BY <3>1, <3>4, <4>1 DEF p
    <3>5. CASE ExtractPdfPage(ps[i], i) = Page(i, "pdf_ocr", ocr)
      <4> DEFINE p == Page(i, "pdf_ocr", ocr)
      <4>1. p \in PageRecord /\ p.number = i /\ p.text = ocr
        BY <3>1, <3>3, PageIs
      <4> HIDE DEF p
      <4> QED BY <3>1, <3>5, <4>1 DEF p
    <3> QED BY <3>2, <3>4, <3>5
  <2>3. PagesOK(pages1) /\ Tuple(pages1) = pages1
    <3>1. /\ DOMAIN pages1 = 1 .. N /\ pages1 = [i \in 1 .. N |-> pages1[i]]
          /\ \A i \in 1 .. N : /\ pages1[i] \in PageRecord /\ pages1[i].number = i
                               /\ Normal(pages1[i].text)
      BY <1>1, <2>2
    <3> HIDE DEF pages1
    <3> QED BY <1>1, <1>3, <3>1
  <2> HIDE DEF pages1
  <2>4. r.pages = pages1
    BY <1>6, <2>1, <2>3 DEF Refused, Extracted
  <2> QED BY <2>3, <2>4 DEF r
<1>10. CASE f.extension \in ImageExtension /\ r = ExtractImage(ps[1], ocrWorks)
  <2>1. r.pages = <<Page(1, "image_ocr", BuildOcrText(ps[1].scan))>>
    BY <1>6, <1>10 DEF ExtractImage, Extracted, Refused
  <2>2. BuildOcrText(ps[1].scan) \in Text /\ Normal(BuildOcrText(ps[1].scan))
    BY <1>2, <1>8, <1>10 DEF FilePart
  <2>3. "image_ocr" \in ExtractionMethod
    BY DEF ExtractionMethod
  <2>4. PagesOK(<<Page(1, "image_ocr", BuildOcrText(ps[1].scan))>>)
    BY <1>4, <2>2, <2>3
  <2> QED BY <2>1, <2>4 DEF r
<1>11. CASE f.extension \in TableExtension /\ r = ExtractCsv(ps[1])
  <2>1. r.pages = <<Page(1, "structured_csv", NormalizeExtractedText(ps[1].native))>>
    BY <1>11 DEF ExtractCsv, Extracted
  <2>2. /\ NormalizeExtractedText(ps[1].native) \in Text
        /\ Normal(NormalizeExtractedText(ps[1].native))
    BY <1>2, <1>8, <1>11
  <2>3. "structured_csv" \in ExtractionMethod
    BY DEF ExtractionMethod
  <2>4. PagesOK(<<Page(1, "structured_csv", NormalizeExtractedText(ps[1].native))>>)
    BY <1>4, <2>2, <2>3
  <2> QED BY <2>1, <2>4 DEF r
<1>12. CASE r = ExtractExcel(ps)
  <2> DEFINE head == <<Letter, NewLine>>
             textOf(i) == NormalizeExtractedText(head \o NormalizeExtractedText(ps[i].native))
             pages1 == [i \in DOMAIN ps |-> Page(i, "structured_excel", textOf(i))]
  <2>1. r = Extracted(pages1)
    BY <1>12, Zenon DEF ExtractExcel
  <2>2. ASSUME NEW i \in 1 .. N PROVE textOf(i) \in Text /\ Normal(textOf(i))
    <3> DEFINE native == NormalizeExtractedText(ps[i].native)
    <3>1. native \in Text
      BY <1>1, <1>2
    <3>2. head \in Text
      BY SeparatorTexts
    <3> HIDE DEF native, head
    <3>3. head \o native \in Text
      BY <3>1, <3>2, ConcatProperties DEF Text
    <3>4. /\ NormalizeExtractedText(head \o native) \in Text
          /\ Normal(NormalizeExtractedText(head \o native))
      BY <3>3, NormalizedNormal
    <3> QED BY <3>4 DEF native, head
  <2> HIDE DEF textOf
  <2>3. PagesOK(pages1)
    <3>1. /\ DOMAIN pages1 = 1 .. N /\ pages1 = [i \in 1 .. N |-> pages1[i]]
          /\ \A i \in 1 .. N : /\ pages1[i] \in PageRecord /\ pages1[i].number = i
                               /\ Normal(pages1[i].text)
      <4>1. DOMAIN pages1 = 1 .. N /\ pages1 = [i \in 1 .. N |-> pages1[i]]
        BY <1>1
      <4>2. "structured_excel" \in ExtractionMethod /\ \A i \in 1 .. N : i \in Nat
        BY <1>1 DEF ExtractionMethod
      <4>3. ASSUME NEW i \in 1 .. N
            PROVE  /\ pages1[i] \in PageRecord /\ pages1[i].number = i
                   /\ Normal(pages1[i].text)
        <5> DEFINE p == Page(i, "structured_excel", textOf(i))
        <5>1. p \in PageRecord /\ p.number = i /\ p.text = textOf(i)
          BY <2>2, <4>2, PageIs
        <5>2. pages1[i] = p
          BY <1>1
        <5> HIDE DEF p, pages1
        <5> QED BY <2>2, <5>1, <5>2
      <4> QED BY <4>1, <4>3
    <3> HIDE DEF pages1
    <3> QED BY <1>1, <1>3, <3>1
  <2> HIDE DEF pages1
  <2>4. r.pages = pages1
    BY <2>1 DEF Extracted
  <2> QED BY <2>3, <2>4 DEF r
<1> QED BY <1>5, <1>9, <1>10, <1>11, <1>12

-----------------------------------------------------------------------------
\* The pages that are cut.

PagesAre(ps) ==
    /\ Len(ps) \in Nat /\ DOMAIN ps = 1 .. Len(ps)
    /\ \A i \in 1 .. Len(ps) : /\ ps[i] \in PageRecord /\ ps[i].number = i
                               /\ ps[i].text \in Text /\ Normal(ps[i].text)

LEMMA PagesOKAre ==
    ASSUME NEW ps, PagesOK(ps)
    PROVE  PagesAre(ps)
<1>1. ps \in Seq(PageRecord) /\ \A i \in 1 .. Len(ps) : ps[i].number = i /\ Normal(ps[i].text)
  BY DEF PagesOK
<1>2. Len(ps) \in Nat /\ DOMAIN ps = 1 .. Len(ps) /\ \A i \in 1 .. Len(ps) : ps[i] \in PageRecord
  BY <1>1, SequenceIs
<1>3. \A p \in PageRecord : p.text \in Text
  BY DEF PageRecord
<1> QED BY <1>1, <1>2, <1>3 DEF PagesAre

\* build_source_document_pages leaves out the pages without text, and changes no
\* text of the others.
SourcesOK(s, ps) ==
    /\ Len(s) \in Nat
    /\ \A k \in 1 .. Len(s) : /\ s[k].number \in 1 .. Len(ps) /\ s[k] = ps[s[k].number]
                              /\ Len(s[k].text) > 0
    /\ \A j, k \in 1 .. Len(s) : j < k => s[j].number < s[k].number
    /\ \A i \in 1 .. Len(ps) : Len(ps[i].text) > 0 => \E k \in 1 .. Len(s) : s[k].number = i

LEMMA SourcesAre ==
    ASSUME NEW ps, PagesOK(ps)
    PROVE  SourcesOK(Sources(ps), ps)
<1> DEFINE stripped == [i \in DOMAIN ps |-> [ps[i] EXCEPT !.text = Strip(@)]]
           P == {i \in DOMAIN ps : Strip(ps[i].text) # <<>>}
           n == Len(ps)
           A == Ascending(P)
           s == Picked(ps, P)
<1>1. PagesAre(ps) /\ ps \in Seq(PageRecord)
  BY PagesOKAre DEF PagesOK
<1>2. n \in Nat /\ DOMAIN ps = 1 .. n
      /\ \A i \in 1 .. n : ps[i] \in PageRecord /\ ps[i].number = i /\ ps[i].text \in Text
  BY <1>1 DEF PagesAre
<1>3. \A i \in 1 .. n : Strip(ps[i].text) = ps[i].text
  BY <1>1, NormalStrip DEF PagesAre
<1>4. \A i \in 1 .. n : ps[i].text # <<>> <=> Len(ps[i].text) > 0
  BY <1>2, TextIs
<1>5. stripped = ps
  <2>1. \A i \in 1 .. n : [ps[i] EXCEPT !.text = Strip(@)] = ps[i]
    BY <1>2, <1>3 DEF PageRecord
  <2>2. stripped = [i \in 1 .. n |-> ps[i]]
    BY <1>2, <2>1
  <2>3. ps = [i \in 1 .. n |-> ps[i]]
    BY <1>1, <1>2, TupleIs, SeqEqual
  <2> QED BY <2>2, <2>3
<1>6. P \in SUBSET DOMAIN ps
  OBVIOUS
<1>7. \A i \in 1 .. n : i \in P <=> Len(ps[i].text) > 0
  BY <1>2, <1>3, <1>4
<1>8. Sources(ps) = s
  <2>1. Sources(ps) = Picked(stripped, P)
    BY DEF Sources
  <2> HIDE DEF stripped, P
  <2> QED BY <1>5, <2>1
<1> HIDE DEF P
<1>9. /\ IsFiniteSet(P) /\ P \in SUBSET Int /\ A \in Seq(P) /\ Len(A) \in Nat /\ Len(s) = Len(A)
      /\ \A k \in 1 .. Len(A) : A[k] \in P /\ s[k] = ps[A[k]]
  BY <1>1, <1>6, PickedAre
<1>10. /\ \A x \in P : \E k \in DOMAIN A : A[k] = x
       /\ \A j, k \in DOMAIN A : j < k <=> A[j] < A[k]
  BY <1>9, AscendingCounts
<1>11. DOMAIN A = 1 .. Len(A)
  BY <1>9, SequenceIs
<1> HIDE DEF A, s, n
<1>12. \A k \in 1 .. Len(s) : A[k] \in 1 .. n /\ s[k].number = A[k] /\ A[k] \in P
  BY <1>2, <1>6, <1>9
<1>13. \A k \in 1 .. Len(s) : /\ s[k].number \in 1 .. n /\ s[k] = ps[s[k].number]
                              /\ Len(s[k].text) > 0
  BY <1>7, <1>9, <1>12
<1>14. \A j, k \in 1 .. Len(s) : j < k => s[j].number < s[k].number
  <2> SUFFICES ASSUME NEW j \in 1 .. Len(s), NEW k \in 1 .. Len(s), j < k
               PROVE  s[j].number < s[k].number
    OBVIOUS
  <2>1. j \in DOMAIN A /\ k \in DOMAIN A
    BY <1>9, <1>11
  <2>2. A[j] < A[k]
    BY <1>10, <2>1
  <2> QED BY <1>12, <2>2
<1>15. \A i \in 1 .. n : Len(ps[i].text) > 0 => \E k \in 1 .. Len(s) : s[k].number = i
  BY <1>7, <1>9, <1>10, <1>11, <1>12
<1> QED BY <1>8, <1>9, <1>13, <1>14, <1>15 DEF SourcesOK, n

\* chunk_page_text normalizes the text of a source page in vain.
LEMMA PageTextIs ==
    ASSUME PagesOK(pages), at \in 1 .. Len(SourcePages)
    PROVE  /\ SourcePages = Sources(pages)
           /\ SourcePages[at].number \in 1 .. Len(pages)
           /\ PageText = pages[SourcePages[at].number].text
           /\ PageText \in Text /\ Normal(PageText) /\ Len(PageText) > 0
<1>1. SourcePages = Sources(pages)
  BY DEF SourcePages, Sources
<1>2. SourcesOK(SourcePages, pages) /\ PagesAre(pages)
  BY <1>1, SourcesAre, PagesOKAre
<1> DEFINE j == SourcePages[at].number
<1>3. j \in 1 .. Len(pages) /\ SourcePages[at] = pages[j] /\ Len(SourcePages[at].text) > 0
  BY <1>2 DEF SourcesOK
<1>4. pages[j].text \in Text /\ Normal(pages[j].text)
  BY <1>2, <1>3 DEF PagesAre
<1>5. PageText = pages[j].text
  BY <1>3, <1>4, NormalStays DEF PageText
<1> QED BY <1>1, <1>3, <1>4, <1>5

-----------------------------------------------------------------------------
\* A round of the loop.

\* What chunk_page_text makes of a window: a chunk that begins and ends with visible
\* characters, fits the size, and leaves out only white space before the window ends.
LEMMA WindowFacts ==
    ASSUME NEW text \in Text, NEW w, w.size \in Nat, w.overlap \in Nat,
           NEW c, c.start \in Nat, IsWindow(c, text, w)
    PROVE  /\ c.text \in Text /\ Len(c.text) = c.end - c.start /\ Strip(c.text) = c.text
           /\ c.end \in c.start + 1 .. Len(text) /\ c.end <= c.start + w.size
           /\ IsVisible(text[c.end])
           /\ c.end <= FindChunkEnd(text, c.start, w.size)
           /\ \A i \in c.end + 1 .. FindChunkEnd(text, c.start, w.size) : ~IsVisible(text[i])
<1> DEFINE start1 == c.start
           size == w.size
           end1 == FindChunkEnd(text, start1, size)
           r == TrimChunkRange(text, start1, end1)
           L == Len(text)
<1>1. L \in Nat /\ size > 0 /\ start1 < L /\ IsVisible(text[start1 + 1])
      /\ c.end = r.end /\ c.text = SubSeq(text, start1 + 1, c.end)
  BY TextIs DEF IsWindow, WindowIsValid
<1>2. start1 \in Nat /\ size \in Nat
  OBVIOUS
<1> HIDE DEF start1, size
<1>3. end1 \in start1 + 1 .. start1 + size /\ end1 <= L
  BY <1>1, <1>2, ChunkEndBounds
<1>4. end1 \in Nat /\ start1 < end1
  BY <1>2, <1>3
<1> HIDE DEF end1
<1>5. /\ r = [start |-> start1, end |-> r.end, text |-> SubSeq(text, start1 + 1, r.end)]
      /\ r.end \in start1 + 1 .. end1 /\ IsVisible(text[r.end])
      /\ \A i \in r.end + 1 .. end1 : ~IsVisible(text[i])
  BY <1>1, <1>2, <1>3, <1>4, Trimmed
<1> HIDE DEF r
<1> DEFINE e == c.end
           a == start1 + 1
           q == SubSeq(text, a, e)
<1>6. e \in start1 + 1 .. end1 /\ IsVisible(text[e]) /\ \A i \in e + 1 .. end1 : ~IsVisible(text[i])
  BY <1>1, <1>5
<1>7. a \in Int /\ e \in Int /\ a <= e /\ a >= 1 /\ e <= L
  BY <1>2, <1>3, <1>6
<1>8. IsVisible(text[a]) /\ IsVisible(text[e])
  BY <1>1, <1>6
<1>9. \A i \in a .. e : text[i] \in Character
  BY <1>1, <1>7, TextIs
<1> HIDE DEF a, e
<1>10. /\ q \in Seq(Character) /\ Len(q) = e - a + 1
       /\ \A i \in 1 .. e - a + 1 : q[i] = text[a + i - 1]
  BY <1>7, <1>9, SubSeqProperties
<1> HIDE DEF q
<1>11. q \in Text /\ Len(q) > 0 /\ IsVisible(q[1]) /\ IsVisible(q[Len(q)])
  <2>1. q[1] = text[a + 1 - 1] /\ a + 1 - 1 = a
    BY <1>7, <1>10
  <2>2. q[e - a + 1] = text[a + (e - a + 1) - 1] /\ a + (e - a + 1) - 1 = e
    <3> DEFINE i == e - a + 1
    <3>1. i \in 1 .. e - a + 1 /\ a + i - 1 = e
      BY <1>7
    <3> HIDE DEF i
    <3>2. q[i] = text[a + i - 1]
      BY <1>10, <3>1
    <3>3. q[i] = text[e]
      BY <3>1, <3>2
    <3> QED BY <3>1, <3>3 DEF i
  <2> QED BY <1>7, <1>8, <1>10, <2>1, <2>2 DEF Text
<1>12. Strip(q) = q
  BY <1>11, StripAre
<1>13. c.text = q /\ Len(q) = c.end - c.start
  <2>1. c.text = q
    BY <1>1, <1>10 DEF a, e, q, start1
  <2>2. Len(q) = e - a + 1
    BY <1>10
  <2>3. c.start = a - 1 /\ c.end = e /\ a \in Int /\ e \in Int
    BY <1>1, <1>7 DEF a, e, start1
  <2> HIDE DEF a, e
  <2> QED BY <2>1, <2>2, <2>3
<1>14. c.end \in c.start + 1 .. Len(text) /\ c.end <= c.start + w.size
  BY <1>1, <1>2, <1>3, <1>6 DEF e, start1, size
<1>15. c.end <= end1
  BY <1>2, <1>3, <1>6 DEF e
<1> QED BY <1>6, <1>11, <1>12, <1>13, <1>14, <1>15 DEF e, end1, start1, size

\* The chunks of a page end in the order in which they begin.
LEMMA WindowsGrow ==
    ASSUME NEW text \in Text, NEW w, w.size \in Nat, w.overlap \in Nat,
           NEW c, c.start \in Nat, IsWindow(c, text, w),
           NEW d, d.start \in Nat, IsWindow(d, text, w), c.start < d.start
    PROVE  c.end <= d.end
<1> DEFINE s1 == c.start
           s2 == d.start
           size == w.size
           e1 == FindChunkEnd(text, s1, size)
           e2 == FindChunkEnd(text, s2, size)
           L == Len(text)
<1>1. /\ c.end \in s1 + 1 .. L /\ c.end <= e1 /\ IsVisible(text[c.end])
  BY WindowFacts
<1>2. d.end \in s2 + 1 .. L /\ d.end <= e2 /\ \A i \in d.end + 1 .. e2 : ~IsVisible(text[i])
  BY WindowFacts
<1>3. s1 < L /\ s2 < L /\ L \in Nat /\ size > 0 /\ size \in Nat /\ s1 \in Nat /\ s2 \in Nat /\ s1 < s2
  BY TextIs DEF IsWindow, WindowIsValid
<1> HIDE DEF s1, s2, size
<1>4. e1 <= e2
  BY <1>3, ChunkEndGrows
<1>5. e1 \in Int /\ e2 \in Int
  <2>1. e1 \in s1 + 1 .. s1 + size
    BY <1>3, ChunkEndBounds
  <2>2. e2 \in s2 + 1 .. s2 + size
    BY <1>3, ChunkEndBounds
  <2> QED BY <1>3, <2>1, <2>2
<1> HIDE DEF e1, e2, L
<1> DEFINE x == c.end
           y == d.end
<1>6. /\ x \in Int /\ x <= e1 /\ y \in Int /\ IsVisible(text[x])
      /\ \A i \in y + 1 .. e2 : ~IsVisible(text[i])
  BY <1>1, <1>2, <1>3
<1> HIDE DEF x, y
<1>7. ~(x > y)
  BY <1>4, <1>5, <1>6
<1>8. x <= y
  BY <1>6, <1>7
<1> QED BY <1>8 DEF x, y

\* Append adds one element behind the others.
LEMMA AppendIs ==
    ASSUME NEW T, NEW s \in Seq(T), NEW x \in T
    PROVE  /\ Append(s, x) \in Seq(T) /\ Len(Append(s, x)) = Len(s) + 1
           /\ \A k \in 1 .. Len(s) : Append(s, x)[k] = s[k]
           /\ Append(s, x)[Len(s) + 1] = x /\ Append(s, x) # <<>>
<1>1. Len(s) \in Nat
  BY SequenceIs
<1>2. /\ Append(s, x) \in Seq(T) /\ Len(Append(s, x)) = Len(s) + 1
      /\ \A k \in 1 .. Len(s) : Append(s, x)[k] = s[k]
      /\ Append(s, x)[Len(s) + 1] = x
  BY AppendProperties
<1>3. Append(s, x) # <<>>
  BY <1>1, <1>2, SequenceIs
<1> QED BY <1>2, <1>3

\* What is covered stays covered when a chunk is added.
LEMMA StillCovered ==
    ASSUME NEW ps, NEW cs \in Seq(ChunkRecord), NEW c \in ChunkRecord, NEW n, NEW p,
           CoveredUpTo(n, p, ps, cs)
    PROVE  CoveredUpTo(n, p, ps, Append(cs, c))
<1> DEFINE more == Append(cs, c)
<1>1. Len(cs) \in Nat /\ Len(more) = Len(cs) + 1 /\ \A k \in 1 .. Len(cs) : more[k] = cs[k]
  BY AppendIs, SequenceIs
<1> HIDE DEF more
<1>2. \A k \in 1 .. Len(cs) : k \in 1 .. Len(more)
  BY <1>1
<1>3. CoveredUpTo(n, p, ps, more)
  BY <1>1, <1>2 DEF CoveredUpTo
<1> QED BY <1>3 DEF more

CutOf(c, index, page, range) ==
    c = [index |-> index, page |-> page, start |-> range.start, end |-> range.end,
         text |-> range.text]

\* One round of the loop adds a chunk and advances, and leaves no visible character
\* of the page behind.
LEMMA RoundOK ==
    ASSUME NEW ps, PagesOK(ps), NEW page \in 1 .. Len(ps),
           NEW w, w.size \in Nat, w.overlap \in Nat, WindowIsValid(w.size, w.overlap),
           NEW from \in Nat, from < Len(ps[page].text),
           NEW cs, ChunksOK(cs, ps, w), Reached(from, page, ps, cs),
           NEW end, end = FindChunkEnd(ps[page].text, from, w.size),
           NEW next, next = FindNextStart(ps[page].text, from, end, w.overlap),
           NEW range, range = TrimChunkRange(ps[page].text, from, end),
           NEW c, CutOf(c, Len(cs), page, range)
    PROVE  /\ range.text # <<>> /\ next \in Nat /\ from < next
           /\ c \in ChunkRecord
           /\ ChunksOK(Append(cs, c), ps, w)
           /\ Reached(next, page, ps, Append(cs, c))
<1> DEFINE text == ps[page].text
           L == Len(text)
           more == Append(cs, c)
           n == Len(cs)
<1>1. text \in Text /\ L \in Nat
  <2>1. text \in Text
    BY PagesOKAre DEF PagesAre
  <2> HIDE DEF text
  <2> QED BY <2>1, TextIs
<1>2. cs \in Seq(ChunkRecord) /\ n \in Nat
  BY SequenceIs DEF ChunksOK
<1>3. IsVisible(text[from + 1]) /\ from < L
  BY DEF Reached
<1>4. w.size > 0 /\ page \in Nat /\ Len(ps) \in Nat
  <2>1. Len(ps) \in Nat
    BY PagesOKAre DEF PagesAre
  <2> QED BY <2>1 DEF WindowIsValid
<1>5. end \in from + 1 .. from + w.size /\ end <= L /\ end = FindChunkEnd(text, from, w.size)
  BY <1>1, <1>3, <1>4, ChunkEndBounds
<1>6. end \in Nat /\ from < end
  BY <1>4, <1>5
<1>7. range = TrimChunkRange(text, from, end) /\ next = FindNextStart(text, from, end, w.overlap)
  OBVIOUS
<1>8. CoveredUpTo(from, page, ps, cs) /\ (cs # <<>> => Follows(cs[Len(cs)], page, from))
  BY DEF Reached
<1> HIDE DEF text, L
<1>9. /\ next \in from + 1 .. Len(text)
      /\ next < Len(text) => IsVisible(text[next + 1])
      /\ \A i \in end + 1 .. next : ~IsVisible(text[i])
  <2> DEFINE o == w.overlap
             f == FindNextStart(text, from, end, o)
  <2>1. o \in Nat /\ next = f /\ end <= Len(text) /\ from < end
    BY <1>5, <1>6, <1>7 DEF L
  <2> HIDE DEF o
  <2>2. /\ f \in from + 1 .. Len(text)
        /\ f < Len(text) => IsVisible(text[f + 1])
        /\ \A i \in end + 1 .. f : ~IsVisible(text[i])
    BY <1>1, <1>6, <2>1, NextStartIs
  <2> HIDE DEF f
  <2> QED BY <2>1, <2>2
<1>10. /\ range = [start |-> from, end |-> range.end, text |-> SubSeq(text, from + 1, range.end)]
       /\ range.end \in from + 1 .. end
  <2> DEFINE r == TrimChunkRange(text, from, end)
  <2>1. end <= Len(text) /\ range = r
    BY <1>5, <1>7 DEF L
  <2>2. /\ r = [start |-> from, end |-> r.end, text |-> SubSeq(text, from + 1, r.end)]
        /\ r.end \in from + 1 .. end
    <3>1. end <= Len(text)
      BY <2>1
    <3> QED BY <1>1, <1>3, <1>6, <3>1, Trimmed
  <2> HIDE DEF r
  <2> QED BY <2>1, <2>2
<1>11. /\ c.index = n /\ c.page = page /\ c.start = from /\ c.end = range.end
       /\ c.text = SubSeq(text, c.start + 1, c.end) /\ c.text = range.text
  <2>1. c = [index |-> n, page |-> page, start |-> range.start, end |-> range.end,
             text |-> range.text]
    BY DEF CutOf
  <2>2. range.start = from /\ range.text = SubSeq(text, from + 1, range.end)
    BY <1>10
  <2> QED BY <2>1, <2>2
<1>12. IsWindow(c, text, w)
  BY <1>3, <1>5, <1>7, <1>11 DEF IsWindow, L
<1>13. /\ c.text \in Text /\ Len(c.text) = c.end - c.start
       /\ c.end <= end /\ \A i \in c.end + 1 .. end : ~IsVisible(text[i])
  <2>1. c.start \in Nat
    BY <1>11
  <2>2. /\ c.text \in Text /\ Len(c.text) = c.end - c.start
        /\ c.end <= FindChunkEnd(text, c.start, w.size)
        /\ \A i \in c.end + 1 .. FindChunkEnd(text, c.start, w.size) : ~IsVisible(text[i])
    BY <1>1, <1>12, <2>1, WindowFacts
  <2>3. FindChunkEnd(text, c.start, w.size) = end
    BY <1>5, <1>11
  <2> HIDE DEF L
  <2> QED BY <2>2, <2>3
<1>14. range.end \in Nat /\ range.end > from
  BY <1>6, <1>10
<1>15. c \in ChunkRecord
  <2>1. range.end \in Nat /\ range.text \in Text
    BY <1>11, <1>13, <1>14
  <2>2. range.start = from
    BY <1>11 DEF CutOf
  <2> QED BY <1>2, <1>4, <2>1, <2>2 DEF ChunkRecord, CutOf
<1>16. range.text # <<>>
  <2>1. c.text \in Text /\ Len(c.text) # 0
    BY <1>11, <1>13, <1>14
  <2>2. c.text # <<>>
    BY <2>1, TextIs
  <2> QED BY <1>11, <2>2
<1>17. /\ more \in Seq(ChunkRecord) /\ Len(more) = n + 1
       /\ \A k \in 1 .. n : more[k] = cs[k]
       /\ more[n + 1] = c /\ more # <<>>
  BY <1>2, <1>15, AppendIs
<1>18. CoveredUpTo(from, page, ps, more)
  BY <1>2, <1>8, <1>15, StillCovered
<1> HIDE DEF more, n
<1>19. ChunksOK(more, ps, w)
  <2>1. ASSUME NEW k \in 1 .. n + 1
        PROVE  /\ more[k].index = k - 1
               /\ more[k].page \in 1 .. Len(ps) /\ IsWindow(more[k], ps[more[k].page].text, w)
    <3>1. CASE k = n + 1
      <4>1. more[k] = c /\ k - 1 = n
        BY <1>2, <1>17, <3>1
      <4>2. page \in 1 .. Len(ps)
        OBVIOUS
      <4> QED BY <1>11, <1>12, <4>1, <4>2 DEF text
    <3>2. CASE k # n + 1
      <4>1. k \in 1 .. n
        BY <1>2, <3>2
      <4> QED BY <1>17, <4>1 DEF ChunksOK, n
    <3> QED BY <3>1, <3>2
  <2>2. ASSUME NEW k \in 2 .. n + 1
        PROVE  Follows(more[k - 1], more[k].page, more[k].start)
    <3>1. CASE k = n + 1
      <4>1. k - 1 = n /\ n \in 1 .. n /\ n # 0
        BY <1>2, <3>1
      <4>2. cs # <<>>
        BY <1>2, <4>1, SequenceIs DEF n
      <4>3. more[k - 1] = cs[n] /\ more[k] = c
        BY <1>17, <3>1, <4>1
      <4> QED BY <1>8, <1>11, <4>2, <4>3 DEF n
    <3>2. CASE k # n + 1
      <4>1. k \in 2 .. n /\ k \in 1 .. n /\ k - 1 \in 1 .. n
        BY <1>2, <3>2
      <4>2. Follows(cs[k - 1], cs[k].page, cs[k].start)
        BY <4>1 DEF ChunksOK, n
      <4> QED BY <1>17, <4>1, <4>2
    <3> QED BY <3>1, <3>2
  <2> QED BY <1>17, <2>1, <2>2 DEF ChunksOK
<1>20. CoveredUpTo(next, page, ps, more)
  <2> SUFFICES ASSUME NEW i \in 1 .. next, IsVisible(text[i])
               PROVE  \E k \in 1 .. Len(more) :
                         more[k].page = page /\ more[k].start < i /\ i <= more[k].end
    BY DEF CoveredUpTo, text
  <2>1. i \in Int /\ next \in Int /\ c.end \in Int
    BY <1>9, <1>11, <1>14
  <2>2. CASE i <= from
    <3>1. i \in 1 .. from
      BY <2>2
    <3> QED BY <1>18, <3>1 DEF CoveredUpTo, text
  <2>3. CASE from < i /\ i <= c.end
    <3>1. n + 1 \in 1 .. Len(more)
      BY <1>2, <1>17
    <3> QED BY <1>11, <1>17, <2>3, <3>1
  <2>4. CASE c.end < i /\ i <= end
    <3>1. i \in c.end + 1 .. end
      BY <1>6, <2>1, <2>4
    <3> QED BY <1>13, <3>1
  <2>5. CASE end < i
    <3>1. i \in end + 1 .. next
      BY <1>6, <2>1, <2>5
    <3> QED BY <1>9, <3>1
  <2> QED BY <1>6, <2>1, <2>2, <2>3, <2>4, <2>5
<1>21. next \in Nat /\ from < next /\ next <= Len(text)
  BY <1>1, <1>9
<1>22. more # <<>> => Follows(more[Len(more)], page, next)
  BY <1>11, <1>17, <1>21 DEF Follows
<1>23. Reached(next, page, ps, more)
  BY <1>9, <1>20, <1>21, <1>22 DEF Reached, text
<1> QED BY <1>15, <1>16, <1>19, <1>21, <1>23 DEF more

\* Where a page begins nothing of it has been cut.
LEMMA PageBegins ==
    ASSUME NEW ps, PagesOK(ps), NEW page \in 1 .. Len(ps), Len(ps[page].text) > 0,
           NEW cs, cs # <<>> => cs[Len(cs)].page < page
    PROVE  Reached(0, page, ps, cs)
<1> DEFINE text == ps[page].text
<1>1. text \in Text /\ Normal(text)
  BY PagesOKAre DEF PagesAre
<1>2. Len(text) > 0
  OBVIOUS
<1>3. CoveredUpTo(0, page, ps, cs)
  BY DEF CoveredUpTo
<1>4. cs # <<>> => Follows(cs[Len(cs)], page, 0)
  BY DEF Follows
<1> HIDE DEF text
<1>5. Len(text) \in Nat /\ IsVisible(text[1])
  BY <1>1, <1>2, TextIs DEF Normal
<1>6. 0 <= Len(text) /\ IsVisible(text[0 + 1])
  BY <1>5
<1> QED BY <1>3, <1>4, <1>6 DEF Reached, text

\* An extracted document, before it is cut.
LEMMA BeginsEmpty ==
    ASSUME NEW ps, PagesOK(ps)
    PROVE  Progress(1, 0, ps, <<>>)
<1> DEFINE s == Sources(ps)
<1>1. SourcesOK(s, ps)
  BY SourcesAre
<1> HIDE DEF s
<1>2. ASSUME 1 <= Len(s) PROVE Reached(0, s[1].number, ps, <<>>)
  <2> DEFINE j == s[1].number
  <2>1. j \in 1 .. Len(ps) /\ Len(ps[j].text) > 0
    BY <1>1, <1>2 DEF SourcesOK
  <2> HIDE DEF j
  <2>2. Reached(0, j, ps, <<>>)
    BY <2>1, PageBegins
  <2> QED BY <2>2 DEF j
<1>3. 1 \in 1 .. Len(s) + 1
  BY <1>1 DEF SourcesOK
<1> QED BY <1>2, <1>3 DEF Progress, s

\* A page is covered when its end is reached, and the next one begins.
LEMMA PageEnds ==
    ASSUME NEW ps, PagesOK(ps), NEW w, NEW cs, ChunksOK(cs, ps, w), NEW a, NEW from \in Nat,
           Progress(a, from, ps, cs), a <= Len(Sources(ps)),
           from >= Len(ps[Sources(ps)[a].number].text)
    PROVE  Progress(a + 1, 0, ps, cs)
<1> DEFINE s == Sources(ps)
           n == Len(s)
           j == s[a].number
<1>1. SourcesOK(s, ps)
  BY SourcesAre
<1>2. /\ a \in 1 .. n + 1 /\ a <= n
      /\ \A k \in 1 .. a - 1 : Covered(s[k].number, ps, cs)
      /\ Reached(from, j, ps, cs) /\ from >= Len(ps[j].text)
  BY DEF Progress
<1> HIDE DEF s
<1>3. n \in Nat /\ a \in 1 .. n
  BY <1>1, <1>2 DEF SourcesOK
<1>4. j \in 1 .. Len(ps) /\ ps[j].text \in Text /\ Len(ps) \in Nat
  BY <1>1, <1>3, PagesOKAre DEF SourcesOK, PagesAre
<1>5. Covered(j, ps, cs)
  <2>1. Len(ps[j].text) \in Nat
    BY <1>4, TextIs
  <2>2. from = Len(ps[j].text)
    BY <1>2, <2>1 DEF Reached
  <2> QED BY <1>2, <2>2 DEF Reached, Covered
<1>6. \A k \in 1 .. (a + 1) - 1 : Covered(s[k].number, ps, cs)
  BY <1>2, <1>3, <1>5
<1>7. ASSUME a + 1 <= n PROVE Reached(0, s[a + 1].number, ps, cs)
  <2> DEFINE b == a + 1
             i == s[b].number
  <2>1. b \in 1 .. n /\ a < b
    BY <1>3, <1>7
  <2> HIDE DEF b
  <2>2. i \in 1 .. Len(ps) /\ Len(ps[i].text) > 0 /\ j < i
    BY <1>1, <1>3, <2>1 DEF SourcesOK
  <2>3. ASSUME cs # <<>> PROVE cs[Len(cs)].page < i
    <3>1. cs \in Seq(ChunkRecord) /\ Len(cs) \in Nat /\ Len(cs) # 0
      BY <2>3, SequenceIs DEF ChunksOK
    <3>2. cs[Len(cs)] \in ChunkRecord
      BY <3>1, SequenceIs
    <3> DEFINE last == cs[Len(cs)]
    <3>3. Follows(last, j, from)
      BY <1>2, <2>3 DEF Reached
    <3>4. last.page \in Int /\ i \in Int /\ j \in Int
      BY <1>4, <2>2, <3>2 DEF ChunkRecord
    <3> HIDE DEF last, i, j
    <3>5. last.page <= j
      BY <3>3, <3>4 DEF Follows
    <3>6. last.page < i
      BY <2>2, <3>4, <3>5
    <3> QED BY <3>6 DEF last
  <2> HIDE DEF i, j
  <2>4. Reached(0, i, ps, cs)
    BY <2>2, <2>3, PageBegins
  <2> QED BY <2>4 DEF i, b
<1>8. a + 1 \in 1 .. n + 1
  BY <1>3
<1> QED BY <1>6, <1>7, <1>8 DEF Progress, s

\* When all source pages are cut, every page is covered.
LEMMA AllCovered ==
    ASSUME NEW ps, PagesOK(ps), NEW cs, NEW a, NEW from,
           Progress(a, from, ps, cs), a > Len(Sources(ps))
    PROVE  \A i \in 1 .. Len(ps) : Covered(i, ps, cs)
<1> DEFINE s == Sources(ps)
           n == Len(s)
<1>1. SourcesOK(s, ps) /\ PagesAre(ps)
  BY SourcesAre, PagesOKAre
<1>2. a \in 1 .. n + 1 /\ a > n /\ \A k \in 1 .. a - 1 : Covered(s[k].number, ps, cs)
  BY DEF Progress
<1> HIDE DEF s
<1>3. \A k \in 1 .. n : Covered(s[k].number, ps, cs)
  BY <1>1, <1>2 DEF SourcesOK
<1> TAKE i \in 1 .. Len(ps)
<1>4. CASE Len(ps[i].text) > 0
  BY <1>1, <1>3, <1>4 DEF SourcesOK
<1>5. CASE ~(Len(ps[i].text) > 0)
  <2>1. Len(ps[i].text) \in Nat
    BY <1>1, TextIs DEF PagesAre
  <2> DEFINE l == Len(ps[i].text)
  <2> HIDE DEF l
  <2>2. \A x \in 1 .. l : FALSE
    BY <1>5, <2>1 DEF l
  <2> QED BY <2>2 DEF Covered, CoveredUpTo, l
<1> QED BY <1>4, <1>5

-----------------------------------------------------------------------------
\* The vectors and the rows.

\* Vectors that are accepted are those of the chunks, in their order.
LEMMA AcceptedVectors ==
    ASSUME NEW n \in Nat, n > 0, DOMAIN chunks = 1 .. n, NEW raw \in RawVectors(Passages),
           VectorsAccepted(raw, Passages)
    PROVE  /\ Len(raw) = n
           /\ \A k \in 1 .. n : raw[k] = Vector(NormalizeEmbeddingText(chunks[k].text))
<1> DEFINE T == {NormalizeEmbeddingText(chunks[i].text) : i \in 1 .. n}
           passages == Passages
           V == {Vector(p) : p \in T}
           right == [i \in DOMAIN passages |-> Vector(passages[i])]
<1>1. passages \in Seq(T) /\ Len(passages) = n /\ DOMAIN passages = 1 .. n
      /\ \A k \in 1 .. n : passages[k] = NormalizeEmbeddingText(chunks[k].text)
  <2> DEFINE s == [i \in DOMAIN chunks |-> NormalizeEmbeddingText(chunks[i].text)]
  <2>1. passages = Tuple(s)
    BY DEF Passages
  <2>2. s \in [1 .. n -> T] /\ \A k \in 1 .. n : s[k] = NormalizeEmbeddingText(chunks[k].text)
    OBVIOUS
  <2> HIDE DEF s, T, passages
  <2>3. Tuple(s) = s /\ s \in Seq(T) /\ Len(s) = n
    BY <2>2, TupleIs
  <2> QED BY <2>1, <2>2, <2>3
<1>2. raw \in {right, Tail(right), Append(right, Head(right))}
                 \union {[right EXCEPT ![i].sound = FALSE] : i \in DOMAIN right}
  BY DEF RawVectors
<1>3. Len(raw) = n /\ \A i \in DOMAIN raw : raw[i].sound
  BY <1>1 DEF VectorsAccepted
<1> HIDE DEF passages
<1>4. right \in [1 .. n -> V]
  <2>1. \A k \in 1 .. n : passages[k] \in T
    BY <1>1
  <2> QED BY <1>1, <2>1
<1>5. DOMAIN right = 1 .. n
      /\ \A k \in 1 .. n : right[k] = Vector(NormalizeEmbeddingText(chunks[k].text))
  BY <1>1
<1> HIDE DEF right, V
<1>6. right \in Seq(V) /\ Len(right) = n /\ right # <<>>
  <2>1. right \in Seq(V) /\ Len(right) = n
    BY <1>4, TupleIs
  <2> QED BY <2>1, SequenceIs
<1>7. raw # Tail(right)
  <2>1. Len(Tail(right)) = n - 1
    BY <1>6, HeadTailProperties
  <2>2. n - 1 # n
    OBVIOUS
  <2> QED BY <1>3, <2>1, <2>2
<1>8. raw # Append(right, Head(right))
  <2>1. Head(right) \in V
    BY <1>6, HeadTailProperties
  <2>2. Len(Append(right, Head(right))) = n + 1
    BY <1>6, <2>1, AppendProperties
  <2>3. n + 1 # n
    OBVIOUS
  <2> QED BY <1>3, <2>2, <2>3
<1>9. ASSUME NEW i \in DOMAIN right PROVE raw # [right EXCEPT ![i].sound = FALSE]
  <2> SUFFICES ASSUME raw = [right EXCEPT ![i].sound = FALSE] PROVE FALSE
    OBVIOUS
  <2>1. raw[i] = [right[i] EXCEPT !.sound = FALSE] /\ i \in DOMAIN raw
    OBVIOUS
  <2>2. right[i] = Vector(NormalizeEmbeddingText(chunks[i].text))
    BY <1>5
  <2>3. raw[i].sound = FALSE
    BY <2>1, <2>2 DEF Vector
  <2> QED BY <1>3, <2>1, <2>3
<1>10. raw = right
  BY <1>2, <1>7, <1>8, <1>9
<1> QED BY <1>3, <1>5, <1>10

WindowOK == window.size \in Nat /\ window.overlap \in Nat

\* What is saved from covered pages, their chunks and the vectors is an index.
LEMMA SavedIndexOK ==
    ASSUME PagesOK(pages), ChunksOK(chunks, pages, window), WindowOK,
           \A i \in 1 .. Len(pages) : Covered(i, pages, chunks), VectorsMatch,
           saved' = [pages |-> pages, rows |-> ChunkRows], window' = window
    PROVE  SavedOK'
<1> DEFINE n == Len(chunks)
           rows == saved'.rows
<1>1. n \in Nat /\ DOMAIN chunks = 1 .. n /\ \A k \in 1 .. n : chunks[k] \in ChunkRecord
  BY SequenceIs DEF ChunksOK
<1>2. PagesAre(pages) /\ saved'.pages = pages
  BY PagesOKAre
<1>3. /\ DOMAIN rows = 1 .. n
      /\ \A r \in 1 .. n :
            /\ rows[r].index = chunks[r].index /\ rows[r].page = chunks[r].page
            /\ rows[r].start = chunks[r].start /\ rows[r].end = chunks[r].end
            /\ rows[r].text = chunks[r].text /\ rows[r].vector = vectors[r]
  BY <1>1 DEF ChunkRows
<1>4. ASSUME NEW r \in 1 .. n
      PROVE  /\ rows[r].index = r - 1 /\ rows[r].page \in 1 .. Len(pages)
             /\ rows[r].start \in Nat /\ rows[r].end \in Nat /\ rows[r].text \in Text
             /\ rows[r].text = SubSeq(pages[rows[r].page].text, rows[r].start + 1, rows[r].end)
             /\ Len(rows[r].text) \in 1 .. window.size
             /\ Strip(rows[r].text) = rows[r].text
  <2> DEFINE c == chunks[r]
             text == pages[c.page].text
  <2>1. /\ c \in ChunkRecord /\ c.index = r - 1 /\ c.page \in 1 .. Len(pages)
        /\ IsWindow(c, text, window)
    BY <1>1 DEF ChunksOK
  <2>2. text \in Text
    BY <1>2, <2>1 DEF PagesAre
  <2>3. c.start \in Nat /\ c.end \in Nat
    BY <2>1 DEF ChunkRecord
  <2> HIDE DEF c, text
  <2>4. /\ c.text \in Text /\ Len(c.text) = c.end - c.start /\ Strip(c.text) = c.text
        /\ c.end \in c.start + 1 .. Len(text) /\ c.end <= c.start + window.size
    BY <2>1, <2>2, <2>3, WindowFacts DEF WindowOK
  <2>5. c.text = SubSeq(text, c.start + 1, c.end)
    BY <2>1 DEF IsWindow
  <2>6. Len(c.text) \in 1 .. window.size
    <3> DEFINE x == c.start
               y == c.end
               z == window.size
               l == Len(c.text)
    <3>1. x \in Int /\ y \in Int /\ z \in Int /\ l = y - x /\ x + 1 <= y /\ y <= x + z
      BY <2>3, <2>4 DEF WindowOK
    <3> HIDE DEF x, y, z, l
    <3>2. l \in 1 .. z
      BY <3>1
    <3> QED BY <3>2 DEF l, z
  <2>7. /\ rows[r].index = c.index /\ rows[r].page = c.page /\ rows[r].start = c.start
        /\ rows[r].end = c.end /\ rows[r].text = c.text
    BY <1>3 DEF c
  <2>8. pages[rows[r].page].text = text
    BY <2>7 DEF text
  <2> HIDE DEF rows
  <2> QED BY <2>1, <2>3, <2>4, <2>5, <2>6, <2>7, <2>8
<1>5. \A r \in DOMAIN rows : ChunkOK(rows[r])
  <2> SUFFICES ASSUME NEW r \in 1 .. n PROVE ChunkOK(rows[r])
    BY <1>3
  <2>1. rows[r].index \in Nat
    BY <1>4
  <2>2. rows[r].page \in Nat
    BY <1>4
  <2> QED BY <1>4, <2>1, <2>2 DEF ChunkOK
<1>6. VisibleTextIsIndexed'
  <2> SUFFICES ASSUME NEW p \in 1 .. Len(pages), NEW i \in Visible(pages[p].text)
               PROVE  \E r \in DOMAIN rows : /\ rows[r].page = pages[p].number
                                             /\ i - 1 \in rows[r].start .. rows[r].end - 1
    BY <1>2 DEF VisibleTextIsIndexed, PagesAre
  <2> DEFINE text == pages[p].text
  <2>1. pages[p].number = p /\ text \in Text
    BY <1>2 DEF PagesAre
  <2> HIDE DEF text
  <2>2. i \in 1 .. Len(text) /\ IsVisible(text[i]) /\ Len(text) \in Nat
    BY <2>1, TextIs DEF Visible, text
  <2>3. PICK r \in 1 .. n : chunks[r].page = p /\ chunks[r].start < i /\ i <= chunks[r].end
    BY <2>2 DEF Covered, CoveredUpTo, text
  <2>4. /\ rows[r].page = p /\ rows[r].start < i /\ i <= rows[r].end
        /\ rows[r].start \in Nat /\ rows[r].end \in Nat /\ i \in Int
    <3> HIDE DEF rows
    <3>1. rows[r].start \in Nat /\ rows[r].end \in Nat
      BY <1>4
    <3>2. /\ rows[r].page = chunks[r].page /\ rows[r].start = chunks[r].start
          /\ rows[r].end = chunks[r].end
      BY <1>3
    <3> QED BY <2>2, <2>3, <3>1, <3>2
  <2> HIDE DEF rows
  <2>5. i - 1 \in rows[r].start .. rows[r].end - 1
    BY <2>4
  <2> QED BY <1>3, <2>1, <2>4, <2>5
<1>7. ChunksQuoteTheirPage'
  BY <1>2, <1>3, <1>4 DEF ChunksQuoteTheirPage
<1>8. ChunksInReadingOrder'
  <2> SUFFICES ASSUME NEW r \in 1 .. n, r > 1
               PROVE  LET row == rows[r]
                          before == rows[r - 1]
                      IN  \/ before.page < row.page
                          \/ /\ before.page = row.page /\ before.start < row.start
                             /\ before.end <= row.end
    BY <1>3, <1>4 DEF ChunksInReadingOrder
  <2> DEFINE c == chunks[r - 1]
             d == chunks[r]
             text == pages[d.page].text
  <2>1. r \in 2 .. n /\ r - 1 \in 1 .. n
    BY <1>1
  <2>2. Follows(c, d.page, d.start)
    BY <2>1 DEF ChunksOK
  <2>3. /\ IsWindow(c, pages[c.page].text, window) /\ IsWindow(d, text, window)
        /\ d.page \in 1 .. Len(pages) /\ c.start \in Nat /\ d.start \in Nat
    BY <1>1, <2>1 DEF ChunksOK, ChunkRecord
  <2>4. text \in Text
    BY <1>2, <2>3 DEF PagesAre
  <2>5. c.page = d.page => IsWindow(c, text, window)
    BY <2>3
  <2>6. /\ rows[r].page = d.page /\ rows[r].start = d.start /\ rows[r].end = d.end
        /\ rows[r - 1].page = c.page /\ rows[r - 1].start = c.start /\ rows[r - 1].end = c.end
    BY <1>3, <2>1
  <2> HIDE DEF c, d, text, rows
  <2>7. c.page = d.page /\ c.start < d.start => c.end <= d.end
    BY <2>3, <2>4, <2>5, WindowsGrow DEF WindowOK
  <2> QED BY <2>2, <2>6, <2>7 DEF Follows
<1>9. VectorsBelongToChunks'
  BY <1>3 DEF VectorsBelongToChunks, VectorsMatch
<1> QED BY <1>5, <1>6, <1>7, <1>8, <1>9 DEF SavedOK

-----------------------------------------------------------------------------
\* The invariant.

\* Nothing is well-formed.
LEMMA EmptyOK ==
    /\ PagesOK(<<>>) /\ Len(<<>>) = 0
    /\ \A ps, w : ChunksOK(<<>>, ps, w)
<1>1. Len(<<>>) = 0
  BY EmptySeq
<1>2. PagesOK(<<>>)
  BY <1>1, EmptySeq DEF PagesOK
<1>3. \A ps, w : ChunksOK(<<>>, ps, w)
  BY <1>1, EmptySeq DEF ChunksOK
<1> QED BY <1>1, <1>2, <1>3

LEMMA WindowSizes ==
    ASSUME window \in Windows
    PROVE  WindowOK
BY WindowsAssumption DEF WindowOK

\* What is saved keeps its properties while nobody saves.
LEMMA SavedStays ==
    ASSUME SavedOK, UNCHANGED <<window, saved>>
    PROVE  SavedOK'
BY DEF SavedOK, VisibleTextIsIndexed, ChunksQuoteTheirPage, ChunksInReadingOrder,
       VectorsBelongToChunks

LEMMA InitIndex == Init => IndexInv
<1> SUFFICES ASSUME Init PROVE IndexInv
  OBVIOUS
<1>1. SavedOK
  BY EmptySeq DEF Init, NothingSaved, SavedOK, VisibleTextIsIndexed, ChunksQuoteTheirPage,
                  ChunksInReadingOrder, VectorsBelongToChunks
<1>2. FailureHasReason
  BY DEF Init, FailureHasReason
<1>3. 1 \in 1 .. MaxExecutions
  BY MaxExecutionsAssumption
<1>4. PagesOK(pages) /\ ChunksOK(chunks, pages, window) /\ Len(vectors) = 0 /\ Len(chunks) = 0
  BY EmptyOK DEF Init
<1>5. /\ file \in Files /\ window \in Windows /\ pc = "extract" /\ chunks = <<>> /\ vectors = <<>>
      /\ at = 1 /\ start = 0 /\ executions = 1 /\ faulty = FALSE
  BY DEF Init
<1>6. Len(vectors) \in Nat /\ Len(vectors) <= Len(chunks)
  BY <1>4
<1>7. pc \in Step /\ pc \notin {"chunk", "embed", "save"}
  BY <1>5 DEF Step
<1>8. at \in Nat /\ start \in Nat /\ executions \in 1 .. MaxExecutions /\ faulty \in BOOLEAN
  BY <1>3, <1>5
<1> QED BY <1>1, <1>2, <1>4, <1>5, <1>6, <1>7, <1>8 DEF IndexInv

\* A step that fails changes nothing else, and has its reason.
LEMMA FailByStep ==
    ASSUME IndexInv, NEW fault \in BOOLEAN, FailBy(fault),
           fault \/ ~WindowIsValid(window.size, window.overlap)
    PROVE  IndexInv'
<1>1. SavedOK'
  BY SavedStays DEF IndexInv, FailBy
<1>2. FailureHasReason'
  BY DEF FailureHasReason, FailBy
<1> QED BY <1>1, <1>2 DEF IndexInv, FailBy, Fail, Step

LEMMA ExtractStep ==
    ASSUME IndexInv, NEW ocrWorks \in BOOLEAN, Extract(ocrWorks)
    PROVE  IndexInv'
<1> DEFINE r == ExtractDocument(file, ocrWorks)
<1>1. SavedOK'
  BY SavedStays DEF IndexInv, Extract
<1>2. at = 1 /\ start = 0 /\ chunks = <<>> /\ vectors = <<>>
  BY DEF IndexInv, Extract
<1>3. /\ UNCHANGED <<file, window, at, start, chunks, vectors, saved, executions>>
      /\ faulty' = (faulty \/ ~ocrWorks) /\ faulty' \in BOOLEAN
  BY DEF Extract, IndexInv
<1>4. Len(vectors') \in Nat /\ Len(vectors') <= Len(chunks')
  BY <1>3 DEF IndexInv
<1>5. CASE r.error # "none"
  <2>1. pc' = "failed" /\ pages' = pages
    BY <1>5 DEF Extract, Fail
  <2>2. FailureHasReason'
    <3>1. ~ocrWorks => faulty'
      BY <1>3
    <3>2. ocrWorks => ExtractDocument(file', TRUE).error # "none"
      BY <1>3, <1>5
    <3> QED BY <3>1, <3>2 DEF FailureHasReason
  <2> QED BY <1>1, <1>3, <1>4, <2>1, <2>2 DEF IndexInv, Step
<1>6. CASE r.error = "none"
  <2>1. pc' = "chunk" /\ pages' = r.pages
    BY <1>6 DEF Extract
  <2>2. FileOK(file)
    BY FilesAssumption DEF IndexInv
  <2>3. PagesOK(pages')
    BY <1>6, <2>1, <2>2, ExtractedPages
  <2>4. ChunksOK(chunks', pages', window')
    BY <1>2, <1>3, EmptyOK
  <2>5. Progress(at', start', pages', chunks')
    BY <1>2, <1>3, <2>3, BeginsEmpty
  <2>6. FailureHasReason'
    BY <2>1 DEF FailureHasReason
  <2>7. /\ file' \in Files /\ window' \in Windows /\ at' \in Nat /\ start' \in Nat
        /\ executions' \in 1 .. MaxExecutions /\ faulty' \in BOOLEAN
        /\ vectors' = <<>> /\ pc' = "chunk"
    BY <1>2, <1>3, <2>1 DEF IndexInv
  <2> QED BY <1>1, <1>4, <2>3, <2>4, <2>5, <2>6, <2>7 DEF IndexInv, Step
<1> QED BY <1>5, <1>6

LEMMA CutChunkStep ==
    ASSUME IndexInv, CutChunk
    PROVE  IndexInv'
<1> DEFINE page == SourcePages[at].number
           text == pages[page].text
           end == FindChunkEnd(text, start, window.size)
           next == FindNextStart(text, start, end, window.overlap)
           range == TrimChunkRange(text, start, end)
           c == [index |-> Len(chunks), page |-> page, start |-> range.start,
                 end |-> range.end, text |-> range.text]
<1>1. /\ pc = "chunk" /\ WindowIsValid(window.size, window.overlap)
      /\ at <= Len(SourcePages) /\ start < Len(PageText)
      /\ UNCHANGED <<file, window, at, pages, vectors, saved, executions, faulty>>
  BY DEF CutChunk
<1>2. /\ PagesOK(pages) /\ ChunksOK(chunks, pages, window) /\ start \in Nat
      /\ Progress(at, start, pages, chunks) /\ WindowOK /\ vectors = <<>>
  BY <1>1, WindowSizes DEF IndexInv
<1>3. SourcePages = Sources(pages)
  BY DEF SourcePages, Sources
<1>4. at \in 1 .. Len(SourcePages)
  BY <1>1, <1>2, <1>3, SourcesAre DEF Progress, SourcesOK
<1>5. page \in 1 .. Len(pages) /\ PageText = text
  BY <1>2, <1>4, PageTextIs
<1>6. Reached(start, page, pages, chunks) /\ start < Len(text)
  BY <1>1, <1>2, <1>3, <1>5 DEF Progress
<1>7. /\ chunks' = IF range.text = <<>> THEN chunks ELSE Append(chunks, c)
      /\ IF next <= start THEN pc' = "failed" /\ start' = start
         ELSE start' = next /\ pc' = pc
  BY <1>5, Zenon DEF CutChunk, Cut, Fail
<1>8. CutOf(c, Len(chunks), page, range)
  BY DEF CutOf
<1>9. /\ end = FindChunkEnd(pages[page].text, start, window.size)
      /\ next = FindNextStart(pages[page].text, start, end, window.overlap)
      /\ range = TrimChunkRange(pages[page].text, start, end)
  OBVIOUS
<1>10. start < Len(pages[page].text)
  BY <1>6
<1> HIDE DEF page, text, end, next, range, c
<1>11. /\ range.text # <<>> /\ next \in Nat /\ start < next
       /\ c \in ChunkRecord
       /\ ChunksOK(Append(chunks, c), pages, window)
       /\ Reached(next, page, pages, Append(chunks, c))
  BY <1>1, <1>2, <1>5, <1>6, <1>8, <1>9, <1>10, RoundOK DEF WindowOK
<1>12. chunks' = Append(chunks, c) /\ start' = next /\ pc' = pc
  BY <1>2, <1>7, <1>11
<1>13. chunks \in Seq(ChunkRecord) /\ Len(chunks) \in Nat
  BY <1>2, SequenceIs DEF ChunksOK
<1>14. \A k \in 1 .. at - 1 : Covered(SourcePages[k].number, pages, chunks')
  <2> TAKE k \in 1 .. at - 1
  <2>1. Covered(SourcePages[k].number, pages, chunks)
    BY <1>2, <1>3 DEF Progress
  <2> QED BY <1>11, <1>12, <1>13, <2>1, StillCovered DEF Covered
<1>15. Progress(at', start', pages', chunks')
  <2>1. Reached(start', SourcePages[at].number, pages, chunks')
    BY <1>11, <1>12 DEF page
  <2>2. at \in 1 .. Len(SourcePages) + 1
    BY <1>2, <1>3 DEF Progress
  <2> QED BY <1>1, <1>3, <1>14, <2>1, <2>2 DEF Progress
<1>16. SavedOK'
  BY <1>1, SavedStays DEF IndexInv
<1>17. FailureHasReason'
  BY <1>1, <1>12 DEF FailureHasReason
<1>18. Len(vectors') \in Nat /\ Len(vectors') <= Len(chunks')
  <2>1. Len(vectors') = 0
    BY <1>1, <1>2, EmptyOK
  <2>2. Len(chunks') = Len(chunks) + 1
    BY <1>11, <1>12, <1>13, AppendIs
  <2> QED BY <1>13, <2>1, <2>2
<1>19. ChunksOK(chunks', pages', window')
  BY <1>1, <1>11, <1>12
<1> QED BY <1>1, <1>11, <1>12, <1>15, <1>16, <1>17, <1>18, <1>19 DEF IndexInv

LEMMA NextPageStep ==
    ASSUME IndexInv, NextPage
    PROVE  IndexInv'
<1>1. /\ pc = "chunk" /\ at <= Len(SourcePages) /\ start >= Len(PageText)
      /\ at' = at + 1 /\ start' = 0
      /\ UNCHANGED <<file, window, pc, pages, chunks, vectors, saved, executions, faulty>>
  BY DEF NextPage
<1>2. /\ PagesOK(pages) /\ ChunksOK(chunks, pages, window) /\ start \in Nat
      /\ Progress(at, start, pages, chunks)
  BY <1>1 DEF IndexInv
<1>3. SourcePages = Sources(pages)
  BY DEF SourcePages, Sources
<1>4. at \in 1 .. Len(SourcePages)
  BY <1>1, <1>2, <1>3, SourcesAre DEF Progress, SourcesOK
<1>5. start >= Len(pages[Sources(pages)[at].number].text)
  BY <1>1, <1>2, <1>3, <1>4, PageTextIs
<1>6. Progress(at', start', pages', chunks')
  BY <1>1, <1>2, <1>3, <1>5, PageEnds
<1>7. SavedOK'
  BY <1>1, SavedStays DEF IndexInv
<1>8. FailureHasReason'
  BY <1>1 DEF FailureHasReason, IndexInv
<1>9. at' \in Nat
  BY <1>1 DEF IndexInv
<1> QED BY <1>1, <1>6, <1>7, <1>8, <1>9 DEF IndexInv

LEMMA EndChunkingStep ==
    ASSUME IndexInv, EndChunking
    PROVE  IndexInv'
<1>1. /\ pc = "chunk" /\ at > Len(SourcePages)
      /\ pc' = IF chunks = <<>> THEN "save" ELSE "embed"
      /\ UNCHANGED <<file, window, pages, at, start, chunks, vectors, saved, executions, faulty>>
  BY DEF EndChunking
<1>2. /\ PagesOK(pages) /\ ChunksOK(chunks, pages, window) /\ vectors = <<>>
      /\ Progress(at, start, pages, chunks)
  BY <1>1 DEF IndexInv
<1>3. SourcePages = Sources(pages)
  BY DEF SourcePages, Sources
<1>4. \A i \in 1 .. Len(pages') : Covered(i, pages', chunks')
  BY <1>1, <1>2, <1>3, AllCovered
<1>5. SavedOK'
  BY <1>1, SavedStays DEF IndexInv
<1>6. pc' \in {"save", "embed"} /\ FailureHasReason'
  BY <1>1 DEF FailureHasReason
<1>7. chunks = <<>> => VectorsMatch'
  BY <1>1, <1>2, EmptyOK DEF VectorsMatch
<1> QED BY <1>1, <1>2, <1>4, <1>5, <1>6, <1>7 DEF IndexInv, Step

LEMMA EmbedStep ==
    ASSUME IndexInv, EmbedPassages
    PROVE  IndexInv'
<1>1. pc = "embed" /\ UNCHANGED <<file, window, pages, at, start, chunks, saved, executions>>
  BY DEF EmbedPassages
<1>2. PICK raw \in RawVectors(Passages) :
         IF VectorsAccepted(raw, Passages)
         THEN vectors' = raw /\ pc' = "save" /\ UNCHANGED faulty
         ELSE Fail /\ faulty' = TRUE /\ UNCHANGED vectors
  BY DEF EmbedPassages
<1>3. SavedOK'
  BY <1>1, SavedStays DEF IndexInv
<1>4. CASE ~VectorsAccepted(raw, Passages)
  <2>1. pc' = "failed" /\ faulty' = TRUE /\ vectors' = vectors
    BY <1>2, <1>4 DEF Fail
  <2>2. FailureHasReason'
    BY <2>1 DEF FailureHasReason
  <2> QED BY <1>1, <1>3, <2>1, <2>2 DEF IndexInv, Step
<1>5. CASE VectorsAccepted(raw, Passages)
  <2>1. vectors' = raw /\ pc' = "save" /\ faulty' = faulty
    BY <1>2, <1>5
  <2> DEFINE n == Len(chunks)
  <2>2. n \in Nat /\ DOMAIN chunks = 1 .. n /\ n > 0
    <3>1. chunks \in Seq(ChunkRecord) /\ chunks # <<>>
      BY <1>1 DEF IndexInv, ChunksOK
    <3> QED BY <3>1, SequenceIs
  <2> HIDE DEF n
  <2>3. Len(raw) = n /\ \A k \in 1 .. n : raw[k] = Vector(NormalizeEmbeddingText(chunks[k].text))
    BY <1>5, <2>2, AcceptedVectors
  <2>4. VectorsMatch'
    BY <1>1, <2>1, <2>3 DEF VectorsMatch, n
  <2>5. Len(vectors') \in Nat /\ Len(vectors') <= Len(chunks')
    BY <1>1, <2>1, <2>2, <2>3 DEF n
  <2>6. FailureHasReason'
    BY <2>1 DEF FailureHasReason
  <2> QED BY <1>1, <1>3, <2>1, <2>4, <2>5, <2>6 DEF IndexInv, Step
<1> QED BY <1>4, <1>5

LEMMA SaveStep ==
    ASSUME IndexInv, SaveIndex
    PROVE  IndexInv'
<1>1. /\ pc = "save" /\ saved' = [pages |-> pages, rows |-> ChunkRows] /\ pc' = "done"
      /\ UNCHANGED <<file, window, pages, at, start, chunks, vectors, executions, faulty>>
  BY DEF SaveIndex
<1>2. /\ PagesOK(pages) /\ ChunksOK(chunks, pages, window) /\ WindowOK /\ VectorsMatch
      /\ \A i \in 1 .. Len(pages) : Covered(i, pages, chunks)
  BY <1>1, WindowSizes DEF IndexInv
<1>3. SavedOK'
  BY <1>1, <1>2, SavedIndexOK
<1>4. FailureHasReason'
  BY <1>1 DEF FailureHasReason
<1> QED BY <1>1, <1>3, <1>4 DEF IndexInv, Step

LEMMA ExecuteAgainStep ==
    ASSUME IndexInv, ExecuteAgain
    PROVE  IndexInv'
<1>1. SavedOK'
  BY SavedStays DEF IndexInv, ExecuteAgain
<1>2. FailureHasReason'
  BY DEF FailureHasReason, ExecuteAgain
<1>3. executions' \in 1 .. MaxExecutions
  BY MaxExecutionsAssumption DEF IndexInv, ExecuteAgain
<1>4. /\ PagesOK(pages') /\ ChunksOK(chunks', pages', window')
      /\ Len(vectors') = 0 /\ Len(chunks') = 0
  BY EmptyOK DEF ExecuteAgain
<1>5. /\ file' \in Files /\ window' \in Windows /\ pc' = "extract"
      /\ chunks' = <<>> /\ vectors' = <<>> /\ at' = 1 /\ start' = 0 /\ faulty' = FALSE
  BY DEF ExecuteAgain, IndexInv
<1>6. Len(vectors') \in Nat /\ Len(vectors') <= Len(chunks')
  BY <1>4
<1>7. pc' \in Step /\ pc' \notin {"chunk", "embed", "save"}
  BY <1>5 DEF Step
<1>8. at' \in Nat /\ start' \in Nat /\ faulty' \in BOOLEAN
  BY <1>5
<1> QED BY <1>1, <1>2, <1>3, <1>4, <1>5, <1>6, <1>7, <1>8 DEF IndexInv

LEMMA NextIndex == IndexInv /\ [Next]_vars => IndexInv'
<1> SUFFICES ASSUME IndexInv, [Next]_vars PROVE IndexInv'
  OBVIOUS
<1>1. CASE \E ocrWorks \in BOOLEAN : Extract(ocrWorks)
  BY <1>1, ExtractStep
<1>2. CASE RefuseWindow
  <2>1. FailBy(FALSE) /\ ~WindowIsValid(window.size, window.overlap)
    BY <1>2 DEF RefuseWindow
  <2> QED BY <2>1, FailByStep
<1>3. CASE CutChunk
  BY <1>3, CutChunkStep
<1>4. CASE NextPage
  BY <1>4, NextPageStep
<1>5. CASE EndChunking
  BY <1>5, EndChunkingStep
<1>6. CASE EmbedPassages
  BY <1>6, EmbedStep
<1>7. CASE EmbedRaises
  BY <1>7, FailByStep DEF EmbedRaises
<1>8. CASE SaveIndex
  BY <1>8, SaveStep
<1>9. CASE SaveFails
  <2>1. Len(vectors) = Len(chunks)
    BY <1>9 DEF SaveFails, IndexInv, VectorsMatch
  <2>2. FailBy(TRUE)
    BY <1>9, <2>1 DEF SaveFails
  <2> QED BY <2>2, FailByStep
<1>10. CASE ExecuteAgain
  BY <1>10, ExecuteAgainStep
<1>11. CASE UNCHANGED vars
  <2>1. SavedOK'
    BY <1>11, SavedStays DEF IndexInv, vars
  <2>2. FailureHasReason'
    BY <1>11 DEF IndexInv, vars, FailureHasReason
  <2> QED BY <1>11, <2>1, <2>2 DEF IndexInv, vars, VectorsMatch
<1> QED BY <1>1, <1>2, <1>3, <1>4, <1>5, <1>6, <1>7, <1>8, <1>9, <1>10, <1>11 DEF Next, Work, Rest

\* The invariant of a processing run: pages, chunks and vectors as they are built,
\* and what was saved of them.
THEOREM SpecIndexInv == Spec => []IndexInv
<1>1. Init => IndexInv
  BY InitIndex
<1>2. IndexInv /\ [Next]_vars => IndexInv'
  BY NextIndex
<1> QED BY <1>1, <1>2, PTL DEF Spec

\* The state of a processing run has its type.
THEOREM SpecTypeOK == Spec => []TypeOK
<1>1. IndexInv => TypeOK
  <2> SUFFICES ASSUME IndexInv PROVE TypeOK
    OBVIOUS
  <2>1. \A i \in DOMAIN pages : pages[i].number \in Nat /\ pages[i].text \in Text
    <3>1. PagesAre(pages)
      BY PagesOKAre DEF IndexInv
    <3> QED BY <3>1 DEF PagesAre, PageRecord
  <2>2. \A i \in DOMAIN chunks : ChunkOK(chunks[i])
    <3>1. chunks \in Seq(ChunkRecord)
      BY DEF IndexInv, ChunksOK
    <3>2. \A i \in DOMAIN chunks : chunks[i] \in ChunkRecord
      BY <3>1, SequenceIs
    <3> QED BY <3>2 DEF ChunkRecord, ChunkOK
  <2> QED BY <2>1, <2>2 DEF IndexInv, SavedOK, TypeOK
<1> QED BY <1>1, SpecIndexInv, PTL

\* Every visible character of a saved page lies in a saved chunk of it: windows end
\* at breaks and start behind white space, and lose nothing else.
THEOREM SpecVisibleTextIsIndexed == Spec => []VisibleTextIsIndexed
<1>1. IndexInv => VisibleTextIsIndexed
  BY DEF IndexInv, SavedOK
<1> QED BY <1>1, SpecIndexInv, PTL

\* The offsets of a saved chunk cut its text out of the saved page, and it fits the
\* configured size.
THEOREM SpecChunksQuoteTheirPage == Spec => []ChunksQuoteTheirPage
<1>1. IndexInv => ChunksQuoteTheirPage
  BY DEF IndexInv, SavedOK
<1> QED BY <1>1, SpecIndexInv, PTL

\* Saved chunks are numbered from the first page to the last, whatever was executed
\* before.
THEOREM SpecChunksInReadingOrder == Spec => []ChunksInReadingOrder
<1>1. IndexInv => ChunksInReadingOrder
  BY DEF IndexInv, SavedOK
<1> QED BY <1>1, SpecIndexInv, PTL

\* Every saved chunk has the vector of its own text, whatever the model returned.
THEOREM SpecVectorsBelongToChunks == Spec => []VectorsBelongToChunks
<1>1. IndexInv => VectorsBelongToChunks
  BY DEF IndexInv, SavedOK
<1> QED BY <1>1, SpecIndexInv, PTL

\* A run fails only for its file, its window, or a fault: the window always moves on.
THEOREM SpecFailureHasReason == Spec => []FailureHasReason
<1>1. IndexInv => FailureHasReason
  BY DEF IndexInv
<1> QED BY <1>1, SpecIndexInv, PTL

=============================================================================
