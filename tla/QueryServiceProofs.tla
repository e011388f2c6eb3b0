---------------------------- MODULE QueryServiceProofs ----------------------------
(***************************************************************************)
(* Proofs about QueryService: types and the pool, what a workspace is told,*)
(* complete results, what the citations of an answer have in common, and   *)
(* what the queries find in a workspace with the demonstration data.       *)
(***************************************************************************)
EXTENDS SeededQueries, OrderLemmas

USE DEF Step, Reply

-----------------------------------------------------------------------------
\* Hits in the order of the search.

\* What the order compares are numbers.
Comparable(row) ==
    ChunkOf(row).distance \in Nat /\ row.document \in Nat /\ row.index \in Nat

NearerIn(rows) == {p \in rows \X rows : Nearer(p[1], p[2])}

LEMMA NearerIsOrder ==
    ASSUME NEW rows, \A row \in rows : Comparable(row)
    PROVE  StrictOrder(NearerIn(rows), rows)
<1>1. ASSUME NEW x \in rows PROVE ~Nearer(x, x)
  BY DEF Comparable, Nearer
<1>2. ASSUME NEW x \in rows, NEW y \in rows, NEW z \in rows, Nearer(x, y), Nearer(y, z)
      PROVE  Nearer(x, z)
  <2>1. Comparable(x) /\ Comparable(y) /\ Comparable(z)
    OBVIOUS
  <2> QED BY <2>1, <1>2 DEF Comparable, Nearer
<1> QED BY <1>1, <1>2 DEF StrictOrder, NearerIn

LEMMA RankIsBelow ==
    ASSUME NEW rows, NEW row \in rows
    PROVE  Rank(row, rows) = 1 + Cardinality(Below(NearerIn(rows), rows, row))
<1>1. {r \in rows : Nearer(r, row)} = Below(NearerIn(rows), rows, row)
  BY DEF Below, NearerIn
<1> QED BY <1>1 DEF Rank

-----------------------------------------------------------------------------
\* What the search reads.

PublishedOK ==
    /\ present \subseteq Documents /\ IsFiniteSet(present)
    /\ opened \in [Documents -> SUBSET Attempts]
    /\ \A d \in Documents :
          IsFiniteSet(opened[d]) /\ (d \notin present => opened[d] = {})
    /\ version \in [Documents -> [Attempts -> 0 .. MaxVersion]]
    /\ shown \in [Documents -> SUBSET Attempts]

RowsOf(d, n) ==
    {[document |-> d, attempt |-> n, execution |-> version[d][n], index |-> i] :
        i \in DOMAIN Chunks[d][n][version[d][n]]}

LEMMA RowsOfFinite ==
    ASSUME PublishedOK, NEW d \in Documents, NEW n \in Attempts
    PROVE  IsFiniteSet(RowsOf(d, n))
<1> DEFINE D == DOMAIN Chunks[d][n][version[d][n]]
           f == [i \in D |->
                   [document |-> d, attempt |-> n, execution |-> version[d][n], index |-> i]]
<1>1. version[d][n] \in 0 .. MaxVersion
  BY DEF PublishedOK
<1>2. Len(Chunks[d][n][version[d][n]]) \in Nat
      /\ D = 1 .. Len(Chunks[d][n][version[d][n]])
  BY <1>1, ChunksAssumption
<1>3. IsFiniteSet(D)
  BY <1>2, FS_Interval
<1>4. RowsOf(d, n) = {f[i] : i \in D}
  BY DEF RowsOf
<1> HIDE DEF D, f
<1> QED BY <1>3, <1>4, FiniteImage

LEMMA ChunkRowsFinite ==
    ASSUME PublishedOK
    PROVE  IsFiniteSet(ChunkRows(opened, version))
<1> DEFINE f(d) == [n \in opened[d] |-> RowsOf(d, n)]
           R(d) == UNION {f(d)[n] : n \in opened[d]}
           g == [d \in present |-> R(d)]
<1>1. ASSUME NEW d \in present PROVE IsFiniteSet(R(d))
  <2>1. d \in Documents /\ IsFiniteSet(opened[d]) /\ opened[d] \subseteq Attempts
    BY DEF PublishedOK
  <2>2. \A n \in opened[d] : IsFiniteSet(f(d)[n])
    BY <2>1, RowsOfFinite
  <2> DEFINE F == f(d)
  <2>3. IsFiniteSet({F[n] : n \in opened[d]})
    <3> HIDE DEF F
    <3> QED BY <2>1, FiniteImage
  <2>4. \A T \in {F[n] : n \in opened[d]} : IsFiniteSet(T)
    BY <2>2
  <2> QED BY <2>3, <2>4, FS_UNION
<1>2. IsFiniteSet({g[d] : d \in present})
  <2>1. IsFiniteSet(present)
    BY DEF PublishedOK
  <2> HIDE DEF g
  <2> QED BY <2>1, FiniteImage
<1>3. \A T \in {g[d] : d \in present} : IsFiniteSet(T)
  BY <1>1
<1>4. IsFiniteSet(UNION {g[d] : d \in present})
  <2> HIDE DEF g
  <2> QED BY <1>2, <1>3, FS_UNION
<1>5. ChunkRows(opened, version) = UNION {g[d] : d \in present}
  <2>1. ASSUME NEW row \in ChunkRows(opened, version) PROVE row \in UNION {g[d] : d \in present}
    <3>1. PICK d \in DOMAIN opened : \E n \in opened[d] : row \in RowsOf(d, n)
      BY DEF ChunkRows, RowsOf
    <3>2. d \in present
      BY <3>1 DEF PublishedOK
    <3>3. row \in R(d)
      BY <3>1
    <3> QED BY <3>2, <3>3
  <2>2. ASSUME NEW d \in present, NEW row \in R(d) PROVE row \in ChunkRows(opened, version)
    <3>1. d \in DOMAIN opened
      BY DEF PublishedOK
    <3>2. PICK n \in opened[d] : row \in RowsOf(d, n)
      OBVIOUS
    <3>3. row \in UNION {RowsOf(d, m) : m \in opened[d]}
      BY <3>2
    <3> QED BY <3>1, <3>3 DEF ChunkRows, RowsOf
  <2> QED BY <2>1, <2>2
<1> QED BY <1>4, <1>5

LEMMA ChunkRowShape ==
    ASSUME PublishedOK, NEW row \in ChunkRows(opened, version)
    PROVE  /\ row.document \in Documents /\ row.attempt \in opened[row.document]
           /\ row = [document |-> row.document, attempt |-> row.attempt,
                     execution |-> version[row.document][row.attempt], index |-> row.index]
           /\ Comparable(row)
<1>1. PICK d \in DOMAIN opened : \E n \in opened[d] : row \in RowsOf(d, n)
  BY DEF ChunkRows, RowsOf
<1>2. PICK n \in opened[d] : row \in RowsOf(d, n)
  BY <1>1
<1>3. d \in Documents /\ n \in Attempts /\ version[d][n] \in 0 .. MaxVersion
  BY DEF PublishedOK
<1>4. PICK i \in DOMAIN Chunks[d][n][version[d][n]] :
         row = [document |-> d, attempt |-> n, execution |-> version[d][n], index |-> i]
  BY <1>2 DEF RowsOf
<1>5. i \in Nat /\ Chunks[d][n][version[d][n]][i].distance \in Nat
  BY <1>3, ChunksAssumption
<1>6. d \in Nat
  BY <1>3, DocumentsAssumption
<1> QED BY <1>3, <1>4, <1>5, <1>6 DEF Comparable, ChunkOf

\* The order is total where only the latest completed run of a document is left.
LEMMA CandidatesOrdered ==
    ASSUME PublishedOK, NEW search
    PROVE  LET rows == Candidates(search, opened, version, shown) IN
           /\ IsFiniteSet(rows)
           /\ StrictOrder(NearerIn(rows), rows)
           /\ Total(NearerIn(rows), rows)
<1> DEFINE rows == Candidates(search, opened, version, shown)
<1>1. rows \subseteq ChunkRows(opened, version)
  BY DEF Candidates
<1>2. IsFiniteSet(rows)
  BY <1>1, ChunkRowsFinite, FS_Subset
<1>3. \A row \in rows : Comparable(row)
  BY <1>1, ChunkRowShape
<1>4. StrictOrder(NearerIn(rows), rows)
  <2> HIDE DEF rows
  <2> QED BY <1>3, NearerIsOrder
<1>5. ASSUME NEW x \in rows, NEW y \in rows, ~Nearer(x, y), ~Nearer(y, x) PROVE x = y
  <2>1. x.document = y.document /\ x.index = y.index
    <3>1. Comparable(x) /\ Comparable(y)
      BY <1>3
    <3> QED BY <3>1, <1>5 DEF Comparable, Nearer
  <2>2. x.attempt = y.attempt
    BY <2>1 DEF Candidates, LatestCompleted
  <2> QED BY <1>1, <2>1, <2>2, ChunkRowShape
<1>6. Total(NearerIn(rows), rows)
  BY <1>5 DEF Total, NearerIn
<1> QED BY <1>2, <1>4, <1>6

\* What an answer is made of: hits of the own workspace, nearest first, and of
\* one run of each document.
FromOneSearch(ask, hits) ==
    /\ Len(hits) \in Nat /\ DOMAIN hits = 1 .. Len(hits)
    /\ \A i \in DOMAIN hits :
          Comparable(hits[i]) /\ WorkspaceOf[hits[i].document] = ask.workspace
    /\ \A i, j \in DOMAIN hits :
          /\ i < j => Nearer(hits[i], hits[j])
          /\ hits[i].document = hits[j].document => hits[i].attempt = hits[j].attempt

\* The hits of a search are the nearest candidates, each once and in order.
LEMMA SearchInOrder ==
    ASSUME PublishedOK, NEW ask, NEW topK \in Int
    PROVE  FromOneSearch(ask, SearchDocumentChunks(ask, topK, opened, version, shown))
<1> DEFINE rows == Candidates(ask, opened, version, shown)
           before == NearerIn(rows)
           found == {r \in rows : Rank(r, rows) <= topK}
           hits == SearchDocumentChunks(ask, topK, opened, version, shown)
           N == Cardinality(found)
<1>1. IsFiniteSet(rows) /\ StrictOrder(before, rows) /\ Total(before, rows)
  BY CandidatesOrdered
<1>2. \A r \in rows : Comparable(r) /\ WorkspaceOf[r.document] = ask.workspace
  BY ChunkRowShape DEF Candidates
<1>3. \A r, s \in rows : r.document = s.document => r.attempt = s.attempt
  BY DEF Candidates, LatestCompleted
<1>4. hits = [i \in 1 .. N |-> CHOOSE r \in found : Rank(r, rows) = i]
  BY DEF SearchDocumentChunks
<1> HIDE DEF rows, hits
<1>5. \A r \in rows : Rank(r, rows) = 1 + Cardinality(Below(before, rows, r))
  BY RankIsBelow
<1>6. \A r \in rows : Cardinality(Below(before, rows, r)) \in Nat
  <2>1. \A r \in rows : Cardinality(Below(before, rows, r)) \in 0 .. Cardinality(rows) - 1
    BY <1>1, Ranked
  <2> QED BY <2>1
<1>7. found \subseteq rows /\ IsFiniteSet(found)
  BY <1>1, FS_Subset
<1>8. StrictOrder(before, found) /\ Total(before, found)
  BY <1>1, <1>7 DEF StrictOrder, Total
<1>9. ASSUME NEW x \in found PROVE Below(before, found, x) = Below(before, rows, x)
  <2>1. ASSUME NEW y \in rows, <<y, x>> \in before PROVE y \in found
    <3>1. Cardinality(Below(before, rows, y)) < Cardinality(Below(before, rows, x))
      BY <1>1, <2>1, <1>7, BelowGrows
    <3>2. Rank(x, rows) <= topK /\ x \in rows
      OBVIOUS
    <3>3. Rank(y, rows) <= topK
      BY <3>1, <3>2, <1>5, <1>6
    <3> QED BY <3>3
  <2> HIDE DEF found
  <2> QED BY <2>1, <1>7 DEF Below
<1> HIDE DEF found, before
<1>10. N \in Nat /\ \A k \in 0 .. N - 1 : \E x \in found : Cardinality(Below(before, found, x)) = k
  BY <1>7, <1>8, Ranked
<1>11. \A i \in 1 .. N : \E r \in found : Rank(r, rows) = i
  <2> TAKE i \in 1 .. N
  <2>1. i - 1 \in 0 .. N - 1
    BY <1>10
  <2>2. PICK x \in found : Cardinality(Below(before, found, x)) = i - 1
    BY <1>10, <2>1
  <2>3. Rank(x, rows) = i
    BY <2>2, <1>5, <1>7, <1>9
  <2> QED BY <2>3
<1>12. \A i \in 1 .. N : hits[i] \in found /\ Rank(hits[i], rows) = i
  BY <1>4, <1>11
<1>13. Len(hits) = N /\ DOMAIN hits = 1 .. N
  BY <1>4, <1>10
<1>14. ASSUME NEW i \in 1 .. N, NEW j \in 1 .. N, i < j PROVE Nearer(hits[i], hits[j])
  <2>1. hits[i] \in rows /\ hits[j] \in rows
    BY <1>7, <1>12
  <2>2. Cardinality(Below(before, rows, hits[i])) < Cardinality(Below(before, rows, hits[j]))
    BY <2>1, <1>5, <1>6, <1>12, <1>14
  <2>3. <<hits[i], hits[j]>> \in before
    BY <2>1, <2>2, <1>1, Ranked
  <2> QED BY <2>3 DEF before, NearerIn
<1>15. \A i \in 1 .. N : hits[i] \in rows
  BY <1>7, <1>12
<1> QED BY <1>2, <1>3, <1>10, <1>13, <1>14, <1>15 DEF FromOneSearch, hits

-----------------------------------------------------------------------------
\* Citations: the places of the cited hits are counted in their order.

PlaceIn(S, i) == Cardinality({j \in S : j <= i})

SmallerIn(S) == {p \in S \X S : p[1] < p[2]}

LEMMA PlacesOf ==
    ASSUME NEW L \in Nat, NEW S \in SUBSET (1 .. L)
    PROVE  /\ Cardinality(S) \in Nat /\ Cardinality(S) <= L
           /\ \A k \in 1 .. Cardinality(S) : \E i \in S : PlaceIn(S, i) = k
           /\ \A i, j \in S : i < j <=> PlaceIn(S, i) < PlaceIn(S, j)
<1> DEFINE place(i) == PlaceIn(S, i)
           before == SmallerIn(S)
<1>1. IsFiniteSet(S) /\ Cardinality(S) <= L
  <2>1. IsFiniteSet(1 .. L) /\ Cardinality(1 .. L) = L
    BY FS_Interval
  <2> QED BY <2>1, FS_Subset
<1>2. StrictOrder(before, S) /\ Total(before, S)
  BY DEF StrictOrder, Total, SmallerIn
<1>3. ASSUME NEW i \in S PROVE place(i) = 1 + Cardinality(Below(before, S, i))
  <2> DEFINE B == Below(before, S, i)
  <2>0. \A j \in S : <<j, i>> \in before <=> j < i
    BY DEF SmallerIn
  <2>1. {j \in S : j <= i} = B \union {i} /\ i \notin B /\ B \subseteq S
    <3>1. \A j \in S : j <= i <=> j < i \/ j = i
      OBVIOUS
    <3>2. \A j : j \in B <=> j \in S /\ j < i
      BY <2>0 DEF Below
    <3> HIDE DEF B
    <3>3. i \notin B /\ B \subseteq S
      BY <3>2
    <3>4. \A j : j \in {k \in S : k <= i} <=> j \in B \union {i}
      BY <3>1, <3>2
    <3> QED BY <3>3, <3>4
  <2> HIDE DEF B
  <2>2. IsFiniteSet(B)
    BY <1>1, <2>1, FS_Subset
  <2>3. Cardinality(B \union {i}) = Cardinality(B) + 1 /\ Cardinality(B) \in Nat
    BY <2>1, <2>2, FS_AddElement, FS_CardinalityType
  <2> QED BY <2>1, <2>3 DEF B, PlaceIn
<1>4. \A i, j \in S : <<i, j>> \in before <=> i < j
  BY DEF SmallerIn
<1>5. /\ Cardinality(S) \in Nat
      /\ \A x \in S : Cardinality(Below(before, S, x)) \in 0 .. Cardinality(S) - 1
      /\ \A k \in 0 .. Cardinality(S) - 1 : \E x \in S : Cardinality(Below(before, S, x)) = k
      /\ \A x, y \in S :
            <<x, y>> \in before
               <=> Cardinality(Below(before, S, x)) < Cardinality(Below(before, S, y))
  BY <1>1, <1>2, Ranked
<1>6. ASSUME NEW k \in 1 .. Cardinality(S) PROVE \E i \in S : place(i) = k
  <2>1. k - 1 \in 0 .. Cardinality(S) - 1
    BY <1>5
  <2>2. PICK i \in S : Cardinality(Below(before, S, i)) = k - 1
    BY <1>5, <2>1
  <2>3. place(i) = k
    BY <1>3, <2>2
  <2> QED BY <2>3
<1>7. ASSUME NEW i \in S, NEW j \in S PROVE i < j <=> place(i) < place(j)
  <2>1. place(i) = 1 + Cardinality(Below(before, S, i))
        /\ place(j) = 1 + Cardinality(Below(before, S, j))
    BY <1>3
  <2>2. i < j <=> Cardinality(Below(before, S, i)) < Cardinality(Below(before, S, j))
    BY <1>4, <1>5
  <2>3. Cardinality(Below(before, S, i)) \in Int /\ Cardinality(Below(before, S, j)) \in Int
    BY <1>5
  <2> HIDE DEF place, before
  <2> QED BY <2>1, <2>2, <2>3
<1> QED BY <1>1, <1>5, <1>6, <1>7

\* A citation is made of a hit that is cited, and they keep the order of the hits.
LEMMA CitationsOfHits ==
    ASSUME NEW ask, ask.citations \in Nat \ {0}, NEW hits, FromOneSearch(ask, hits)
    PROVE  LET cited == BuildRagCitations(ask, hits) IN
           /\ Len(cited) \in Nat /\ DOMAIN cited = 1 .. Len(cited)
           /\ Len(cited) <= ask.citations /\ Len(cited) <= Len(hits)
           /\ cited = <<>> => CitedHits(ask, hits) = {}
           /\ \E place \in [1 .. Len(cited) -> CitedHits(ask, hits)] :
                 /\ \A k \in 1 .. Len(cited) :
                       /\ cited[k].number = k
                       /\ cited[k].source = hits[place[k]]
                       /\ cited[k].excerpt = BestExcerpt(ask, ChunkOf(hits[place[k]]))
                 /\ \A k, l \in 1 .. Len(cited) : k < l => place[k] < place[l]
<1> DEFINE S == CitedHits(ask, hits)
           at(i) == PlaceIn(S, i)
           count == IF Cardinality(S) < ask.citations THEN Cardinality(S) ELSE ask.citations
           cited == BuildRagCitations(ask, hits)
           place == [k \in 1 .. count |-> CHOOSE i \in S : at(i) = k]
<1>1. Len(hits) \in Nat /\ S \in SUBSET (1 .. Len(hits))
  BY DEF FromOneSearch, CitedHits
<1>2. cited = [k \in 1 .. count |->
                  [number |-> k, source |-> hits[place[k]],
                   excerpt |-> BestExcerpt(ask, ChunkOf(hits[place[k]])),
                   statement |-> Statement(ask, ChunkOf(hits[place[k]]))]]
  BY DEF BuildRagCitations, PlaceIn
<1> HIDE DEF S, cited
<1>3. /\ Cardinality(S) \in Nat /\ Cardinality(S) <= Len(hits)
      /\ \A k \in 1 .. Cardinality(S) : \E i \in S : at(i) = k
      /\ \A i, j \in S : i < j <=> at(i) < at(j)
  BY <1>1, PlacesOf
<1>4. count \in Nat /\ count <= Cardinality(S) /\ count <= ask.citations
      /\ (count = 0 => Cardinality(S) = 0)
  BY <1>3
<1>5. Len(cited) = count /\ DOMAIN cited = 1 .. count
  BY <1>2, <1>4
<1>6. ASSUME NEW k \in 1 .. count PROVE place[k] \in S /\ at(place[k]) = k
  <2>1. k \in 1 .. Cardinality(S)
    BY <1>3, <1>4
  <2>2. \E i \in S : at(i) = k
    BY <1>3, <2>1
  <2> HIDE DEF at
  <2> QED BY <2>2
<1>7. cited = <<>> => S = {}
  <2>1. cited = <<>> => count = 0
    BY <1>5
  <2>2. IsFiniteSet(S)
    <3>1. IsFiniteSet(1 .. Len(hits))
      BY <1>1, FS_Interval
    <3> QED BY <1>1, <3>1, FS_Subset
  <2> HIDE DEF count
  <2> QED BY <2>1, <2>2, <1>4, FS_EmptySet
<1>8. place \in [1 .. count -> S]
  BY <1>6
<1>9. ASSUME NEW k \in 1 .. count, NEW l \in 1 .. count, k < l PROVE place[k] < place[l]
  <2>1. place[k] \in S /\ place[l] \in S /\ at(place[k]) = k /\ at(place[l]) = l
    BY <1>6
  <2> HIDE DEF at, place
  <2> QED BY <2>1, <1>3, <1>9
<1>10. \A k \in 1 .. count :
          /\ cited[k].number = k
          /\ cited[k].source = hits[place[k]]
          /\ cited[k].excerpt = BestExcerpt(ask, ChunkOf(hits[place[k]]))
  BY <1>2
<1> HIDE DEF place, count
<1>11. /\ Len(cited) \in Nat /\ DOMAIN cited = 1 .. Len(cited)
       /\ Len(cited) <= ask.citations /\ Len(cited) <= Len(hits)
  BY <1>1, <1>3, <1>4, <1>5
<1>12. \E p \in [1 .. Len(cited) -> S] :
          /\ \A k \in 1 .. Len(cited) :
                /\ cited[k].number = k
                /\ cited[k].source = hits[p[k]]
                /\ cited[k].excerpt = BestExcerpt(ask, ChunkOf(hits[p[k]]))
          /\ \A k, l \in 1 .. Len(cited) : k < l => p[k] < p[l]
  BY <1>5, <1>8, <1>9, <1>10
<1> QED BY <1>7, <1>11, <1>12 DEF S, cited

\* The first hit with an excerpt is cited.
LEMMA NothingCitedNothingFound ==
    ASSUME NEW ask, NEW hits, FromOneSearch(ask, hits), CitedHits(ask, hits) = {}
    PROVE  \A i \in DOMAIN hits : BestExcerpt(ask, ChunkOf(hits[i])) = NoExcerpt
<1> DEFINE E(i) == BestExcerpt(ask, ChunkOf(hits[i]))
           S == {i \in DOMAIN hits : E(i) # NoExcerpt}
<1> SUFFICES ASSUME S # {} PROVE FALSE
  OBVIOUS
<1>1. S \in SUBSET Nat /\ DOMAIN hits = 1 .. Len(hits) /\ Len(hits) \in Nat
  BY DEF FromOneSearch
<1>2. PICK i \in S : \A j \in S : i <= j
  <2> HIDE DEF S
  <2> QED BY <1>1, Smallest
<1>3. ASSUME NEW j \in 1 .. i - 1 PROVE E(j) # E(i)
  <2>1. j \in DOMAIN hits /\ ~(i <= j)
    BY <1>1
  <2>2. E(j) = NoExcerpt
    BY <1>2, <2>1
  <2> HIDE DEF E
  <2> QED BY <2>2, <1>2
<1>4. i \in CitedHits(ask, hits)
  BY <1>3 DEF CitedHits
<1> QED BY <1>4

\* What CitationsShareOneResult says of one answer.
CitedWell(ask, hits, all) ==
    LET answer == GroundedAnswer(ask, hits)
        cited == answer.citations
    IN  /\ ~answer.grounded => \A i \in DOMAIN hits :
              BestExcerpt(ask, ChunkOf(hits[i])) = NoExcerpt
        /\ Len(cited) <= ask.citations /\ Len(cited) <= answer.retrieved
        /\ \A i, j \in DOMAIN cited : i < j =>
              /\ cited[i].number < cited[j].number
              /\ cited[i].excerpt # cited[j].excerpt
              /\ Rank(cited[i].source, all) < Rank(cited[j].source, all)
              /\ cited[i].source.document = cited[j].source.document =>
                    cited[i].source.attempt = cited[j].source.attempt

LEMMA CitationsAgree ==
    ASSUME NEW ask, ask.citations \in Nat \ {0}, NEW hits, FromOneSearch(ask, hits)
    PROVE  CitedWell(ask, hits, {hits[i] : i \in DOMAIN hits})
<1> DEFINE answer == GroundedAnswer(ask, hits)
           cited == BuildRagCitations(ask, hits)
           all == {hits[i] : i \in DOMAIN hits}
<1>1. answer.citations = cited /\ answer.retrieved = Len(hits)
      /\ answer.grounded = (cited # <<>>)
  BY DEF GroundedAnswer
<1>2. /\ Len(cited) \in Nat /\ DOMAIN cited = 1 .. Len(cited)
      /\ Len(cited) <= ask.citations /\ Len(cited) <= Len(hits)
      /\ cited = <<>> => CitedHits(ask, hits) = {}
  BY CitationsOfHits
<1>3. PICK place \in [1 .. Len(cited) -> CitedHits(ask, hits)] :
         /\ \A k \in 1 .. Len(cited) :
               /\ cited[k].number = k
               /\ cited[k].source = hits[place[k]]
               /\ cited[k].excerpt = BestExcerpt(ask, ChunkOf(hits[place[k]]))
         /\ \A k, l \in 1 .. Len(cited) : k < l => place[k] < place[l]
  BY CitationsOfHits
<1> HIDE DEF cited, answer
<1>4. IsFiniteSet(all)
  <2> DEFINE D == DOMAIN hits
  <2>1. IsFiniteSet(D)
    BY FS_Interval DEF FromOneSearch
  <2> HIDE DEF D
  <2>2. IsFiniteSet({hits[i] : i \in D})
    BY <2>1, FiniteImage
  <2> QED BY <2>2 DEF D
<1>5. \A h \in all : Comparable(h)
  BY DEF FromOneSearch
<1>6. StrictOrder(NearerIn(all), all)
  <2> HIDE DEF all
  <2> QED BY <1>5, NearerIsOrder
<1>7. ASSUME NEW k \in DOMAIN cited, NEW l \in DOMAIN cited, k < l
      PROVE  /\ cited[k].number < cited[l].number
             /\ cited[k].excerpt # cited[l].excerpt
             /\ Rank(cited[k].source, all) < Rank(cited[l].source, all)
             /\ cited[k].source.document = cited[l].source.document =>
                   cited[k].source.attempt = cited[l].source.attempt
  <2> DEFINE i == place[k]
             j == place[l]
  <2>1. k \in 1 .. Len(cited) /\ l \in 1 .. Len(cited)
    BY <1>2
  <2>2. /\ i < j /\ i \in CitedHits(ask, hits) /\ j \in CitedHits(ask, hits)
        /\ cited[k].number = k /\ cited[l].number = l
        /\ cited[k].source = hits[i] /\ cited[l].source = hits[j]
        /\ cited[k].excerpt = BestExcerpt(ask, ChunkOf(hits[i]))
        /\ cited[l].excerpt = BestExcerpt(ask, ChunkOf(hits[j]))
    BY <2>1, <1>3, <1>7
  <2> HIDE DEF i, j
  <2>3. i \in DOMAIN hits /\ j \in DOMAIN hits /\ i \in Nat /\ j \in Nat /\ 1 <= i
    BY <2>2 DEF CitedHits, FromOneSearch
  <2>4. i \in 1 .. j - 1
    BY <2>2, <2>3
  <2>5. BestExcerpt(ask, ChunkOf(hits[i])) # BestExcerpt(ask, ChunkOf(hits[j]))
    BY <2>2, <2>4 DEF CitedHits
  <2>6. hits[i] \in all /\ hits[j] \in all /\ Nearer(hits[i], hits[j])
    BY <2>2, <2>3 DEF FromOneSearch
  <2>7. <<hits[i], hits[j]>> \in NearerIn(all)
    BY <2>6 DEF NearerIn
  <2> HIDE DEF all
  <2>8. /\ Cardinality(Below(NearerIn(all), all, hits[i])) \in Nat
        /\ Cardinality(Below(NearerIn(all), all, hits[j])) \in Nat
        /\ Cardinality(Below(NearerIn(all), all, hits[i]))
              < Cardinality(Below(NearerIn(all), all, hits[j]))
    BY <1>4, <1>6, <2>6, <2>7, BelowGrows
  <2>9. Rank(hits[i], all) < Rank(hits[j], all)
    BY <2>6, <2>8, RankIsBelow
  <2>10. hits[i].document = hits[j].document => hits[i].attempt = hits[j].attempt
    BY <2>3 DEF FromOneSearch
  <2> QED BY <2>2, <2>5, <2>9, <2>10, <1>7
<1>8. cited = <<>> => \A i \in DOMAIN hits : BestExcerpt(ask, ChunkOf(hits[i])) = NoExcerpt
  BY <1>2, NothingCitedNothingFound
<1> HIDE DEF all
<1>9. ~answer.grounded => \A i \in DOMAIN hits : BestExcerpt(ask, ChunkOf(hits[i])) = NoExcerpt
  BY <1>1, <1>8
<1>10. Len(answer.citations) <= ask.citations /\ Len(answer.citations) <= answer.retrieved
  BY <1>1, <1>2
<1>11. \A i, j \in DOMAIN answer.citations : i < j =>
          LET c == answer.citations IN
          /\ c[i].number < c[j].number
          /\ c[i].excerpt # c[j].excerpt
          /\ Rank(c[i].source, all) < Rank(c[j].source, all)
          /\ c[i].source.document = c[j].source.document =>
                c[i].source.attempt = c[j].source.attempt
  BY <1>1, <1>7
<1> QED BY <1>9, <1>10, <1>11, Zenon DEF answer, all, CitedWell

-----------------------------------------------------------------------------
\* The rows of a query.

Planned == {"policy_status_summary", "active_policy_count", "policies_by_carrier",
            "active_policies_without_payments", "duplicate_policy_numbers",
            "payments_by_carrier", "recent_policies"}

\* Only these questions get a plan: for the others columns are missing.
LEMMA PlannedIntents ==
    ASSUME NEW question, NEW maxRows, PlanSqlAgentQuestion(question, maxRows) = "planned"
    PROVE  DetectIntent(question) \in Planned
<1>1. DetectIntent(question) # Unsupported /\ CanBuild(DetectIntent(question))
  BY DEF PlanSqlAgentQuestion
<1>2. ~CanBuild("commissions_by_agent")
  <2> DEFINE amount == Columns("insurance_commissions", {"amount", "commission_amount"})
  <2>1. amount \in Requirements("commissions_by_agent")
    BY DEF Requirements
  <2>2. ~Resolves(amount)
    BY DEF Resolves, Columns, TableColumns
  <2> QED BY <2>1, <2>2 DEF CanBuild
<1>3. DetectIntent(question) # "commissions_by_agent"
  BY <1>1, <1>2
<1>4. DetectIntent(question) \in Planned \union {"commissions_by_agent", Unsupported}
  <2> DEFINE Has(phrases) == phrases \subseteq question
  <2>1. DetectIntent(question) =
          CASE Has({"policy", "payment", "without payments"}) -> "active_policies_without_payments"
            [] Has({"policy", "duplicate policies"}) -> "duplicate_policy_numbers"
            [] Has({"commission", "agent"}) -> "commissions_by_agent"
            [] Has({"payment", "carrier"}) -> "payments_by_carrier"
            [] Has({"policy", "carrier"}) -> "policies_by_carrier"
            [] Has({"policy", "by status"}) -> "policy_status_summary"
            [] Has({"policy", "active", "how many"}) -> "active_policy_count"
            [] Has({"policy", "recent policies"}) -> "recent_policies"
            [] OTHER -> Unsupported
    BY DEF DetectIntent
  <2> HIDE DEF Has
  <2> QED BY <2>1 DEF Planned
<1> QED BY <1>1, <1>3, <1>4

\* What a query reads of a database, it reads of the rows of its workspace.
LEMMA OwnRowsSuffice ==
    ASSUME NEW workspace, NEW intent \in Planned
    PROVE  QueryResult(intent, OwnRows(workspace), workspace)
              = QueryResult(intent, Insurance, workspace)
<1> DEFINE own == OwnRows(workspace)
<1>1. /\ InWorkspace(own, "insurance_policies", workspace)
            = InWorkspace(Insurance, "insurance_policies", workspace)
      /\ InWorkspace(own, "insurance_payments", workspace)
            = InWorkspace(Insurance, "insurance_payments", workspace)
      /\ InWorkspace(own, "insurance_carriers", workspace)
            = InWorkspace(Insurance, "insurance_carriers", workspace)
  BY InsuranceAssumption DEF OwnRows, InWorkspace
<1> HIDE DEF own
<1>2. PoliciesOfCarriers(own, workspace) = PoliciesOfCarriers(Insurance, workspace)
  BY <1>1 DEF PoliciesOfCarriers, JoinableCarriers
<1>3. \A n : PaymentsOfCarrier(own, workspace, n) = PaymentsOfCarrier(Insurance, workspace, n)
  BY <1>1, <1>2 DEF PaymentsOfCarrier
<1>4. CASE intent \in {"policy_status_summary", "active_policy_count",
                       "duplicate_policy_numbers", "recent_policies"}
  <2>1. CASE intent = "policy_status_summary"
    BY <1>1, <2>1 DEF QueryResult, own
  <2>2. CASE intent = "active_policy_count"
    BY <1>1, <2>2 DEF QueryResult, own
  <2>3. CASE intent = "duplicate_policy_numbers"
    BY <1>1, <2>3 DEF QueryResult, own
  <2>4. CASE intent = "recent_policies"
    BY <1>1, <2>4 DEF QueryResult, own
  <2> QED BY <1>4, <2>1, <2>2, <2>3, <2>4
<1>5. CASE intent = "policies_by_carrier"
  BY <1>2, <1>5 DEF QueryResult, own
<1>6. CASE intent = "active_policies_without_payments"
  BY <1>1, <1>6 DEF QueryResult, own
<1>7. CASE intent = "payments_by_carrier"
  <2> DEFINE Names(db) == {n \in {pc[2].name : pc \in PoliciesOfCarriers(db, workspace)} :
                              PaymentsOfCarrier(db, workspace, n) # {}}
             Row(db, n) == [carrier |-> n,
                            count |-> Cardinality(PaymentsOfCarrier(db, workspace, n)),
                            total |-> Sum(PaymentsOfCarrier(db, workspace, n))]
  <2>1. \A db : QueryResult(intent, db, workspace) = {Row(db, n) : n \in Names(db)}
    BY <1>7 DEF QueryResult
  <2>2. Names(own) = Names(Insurance)
    BY <1>2, <1>3
  <2>3. \A n : Row(own, n) = Row(Insurance, n)
    BY <1>3
  <2> HIDE DEF Names, Row
  <2> QED BY <2>1, <2>2, <2>3 DEF own
<1> QED BY <1>4, <1>5, <1>6, <1>7 DEF Planned

LEMMA InWorkspaceFinite ==
    ASSUME NEW workspace,
           NEW t \in {"insurance_carriers", "insurance_policies", "insurance_payments"}
    PROVE  IsFiniteSet(InWorkspace(Insurance, t, workspace))
BY InsuranceAssumption, FS_Subset DEF InWorkspace

LEMMA QueryResultFinite ==
    ASSUME NEW workspace, NEW intent \in Planned
    PROVE  IsFiniteSet(QueryResult(intent, Insurance, workspace))
<1> DEFINE policies == InWorkspace(Insurance, "insurance_policies", workspace)
           payments == InWorkspace(Insurance, "insurance_payments", workspace)
           carriers == InWorkspace(Insurance, "insurance_carriers", workspace)
           joined == PoliciesOfCarriers(Insurance, workspace)
           all == QueryResult(intent, Insurance, workspace)
<1>1. IsFiniteSet(policies) /\ IsFiniteSet(carriers)
  BY InWorkspaceFinite
<1>2. IsFiniteSet(joined)
  <2>1. joined \subseteq policies \X carriers
    BY DEF PoliciesOfCarriers, JoinableCarriers
  <2> QED BY <1>1, <2>1, FS_Product, FS_Subset
<1> HIDE DEF policies, payments, joined
<1>3. CASE intent = "policy_status_summary"
  <2> DEFINE f == [p \in policies |-> p.status]
             g == [s \in {f[p] : p \in policies} |->
                     [status |-> s, count |-> Cardinality({p \in policies : p.status = s})]]
  <2>1. all = {g[s] : s \in {f[p] : p \in policies}}
    BY <1>3 DEF QueryResult, policies
  <2> HIDE DEF f, g
  <2>2. IsFiniteSet({f[p] : p \in policies})
    BY <1>1, FiniteImage
  <2> QED BY <2>1, <2>2, FiniteImage
<1>4. CASE intent = "active_policy_count"
  <2>1. all = {[count |-> Cardinality({p \in policies : IsActive(p)})]}
    BY <1>4 DEF QueryResult, policies
  <2> QED BY <2>1, FS_Singleton
<1>5. CASE intent = "policies_by_carrier"
  <2> DEFINE f == [pc \in joined |-> pc[2].name]
             g == [n \in {f[pc] : pc \in joined} |->
                     [carrier |-> n, count |-> Cardinality({pc \in joined : pc[2].name = n})]]
  <2>1. all = {g[n] : n \in {f[pc] : pc \in joined}}
    BY <1>5 DEF QueryResult, joined
  <2> HIDE DEF f, g
  <2>2. IsFiniteSet({f[pc] : pc \in joined})
    BY <1>2, FiniteImage
  <2> QED BY <2>1, <2>2, FiniteImage
<1>6. CASE intent = "active_policies_without_payments"
  <2> DEFINE S == {p \in policies : IsActive(p) /\ \A r \in payments : r.policy # p.id}
             f == [p \in S |-> [id |-> p.id, number |-> p.number, status |-> p.status]]
  <2>1. all = {f[p] : p \in S}
    BY <1>6 DEF QueryResult, policies, payments
  <2>2. IsFiniteSet(S)
    BY <1>1, FS_Subset
  <2> HIDE DEF S, f
  <2> QED BY <2>1, <2>2, FiniteImage
<1>7. CASE intent = "duplicate_policy_numbers"
  <2> DEFINE f == [p \in policies |->
                     [number |-> p.number,
                      count |-> Cardinality({o \in policies : o.number = p.number})]]
  <2>1. all \subseteq {f[p] : p \in policies}
    BY <1>7 DEF QueryResult, policies
  <2> HIDE DEF f
  <2>2. IsFiniteSet({f[p] : p \in policies})
    BY <1>1, FiniteImage
  <2> QED BY <2>1, <2>2, FS_Subset
<1>8. CASE intent = "payments_by_carrier"
  <2> DEFINE f == [pc \in joined |-> pc[2].name]
             paid(n) == PaymentsOfCarrier(Insurance, workspace, n)
             N == {n \in {f[pc] : pc \in joined} : paid(n) # {}}
             g == [n \in N |-> [carrier |-> n, count |-> Cardinality(paid(n)),
                                total |-> Sum(paid(n))]]
  <2>1. all = {g[n] : n \in N}
    BY <1>8 DEF QueryResult, joined
  <2>2. IsFiniteSet({f[pc] : pc \in joined})
    <3> HIDE DEF f
    <3> QED BY <1>2, FiniteImage
  <2>3. IsFiniteSet(N)
    BY <2>2, FS_Subset
  <2> HIDE DEF N, g
  <2> QED BY <2>1, <2>3, FiniteImage
<1>9. CASE intent = "recent_policies"
  <2> DEFINE f == [p \in policies |-> [id |-> p.id, number |-> p.number, status |-> p.status,
                                       effective |-> p.effective]]
  <2>1. all = {f[p] : p \in policies}
    BY <1>9 DEF QueryResult, policies
  <2> HIDE DEF f
  <2> QED BY <1>1, <2>1, FiniteImage
<1> QED BY <1>3, <1>4, <1>5, <1>6, <1>7, <1>8, <1>9 DEF Planned

\* A limited result is complete, or as long as the limit; and it has the rows
\* that come first.
LEMMA LimitedRows ==
    ASSUME NEW intent, NEW rows, IsFiniteSet(rows), NEW maxRows \in Nat,
           NEW returned \in RowLimited(intent, rows, maxRows)
    PROVE  /\ returned \subseteq rows
           /\ ~LimitReached(returned, maxRows) => returned = rows
           /\ \A s \in rows \ returned, t \in returned : ~Precedes(intent, s, t)
<1>1. returned \subseteq rows /\ Cardinality(returned) = Min({Cardinality(rows), maxRows})
      /\ \A s \in rows \ returned, t \in returned : ~Precedes(intent, s, t)
  BY DEF RowLimited
<1>2. Cardinality(rows) \in Nat
  BY FS_CardinalityType
<1>3. Min({Cardinality(rows), maxRows})
         = IF Cardinality(rows) <= maxRows THEN Cardinality(rows) ELSE maxRows
  BY <1>2 DEF Min
<1>4. ~LimitReached(returned, maxRows) => Cardinality(returned) = Cardinality(rows)
  BY <1>1, <1>2, <1>3 DEF LimitReached
<1> QED BY <1>1, <1>4, FS_Subset

\* A limit that is not below the number of rows drops none.
LEMMA LimitedToMany ==
    ASSUME NEW intent, NEW rows, IsFiniteSet(rows), NEW maxRows \in Nat,
           NEW returned \in RowLimited(intent, rows, maxRows)
    PROVE  returned \subseteq rows /\ (Cardinality(rows) <= maxRows => returned = rows)
<1>1. returned \subseteq rows /\ Cardinality(returned) = Min({Cardinality(rows), maxRows})
  BY DEF RowLimited
<1>2. Cardinality(rows) \in Nat
  BY FS_CardinalityType
<1>3. Cardinality(rows) <= maxRows => Min({Cardinality(rows), maxRows}) = Cardinality(rows)
  BY <1>2 DEF Min
<1> QED BY <1>1, <1>3, FS_Subset

-----------------------------------------------------------------------------
\* The inductive invariant. What a request has been told stays true of it
\* while the documents change, since it speaks of the request alone.

RequestFields == {"pc", "ask", "held", "reply", "rows", "limitReached", "hits"}

Told(q, kinds) == q.pc = "replying" /\ q.reply = "200" /\ q.ask.kind \in kinds

\* Where a request is fits what it asked.
AskFits(r, q) ==
    /\ q.ask = NoAsk \/ q.ask \in Asks[r]
    /\ q.pc \in {"catalog", "inspect"} => q.ask.kind \in {"schema", "plan", "query"}
    /\ q.pc \in {"execute", "executing"} => q.ask.kind = "query" /\ Outcome[q.ask] = "planned"
    /\ q.pc \in {"embed", "search"} => q.ask.kind \in {"search", "answer"}
    /\ q.pc = "search" => TopKIsAllowed(TopK(q.ask))

ReplyFits(q) ==
    /\ Told(q, {"query"}) =>
          /\ Outcome[q.ask] = "planned"
          /\ q.rows \in Results[q.ask]
          /\ q.limitReached = LimitReached(q.rows, q.ask.maxRows)
    /\ Told(q, {"search", "answer"}) => FromOneSearch(q.ask, q.hits)

Served(r, q) ==
    /\ DOMAIN q = RequestFields
    /\ RequestOK(q)
    /\ AskFits(r, q)
    /\ ReplyFits(q)

\* Nobody is given a connection that the pool does not have.
PoolOK == IsFiniteSet(CheckedOut) /\ Free \in 0 .. PoolSize

ServiceInv ==
    /\ PublishedOK
    /\ DOMAIN request = Requests
    /\ PoolOK
    /\ \A r \in Requests : Served(r, request[r])

LEMMA AskKinds ==
    ASSUME NEW r \in Requests, NEW ask \in Asks[r]
    PROVE  /\ ask # NoAsk /\ ask \in AllAsks
           /\ ask.kind \in {"schema", "plan", "query", "search", "answer"}
           /\ ask.kind \in {"schema", "plan", "query"} => ask \in DOMAIN Outcome /\ ask.maxRows \in Nat
           /\ ask.kind \in {"search", "answer"} => ask.citations \in Nat \ {0}
BY AsksAssumption DEF NoAsk, AllAsks, Outcome

LEMMA InitServiceInv == Init => ServiceInv
<1> SUFFICES ASSUME Init PROVE ServiceInv
  OBVIOUS
<1>1. PublishedOK
  BY FS_EmptySet, VersionAssumption DEF Init, Publication!Init, PublishedOK
<1>2. DOMAIN request = Requests /\ \A r \in Requests : request[r] = NewRequest
  BY DEF Init
<1>3. ASSUME NEW r \in Requests PROVE Served(r, NewRequest)
  BY DEF Served, RequestFields, NewRequest, RequestOK, AskFits, ReplyFits, Told, NoAsk
<1>4. CheckedOut = {}
  BY <1>2 DEF CheckedOut, NewRequest
<1>5. PoolOK
  BY <1>4, FS_EmptySet, PoolAssumption DEF PoolOK, Free
<1> QED BY <1>1, <1>2, <1>3, <1>5 DEF ServiceInv

-----------------------------------------------------------------------------
\* The documents go on; a request's reply does not see it.

LEMMA PublishKeepsInv == ServiceInv /\ Publish => ServiceInv'
<1> SUFFICES ASSUME ServiceInv, Publish PROVE ServiceInv'
  OBVIOUS
<1>1. request' = request
  BY DEF Publish
<1>2. CheckedOut' = CheckedOut /\ Free' = Free
  BY <1>1 DEF CheckedOut, Free
<1>3. \A d \in Documents, n \in Attempts : version'[d][n] <= MaxVersion
  BY DEF Publish
<1>4. PublishedOK'
  <2>0. PublishedOK
    BY DEF ServiceInv
  <2>1. PICK d \in Documents :
           \/ Publication!Upload(d)
           \/ Publication!Remove(d)
           \/ \E n \in Attempts : Publication!Open(d, n) \/ Publication!Publish(d, n)
                                    \/ Publication!Withdraw(d, n)
    BY DEF Publish, Publication!Next
  <2>2. CASE Publication!Upload(d)
    BY <2>0, <2>2, FS_AddElement DEF Publication!Upload, PublishedOK
  <2>3. CASE Publication!Remove(d)
    BY <2>0, <2>3, FS_RemoveElement, FS_EmptySet, VersionAssumption
       DEF Publication!Remove, PublishedOK
  <2>4. ASSUME NEW n \in Attempts, Publication!Open(d, n) PROVE PublishedOK'
    <3>1. /\ d \in present /\ present' = present /\ opened[d] \subseteq Attempts
          /\ opened' = [opened EXCEPT ![d] = @ \union {n}]
          /\ version' = version /\ shown' = shown
      BY <2>0, <2>4 DEF Publication!Open, PublishedOK
    <3>2. opened' \in [Documents -> SUBSET Attempts]
      BY <2>0, <3>1 DEF PublishedOK
    <3>3. IsFiniteSet(opened'[d])
      BY <2>0, <3>1, FS_AddElement DEF PublishedOK
    <3>4. \A e \in Documents : IsFiniteSet(opened'[e]) /\ (e \notin present => opened'[e] = {})
      BY <2>0, <3>1, <3>3 DEF PublishedOK
    <3> QED BY <2>0, <3>1, <3>2, <3>4 DEF PublishedOK
  <2>5. ASSUME NEW n \in Attempts, Publication!Publish(d, n) PROVE PublishedOK'
    <3>1. version' \in [Documents -> [Attempts -> 0 .. MaxVersion]]
      BY <2>0, <2>5, <1>3, VersionAssumption DEF Publication!Publish, PublishedOK
    <3> QED BY <2>0, <2>5, <3>1 DEF Publication!Publish, PublishedOK
  <2>6. ASSUME NEW n \in Attempts, Publication!Withdraw(d, n) PROVE PublishedOK'
    BY <2>0, <2>6 DEF Publication!Withdraw, PublishedOK
  <2> QED BY <2>1, <2>2, <2>3, <2>4, <2>5, <2>6
<1> QED BY <1>1, <1>2, <1>4 DEF ServiceInv, PoolOK

-----------------------------------------------------------------------------
\* One request moves; it takes at most the one connection it found free.

LEMMA HeldIsFew ==
    ASSUME NEW q, RequestOK(q)
    PROVE  q.held \in 0 .. 2
<1>1. CASE q.pc = "replying"
  BY <1>1 DEF RequestOK
<1>2. CASE q.pc # "replying"
  BY <1>2 DEF RequestOK
<1> QED BY <1>1, <1>2

LEMMA OneMoves ==
    ASSUME ServiceInv, NEW r \in Requests, UNCHANGED published, NEW q,
           request' = [request EXCEPT ![r] = q],
           Served(r, q),
           q.held <= request[r].held \/ (q.held = request[r].held + 1 /\ Free > 0)
    PROVE  ServiceInv'
<1>1. DOMAIN request = Requests /\ PublishedOK /\ PoolOK /\ \A s \in Requests : Served(s, request[s])
  BY DEF ServiceInv
<1>2. /\ DOMAIN request' = Requests
      /\ request'[r] = q
      /\ \A s \in Requests \ {r} : request'[s] = request[s]
  BY <1>1
<1>3. PublishedOK'
  BY <1>1 DEF PublishedOK, published
<1>4. \A s \in Requests : Served(s, request'[s])
  BY <1>1, <1>2
<1>5. PoolOK'
  <2>1. \A c \in CheckedOut' : c[1] # r => c \in CheckedOut
    BY <1>2 DEF CheckedOut
  <2>2. q.held \in 0 .. 2 /\ request[r].held \in 0 .. 2
    BY <1>1, HeldIsFew DEF Served
  <2>3. IsFiniteSet(CheckedOut) /\ Cardinality(CheckedOut) \in Nat /\ Free \in 0 .. PoolSize
    BY <1>1, FS_CardinalityType DEF PoolOK
  <2>4. CASE q.held <= request[r].held
    <3>1. CheckedOut' \subseteq CheckedOut
      BY <1>2, <2>1, <2>2, <2>4 DEF CheckedOut
    <3>2. IsFiniteSet(CheckedOut') /\ Cardinality(CheckedOut') <= Cardinality(CheckedOut)
      BY <2>3, <3>1, FS_Subset
    <3>3. Cardinality(CheckedOut') \in Nat
      BY <3>2, FS_CardinalityType
    <3> QED BY <2>3, <3>2, <3>3, PoolAssumption DEF PoolOK, Free
  <2>5. CASE q.held = request[r].held + 1 /\ Free > 0
    <3> DEFINE c == <<r, q.held>>
    <3>1. CheckedOut' \subseteq CheckedOut \union {c}
      <4>1. ASSUME NEW b \in CheckedOut', b[1] = r, b \notin CheckedOut PROVE b = c
        <5>1. b = <<r, b[2]>> /\ b[2] \in {1, 2} /\ b[2] <= q.held
          BY <1>2, <4>1 DEF CheckedOut
        <5>2. ~(b[2] <= request[r].held)
          BY <4>1, <5>1 DEF CheckedOut
        <5>3. b[2] = q.held
          BY <5>1, <5>2, <2>2, <2>5
        <5> QED BY <5>1, <5>3
      <4> QED BY <2>1, <4>1
    <3>2. IsFiniteSet(CheckedOut \union {c})
          /\ Cardinality(CheckedOut \union {c}) <= Cardinality(CheckedOut) + 1
      <4> HIDE DEF c
      <4>1. /\ IsFiniteSet(CheckedOut \union {c})
            /\ Cardinality(CheckedOut \union {c})
                  = IF c \in CheckedOut THEN Cardinality(CheckedOut) ELSE Cardinality(CheckedOut) + 1
        BY <2>3, FS_AddElement
      <4> QED BY <2>3, <4>1
    <3>3. IsFiniteSet(CheckedOut') /\ Cardinality(CheckedOut') <= Cardinality(CheckedOut \union {c})
      BY <3>1, <3>2, FS_Subset
    <3>4. Cardinality(CheckedOut') \in Nat /\ Cardinality(CheckedOut \union {c}) \in Nat
      BY <3>2, <3>3, FS_CardinalityType
    <3> QED BY <2>3, <2>5, <3>2, <3>3, <3>4, PoolAssumption DEF PoolOK, Free
  <2> QED BY <2>4, <2>5
<1> QED BY <1>2, <1>3, <1>4, <1>5 DEF ServiceInv

\* A request goes on in its work.
LEMMA GoKeepsInv ==
    ASSUME ServiceInv, NEW r \in Requests, NEW step \in {"execute", "executing", "catalog",
              "inspect", "embed", "search"}, NEW held \in {1, 2}, Go(r, step, held),
           request[r].reply = "none", request[r].pc \notin {"idle", "done"},
           held = 2 <=> step \in {"inspect", "executing"},
           step \in {"catalog", "inspect"} => request[r].ask.kind \in {"schema", "plan", "query"},
           step \in {"execute", "executing"} =>
              request[r].ask.kind = "query" /\ Outcome[request[r].ask] = "planned",
           step \in {"embed", "search"} => request[r].ask.kind \in {"search", "answer"},
           step = "search" => TopKIsAllowed(TopK(request[r].ask)),
           held <= request[r].held \/ (held = request[r].held + 1 /\ Free > 0)
    PROVE  ServiceInv'
<1> DEFINE q == [request[r] EXCEPT !.pc = step, !.held = held]
<1>1. Served(r, request[r]) /\ DOMAIN request = Requests
  BY DEF ServiceInv
<1>2. request' = [request EXCEPT ![r] = q] /\ UNCHANGED published
  BY <1>1 DEF Go
<1>3. DOMAIN q = RequestFields
  BY <1>1 DEF Served
<1>4. /\ q.pc = step /\ q.held = held /\ q.ask = request[r].ask
      /\ q.reply = "none" /\ q.rows = request[r].rows /\ q.hits = request[r].hits
  BY <1>1 DEF Served, RequestFields
<1>5. request[r].rows = {} /\ request[r].hits = <<>> /\ request[r].ask # NoAsk
  BY <1>1 DEF Served, RequestOK
<1> HIDE DEF q
<1>6. RequestOK(q)
  BY <1>4, <1>5 DEF RequestOK
<1>7. AskFits(r, q) /\ ReplyFits(q)
  BY <1>1, <1>4 DEF Served, AskFits, ReplyFits, Told
<1>8. Served(r, q)
  BY <1>3, <1>6, <1>7 DEF Served
<1> QED BY <1>2, <1>4, <1>8, OneMoves

\* A request is answered without rows and hits.
LEMMA AnswerKeepsInv ==
    ASSUME ServiceInv, NEW r \in Requests, NEW reply \in Reply \ {"none"}, NEW held \in {0, 1},
           Answer(r, reply, held),
           request[r].reply = "none", request[r].pc \notin {"idle", "done"},
           reply = "200" => request[r].ask.kind \in {"schema", "plan"},
           held <= request[r].held \/ (held = request[r].held + 1 /\ Free > 0)
    PROVE  ServiceInv'
<1> DEFINE q == [request[r] EXCEPT !.pc = "replying", !.reply = reply, !.held = held,
                                   !.ask = IF reply = "200" THEN @ ELSE NoAsk]
<1>1. Served(r, request[r]) /\ DOMAIN request = Requests
  BY DEF ServiceInv
<1>2. request' = [request EXCEPT ![r] = q] /\ UNCHANGED published
  BY <1>1 DEF Answer
<1>3. DOMAIN q = RequestFields
  BY <1>1 DEF Served
<1>4. /\ q.pc = "replying" /\ q.held = held /\ q.reply = reply
      /\ q.ask = (IF reply = "200" THEN request[r].ask ELSE NoAsk)
      /\ q.rows = request[r].rows /\ q.hits = request[r].hits
  BY <1>1 DEF Served, RequestFields
<1>5. request[r].rows = {} /\ request[r].hits = <<>> /\ request[r].ask # NoAsk
      /\ request[r].ask \in Asks[r]
  BY <1>1 DEF Served, RequestOK, AskFits
<1> HIDE DEF q
<1>6. RequestOK(q)
  BY <1>4, <1>5 DEF RequestOK
<1>7. AskFits(r, q) /\ ReplyFits(q)
  BY <1>4, <1>5 DEF AskFits, ReplyFits, Told
<1> QED BY <1>2, <1>3, <1>4, <1>6, <1>7, OneMoves DEF Served

LEMMA SqlStepKeepsInv ==
    ASSUME ServiceInv, NEW r \in Requests,
           OpenCatalog(r) \/ InspectFails(r) \/ ReadCatalog(r) \/ OpenExecution(r) \/ Execute(r)
              \/ ExecutionFails(r)
    PROVE  ServiceInv'
<1> DEFINE q == request[r]
<1>1. Served(r, q) /\ DOMAIN request = Requests
  BY DEF ServiceInv
<1>2. /\ DOMAIN q = RequestFields /\ AskFits(r, q) /\ RequestOK(q)
  BY <1>1 DEF Served
<1>3. q.pc \in {"catalog", "inspect", "execute", "executing"} =>
        /\ q.reply = "none" /\ q.ask \in Asks[r] /\ q.ask \in DOMAIN Outcome
        /\ q.rows = {} /\ q.hits = <<>>
        /\ q.held = IF q.pc \in {"inspect", "executing"} THEN 2 ELSE 1
  BY <1>2, AskKinds DEF RequestOK, AskFits
<1>4. CASE OpenCatalog(r)
  <2>1. q.pc = "catalog" /\ q.ask.kind \in {"schema", "plan", "query"} /\ q.held = 1
    BY <1>2, <1>3, <1>4 DEF OpenCatalog, AskFits
  <2> QED BY <1>3, <1>4, <2>1, GoKeepsInv DEF OpenCatalog
<1>5. CASE InspectFails(r)
  BY <1>3, <1>5, AnswerKeepsInv DEF InspectFails
<1>6. CASE ReadCatalog(r)
  <2>1. q.pc = "inspect" /\ q.reply = "none" /\ q.held = 2
    BY <1>3, <1>6 DEF ReadCatalog
  <2>2. CASE Outcome[q.ask] = "planned" /\ q.ask.kind = "query" /\ Go(r, "execute", 1)
    BY <2>1, <2>2, GoKeepsInv
  <2>3. CASE Outcome[q.ask] = "planned" /\ q.ask.kind = "plan" /\ Answer(r, "200", 1)
    BY <2>1, <2>3, AnswerKeepsInv
  <2>4. CASE Outcome[q.ask] # "planned" /\ Answer(r, Outcome[q.ask], 1)
    <3>1. Outcome[q.ask] \in {"200", "400", "422", "500"}
          /\ (Outcome[q.ask] = "200" => q.ask.kind = "schema")
      <4>1. q.ask \in DOMAIN Outcome
        BY <1>3, <2>1
      <4>2. Outcome[q.ask] = IF q.ask.kind = "schema" THEN "200"
                             ELSE PlanSqlAgentQuestion(q.ask.question, q.ask.maxRows)
        BY <4>1 DEF Outcome
      <4>3. PlanSqlAgentQuestion(q.ask.question, q.ask.maxRows)
               \in {"400", "422", "500", "planned"}
        BY DEF PlanSqlAgentQuestion
      <4> QED BY <2>4, <4>2, <4>3
    <3> QED BY <2>1, <2>4, <3>1, AnswerKeepsInv
  <2> QED BY <1>6, <2>2, <2>3, <2>4 DEF ReadCatalog
<1>7. CASE OpenExecution(r)
  <2>1. q.pc = "execute" /\ q.ask.kind = "query" /\ Outcome[q.ask] = "planned" /\ q.held = 1
    BY <1>2, <1>3, <1>7 DEF OpenExecution, AskFits
  <2> QED BY <1>3, <1>7, <2>1, GoKeepsInv DEF OpenExecution
<1>8. CASE Execute(r)
  <2>1. PICK rows \in Results[q.ask] : request' = [request EXCEPT
             ![r].pc = "replying", ![r].reply = "200", ![r].held = 1, ![r].rows = rows,
             ![r].limitReached = LimitReached(rows, q.ask.maxRows)]
    BY <1>8 DEF Execute
  <2> DEFINE n == [q EXCEPT !.pc = "replying", !.reply = "200", !.held = 1, !.rows = rows,
                            !.limitReached = LimitReached(rows, q.ask.maxRows)]
  <2>2. request' = [request EXCEPT ![r] = n] /\ UNCHANGED published
    BY <1>1, <1>8, <2>1 DEF Execute
  <2>3. /\ DOMAIN n = RequestFields /\ n.pc = "replying" /\ n.reply = "200" /\ n.held = 1
        /\ n.rows = rows /\ n.limitReached = LimitReached(rows, n.ask.maxRows)
        /\ n.ask = q.ask /\ n.hits = q.hits
    BY <1>2 DEF RequestFields
  <2>4. /\ q.pc = "executing" /\ q.ask \in Asks[r] /\ q.ask.kind = "query" /\ q.hits = <<>>
        /\ q.held = 2 /\ Outcome[q.ask] = "planned" /\ q.ask # NoAsk
    BY <1>2, <1>3, <1>8, AskKinds DEF Execute, AskFits
  <2> HIDE DEF n
  <2>5. RequestOK(n)
    BY <2>3, <2>4 DEF RequestOK
  <2>6. AskFits(r, n) /\ ReplyFits(n)
    BY <2>3, <2>4 DEF AskFits, ReplyFits, Told
  <2>7. Served(r, n) /\ n.held <= q.held
    BY <2>3, <2>4, <2>5, <2>6 DEF Served
  <2> QED BY <2>2, <2>7, OneMoves
<1>9. CASE ExecutionFails(r)
  BY <1>3, <1>9, AnswerKeepsInv DEF ExecutionFails
<1> QED BY <1>4, <1>5, <1>6, <1>7, <1>8, <1>9

LEMMA RagStepKeepsInv ==
    ASSUME ServiceInv, NEW r \in Requests,
           Embed(r) \/ EmbedFails(r) \/ Search(r) \/ SearchFails(r)
    PROVE  ServiceInv'
<1> DEFINE q == request[r]
<1>1. Served(r, q) /\ DOMAIN request = Requests /\ PublishedOK
  BY DEF ServiceInv
<1>2. /\ DOMAIN q = RequestFields /\ AskFits(r, q) /\ RequestOK(q)
  BY <1>1 DEF Served
<1>3. q.pc \in {"embed", "search"} =>
        /\ q.reply = "none" /\ q.ask \in Asks[r] /\ q.ask # NoAsk
        /\ q.rows = {} /\ q.hits = <<>> /\ q.held = 1
  BY <1>2, AskKinds DEF RequestOK, AskFits
<1>4. CASE Embed(r)
  <2>1. q.pc = "embed"
    BY <1>4 DEF Embed
  <2>2. CASE TopKIsAllowed(TopK(q.ask)) /\ Go(r, "search", 1)
    <3>1. q.ask.kind \in {"search", "answer"} /\ TopKIsAllowed(TopK(q.ask))
      BY <1>2, <2>1, <2>2 DEF AskFits
    <3> QED BY <1>3, <2>1, <2>2, <3>1, GoKeepsInv
  <2>3. CASE Answer(r, "400", 1)
    BY <1>3, <2>1, <2>3, AnswerKeepsInv
  <2> QED BY <1>4, <2>2, <2>3 DEF Embed
<1>5. CASE EmbedFails(r)
  BY <1>3, <1>5, AnswerKeepsInv DEF EmbedFails
<1>6. CASE Search(r)
  <2> DEFINE found == SearchDocumentChunks(q.ask, TopK(q.ask), opened, version, shown)
             n == [q EXCEPT !.pc = "replying", !.reply = "200", !.hits = found]
  <2>1. request' = [request EXCEPT ![r] = n] /\ UNCHANGED published
    BY <1>1, <1>6 DEF Search
  <2>2. /\ DOMAIN n = RequestFields /\ n.pc = "replying" /\ n.reply = "200" /\ n.held = q.held
        /\ n.rows = q.rows /\ n.ask = q.ask /\ n.hits = found
    BY <1>2 DEF RequestFields
  <2>3. /\ q.pc = "search" /\ q.ask.kind \in {"search", "answer"} /\ q.rows = {}
        /\ q.held = 1 /\ q.ask \in Asks[r] /\ q.ask # NoAsk
    BY <1>2, <1>3, <1>6 DEF Search, AskFits
  <2>4. FromOneSearch(q.ask, found)
    <3>1. TopK(q.ask) \in Int
      BY <1>2, <2>3, TopKAssumption DEF AskFits, TopKIsAllowed
    <3> QED BY <1>1, <3>1, SearchInOrder
  <2> HIDE DEF n, found
  <2>5. RequestOK(n)
    BY <2>2, <2>3 DEF RequestOK
  <2>6. AskFits(r, n) /\ ReplyFits(n)
    BY <2>2, <2>3, <2>4 DEF AskFits, ReplyFits, Told
  <2>7. Served(r, n) /\ n.held <= q.held
    BY <2>2, <2>3, <2>5, <2>6 DEF Served
  <2> QED BY <2>1, <2>7, OneMoves
<1>7. CASE SearchFails(r)
  BY <1>3, <1>7, AnswerKeepsInv DEF SearchFails
<1> QED BY <1>4, <1>5, <1>6, <1>7

LEMMA SessionStepKeepsInv ==
    ASSUME ServiceInv, NEW r \in Requests,
           Arrive(r) \/ Authenticate(r) \/ RefuseToken(r) \/ RefuseUser(r) \/ PoolTimeout(r)
              \/ Close(r)
    PROVE  ServiceInv'
<1> DEFINE q == request[r]
<1>1. Served(r, q) /\ DOMAIN request = Requests
  BY DEF ServiceInv
<1>2. /\ DOMAIN q = RequestFields /\ AskFits(r, q) /\ RequestOK(q) /\ q.held \in 0 .. 2
  BY <1>1, HeldIsFew DEF Served
<1>3. q.pc = "authenticate" =>
        q.reply = "none" /\ q.ask \in Asks[r] /\ q.ask # NoAsk /\ q.held = 0
  BY <1>2 DEF RequestOK, AskFits
<1>4. CASE Arrive(r)
  <2>1. PICK ask \in Asks[r] :
           request' = [request EXCEPT ![r].pc = "authenticate", ![r].ask = ask]
    BY <1>4 DEF Arrive
  <2> DEFINE n == [q EXCEPT !.pc = "authenticate", !.ask = ask]
  <2>2. request' = [request EXCEPT ![r] = n] /\ UNCHANGED published /\ q.pc = "idle"
    BY <1>1, <1>4, <2>1 DEF Arrive
  <2>3. /\ DOMAIN n = RequestFields /\ n.pc = "authenticate" /\ n.ask = ask /\ n.held = q.held
        /\ n.reply = q.reply /\ n.rows = q.rows /\ n.hits = q.hits
    BY <1>2 DEF RequestFields
  <2>4. q.reply = "none" /\ q.held = 0 /\ q.rows = {} /\ q.hits = <<>> /\ ask # NoAsk
    BY <1>2, <2>2, AskKinds DEF RequestOK
  <2> HIDE DEF n
  <2>5. RequestOK(n)
    BY <2>3, <2>4 DEF RequestOK
  <2>6. AskFits(r, n) /\ ReplyFits(n)
    BY <2>3 DEF AskFits, ReplyFits, Told
  <2>7. Served(r, n) /\ n.held <= q.held
    BY <2>3, <2>4, <2>5, <2>6 DEF Served
  <2> QED BY <2>2, <2>7, OneMoves
<1>5. CASE Authenticate(r)
  <2> DEFINE step == IF q.ask.kind \in {"search", "answer"} THEN "embed" ELSE "catalog"
  <2>1. /\ step \in {"embed", "catalog"} /\ q.pc = "authenticate" /\ Free > 0 /\ Go(r, step, 1)
        /\ step = "catalog" => q.ask.kind \in {"schema", "plan", "query"}
        /\ step = "embed" => q.ask.kind \in {"search", "answer"}
    BY <1>3, <1>5, AskKinds DEF Authenticate
  <2> HIDE DEF step
  <2> QED BY <1>3, <2>1, GoKeepsInv
<1>6. CASE RefuseToken(r)
  BY <1>3, <1>6, AnswerKeepsInv DEF RefuseToken
<1>7. CASE RefuseUser(r)
  BY <1>3, <1>7, AnswerKeepsInv DEF RefuseUser
<1>8. CASE PoolTimeout(r)
  <2>1. q.pc \in {"authenticate", "catalog", "execute"} /\ Answer(r, "500", q.held)
    BY <1>8 DEF PoolTimeout
  <2>2. q.reply = "none" /\ q.held \in {0, 1}
    BY <1>2, <2>1 DEF RequestOK
  <2> QED BY <2>1, <2>2, AnswerKeepsInv
<1>9. CASE Close(r)
  <2> DEFINE n == [NewRequest EXCEPT !.pc = "done"]
  <2>1. request' = [request EXCEPT ![r] = n] /\ UNCHANGED published
    BY <1>9 DEF Close
  <2>2. /\ DOMAIN n = RequestFields /\ n.pc = "done" /\ n.ask = NoAsk /\ n.held = 0
        /\ n.reply = "none" /\ n.rows = {} /\ n.hits = <<>>
    BY DEF NewRequest, RequestFields
  <2> HIDE DEF n
  <2>3. RequestOK(n)
    BY <2>2 DEF RequestOK
  <2>4. AskFits(r, n) /\ ReplyFits(n)
    BY <2>2 DEF AskFits, ReplyFits, Told
  <2>5. Served(r, n) /\ n.held <= q.held
    BY <1>2, <2>2, <2>3, <2>4 DEF Served
  <2> QED BY <2>1, <2>5, OneMoves
<1> QED BY <1>4, <1>5, <1>6, <1>7, <1>8, <1>9

LEMMA NextServiceInv == ServiceInv /\ [Next]_vars => ServiceInv'
<1> SUFFICES ASSUME ServiceInv, [Next]_vars PROVE ServiceInv'
  OBVIOUS
<1>1. CASE Publish
  BY <1>1, PublishKeepsInv
<1>2. ASSUME NEW r \in Requests, Arrive(r) \/ Serve(r) PROVE ServiceInv'
  BY <1>2, SqlStepKeepsInv, RagStepKeepsInv, SessionStepKeepsInv DEF Serve
<1>3. CASE UNCHANGED vars
  BY <1>3 DEF vars, published, ServiceInv, PublishedOK, PoolOK, CheckedOut, Free
<1> QED BY <1>1, <1>2, <1>3 DEF Next

THEOREM SpecServiceInv == Spec => []ServiceInv
BY InitServiceInv, NextServiceInv, PTL DEF Spec

-----------------------------------------------------------------------------
\* The properties.

\* Every request keeps to its protocol, and the pool is never overdrawn.
THEOREM SpecTypeOK == Spec => []TypeOK
<1>1. ServiceInv => TypeOK
  BY DEF ServiceInv, TypeOK, Served, PublishedOK, PoolOK
<1> QED BY <1>1, SpecServiceInv, PTL

\* A query that was answered had a plan, and its rows are of its results.
LEMMA QueryAnswered ==
    ASSUME ServiceInv, NEW r \in Requests, Answered(r, {"query"})
    PROVE  LET ask == request[r].ask
               intent == DetectIntent(ask.question)
           IN  /\ ask.maxRows \in Nat /\ intent \in Planned
               /\ request[r].rows
                     \in RowLimited(intent, QueryResult(intent, Insurance, ask.workspace), ask.maxRows)
               /\ request[r].limitReached = LimitReached(request[r].rows, ask.maxRows)
<1> DEFINE q == request[r]
           ask == q.ask
<1>1. /\ Outcome[ask] = "planned" /\ ask.kind = "query" /\ q.rows \in Results[ask]
      /\ q.limitReached = LimitReached(q.rows, ask.maxRows)
  BY DEF ServiceInv, Served, ReplyFits, Told, Answered
<1>2. ask \in Asks[r]
  BY <1>1 DEF ServiceInv, Served, AskFits, NoAsk
<1>3. ask \in DOMAIN Outcome /\ ask.maxRows \in Nat
  BY <1>1, <1>2, AskKinds
<1>4. PlanSqlAgentQuestion(ask.question, ask.maxRows) = "planned"
  BY <1>1, <1>3 DEF Outcome
<1>5. DetectIntent(ask.question) \in Planned
  BY <1>4, PlannedIntents
<1>6. ask \in DOMAIN Results
  BY <1>1, <1>3 DEF Results
<1>7. q.rows \in RowLimited(DetectIntent(ask.question),
                            QueryResult(DetectIntent(ask.question), Insurance, ask.workspace),
                            ask.maxRows)
  BY <1>1, <1>6 DEF Results
<1> QED BY <1>1, <1>3, <1>5, <1>7

\* No answer to a workspace depends on the rows or the documents of another:
\* each table of each query is restricted to the workspace, and so is the search.
THEOREM SpecAnswersKeepTheWorkspace == Spec => []AnswersKeepTheWorkspace
<1>1. ServiceInv => AnswersKeepTheWorkspace
  <2> SUFFICES ASSUME ServiceInv, NEW r \in Requests
               PROVE  LET ask == request[r].ask
                          intent == DetectIntent(ask.question)
                      IN  /\ Answered(r, {"query"}) => request[r].rows
                                \subseteq QueryResult(intent, OwnRows(ask.workspace), ask.workspace)
                          /\ Answered(r, {"search", "answer"}) =>
                                \A i \in DOMAIN request[r].hits :
                                    WorkspaceOf[request[r].hits[i].document] = ask.workspace
    BY DEF AnswersKeepTheWorkspace
  <2>1. CASE Answered(r, {"query"})
    <3>1. ~Answered(r, {"search", "answer"})
      BY <2>1 DEF Answered
    <3> QED BY <2>1, <3>1, QueryAnswered, OwnRowsSuffice DEF RowLimited
  <2>2. CASE Answered(r, {"search", "answer"})
    <3>1. ~Answered(r, {"query"})
      BY <2>2 DEF Answered
    <3>2. FromOneSearch(request[r].ask, request[r].hits)
      BY <2>2 DEF ServiceInv, Served, ReplyFits, Told, Answered
    <3> QED BY <3>1, <3>2 DEF FromOneSearch
  <2> QED BY <2>1, <2>2
<1> QED BY <1>1, SpecServiceInv, PTL

\* A result without the note that it was limited is all there is.
THEOREM SpecCompleteUnlessLimited == Spec => []CompleteUnlessLimited
<1>1. ServiceInv => CompleteUnlessLimited
  <2> SUFFICES ASSUME ServiceInv, NEW r \in Requests, Answered(r, {"query"})
               PROVE  LET intent == DetectIntent(request[r].ask.question)
                          all == QueryResult(intent, Insurance, request[r].ask.workspace)
                      IN  /\ ~request[r].limitReached => request[r].rows = all
                          /\ \A s \in all \ request[r].rows, t \in request[r].rows :
                                ~Precedes(intent, s, t)
    BY DEF CompleteUnlessLimited
  <2> QED BY QueryAnswered, QueryResultFinite, LimitedRows
<1> QED BY <1>1, SpecServiceInv, PTL

\* The citations of an answer are of one result of each document, in the order
\* of the search and without repetition, whatever was processed meanwhile.
THEOREM SpecCitationsShareOneResult == Spec => []CitationsShareOneResult
<1>1. ServiceInv => CitationsShareOneResult
  <2> SUFFICES ASSUME ServiceInv, NEW r \in Requests, Answered(r, {"answer"})
               PROVE  CitedWell(request[r].ask, request[r].hits, Hits(r))
    BY Zenon DEF CitationsShareOneResult, CitedWell
  <2>1. FromOneSearch(request[r].ask, request[r].hits) /\ request[r].ask.kind = "answer"
    BY DEF ServiceInv, Served, ReplyFits, Told, Answered
  <2>2. request[r].ask \in Asks[r]
    BY <2>1 DEF ServiceInv, Served, AskFits, NoAsk
  <2>3. request[r].ask.citations \in Nat \ {0}
    BY <2>1, <2>2, AskKinds
  <2>4. Hits(r) = {request[r].hits[i] : i \in DOMAIN request[r].hits}
    BY DEF Hits
  <2> QED BY <2>1, <2>3, <2>4, CitationsAgree
<1> QED BY <1>1, SpecServiceInv, PTL

-----------------------------------------------------------------------------
\* The demonstration data: the second rows of the duplicates have sources of
\* their own, so that no two rows share one.

Repeat(i) == Canonical(i, PolicyCount + Place(i))

LEMMA Places ==
    ASSUME NEW i \in DuplicatedIndices
    PROVE  /\ i \in Nat /\ Place(i) \in Nat /\ Place(i) >= 1
           /\ \A j \in DuplicatedIndices : Place(i) = Place(j) => i = j
<1>1. /\ PolicyCount \in Nat /\ DuplicatedIndices \in SUBSET (1 .. PolicyCount)
  BY DatasetAssumption DEF Index
<1>2. \A j \in DuplicatedIndices : Place(j) = PlaceIn(DuplicatedIndices, j)
  BY DEF Place, PlaceIn
<1>3. \A j, k \in DuplicatedIndices : j < k <=> Place(j) < Place(k)
  <2>1. \A j, k \in DuplicatedIndices :
           j < k <=> PlaceIn(DuplicatedIndices, j) < PlaceIn(DuplicatedIndices, k)
    BY <1>1, PlacesOf
  <2> QED BY <1>2, <2>1
<1>4. IsFiniteSet(DuplicatedIndices)
  <2>1. IsFiniteSet(1 .. PolicyCount)
    BY <1>1, FS_Interval
  <2> QED BY <1>1, <2>1, FS_Subset
<1>5. \A j \in DuplicatedIndices : Place(j) \in Nat
  BY <1>4, FS_Subset, FS_CardinalityType DEF Place
<1>6. Place(i) # 0
  <2> DEFINE S == {j \in DuplicatedIndices : j <= i}
  <2>1. IsFiniteSet(S) /\ i \in S
    BY <1>1, <1>4, FS_Subset
  <2> HIDE DEF S
  <2>2. Cardinality(S) # 0
    BY <2>1, FS_EmptySet
  <2> QED BY <2>2 DEF Place, S
<1>7. \A j \in DuplicatedIndices : Place(i) = Place(j) => i = j
  BY <1>1, <1>3, <1>5
<1> QED BY <1>1, <1>5, <1>6, <1>7

LEMMA StatusesOfPolicies ==
    \A i : PolicyStatus(i) \in {"active", "cancelled", "pending", "not_issued", "terminated"}
BY DEF PolicyStatus

\* Every row is the first of its number or the second.
LEMMA RowsOfNumber ==
    ASSUME NEW p \in BuildPolicies
    PROVE  /\ p.number \in Index /\ p.status = PolicyStatus(p.number)
           /\ \/ p = Canonical(p.number, p.number)
              \/ p.number \in DuplicatedIndices /\ p = Repeat(p.number)
<1>1. CASE \E i \in Index : p = Canonical(i, i)
  BY <1>1 DEF Canonical
<1>2. CASE \E i \in DuplicatedIndices : p = Repeat(i)
  BY <1>2, DatasetAssumption DEF Canonical, Repeat
<1> QED BY <1>1, <1>2 DEF BuildPolicies, Repeat

LEMMA PoliciesOfNumber ==
    ASSUME NEW n \in Index
    PROVE  /\ {p \in BuildPolicies : p.number = n}
                 = IF n \in DuplicatedIndices THEN {Canonical(n, n), Repeat(n)}
                                              ELSE {Canonical(n, n)}
           /\ n \in DuplicatedIndices => Canonical(n, n).source # Repeat(n).source
<1>1. Canonical(n, n) \in BuildPolicies /\ Canonical(n, n).number = n
  BY DEF BuildPolicies, Canonical
<1>2. n \in DuplicatedIndices => Repeat(n) \in BuildPolicies /\ Repeat(n).number = n
  BY DEF BuildPolicies, Canonical, Repeat
<1>3. ASSUME NEW p \in BuildPolicies, p.number = n
      PROVE  p = Canonical(n, n) \/ (n \in DuplicatedIndices /\ p = Repeat(n))
  BY <1>3, RowsOfNumber
<1>4. n \in DuplicatedIndices => Canonical(n, n).source # Repeat(n).source
  BY Places, DatasetAssumption DEF Canonical, Repeat, Index
<1> QED BY <1>1, <1>2, <1>3, <1>4

LEMMA SourcesDiffer ==
    ASSUME NEW p \in BuildPolicies, NEW o \in BuildPolicies, p.source = o.source
    PROVE  p = o
<1>1. PolicyCount \in Nat /\ p.number \in 1 .. PolicyCount /\ o.number \in 1 .. PolicyCount
  BY RowsOfNumber, DatasetAssumption DEF Index
<1>2. CASE p = Canonical(p.number, p.number) /\ o = Canonical(o.number, o.number)
  BY <1>2 DEF Canonical
<1>3. CASE /\ p.number \in DuplicatedIndices /\ p = Repeat(p.number)
           /\ o.number \in DuplicatedIndices /\ o = Repeat(o.number)
  <2>1. p.source = PolicyCount + Place(p.number) /\ o.source = PolicyCount + Place(o.number)
    BY <1>3 DEF Repeat, Canonical
  <2>2. Place(p.number) \in Nat /\ Place(o.number) \in Nat
    BY <1>3, Places
  <2>3. Place(p.number) = Place(o.number)
    <3>1. PolicyCount + Place(p.number) = PolicyCount + Place(o.number)
      BY <2>1
    <3>2. PolicyCount \in Nat
      BY <1>1
    <3> QED BY <2>2, <3>1, <3>2
  <2>4. p.number = o.number
    BY <1>3, <2>3, Places
  <2> QED BY <1>3, <2>4
<1>4. CASE p = Canonical(p.number, p.number) /\ o.number \in DuplicatedIndices
           /\ o = Repeat(o.number)
  <2>1. p.source = p.number /\ o.source = PolicyCount + Place(o.number)
    BY <1>4 DEF Repeat, Canonical
  <2>2. Place(o.number) \in Nat /\ Place(o.number) >= 1
    BY <1>4, Places
  <2>3. p.number = PolicyCount + Place(o.number)
    BY <2>1
  <2>4. PolicyCount \in Nat /\ p.number \in Nat /\ p.number <= PolicyCount
    BY <1>1
  <2> QED BY <2>2, <2>3, <2>4
<1>5. CASE o = Canonical(o.number, o.number) /\ p.number \in DuplicatedIndices
           /\ p = Repeat(p.number)
  <2>1. o.source = o.number /\ p.source = PolicyCount + Place(p.number)
    BY <1>5 DEF Repeat, Canonical
  <2>2. Place(p.number) \in Nat /\ Place(p.number) >= 1
    BY <1>5, Places
  <2>3. o.number = PolicyCount + Place(p.number)
    BY <2>1
  <2>4. PolicyCount \in Nat /\ o.number \in Nat /\ o.number <= PolicyCount
    BY <1>1
  <2> QED BY <2>2, <2>3, <2>4
<1> QED BY <1>2, <1>3, <1>4, <1>5, RowsOfNumber

LEMMA PairCardinality ==
    ASSUME NEW a, NEW b, a # b
    PROVE  Cardinality({a, b}) = 2
<1>1. IsFiniteSet({a}) /\ Cardinality({a}) = 1 /\ b \notin {a}
  BY FS_Singleton
<1>2. Cardinality({a} \union {b}) = 2
  BY <1>1, FS_AddElement
<1>3. {a} \union {b} = {a, b}
  OBVIOUS
<1> QED BY <1>2, <1>3

\* The dataset always has the scenarios it is checked for, so that the seed
\* never gives up.
THEOREM DatasetsHaveTheirScenarios == DuplicateScenarioHolds /\ MissingPaymentScenarioHolds
<1>1. DuplicateScenarioHolds
  <2> SUFFICES ASSUME NEW p \in BuildPolicies
               PROVE  Cardinality({o \in BuildPolicies : o.number = p.number})
                         = IF p.number \in DuplicatedIndices THEN 2 ELSE 1
    BY DEF DuplicateScenarioHolds
  <2> DEFINE n == p.number
  <2>1. n \in Index
    BY RowsOfNumber
  <2>2. CASE n \in DuplicatedIndices
    <3>1. {o \in BuildPolicies : o.number = n} = {Canonical(n, n), Repeat(n)}
      BY <2>1, <2>2, PoliciesOfNumber
    <3>2. Canonical(n, n).source # Repeat(n).source
      BY <2>1, <2>2, PoliciesOfNumber
    <3>3. Cardinality({Canonical(n, n), Repeat(n)}) = 2
      BY <3>2, PairCardinality
    <3> QED BY <2>2, <3>1, <3>3
  <2>3. CASE n \notin DuplicatedIndices
    <3>1. {o \in BuildPolicies : o.number = n} = {Canonical(n, n)}
      BY <2>1, <2>3, PoliciesOfNumber
    <3> QED BY <2>3, <3>1, FS_Singleton
  <2> QED BY <2>2, <2>3
<1>2. MissingPaymentScenarioHolds
  <2> DEFINE Unpaid == {p \in BuildPolicies : p.status = "active"
                           /\ \A payment \in BuildPayments : payment.source # p.source}
             Paid == {p \in BuildPolicies :
                         p.status = "active" /\ p.number \notin MissingPaymentNumbers}
  <2>0. BuildPayments = {[source |-> p.source, amount |-> 1] : p \in Paid}
    BY DEF BuildPayments
  <2> HIDE DEF Paid
  <2>1. \A p \in Paid : \E payment \in BuildPayments : payment.source = p.source
    <3> TAKE p \in Paid
    <3>1. [source |-> p.source, amount |-> 1] \in BuildPayments
      BY <2>0
    <3> QED BY <3>1
  <2>2. \A payment \in BuildPayments : \E p \in Paid : payment.source = p.source
    BY <2>0
  <2> USE DEF Paid
  <2>3. ASSUME NEW p \in Unpaid PROVE p.number \in MissingPaymentNumbers
    BY <2>1
  <2>4. ASSUME NEW n \in MissingPaymentNumbers PROVE \E p \in Unpaid : p.number = n
    <3> DEFINE p == Canonical(n, n)
    <3>1. n \in Index /\ PolicyStatus(n) = "active"
      BY DEF MissingPaymentNumbers
    <3>2. p \in BuildPolicies /\ p.number = n /\ p.status = "active"
      BY <3>1 DEF BuildPolicies, Canonical
    <3>3. ASSUME NEW payment \in BuildPayments PROVE payment.source # p.source
      <4>1. PICK o \in Paid : payment.source = o.source
        BY <2>2
      <4>2. o # p
        BY <3>2
      <4> QED BY <3>2, <4>1, <4>2, SourcesDiffer
    <3> HIDE DEF p
    <3>4. p \in Unpaid
      BY <3>2, <3>3
    <3> QED BY <3>2, <3>4
  <2>5. {p.number : p \in Unpaid} = MissingPaymentNumbers
    BY <2>3, <2>4
  <2> QED BY <2>5 DEF MissingPaymentScenarioHolds
<1> QED BY <1>1, <1>2

-----------------------------------------------------------------------------
\* The queries in the workspace that was seeded.

SeededRow(p) ==
    [id |-> Id(SeededWorkspace, p.source), workspace |-> SeededWorkspace, number |-> p.number,
     carrier |-> Id(SeededWorkspace, p.carrier), status |-> p.status, effective |-> p.effective]

LEMMA SeededRows ==
    /\ InWorkspace(Insurance, "insurance_policies", SeededWorkspace)
          = {SeededRow(p) : p \in BuildPolicies}
    /\ InWorkspace(Insurance, "insurance_payments", SeededWorkspace)
          = {[id |-> Id(SeededWorkspace, r.source), workspace |-> SeededWorkspace,
              policy |-> Id(SeededWorkspace, r.source), amount |-> r.amount] : r \in BuildPayments}
<1> DEFINE others(t) == {r \in Unseeded[t] : r.workspace # SeededWorkspace}
<1>1. Insurance =
        [insurance_carriers |-> others("insurance_carriers") \union InsertCarriers(SeededWorkspace),
         insurance_policies |-> others("insurance_policies") \union InsertPolicies(SeededWorkspace),
         insurance_payments |-> others("insurance_payments") \union InsertPayments(SeededWorkspace)]
  BY SeededAssumption, DatasetsHaveTheirScenarios DEF SeedDemoData
<1>2. Insurance["insurance_policies"]
         = others("insurance_policies") \union InsertPolicies(SeededWorkspace)
  BY <1>1
<1>3. Insurance["insurance_payments"]
         = others("insurance_payments") \union InsertPayments(SeededWorkspace)
  BY <1>1
<1>4. InsertPolicies(SeededWorkspace) = {SeededRow(p) : p \in BuildPolicies}
  BY DEF InsertPolicies, SeededRow
<1>5. \A r \in InsertPolicies(SeededWorkspace) : r.workspace = SeededWorkspace
  BY DEF InsertPolicies
<1>6. \A r \in InsertPayments(SeededWorkspace) : r.workspace = SeededWorkspace
  BY DEF InsertPayments
<1>7. InWorkspace(Insurance, "insurance_policies", SeededWorkspace) = InsertPolicies(SeededWorkspace)
  BY <1>2, <1>5 DEF InWorkspace
<1>8. InWorkspace(Insurance, "insurance_payments", SeededWorkspace) = InsertPayments(SeededWorkspace)
  BY <1>3, <1>6 DEF InWorkspace
<1> QED BY <1>4, <1>7, <1>8 DEF InsertPayments

LEMMA SeededNumber ==
    ASSUME NEW n \in Index
    PROVE  LET own == InWorkspace(Insurance, "insurance_policies", SeededWorkspace) IN
           /\ \E p \in own : p.number = n
           /\ Cardinality({p \in own : p.number = n}) = IF n \in DuplicatedIndices THEN 2 ELSE 1
<1> DEFINE own == InWorkspace(Insurance, "insurance_policies", SeededWorkspace)
           numbered == {p \in BuildPolicies : p.number = n}
           first == Canonical(n, n)
<1>1. {p \in own : p.number = n} = {SeededRow(p) : p \in numbered}
  BY SeededRows DEF SeededRow
<1>2. CASE n \in DuplicatedIndices
  <2>1. numbered = {first, Repeat(n)} /\ first.source # Repeat(n).source
    BY <1>2, PoliciesOfNumber
  <2>2. {p \in own : p.number = n} = {SeededRow(first), SeededRow(Repeat(n))}
    BY <1>1, <2>1
  <2>3. SeededRow(first) # SeededRow(Repeat(n))
    BY <2>1 DEF SeededRow, Id
  <2> QED BY <1>2, <2>2, <2>3, PairCardinality
<1>3. CASE n \notin DuplicatedIndices
  <2>1. numbered = {first}
    BY <1>3, PoliciesOfNumber
  <2>2. {p \in own : p.number = n} = {SeededRow(first)}
    BY <1>1, <2>1
  <2> QED BY <1>3, <2>2, FS_Singleton
<1> QED BY <1>2, <1>3

LEMMA DuplicatesQuery ==
    QueryResult("duplicate_policy_numbers", Insurance, SeededWorkspace) = DuplicatedCases
<1> DEFINE own == InWorkspace(Insurance, "insurance_policies", SeededWorkspace)
           count(n) == Cardinality({p \in own : p.number = n})
           all == QueryResult("duplicate_policy_numbers", Insurance, SeededWorkspace)
<1>1. all = {d \in {[number |-> p.number, count |-> count(p.number)] : p \in own} : d.count > 1}
  BY DEF QueryResult
<1>2. \A p \in own : p.number \in Index
  BY SeededRows, RowsOfNumber DEF SeededRow
<1>3. \A n \in Index : /\ \E p \in own : p.number = n
                       /\ count(n) = IF n \in DuplicatedIndices THEN 2 ELSE 1
  BY SeededNumber
<1>4. DuplicatedIndices \subseteq Index
  BY DatasetAssumption
<1> HIDE DEF own, count, all
<1>5. all \subseteq DuplicatedCases
  BY <1>1, <1>2, <1>3 DEF DuplicatedCases
<1>6. ASSUME NEW n \in DuplicatedIndices PROVE [number |-> n, count |-> 2] \in all
  <2>1. PICK p \in own : p.number = n
    BY <1>3, <1>4
  <2>2. count(p.number) = 2
    BY <1>3, <1>4, <2>1
  <2> QED BY <1>1, <2>1, <2>2
<1> QED BY <1>5, <1>6 DEF DuplicatedCases, all

LEMMA MissingPaymentsQuery ==
    QueryResult("active_policies_without_payments", Insurance, SeededWorkspace)
       = MissingPaymentCases
<1> DEFINE own == InWorkspace(Insurance, "insurance_policies", SeededWorkspace)
           paid == InWorkspace(Insurance, "insurance_payments", SeededWorkspace)
           all == QueryResult("active_policies_without_payments", Insurance, SeededWorkspace)
           Unpaid == {p \in BuildPolicies : p.status = "active"
                         /\ \A payment \in BuildPayments : payment.source # p.source}
<1>1. all = {[id |-> p.id, number |-> p.number, status |-> p.status] :
                p \in {p \in own : IsActive(p) /\ \A r \in paid : r.policy # p.id}}
  BY DEF QueryResult
<1>2. ASSUME NEW p \in BuildPolicies
      PROVE  (IsActive(SeededRow(p)) /\ \A r \in paid : r.policy # SeededRow(p).id)
                <=> p \in Unpaid
  <2>1. IsActive(SeededRow(p)) <=> p.status = "active"
    BY RowsOfNumber, StatusesOfPolicies DEF IsActive, Lower, SeededRow
  <2>2. (\A r \in paid : r.policy # SeededRow(p).id)
           <=> \A payment \in BuildPayments : payment.source # p.source
    <3> DEFINE row(r) == [id |-> Id(SeededWorkspace, r.source), workspace |-> SeededWorkspace,
                          policy |-> Id(SeededWorkspace, r.source), amount |-> r.amount]
    <3>1. paid = {row(r) : r \in BuildPayments}
      BY SeededRows
    <3>2. \A r : row(r).policy = SeededRow(p).id <=> r.source = p.source
      BY DEF SeededRow, Id
    <3> HIDE DEF paid, row
    <3> QED BY <3>1, <3>2
  <2> QED BY <2>1, <2>2
<1>3. {p.number : p \in Unpaid} = MissingPaymentNumbers
  BY DatasetsHaveTheirScenarios DEF MissingPaymentScenarioHolds
<1>4. ASSUME NEW p \in Unpaid
      PROVE  p.number \in MissingPaymentNumbers /\ p = Canonical(p.number, p.number)
  <2>1. p.number \in MissingPaymentNumbers
    BY <1>3
  <2>2. p.number \notin DuplicatedIndices
    BY <2>1 DEF MissingPaymentNumbers
  <2> QED BY <2>1, <2>2, RowsOfNumber
<1>5. all = {[id |-> SeededRow(p).id, number |-> p.number, status |-> p.status] : p \in Unpaid}
  <2>1. own = {SeededRow(p) : p \in BuildPolicies}
    BY SeededRows
  <2>2. \A p : SeededRow(p).number = p.number /\ SeededRow(p).status = p.status
    BY DEF SeededRow
  <2> HIDE DEF own, paid, all
  <2> QED BY <1>1, <1>2, <2>1, <2>2
<1>6. \A p \in Unpaid : [id |-> SeededRow(p).id, number |-> p.number, status |-> p.status]
                           = [id |-> Id(SeededWorkspace, p.number), number |-> p.number,
                              status |-> "active"]
  BY <1>4 DEF SeededRow, Canonical
<1> HIDE DEF all, Unpaid
<1>7. all = {[id |-> Id(SeededWorkspace, n), number |-> n, status |-> "active"] :
                n \in {p.number : p \in Unpaid}}
  BY <1>5, <1>6
<1> QED BY <1>3, <1>7 DEF MissingPaymentCases, all

\* In a seeded workspace the two queries find the cases the dataset was made
\* of, whatever its sizes and whatever the database held before.
THEOREM SpecSeededCasesAreFound == Spec => []SeededCasesAreFound
<1>1. ServiceInv => SeededCasesAreFound
  <2> SUFFICES ASSUME ServiceInv, NEW r \in Requests, Answered(r, {"query"}),
                      request[r].ask.workspace = SeededWorkspace
               PROVE  LET intent == DetectIntent(request[r].ask.question)
                      IN  /\ intent = "duplicate_policy_numbers" =>
                                Finds(request[r], DuplicatedCases)
                          /\ intent = "active_policies_without_payments" =>
                                Finds(request[r], MissingPaymentCases)
    BY DEF SeededCasesAreFound
  <2> DEFINE intent == DetectIntent(request[r].ask.question)
             all == QueryResult(intent, Insurance, request[r].ask.workspace)
  <2>1. intent \in Planned
    BY QueryAnswered
  <2>2. IsFiniteSet(all)
    BY <2>1, QueryResultFinite
  <2>3. request[r].rows \subseteq all
        /\ (Cardinality(all) <= request[r].ask.maxRows => request[r].rows = all)
    BY <2>2, QueryAnswered, LimitedToMany
  <2>4. intent = "duplicate_policy_numbers" => all = DuplicatedCases
    BY DuplicatesQuery
  <2>5. intent = "active_policies_without_payments" => all = MissingPaymentCases
    BY MissingPaymentsQuery
  <2> HIDE DEF intent, all
  <2>6. intent = "duplicate_policy_numbers" => Finds(request[r], DuplicatedCases)
    BY <2>3, <2>4 DEF Finds
  <2>7. intent = "active_policies_without_payments" => Finds(request[r], MissingPaymentCases)
    BY <2>3, <2>5 DEF Finds
  <2> QED BY <2>6, <2>7 DEF intent
<1> QED BY <1>1, SpecServiceInv, PTL

=============================================================================
