---------------------------- MODULE GroundedAnswers ----------------------------
(***************************************************************************)
(* Semantic search over the published chunks and the answers made of what  *)
(* it finds. A chunk is its distance from the question, its sentences, and *)
(* the values that the patterns of the structured fields find in it; a     *)
(* sentence is the words that count, its length, and the values it holds.  *)
(***************************************************************************)
EXTENDS Naturals, FiniteSets, Sequences

CONSTANTS
    Chunks,         \* per document, attempt and execution: its chunks in order
    WorkspaceOf,    \* of documents
    DefaultTopK,    \* settings.rag_default_top_k
    MaxTopK,        \* settings.rag_max_top_k
    None            \* no value; no structured field

ASSUME TopKAssumption == MaxTopK \in Nat

-----------------------------------------------------------------------------
\* search_document_chunks, in one statement.

Greatest(S) == CHOOSE m \in S : \A n \in S : n <= m

\* Every chunk in the database: those of older attempts stay.
ChunkRows(opened, version) ==
    UNION {UNION {{[document |-> d, attempt |-> n, execution |-> version[d][n], index |-> i] :
                      i \in DOMAIN Chunks[d][n][version[d][n]]} : n \in opened[d]} :
           d \in DOMAIN opened}

ChunkOf(row) == Chunks[row.document][row.attempt][row.execution][row.index]

\* Mutant: of any completed run.
LatestCompletedLoosely(row, shown) == row.attempt \in shown[row.document]

\* latest_completed_runs
LatestCompleted(row, shown) ==
    shown[row.document] # {} /\ row.attempt = Greatest(shown[row.document])

\* Nearest first, then by document and place.
Nearer(r, s) ==
    \/ ChunkOf(r).distance < ChunkOf(s).distance
    \/ /\ ChunkOf(r).distance = ChunkOf(s).distance
       /\ r.document < s.document \/ (r.document = s.document /\ r.index < s.index)

\* Rank in the order, from 1.
Rank(row, rows) == 1 + Cardinality({r \in rows : Nearer(r, row)})

Candidates(search, opened, version, shown) ==
    {row \in ChunkRows(opened, version) :
        /\ LatestCompleted(row, shown)
        /\ WorkspaceOf[row.document] = search.workspace
        /\ search.documents = {} \/ row.document \in search.documents
        /\ ChunkOf(row).distance <= search.maxDistance}

SearchDocumentChunks(search, topK, opened, version, shown) ==
    LET rows == Candidates(search, opened, version, shown)
        found == {r \in rows : Rank(r, rows) <= topK}
    IN  [i \in 1 .. Cardinality(found) |-> CHOOSE r \in found : Rank(r, rows) = i]

\* answer_document_question asks for enough chunks to fill the citations, and
\* may thereby ask for more than the settings allow.
ResolvedTopK(search) ==
    CASE search.topK # None -> search.topK
      [] search.topK = None /\ search.citations > DefaultTopK -> search.citations
      [] OTHER -> DefaultTopK

TopKIsAllowed(topK) == topK \in 1 .. MaxTopK

-----------------------------------------------------------------------------
\* build_rag_citations.

Excerpt(field, value, customer, sentence) ==
    [field |-> field, value |-> value, customer |-> customer, sentence |-> sentence]

NoExcerpt == Excerpt(None, None, None, None)

HasField(chunk, field) == field # None /\ field \in DOMAIN chunk.values

MaxSentenceLength == 240

\* find_sentence_containing_value
SentencesWith(chunk, value) ==
    {i \in DOMAIN chunk.sentences :
        value \in chunk.sentences[i].holds /\ chunk.sentences[i].length <= MaxSentenceLength}

FirstOf(S) == CHOOSE m \in S : \A n \in S : m <= n

\* A policy number comes with its customer, or else in its sentence.
StructuredExcerpt(chunk, field) ==
    LET value == chunk.values[field]
        within == SentencesWith(chunk, value)
    IN  CASE field = "policy_number" /\ HasField(chunk, "customer_name") ->
                Excerpt(field, value, chunk.values["customer_name"], None)
          [] field = "policy_number" /\ ~HasField(chunk, "customer_name") /\ within # {} ->
                Excerpt(None, None, None, chunk.sentences[FirstOf(within)])
          [] OTHER -> Excerpt(field, value, None, None)

\* More of the question's words, then more words, then shorter.
Better(s, t, words) ==
    LET common(u) == Cardinality(u.words \intersect words)
    IN  \/ common(s) > common(t)
        \/ /\ common(s) = common(t)
           /\ \/ Cardinality(s.words) > Cardinality(t.words)
              \/ Cardinality(s.words) = Cardinality(t.words) /\ s.length < t.length

BestSentences(chunk, words) ==
    {i \in DOMAIN chunk.sentences :
        \A j \in DOMAIN chunk.sentences :
            ~Better(chunk.sentences[j], chunk.sentences[i], words)}

BestExcerpt(search, chunk) ==
    CASE HasField(chunk, search.field) -> StructuredExcerpt(chunk, search.field)
      [] ~HasField(chunk, search.field) /\ chunk.sentences # <<>> ->
            Excerpt(None, None, None, chunk.sentences[FirstOf(BestSentences(chunk, search.words))])
      [] OTHER -> NoExcerpt

\* What the answer says for a hit: a sentence made of the value, or the excerpt.
Statement(search, chunk) ==
    IF HasField(chunk, search.field)
    THEN Excerpt(search.field, chunk.values[search.field], None, None)
    ELSE BestExcerpt(search, chunk)

\* The hits with an excerpt that none before them has.
CitedHits(search, hits) ==
    {i \in DOMAIN hits :
        LET excerpt == BestExcerpt(search, ChunkOf(hits[i]))
        IN  /\ excerpt # NoExcerpt
            /\ \A j \in 1 .. i - 1 : BestExcerpt(search, ChunkOf(hits[j])) # excerpt}

\* In the order of the hits, no more than were asked for.
BuildRagCitations(search, hits) ==
    LET cited == CitedHits(search, hits)
        place(i) == Cardinality({j \in cited : j <= i})
        count == IF Cardinality(cited) < search.citations
                 THEN Cardinality(cited) ELSE search.citations
    IN  [k \in 1 .. count |->
            LET i == CHOOSE i \in cited : place(i) = k
            IN  [number |-> k, source |-> hits[i],
                 excerpt |-> BestExcerpt(search, ChunkOf(hits[i])),
                 statement |-> Statement(search, ChunkOf(hits[i]))]]

\* build_grounded_answer; without a citation the answer says that none was found.
GroundedAnswer(search, hits) ==
    [grounded |-> BuildRagCitations(search, hits) # <<>>,
     retrieved |-> Len(hits),
     citations |-> BuildRagCitations(search, hits)]

=============================================================================
