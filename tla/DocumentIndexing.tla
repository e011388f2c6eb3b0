---------------------------- MODULE DocumentIndexing ----------------------------
(***************************************************************************)
(* One processing run between its start and its completion, in the worker: *)
(* extract_document, the rows of document_pages, and index_document_pages, *)
(* which cuts the pages into overlapping chunks, has them embedded and adds*)
(* them in the transaction of the pages. The task may be executed again.   *)
(* DocumentWorker has these steps as Extract, ReplacePages and FlushPages; *)
(* here is what is written, and there what happens meanwhile.              *)
(***************************************************************************)
EXTENDS DocumentExtraction, TextChunking

CONSTANTS
    Files,          \* files that may have been uploaded
    Windows,        \* configured [size, overlap] of chunks
    MaxExecutions   \* bound: executions of the task

ASSUME FilesAssumption == \A f \in Files : FileOK(f)

ASSUME WindowsAssumption == \A w \in Windows : w.size \in Nat /\ w.overlap \in Nat

ASSUME MaxExecutionsAssumption == MaxExecutions \in Nat \ {0}

VARIABLES
    file, window,   \* chosen once
    pc,
    pages,          \* extracted in this execution
    at,             \* which of the source pages is being cut
    start,          \* where its next window starts
    chunks,         \* cut so far
    vectors,        \* the embeddings of the chunks
    saved,          \* committed: pages and chunk rows
    executions,
    faulty          \* whether OCR, model or database failed in this execution

vars == <<file, window, pc, pages, at, start, chunks, vectors, saved, executions, faulty>>

Step == {"extract", "chunk", "embed", "save", "done", "failed"}

NothingSaved == [pages |-> <<>>, rows |-> <<>>]

ChunkOK(c) ==
    /\ c.index \in Nat /\ c.page \in Nat /\ c.start \in Nat /\ c.end \in Nat
    /\ c.text \in Text

TypeOK ==
    /\ file \in Files /\ window \in Windows
    /\ pc \in Step
    /\ \A i \in DOMAIN pages : pages[i].number \in Nat /\ pages[i].text \in Text
    /\ at \in Nat /\ start \in Nat
    /\ \A i \in DOMAIN chunks : ChunkOK(chunks[i])
    /\ Len(vectors) <= Len(chunks)
    /\ \A i \in DOMAIN saved.rows : ChunkOK(saved.rows[i])
    /\ executions \in 1 .. MaxExecutions
    /\ faulty \in BOOLEAN

Init ==
    /\ file \in Files /\ window \in Windows
    /\ pc = "extract"
    /\ pages = <<>> /\ at = 1 /\ start = 0 /\ chunks = <<>> /\ vectors = <<>>
    /\ saved = NothingSaved
    /\ executions = 1 /\ faulty = FALSE

-----------------------------------------------------------------------------

Fail == pc' = "failed"

\* What the transaction did is rolled back, and the run marked failed.
FailBy(fault) ==
    /\ Fail
    /\ faulty' = (faulty \/ fault)
    /\ UNCHANGED <<file, window, pages, at, start, chunks, vectors, saved, executions>>

Extract(ocrWorks) ==
    LET result == ExtractDocument(file, ocrWorks)
    IN  /\ pc = "extract"
        /\ faulty' = (faulty \/ ~ocrWorks)
        /\ IF result.error # "none" THEN Fail /\ UNCHANGED pages
           ELSE pc' = "chunk" /\ pages' = result.pages
        /\ UNCHANGED <<file, window, at, start, chunks, vectors, saved, executions>>

\* build_source_document_pages: a page without visible text is passed over.
SourcePages ==
    Picked([i \in DOMAIN pages |-> [pages[i] EXCEPT !.text = Strip(@)]],
           {i \in DOMAIN pages : Strip(pages[i].text) # <<>>})

\* chunk_page_text normalizes what it is given once more.
PageText == NormalizeExtractedText(SourcePages[at].text)

RefuseWindow ==
    /\ pc = "chunk"
    /\ ~WindowIsValid(window.size, window.overlap)
    /\ FailBy(FALSE)

Cut(range) ==
    IF range.text = <<>> THEN chunks
    ELSE Append(chunks, [index |-> Len(chunks), page |-> SourcePages[at].number,
                         start |-> range.start, end |-> range.end, text |-> range.text])

\* One round of the loop in chunk_page_text.
CutChunk ==
    /\ pc = "chunk" /\ WindowIsValid(window.size, window.overlap)
    /\ at <= Len(SourcePages) /\ start < Len(PageText)
    /\ LET end == FindChunkEnd(PageText, start, window.size)
           nextStart == FindNextStart(PageText, start, end, window.overlap)
       IN  /\ chunks' = Cut(TrimChunkRange(PageText, start, end))
           /\ IF nextStart <= start THEN Fail /\ UNCHANGED start
              ELSE start' = nextStart /\ UNCHANGED pc
    /\ UNCHANGED <<file, window, pages, at, vectors, saved, executions, faulty>>

NextPage ==
    /\ pc = "chunk" /\ WindowIsValid(window.size, window.overlap)
    /\ at <= Len(SourcePages) /\ start >= Len(PageText)
    /\ at' = at + 1 /\ start' = 0
    /\ UNCHANGED <<file, window, pc, pages, chunks, vectors, saved, executions, faulty>>

\* A document without text has nothing to embed, and that is no error.
EndChunking ==
    /\ pc = "chunk" /\ WindowIsValid(window.size, window.overlap)
    /\ at > Len(SourcePages)
    /\ pc' = IF chunks = <<>> THEN "save" ELSE "embed"
    /\ UNCHANGED <<file, window, pages, at, start, chunks, vectors, saved, executions, faulty>>

-----------------------------------------------------------------------------
\* embed_passages.

\* Line ends do not reach the model.
NormalizeEmbeddingText(text) ==
    Joined(NonEmpty(Split(text, WhiteSpace)), <<Blank>>)

Vector(passage) == [of |-> passage, sound |-> TRUE]

\* What the model may return for the passages: their vectors in order, or too
\* few, too many, or one of a wrong length or with a value that is not finite.
RawVectors(passages) ==
    LET right == [i \in DOMAIN passages |-> Vector(passages[i])]
    IN  {right, Tail(right), Append(right, Head(right))}
            \union {[right EXCEPT ![i].sound = FALSE] : i \in DOMAIN right}

\* Mutant: vectors are not counted.
VectorsAcceptedUncounted(raw, passages) ==
    \A i \in DOMAIN raw : raw[i].sound

\* Mutant: vectors are counted and not looked at.
VectorsAcceptedUnseen(raw, passages) == Len(raw) = Len(passages)

VectorsAccepted(raw, passages) ==
    /\ Len(raw) = Len(passages)
    /\ \A i \in DOMAIN raw : raw[i].sound

Passages == Tuple([i \in DOMAIN chunks |-> NormalizeEmbeddingText(chunks[i].text)])

EmbedPassages ==
    /\ pc = "embed"
    /\ \E raw \in RawVectors(Passages) :
          IF VectorsAccepted(raw, Passages)
          THEN /\ vectors' = raw /\ pc' = "save" /\ UNCHANGED faulty
          ELSE /\ Fail /\ faulty' = TRUE /\ UNCHANGED vectors
    /\ UNCHANGED <<file, window, pages, at, start, chunks, saved, executions>>

\* The model cannot be loaded or raises.
EmbedRaises == pc = "embed" /\ FailBy(TRUE)

-----------------------------------------------------------------------------

\* build_document_chunk_models
ChunkRows ==
    [i \in DOMAIN chunks |->
        [index |-> chunks[i].index, page |-> chunks[i].page, start |-> chunks[i].start,
         end |-> chunks[i].end, text |-> chunks[i].text, vector |-> vectors[i]]]

\* Mutant: the chunks of an earlier execution are kept.
SaveBesideOldChunks ==
    /\ pc = "save" /\ Len(vectors) = Len(chunks)
    /\ saved' = [pages |-> pages, rows |-> saved.rows \o ChunkRows]
    /\ pc' = "done"
    /\ UNCHANGED <<file, window, pages, at, start, chunks, vectors, executions, faulty>>

\* The rows of an earlier execution are deleted in the same transaction.
SaveIndex ==
    /\ pc = "save" /\ Len(vectors) = Len(chunks)
    /\ saved' = [pages |-> pages, rows |-> ChunkRows]
    /\ pc' = "done"
    /\ UNCHANGED <<file, window, pages, at, start, chunks, vectors, executions, faulty>>

\* Counts that differ, or the database.
SaveFails == pc = "save" /\ FailBy(Len(vectors) = Len(chunks))

\* The task is delivered once more. After "done" this is the execution of a
\* delivery that found the run still running: a later one returns at once.
ExecuteAgain ==
    /\ pc \in {"done", "failed"} /\ executions < MaxExecutions
    /\ executions' = executions + 1
    /\ pc' = "extract"
    /\ pages' = <<>> /\ at' = 1 /\ start' = 0 /\ chunks' = <<>> /\ vectors' = <<>>
    /\ faulty' = FALSE
    /\ UNCHANGED <<file, window, saved>>

Work ==
    \/ \E ocrWorks \in BOOLEAN : Extract(ocrWorks)
    \/ RefuseWindow
    \/ CutChunk
    \/ NextPage
    \/ EndChunking
    \/ EmbedPassages
    \/ EmbedRaises
    \/ SaveIndex
    \/ SaveFails

Rest == pc \in {"done", "failed"} /\ UNCHANGED vars

Next == Work \/ ExecuteAgain \/ Rest

Spec == Init /\ [][Next]_vars

-----------------------------------------------------------------------------
\* Properties.

Visible(text) == {i \in DOMAIN text : IsVisible(text[i])}

(***************************************************************************)
(* Nothing that can be read is lost to the search: every visible character *)
(* of a saved page lies in a saved chunk of that page, although windows end*)
(* and start at word boundaries and skip white space.                      *)
(***************************************************************************)
VisibleTextIsIndexed ==
    \A p \in DOMAIN saved.pages : \A i \in Visible(saved.pages[p].text) :
        \E r \in DOMAIN saved.rows :
            /\ saved.rows[r].page = saved.pages[p].number
            /\ i - 1 \in saved.rows[r].start .. saved.rows[r].end - 1

(***************************************************************************)
(* A citation can be looked up: the offsets of a chunk cut its text out of *)
(* the text stored for its page, though they were taken on a text that was *)
(* stripped and normalized again. A chunk fits the configured size and     *)
(* neither begins nor ends with white space.                               *)
(***************************************************************************)
ChunksQuoteTheirPage ==
    \A r \in DOMAIN saved.rows :
        LET row == saved.rows[r]
        IN  /\ row.text = SubSeq(saved.pages[row.page].text, row.start + 1, row.end)
            /\ Len(row.text) \in 1 .. window.size
            /\ Strip(row.text) = row.text

(***************************************************************************)
(* The rows of a run are one numbering of its text from the first page to  *)
(* the last, and stay so when the task is executed again.                  *)
(***************************************************************************)
ChunksInReadingOrder ==
    \A r \in DOMAIN saved.rows :
        LET row == saved.rows[r]
        IN  /\ row.index = r - 1
            /\ r > 1 => LET before == saved.rows[r - 1] IN
                  \/ before.page < row.page
                  \/ before.page = row.page /\ before.start < row.start /\ before.end <= row.end

(***************************************************************************)
(* Every saved chunk has the vector of its own text, whatever the model    *)
(* returns.                                                                *)
(***************************************************************************)
VectorsBelongToChunks ==
    \A r \in DOMAIN saved.rows :
        saved.rows[r].vector = Vector(NormalizeEmbeddingText(saved.rows[r].text))

(***************************************************************************)
(* Indexing fails for a reason: the file, the configured window, or OCR,   *)
(* the model or the database. It never ends with "Chunking failed to       *)
(* advance through the text.", so with each round the start moves on, and  *)
(* the loop ends.                                                          *)
(***************************************************************************)
FailureHasReason ==
    pc = "failed" =>
        \/ faulty
        \/ ~WindowIsValid(window.size, window.overlap)
        \/ ExtractDocument(file, TRUE).error # "none"

=============================================================================
