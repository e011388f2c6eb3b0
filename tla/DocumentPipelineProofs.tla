------------------------ MODULE DocumentPipelineProofs ------------------------
(***************************************************************************)
(* Theorems about DocumentPipeline, for every set of documents, requests   *)
(* and workers and every bound. First types, and the identities that       *)
(* requests and workers carry at each step (TypeInv); then the rows.       *)
(***************************************************************************)
EXTENDS DocumentPipeline, TLAPS

LEMMA AttemptsAreNat == Attempts \subseteq Nat
  BY BoundsAssumption DEF Attempts

LEMMA InitTypeOK == Init => TypeOK
  BY BoundsAssumption
     DEF Init, TypeOK, NewRequest, IdleWorker, RequestRecord, WorkerRecord,
         RequestStep, WorkerStep, Attempts

LEMMA NoteFailedInRows ==
  ASSUME NEW known \in SUBSET FailureRow, NEW row \in FailureRow, NEW status
  PROVE  NoteFailed(known, row, status) \in SUBSET FailureRow
  BY DEF NoteFailed

\* What mark_processing_run_failed may write: each of the two rows, or neither.
LEMMA MarkRunFailedFields ==
  ASSUME TypeOK, NEW d \in Documents, NEW n \in Attempts,
         NEW readFailed \in SUBSET FailureRow, MarkRunFailed(d, n, readFailed)
  PROVE  /\ pages' = pages
         /\ halfFailed' \in {halfFailed, halfFailed \ {d}, halfFailed \union {d}}
         /\ \/ run[d][n] = "none" /\ UNCHANGED <<run, document, halfFailed>>
            \/ /\ run[d][n] # "none"
               /\ run' = run \/ run' = [run EXCEPT ![d][n] = "failed"]
               /\ run' = IF "run" \in readFailed
                         THEN run ELSE [run EXCEPT ![d][n] = "failed"]
               /\ document' = document \/ document' = [document EXCEPT ![d] = "failed"]
               /\ ~Exists(d) => document' = document
               /\ d \in halfFailed'
                  \/ (run'[d][n] = "failed" /\ document'[d] = "failed")
                  \/ (UNCHANGED <<run, document, halfFailed>>)
  BY DEF TypeOK, MarkRunFailed, FailureRow

-----------------------------------------------------------------------------
\* The helpers that move one request or one worker, as field-wise facts.

Others(q) == \A r \in Requests : r # q => request'[r] = request[r]

LEMMA RequestGoesFields ==
  ASSUME request \in [Requests -> RequestRecord], NEW q \in Requests,
         NEW step \in RequestStep, RequestGoes(q, step)
  PROVE  /\ request' \in [Requests -> RequestRecord]
         /\ request'[q].pc = step
         /\ request'[q].kind = request[q].kind
         /\ request'[q].doc = request[q].doc
         /\ request'[q].attempt = request[q].attempt
         /\ request'[q].reply = request[q].reply
         /\ request'[q].readFailed = request[q].readFailed
         /\ Others(q)
  <1>1. request[q] \in RequestRecord
    OBVIOUS
  <1>2. [request[q] EXCEPT !.pc = step] \in RequestRecord
    BY <1>1 DEF RequestRecord
  <1> QED BY <1>1, <1>2 DEF RequestGoes, Others, RequestRecord

LEMMA RespondFields ==
  ASSUME request \in [Requests -> RequestRecord], NEW q \in Requests,
         NEW code \in Reply, Respond(q, code)
  PROVE  /\ request' \in [Requests -> RequestRecord]
         /\ request'[q].pc = "done"
         /\ request'[q].kind = request[q].kind
         /\ request'[q].doc = request[q].doc
         /\ request'[q].attempt = request[q].attempt
         /\ request'[q].reply = code
         /\ request'[q].readFailed = {}
         /\ Others(q)
  <1>1. request[q] \in RequestRecord
    OBVIOUS
  <1>2. [request[q] EXCEPT !.pc = "done", !.reply = code, !.readFailed = {}]
           \in RequestRecord
    BY <1>1 DEF RequestRecord, RequestStep
  <1> QED BY <1>1, <1>2 DEF Respond, Others, RequestRecord

\* A request that reads a row before marking its run failed.
LEMMA RequestReadsFields ==
  ASSUME request \in [Requests -> RequestRecord], NEW q \in Requests,
         NEW step \in RequestStep, NEW known \in SUBSET FailureRow,
         request' = [request EXCEPT ![q].pc = step, ![q].readFailed = known]
  PROVE  /\ request' \in [Requests -> RequestRecord]
         /\ request'[q].pc = step
         /\ request'[q].kind = request[q].kind
         /\ request'[q].doc = request[q].doc
         /\ request'[q].attempt = request[q].attempt
         /\ request'[q].reply = request[q].reply
         /\ request'[q].readFailed = known
         /\ Others(q)
  <1>1. request[q] \in RequestRecord
    OBVIOUS
  <1>2. [request[q] EXCEPT !.pc = step, !.readFailed = known] \in RequestRecord
    BY <1>1 DEF RequestRecord
  <1> QED BY <1>1, <1>2 DEF Others, RequestRecord

LEMMA BeginFields ==
  ASSUME request \in [Requests -> RequestRecord], NEW q \in Requests,
         NEW kind \in Kind, NEW d \in Documents, NEW step \in RequestStep,
         Begin(q, kind, d, step)
  PROVE  /\ request' \in [Requests -> RequestRecord]
         /\ request'[q].pc = step
         /\ request'[q].kind = kind
         /\ request'[q].doc = d
         /\ request'[q].attempt = 0
         /\ request'[q].reply = "none"
         /\ request'[q].readFailed = {}
         /\ Others(q)
  BY BoundsAssumption DEF Begin, Others, RequestRecord

LEMMA RefuseFields ==
  ASSUME request \in [Requests -> RequestRecord], NEW q \in Requests,
         NEW kind \in Kind, NEW d \in Documents, NEW code \in Reply,
         Refuse(q, kind, d, code)
  PROVE  /\ request' \in [Requests -> RequestRecord]
         /\ request'[q].pc = "done"
         /\ request'[q].kind = kind
         /\ request'[q].doc = d
         /\ request'[q].attempt = 0
         /\ request'[q].reply = code
         /\ request'[q].readFailed = {}
         /\ Others(q)
  BY BoundsAssumption DEF Refuse, Others, RequestRecord, RequestStep

LEMMA ApiCrashFields ==
  ASSUME request \in [Requests -> RequestRecord], NEW q \in Requests, ApiCrash(q)
  PROVE  /\ request' \in [Requests -> RequestRecord]
         /\ request'[q].pc = "done"
         /\ request'[q].kind = request[q].kind
         /\ request'[q].doc = request[q].doc
         /\ request[q].pc # "locked" => request'[q].attempt = request[q].attempt
         /\ request'[q].reply = "crashed"
         /\ request'[q].readFailed = {}
         /\ Others(q)
  <1> DEFINE n == IF request[q].pc = "locked" THEN 0 ELSE request[q].attempt
  <1>1. request[q] \in RequestRecord /\ n \in 0 .. MaxAttempts
    BY BoundsAssumption DEF RequestRecord
  <1>2. [request[q] EXCEPT !.pc = "done", !.reply = "crashed", !.readFailed = {},
                           !.attempt = n] \in RequestRecord
    <2>1. "done" \in RequestStep /\ "crashed" \in Reply
      BY DEF RequestStep, Reply
    <2> HIDE DEF n
    <2> QED BY <1>1, <2>1 DEF RequestRecord
  <1>3. request' = [request EXCEPT ![q] =
           [@ EXCEPT !.pc = "done", !.reply = "crashed", !.readFailed = {}, !.attempt = n]]
    BY DEF ApiCrash
  <1> HIDE DEF n
  <1>4. request' \in [Requests -> RequestRecord] /\ Others(q)
    BY <1>2, <1>3 DEF Others
  <1>5. /\ request'[q].pc = "done" /\ request'[q].reply = "crashed"
        /\ request'[q].kind = request[q].kind /\ request'[q].doc = request[q].doc
        /\ request'[q].attempt = n /\ request'[q].readFailed = {}
    BY <1>1, <1>3 DEF RequestRecord
  <1> QED BY <1>4, <1>5 DEF n

OtherWorkers(w) == \A v \in Workers : v # w => worker'[v] = worker[v]

LEMMA WorkerGoesFields ==
  ASSUME worker \in [Workers -> WorkerRecord], NEW w \in Workers,
         NEW step \in WorkerStep, WorkerGoes(w, step)
  PROVE  /\ worker' \in [Workers -> WorkerRecord]
         /\ worker'[w].pc = step
         /\ worker'[w].doc = worker[w].doc
         /\ worker'[w].attempt = worker[w].attempt
         /\ worker'[w].seen = worker[w].seen
         /\ worker'[w].readFailed = worker[w].readFailed
         /\ OtherWorkers(w)
  <1>1. worker[w] \in WorkerRecord
    OBVIOUS
  <1>2. [worker[w] EXCEPT !.pc = step] \in WorkerRecord
    BY <1>1 DEF WorkerRecord
  <1> QED BY <1>1, <1>2 DEF WorkerGoes, OtherWorkers, WorkerRecord

\* The steps of the failure handler.
LEMMA WorkerReadsFields ==
  ASSUME worker \in [Workers -> WorkerRecord], NEW w \in Workers,
         NEW step \in WorkerStep, NEW seen \in Nat, NEW known \in SUBSET FailureRow,
         worker' = [worker EXCEPT ![w] =
            [@ EXCEPT !.pc = step, !.seen = seen, !.readFailed = known]]
  PROVE  /\ worker' \in [Workers -> WorkerRecord]
         /\ worker'[w].pc = step
         /\ worker'[w].doc = worker[w].doc
         /\ worker'[w].attempt = worker[w].attempt
         /\ worker'[w].readFailed = known
         /\ OtherWorkers(w)
  <1>1. worker[w] \in WorkerRecord
    OBVIOUS
  <1>2. [worker[w] EXCEPT !.pc = step, !.seen = seen, !.readFailed = known]
           \in WorkerRecord
    BY <1>1 DEF WorkerRecord
  <1> QED BY <1>1, <1>2 DEF OtherWorkers, WorkerRecord

\* Reading a row for the handler, or being done with it, moves one worker on
\* with its task.
HandlerMoves(w) ==
    /\ worker' \in [Workers -> WorkerRecord]
    /\ worker'[w].pc \in {"failing", "marking", "acking"}
    /\ worker'[w].doc = worker[w].doc
    /\ worker'[w].attempt = worker[w].attempt
    /\ worker'[w].pc = "acking" => worker'[w].readFailed = {}
    /\ OtherWorkers(w)

LEMMA ReadFailedRunMoves ==
  ASSUME worker \in [Workers -> WorkerRecord], NEW w \in Workers, ReadFailedRun(w),
         worker[w].readFailed = {}
  PROVE  /\ HandlerMoves(w)
         /\ LET status == run[worker[w].doc][worker[w].attempt] IN
            status # "none" =>
               /\ worker'[w].pc = "failing"
               /\ worker'[w].readFailed = NoteFailed({}, "run", status)
  <1> DEFINE status == run[worker[w].doc][worker[w].attempt]
             known == IF status = "none" THEN {} ELSE NoteFailed({}, "run", status)
             step == IF status = "none" THEN "acking" ELSE "failing"
  <1>1. known \in SUBSET FailureRow
    BY NoteFailedInRows DEF FailureRow
  <1>2. step \in WorkerStep
    BY DEF WorkerStep
  <1>3. worker' = [worker EXCEPT ![w] =
                     [@ EXCEPT !.pc = step, !.seen = 0, !.readFailed = known]]
    BY DEF ReadFailedRun, WorkerRecord
  <1> HIDE DEF known, step
  <1>4. /\ worker' \in [Workers -> WorkerRecord]
        /\ worker'[w].pc = step
        /\ worker'[w].doc = worker[w].doc
        /\ worker'[w].attempt = worker[w].attempt
        /\ worker'[w].readFailed = known
        /\ OtherWorkers(w)
    BY <1>1, <1>2, <1>3, WorkerReadsFields
  <1> QED BY <1>4 DEF HandlerMoves, known, step

LEMMA ReadFailedDocumentMoves ==
  ASSUME worker \in [Workers -> WorkerRecord], NEW w \in Workers, ReadFailedDocument(w)
  PROVE  /\ HandlerMoves(w) /\ worker'[w].pc = "marking"
         /\ "run" \in worker'[w].readFailed => "run" \in worker[w].readFailed
  <1> DEFINE known == NoteFailed(worker[w].readFailed, "document", document[worker[w].doc])
  <1>1. worker[w].readFailed \in SUBSET FailureRow /\ worker[w].seen \in Nat
    BY DEF WorkerRecord
  <1>2. known \in SUBSET FailureRow
    BY <1>1, NoteFailedInRows DEF FailureRow
  <1>3. worker' = [worker EXCEPT ![w] =
                     [@ EXCEPT !.pc = "marking", !.seen = worker[w].seen,
                               !.readFailed = known]]
    BY DEF ReadFailedDocument, WorkerRecord
  <1>4. "run" \in known => "run" \in worker[w].readFailed
    BY DEF NoteFailed
  <1> HIDE DEF known
  <1>5. /\ worker' \in [Workers -> WorkerRecord]
        /\ worker'[w].pc = "marking"
        /\ worker'[w].doc = worker[w].doc
        /\ worker'[w].attempt = worker[w].attempt
        /\ worker'[w].readFailed = known
        /\ OtherWorkers(w)
    <2>1. "marking" \in WorkerStep
      BY DEF WorkerStep
    <2> QED BY <1>1, <1>2, <1>3, <2>1, WorkerReadsFields
  <1> QED BY <1>4, <1>5 DEF HandlerMoves

LEMMA WorkerGivesUpMoves ==
  ASSUME worker \in [Workers -> WorkerRecord], NEW w \in Workers, WorkerGivesUp(w)
  PROVE  HandlerMoves(w) /\ worker'[w].pc = "acking"
  <1>1. worker[w].seen \in Nat /\ {} \in SUBSET FailureRow /\ "acking" \in WorkerStep
    BY DEF WorkerRecord, WorkerStep
  <1>2. worker' = [worker EXCEPT ![w] =
                     [@ EXCEPT !.pc = "acking", !.seen = worker[w].seen, !.readFailed = {}]]
    BY DEF WorkerGivesUp, WorkerRecord
  <1>3. /\ worker' \in [Workers -> WorkerRecord]
        /\ worker'[w].pc = "acking"
        /\ worker'[w].doc = worker[w].doc
        /\ worker'[w].attempt = worker[w].attempt
        /\ worker'[w].readFailed = {}
        /\ OtherWorkers(w)
    BY <1>1, <1>2, WorkerReadsFields
  <1> QED BY <1>3 DEF HandlerMoves

-----------------------------------------------------------------------------
\* Types, with what a request or worker record holds at each step.

RequestsOK ==
    \A q \in Requests :
        /\ request[q].pc # "idle" => request[q].doc \in Documents
        /\ request[q].pc \in {"stored", "inserted", "compensating"} =>
              request[q].kind = "upload"
        /\ request[q].pc \in {"checked", "locked", "created", "undo", "undoRead", "undoMark"} =>
              request[q].kind = "process"
        /\ request[q].pc \in {"removing", "objectDeleted"} =>
              request[q].kind = "remove"
        /\ request[q].pc \in {"locked", "created", "undo", "undoRead", "undoMark"} =>
              request[q].attempt \in Attempts
        /\ request[q].kind \in Kind => request[q].pc # "idle"
        /\ request[q].pc \notin {"undoRead", "undoMark"} => request[q].readFailed = {}

WorkersOK ==
    \A w \in Workers :
        /\ worker[w].pc # "idle" =>
              worker[w].doc \in Documents /\ worker[w].attempt \in Attempts
        /\ worker[w].pc \notin {"failing", "marking"} => worker[w].readFailed = {}

TypeInv == TypeOK /\ RequestsOK /\ WorkersOK

LEMMA InitTypeInv == Init => TypeInv
  BY InitTypeOK DEF Init, TypeInv, RequestsOK, WorkersOK, NewRequest, IdleWorker, Kind

RequestsTyped == request \in [Requests -> RequestRecord] /\ RequestsOK

TablesTyped ==
    /\ document \in [Documents -> DocumentStatus \union {"absent"}]
    /\ object \in [Documents -> BOOLEAN]
    /\ run \in [Documents -> [Attempts -> RunStatus \union {"none"}]]
    /\ pages \in [Documents -> [Attempts -> Nat]]
    /\ halfFailed \in SUBSET Documents
    /\ ready \in [Documents -> [Attempts -> Nat]]
    /\ redeliveries \in 0 .. MaxRedeliveries
    /\ dbErrors \in 0 .. MaxDbErrors

WorkersTyped == worker \in [Workers -> WorkerRecord] /\ WorkersOK

LEMMA TypeInvParts == TypeInv <=> RequestsTyped /\ TablesTyped /\ WorkersTyped
  BY DEF TypeInv, TypeOK, RequestsTyped, TablesTyped, WorkersTyped

LEMMA RequestGoesOK ==
  ASSUME RequestsTyped, NEW q \in Requests, NEW step \in RequestStep,
         RequestGoes(q, step), request[q].pc \notin {"idle", "undoRead", "undoMark"},
         step # "idle",
         step \in {"stored", "inserted", "compensating"} => request[q].kind = "upload",
         step \in {"checked", "locked", "created", "undo", "undoRead", "undoMark"} => request[q].kind = "process",
         step \in {"removing", "objectDeleted"} => request[q].kind = "remove",
         step \in {"locked", "created", "undo", "undoRead", "undoMark"} => request[q].attempt \in Attempts
  PROVE  RequestsTyped'
  BY RequestGoesFields DEF RequestsTyped, RequestsOK, Others

LEMMA RequestReadsOK ==
  ASSUME RequestsTyped, NEW q \in Requests, NEW step \in {"undoRead", "undoMark"},
         NEW known \in SUBSET FailureRow, request[q].pc \in {"undo", "undoRead"},
         request' = [request EXCEPT ![q].pc = step, ![q].readFailed = known]
  PROVE  RequestsTyped'
  <1>1. step \in RequestStep
    BY DEF RequestStep
  <1>2. /\ request' \in [Requests -> RequestRecord]
        /\ request'[q].pc = step
        /\ request'[q].kind = request[q].kind
        /\ request'[q].doc = request[q].doc
        /\ request'[q].attempt = request[q].attempt
        /\ Others(q)
    BY <1>1, RequestReadsFields DEF RequestsTyped
  <1> QED BY <1>2 DEF RequestsTyped, RequestsOK, Others

\* The two reads of the endpoint's failure handler.
LEMMA UndoReads ==
  ASSUME request \in [Requests -> RequestRecord], NEW q \in Requests,
         \/ ReadUndoneRun(q) /\ run[request[q].doc][request[q].attempt] # "none"
         \/ ReadUndoneDocument(q)
  PROVE  \E step \in {"undoRead", "undoMark"}, known \in SUBSET FailureRow :
            /\ request[q].pc \in {"undo", "undoRead"}
            /\ request' = [request EXCEPT ![q].pc = step, ![q].readFailed = known]
            /\ "run" \in known =>
                  \/ "run" \in request[q].readFailed
                  \/ run[request[q].doc][request[q].attempt] = "failed"
  <1>1. CASE ReadUndoneRun(q) /\ run[request[q].doc][request[q].attempt] # "none"
    <2> DEFINE status == run[request[q].doc][request[q].attempt]
               known == NoteFailed({}, "run", status)
    <2>1. known \in SUBSET FailureRow
      BY NoteFailedInRows DEF FailureRow
    <2>2. "run" \in known => status = "failed"
      BY DEF NoteFailed
    <2>3. /\ request[q].pc = "undo"
          /\ request' = [request EXCEPT ![q].pc = "undoRead", ![q].readFailed = known]
      BY <1>1 DEF ReadUndoneRun
    <2> HIDE DEF known
    <2> QED BY <2>1, <2>2, <2>3
  <1>2. CASE ReadUndoneDocument(q)
    <2> DEFINE known == NoteFailed(request[q].readFailed, "document",
                                   document[request[q].doc])
    <2>1. request[q].readFailed \in SUBSET FailureRow
      BY DEF RequestRecord
    <2>2. known \in SUBSET FailureRow
      BY <2>1, NoteFailedInRows DEF FailureRow
    <2>3. "run" \in known => "run" \in request[q].readFailed
      BY DEF NoteFailed
    <2>4. /\ request[q].pc = "undoRead"
          /\ request' = [request EXCEPT ![q].pc = "undoMark", ![q].readFailed = known]
      BY <1>2 DEF ReadUndoneDocument
    <2> HIDE DEF known
    <2> QED BY <2>2, <2>3, <2>4
  <1> QED BY <1>1, <1>2

LEMMA RespondOK ==
  ASSUME RequestsTyped, NEW q \in Requests, NEW code \in Reply,
         Respond(q, code), request[q].pc # "idle"
  PROVE  RequestsTyped'
  BY RespondFields DEF RequestsTyped, RequestsOK, Others

LEMMA BeginOK ==
  ASSUME RequestsTyped, NEW q \in Requests, NEW d \in Documents,
         \/ Begin(q, "upload", d, "stored")
         \/ Begin(q, "process", d, "checked")
         \/ Begin(q, "remove", d, "removing")
  PROVE  RequestsTyped'
  <1> USE DEF RequestsTyped, RequestsOK, Others, Kind, RequestStep
  <1>1. CASE Begin(q, "upload", d, "stored")
    BY <1>1, BeginFields
  <1>2. CASE Begin(q, "process", d, "checked")
    BY <1>2, BeginFields
  <1>3. CASE Begin(q, "remove", d, "removing")
    BY <1>3, BeginFields
  <1> QED BY <1>1, <1>2, <1>3

LEMMA RefuseOK ==
  ASSUME RequestsTyped, NEW q \in Requests, NEW kind \in Kind, NEW d \in Documents,
         NEW code \in Reply, Refuse(q, kind, d, code)
  PROVE  RequestsTyped'
  BY RefuseFields DEF RequestsTyped, RequestsOK, Others

\* A run, its document's status and its queue entry, written with legal values.
LEMMA TablesWrite ==
  ASSUME TablesTyped, NEW d \in Documents, NEW n \in Attempts
  PROVE  /\ \A s \in RunStatus :
              [run EXCEPT ![d][n] = s] \in [Documents -> [Attempts -> RunStatus \union {"none"}]]
         /\ \A s \in DocumentStatus \union {"absent"} :
              [document EXCEPT ![d] = s] \in [Documents -> DocumentStatus \union {"absent"}]
         /\ \A k \in Nat :
              [ready EXCEPT ![d][n] = @ + k] \in [Documents -> [Attempts -> Nat]]
         /\ [pages EXCEPT ![d][n] = @ + 1] \in [Documents -> [Attempts -> Nat]]
  <1> USE DEF TablesTyped
  <1>1. \A s \in RunStatus :
          [run EXCEPT ![d][n] = s] \in [Documents -> [Attempts -> RunStatus \union {"none"}]]
    OBVIOUS
  <1>2. \A s \in DocumentStatus \union {"absent"} :
          [document EXCEPT ![d] = s] \in [Documents -> DocumentStatus \union {"absent"}]
    OBVIOUS
  <1>3. \A k \in Nat :
          [ready EXCEPT ![d][n] = @ + k] \in [Documents -> [Attempts -> Nat]]
    OBVIOUS
  <1>4. [pages EXCEPT ![d][n] = @ + 1] \in [Documents -> [Attempts -> Nat]]
    OBVIOUS
  <1> QED BY <1>1, <1>2, <1>3, <1>4

LEMMA MarkRunFailedTables ==
  ASSUME TypeInv, NEW d \in Documents, NEW n \in Attempts,
         NEW readFailed \in SUBSET FailureRow, MarkRunFailed(d, n, readFailed),
         UNCHANGED <<object, ready, redeliveries, dbErrors>>
  PROVE  TablesTyped'
  <1>1. TablesTyped /\ TypeOK
    BY TypeInvParts DEF TypeInv
  <1>2. "failed" \in RunStatus /\ "failed" \in DocumentStatus \union {"absent"}
    BY DEF RunStatus, DocumentStatus
  <1>3. run' \in [Documents -> [Attempts -> RunStatus \union {"none"}]]
    <2>1. run' = run \/ run' = [run EXCEPT ![d][n] = "failed"]
      BY <1>1, MarkRunFailedFields
    <2>2. run' = [run EXCEPT ![d][n] = "failed"] =>
             run' \in [Documents -> [Attempts -> RunStatus \union {"none"}]]
      BY <1>1, <1>2, TablesWrite
    <2> QED BY <1>1, <2>1, <2>2 DEF TablesTyped
  <1>4. document' \in [Documents -> DocumentStatus \union {"absent"}]
    <2>1. document' = document \/ document' = [document EXCEPT ![d] = "failed"]
      BY <1>1, MarkRunFailedFields
    <2>2. document' = [document EXCEPT ![d] = "failed"] =>
             document' \in [Documents -> DocumentStatus \union {"absent"}]
      BY <1>1, <1>2, TablesWrite
    <2> QED BY <1>1, <2>1, <2>2 DEF TablesTyped
  <1>5. pages' = pages
    BY DEF MarkRunFailed
  <1>6. halfFailed' \in SUBSET Documents
    <2>1. halfFailed' \in {halfFailed, halfFailed \ {d}, halfFailed \union {d}}
      BY <1>1, MarkRunFailedFields
    <2>2. halfFailed \in SUBSET Documents
      BY <1>1 DEF TablesTyped
    <2> QED BY <2>1, <2>2
  <1>7. UNCHANGED <<pages, object, ready, redeliveries, dbErrors>>
    BY <1>5
  <1> QED BY <1>1, <1>3, <1>4, <1>6, <1>7 DEF TablesTyped

LEMMA UploadTypeInv ==
  ASSUME TypeInv, NEW q \in Requests, UploadStep(q)
  PROVE  TypeInv'
  <1>t. RequestsTyped /\ TablesTyped /\ WorkersTyped
    BY TypeInvParts
  <1>w. WorkersTyped'
    BY <1>t DEF UploadStep, StoreUpload, StoreUploadFails, InsertDocument,
       InsertDocumentFails, RefreshDocument, RefreshDocumentFails,
       RemoveStoredUpload, OnlyRequestMoves, WorkersTyped, WorkersOK
  <1>d. request[q].pc # "idle" => request[q].doc \in Documents
    BY <1>t DEF RequestsTyped, RequestsOK
  <1>p. TablesTyped'
    <2> USE <1>t, <1>d, BoundsAssumption DEF TablesTyped, tables, DocumentStatus,
        OnlyRequestMoves
    <2>1. ASSUME NEW d \in Documents, StoreUpload(q, d) PROVE TablesTyped'
      BY <2>1 DEF StoreUpload
    <2>2. ASSUME NEW d \in Documents, StoreUploadFails(q, d) PROVE TablesTyped'
      BY <2>2 DEF StoreUploadFails
    <2>3. CASE InsertDocument(q)
      BY <2>3 DEF InsertDocument
    <2>4. CASE InsertDocumentFails(q)
      BY <2>4 DEF InsertDocumentFails
    <2>5. CASE RefreshDocument(q)
      BY <2>5 DEF RefreshDocument
    <2>6. CASE RefreshDocumentFails(q)
      BY <2>6 DEF RefreshDocumentFails
    <2>7. CASE RemoveStoredUpload(q)
      BY <2>7 DEF RemoveStoredUpload
    <2> QED BY <2>1, <2>2, <2>3, <2>4, <2>5, <2>6, <2>7 DEF UploadStep
  <1>q. RequestsTyped'
    <2> USE <1>t DEF Kind, Reply, RequestStep
    <2>1. ASSUME NEW d \in Documents, StoreUpload(q, d) PROVE RequestsTyped'
      BY <2>1, BeginOK DEF StoreUpload
    <2>2. ASSUME NEW d \in Documents, StoreUploadFails(q, d) PROVE RequestsTyped'
      BY <2>2, RefuseOK DEF StoreUploadFails
    <2>3. CASE InsertDocument(q)
      BY <2>3, RequestGoesOK DEF InsertDocument, RequestsTyped, RequestsOK
    <2>4. CASE InsertDocumentFails(q)
      BY <2>4, RequestGoesOK DEF InsertDocumentFails, RequestsTyped, RequestsOK
    <2>5. CASE RefreshDocument(q)
      BY <2>5, RespondOK DEF RefreshDocument
    <2>6. CASE RefreshDocumentFails(q)
      BY <2>6, RequestGoesOK DEF RefreshDocumentFails, RequestsTyped, RequestsOK
    <2>7. CASE RemoveStoredUpload(q)
      BY <2>7, RespondOK DEF RemoveStoredUpload
    <2> QED BY <2>1, <2>2, <2>3, <2>4, <2>5, <2>6, <2>7 DEF UploadStep
  <1> QED BY <1>w, <1>p, <1>q, TypeInvParts, PTL

LEMMA ProcessTypeInv ==
  ASSUME TypeInv, NEW q \in Requests, ProcessStep(q)
  PROVE  TypeInv'
  <1>t. RequestsTyped /\ TablesTyped /\ WorkersTyped
    BY TypeInvParts
  <1>w. WorkersTyped'
    BY <1>t DEF ProcessStep, CheckProcess, LockDocument, CreateRun, EnqueueTask,
       EnqueueTaskFails, ReadUndoneRun, ReadUndoneDocument, UndoCreateRun,
       ProcessFails, OnlyRequestMoves, WorkersTyped, WorkersOK
  <1>d. request[q].pc # "idle" => request[q].doc \in Documents
    BY <1>t DEF RequestsTyped, RequestsOK
  <1>a. request[q].pc \in {"locked", "created", "undo", "undoRead", "undoMark"} =>
           request[q].attempt \in Attempts
    BY <1>t DEF RequestsTyped, RequestsOK
  <1>c. request[q].pc = "locked" =>
           [run EXCEPT ![request[q].doc][request[q].attempt] = "queued"]
              \in [Documents -> [Attempts -> RunStatus \union {"none"}]]
    BY <1>t, <1>d, <1>a, TablesWrite DEF RunStatus
  <1>p. TablesTyped'
    <2> USE <1>t, <1>d, <1>a, BoundsAssumption
        DEF TablesTyped, tables, DocumentStatus, RunStatus, OnlyRequestMoves
    <2>1. ASSUME NEW d \in Documents, CheckProcess(q, d) PROVE TablesTyped'
      BY <2>1 DEF CheckProcess
    <2>2. CASE LockDocument(q)
      BY <2>2 DEF LockDocument
    <2>3. CASE CreateRun(q)
      <3>1. CASE run[request[q].doc][request[q].attempt] = "none"
        <4>1. run' \in [Documents -> [Attempts -> RunStatus \union {"none"}]]
          BY <2>3, <3>1, <1>c DEF CreateRun
        <4> QED BY <2>3, <3>1, <4>1 DEF CreateRun
      <3>2. CASE run[request[q].doc][request[q].attempt] # "none"
        BY <2>3, <3>2 DEF CreateRun
      <3> QED BY <3>1, <3>2
    <2>4. CASE EnqueueTask(q)
      BY <2>4, TablesWrite DEF EnqueueTask
    <2>5. CASE EnqueueTaskFails(q)
      BY <2>5, TablesWrite DEF EnqueueTaskFails
    <2>6. CASE UndoCreateRun(q)
      <3>1. request[q].readFailed \in SUBSET FailureRow
        BY DEF RequestsTyped, RequestRecord
      <3> QED BY <2>6, <3>1, MarkRunFailedTables DEF UndoCreateRun
    <2>8. CASE ReadUndoneRun(q) \/ ReadUndoneDocument(q)
      BY <2>8 DEF ReadUndoneRun, ReadUndoneDocument
    <2>7. CASE ProcessFails(q)
      BY <2>7 DEF ProcessFails
    <2> QED BY <2>1, <2>2, <2>3, <2>4, <2>5, <2>6, <2>7, <2>8 DEF ProcessStep
  <1>q. RequestsTyped'
    <2> USE <1>t DEF Kind, Reply, RequestStep
    <2>1. ASSUME NEW d \in Documents, CheckProcess(q, d) PROVE RequestsTyped'
      BY <2>1, BeginOK, RefuseOK DEF CheckProcess
    <2>2. CASE LockDocument(q)
      <3>1. CASE Exists(request[q].doc)
        <4>1. PICK n \in Attempts :
                 request' = [request EXCEPT ![q].pc = "locked", ![q].attempt = n]
          BY <2>2, <3>1 DEF LockDocument
        <4>2. n \in 0 .. MaxAttempts
          BY BoundsAssumption DEF Attempts
        <4>3. [request[q] EXCEPT !.pc = "locked", !.attempt = n] \in RequestRecord
          BY <4>2 DEF RequestsTyped, RequestRecord
        <4>4. /\ request' \in [Requests -> RequestRecord]
              /\ request'[q].pc = "locked" /\ request'[q].attempt = n
              /\ request'[q].doc = request[q].doc /\ request'[q].kind = request[q].kind
              /\ request'[q].readFailed = request[q].readFailed
              /\ Others(q)
          BY <4>1, <4>3 DEF RequestsTyped, RequestRecord, Others
        <4> QED BY <2>2, <4>4 DEF LockDocument, RequestsTyped, RequestsOK, Others
      <3>2. CASE ~Exists(request[q].doc)
        BY <2>2, <3>2, RespondOK DEF LockDocument
      <3> QED BY <3>1, <3>2
    <2>3. CASE CreateRun(q)
      BY <2>3, RespondOK, RequestGoesOK DEF CreateRun, RequestsTyped, RequestsOK
    <2>4. CASE EnqueueTask(q)
      BY <2>4, RespondOK DEF EnqueueTask
    <2>5. CASE EnqueueTaskFails(q)
      BY <2>5, RequestGoesOK DEF EnqueueTaskFails, RequestsTyped, RequestsOK
    <2>6. CASE UndoCreateRun(q)
      BY <2>6, RespondOK DEF UndoCreateRun
    <2>8. CASE ReadUndoneRun(q) \/ ReadUndoneDocument(q)
      <3>1. CASE ReadUndoneRun(q) /\ run[request[q].doc][request[q].attempt] = "none"
        BY <3>1, RespondOK DEF ReadUndoneRun
      <3>2. CASE \/ ReadUndoneRun(q) /\ run[request[q].doc][request[q].attempt] # "none"
                 \/ ReadUndoneDocument(q)
        <4>1. PICK step \in {"undoRead", "undoMark"}, known \in SUBSET FailureRow :
                 /\ request[q].pc \in {"undo", "undoRead"}
                 /\ request' = [request EXCEPT ![q].pc = step, ![q].readFailed = known]
          BY <3>2, UndoReads DEF RequestsTyped
        <4> QED BY <4>1, RequestReadsOK
      <3> QED BY <2>8, <3>1, <3>2
    <2>7. CASE ProcessFails(q)
      BY <2>7, RespondOK DEF ProcessFails
    <2> QED BY <2>1, <2>2, <2>3, <2>4, <2>5, <2>6, <2>7, <2>8 DEF ProcessStep
  <1> QED BY <1>w, <1>p, <1>q, TypeInvParts, PTL

LEMMA RemoveTypeInv ==
  ASSUME TypeInv, NEW q \in Requests, RemoveStep(q) \/ ApiCrash(q)
  PROVE  TypeInv'
  <1>t. RequestsTyped /\ TablesTyped /\ WorkersTyped
    BY TypeInvParts
  <1>w. WorkersTyped'
    BY <1>t DEF RemoveStep, CheckRemove, DeleteObject, DeleteObjectFails,
       DeleteDocument, DeleteDocumentFails, ApiCrash, OnlyRequestMoves, WorkersTyped,
       WorkersOK
  <1>d. request[q].pc # "idle" => request[q].doc \in Documents
    BY <1>t DEF RequestsTyped, RequestsOK
  <1>p. TablesTyped'
    <2> USE <1>t, <1>d, BoundsAssumption
        DEF TablesTyped, tables, DocumentStatus, RunStatus, OnlyRequestMoves
    <2>1. ASSUME NEW d \in Documents, CheckRemove(q, d) PROVE TablesTyped'
      BY <2>1 DEF CheckRemove
    <2>2. CASE DeleteObject(q)
      BY <2>2 DEF DeleteObject
    <2>3. CASE DeleteObjectFails(q)
      BY <2>3 DEF DeleteObjectFails
    <2>4. CASE DeleteDocument(q)
      BY <2>4 DEF DeleteDocument
    <2>5. CASE DeleteDocumentFails(q)
      BY <2>5 DEF DeleteDocumentFails
    <2>6. CASE ApiCrash(q)
      BY <2>6 DEF ApiCrash
    <2> QED BY <2>1, <2>2, <2>3, <2>4, <2>5, <2>6 DEF RemoveStep
  <1>q. RequestsTyped'
    <2> USE <1>t DEF Kind, Reply, RequestStep
    <2>1. ASSUME NEW d \in Documents, CheckRemove(q, d) PROVE RequestsTyped'
      BY <2>1, BeginOK, RefuseOK DEF CheckRemove
    <2>2. CASE DeleteObject(q)
      BY <2>2, RequestGoesOK DEF DeleteObject, RequestsTyped, RequestsOK
    <2>3. CASE DeleteObjectFails(q)
      BY <2>3, RespondOK DEF DeleteObjectFails
    <2>4. CASE DeleteDocument(q)
      BY <2>4, RespondOK DEF DeleteDocument
    <2>5. CASE DeleteDocumentFails(q)
      BY <2>5, RespondOK DEF DeleteDocumentFails
    <2>6. CASE ApiCrash(q)
      <3>1. request[q].pc # "idle"
        BY <2>6 DEF ApiCrash
      <3> QED BY <2>6, <3>1, ApiCrashFields DEF RequestsTyped, RequestsOK, Others
    <2> QED BY <2>1, <2>2, <2>3, <2>4, <2>5, <2>6 DEF RemoveStep
  <1> QED BY <1>w, <1>p, <1>q, TypeInvParts, PTL

\* A worker that goes on with its task keeps the task.
LEMMA WorkerGoesOK ==
  ASSUME WorkersTyped, NEW w \in Workers, NEW step \in WorkerStep,
         WorkerGoes(w, step), worker[w].pc \notin {"idle", "failing", "marking"}
  PROVE  WorkersTyped'
  BY WorkerGoesFields DEF WorkersTyped, WorkersOK, OtherWorkers

LEMMA HandlerMovesOK ==
  ASSUME WorkersTyped, NEW w \in Workers, HandlerMoves(w), worker[w].pc # "idle"
  PROVE  WorkersTyped'
  BY DEF WorkersTyped, WorkersOK, HandlerMoves, OtherWorkers

LEMMA WorkerIdleOK ==
  ASSUME WorkersTyped, NEW w \in Workers, worker' = [worker EXCEPT ![w] = IdleWorker]
  PROVE  WorkersTyped'
  BY BoundsAssumption
     DEF WorkersTyped, WorkersOK, IdleWorker, WorkerRecord, WorkerStep

\* The steps of the worker's failure handler.
LEMMA HandlerSteps ==
  ASSUME WorkersTyped, NEW w \in Workers,
         \/ RefreshRunRaises(w) \/ AttemptRaises(w) \/ ReadFailedDocument(w)
         \/ FailRun(w) \/ FailRunErrs(w)
  PROVE  HandlerMoves(w)
  <1> USE DEF WorkersTyped
  <1>1. CASE RefreshRunRaises(w) \/ AttemptRaises(w)
    <2>1. ReadFailedRun(w) /\ worker[w].readFailed = {}
      BY <1>1 DEF RefreshRunRaises, AttemptRaises, WorkersOK
    <2> QED BY <2>1, ReadFailedRunMoves
  <1>2. CASE ReadFailedDocument(w)
    BY <1>2, ReadFailedDocumentMoves
  <1>3. CASE FailRun(w) \/ FailRunErrs(w)
    <2>1. WorkerGivesUp(w)
      BY <1>3 DEF FailRun, FailRunErrs
    <2> QED BY <2>1, WorkerGivesUpMoves
  <1> QED BY <1>1, <1>2, <1>3

LEMMA WorkerTypeInv ==
  ASSUME TypeInv, NEW w \in Workers, TaskStep(w) \/ FaultStep(w)
  PROVE  TypeInv'
  <1>t. RequestsTyped /\ TablesTyped /\ WorkersTyped
    BY TypeInvParts
  <1>q. RequestsTyped'
    BY <1>t DEF TaskStep, FaultStep, ReceiveTask, SkipRun, StartRun, StartRunErrs,
       Extract, ReplacePages, FlushPages, CompleteRun, RefreshRun, RefreshRunRaises,
       AttemptRaises, ExtractRaises, ReadFailedDocument, FailRun, FailRunErrs, AckTask,
       WorkerLost, TaskTimesOut, OnlyWorkerMoves, RequestsTyped, RequestsOK
  <1>d. worker[w].pc # "idle" =>
           worker[w].doc \in Documents /\ worker[w].attempt \in Attempts
    BY <1>t DEF WorkersTyped, WorkersOK
  <1>r. worker[w].pc # "idle" =>
           [ready EXCEPT ![worker[w].doc][worker[w].attempt] = @ + 1]
              \in [Documents -> [Attempts -> Nat]]
    BY <1>t, <1>d, TablesWrite
  <1>p. TablesTyped'
    <2> USE <1>t, <1>d, BoundsAssumption
        DEF TablesTyped, tables, DocumentStatus, RunStatus, OnlyWorkerMoves
    <2>1. ASSUME NEW d \in Documents, NEW n \in Attempts, ReceiveTask(w, d, n)
          PROVE  TablesTyped'
      <3>1. ready'  \in [Documents -> [Attempts -> Nat]]
        BY <2>1 DEF ReceiveTask
      <3> QED BY <2>1, <3>1 DEF ReceiveTask
    <2>2. CASE SkipRun(w) \/ Extract(w) \/ ReplacePages(w) \/ FlushPages(w)
                 \/ RefreshRun(w) \/ AttemptRaises(w) \/ ExtractRaises(w)
                 \/ ReadFailedDocument(w) \/ AckTask(w)
      BY <2>2 DEF SkipRun, Extract, ReplacePages, FlushPages, RefreshRun, AttemptRaises,
         ExtractRaises, ReadFailedDocument, AckTask
    <2>3. CASE StartRun(w)
      BY <2>3 DEF StartRun
    <2>4. CASE CompleteRun(w)
      BY <2>4 DEF CompleteRun
    <2>5. CASE FailRun(w)
      <3>1. worker[w].readFailed \in SUBSET FailureRow
        BY DEF WorkersTyped, WorkerRecord
      <3> QED BY <2>5, <3>1, MarkRunFailedTables DEF FailRun
    <2>6. CASE StartRunErrs(w) \/ FailRunErrs(w) \/ RefreshRunRaises(w)
      BY <2>6 DEF StartRunErrs, FailRunErrs, RefreshRunRaises
    <2>7. CASE WorkerLost(w) \/ TaskTimesOut(w)
      <3>1. ready' \in [Documents -> [Attempts -> Nat]]
        BY <2>7, <1>r DEF WorkerLost, TaskTimesOut, CanRedeliver
      <3>2. redeliveries' \in 0 .. MaxRedeliveries
        BY <2>7 DEF WorkerLost, TaskTimesOut, CanRedeliver
      <3> QED BY <2>7, <3>1, <3>2 DEF WorkerLost, TaskTimesOut
    <2> QED BY <2>1, <2>2, <2>3, <2>4, <2>5, <2>6, <2>7 DEF TaskStep, FaultStep
  <1>w. WorkersTyped'
    <2> USE <1>t DEF WorkerStep
    <2>1. ASSUME NEW d \in Documents, NEW n \in Attempts, ReceiveTask(w, d, n)
          PROVE  WorkersTyped'
      <3>1. n \in 0 .. MaxAttempts
        BY BoundsAssumption DEF Attempts
      <3>2. [pc |-> "received", doc |-> d, attempt |-> n, seen |-> 0, readFailed |-> {}]
                 \in WorkerRecord
        BY <3>1 DEF WorkerRecord
      <3> QED BY <2>1, <3>2 DEF ReceiveTask, WorkersTyped, WorkersOK
    <2>2. CASE ReplacePages(w)
      <3>1. pages[worker[w].doc][worker[w].attempt] \in Nat
        BY <2>2, <1>d DEF ReplacePages, TablesTyped
      <3>2. [worker[w] EXCEPT !.pc = "replaced",
               !.seen = pages[worker[w].doc][worker[w].attempt]] \in WorkerRecord
        BY <3>1 DEF WorkersTyped, WorkerRecord
      <3> QED BY <2>2, <3>2, <1>d DEF ReplacePages, WorkersTyped, WorkersOK, WorkerRecord
    <2>3. CASE SkipRun(w) \/ StartRun(w) \/ Extract(w) \/ FlushPages(w) \/ CompleteRun(w)
                 \/ RefreshRun(w) \/ ExtractRaises(w) \/ StartRunErrs(w)
      BY <2>3, WorkerGoesOK DEF SkipRun, StartRun, Extract, FlushPages, CompleteRun,
         RefreshRun, ExtractRaises, StartRunErrs
    <2>6. CASE RefreshRunRaises(w) \/ AttemptRaises(w) \/ ReadFailedDocument(w)
                 \/ FailRun(w) \/ FailRunErrs(w)
      <3>1. HandlerMoves(w)
        BY <2>6, HandlerSteps
      <3>2. worker[w].pc # "idle"
        BY <2>6 DEF RefreshRunRaises, AttemptRaises, ReadFailedDocument, FailRun, FailRunErrs
      <3> QED BY <3>1, <3>2, HandlerMovesOK
    <2>4. CASE AckTask(w) \/ WorkerLost(w)
      BY <2>4, WorkerIdleOK DEF AckTask, WorkerLost
    <2>5. CASE TaskTimesOut(w)
      BY <2>5 DEF TaskTimesOut, WorkersTyped, WorkersOK
    <2> QED BY <2>1, <2>2, <2>3, <2>4, <2>5, <2>6 DEF TaskStep, FaultStep
  <1> QED BY <1>w, <1>p, <1>q, TypeInvParts, PTL

LEMMA NextTypeInv == TypeInv /\ [Next]_vars => TypeInv'
  <1> SUFFICES ASSUME TypeInv, [Next]_vars PROVE TypeInv'
    OBVIOUS
  <1>1. ASSUME NEW q \in Requests,
               UploadStep(q) \/ ProcessStep(q) \/ RemoveStep(q) \/ ApiCrash(q)
        PROVE  TypeInv'
    BY <1>1, UploadTypeInv, ProcessTypeInv, RemoveTypeInv
  <1>2. ASSUME NEW w \in Workers, TaskStep(w) \/ FaultStep(w) PROVE TypeInv'
    BY <1>2, WorkerTypeInv
  <1>3. CASE UNCHANGED vars
    BY <1>3 DEF vars, TypeInv, TypeOK, RequestsOK, WorkersOK
  <1> QED BY <1>1, <1>2, <1>3 DEF Next, Rest

\* Every request and every worker always works on a document and an attempt
\* that fit the handler it is in.
THEOREM SpecTypeInv == Spec => []TypeInv
  BY InitTypeInv, NextTypeInv, PTL DEF Spec

\* No handler, in any interleaving, leaves a status, a counter or a record
\* outside its type.
THEOREM SpecTypeOK == Spec => []TypeOK
  BY SpecTypeInv, PTL DEF TypeInv

-----------------------------------------------------------------------------
(***************************************************************************)
(* The rows the pipeline writes. StoreInv relates the tables to each other *)
(* and to those who are about to write them: the request that holds a      *)
(* document's row lock and the worker that has inserted pages. Neither     *)
(* fact is visible in the tables alone, and without them no invariant of   *)
(* the tables is inductive: the insert of a run and the completion of a    *)
(* run both write blindly.                                                 *)
(***************************************************************************)

\* At most one request is between SELECT ... FOR UPDATE and commit, per document.
LockIsExclusive ==
    \A q, r \in Requests :
        /\ request[q].pc = "locked" /\ request[r].pc = "locked"
        /\ request[q].doc = request[r].doc
        => q = r

\* What the request read under the lock is still so.
LockedIsCurrent ==
    \A q \in Requests :
        request[q].pc = "locked" =>
            /\ Exists(request[q].doc)
            /\ IsNextAttempt(request[q].doc, request[q].attempt)

\* The key share lock of the inserted pages keeps their run.
FlushedHasRun ==
    \A w \in Workers :
        worker[w].pc = "flushed" => run[worker[w].doc][worker[w].attempt] # "none"

StoreInv ==
    /\ LockIsExclusive
    /\ LockedIsCurrent
    /\ FlushedHasRun
    /\ NothingOutlivesDocument
    /\ CompletedRunHasPages
    /\ StatusBackedByRuns

LEMMA NextAttemptIsFree ==
  ASSUME NEW d \in Documents, NEW n \in Attempts, IsNextAttempt(d, n)
  PROVE  run[d][n] = "none"
  <1>1. n >= n
    BY AttemptsAreNat
  <1> QED BY <1>1 DEF IsNextAttempt

LEMMA InitStoreInv == Init => StoreInv
  BY DEF Init, StoreInv, LockIsExclusive, LockedIsCurrent, FlushedHasRun, NewRequest,
     IdleWorker, NothingOutlivesDocument, CompletedRunHasPages, StatusBackedByRuns,
     Exists

-----------------------------------------------------------------------------
\* Steps that leave the rows alone.

LocksKept ==
    \A r \in Requests : request'[r].pc = "locked" => request'[r] = request[r]

FlushesKept ==
    \A v \in Workers : worker'[v].pc = "flushed" => worker'[v] = worker[v]

LEMMA RequestGoesKeepsLocks ==
  ASSUME TypeInv, NEW q \in Requests, NEW step \in RequestStep \ {"locked"},
         RequestGoes(q, step)
  PROVE  LocksKept
  BY RequestGoesFields DEF TypeInv, TypeOK, LocksKept, Others

LEMMA RespondKeepsLocks ==
  ASSUME TypeInv, NEW q \in Requests, NEW code \in Reply, Respond(q, code)
  PROVE  LocksKept
  BY RespondFields DEF TypeInv, TypeOK, LocksKept, Others

LEMMA ApiCrashKeepsLocks ==
  ASSUME TypeInv, NEW q \in Requests, ApiCrash(q)
  PROVE  LocksKept
  BY ApiCrashFields DEF TypeInv, TypeOK, LocksKept, Others

LEMMA UndoReadsKeepLocks ==
  ASSUME TypeInv, NEW q \in Requests, ReadUndoneRun(q) \/ ReadUndoneDocument(q)
  PROVE  LocksKept
  <1>1. request \in [Requests -> RequestRecord]
    BY DEF TypeInv, TypeOK
  <1>2. CASE ReadUndoneRun(q) /\ run[request[q].doc][request[q].attempt] = "none"
    BY <1>2, RespondKeepsLocks DEF ReadUndoneRun, Reply
  <1>3. CASE \/ ReadUndoneRun(q) /\ run[request[q].doc][request[q].attempt] # "none"
             \/ ReadUndoneDocument(q)
    <2>1. PICK step \in {"undoRead", "undoMark"}, known \in SUBSET FailureRow :
             request' = [request EXCEPT ![q].pc = step, ![q].readFailed = known]
      BY <1>1, <1>3, UndoReads
    <2>2. step \in RequestStep
      BY DEF RequestStep
    <2>3. request'[q].pc = step /\ Others(q)
      BY <1>1, <2>1, <2>2, RequestReadsFields
    <2> QED BY <2>3 DEF LocksKept, Others
  <1> QED BY <1>2, <1>3

LEMMA BeginKeepsLocks ==
  ASSUME TypeInv, NEW q \in Requests, NEW kind \in Kind, NEW d \in Documents,
         NEW step \in RequestStep \ {"locked"}, Begin(q, kind, d, step)
  PROVE  LocksKept
  BY BeginFields DEF TypeInv, TypeOK, LocksKept, Others

LEMMA RefuseKeepsLocks ==
  ASSUME TypeInv, NEW q \in Requests, NEW kind \in Kind, NEW d \in Documents,
         NEW code \in Reply, Refuse(q, kind, d, code)
  PROVE  LocksKept
  BY RefuseFields DEF TypeInv, TypeOK, LocksKept, Others

LEMMA WorkerGoesKeepsFlushes ==
  ASSUME TypeInv, NEW w \in Workers, NEW step \in WorkerStep \ {"flushed"},
         WorkerGoes(w, step)
  PROVE  FlushesKept
  BY WorkerGoesFields DEF TypeInv, TypeOK, FlushesKept, OtherWorkers

LEMMA HandlerKeepsFlushes ==
  ASSUME TypeInv, NEW w \in Workers, HandlerMoves(w)
  PROVE  FlushesKept
  BY DEF HandlerMoves, FlushesKept, OtherWorkers

LEMMA StoreFrame ==
  ASSUME StoreInv, UNCHANGED tables, LocksKept, FlushesKept
  PROVE  StoreInv'
  <1> USE DEF StoreInv, tables
  <1>1. LockIsExclusive'
    BY DEF LockIsExclusive, LocksKept
  <1>2. LockedIsCurrent'
    BY DEF LockedIsCurrent, LocksKept, Exists, IsNextAttempt
  <1>3. FlushedHasRun'
    BY DEF FlushedHasRun, FlushesKept
  <1>4. NothingOutlivesDocument' /\ CompletedRunHasPages' /\ StatusBackedByRuns'
    BY DEF NothingOutlivesDocument, CompletedRunHasPages, StatusBackedByRuns, Exists,
       HasActiveRun
  <1> QED BY <1>1, <1>2, <1>3, <1>4

-----------------------------------------------------------------------------
\* Steps that write a run's status together with its document's.

\* The statuses that the code commits together.
StatusPair ==
    {<<"queued", "queued">>, <<"running", "processing">>,
     <<"completed", "processed">>, <<"failed", "failed">>}

LEMMA WriteRun ==
  ASSUME TypeInv, StoreInv, NEW d \in Documents, NEW n \in Attempts,
         NEW s \in RunStatus, NEW t \in DocumentStatus, Exists(d),
         run' = [run EXCEPT ![d][n] = s] \/ (s # "completed" /\ run' = run),
         document' \in {document, [document EXCEPT ![d] = t]},
         \/ pages' = [pages EXCEPT ![d][n] = @ + 1] /\ s = "completed"
         \/ pages' = pages /\ s # "completed",
         \A e \in Documents \ {d} : e \in halfFailed => e \in halfFailed',
         d \notin halfFailed' => <<run'[d][n], document'[d]>> \in StatusPair,
         LocksKept, FlushesKept,
         \/ run[d][n] # "none"
         \/ \A r \in Requests : request'[r].pc = "locked" => request'[r].doc # d
  PROVE  StoreInv'
  <1>1. /\ document \in [Documents -> DocumentStatus \union {"absent"}]
        /\ run \in [Documents -> [Attempts -> RunStatus \union {"none"}]]
        /\ pages \in [Documents -> [Attempts -> Nat]]
    BY DEF TypeInv, TypeOK
  <1>2. /\ run'[d][n] = s \/ (s # "completed" /\ run'[d][n] = run[d][n])
        /\ \A e \in Documents, m \in Attempts : e # d \/ m # n => run'[e][m] = run[e][m]
    BY <1>1
  <1>3. /\ document'[d] \in {t, document[d]}
        /\ \A e \in Documents \ {d} : document'[e] = document[e]
    BY <1>1
  <1>4. /\ pages'[d][n] \in Nat /\ pages'[d][n] >= pages[d][n]
        /\ s = "completed" => pages'[d][n] > 0
        /\ \A e \in Documents, m \in Attempts : e # d \/ m # n => pages'[e][m] = pages[e][m]
    BY <1>1
  <1>5. s # "none" /\ t # "absent"
    BY DEF RunStatus, DocumentStatus
  <1>7. \A e \in Documents : Exists(e) <=> Exists(e)'
    BY <1>3, <1>5 DEF Exists
  <1>8. \A r \in Requests : request'[r].pc = "locked" =>
           request'[r].doc \in Documents /\ request'[r].attempt \in Attempts
    BY DEF LocksKept, TypeInv, RequestsOK
  <1>9. \A v \in Workers : worker'[v].pc = "flushed" =>
           worker'[v].doc \in Documents /\ worker'[v].attempt \in Attempts
    BY DEF FlushesKept, TypeInv, WorkersOK
  <1>a. LockIsExclusive'
    BY DEF StoreInv, LockIsExclusive, LocksKept
  <1>b. LockedIsCurrent'
    <2> SUFFICES ASSUME NEW r \in Requests, request'[r].pc = "locked"
                 PROVE  /\ Exists(request[r].doc)'
                        /\ IsNextAttempt(request[r].doc, request[r].attempt)'
      BY DEF LockedIsCurrent
    <2>1. request'[r] = request[r] /\ request[r].pc = "locked"
      BY DEF LocksKept
    <2>2. /\ Exists(request[r].doc) /\ IsNextAttempt(request[r].doc, request[r].attempt)
          /\ request[r].doc \in Documents /\ request[r].attempt \in Attempts
      BY <2>1, <1>8 DEF StoreInv, LockedIsCurrent
    <2>3. Exists(request[r].doc)'
      BY <2>1, <2>2, <1>7 DEF Exists
    <2>4. IsNextAttempt(request[r].doc, request[r].attempt)'
      <3>1. CASE run[d][n] # "none"
        <4>1. \A m \in Attempts :
                 run'[request[r].doc][m] = "none" <=> run[request[r].doc][m] = "none"
          BY <3>1, <2>2, <1>2, <1>5
        <4>2. request[r].attempt > 1 => request[r].attempt - 1 \in Attempts
          BY <2>2, BoundsAssumption DEF Attempts
        <4> QED BY <4>1, <4>2, <2>1, <2>2 DEF IsNextAttempt
      <3>2. CASE \A x \in Requests : request'[x].pc = "locked" => request'[x].doc # d
        <4>1. run'[request[r].doc] = run[request[r].doc]
          BY <3>2, <2>1, <2>2, <1>1
        <4> QED BY <4>1, <2>1, <2>2 DEF IsNextAttempt
      <3> QED BY <3>1, <3>2
    <2> QED BY <2>3, <2>4
  <1>c. FlushedHasRun'
    BY <1>2, <1>5, <1>9 DEF StoreInv, FlushedHasRun, FlushesKept
  <1>d. NothingOutlivesDocument'
    <2> SUFFICES ASSUME NEW e \in Documents, NEW m \in Attempts
                 PROVE  /\ ~Exists(e)' => run'[e][m] = "none"
                        /\ run'[e][m] = "none" => pages'[e][m] = 0
      BY DEF NothingOutlivesDocument
    <2>1. /\ ~Exists(e) => run[e][m] = "none"
          /\ run[e][m] = "none" => pages[e][m] = 0
      BY DEF StoreInv, NothingOutlivesDocument
    <2>2. CASE e # d \/ m # n
      BY <2>1, <2>2, <1>2, <1>4, <1>7
    <2>3. CASE e = d /\ m = n
      <3>1. Exists(e)'
        BY <2>3, <1>7
      <3>2. CASE run' = [run EXCEPT ![d][n] = s]
        BY <2>3, <3>1, <3>2, <1>1, <1>5
      <3>3. CASE s # "completed" /\ run' = run
        BY <2>1, <3>1, <3>3
      <3> QED BY <3>2, <3>3
    <2> QED BY <2>2, <2>3
  <1>e. CompletedRunHasPages'
    BY <1>2, <1>4 DEF StoreInv, CompletedRunHasPages
  <1>f. StatusBackedByRuns'
    <2> SUFFICES ASSUME NEW e \in Documents, e \notin halfFailed'
                 PROVE  /\ document'[e] = "processed" =>
                              \E m \in Attempts : run'[e][m] = "completed"
                        /\ document'[e] \in {"queued", "processing"} => HasActiveRun(e)'
                        /\ document'[e] = "failed" =>
                              \E m \in Attempts : run'[e][m] = "failed"
      BY DEF StatusBackedByRuns
    <2>1. CASE e = d
      BY <2>1 DEF StatusPair, HasActiveRun, ActiveStatus
    <2>2. CASE e # d
      BY <2>2, <1>2, <1>3 DEF StoreInv, StatusBackedByRuns, HasActiveRun
    <2> QED BY <2>1, <2>2
  <1> QED BY <1>a, <1>b, <1>c, <1>d, <1>e, <1>f DEF StoreInv

\* mark_processing_run_failed, whoever calls it and whatever it has read.
LEMMA MarkRunFailedStore ==
  ASSUME TypeInv, StoreInv, NEW d \in Documents, NEW n \in Attempts,
         NEW readFailed \in SUBSET FailureRow, MarkRunFailed(d, n, readFailed),
         LocksKept, FlushesKept
  PROVE  StoreInv'
  <1>0. /\ pages' = pages
        /\ halfFailed' \in {halfFailed, halfFailed \ {d}, halfFailed \union {d}}
        /\ \/ run[d][n] = "none" /\ UNCHANGED <<run, document, halfFailed>>
           \/ /\ run[d][n] # "none"
              /\ run' = run \/ run' = [run EXCEPT ![d][n] = "failed"]
              /\ document' = document \/ document' = [document EXCEPT ![d] = "failed"]
              /\ d \in halfFailed'
                 \/ (run'[d][n] = "failed" /\ document'[d] = "failed")
                 \/ (UNCHANGED <<run, document, halfFailed>>)
    BY MarkRunFailedFields DEF TypeInv
  <1>1. CASE UNCHANGED <<run, document, halfFailed>>
    BY <1>0, <1>1, StoreFrame DEF tables
  <1>2. CASE ~UNCHANGED <<run, document, halfFailed>>
    <2>1. /\ run[d][n] # "none"
          /\ run' = run \/ run' = [run EXCEPT ![d][n] = "failed"]
          /\ document' = document \/ document' = [document EXCEPT ![d] = "failed"]
          /\ d \in halfFailed' \/ (run'[d][n] = "failed" /\ document'[d] = "failed")
      BY <1>0, <1>2
    <2>2. Exists(d)
      BY <2>1 DEF StoreInv, NothingOutlivesDocument
    <2>3. "failed" \in RunStatus /\ "failed" \in DocumentStatus
      BY DEF RunStatus, DocumentStatus
    <2>4. d \notin halfFailed' => <<run'[d][n], document'[d]>> \in StatusPair
      BY <2>1 DEF StatusPair
    <2>5. \A e \in Documents \ {d} : e \in halfFailed => e \in halfFailed'
      BY <1>0
    <2> QED BY <1>0, <2>1, <2>2, <2>3, <2>4, <2>5, WriteRun
  <1> QED BY <1>1, <1>2

-----------------------------------------------------------------------------
\* One lemma per endpoint, one for the worker.

LEMMA UploadStoreInv ==
  ASSUME TypeInv, StoreInv, NEW q \in Requests, UploadStep(q)
  PROVE  StoreInv'
  <1> USE DEF Kind, Reply, RequestStep
  <1>w. FlushesKept
    BY DEF FlushesKept, UploadStep, StoreUpload, StoreUploadFails, InsertDocument,
       InsertDocumentFails, RefreshDocument, RefreshDocumentFails, RemoveStoredUpload,
       OnlyRequestMoves
  <1>1. ASSUME NEW d \in Documents, StoreUpload(q, d) \/ StoreUploadFails(q, d)
        PROVE  StoreInv'
    BY <1>1, <1>w, BeginKeepsLocks, RefuseKeepsLocks, StoreFrame
       DEF StoreUpload, StoreUploadFails, OnlyRequestMoves
  <1>2. CASE InsertDocument(q)
    <2> DEFINE d == request[q].doc
    <2>1. LocksKept
      BY <1>2, RequestGoesKeepsLocks DEF InsertDocument
    <2>2. d \in Documents
      BY <1>2 DEF InsertDocument, TypeInv, RequestsOK
    <2>3. /\ document' = [document EXCEPT ![d] = "uploaded"]
          /\ run' = run /\ pages' = pages /\ halfFailed' = halfFailed
      BY <1>2 DEF InsertDocument
    <2>4. document'[d] = "uploaded" /\ \A e \in Documents \ {d} : document'[e] = document[e]
      BY <2>2, <2>3 DEF TypeInv, TypeOK
    <2>5. \A e \in Documents : Exists(e) => Exists(e)'
      BY <2>4 DEF Exists
    <2>6. \A r \in Requests : request'[r].pc = "locked" => request'[r].doc \in Documents
      BY <2>1 DEF LocksKept, TypeInv, RequestsOK
    <2>7. LockIsExclusive'
      BY <2>1 DEF StoreInv, LockIsExclusive, LocksKept
    <2>8. LockedIsCurrent'
      BY <2>1, <2>3, <2>5, <2>6
         DEF StoreInv, LockedIsCurrent, LocksKept, IsNextAttempt, Exists
    <2>9. FlushedHasRun'
      BY <2>3, <1>w DEF StoreInv, FlushedHasRun, FlushesKept
    <2>10. NothingOutlivesDocument' /\ CompletedRunHasPages'
      BY <2>3, <2>5 DEF StoreInv, NothingOutlivesDocument, CompletedRunHasPages
    <2>11. StatusBackedByRuns'
      BY <2>3, <2>4 DEF StoreInv, StatusBackedByRuns, HasActiveRun
    <2> QED BY <2>7, <2>8, <2>9, <2>10, <2>11 DEF StoreInv
  <1>3. CASE InsertDocumentFails(q) \/ RefreshDocumentFails(q)
    BY <1>3, <1>w, RequestGoesKeepsLocks, StoreFrame
       DEF InsertDocumentFails, RefreshDocumentFails
  <1>4. CASE RefreshDocument(q) \/ RemoveStoredUpload(q)
    BY <1>4, <1>w, RespondKeepsLocks, StoreFrame
       DEF RefreshDocument, RemoveStoredUpload, OnlyRequestMoves
  <1> QED BY <1>1, <1>2, <1>3, <1>4 DEF UploadStep

LEMMA LockDocumentStoreInv ==
  ASSUME TypeInv, StoreInv, NEW q \in Requests, LockDocument(q), Exists(request[q].doc)
  PROVE  StoreInv'
  <1> DEFINE d == request[q].doc
  <1>1. PICK n \in Attempts :
           /\ IsNextAttempt(d, n)
           /\ request' = [request EXCEPT ![q].pc = "locked", ![q].attempt = n]
    BY DEF LockDocument
  <1>2. /\ ~RowLocked(d)
        /\ UNCHANGED <<document, run, pages, halfFailed, worker>>
    BY DEF LockDocument, OnlyRequestMoves, tables
  <1>3. /\ request'[q].pc = "locked" /\ request'[q].doc = d /\ request'[q].attempt = n
        /\ Others(q)
    BY <1>1 DEF TypeInv, TypeOK, RequestRecord, Others
  <1>4. LockIsExclusive'
    BY <1>2, <1>3 DEF StoreInv, LockIsExclusive, RowLocked, Others
  <1>5. LockedIsCurrent'
    <2> SUFFICES ASSUME NEW r \in Requests, request'[r].pc = "locked"
                 PROVE  /\ Exists(request'[r].doc)
                        /\ IsNextAttempt(request'[r].doc, request'[r].attempt)
      BY <1>2 DEF LockedIsCurrent, Exists, IsNextAttempt
    <2>1. CASE r = q
      BY <2>1, <1>1, <1>3
    <2>2. CASE r # q
      BY <2>2, <1>3 DEF StoreInv, LockedIsCurrent, Others
    <2> QED BY <2>1, <2>2
  <1>6. /\ FlushedHasRun' /\ NothingOutlivesDocument'
        /\ CompletedRunHasPages' /\ StatusBackedByRuns'
    BY <1>2 DEF StoreInv, FlushedHasRun, NothingOutlivesDocument, CompletedRunHasPages,
       StatusBackedByRuns, Exists, HasActiveRun
  <1> QED BY <1>4, <1>5, <1>6 DEF StoreInv

LEMMA ProcessStoreInv ==
  ASSUME TypeInv, StoreInv, NEW q \in Requests, ProcessStep(q)
  PROVE  StoreInv'
  <1> USE DEF Kind, Reply, RequestStep
  <1>w. FlushesKept
    BY DEF FlushesKept, ProcessStep, CheckProcess, LockDocument, CreateRun, EnqueueTask,
       EnqueueTaskFails, ReadUndoneRun, ReadUndoneDocument, UndoCreateRun,
       ProcessFails, OnlyRequestMoves
  <1>d. request[q].pc \in {"locked", "created", "undo", "undoRead", "undoMark"} =>
           request[q].doc \in Documents /\ request[q].attempt \in Attempts
    BY DEF TypeInv, RequestsOK
  <1>1. ASSUME NEW d \in Documents, CheckProcess(q, d) PROVE StoreInv'
    BY <1>1, <1>w, BeginKeepsLocks, RefuseKeepsLocks, StoreFrame
       DEF CheckProcess, OnlyRequestMoves
  <1>2. CASE LockDocument(q)
    <2>1. CASE ~Exists(request[q].doc)
      BY <1>2, <2>1, <1>w, RespondKeepsLocks, StoreFrame DEF LockDocument, OnlyRequestMoves
    <2> QED BY <1>2, <2>1, LockDocumentStoreInv
  <1>3. CASE CreateRun(q)
    <2> DEFINE d == request[q].doc
               n == request[q].attempt
    <2>1. /\ d \in Documents /\ n \in Attempts /\ request[q].pc = "locked"
          /\ pages' = pages /\ ready' = ready
      BY <1>3, <1>d DEF CreateRun
    <2>2. Exists(d) /\ run[d][n] = "none"
      BY <2>1, NextAttemptIsFree DEF StoreInv, LockedIsCurrent
    <2>3. /\ run' = [run EXCEPT ![d][n] = "queued"]
          /\ document' = [document EXCEPT ![d] = "queued"]
          /\ halfFailed' = halfFailed \ {d}
          /\ RequestGoes(q, "created")
      BY <1>3, <2>2 DEF CreateRun
    <2>4. LocksKept
      BY <2>3, RequestGoesKeepsLocks
    <2>5. \A r \in Requests : request'[r].pc = "locked" => request'[r].doc # d
      <3>1. request'[q].pc = "created"
        BY <2>3, RequestGoesFields DEF TypeInv, TypeOK
      <3> QED BY <2>1, <2>4, <3>1 DEF LocksKept, StoreInv, LockIsExclusive
    <2>6. /\ "queued" \in RunStatus /\ "queued" \in DocumentStatus
          /\ <<run'[d][n], document'[d]>> \in StatusPair
      BY <2>1, <2>3 DEF StatusPair, RunStatus, DocumentStatus, TypeInv, TypeOK
    <2> HIDE DEF d, n
    <2> QED BY <2>1, <2>2, <2>3, <2>4, <2>5, <2>6, <1>w, WriteRun
  <1>4. CASE EnqueueTask(q)
    BY <1>4, <1>w, RespondKeepsLocks, StoreFrame DEF EnqueueTask
  <1>5. CASE EnqueueTaskFails(q)
    BY <1>5, <1>w, RequestGoesKeepsLocks, StoreFrame DEF EnqueueTaskFails
  <1>6. CASE UndoCreateRun(q)
    <2>1. request[q].readFailed \in SUBSET FailureRow
      BY DEF TypeInv, TypeOK, RequestRecord
    <2> QED BY <1>6, <2>1, <1>w, <1>d, RespondKeepsLocks, MarkRunFailedStore
           DEF UndoCreateRun
  <1>8. CASE ReadUndoneRun(q) \/ ReadUndoneDocument(q)
    BY <1>8, <1>w, UndoReadsKeepLocks, StoreFrame
       DEF ReadUndoneRun, ReadUndoneDocument, OnlyRequestMoves
  <1>7. CASE ProcessFails(q)
    BY <1>7, <1>w, RespondKeepsLocks, StoreFrame DEF ProcessFails
  <1> QED BY <1>1, <1>2, <1>3, <1>4, <1>5, <1>6, <1>7, <1>8 DEF ProcessStep

LEMMA RemoveStoreInv ==
  ASSUME TypeInv, StoreInv, NEW q \in Requests, RemoveStep(q) \/ ApiCrash(q)
  PROVE  StoreInv'
  <1> USE DEF Kind, Reply, RequestStep
  <1>w. FlushesKept
    BY DEF FlushesKept, RemoveStep, CheckRemove, DeleteObject, DeleteObjectFails,
       DeleteDocument, DeleteDocumentFails, ApiCrash, OnlyRequestMoves
  <1>1. ASSUME NEW d \in Documents, CheckRemove(q, d) PROVE StoreInv'
    BY <1>1, <1>w, BeginKeepsLocks, RefuseKeepsLocks, StoreFrame
       DEF CheckRemove, OnlyRequestMoves
  <1>2. CASE DeleteObject(q)
    BY <1>2, <1>w, RequestGoesKeepsLocks, StoreFrame DEF DeleteObject
  <1>3. CASE DeleteObjectFails(q) \/ DeleteDocumentFails(q) \/ ApiCrash(q)
    BY <1>3, <1>w, RespondKeepsLocks, ApiCrashKeepsLocks, StoreFrame
       DEF DeleteObjectFails, DeleteDocumentFails, ApiCrash, OnlyRequestMoves
  <1>4. CASE DeleteDocument(q)
    <2> DEFINE d == request[q].doc
    <2>1. /\ d \in Documents /\ ~RowLocked(d) /\ ~Pinned(d)
          /\ document' = [document EXCEPT ![d] = "absent"]
          /\ run' = [run EXCEPT ![d] = [n \in Attempts |-> "none"]]
          /\ pages' = [pages EXCEPT ![d] = [n \in Attempts |-> 0]]
          /\ halfFailed' = halfFailed \ {d} /\ worker' = worker
      BY <1>4 DEF DeleteDocument, TypeInv, RequestsOK
    <2>2. LocksKept
      BY <1>4, RespondKeepsLocks DEF DeleteDocument
    <2>3. /\ document'[d] = "absent"
          /\ \A n \in Attempts : run'[d][n] = "none" /\ pages'[d][n] = 0
          /\ \A e \in Documents \ {d} :
                document'[e] = document[e] /\ run'[e] = run[e] /\ pages'[e] = pages[e]
      BY <2>1 DEF TypeInv, TypeOK
    <2>4. \A r \in Requests : request'[r].pc = "locked" =>
             request'[r].doc \in Documents \ {d}
      BY <2>1, <2>2 DEF LocksKept, RowLocked, TypeInv, RequestsOK
    <2>5. \A w \in Workers : worker'[w].pc = "flushed" => worker'[w].doc \in Documents \ {d}
      BY <2>1 DEF Pinned, TypeInv, WorkersOK
    <2> HIDE DEF d
    <2>6. LockIsExclusive'
      BY <2>2 DEF StoreInv, LockIsExclusive, LocksKept
    <2>7. LockedIsCurrent'
      BY <2>2, <2>3, <2>4 DEF StoreInv, LockedIsCurrent, LocksKept, Exists, IsNextAttempt
    <2>8. FlushedHasRun'
      BY <2>1, <2>3, <2>5 DEF StoreInv, FlushedHasRun
    <2>9. NothingOutlivesDocument' /\ CompletedRunHasPages'
      BY <2>3 DEF StoreInv, NothingOutlivesDocument, CompletedRunHasPages, Exists
    <2>10. StatusBackedByRuns'
      BY <2>1, <2>3 DEF StoreInv, StatusBackedByRuns, HasActiveRun
    <2> QED BY <2>6, <2>7, <2>8, <2>9, <2>10 DEF StoreInv
  <1> QED BY <1>1, <1>2, <1>3, <1>4 DEF RemoveStep

LEMMA WorkerStoreInv ==
  ASSUME TypeInv, StoreInv, NEW w \in Workers, TaskStep(w) \/ FaultStep(w)
  PROVE  StoreInv'
  <1> USE DEF WorkerStep
  <1>q. LocksKept
    BY DEF LocksKept, TaskStep, FaultStep, ReceiveTask, SkipRun, StartRun, StartRunErrs,
       Extract, ReplacePages, FlushPages, CompleteRun, RefreshRun, RefreshRunRaises,
       AttemptRaises, ExtractRaises, ReadFailedDocument, FailRun, FailRunErrs, AckTask,
       WorkerLost, TaskTimesOut, OnlyWorkerMoves
  <1>d. worker[w].pc # "idle" =>
           worker[w].doc \in Documents /\ worker[w].attempt \in Attempts
    BY DEF TypeInv, WorkersOK
  <1>1. ASSUME NEW d \in Documents, NEW n \in Attempts, ReceiveTask(w, d, n)
        PROVE  StoreInv'
    <2>1. FlushesKept
      BY <1>1 DEF ReceiveTask, FlushesKept, TypeInv, TypeOK
    <2> QED BY <1>1, <2>1, <1>q, StoreFrame DEF ReceiveTask
  <1>2. CASE SkipRun(w) \/ Extract(w) \/ RefreshRun(w) \/ ExtractRaises(w) \/ StartRunErrs(w)
    BY <1>2, <1>q, WorkerGoesKeepsFlushes, StoreFrame
       DEF SkipRun, Extract, RefreshRun, ExtractRaises, StartRunErrs, OnlyWorkerMoves
  <1>10. CASE RefreshRunRaises(w) \/ AttemptRaises(w) \/ ReadFailedDocument(w)
                \/ FailRunErrs(w)
    <2>1. FlushesKept
      BY <1>10, TypeInvParts, HandlerSteps, HandlerKeepsFlushes
    <2>2. UNCHANGED tables
      BY <1>10 DEF RefreshRunRaises, AttemptRaises, ReadFailedDocument, FailRunErrs,
         OnlyWorkerMoves
    <2> QED BY <2>1, <2>2, <1>q, StoreFrame
  <1>3. CASE ReplacePages(w)
    <2>1. FlushesKept
      BY <1>3 DEF ReplacePages, FlushesKept, TypeInv, TypeOK, WorkerRecord
    <2> QED BY <1>3, <2>1, <1>q, StoreFrame DEF ReplacePages, OnlyWorkerMoves
  <1>4. CASE AckTask(w) \/ WorkerLost(w)
    <2>1. FlushesKept
      BY <1>4 DEF AckTask, WorkerLost, IdleWorker, FlushesKept, TypeInv, TypeOK
    <2> QED BY <1>4, <2>1, <1>q, StoreFrame DEF AckTask, WorkerLost, OnlyWorkerMoves
  <1>5. CASE TaskTimesOut(w)
    BY <1>5, <1>q, StoreFrame DEF TaskTimesOut, FlushesKept
  <1>6. CASE StartRun(w)
    <2> DEFINE d == worker[w].doc
               n == worker[w].attempt
    <2>1. /\ d \in Documents /\ n \in Attempts /\ run[d][n] # "none"
          /\ run' = [run EXCEPT ![d][n] = "running"]
          /\ document' = [document EXCEPT ![d] = "processing"]
          /\ pages' = pages /\ halfFailed' = halfFailed \ {d}
      BY <1>6, <1>d DEF StartRun
    <2>2. FlushesKept
      BY <1>6, WorkerGoesKeepsFlushes DEF StartRun
    <2>3. Exists(d)
      BY <2>1 DEF StoreInv, NothingOutlivesDocument
    <2>4. /\ "running" \in RunStatus /\ "processing" \in DocumentStatus
          /\ <<run'[d][n], document'[d]>> \in StatusPair
      BY <2>1 DEF StatusPair, RunStatus, DocumentStatus, TypeInv, TypeOK
    <2> HIDE DEF d, n
    <2> QED BY <2>1, <2>2, <2>3, <2>4, <1>q, WriteRun
  <1>7. CASE CompleteRun(w)
    <2> DEFINE d == worker[w].doc
               n == worker[w].attempt
    <2>1. /\ d \in Documents /\ n \in Attempts
          /\ run' = [run EXCEPT ![d][n] = "completed"]
          /\ document' = [document EXCEPT ![d] = "processed"]
          /\ pages' = [pages EXCEPT ![d][n] = @ + 1]
          /\ halfFailed' = halfFailed \ {d}
      BY <1>7, <1>d DEF CompleteRun
    <2>2. run[d][n] # "none"
      BY <1>7 DEF CompleteRun, StoreInv, FlushedHasRun
    <2>3. FlushesKept
      BY <1>7, WorkerGoesKeepsFlushes DEF CompleteRun
    <2>4. Exists(d)
      BY <2>1, <2>2 DEF StoreInv, NothingOutlivesDocument
    <2>5. /\ "completed" \in RunStatus /\ "processed" \in DocumentStatus
          /\ <<run'[d][n], document'[d]>> \in StatusPair
      BY <2>1 DEF StatusPair, RunStatus, DocumentStatus, TypeInv, TypeOK
    <2> HIDE DEF d, n
    <2> QED BY <2>1, <2>2, <2>3, <2>4, <2>5, <1>q, WriteRun
  <1>8. CASE FlushPages(w)
    <2>1. /\ worker' \in [Workers -> WorkerRecord]
          /\ worker'[w].doc = worker[w].doc /\ worker'[w].attempt = worker[w].attempt
          /\ OtherWorkers(w)
      BY <1>8, WorkerGoesFields DEF FlushPages, TypeInv, TypeOK
    <2>2. UNCHANGED tables /\ run[worker[w].doc][worker[w].attempt] # "none"
      BY <1>8 DEF FlushPages, OnlyWorkerMoves
    <2>3. FlushedHasRun'
      BY <2>1, <2>2 DEF StoreInv, FlushedHasRun, OtherWorkers, tables
    <2>4. /\ LockIsExclusive' /\ LockedIsCurrent' /\ NothingOutlivesDocument'
          /\ CompletedRunHasPages' /\ StatusBackedByRuns'
      BY <2>2, <1>q DEF StoreInv, tables, LockIsExclusive, LockedIsCurrent, LocksKept,
         IsNextAttempt, NothingOutlivesDocument, CompletedRunHasPages, StatusBackedByRuns,
         Exists, HasActiveRun
    <2> QED BY <2>3, <2>4 DEF StoreInv
  <1>9. CASE FailRun(w)
    <2>1. FlushesKept
      BY <1>9, TypeInvParts, HandlerSteps, HandlerKeepsFlushes
    <2>2. worker[w].readFailed \in SUBSET FailureRow
      BY DEF TypeInv, TypeOK, WorkerRecord
    <2> QED BY <1>9, <2>1, <2>2, <1>q, <1>d, MarkRunFailedStore DEF FailRun
  <1> QED BY <1>1, <1>2, <1>3, <1>4, <1>5, <1>6, <1>7, <1>8, <1>9, <1>10
      DEF TaskStep, FaultStep

LEMMA NextStoreInv == TypeInv /\ StoreInv /\ [Next]_vars => StoreInv'
  <1> SUFFICES ASSUME TypeInv, StoreInv, [Next]_vars PROVE StoreInv'
    OBVIOUS
  <1>1. ASSUME NEW q \in Requests,
               UploadStep(q) \/ ProcessStep(q) \/ RemoveStep(q) \/ ApiCrash(q)
        PROVE  StoreInv'
    BY <1>1, UploadStoreInv, ProcessStoreInv, RemoveStoreInv
  <1>2. ASSUME NEW w \in Workers, TaskStep(w) \/ FaultStep(w) PROVE StoreInv'
    BY <1>2, WorkerStoreInv
  <1>3. CASE UNCHANGED vars
    BY <1>3, StoreFrame DEF vars, tables, LocksKept, FlushesKept
  <1> QED BY <1>1, <1>2, <1>3 DEF Next, Rest

\* The rows, the row locks and the workers about to write always agree.
THEOREM SpecStoreInv == Spec => []StoreInv
  BY InitStoreInv, NextStoreInv, SpecTypeInv, PTL DEF Spec

\* Concurrent requests never choose the same attempt number: the lock on the
\* document row protects the choice until the run is inserted.
THEOREM SpecNoAttemptCollision == Spec => []NoAttemptCollision
  <1>1. TypeInv /\ StoreInv => NoAttemptCollision
    BY NextAttemptIsFree
       DEF TypeInv, RequestsOK, StoreInv, LockedIsCurrent, NoAttemptCollision
  <1> QED BY <1>1, SpecTypeInv, SpecStoreInv, PTL

\* A completed run always has pages and chunks to show.
THEOREM SpecCompletedRunHasPages == Spec => []CompletedRunHasPages
  BY SpecStoreInv, PTL DEF StoreInv

\* A document's status has the run that justifies it, unless a failure marked
\* one of the two rows only.
THEOREM SpecStatusBackedByRuns == Spec => []StatusBackedByRuns
  BY SpecStoreInv, PTL DEF StoreInv

\* No run, page or chunk outlives its document, whatever a worker was doing.
THEOREM SpecNothingOutlivesDocument == Spec => []NothingOutlivesDocument
  BY SpecStoreInv, PTL DEF StoreInv

=============================================================================
