---------------------------- MODULE DocumentStore ----------------------------
(***************************************************************************)
(* The state that the FastAPI endpoints and the Celery workers share: the  *)
(* tables documents, document_processing_runs and document_pages of        *)
(* PostgreSQL, the MinIO bucket, the Celery queue in Redis, and where each *)
(* HTTP request and each worker process stands in its handler.             *)
(*                                                                         *)
(* A processing run is identified by its document and attempt number,      *)
(* which the unique constraint document_attempt_unique makes a key.        *)
(* Document ids are uuid4 values and are never used twice.                 *)
(***************************************************************************)
EXTENDS Naturals

CONSTANTS
    Documents,         \* document ids that uploads may draw
    NoDocument,        \* stands for "no document yet" in idle records
    Requests,          \* HTTP requests to the documents endpoints, one shot each
    Workers,           \* Celery worker processes
    MaxAttempts,       \* bound: attempt numbers explored per document
    MaxRedeliveries,   \* bound: worker losses and visibility timeouts
    MaxDbErrors        \* bound: database errors no handler turns into a status

ASSUME NoDocumentAssumption == NoDocument \notin Documents

ASSUME BoundsAssumption ==
    /\ MaxAttempts \in Nat \ {0}
    /\ MaxRedeliveries \in Nat
    /\ MaxDbErrors \in Nat

VARIABLES
    document,      \* documents.status, "absent" when there is no row
    object,        \* whether the original file is in the bucket
    run,           \* document_processing_runs.status, "none" when no row
    pages,         \* which commit wrote the run's pages and chunks, 0 for none
    halfFailed,    \* history: documents of which a failing handler, or a late one,
                   \* has marked only one of the two rows (see MarkRunFailed)
    ready,         \* copies of the run's task waiting in the broker
    request,       \* progress of every HTTP request
    worker,        \* progress of every worker
    redeliveries,  \* redeliveries so far
    dbErrors       \* unhandled database errors so far

tables == <<document, run, pages, halfFailed>>
vars == <<document, object, run, pages, halfFailed, ready, request, worker,
          redeliveries, dbErrors>>

-----------------------------------------------------------------------------

Attempts == 1 .. MaxAttempts

DocumentStatus == {"uploaded", "queued", "processing", "processed", "failed"}
RunStatus == {"queued", "running", "completed", "failed"}

\* Statuses that get_active_processing_run selects.
ActiveStatus == {"queued", "running"}

\* Steps of the three endpoints that change state.
RequestStep ==
    {"idle", "done"}
        \union {"stored", "inserted", "compensating"}       \* upload_document
        \union {"checked", "locked", "created", "undo",
                "undoRead", "undoMark"}                     \* queue_document_processing
        \union {"removing", "objectDeleted"}                \* remove_document

\* Steps of process_document_run, and of Celery around it.
WorkerStep ==
    {"idle", "received", "extracting", "extracted", "replaced", "flushed",
     "committed", "failing", "marking", "acking"}

Kind == {"upload", "process", "remove"}

\* The two rows that mark_processing_run_failed reads and then writes.
FailureRow == {"run", "document"}

\* "crashed": the process died and the client got no answer.
Reply == {"201", "202", "200", "404", "409", "500", "502", "503", "crashed"}

RequestRecord ==
    [kind : Kind \union {"none"}, pc : RequestStep,
     doc : Documents \union {NoDocument}, attempt : 0 .. MaxAttempts,
     reply : Reply \union {"none"}, readFailed : SUBSET FailureRow]

WorkerRecord ==
    [pc : WorkerStep, doc : Documents \union {NoDocument},
     attempt : 0 .. MaxAttempts, seen : Nat, readFailed : SUBSET FailureRow]

NewRequest ==
    [kind |-> "none", pc |-> "idle", doc |-> NoDocument, attempt |-> 0,
     reply |-> "none", readFailed |-> {}]

IdleWorker ==
    [pc |-> "idle", doc |-> NoDocument, attempt |-> 0, seen |-> 0, readFailed |-> {}]

TypeOK ==
    /\ document \in [Documents -> DocumentStatus \union {"absent"}]
    /\ object \in [Documents -> BOOLEAN]
    /\ run \in [Documents -> [Attempts -> RunStatus \union {"none"}]]
    /\ pages \in [Documents -> [Attempts -> Nat]]
    /\ halfFailed \in SUBSET Documents
    /\ ready \in [Documents -> [Attempts -> Nat]]
    /\ request \in [Requests -> RequestRecord]
    /\ worker \in [Workers -> WorkerRecord]
    /\ redeliveries \in 0 .. MaxRedeliveries
    /\ dbErrors \in 0 .. MaxDbErrors

Init ==
    /\ document = [d \in Documents |-> "absent"]
    /\ object = [d \in Documents |-> FALSE]
    /\ run = [d \in Documents |-> [n \in Attempts |-> "none"]]
    /\ pages = [d \in Documents |-> [n \in Attempts |-> 0]]
    /\ halfFailed = {}
    /\ ready = [d \in Documents |-> [n \in Attempts |-> 0]]
    /\ request = [q \in Requests |-> NewRequest]
    /\ worker = [w \in Workers |-> IdleWorker]
    /\ redeliveries = 0
    /\ dbErrors = 0

-----------------------------------------------------------------------------
\* Queries and row locks.

Exists(d) == document[d] # "absent"

HasActiveRun(d) == \E n \in Attempts : run[d][n] \in ActiveStatus

\* max(attempt_number) + 1 over the rows of the document.
IsNextAttempt(d, n) ==
    /\ n > 1 => run[d][n - 1] # "none"
    /\ \A m \in Attempts : m >= n => run[d][m] = "none"

\* create_document_processing_run holds the row between its SELECT ... FOR
\* UPDATE and its commit; every other writer of the row waits.
RowLocked(d) == \E q \in Requests : request[q].doc = d /\ request[q].pc = "locked"

\* A worker that has inserted pages holds a key share lock on its document
\* and its run until it commits: the rows cannot be deleted or locked for
\* update meanwhile.
PinsRun(w, d, n) ==
    worker[w].pc = "flushed" /\ worker[w].doc = d /\ worker[w].attempt = n

Pinned(d) == \E w \in Workers : worker[w].pc = "flushed" /\ worker[w].doc = d

-----------------------------------------------------------------------------
(***************************************************************************)
(* mark_processing_run_failed, called by the endpoint when the broker      *)
(* refuses the task and by the worker when an attempt raises. It reads the *)
(* run and the document in two statements, locks neither, and commits.     *)
(* SQLAlchemy leaves out of the UPDATE a status that was read as "failed": *)
(* whatever the row has become since is kept.                              *)
(***************************************************************************)
NoteFailed(known, row, status) == IF status = "failed" THEN known \union {row} ELSE known

\* Mutant: the document keeps its status.
MarkOnlyRunFailed(d, n, readFailed) ==
    /\ ~RowLocked(d)
    /\ IF run[d][n] = "none"
       THEN UNCHANGED run
       ELSE run' = [run EXCEPT ![d][n] = "failed"]
    /\ UNCHANGED <<document, pages, halfFailed>>

\* Mutant: a status the schema does not know.
MarkRunError(d, n, readFailed) ==
    /\ ~RowLocked(d)
    /\ IF run[d][n] = "none"
       THEN UNCHANGED <<run, document>>
       ELSE /\ run' = [run EXCEPT ![d][n] = "error"]
            /\ document' = [document EXCEPT ![d] = IF Exists(d) THEN "failed" ELSE @]
    /\ UNCHANGED <<pages, halfFailed>>

\* The commit. A run that was deleted since it was read raises and writes nothing.
MarkRunFailed(d, n, readFailed) ==
    /\ "document" \in readFailed \/ ~RowLocked(d)
    /\ IF run[d][n] = "none"
       THEN UNCHANGED <<run, document, halfFailed>>
       ELSE /\ run' = IF "run" \in readFailed
                      THEN run ELSE [run EXCEPT ![d][n] = "failed"]
            /\ document' = IF "document" \in readFailed \/ ~Exists(d)
                           THEN document ELSE [document EXCEPT ![d] = "failed"]
            /\ halfFailed' =
                  IF run'[d][n] = "failed" /\ document'[d] = "failed"
                  THEN halfFailed \ {d}
                  ELSE IF readFailed = FailureRow THEN halfFailed
                  ELSE halfFailed \union {d}
    /\ UNCHANGED pages

=============================================================================
