---------------------------- MODULE DocumentWorker ----------------------------
(***************************************************************************)
(* The Celery task process_document and the function process_document_run  *)
(* it runs. Tasks are acknowledged late: the broker keeps a task until the *)
(* worker has finished with it, and delivers it again when the worker      *)
(* process is lost (task_reject_on_worker_lost) or when the acknowledgement*)
(* takes longer than the visibility timeout of the Redis transport.        *)
(***************************************************************************)
EXTENDS DocumentStore

WorkerGoes(w, step) == worker' = [worker EXCEPT ![w].pc = step]

\* mark_processing_run_failed has returned or raised.
WorkerGivesUp(w) ==
    worker' = [worker EXCEPT ![w].pc = "acking", ![w].readFailed = {}]

OnlyWorkerMoves ==
    UNCHANGED <<tables, object, ready, request, redeliveries, dbErrors>>

Executing ==
    {"received", "extracting", "extracted", "replaced", "flushed",
     "failing", "marking"}

\* The worker will still write the run's status.
Holds(w, d, n) ==
    /\ worker[w].pc \in Executing
    /\ worker[w].doc = d /\ worker[w].attempt = n
    /\ "run" \notin worker[w].readFailed

-----------------------------------------------------------------------------

ReceiveTask(w, d, n) ==
    /\ worker[w].pc = "idle"
    /\ ready[d][n] > 0
    /\ ready' = [ready EXCEPT ![d][n] = @ - 1]
    /\ worker' = [worker EXCEPT ![w] =
          [pc |-> "received", doc |-> d, attempt |-> n, seen |-> 0, readFailed |-> {}]]
    /\ UNCHANGED <<tables, object, request, redeliveries, dbErrors>>

\* The run is gone (the task raises) or completed (the task returns).
SkipRun(w) ==
    LET d == worker[w].doc
        n == worker[w].attempt
    IN
    /\ worker[w].pc = "received"
    /\ run[d][n] \in {"none", "completed"}
    /\ WorkerGoes(w, "acking")
    /\ OnlyWorkerMoves

\* Mutant: the completed run is not recognised.
StartRunAlways(w) ==
    LET d == worker[w].doc
        n == worker[w].attempt
    IN
    /\ worker[w].pc = "received"
    /\ run[d][n] # "none"
    /\ ~RowLocked(d)
    /\ run' = [run EXCEPT ![d][n] = "running"]
    /\ document' = [document EXCEPT ![d] = "processing"]
    /\ halfFailed' = halfFailed \ {d}
    /\ WorkerGoes(w, "extracting")
    /\ UNCHANGED <<pages, object, ready, request, redeliveries, dbErrors>>

\* SELECT run FOR UPDATE, then one commit. A failed or running run is started
\* again: only "completed" is refused.
StartRun(w) ==
    LET d == worker[w].doc
        n == worker[w].attempt
    IN
    /\ worker[w].pc = "received"
    /\ run[d][n] \in {"queued", "running", "failed"}
    /\ ~RowLocked(d)
    /\ \A v \in Workers : ~PinsRun(v, d, n)
    /\ run' = [run EXCEPT ![d][n] = "running"]
    /\ document' = [document EXCEPT ![d] = "processing"]
    /\ halfFailed' = halfFailed \ {d}
    /\ WorkerGoes(w, "extracting")
    /\ UNCHANGED <<pages, object, ready, request, redeliveries, dbErrors>>

\* A database error before the try block: nothing marks the run failed.
StartRunErrs(w) ==
    /\ worker[w].pc = "received"
    /\ dbErrors < MaxDbErrors
    /\ dbErrors' = dbErrors + 1
    /\ WorkerGoes(w, "acking")
    /\ UNCHANGED <<tables, object, ready, request, redeliveries>>

\* download_object and extract_document, outside any transaction.
Extract(w) ==
    /\ worker[w].pc = "extracting"
    /\ object[worker[w].doc]
    /\ WorkerGoes(w, "extracted")
    /\ OnlyWorkerMoves

\* Mutant: the deletion is committed before the new pages are.
ReplacePagesEarly(w) ==
    LET d == worker[w].doc
        n == worker[w].attempt
    IN
    /\ worker[w].pc = "extracted"
    /\ run[d][n] # "none"
    /\ pages' = [pages EXCEPT ![d][n] = 0]
    /\ WorkerGoes(w, "replaced")
    /\ UNCHANGED <<document, run, halfFailed, object, ready, request, redeliveries, dbErrors>>

\* Reload run and document; delete the pages of an earlier execution.
ReplacePages(w) ==
    LET d == worker[w].doc
        n == worker[w].attempt
    IN
    /\ worker[w].pc = "extracted"
    /\ run[d][n] # "none"
    /\ worker' = [worker EXCEPT ![w].pc = "replaced", ![w].seen = pages[d][n]]
    /\ OnlyWorkerMoves

\* Rows this transaction did not delete still occupy (run, page_number).
PageConflict(w, d, n) == pages[d][n] # 0 /\ pages[d][n] # worker[w].seen

\* Mutant: no foreign key stops pages of a run that is gone.
FlushPagesUnchecked(w) ==
    LET d == worker[w].doc
        n == worker[w].attempt
    IN
    /\ worker[w].pc = "replaced"
    /\ ~RowLocked(d)
    /\ \A v \in Workers : ~PinsRun(v, d, n)
    /\ ~PageConflict(w, d, n)
    /\ WorkerGoes(w, "flushed")
    /\ OnlyWorkerMoves

\* Insert pages, then delete, embed and insert chunks.
FlushPages(w) ==
    LET d == worker[w].doc
        n == worker[w].attempt
    IN
    /\ worker[w].pc = "replaced"
    /\ run[d][n] # "none"
    /\ ~RowLocked(d)
    /\ \A v \in Workers : ~PinsRun(v, d, n)
    /\ ~PageConflict(w, d, n)
    /\ WorkerGoes(w, "flushed")
    /\ OnlyWorkerMoves

CompleteRun(w) ==
    LET d == worker[w].doc
        n == worker[w].attempt
    IN
    /\ worker[w].pc = "flushed"
    /\ run' = [run EXCEPT ![d][n] = "completed"]
    /\ document' = [document EXCEPT ![d] = "processed"]
    /\ pages' = [pages EXCEPT ![d][n] = @ + 1]
    /\ halfFailed' = halfFailed \ {d}
    /\ WorkerGoes(w, "committed")
    /\ UNCHANGED <<object, ready, request, redeliveries, dbErrors>>

RefreshRun(w) ==
    /\ worker[w].pc = "committed"
    /\ run[worker[w].doc][worker[w].attempt] # "none"
    /\ WorkerGoes(w, "acking")
    /\ OnlyWorkerMoves

\* The exception handler rolls back and reads the run; a run that is gone it leaves.
ReadFailedRun(w) ==
    LET status == run[worker[w].doc][worker[w].attempt] IN
    worker' = [worker EXCEPT ![w] =
        IF status = "none" THEN [@ EXCEPT !.pc = "acking", !.seen = 0]
        ELSE [@ EXCEPT !.pc = "failing", !.seen = 0,
                       !.readFailed = NoteFailed({}, "run", status)]]

\* refresh() stands in the same try as commit(): when it raises, a run that
\* is already completed is about to be marked failed.
RefreshRunRaises(w) ==
    /\ worker[w].pc = "committed"
    /\ IF run[worker[w].doc][worker[w].attempt] = "none"
       THEN UNCHANGED dbErrors
       ELSE dbErrors < MaxDbErrors /\ dbErrors' = dbErrors + 1
    /\ ReadFailedRun(w)
    /\ UNCHANGED <<tables, object, ready, request, redeliveries>>

\* Any exception inside the try block: a missing file, a parser or embedding
\* error, a row that is gone, a unique violation, a failed commit.
AttemptRaises(w) ==
    /\ worker[w].pc \in {"extracted", "replaced", "flushed"}
    /\ ReadFailedRun(w)
    /\ OnlyWorkerMoves

\* Before the second transaction begins, rollback() expires nothing: the session
\* still holds the run as "running" and the document as "processing".
ExtractRaises(w) ==
    /\ worker[w].pc = "extracting"
    /\ WorkerGoes(w, "marking")
    /\ OnlyWorkerMoves

ReadFailedDocument(w) ==
    /\ worker[w].pc = "failing"
    /\ worker' = [worker EXCEPT ![w].pc = "marking",
           ![w].readFailed = NoteFailed(@, "document", document[worker[w].doc])]
    /\ OnlyWorkerMoves

FailRun(w) ==
    /\ worker[w].pc = "marking"
    /\ MarkRunFailed(worker[w].doc, worker[w].attempt, worker[w].readFailed)
    /\ WorkerGivesUp(w)
    /\ UNCHANGED <<object, ready, request, redeliveries, dbErrors>>

\* mark_processing_run_failed raises too: the run keeps its status.
FailRunErrs(w) ==
    /\ worker[w].pc \in {"failing", "marking"}
    /\ dbErrors < MaxDbErrors
    /\ dbErrors' = dbErrors + 1
    /\ WorkerGivesUp(w)
    /\ UNCHANGED <<tables, object, ready, request, redeliveries>>

\* The task has returned or raised; either way it is acknowledged.
AckTask(w) ==
    /\ worker[w].pc = "acking"
    /\ worker' = [worker EXCEPT ![w] = IdleWorker]
    /\ OnlyWorkerMoves

-----------------------------------------------------------------------------
\* The broker's redelivery.

CanRedeliver(w) ==
    /\ worker[w].pc # "idle"
    /\ redeliveries < MaxRedeliveries
    /\ redeliveries' = redeliveries + 1

\* Mutant: the task was acknowledged when it was received.
WorkerLostEarlyAck(w) ==
    /\ CanRedeliver(w)
    /\ worker' = [worker EXCEPT ![w] = IdleWorker]
    /\ UNCHANGED <<tables, object, ready, request, dbErrors>>

\* The worker process dies: its transaction is rolled back, its task returns.
WorkerLost(w) ==
    /\ CanRedeliver(w)
    /\ ready' = [ready EXCEPT ![worker[w].doc][worker[w].attempt] = @ + 1]
    /\ worker' = [worker EXCEPT ![w] = IdleWorker]
    /\ UNCHANGED <<tables, object, request, dbErrors>>

\* The visibility timeout passes while the worker is still at it.
TaskTimesOut(w) ==
    /\ CanRedeliver(w)
    /\ ready' = [ready EXCEPT ![worker[w].doc][worker[w].attempt] = @ + 1]
    /\ UNCHANGED <<tables, object, request, worker, dbErrors>>

TaskStep(w) ==
    \/ \E d \in Documents, n \in Attempts : ReceiveTask(w, d, n)
    \/ SkipRun(w)
    \/ StartRun(w)
    \/ Extract(w)
    \/ ReplacePages(w)
    \/ FlushPages(w)
    \/ CompleteRun(w)
    \/ RefreshRun(w)
    \/ RefreshRunRaises(w)
    \/ AttemptRaises(w)
    \/ ExtractRaises(w)
    \/ ReadFailedDocument(w)
    \/ FailRun(w)
    \/ AckTask(w)

FaultStep(w) ==
    \/ StartRunErrs(w)
    \/ FailRunErrs(w)
    \/ WorkerLost(w)
    \/ TaskTimesOut(w)

=============================================================================
