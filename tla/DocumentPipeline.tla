--------------------------- MODULE DocumentPipeline ---------------------------
(***************************************************************************)
(* The document pipeline: requests of DocumentsApi and workers of          *)
(* DocumentWorker interleaved over the state of DocumentStore, and what    *)
(* the composition must guarantee.                                         *)
(***************************************************************************)
EXTENDS DocumentsApi, DocumentWorker

\* Everything asked for has been done and nothing is left to deliver.
AllQuiet ==
    /\ \A q \in Requests : request[q].pc = "done"
    /\ \A w \in Workers : worker[w].pc = "idle"
    /\ \A d \in Documents, n \in Attempts : ready[d][n] = 0

Rest == AllQuiet /\ UNCHANGED vars

Next ==
    \/ \E q \in Requests :
          UploadStep(q) \/ ProcessStep(q) \/ RemoveStep(q) \/ ApiCrash(q)
    \/ \E w \in Workers : TaskStep(w) \/ FaultStep(w)
    \/ Rest

Spec == Init /\ [][Next]_vars

\* A request, once begun, runs to its response unless its process dies; nobody
\* is obliged to send a request.
RequestRuns(q) ==
    /\ request[q].pc # "idle"
    /\ UploadStep(q) \/ ProcessStep(q) \/ RemoveStep(q)

\* A worker process takes tasks and finishes them. Faults are never owed.
Fairness ==
    /\ \A q \in Requests : WF_vars(RequestRuns(q))
    /\ \A w \in Workers : WF_vars(TaskStep(w))

FairSpec == Spec /\ Fairness

-----------------------------------------------------------------------------
\* What explains a state that the code does not repair.

CrashedProcess(d, n) ==
    \E q \in Requests :
        /\ request[q].kind = "process" /\ request[q].reply = "crashed"
        /\ request[q].doc = d /\ request[q].attempt = n

BeingQueued(d, n) ==
    \E q \in Requests :
        /\ request[q].pc \in {"created", "undo", "undoRead", "undoMark"}
        /\ request[q].doc = d /\ request[q].attempt = n
        /\ "run" \notin request[q].readFailed

InFlight(d, n) == ready[d][n] > 0 \/ \E w \in Workers : Holds(w, d, n)

Unfinished(q, kind, d, steps) ==
    /\ request[q].kind = kind /\ request[q].doc = d
    /\ request[q].pc \in steps \/ request[q].reply \in {"500", "crashed"}

-----------------------------------------------------------------------------
\* Invariants.

(***************************************************************************)
(* "The document row is locked while calculating the next attempt number   *)
(* so concurrent requests cannot select the same attempt": the insert of a *)
(* run never meets a row with its attempt number.                          *)
(***************************************************************************)
NoAttemptCollision ==
    \A q \in Requests :
        request[q].pc = "locked" => run[request[q].doc][request[q].attempt] = "none"

(***************************************************************************)
(* A completed run has what some whole execution wrote in the database:    *)
(* search and reconciliation never select a completed run whose pages are  *)
(* missing, whichever of its executions completed it.                      *)
(***************************************************************************)
CompletedRunHasPages ==
    \A d \in Documents, n \in Attempts :
        run[d][n] = "completed" => pages[d][n] > 0

(***************************************************************************)
(* The document's status is backed by its runs: "processed" by a completed *)
(* run that can be searched, "queued" or "processing" by a run that is     *)
(* still to end, "failed" by a run that failed. The exception is what the  *)
(* code does not repair until it next writes both rows: a failure that     *)
(* found one row failed already and marked the other while it moved on.    *)
(***************************************************************************)
StatusBackedByRuns ==
    \A d \in Documents \ halfFailed :
        /\ document[d] = "processed" =>
              \E n \in Attempts : run[d][n] = "completed"
        /\ document[d] \in {"queued", "processing"} => HasActiveRun(d)
        /\ document[d] = "failed" =>
              \E n \in Attempts : run[d][n] = "failed"

(***************************************************************************)
(* Deleting the row removes every run and page with it, and a worker that  *)
(* was busy with the document cannot bring any back.                       *)
(***************************************************************************)
NothingOutlivesDocument ==
    \A d \in Documents, n \in Attempts :
        /\ ~Exists(d) => run[d][n] = "none"
        /\ run[d][n] = "none" => pages[d][n] = 0

(***************************************************************************)
(* At-least-once processing: unless the API process died between creating  *)
(* a run and sending its task, or the database failed where no handler     *)
(* records it, an active run always has a task waiting, held by a worker,  *)
(* or about to be sent. Late acknowledgement is what makes it true.        *)
(***************************************************************************)
ActiveRunIsNotLost ==
    \A d \in Documents, n \in Attempts :
        /\ run[d][n] \in ActiveStatus
        /\ dbErrors = 0
        => \/ InFlight(d, n)
           \/ BeingQueued(d, n)
           \/ CrashedProcess(d, n)

(***************************************************************************)
(* A row without its file exists only between the two halves of a removal, *)
(* or after a removal or an upload that ended in an error or died half way.*)
(***************************************************************************)
MissingFileIsExplained ==
    \A d \in Documents :
        Exists(d) /\ ~object[d] =>
            \E q \in Requests :
                \/ Unfinished(q, "remove", d, {"objectDeleted"})
                \/ Unfinished(q, "upload", d, {})

(***************************************************************************)
(* A file without a row is an upload that is not finished or that ended in *)
(* an error: a removal never leaves one.                                   *)
(***************************************************************************)
OrphanFileIsExplained ==
    \A d \in Documents :
        object[d] /\ ~Exists(d) =>
            \E q \in Requests : Unfinished(q, "upload", d, {"stored", "compensating"})

(***************************************************************************)
(* A removal that answered 200 removed both the row and the file, for good.*)
(***************************************************************************)
RemovedForGood ==
    \A q \in Requests :
        request[q].kind = "remove" /\ request[q].reply = "200" =>
            ~Exists(request[q].doc) /\ ~object[request[q].doc]

-----------------------------------------------------------------------------
\* Action properties.

(***************************************************************************)
(* What search reads for a completed run changes only by a new execution   *)
(* completing it again, by a late failure that takes the run out of search,*)
(* or by the removal of the document: it is never edited in place, and a   *)
(* completed run is never queued or running again.                         *)
(***************************************************************************)
CompletedRunIsStable ==
    [][\A d \in Documents, n \in Attempts :
          run[d][n] = "completed" =>
              \/ run'[d][n] \in {"completed", "failed"} /\ pages'[d][n] >= pages[d][n]
              \/ ~Exists(d)']_vars

-----------------------------------------------------------------------------
\* Refinement.

Publication == INSTANCE DocumentPublication WITH
    present <- {d \in Documents : Exists(d)},
    removed <- {d \in Documents : \E q \in Requests :
                   request[q].kind = "remove" /\ request[q].doc = d /\ request[q].reply = "200"},
    opened <- [d \in Documents |-> {n \in Attempts : run[d][n] # "none"}],
    version <- pages,
    shown <- [d \in Documents |-> {n \in Attempts : run[d][n] = "completed"}]

(***************************************************************************)
(* Whatever the queue redelivers, whoever crashes and however requests     *)
(* interleave, readers see attempts opened in order, results of one whole  *)
(* execution at a time, and never again anything of a removed document.    *)
(***************************************************************************)
ImplementsPublication == Publication!Spec

-----------------------------------------------------------------------------
\* Liveness, under FairSpec.

(***************************************************************************)
(* Every attempt ends: completed, failed, or gone with its document, unless*)
(* the API died before sending its task or the database lost a failure.    *)
(***************************************************************************)
EveryAttemptEnds ==
    \A d \in Documents, n \in Attempts :
        run[d][n] \in ActiveStatus ~>
            \/ run[d][n] \notin ActiveStatus
            \/ CrashedProcess(d, n)
            \/ dbErrors > 0

-----------------------------------------------------------------------------
\* What the code says of itself and does not keep.

(***************************************************************************)
(* documents.py: "A document cannot be deleted while it is queued or       *)
(* processing."                                                            *)
(***************************************************************************)
NoDeletionWhileActive ==
    [][\A d \in Documents :
          Exists(d) /\ ~Exists(d)' => ~HasActiveRun(d)]_vars

(***************************************************************************)
(* documents.py, upload_document: "The document metadata could not be      *)
(* saved." is the answer of an upload that saved nothing.                  *)
(***************************************************************************)
FailedUploadSavesNothing ==
    \A q \in Requests :
        request[q].kind = "upload" /\ request[q].reply = "500" =>
            ~Exists(request[q].doc)

=============================================================================
