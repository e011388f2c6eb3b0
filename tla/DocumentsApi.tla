----------------------------- MODULE DocumentsApi -----------------------------
(***************************************************************************)
(* The endpoints of /documents that change state, one action per step that *)
(* other requests and workers can see: a statement that reads, a commit, a *)
(* call to MinIO or to the broker. Requests run in the threads of FastAPI's*)
(* pool and in several API processes, so their steps interleave; a process *)
(* may die between any two of them.                                        *)
(***************************************************************************)
EXTENDS DocumentStore

RequestGoes(q, step) == request' = [request EXCEPT ![q].pc = step]

Respond(q, code) ==
    request' = [request EXCEPT ![q].pc = "done", ![q].reply = code,
                               ![q].readFailed = {}]

Begin(q, kind, d, step) ==
    request' = [request EXCEPT ![q] =
        [kind |-> kind, pc |-> step, doc |-> d, attempt |-> 0, reply |-> "none",
         readFailed |-> {}]]

Refuse(q, kind, d, code) ==
    request' = [request EXCEPT ![q] =
        [kind |-> kind, pc |-> "done", doc |-> d, attempt |-> 0, reply |-> code,
         readFailed |-> {}]]

OnlyRequestMoves ==
    UNCHANGED <<tables, object, ready, worker, redeliveries, dbErrors>>

-----------------------------------------------------------------------------
\* POST /documents/upload

FreshId(d) == \A q \in Requests : request[q].doc # d

\* upload_bytes puts the file before any row exists.
StoreUpload(q, d) ==
    /\ request[q].pc = "idle"
    /\ FreshId(d)
    /\ object' = [object EXCEPT ![d] = TRUE]
    /\ Begin(q, "upload", d, "stored")
    /\ UNCHANGED <<tables, ready, worker, redeliveries, dbErrors>>

StoreUploadFails(q, d) ==
    /\ request[q].pc = "idle"
    /\ FreshId(d)
    /\ Refuse(q, "upload", d, "502")
    /\ OnlyRequestMoves

InsertDocument(q) ==
    /\ request[q].pc = "stored"
    /\ document' = [document EXCEPT ![request[q].doc] = "uploaded"]
    /\ RequestGoes(q, "inserted")
    /\ UNCHANGED <<object, run, pages, halfFailed, ready, worker, redeliveries, dbErrors>>

\* The commit raises: roll back and remove the stored file.
InsertDocumentFails(q) ==
    /\ request[q].pc = "stored"
    /\ dbErrors < MaxDbErrors
    /\ dbErrors' = dbErrors + 1
    /\ RequestGoes(q, "compensating")
    /\ UNCHANGED <<tables, object, ready, worker, redeliveries>>

RefreshDocument(q) ==
    /\ request[q].pc = "inserted"
    /\ Exists(request[q].doc)
    /\ Respond(q, "201")
    /\ OnlyRequestMoves

\* refresh() stands in the same try as commit(): when it raises, because the
\* row was deleted meanwhile or the connection broke, the committed row stays.
RefreshDocumentFails(q) ==
    /\ request[q].pc = "inserted"
    /\ IF Exists(request[q].doc)
       THEN dbErrors < MaxDbErrors /\ dbErrors' = dbErrors + 1
       ELSE UNCHANGED dbErrors
    /\ RequestGoes(q, "compensating")
    /\ UNCHANGED <<tables, object, ready, worker, redeliveries>>

\* A StorageError of this delete_object is swallowed.
RemoveStoredUpload(q) ==
    /\ request[q].pc = "compensating"
    /\ \E deleted \in BOOLEAN :
          object' = [object EXCEPT ![request[q].doc] = @ /\ ~deleted]
    /\ Respond(q, "500")
    /\ UNCHANGED <<tables, ready, worker, redeliveries, dbErrors>>

-----------------------------------------------------------------------------
\* POST /documents/{id}/process

CheckProcess(q, d) ==
    /\ request[q].pc = "idle"
    /\ IF ~Exists(d) THEN Refuse(q, "process", d, "404")
       ELSE IF HasActiveRun(d) THEN Refuse(q, "process", d, "409")
       ELSE Begin(q, "process", d, "checked")
    /\ OnlyRequestMoves

\* Mutant: the SELECT takes no lock.
LockDocumentUnlocked(q) ==
    LET d == request[q].doc IN
    /\ request[q].pc = "checked"
    /\ IF Exists(d)
       THEN \E n \in Attempts :
              /\ IsNextAttempt(d, n)
              /\ request' = [request EXCEPT ![q].pc = "locked", ![q].attempt = n]
       ELSE Respond(q, "404")
    /\ OnlyRequestMoves

\* SELECT ... FOR UPDATE, then max(attempt_number) under the lock.
LockDocument(q) ==
    LET d == request[q].doc IN
    /\ request[q].pc = "checked"
    /\ ~RowLocked(d)
    /\ ~Pinned(d)
    /\ IF Exists(d)
       THEN \E n \in Attempts :
              /\ IsNextAttempt(d, n)
              /\ request' = [request EXCEPT ![q].pc = "locked", ![q].attempt = n]
       ELSE Respond(q, "404")
    /\ OnlyRequestMoves

CreateRun(q) ==
    LET d == request[q].doc
        n == request[q].attempt
    IN
    /\ request[q].pc = "locked"
    /\ IF run[d][n] = "none"
       THEN /\ run' = [run EXCEPT ![d][n] = "queued"]
            /\ document' = [document EXCEPT ![d] = "queued"]
            /\ halfFailed' = halfFailed \ {d}
            /\ RequestGoes(q, "created")
       ELSE Respond(q, "500") /\ UNCHANGED <<run, document, halfFailed>>
    /\ UNCHANGED <<pages, object, ready, worker, redeliveries, dbErrors>>

\* delay() succeeded; refresh() of the run fails if a delete cascaded to it.
EnqueueTask(q) ==
    LET d == request[q].doc
        n == request[q].attempt
    IN
    /\ request[q].pc = "created"
    /\ ready' = [ready EXCEPT ![d][n] = @ + 1]
    /\ Respond(q, IF run[d][n] = "none" THEN "500" ELSE "202")
    /\ UNCHANGED <<tables, object, worker, redeliveries, dbErrors>>

\* delay() raised; the broker may have taken the task before the error.
EnqueueTaskFails(q) ==
    /\ request[q].pc = "created"
    /\ \E taken \in {0, 1} :
          ready' = [ready EXCEPT ![request[q].doc][request[q].attempt] = @ + taken]
    /\ RequestGoes(q, "undo")
    /\ UNCHANGED <<tables, object, worker, redeliveries, dbErrors>>

\* mark_processing_run_failed: a run that a delete has cascaded to is left.
ReadUndoneRun(q) ==
    LET status == run[request[q].doc][request[q].attempt] IN
    /\ request[q].pc = "undo"
    /\ IF status = "none" THEN Respond(q, "503")
       ELSE request' = [request EXCEPT ![q].pc = "undoRead",
                           ![q].readFailed = NoteFailed({}, "run", status)]
    /\ OnlyRequestMoves

ReadUndoneDocument(q) ==
    /\ request[q].pc = "undoRead"
    /\ request' = [request EXCEPT ![q].pc = "undoMark",
           ![q].readFailed = NoteFailed(@, "document", document[request[q].doc])]
    /\ OnlyRequestMoves

UndoCreateRun(q) ==
    LET d == request[q].doc
        n == request[q].attempt
    IN
    /\ request[q].pc = "undoMark"
    /\ MarkRunFailed(d, n, request[q].readFailed)
    /\ Respond(q, IF run[d][n] = "none" THEN "500" ELSE "503")
    /\ UNCHANGED <<object, ready, worker, redeliveries, dbErrors>>

\* An exception that the handler does not turn into an answer: a failing
\* statement or commit, or the refresh() of a run that is gone again.
ProcessFails(q) ==
    /\ request[q].pc \in {"checked", "locked", "created", "undo", "undoRead", "undoMark"}
    /\ IF request[q].pc = "created" /\ run[request[q].doc][request[q].attempt] = "none"
       THEN UNCHANGED dbErrors
       ELSE dbErrors < MaxDbErrors /\ dbErrors' = dbErrors + 1
    /\ Respond(q, "500")
    /\ UNCHANGED <<tables, object, ready, worker, redeliveries>>

-----------------------------------------------------------------------------
\* DELETE /documents/{id}

CheckRemove(q, d) ==
    /\ request[q].pc = "idle"
    /\ IF ~Exists(d) THEN Refuse(q, "remove", d, "404")
       ELSE IF HasActiveRun(d) THEN Refuse(q, "remove", d, "409")
       ELSE Begin(q, "remove", d, "removing")
    /\ OnlyRequestMoves

\* Mutant: the row is deleted and the file forgotten.
DeleteObjectSkipped(q) ==
    /\ request[q].pc = "removing"
    /\ RequestGoes(q, "objectDeleted")
    /\ UNCHANGED <<tables, object, ready, worker, redeliveries, dbErrors>>

DeleteObject(q) ==
    /\ request[q].pc = "removing"
    /\ object' = [object EXCEPT ![request[q].doc] = FALSE]
    /\ RequestGoes(q, "objectDeleted")
    /\ UNCHANGED <<tables, ready, worker, redeliveries, dbErrors>>

\* Mutant: the file is gone when the storage error is reported.
DeleteObjectFailsLate(q) ==
    /\ request[q].pc = "removing"
    /\ object' = [object EXCEPT ![request[q].doc] = FALSE]
    /\ Respond(q, "502")
    /\ UNCHANGED <<tables, ready, worker, redeliveries, dbErrors>>

DeleteObjectFails(q) ==
    /\ request[q].pc = "removing"
    /\ Respond(q, "502")
    /\ OnlyRequestMoves

\* Mutant: no ON DELETE CASCADE.
DeleteDocumentRow(q) ==
    LET d == request[q].doc IN
    /\ request[q].pc = "objectDeleted"
    /\ ~RowLocked(d)
    /\ ~Pinned(d)
    /\ document' = [document EXCEPT ![d] = "absent"]
    /\ Respond(q, "200")
    /\ UNCHANGED <<run, pages, halfFailed, object, ready, worker, redeliveries, dbErrors>>

\* DELETE FROM documents, and what the foreign keys cascade to. It waits for
\* row locks of other transactions.
DeleteDocument(q) ==
    LET d == request[q].doc IN
    /\ request[q].pc = "objectDeleted"
    /\ ~RowLocked(d)
    /\ ~Pinned(d)
    /\ document' = [document EXCEPT ![d] = "absent"]
    /\ run' = [run EXCEPT ![d] = [n \in Attempts |-> "none"]]
    /\ pages' = [pages EXCEPT ![d] = [n \in Attempts |-> 0]]
    /\ halfFailed' = halfFailed \ {d}
    /\ Respond(q, "200")
    /\ UNCHANGED <<object, ready, worker, redeliveries, dbErrors>>

DeleteDocumentFails(q) ==
    /\ request[q].pc = "objectDeleted"
    /\ dbErrors < MaxDbErrors
    /\ dbErrors' = dbErrors + 1
    /\ Respond(q, "500")
    /\ UNCHANGED <<tables, object, ready, worker, redeliveries>>

-----------------------------------------------------------------------------
\* The API process dies in the middle of a request: an open transaction is
\* rolled back and nothing resumes the rest of the handler.
ApiCrash(q) ==
    /\ request[q].pc \notin {"idle", "done"}
    /\ request' = [request EXCEPT ![q].pc = "done", ![q].reply = "crashed",
          ![q].readFailed = {},
          ![q].attempt = IF request[q].pc = "locked" THEN 0 ELSE @]
    /\ OnlyRequestMoves

UploadStep(q) ==
    \/ \E d \in Documents : StoreUpload(q, d) \/ StoreUploadFails(q, d)
    \/ InsertDocument(q)
    \/ InsertDocumentFails(q)
    \/ RefreshDocument(q)
    \/ RefreshDocumentFails(q)
    \/ RemoveStoredUpload(q)

ProcessStep(q) ==
    \/ \E d \in Documents : CheckProcess(q, d)
    \/ LockDocument(q)
    \/ CreateRun(q)
    \/ EnqueueTask(q)
    \/ EnqueueTaskFails(q)
    \/ ReadUndoneRun(q)
    \/ ReadUndoneDocument(q)
    \/ UndoCreateRun(q)
    \/ ProcessFails(q)

RemoveStep(q) ==
    \/ \E d \in Documents : CheckRemove(q, d)
    \/ DeleteObject(q)
    \/ DeleteObjectFails(q)
    \/ DeleteDocument(q)
    \/ DeleteDocumentFails(q)

=============================================================================
