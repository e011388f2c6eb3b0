# InsightOps AI: specifications, model checking and proofs

TLA+ modules for the parts of InsightOps AI in which concurrency, failure and
ordering decide whether the system is right; TLC configurations that check them
on small instances; and proofs, checked by TLAPS, that the properties of its stateful core
hold for every number of documents, requests, workers and bodies. Every definition is
translated from the source; `PROJECT.json` ("map") names the lines it stands for.

## 1. The system

A workspace uploads insurance documents. The API stores the file in MinIO and a
row in PostgreSQL; on request it creates a *processing run* and sends a Celery
task through Redis; a worker extracts pages, splits them into chunks, embeds and
stores them. Search, question answering and *reconciliation* read the latest
completed run of a document. Reconciliation compares the fields of the document
with the policy in the database and turns objections into *review tasks* that
people resolve. A SQL agent answers questions on the structured tables. A React
frontend drives it all with access and refresh tokens.

What everything below rests on: PostgreSQL at READ COMMITTED; SQLAlchemy
sessions with `autoflush=False` and `expire_on_commit=False`, one per request or
task; endpoints run in a thread pool of several API processes; Celery
acknowledges late (`acks_late`, `reject_on_worker_lost`).

### Components

| component | source (under `src/apps/api/app` unless said) | state | operations | talks to | status |
|---|---|---|---|---|---|
| Document endpoints | `api/v1/endpoints/documents.py`, `services/storage.py` | rows of `documents`, the bucket | upload, process, remove, list, read | MinIO, PostgreSQL, Redis | modelled (validation of uploads and reads left out) |
| Processing worker | `services/document_processing.py`, `src/workers` | runs, pages, chunks, tasks in flight | receive, start, extract, replace pages, complete, fail, acknowledge | PostgreSQL, MinIO, Redis | modelled |
| Published results | the same, seen by readers | latest completed run | appear, be replaced, be withdrawn, disappear | every reader | modelled, as the abstract specification |
| Reconciliation run | `services/policy_reconciliation.py`, `api/v1/endpoints/reconciliation.py` | runs, findings, review tasks | start | published results, policies | modelled |
| Reconciliation rules | `services/reconciliation_rules.py` | none | evaluate | | modelled; normalisation abstracted |
| Review tasks | `api/v1/endpoints/reconciliation.py`, `schemas/reconciliation.py` | task rows | update, list, read | users | modelled |
| Reconciliation reports | `services/reconciliation_reports.py` | none | load, render CSV and XLSX | reconciliation tables | modelled: what is loaded and which rows and sums it becomes; layout left out |
| Policy field extraction | `services/policy_field_extraction.py` | none | find candidates, choose | | candidates, confidence and choice modelled; regular expressions, dates and amounts are part of the data |
| Document extraction | `services/extraction.py` | none | parse PDF, images, CSV, Excel | third-party parsers, OCR | which text becomes which page modelled; parsers and OCR external |
| Chunking | `services/rag_chunking.py` | none | slide a window over a page | | modelled |
| Embedding, indexing | `services/rag_embeddings.py`, `rag_indexing.py` | chunks | embed, store | the model, PostgreSQL | modelled; numbers of a vector left out |
| Retrieval, answering | `services/rag_retrieval.py`, `rag_answering.py` | none | search, cite, answer | published results | search, excerpts and citations modelled; patterns of fields, confidence and wording left out |
| SQL agent | `services/sql_agent_*.py`, `api/v1/endpoints/sql_agent.py` | none | plan, guard, execute | PostgreSQL, read-only | planning, guardrails, results and connections modelled; parsing of SQL abstracted |
| Database sessions | `db/session.py` | connection pool | check out, wait, give back | all requests | modelled for the requests that read |
| Authentication | `services/auth.py`, `core/security.py`, `api/deps.py` | users, tokens | register, login, refresh, check | PostgreSQL | login, refresh and checks modelled with the frontend session; registration, hashing and token encoding left out |
| Frontend session | `src/apps/frontend/src/api/client.ts`, `api/tokenStorage.ts`, `features/auth/AuthContext.tsx` | tokens in storage, one shared refresh, the user shown | request, refresh, retry, login, logout, load | API | modelled |
| Frontend views | `src/apps/frontend/src/features` | query cache | render, poll | API | not modelled |
| Schema, migrations | `db/models`, `migrations` | | constraints, cascades | | the constraints the models depend on, the columns the SQL agent asks for |
| Seed data | `src/scripts`, `src/packages` | | generate, replace | | policies, duplicates, payments modelled; names, premiums, commissions left out |

Several directories (`ocr_service`, `rag_service`, `report_service`,
`validation_service`, `repositories`, most of `packages`) hold empty
placeholders.

### What is hard here

- Two process requests, or a process and a removal, of one document: the active
  run check, the row lock, MinIO and the DELETE are separate steps.
- File and row have no common transaction: any of the two halves of an upload
  or a removal can fail or die.
- A task is sent after the run is committed, and may be taken by the broker
  although `delay()` raised. It is redelivered when a worker is lost or is
  slower than the visibility timeout, so one run may be executed twice at once.
- `refresh()` stands in the same `try` as `commit()` in the upload, the process
  request, the worker, the reconciliation and the review task: what was
  committed is then answered, or recorded, as a failure.
- A reconciliation is one long READ COMMITTED transaction over rows that other
  executions replace and removals cascade away.
- A review task is read without a lock, changed in memory and written back
  column by column.
- All calls of a page share one refresh of the tokens in `localStorage`. Every
  answer acts on what is stored when it arrives: by then the user may have logged
  out, or somebody else in.
- A request that reads holds the connection of its session while it takes a second
  one from the same pool, for the schema and again for the query.
- A chunk is found by offsets in a text that has been normalised and trimmed; a
  window ends and starts at boundaries that are looked for, with an overlap that
  can pull its start back. Chunks and vectors are joined by position.
- Chunks of older runs stay; what may be searched and cited together is decided
  in one statement while newer runs appear. Rows of the insurance tables refer to
  each other without the workspace being part of the key.
- A report is put together from four statements. The page that a finding names has
  to be the one its value was read on, though values of all pages compete.

PROJECT.json lists each of these as a hazard at its line, with the properties
that watch over it or the reason why none does yet.

## 2. The modules

```
 DocumentStore        tables, bucket, queue, progress of requests and workers
   ├─ DocumentsApi    upload, process, remove, step by step
   ├─ DocumentWorker  a task from receipt to acknowledgement
   └─ DocumentPipeline    both, with Next, fairness and properties
        └─ implements DocumentPublication   what readers may rely on
                          └─ environment of Reconciliation
                               └─ ReconciliationRules   the twelve rules
                          └─ environment of QueryService
 ReviewTask           concurrent updates of one task
   └─ ReconciliationReport    a report loaded meanwhile, of findings made by
        ├─ PolicyFieldExtraction   nine fields from the pages of a document, and
        └─ ReconciliationRules     the rules
 DocumentIndexing     one execution of the worker, from the file to the chunks
   ├─ DocumentExtraction   pages of a PDF, image, CSV or Excel file
   └─ TextChunking         the window over a page
        └─ DocumentText    characters and their normalisation (used by both)
 QueryService         the requests that only read, and the connections they hold
   ├─ InsuranceQueries     from a question to the rows of a query
   └─ GroundedAnswers      from a question to chunks, excerpts and citations
 SeededQueries        QueryService in a database with the demonstration data of
   └─ SyntheticData        the generator and the seed
 AuthSession          one page of the frontend and the token checks of the API
```

**DocumentStore, DocumentsApi, DocumentWorker, DocumentPipeline.** A request is
one shot: `Begin` takes it from "idle" with a kind and a document, and its `pc`
names the point in the handler it has reached ("stored", "checked", "locked",
"created", "undo", "undoRead", "undoMark", "removing", "objectDeleted", ...). Everything between two
accesses to shared state is one action, and every way an access can fail is an
action of its own: `StoreUploadFails`, `InsertDocumentFails`,
`RefreshDocumentFails`, `RemoveStoredUpload`, `EnqueueTaskFails` (with and
without the task in the broker), `DeleteObjectFails`,
`DeleteDocumentFails`, `ProcessFails` and `ApiCrash` at any point. The worker
goes through `ReceiveTask`, `SkipRun` or `StartRun`, `Extract`, `ReplacePages`,
`FlushPages`, `CompleteRun`, `RefreshRun`, `AckTask`; an exception is
`ExtractRaises`, `AttemptRaises` or `RefreshRunRaises`, `StartRunErrs` and `FailRunErrs` for database
errors that nothing records, and `WorkerLost` and `TaskTimesOut` for
redelivery. `mark_processing_run_failed`, which both the endpoint and the worker
call, is three steps: it reads the run (`ReadUndoneRun`, `ReadFailedRun`), reads
the document (`ReadUndoneDocument`, `ReadFailedDocument`), and commits
(`UndoCreateRun`, `FailRun`). It locks neither row, and SQLAlchemy leaves a status
that was read as "failed" out of the UPDATE: `readFailed` remembers which.
`halfFailed` is an auxiliary variable, which no guard reads: the documents of
which such a commit changed one row and left the other as somebody else had made
it, until both are next written together. `run[d][n]` is the status of attempt `n`; `pages[d][n]` counts the
executions whose pages and chunks have been committed for it and so stands for
*which* execution wrote them: they are written in one transaction.

**DocumentPublication.** What readers see: documents, attempts opened in order,
results published whole, replaced, withdrawn, removed for good. The pipeline
implements it under a mapping that only looks at the tables and at answered
removals.

**ReconciliationRules.** `reconciliation_rules.py` as operators. A value is
abstracted to how the normalised database value and the normalised document value
compare, which is all the rules look at. `ReviewTasks` says which findings
`_persist_evaluation` turns into tasks.

**Reconciliation.** `POST /reconciliation/documents/{id}/run` as one transaction,
statement by statement: load the document, choose the completed run, insert
the reconciliation run, read pages and evaluate in a savepoint, insert findings
and tasks, commit, refresh, answer. It is composed with DocumentPublication, so
a document may be removed, republished or withdrawn between any two statements.
Foreign keys are modelled by what they check and hold: the uncommitted run holds
the document's row, the uncommitted findings hold the pages they cite, and the
`ON DELETE` rules cascade or set null. Of the exceptions only
DocumentTextUnavailable commits a failed run; a ValueError (422) and
everything else (500) roll back.

**ReviewTask.** `PATCH /reconciliation/review-tasks/{id}`: a body is a function
from the fields it gives, as `model_fields_set` is; `StageUpdate` reads the row,
validates and stages; `CommitUpdate` writes the columns whose staged value
differs from the one that was read, as SQLAlchemy's unit of work does; the row
may have changed, or gone with its document, in between.

**PolicyFieldExtraction, ReconciliationReport.** `extract_policy_fields` as
operators on sets of numbered pages. A line carries the fields whose labels it
begins with and what follows each label; a raw text carries what the normalisers
make of it, so that a text may be a valid name and no valid number. All ways to a
candidate are there (after the label, on one of the next two lines, or by the
look of a policy number), with their confidences and the order of
`_candidate_sort_key`. `FindingsOf` builds the evidence of the rules from the
chosen fields and a database policy, and gives each finding the page of its
field. `ReconciliationReport` extends ReviewTask: `LoadRun`, `LoadDocumentName`,
`LoadFindings` and `LoadReviewTasks` are the four statements of
`load_reconciliation_report_data`, between which the task is updated or the
document removed; `GenerateReport` renders it. `BuildFlatCsvRows` and `Workbook`
say what the files hold.

**DocumentText, DocumentExtraction, TextChunking, DocumentIndexing.** A text is a
sequence of five kinds of characters, which is all that normalisation and window
tell apart. `ExtractDocument` follows the branches of `extraction.py`: the native
text of a PDF page or the recognised words of its rendering, a line per scanned
line; a page per sheet; what is empty or unreadable is refused. DocumentIndexing
is one processing run between its start and its completion: `Extract`, a
`CutChunk` for each round of the loop in `chunk_page_text`, `NextPage`,
`EmbedPassages` with a model that may return too few, too many or unusable
vectors, `SaveIndex` in one transaction. `ExecuteAgain` is a second delivery.
DocumentWorker has the same execution as three steps, and shows what other
processes do between them; here is what they write.

**InsuranceQueries, GroundedAnswers, QueryService.** A question to the SQL agent is
the set of phrases found in it. `DetectIntent` keeps the order of
`detect_sql_agent_intent`; `Requirements` are the columns that a builder demands
and `TableColumns` those that the migration creates; `ValidateSqlAgentQuery` is
the guardrail on what a generated statement contains; `QueryResult` gives the rows
of each query on a database of sets of rows, with every workspace condition where
the SQL has it; `RowLimited` the results a LIMIT may leave. For documents,
`SearchDocumentChunks` picks the latest completed runs and ranks their chunks, and
`GroundedAnswer` chooses excerpts and citations as `build_grounded_answer` does.
QueryService runs both as requests which authenticate, take connections from a
pool, inspect the schema, plan, execute, embed or search, while the documents
behave as DocumentPublication says.

**SyntheticData, SeededQueries.** `build_demo_dataset` as far as the queries see it,
and the replacement of one workspace's rows by `seed_demo_data`. SeededQueries is
QueryService over the database that the seed leaves. MCQueryService puts the
demonstration beside a workspace whose rows refer across workspaces in every way
that the foreign keys allow.

**AuthSession.** JavaScript runs to completion, so an action is what one answer
sets off, with every promise it resolves: `IssueCall` reads the stored token and
calls `fetch`; `HandleCall` is the API's `get_current_user`; `ReceiveAnswer`,
`WaitForRefresh`, `GiveUp` and `FailCall` are the ways through `apiRequest` and
`retryUnauthorizedRequest`, with the time it takes to read the body of a 401
between the last two; `HandleRefresh` is `/auth/refresh`; `AdoptRefresh` and
`AbandonRefresh` settle the shared `refreshRequest` and all calls that wait for
it. `Me` is the call of `/auth/me` that login and the loading screen wait for.
`Login` is `/auth/login` and `saveLoginSession` in one step, `Reload` loses what
is in memory. A token pair is a number, and a refreshed pair belongs to the
session of the pair it was asked for with. `crossed` is an auxiliary variable, which no
guard reads: it becomes TRUE when an answer of one session is acted upon while
another is stored, or when a refresh is adopted while its session is not stored.

**OrderLemmas and the `*Proofs` modules.** OrderLemmas has what the proofs need of
finite sets and strict orders: a non-empty finite set of numbers has a smallest and
a greatest member, and a finite set that is strictly ordered has a first and one at
each rank. The theorems of a component are in the module that is named after it;
those of DocumentStore, DocumentsApi and DocumentWorker are in
DocumentPipelineProofs (types, rows) and DocumentFilesProofs (files, tasks, and the
refinement), those of ReviewTask and PolicyFieldExtraction in
ReconciliationReportProofs, those of the texts and the window in
DocumentIndexingProofs, those of GroundedAnswers and InsuranceQueries in
QueryServiceProofs.

Definitions whose comment begins with "Mutant" are plausible bugs. No action
uses them: PROJECT.json ("mutants") puts each in the place of the definition
after it, and the named property must then fail.

## 3. What is checked

| run | asks | result |
|---|---|---|
| `doc_pipeline` | do rows, files, queue and statuses stay consistent, and is the publication implemented, with 3 requests of any kind, 2 workers, 2 attempts and a redelivery on one document? | holds, 772,000 states |
| `doc_pipeline_liveness` | does every active attempt end, and is a row without its file, or a file without its row, explained? (2 requests, 2 workers, 2 redeliveries, a database error) | holds, 215,000 states |
| `doc_deletion` | "A document cannot be deleted while it is queued or processing." (`documents.py:763`) | violated |
| `doc_upload` | "The document metadata could not be saved." (`documents.py:291`) when 500 is answered | violated |
| `reconciliation` | is what two concurrent reconciliations save whole, sourced, linked to current pages, final, and told truthfully? | holds, 300,000 states |
| `review_task` | what does the unlocked update of a task by 2 requests keep, each with one of 16 bodies, and what does a report show that is loaded meanwhile, of three documents that disagree, lack labels or match no policy? | holds, 460,000 states |
| `review_task_resolution` | "A resolved review task cannot be moved to another status." (`reconciliation.py:255`) | violated |
| `auth_session` | with 2 users, 2 logins and 2 calls beside `Me`, do user, stored session and calls keep together, and is a session lost only for a reason? | holds, 1,900,000 states |
| `auth_session_liveness` | is every call answered or failed, with a fault, a reload and a dying token? | holds, 20,000 states |
| `document_indexing` | is every visible character of every file indexed, at the offsets its chunk names and with its own vector, whatever the window, and does an execution fail only for a reason? | holds, 99,000 states |
| `query_services` | do answers keep to their workspace, say when they are cut, cite one result of a document, find the seeded cases, and come, when two requests share two connections? | holds, 131,000 states |
| `sql_agent_questions` | "Try questions such as: ... 'Show commissions by agent'" (`sql_agent_planner.py:309`) | violated |

The four violations are disagreements of the code with its own messages.

- *Deletion.* `remove_document` looks for an active run without a lock and deletes
  the row later; a process request in between creates a run that is cascaded away
  while its task waits. `NothingOutlivesDocument` and `RemovedForGood` show that
  the damage ends there: the orphaned task writes nothing.
- *Upload.* A failed `refresh()` after the commit removes the file, answers 500,
  and leaves a row that can never be processed.
- *Resolution.* A request that read the task while it was open commits after
  another has resolved it. `ResolvedMovesOnlyByRace` shows that this is the only
  way; `UnnamedColumnsStay` that at least no column is overwritten by a request
  that did not speak of it. The resolver and the time of the lost resolution stay
  on the row.
- *Commissions.* The planner demands a column `amount` or `commission_amount` of
  `insurance_commissions`; the migration creates `gross_amount` and `net_amount`.
  The question that the agent proposes itself, and that the frontend offers as a
  button, ends in an error that no handler catches.

What the steps of `mark_processing_run_failed` allow, and no line denies: the broker
takes a task although `delay()` raised, the attempt fails, and the endpoint's
handler reads the document as failed. A worker to which the task is delivered
again completes the run before the handler commits; the handler then makes the
run failed and leaves the document processed. Nothing repairs it:
the list shows a processed document of which search finds nothing.
`StatusBackedByRuns` has this as its one exception, `halfFailed`, and
`ActiveRunIsNotLost` says that no such handler leaves a run active behind.

What the runs on texts and queries show beyond their properties, and which no
line claims otherwise unless it is quoted:

- With two connections two requests hold one each and wait for another:
  `EveryRequestEnds` holds only because a checkout gives up after `pool_timeout`
  (30 s). The defaults (5 and 10 more) need fifteen such requests at once.
- A cut result is announced when it has as many rows as the limit, also when it
  was complete: `CompleteUnlessLimited` says one direction only.
- `_find_chunk_end` takes the latest boundary in the window, of whatever kind; its
  docstring lists paragraphs before lines and lines before sentences.
- The settings accept an overlap as large as the chunk (`config.py:102-112`), and
  a default number of hits above the allowed one (`114-124`): then every
  execution fails, or every search without a number is answered 400.
- A status such as "not issued yet" is read as active, because the aliases are
  tried in the order of their list (`policy_field_extraction.py:469`); no document
  or test says what it should be, and the MC instance has such a page.
- Conflicting values on different pages make a warning of the extraction, which
  reaches the reviewer only together with a low confidence.
- Results by carrier and by agent are grouped by the shown name, so that namesakes
  are added up.

Related, and not claimed as errors: an explicit `"corrected_value": null` passes
both checks for a corrected value, and later edits may clear notes and value of
a resolved task; `ResolutionIsExplained` says that nothing else does.

Nor is what happens once `crossed` is TRUE, because no line of the repository
says otherwise: a refresh that is answered after a logout stores a session again,
and after another login it replaces that user's tokens by those of the one
before; a call that waits is then repeated as another user; a late 401 clears a
newer session. `SessionsDoNotMix` and `SessionLostForAReason` say that the page is
right until then, whatever else is interleaved. A failed call clears the tokens
without telling the page, which goes on showing its user; a refresh that is lost
on the network ends the session as a refused one does.

### Bounds, and why they are enough

- One document. Documents share no row, file or task; the proofs are for any set.
- Three requests of any kind: two that race and one that prepares or follows (an
  upload, or a second attempt). Two workers: a run executed by both. A handler
  that marks a failure and two executions suffice for every order of its reads
  and its commit among theirs.
- `MaxAttempts` does not bite when it is at least the number of process requests
  that can succeed. `MaxRedeliveries = 1` gives a task two executions. The
  liveness run has `MaxDbErrors = 1`: an unrecorded error happens in each place,
  once. `doc_pipeline` has none, because errors and the steps of the failure
  handler together make too many states; the proofs are for any number.
- Reconciliation: two requests, two attempts, `MaxVersion = 2` executions, and
  five documents: one that agrees, one without a policy, one without a
  signature, one with two differences, one of a cancelled policy with low
  confidence.
- Review tasks: two users, and bodies that assign, start, reopen, resolve in every
  way, edit, clear, and that are refused. Two requests with a report beside them;
  three in `review_task_resolution`; any number in the proofs. One report: it
  writes nothing.
- Indexing: all native texts of up to `MaxRawLength` characters, which cover each
  case of the normalisation, and texts of three words, which are cut up to a dozen
  times; windows of 2 to 5 characters with no overlap, some, the largest that
  moves, and one that is refused. Scans, blank pages, sheets, empty and unreadable
  files. Two executions: a redelivery.
- Queries: two requests and two connections, the smallest pool in which each can
  wait for the other; every intent is asked (status, count, carriers,
  payments, duplicates, unpaid, recent, commissions), with limits below, at and
  above the size of the result. Document 1 has two attempts that cut different
  texts, document 2 is of another workspace. The demonstration data is scaled to
  eight policies, with each of its statuses.
- Sessions: two logins, of one user or of two, two calls that race beside `Me`,
  and two pairs that die: enough for a refresh whose new pair dies before the
  repeated call arrives. Faults and reloads are left to the liveness run.
- Requests are interchangeable in the safety runs (SYMMETRY); never in a
  liveness run, to which `query_services` belongs.

All modules are checked for deadlock; a system at rest takes an explicit
stuttering step (`Rest`, `AllQuiet`), so that any other state without a step is
reported.

### Fairness

`FairSpec` assumes weak fairness of each request that has begun (a thread that
runs continues) and of each worker's `TaskStep` (a Celery worker takes what
waits and goes on). Nothing is assumed of faults, crashes, redelivery, or of
clients sending requests. AuthSession's `FairSpec` assumes that each call and the
refresh go on: the network or the browser ends every `fetch`, although the code
sets no time limit of its own, and callbacks that are due are run. A call that
waits is not helped by its own fairness: `EveryCallSettles` needs the shared
refresh to release it. QueryService's `FairSpec` assumes that each
request's thread goes on, and that who waits for a connection gets one or gives
up: that is `pool_timeout`. A statement that runs is ended by its
`statement_timeout`. No fairness is assumed of arrivals and of the documents.
`EveryAttemptEnds` has two exceptions, and the code has
them too: the API dies between the commit of a run and `delay()`, and a
database error that strikes where no handler records it.

## 4. What is proved

| module | theorems |
|---|---|
| DocumentPipelineProofs | `SpecTypeOK`, `SpecNoAttemptCollision`, `SpecCompletedRunHasPages`, `SpecStatusBackedByRuns`, `SpecNothingOutlivesDocument` |
| DocumentFilesProofs | `SpecMissingFileIsExplained`, `SpecOrphanFileIsExplained`, `SpecRemovedForGood`, `SpecActiveRunIsNotLost`, `SpecCompletedRunIsStable`, `SpecImplementsPublication` |
| ReconciliationProofs | `ReviewMeansTask`, `SpecTypeOK`, `SpecSavedRunIsWhole`, `SpecAnswerMatchesRun`, `SpecSavedRunHasSource`, `SpecLinkedPagesAreCurrent`, `SpecSavedRunIsFinal` |
| ReconciliationReportProofs | `SpecTypeOK`, `SpecUnnamedColumnsStay`, `SpecResolvedMovesOnlyByRace`, `SpecResolutionIsExplained`, `ReportImplementsReviewTask`, `ReportUpdatesAreSafe`, `SpecReportIsConsistent`, `SpecFindingsAreTraceable` |
| AuthSessionProofs | `SpecTypeOK`, `SpecSessionsDoNotMix`, `SpecSessionLostForAReason` |
| QueryServiceProofs | `SpecTypeOK`, `SpecAnswersKeepTheWorkspace`, `SpecCompleteUnlessLimited`, `SpecCitationsShareOneResult`, `SpecSeededCasesAreFound`, `DatasetsHaveTheirScenarios` |
| DocumentIndexingProofs | `SpecTypeOK`, `SpecVisibleTextIsIndexed`, `SpecChunksQuoteTheirPage`, `SpecChunksInReadingOrder`, `SpecVectorsBelongToChunks`, `SpecFailureHasReason` |

They hold for all values of the constants that satisfy the named assumptions, which
TLC evaluates on every run:

- `DocumentStore`, `Reconciliation`: `NoDocument` is no document, the bounds are
  numbers, evidences are well typed;
- `ReviewTask`, `ReconciliationReport`: bodies and users are well typed; pages are
  numbered once each, as the unique constraint of `document_pages` demands; the run
  whose report is made has a task; `NoTask` is no entry of a report;
- `AuthSession`: `Nobody` is no user, `Me` is none of the other calls;
- `DocumentIndexing`: files are well typed, with texts of any length over the five
  kinds of characters; size and overlap are any numbers, also those that the window
  refuses;
- `QueryService`: the pool has a connection; limits are the numbers that the planner
  and `resolve_max_citations` let through; the insurance tables are finite; documents
  are ordered by their identifiers; an attempt that has not been executed has no
  chunks, and distances are numbers;
- `SyntheticData`, `SeededQueries`: the duplicated policies are among the policies, the
  counts are numbers; the insurance tables are what the seed leaves of any others.

Every safety property that a passing run checks is proved.

*Pipeline.* The argument is layered.

1. `TypeInv` is TypeOK with the types of the records' fields at each step of a
   handler.
2. `StoreInv` is relative to it. The properties are not inductive alone: that no
   two requests choose the same attempt needs to know that the row lock has one
   holder (`LockIsExclusive`) and that the number the holder computed is still the
   next (`LockedIsCurrent`); that a completed run has pages needs to know that a
   worker which has flushed pins its run's row (`FlushedHasRun`).
3. `FileInv` relates the bucket to rows and to unfinished requests; ids are drawn
   once, so a removed document cannot come back. `NoneLost` strengthens
   `ActiveRunIsNotLost` to the moments where a task is between two owners.
4. A failure handler that has read its run as failed will not write the run's
   status, so `NoneLost` does not count on it (`Holds`, `BeingQueued`): if the run
   has become active since, whoever started it holds it. The read and the commit
   are lemmas of their own (`HandlerMoves`, `UndoReads`, `MarkRunFailedStore`).
5. `RowWrite` describes any step by the rows of one attempt that it writes. From it
   follow the action property and the refinement: each kind of write is a step of
   DocumentPublication or none.

*Reconciliation.* `ReviewMeansTask` is a fact about the twelve rules and any
evidence: each rule that objects does so with a severity that makes a task.
`IInv` adds to the types what is published (a document is removed for good, what
is shown has been opened, a completed attempt has been executed), what an
unfinished request may rely on in each of its steps (`ProgressOK`: once it has
inserted its run the chosen document and attempt stay, because the uncommitted
row refers to them; once it has inserted findings the cited pages stay), and
what holds of a saved run and of an answer (`SavedOK`, `AnswerOK`). Without
`ProgressOK` the properties are not inductive: a commit would save what the
request remembers, and nothing would say that it is still there.

*Review task.* `TypedInv` adds to the types that a staged row is the row that was
read, changed as a validated body says. An unnamed column is then never in the
UPDATE, and a status is only written by a request that was allowed to move the
status *it read*. `NotesInv` and `ValueInv` say that what a staged request read
and therefore does not write again is still there, unless somebody cleared it.

*Reports.* The report reads and never writes, so `ReportSpec` implements ReviewTask's
`Spec` and inherits its theorems. `ReportInv` says what has been loaded after each
statement: either all of it, or nothing because the document was gone by then. It
rests on `RemovalIsFinal`: a removed task does not come back between two
statements. That the rows of the CSV are as many as the run counted is
`OneRowEach`, a bijection between findings and rows.

*Sessions.* `SafeInv` says what is known of a call in each of its stages
(`CallInv`), of the shared refresh (`RefreshInv`) and of the page (`PageInv`).
The key is how a refused call came to be: a call is refused in the stored session
only after it was repeated with a pair that has died since, because a refused
refresh has cleared that session before. This needs to know that a refresh which
is under way for the stored session is for the stored pair itself, and that a
login opens a session no earlier pair belongs to.

*Field extraction.* That the value of a finding stands on the page it names is easy
once it is known which candidate is chosen, and the choice is a CHOOSE: of the first
in the order of `_candidate_sort_key`. The order is strict on the candidates of
one document (`Preferred` ends with the page and the line), there are finitely
many of them, and then there is a first (`First` in OrderLemmas).

*Queries.* `ServiceInv` says of each request what it holds and knows at its step
(`Served`), that all together hold no more connections than the pool has (`PoolOK`), and
that each document has finitely many attempts, and none when it is gone (`PublishedOK`).
An answer of the SQL agent is a set of rows that `RowLimited` allows: `LimitedRows`
shows that it is everything unless it is as large as the limit, which is when the answer
says so, and `OwnRowsSuffice` that the rows of other workspaces change no query,
although its own rows may refer to them. For citations, the ranks of the chunks found
are a sequence (`SearchInOrder`), so that a citation is one of the chunks that one
statement has read, and these are of the latest completed attempt of their document.

*Demonstration data.* Everything rests on `SourcesDiffer`: the second rows of the
duplicates are numbered by their place among the duplicates (`Places`), after all first
rows, so that no two rows share a source and a payment belongs to one row. Then every
number has one row or two (`PoliciesOfNumber`), the dataset passes the checks that
`build_demo_dataset` makes of it (`DatasetsHaveTheirScenarios`), and the seed goes
through. `DuplicatesQuery` and `MissingPaymentsQuery` compute the two queries on what it
leaves, for every size of the data and every database there was before.

*Indexing.* The proof has four parts.

1. Texts. `NormalizeText` and `strip` change nothing in a text which has been through
   them, so that the offsets that a chunk is cut at are offsets of the stored page.
   A normalised text is joined from its lines by a recursive function; that the
   function exists and gives a text of lines is shown by the smallest
   counterexample, on its domain.
2. Window. `ChunkEndBounds`, `ChunkEndGrows`, `Trimmed` and `NextStartIs`: an end lies
   beyond its start, a later start does not end earlier, trimming drops white space
   only, and the next start is greater than the last one and beyond no visible
   character that has not been cut. The last is what `VisibleTextIsIndexed` needs and
   what the overlap could break.
3. Loop. `RoundOK` is one round of the `while` in `chunk_page_text`.
4. Execution. `IndexInv` adds to the properties what is true in the middle of an
   execution: `Progress` says that earlier pages are covered and the current one is up
   to `start`, at which there is a visible character or the end of the page; `ChunksOK`
   that the chunks cut so far quote their pages and follow each other; `VectorsMatch`
   that a vector is the one of the chunk at its place, which holds only after the
   model's answer has been counted. Without `Progress` nothing follows when the loop
   ends. That no chunk ends before an earlier one comes from `ChunkEndGrows`, since
   trimming may shorten either.

*Model-checked only:* the liveness properties (`EveryAttemptEnds`,
`EveryCallSettles`, `EveryRequestEnds`), which are beyond the prover.

## 5. Abstractions

- Validation of uploads (413, 415, 422), listing, reading and downloads change no
  state and are left out, and so are error messages, timestamps and metadata.
- The load of the document and the active run check of a process request are one
  step, and so is the transaction that starts a run: the run is read under its
  lock, and the window in which the document's status, read as "processing",
  is made something else before the commit is left out. An exception, the
  rollback and the read of the run that follows it are one step; an attempt that
  raises before its second transaction marks what its session still remembers,
  because a rollback without a transaction expires nothing.
- Database deadlocks and lost connections are covered by the `*Fails` and `*Errs`
  actions, an ambiguous answer of MinIO by `ApiCrash` after the call.
- Redis loses no task; redelivery is modelled from the configuration in
  `celery_app.py` and marked external.
- Policies, payments and users do not change while a request runs: no endpoint
  changes them.
- One tab: two tabs share `localStorage` and not `refreshRequest`. The stored copy
  of the user is never read. A changed role is part of the death of an access
  token. The cancelled first effect of React's development mode is left out.
- Extraction: character recognition, PDF and table parsers are external and give any
  text; the confidence of a scan is a number of the page in PolicyFieldExtraction
  and left out in DocumentExtraction. A table becomes the text of its cells; its
  header and separators count as text.
- Embeddings: a vector is the text it was made of, or an unusable one. Distances are
  numbers given to the chunks.
- SQL: what a generated statement contains is computed from the intent and the
  tables it names, and the guardrails look at that; a client cannot send SQL. The
  503 of an unsupported bind cannot be reached with an Engine. Two of the
  connections an inspection takes one after the other stand as one.
- Answers: a structured field is one of a few with its value in the text; the
  truncation and case folding of citations, the confidence and the wording are left
  out.
- Policies do not change while a report or a query runs: the script that seeds them
  is run beside the system, in one transaction.
- Pages and findings of a report belong to one run. A task other than the one that
  is updated keeps its first state.
- The database cannot fail during a review update in more ways than `CommitFails`
  and `RefreshFails`, both possible at any time.

### Not modelled

- *Frontend views*: they render what queries return, poll, and keep no state of
  their own that outlives an answer; their session is AuthSession.
- *Registration, password hashing and token encoding* (`services/auth.py`,
  `core/security.py`): sequential, without shared state but a unique e-mail
  address.
- *Layout of reports* (`reconciliation_reports.py:777-2000`): cells, widths, fonts,
  the protection against formulas.
- *Patterns* of policy fields and of answers: regular expressions over natural
  text. Dates, amounts and names are normalised before they are compared; which
  texts they accept is part of the data.
- *Migrations* as such, the tables of conversations, agent runs, validations and
  reports, which no code writes yet, and the empty services.

## 6. Plan

Done: the document pipeline with its abstract specification, reconciliation, rules,
review tasks, reports, sessions, field extraction, document extraction, chunking,
indexing, retrieval, answering and the SQL agent, with proofs of their safety
properties, those of the demonstration data and of the steps of
`mark_processing_run_failed` included.
What could follow, in this order:

1. That DocumentIndexing implements the three steps of DocumentWorker.
2. That `NormalizeStatus` depends on the order of its aliases, as a property of
   PolicyFieldExtraction.
