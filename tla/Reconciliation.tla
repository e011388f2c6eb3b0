---------------------------- MODULE Reconciliation ----------------------------
(***************************************************************************)
(* POST /reconciliation/documents/{id}/run: start_document_reconciliation  *)
(* and run_policy_document_reconciliation, in one transaction per request. *)
(*                                                                         *)
(* The documents around it behave as DocumentPublication says, which the   *)
(* document pipeline is shown to implement: while a reconciliation is under*)
(* way its document can be removed, its processing run completed again by  *)
(* a duplicate execution, or withdrawn. The transaction is READ COMMITTED: *)
(* each statement sees what was committed when it ran. Foreign keys hold   *)
(* the rows that its own uncommitted rows refer to.                        *)
(***************************************************************************)
EXTENDS ReconciliationRules

CONSTANTS
    Documents, Attempts,
    Requests,          \* reconciliation requests, one shot each
    Evidences,         \* what extraction and comparison may find on the pages
    NoDocument,
    MaxVersion,        \* bound: executions of one processing run that complete
    MaxDbErrors        \* bound: database errors

ASSUME AttemptsAssumption == Attempts \subseteq Nat \ {0}

ASSUME EvidencesAssumption == Evidences \subseteq Evidence

ASSUME NoDocumentAssumption == NoDocument \notin Documents

ASSUME BoundsAssumption == MaxVersion \in Nat /\ MaxDbErrors \in Nat

VARIABLES
    present, removed, opened, version, shown,   \* the published results
    request,    \* progress of every request, with its uncommitted rows
    saved,      \* the committed reconciliation run of every request, if any
    dbErrors

published == <<present, removed, opened, version, shown>>
vars == <<published, request, saved, dbErrors>>

Publication == INSTANCE DocumentPublication

-----------------------------------------------------------------------------

Step == {"idle", "documentLoaded", "runSelected", "inserted", "evaluated",
         "persisted", "textUnavailable", "committed", "done"}

Reply == {"none", "201", "404", "409", "422", "500", "crashed"}

NoFindings == [rule \in {} |-> Passed]

\* A row of reconciliation_runs with its findings and review tasks; "linked"
\* says that findings refer to rows of document_pages.
RunRecord(doc, attempt, readVersion, status, findings, linked) ==
    [doc |-> doc, attempt |-> attempt, version |-> readVersion, status |-> status,
     findings |-> findings, tasks |-> ReviewTasks(findings), linked |-> linked]

NoRun == RunRecord(NoDocument, 0, 0, "none", NoFindings, FALSE)

NewRequest ==
    [pc |-> "idle", doc |-> NoDocument, attempt |-> 0, version |-> 0,
     findings |-> NoFindings, cited |-> FALSE, reply |-> "none"]

FindingsOK(findings) ==
    \E rules \in {{}, UnmatchedRules, Rules} : findings \in [rules -> FindingRecord]

RequestOK(r) ==
    /\ r.pc \in Step /\ r.reply \in Reply
    /\ r.doc \in Documents \union {NoDocument}
    /\ r.attempt \in Attempts \union {0} /\ r.version \in 0 .. MaxVersion
    /\ FindingsOK(r.findings) /\ r.cited \in BOOLEAN

\* No reader ever sees a run that is still running.
RunOK(s) ==
    /\ s.status \in {"none", "completed", "needs_review", "failed"}
    /\ s.doc \in Documents \union {NoDocument}
    /\ s.attempt \in Attempts \union {0} /\ s.version \in 0 .. MaxVersion
    /\ FindingsOK(s.findings) /\ s.tasks = ReviewTasks(s.findings)
    /\ s.linked \in BOOLEAN

TypeOK ==
    /\ present \subseteq Documents /\ removed \subseteq Documents
    /\ opened \in [Documents -> SUBSET Attempts]
    /\ version \in [Documents -> [Attempts -> 0 .. MaxVersion]]
    /\ shown \in [Documents -> SUBSET Attempts]
    /\ DOMAIN request = Requests /\ \A q \in Requests : RequestOK(request[q])
    /\ DOMAIN saved = Requests /\ \A q \in Requests : RunOK(saved[q])
    /\ dbErrors \in 0 .. MaxDbErrors

Init ==
    /\ Publication!Init
    /\ request = [q \in Requests |-> NewRequest]
    /\ saved = [q \in Requests |-> NoRun]
    /\ dbErrors = 0

-----------------------------------------------------------------------------
\* The request.

\* Whatever ends the request without a commit rolls its rows back.
Answer(q, code) == request' = [request EXCEPT ![q].pc = "done", ![q].reply = code]

AnswerNothingSaved(q, code) ==
    /\ Answer(q, code)
    /\ UNCHANGED <<published, saved, dbErrors>>

DatabaseFails == dbErrors < MaxDbErrors /\ dbErrors' = dbErrors + 1

LoadDocument(q, d) ==
    /\ request[q].pc = "idle"
    /\ request' = [request EXCEPT ![q] =
          IF d \in present
          THEN [NewRequest EXCEPT !.pc = "documentLoaded", !.doc = d]
          ELSE [NewRequest EXCEPT !.pc = "done", !.doc = d, !.reply = "404"]]
    /\ UNCHANGED <<published, saved, dbErrors>>

\* Mutant: the status of the run is not looked at.
SelectLatestRun(q) ==
    /\ request[q].pc = "documentLoaded"
    /\ IF opened[request[q].doc] = {} THEN Answer(q, "409")
       ELSE \E n \in opened[request[q].doc] :
              /\ \A m \in opened[request[q].doc] : m <= n
              /\ request' = [request EXCEPT ![q].pc = "runSelected", ![q].attempt = n]
    /\ UNCHANGED <<published, saved, dbErrors>>

\* The latest attempt among the completed ones.
SelectCompletedRun(q) ==
    LET completed == shown[request[q].doc] IN
    /\ request[q].pc = "documentLoaded"
    /\ IF completed = {} THEN Answer(q, "409")
       ELSE \E n \in completed :
              /\ \A m \in completed : m <= n
              /\ request' = [request EXCEPT ![q].pc = "runSelected", ![q].attempt = n]
    /\ UNCHANGED <<published, saved, dbErrors>>

\* flush() of the run: the foreign keys to document and processing run are
\* checked, and both rows are held until the transaction ends.
InsertRun(q) ==
    /\ request[q].pc = "runSelected"
    /\ request[q].attempt \in opened[request[q].doc]
    /\ request' = [request EXCEPT ![q].pc = "inserted"]
    /\ UNCHANGED <<published, saved, dbErrors>>

InsertRunFails(q) ==
    /\ request[q].pc = "runSelected"
    /\ request[q].attempt \notin opened[request[q].doc]
    /\ AnswerNothingSaved(q, "500")

\* Read the pages, extract the fields, load the database policy and compare.
EvaluatePages(q, e, excludeCancelled) ==
    /\ request[q].pc = "inserted"
    /\ request' = [request EXCEPT
          ![q].pc = "evaluated",
          ![q].version = version[request[q].doc][request[q].attempt],
          ![q].findings = EvaluatePolicyReconciliation(e, excludeCancelled),
          ![q].cited = e.cited]
    /\ UNCHANGED <<published, saved, dbErrors>>

\* No page with usable text: the savepoint is rolled back, the run stays and
\* is marked failed.
EvaluateFindsNoText(q) ==
    /\ request[q].pc = "inserted"
    /\ request' = [request EXCEPT ![q].pc = "textUnavailable",
          ![q].version = version[request[q].doc][request[q].attempt]]
    /\ UNCHANGED <<published, saved, dbErrors>>

\* A ValueError is answered 422, anything unexpected 500; both roll back.
EvaluateRaises(q) ==
    /\ request[q].pc = "inserted"
    /\ \E code \in {"422", "500"} : AnswerNothingSaved(q, code)

PagesReplaced(q) ==
    request[q].cited /\ version[request[q].doc][request[q].attempt] # request[q].version

\* Mutant: findings may refer to pages that are gone.
PersistFindingsUnchecked(q) ==
    /\ request[q].pc = "evaluated"
    /\ request' = [request EXCEPT ![q].pc = "persisted"]
    /\ UNCHANGED <<published, saved, dbErrors>>

PersistFindings(q) ==
    /\ request[q].pc = "evaluated"
    /\ ~PagesReplaced(q)
    /\ request' = [request EXCEPT ![q].pc = "persisted"]
    /\ UNCHANGED <<published, saved, dbErrors>>

\* The foreign key of a cited page fails.
PersistFindingsFails(q) ==
    /\ request[q].pc = "evaluated"
    /\ PagesReplaced(q)
    /\ AnswerNothingSaved(q, "500")

\* Mutant: the status is not set before the commit.
CommitRunStillRunning(q) ==
    LET r == request[q] IN
    /\ r.pc = "persisted"
    /\ saved' = [saved EXCEPT ![q] =
          RunRecord(r.doc, r.attempt, r.version, "running", r.findings, r.cited)]
    /\ request' = [request EXCEPT ![q].pc = "committed"]
    /\ UNCHANGED <<published, dbErrors>>

CommitRun(q) ==
    LET r == request[q] IN
    /\ r.pc = "persisted"
    /\ saved' = [saved EXCEPT ![q] =
          RunRecord(r.doc, r.attempt, r.version, OverallStatus(r.findings), r.findings, r.cited)]
    /\ request' = [request EXCEPT ![q].pc = "committed"]
    /\ UNCHANGED <<published, dbErrors>>

\* Mutant: a failed run is announced like any other.
AnnounceFailedRun(q) ==
    LET r == request[q] IN
    /\ r.pc = "textUnavailable"
    /\ saved' = [saved EXCEPT ![q] =
          RunRecord(r.doc, r.attempt, r.version, "failed", NoFindings, FALSE)]
    /\ Answer(q, "201")
    /\ UNCHANGED <<published, dbErrors>>

CommitFailedRun(q) ==
    LET r == request[q] IN
    /\ r.pc = "textUnavailable"
    /\ saved' = [saved EXCEPT ![q] =
          RunRecord(r.doc, r.attempt, r.version, "failed", NoFindings, FALSE)]
    /\ Answer(q, "422")
    /\ UNCHANGED <<published, dbErrors>>

\* refresh() of the run, its findings and its tasks, in the try of commit().
AnswerRun(q) ==
    /\ request[q].pc = "committed"
    /\ Answer(q, IF saved[q] = NoRun THEN "500" ELSE "201")
    /\ UNCHANGED <<published, saved, dbErrors>>

\* A statement or a commit fails. The handler of a run without text swallows
\* the error of its own commit.
DatabaseErrs(q) ==
    /\ request[q].pc \notin {"idle", "done"}
    /\ DatabaseFails
    /\ Answer(q, IF request[q].pc = "textUnavailable" THEN "422" ELSE "500")
    /\ UNCHANGED <<published, saved>>

ApiCrash(q) ==
    /\ request[q].pc \notin {"idle", "done"}
    /\ AnswerNothingSaved(q, "crashed")

Reconcile(q) ==
    \/ \E d \in Documents : LoadDocument(q, d)
    \/ SelectCompletedRun(q)
    \/ InsertRun(q)
    \/ InsertRunFails(q)
    \/ \E e \in Evidences, excludeCancelled \in BOOLEAN : EvaluatePages(q, e, excludeCancelled)
    \/ EvaluateFindsNoText(q)
    \/ EvaluateRaises(q)
    \/ PersistFindings(q)
    \/ PersistFindingsFails(q)
    \/ CommitRun(q)
    \/ CommitFailedRun(q)
    \/ AnswerRun(q)
    \/ DatabaseErrs(q)
    \/ ApiCrash(q)

-----------------------------------------------------------------------------
\* The documents.

\* The uncommitted run holds a key share lock on the document's row.
HoldsDocument(q, d) ==
    /\ request[q].doc = d
    /\ request[q].pc \in {"inserted", "evaluated", "persisted", "textUnavailable"}

\* The uncommitted findings hold one on the pages they cite.
HoldsPages(q, d, n) ==
    /\ request[q].doc = d /\ request[q].attempt = n
    /\ request[q].pc = "persisted" /\ request[q].cited

\* Runs, findings and review tasks are cascaded away.
RemoveDocument(d) ==
    /\ d \in present
    /\ \A q \in Requests : ~HoldsDocument(q, d)
    /\ Publication!Remove(d)
    /\ saved' = [q \in Requests |-> IF saved[q].doc = d THEN NoRun ELSE saved[q]]
    /\ UNCHANGED <<request, dbErrors>>

\* Mutant: document_page_id cascades instead of being set null.
RepublishCascades(d, n) ==
    /\ version[d][n] < MaxVersion
    /\ \A q \in Requests : ~HoldsPages(q, d, n)
    /\ Publication!Publish(d, n)
    /\ saved' = [q \in Requests |->
          IF saved[q].doc = d /\ saved[q].attempt = n /\ saved[q].linked
          THEN NoRun
          ELSE saved[q]]
    /\ UNCHANGED <<request, dbErrors>>

\* New pages replace the old: document_page_id of saved findings is set null.
Republish(d, n) ==
    /\ version[d][n] < MaxVersion
    /\ \A q \in Requests : ~HoldsPages(q, d, n)
    /\ Publication!Publish(d, n)
    /\ saved' = [q \in Requests |->
          IF saved[q].doc = d /\ saved[q].attempt = n
          THEN [saved[q] EXCEPT !.linked = FALSE]
          ELSE saved[q]]
    /\ UNCHANGED <<request, dbErrors>>

OtherPublication(d) ==
    /\ \/ Publication!Upload(d)
       \/ \E n \in Attempts : Publication!Open(d, n) \/ Publication!Withdraw(d, n)
    /\ UNCHANGED <<request, saved, dbErrors>>

DocumentStep(d) ==
    \/ RemoveDocument(d)
    \/ \E n \in Attempts : Republish(d, n)
    \/ OtherPublication(d)

Next ==
    \/ \E q \in Requests : Reconcile(q)
    \/ \E d \in Documents : DocumentStep(d)

Spec == Init /\ [][Next]_vars

-----------------------------------------------------------------------------
\* Invariants.

Saved(q) == saved[q] # NoRun

(***************************************************************************)
(* The parts of a saved run agree: a failed run has no findings, a run     *)
(* without problems asks nobody for review, and a run that needs review has*)
(* put at least one task before a reviewer, whichever rule objected.       *)
(***************************************************************************)
SavedRunIsWhole ==
    \A q \in Requests : Saved(q) =>
        /\ saved[q].status = "failed" <=> DOMAIN saved[q].findings = {}
        /\ saved[q].status = "needs_review" <=> DOMAIN saved[q].tasks # {}

(***************************************************************************)
(* The answer tells what was saved: 201 a run with findings, 422 at most a *)
(* failed run, and 404 or 409 nothing; while its document exists, a run    *)
(* that was announced stays.                                               *)
(***************************************************************************)
AnswerMatchesRun ==
    \A q \in Requests :
        /\ request[q].reply = "201" /\ request[q].doc \in present =>
              Saved(q) /\ saved[q].status # "failed"
        /\ request[q].reply = "422" /\ Saved(q) => saved[q].status = "failed"
        /\ request[q].reply \in {"404", "409"} => ~Saved(q)
        /\ request[q].reply = "none" /\ Saved(q) => request[q].pc = "committed"

(***************************************************************************)
(* A saved run belongs to a document and an attempt that exist, although   *)
(* both were read in statements before the one that inserted it, and it    *)
(* was made from pages that were published as a completed result.          *)
(***************************************************************************)
SavedRunHasSource ==
    \A q \in Requests : Saved(q) =>
        /\ saved[q].doc \in present
        /\ saved[q].attempt \in opened[saved[q].doc]
        /\ saved[q].version \in 1 .. version[saved[q].doc][saved[q].attempt]

(***************************************************************************)
(* The page a finding is linked to is a page the finding was made from,    *)
(* although another execution may replace the pages at any time between.   *)
(***************************************************************************)
LinkedPagesAreCurrent ==
    \A q \in Requests : saved[q].linked =>
        saved[q].version = version[saved[q].doc][saved[q].attempt]

-----------------------------------------------------------------------------

(***************************************************************************)
(* "Findings preserve expected and actual values": once saved, a run and   *)
(* its findings change only by losing their page links or by going away    *)
(* with their document.                                                    *)
(***************************************************************************)
SavedRunIsFinal ==
    [][\A q \in Requests : Saved(q) =>
          \/ saved'[q] \in {saved[q], [saved[q] EXCEPT !.linked = FALSE]}
          \/ saved'[q] = NoRun /\ saved[q].doc \notin present']_vars

=============================================================================
