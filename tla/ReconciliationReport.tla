-------------------------- MODULE ReconciliationReport --------------------------
(***************************************************************************)
(* From the pages of a policy document to the report of its reconciliation.*)
(* The findings of the run were made of the extracted fields and of the    *)
(* policy in the database; one of its review tasks is being worked on, as  *)
(* in ReviewTask, while the report is loaded: four statements, each of     *)
(* which sees what is committed when it runs. Deleting the document        *)
(* removes run, findings and tasks at once.                                *)
(***************************************************************************)
EXTENDS ReviewTask, ReconciliationRules, PolicyFieldExtraction

CONSTANTS
    Documents,           \* what a document may say: sets of pages
    Policy,              \* the database policy: its values, state, payment, duplicate
    ExcludeCancelled

\* The rules that compare a field, REC002 with the policy number again.
FieldOfRule ==
    [REC001 |-> "policy_number", REC002 |-> "policy_number", REC003 |-> "customer_name",
     REC004 |-> "carrier_name", REC005 |-> "plan_name", REC006 |-> "effective_date",
     REC007 |-> "termination_date", REC008 |-> "signature_date", REC009 |-> "premium",
     REC010 |-> "policy_status"]

Compare(expected, actual) ==
    CASE expected = Missing /\ actual = Missing -> "bothMissing"
      [] expected = Missing /\ actual # Missing -> "databaseMissing"
      [] expected # Missing /\ actual = Missing -> "documentMissing"
      [] expected = actual /\ actual # Missing -> "equal"
      [] OTHER -> "different"

\* What the rules see; the policy is looked up by the number that was extracted.
EvidenceOf(fields) ==
    LET compared(f) == Compare(Policy.values[f], fields[f].value)
    IN  [confident |-> ExtractionIsConfident(fields),
         policy |-> IF compared("policy_number") = "equal" THEN "same" ELSE "none",
         duplicate |-> Policy.duplicate,
         customer |-> compared("customer_name"), carrier |-> compared("carrier_name"),
         plan |-> compared("plan_name"), effective |-> compared("effective_date"),
         termination |-> compared("termination_date"),
         signature |-> compared("signature_date"), premium |-> compared("premium"),
         policyStatus |-> compared("policy_status"),
         state |-> Policy.state, payment |-> Policy.payment,
         cited |-> \E f \in FieldNames : fields[f].page # Missing]

\* The findings of a document, each with the page and the value it speaks of.
FindingsOf(pages) ==
    LET fields == ExtractPolicyFields(pages)
        results == EvaluatePolicyReconciliation(EvidenceOf(fields), ExcludeCancelled)
        source(rule) == IF rule \in DOMAIN FieldOfRule THEN fields[FieldOfRule[rule]] ELSE NotFound
    IN  [rule \in DOMAIN results |->
            [status |-> results[rule].status, severity |-> results[rule].severity,
             page |-> source(rule).page, value |-> source(rule).value]]

\* Computed once: neither the pages nor the findings of a run change.
Stored == [pages \in Documents |-> FindingsOf(pages)]

\* The task that ReviewTask is about, of those of the run.
TaskRule == [pages \in Documents |-> CHOOSE rule \in DOMAIN ReviewTasks(Stored[pages]) : TRUE]

ASSUME DocumentsAssumption ==
    \A pages \in Documents :
        /\ SourcePagesOK(pages)
        /\ DOMAIN ReviewTasks(Stored[pages]) # {}

\* An entry of a report is never taken for the task that is gone.
ASSUME NoEntryAssumption ==
    NoTask \notin [priority : {"high", "medium", "low"}, row : [Columns -> Cells]]

VARIABLES
    pages,    \* of the document
    report    \* progress of the request and what it has loaded

reportVars == <<task, request, pages, report>>

-----------------------------------------------------------------------------
\* load_reconciliation_report_data.

NewReport ==
    [pc |-> "idle", reply |-> "none", run |-> Missing, named |-> FALSE,
     findings |-> <<>>, tasks |-> <<>>, format |-> "none"]

Counts(findings, status) ==
    Cardinality({rule \in DOMAIN findings : findings[rule].status = status})

\* The counters stand in the run.
RunToDict(findings) ==
    [total |-> Cardinality(DOMAIN findings), passed |-> Counts(findings, "passed"),
     failed |-> Counts(findings, "failed"), review |-> Counts(findings, "needs_review")]

ReviewTaskToDict(rule, priority) ==
    [priority |-> priority, row |-> IF rule = TaskRule[pages] THEN task ELSE NewTask]

Load(step, loaded) ==
    /\ report' = [loaded EXCEPT !.pc = step]
    /\ UNCHANGED <<task, request, pages>>

AnswerReport(reply) ==
    /\ report' = [NewReport EXCEPT !.pc = "done", !.reply = reply]
    /\ UNCHANGED <<task, request, pages>>

LoadRun ==
    /\ report.pc = "idle"
    /\ IF task = NoTask THEN AnswerReport("404")
       ELSE Load("run", [report EXCEPT !.run = RunToDict(Stored[pages])])

\* Without its name the report is of "document".
LoadDocumentName ==
    /\ report.pc = "run"
    /\ Load("name", [report EXCEPT !.named = (task # NoTask)])

LoadFindings ==
    /\ report.pc = "name"
    /\ Load("findings",
            [report EXCEPT !.findings = IF task = NoTask THEN <<>> ELSE Stored[pages]])

LoadReviewTasks ==
    /\ report.pc = "findings"
    /\ LET priorities == ReviewTasks(Stored[pages])
       IN  Load("loaded",
                [report EXCEPT !.tasks =
                   IF task = NoTask THEN <<>>
                   ELSE [rule \in DOMAIN priorities |-> ReviewTaskToDict(rule, priorities[rule])]])

ReportFails ==
    /\ report.pc \in {"idle", "run", "name", "findings"}
    /\ AnswerReport("500")

\* generate_reconciliation_report
GenerateReport ==
    /\ report.pc = "loaded"
    /\ \E format \in {"csv", "xlsx"} :
          Load("done", [report EXCEPT !.reply = "200", !.format = format])

-----------------------------------------------------------------------------
\* The content of a report.

\* Mutant: only the findings with a task.
BuildReviewedCsvRows(data) ==
    {[rule |-> rule, finding |-> data.findings[rule], task |-> data.tasks[rule]] :
        rule \in DOMAIN data.findings \intersect DOMAIN data.tasks}

\* _build_flat_csv_rows: a row for each finding, with the task made for it.
BuildFlatCsvRows(data) ==
    {[rule |-> rule, finding |-> data.findings[rule],
      task |-> IF rule \in DOMAIN data.tasks THEN data.tasks[rule] ELSE NoTask] :
        rule \in DOMAIN data.findings}

\* _write_summary_sheet: the counters of the run beside a count of the findings.
SummarySheet(data) ==
    [metrics |-> data.run,
     breakdown |-> [status \in FindingStatus |-> Counts(data.findings, status)]]

\* build_reconciliation_xlsx; the findings and the tasks fill a sheet each.
Workbook(data) ==
    [summary |-> SummarySheet(data), findings |-> data.findings, reviewTasks |-> data.tasks]

-----------------------------------------------------------------------------
ReportInit ==
    /\ Init
    /\ pages \in Documents
    /\ report = NewReport

Report ==
    \/ LoadRun \/ LoadDocumentName \/ LoadFindings \/ LoadReviewTasks
    \/ ReportFails \/ GenerateReport

ReportNext == Report \/ (Next /\ UNCHANGED <<pages, report>>)

ReportSpec == ReportInit /\ [][ReportNext]_reportVars

-----------------------------------------------------------------------------
\* Properties.

Delivered == report.pc = "done" /\ report.reply = "200"

(***************************************************************************)
(* A report is of one state of its run: unless the document was removed    *)
(* meanwhile, the CSV has a row for each check that was counted, and every *)
(* finding that asks for a review has its task; the summary counts the     *)
(* findings as the run did. What is missing of a removed document is all   *)
(* that was read after its removal, and never a task without its finding.  *)
(***************************************************************************)
ReportIsConsistent ==
    Delivered =>
        LET rows == BuildFlatCsvRows(report)
            workbook == Workbook(report)
            summary == workbook.summary
        IN  /\ task # NoTask =>
                  /\ report.named
                  /\ Cardinality(rows) = summary.metrics.total
                  /\ summary.breakdown["passed"] = summary.metrics.passed
                  /\ summary.breakdown["failed"] = summary.metrics.failed
                  /\ summary.breakdown["needs_review"] = summary.metrics.review
                  /\ \A row \in rows : ShouldCreateReviewTask(row.finding) => row.task # NoTask
            /\ DOMAIN workbook.reviewTasks \subseteq {row.rule : row \in rows}
            /\ ~report.named => rows = {} /\ DOMAIN workbook.findings = {}

\* The texts of page p from which the value of a field may be read.
Gave(p, field, value) ==
    \/ \E c \in ExtractLabeledCandidates(p, field) : c.value = value
    \/ field = "policy_number" /\ p.pattern = value

(***************************************************************************)
(* A reviewer can trust the page that a finding names: the value that was  *)
(* compared stands on it, although every field is chosen among the         *)
(* candidates of all pages; and when a value was read with less confidence *)
(* than asked for, the report has a task that says so.                     *)
(***************************************************************************)
FindingsAreTraceable ==
    Delivered =>
        /\ \A rule \in DOMAIN report.findings \intersect DOMAIN FieldOfRule :
              report.findings[rule].value # Missing =>
                 \E p \in pages : p.number = report.findings[rule].page
                    /\ Gave(p, FieldOfRule[rule], report.findings[rule].value)
        /\ (DOMAIN report.tasks # {} /\ \E f \in FieldNames :
                ExtractPolicyFields(pages)[f] # NotFound
                /\ ExtractPolicyFields(pages)[f].confidence < MinimumConfidence) =>
              "REC012" \in DOMAIN report.tasks

=============================================================================
