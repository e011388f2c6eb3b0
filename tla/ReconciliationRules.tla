------------------------- MODULE ReconciliationRules -------------------------
(***************************************************************************)
(* The deterministic comparison of one extracted policy document with one  *)
(* database policy: twelve rules, REC001 to REC012, each with a status and *)
(* a severity. Values are abstracted to what the rules tell apart, namely  *)
(* how the normalised database value and the normalised document value     *)
(* compare; an evidence record holds those comparisons.                    *)
(***************************************************************************)
EXTENDS FiniteSets, Naturals

FindingStatus == {"passed", "failed", "needs_review", "skipped"}
Severity == {"high", "medium", "low", "info"}
FindingRecord == [status : FindingStatus, severity : Severity]

\* How the two normalised values of a field compare.
Comparison == {"bothMissing", "databaseMissing", "documentMissing", "equal", "different"}

Evidence ==
    [confident : BOOLEAN,                       \* extraction confidence is high enough
     policy : {"none", "same", "different"},    \* database policies with the number
     duplicate : BOOLEAN,                       \* more than one of them
     customer : Comparison, carrier : Comparison, plan : Comparison,
     effective : Comparison, termination : Comparison,
     signature : Comparison, premium : Comparison, policyStatus : Comparison,
     state : {"active", "cancelled", "other"},  \* of the database policy
     payment : {"posted", "none", "unknown"},
     cited : BOOLEAN]                           \* some extracted field names its page

Finding(status, severity) == [status |-> status, severity |-> severity]
Passed == Finding("passed", "info")
Skipped == Finding("skipped", "info")

-----------------------------------------------------------------------------
\* One operator per rule family.

\* Text and date fields.
CompareField(comparison, severity, required) ==
    CASE comparison = "bothMissing" ->
            IF required THEN Finding("needs_review", severity) ELSE Skipped
      [] comparison \in {"databaseMissing", "documentMissing"} ->
            Finding("needs_review", severity)
      [] comparison = "equal" -> Passed
      [] OTHER -> Finding("failed", severity)

ComparePremium(comparison) ==
    CASE comparison = "equal" -> Passed
      [] comparison = "different" -> Finding("failed", "high")
      [] OTHER -> Finding("needs_review", "high")

\* Mutant: a missing signature is noted, but nobody is told.
EvaluateSignatureQuietly(comparison) ==
    CASE comparison \in {"bothMissing", "documentMissing"} -> Finding("needs_review", "low")
      [] comparison \in {"databaseMissing", "equal"} -> Passed
      [] OTHER -> Finding("failed", "high")

EvaluateSignature(comparison) ==
    CASE comparison \in {"bothMissing", "documentMissing"} -> Finding("needs_review", "high")
      [] comparison \in {"databaseMissing", "equal"} -> Passed
      [] OTHER -> Finding("failed", "high")

EvaluateExtractionConfidence(confident) ==
    IF confident THEN Passed ELSE Finding("needs_review", "medium")

EvaluatePaymentPresence(state, payment, excludeCancelled) ==
    CASE excludeCancelled /\ state = "cancelled" -> Skipped
      [] payment = "unknown" -> Finding("needs_review", "medium")
      [] payment = "posted" -> Passed
      [] OTHER -> Finding("failed", IF state = "active" THEN "high" ELSE "medium")

MatchPolicyNumber(policy) ==
    IF policy = "same" THEN Passed ELSE Finding("failed", "high")

DetectDuplicate(duplicate) ==
    IF duplicate THEN Finding("needs_review", "high") ELSE Passed

-----------------------------------------------------------------------------
\* The whole evaluation: a function from rule codes to findings.

UnmatchedRules == {"REC001", "REC012"}

Rules == UnmatchedRules \union
    {"REC002", "REC003", "REC004", "REC005", "REC006", "REC007", "REC008",
     "REC009", "REC010", "REC011"}

EvaluateRule(rule, e, excludeCancelled) ==
    CASE rule = "REC001" -> MatchPolicyNumber(e.policy)
      [] rule = "REC002" -> DetectDuplicate(e.duplicate)
      [] rule = "REC003" -> CompareField(e.customer, "high", TRUE)
      [] rule = "REC004" -> CompareField(e.carrier, "medium", FALSE)
      [] rule = "REC005" -> CompareField(e.plan, "medium", FALSE)
      [] rule = "REC006" -> CompareField(e.effective, "high", TRUE)
      [] rule = "REC007" -> CompareField(e.termination, "medium", FALSE)
      [] rule = "REC008" -> EvaluateSignature(e.signature)
      [] rule = "REC009" -> ComparePremium(e.premium)
      [] rule = "REC010" -> CompareField(e.policyStatus, "medium", FALSE)
      [] rule = "REC011" -> EvaluatePaymentPresence(e.state, e.payment, excludeCancelled)
      [] rule = "REC012" -> EvaluateExtractionConfidence(e.confident)

\* Without a database policy there is nothing to compare with.
EvaluatePolicyReconciliation(e, excludeCancelled) ==
    [rule \in IF e.policy = "none" THEN UnmatchedRules ELSE Rules |->
        EvaluateRule(rule, e, excludeCancelled)]

CountStatus(results, status) ==
    Cardinality({rule \in DOMAIN results : results[rule].status = status})

OverallStatus(results) ==
    IF CountStatus(results, "failed") > 0 \/ CountStatus(results, "needs_review") > 0
    THEN "needs_review"
    ELSE "completed"

-----------------------------------------------------------------------------
\* Which findings become review tasks, in _persist_evaluation.

ShouldCreateReviewTask(finding) ==
    /\ finding.status \in {"failed", "needs_review"}
    /\ finding.severity \in {"high", "medium"}

ReviewPriority(finding) ==
    IF finding.severity \in {"high", "medium"} THEN finding.severity ELSE "low"

\* The review tasks of an evaluation: a function from rules to priorities.
ReviewTasks(results) ==
    [rule \in {r \in DOMAIN results : ShouldCreateReviewTask(results[r])} |->
        ReviewPriority(results[rule])]

=============================================================================
