------------------------- MODULE ReconciliationProofs -------------------------
(***************************************************************************)
(* Proofs about ReconciliationRules and Reconciliation: whatever the       *)
(* evidence, a run that needs review has a task; and what is saved by any  *)
(* number of concurrent reconciliations is whole, has its source, is final,*)
(* and agrees with the answers.                                            *)
(***************************************************************************)
EXTENDS Reconciliation, OrderLemmas

-----------------------------------------------------------------------------
\* The rules.

LEMMA RulesFinite == IsFiniteSet(Rules)
<1>1. Rules = {"REC001", "REC012", "REC002"} \union {"REC003", "REC004", "REC005"}
                \union {"REC006", "REC007", "REC008"} \union {"REC009", "REC010", "REC011"}
  BY DEF Rules, UnmatchedRules
<1>2. IsFiniteSet({"REC001", "REC012", "REC002"} \union {"REC003", "REC004", "REC005"})
  BY TripleFinite, FS_Union
<1>3. IsFiniteSet({"REC001", "REC012", "REC002"} \union {"REC003", "REC004", "REC005"}
                    \union {"REC006", "REC007", "REC008"})
  BY <1>2, TripleFinite, FS_Union
<1> QED BY <1>1, <1>3, TripleFinite, FS_Union

\* count_status is positive when some finding has the status.
LEMMA CountIsPositive ==
    ASSUME NEW results, DOMAIN results \subseteq Rules, NEW status
    PROVE  CountStatus(results, status) > 0
              <=> \E rule \in DOMAIN results : results[rule].status = status
<1> DEFINE S == {rule \in DOMAIN results : results[rule].status = status}
<1>1. IsFiniteSet(S)
  BY RulesFinite, FS_Subset
<1>2. Cardinality(S) \in Nat /\ (Cardinality(S) = 0 <=> S = {})
  BY <1>1, FS_CardinalityType, FS_EmptySet
<1>3. CountStatus(results, status) = Cardinality(S)
  BY DEF CountStatus
<1> HIDE DEF S
<1>4. CountStatus(results, status) > 0 <=> S # {}
  BY <1>2, <1>3
<1> QED BY <1>4 DEF S

\* Every rule's verdict is a finding, and an objection is never of low severity.
LEMMA VerdictsObject ==
    ASSUME NEW e \in Evidence, NEW x \in BOOLEAN, NEW rule \in Rules
    PROVE  /\ EvaluateRule(rule, e, x) \in FindingRecord
           /\ EvaluateRule(rule, e, x).status \in {"failed", "needs_review"} =>
                 EvaluateRule(rule, e, x).severity \in {"high", "medium"}
<1> DEFINE OK(f) == /\ f \in FindingRecord
                    /\ f.status \in {"failed", "needs_review"} => f.severity \in {"high", "medium"}
<1>1. \A s \in {"failed", "needs_review"}, v \in {"high", "medium"} : OK(Finding(s, v))
  BY DEF Finding, FindingRecord, FindingStatus, Severity
<1>2. OK(Passed) /\ OK(Skipped)
  BY DEF Passed, Skipped, Finding, FindingRecord, FindingStatus, Severity
<1> HIDE DEF OK
<1>3. \A c : OK(CompareField(c, "high", TRUE)) /\ OK(CompareField(c, "medium", FALSE))
  BY <1>1, <1>2 DEF CompareField
<1>4. \A c : OK(ComparePremium(c)) /\ OK(EvaluateSignature(c))
  BY <1>1, <1>2 DEF ComparePremium, EvaluateSignature
<1>5. OK(EvaluateExtractionConfidence(e.confident)) /\ OK(MatchPolicyNumber(e.policy))
      /\ OK(DetectDuplicate(e.duplicate))
  BY <1>1, <1>2 DEF EvaluateExtractionConfidence, MatchPolicyNumber, DetectDuplicate
<1>6. OK(EvaluatePaymentPresence(e.state, e.payment, x))
  BY <1>1, <1>2 DEF EvaluatePaymentPresence
<1>7. OK(EvaluateRule(rule, e, x))
  <2>1. CASE rule \in {"REC001", "REC002", "REC012"}
    BY <1>5, <2>1 DEF EvaluateRule
  <2>2. CASE rule \in {"REC003", "REC004", "REC005"}
    BY <1>3, <2>2 DEF EvaluateRule
  <2>3. CASE rule \in {"REC006", "REC007", "REC010"}
    BY <1>3, <2>3 DEF EvaluateRule
  <2>4. CASE rule \in {"REC008", "REC009", "REC011"}
    BY <1>4, <1>6, <2>4 DEF EvaluateRule
  <2> QED BY <2>1, <2>2, <2>3, <2>4 DEF Rules, UnmatchedRules
<1> QED BY <1>7 DEF OK

LEMMA EvaluationTyped ==
    ASSUME NEW e \in Evidence, NEW x \in BOOLEAN
    PROVE  /\ FindingsOK(EvaluatePolicyReconciliation(e, x))
           /\ DOMAIN EvaluatePolicyReconciliation(e, x) # {}
           /\ DOMAIN EvaluatePolicyReconciliation(e, x) \subseteq Rules
<1> DEFINE R == IF e.policy = "none" THEN UnmatchedRules ELSE Rules
           f == EvaluatePolicyReconciliation(e, x)
<1>1. R \in {UnmatchedRules, Rules} /\ R \subseteq Rules /\ R # {}
  BY DEF Rules, UnmatchedRules
<1>2. f = [rule \in R |-> EvaluateRule(rule, e, x)]
  BY DEF EvaluatePolicyReconciliation
<1> HIDE DEF R, f
<1>3. f \in [R -> FindingRecord]
  BY <1>1, <1>2, VerdictsObject
<1>4. FindingsOK(f)
  BY <1>1, <1>3 DEF FindingsOK
<1>5. DOMAIN f = R
  BY <1>2
<1> QED BY <1>1, <1>4, <1>5 DEF f

(***************************************************************************)
(* Whatever is found in a document, its run needs review exactly if some   *)
(* finding is put before a reviewer: overall_status and                    *)
(* _should_create_review_task, written in two files, agree.                *)
(***************************************************************************)
THEOREM ReviewMeansTask ==
    \A e \in Evidence, x \in BOOLEAN :
        OverallStatus(EvaluatePolicyReconciliation(e, x)) = "needs_review"
            <=> DOMAIN ReviewTasks(EvaluatePolicyReconciliation(e, x)) # {}
<1> SUFFICES ASSUME NEW e \in Evidence, NEW x \in BOOLEAN
             PROVE  OverallStatus(EvaluatePolicyReconciliation(e, x)) = "needs_review"
                       <=> DOMAIN ReviewTasks(EvaluatePolicyReconciliation(e, x)) # {}
  OBVIOUS
<1> DEFINE f == EvaluatePolicyReconciliation(e, x)
<1>1. DOMAIN f \subseteq Rules
  BY EvaluationTyped
<1>2. \A rule \in DOMAIN f : f[rule].status \in {"failed", "needs_review"} =>
         f[rule].severity \in {"high", "medium"}
  BY <1>1, VerdictsObject DEF EvaluatePolicyReconciliation
<1> HIDE DEF f
<1>3. OverallStatus(f) = "needs_review"
         <=> \E rule \in DOMAIN f : f[rule].status \in {"failed", "needs_review"}
  BY <1>1, CountIsPositive DEF OverallStatus
<1>4. DOMAIN ReviewTasks(f) # {}
         <=> \E rule \in DOMAIN f : f[rule].status \in {"failed", "needs_review"}
  BY <1>2 DEF ReviewTasks, ShouldCreateReviewTask
<1> QED BY <1>3, <1>4 DEF f

-----------------------------------------------------------------------------
\* The inductive invariant.

\* The published results, as far as reconciliation needs them.
PublishedOK ==
    /\ present \subseteq Documents /\ removed \subseteq Documents
    /\ opened \in [Documents -> SUBSET Attempts]
    /\ version \in [Documents -> [Attempts -> 0 .. MaxVersion]]
    /\ shown \in [Documents -> SUBSET Attempts]
    /\ present \cap removed = {}
    /\ \A d \in Documents : opened[d] # {} => d \in present
    /\ \A d \in Documents : shown[d] \subseteq opened[d]
    /\ \A d \in Documents : \A n \in shown[d] : version[d][n] >= 1

\* Attempt n of d exists and has been completed by some execution.
Sourced(d, n) ==
    /\ d \in present /\ n \in Attempts
    /\ n \in opened[d] /\ version[d][n] >= 1

Evaluated(findings) ==
    \E e \in Evidence, x \in BOOLEAN : findings = EvaluatePolicyReconciliation(e, x)

Holding == {"inserted", "evaluated", "persisted", "textUnavailable"}

\* The uncommitted rows have their source, because they hold it.
ProgressOK(q) ==
    LET r == request[q] IN
    /\ r.pc \notin {"idle", "done"} => r.doc \in present \union removed
    /\ r.pc = "runSelected" => r.doc \in removed \/ Sourced(r.doc, r.attempt)
    /\ r.pc \in Holding => Sourced(r.doc, r.attempt)
    /\ r.pc \in Holding \ {"inserted"} => r.version \in 1 .. version[r.doc][r.attempt]
    /\ r.pc \in {"evaluated", "persisted"} => Evaluated(r.findings)
    /\ r.pc = "persisted" /\ r.cited => r.version = version[r.doc][r.attempt]

\* So have the committed ones.
SavedOK(q) ==
    LET s == saved[q] IN
    /\ s.status = "none" => s = NoRun
    /\ Saved(q) =>
          /\ request[q].pc \in {"committed", "done"}
          /\ s.doc = request[q].doc /\ Sourced(s.doc, s.attempt)
          /\ s.version \in 1 .. version[s.doc][s.attempt]
          /\ s.linked => s.version = version[s.doc][s.attempt]
          /\ \/ s.status = "failed" /\ s.findings = NoFindings
             \/ s.status = OverallStatus(s.findings) /\ Evaluated(s.findings)

AnswerOK(q) ==
    LET r == request[q] IN
    /\ r.pc = "committed" \/ r.reply = "201" =>
          r.doc \in removed \/ (Saved(q) /\ saved[q].status # "failed")
    /\ r.reply = "422" /\ Saved(q) => saved[q].status = "failed"
    /\ r.reply \in {"404", "409"} => ~Saved(q)
    /\ r.pc = "done" <=> r.reply # "none"

Good(q) ==
    /\ RequestOK(request[q]) /\ RunOK(saved[q])
    /\ ProgressOK(q) /\ SavedOK(q) /\ AnswerOK(q)

IInv ==
    /\ PublishedOK
    /\ DOMAIN request = Requests /\ DOMAIN saved = Requests
    /\ \A q \in Requests : Good(q)
    /\ dbErrors \in 0 .. MaxDbErrors

LEMMA NoFindingsTyped == FindingsOK(NoFindings) /\ DOMAIN NoFindings = {}
BY DEF FindingsOK, NoFindings

LEMMA NoRunTyped == RunOK(NoRun) /\ NoRun.status = "none"
<1>1. 0 \in 0 .. MaxVersion
  BY BoundsAssumption
<1>2. /\ NoRun.doc = NoDocument /\ NoRun.attempt = 0 /\ NoRun.version = 0
      /\ NoRun.status = "none" /\ NoRun.findings = NoFindings
      /\ NoRun.tasks = ReviewTasks(NoFindings) /\ NoRun.linked = FALSE
  BY DEF NoRun, RunRecord
<1> HIDE DEF NoRun
<1> QED BY <1>1, <1>2, NoFindingsTyped DEF RunOK

LEMMA InitIInv == Init => IInv
<1> SUFFICES ASSUME Init PROVE IInv
  OBVIOUS
<1>1. PublishedOK
  BY BoundsAssumption DEF Init, Publication!Init, PublishedOK
<1>2. 0 \in 0 .. MaxVersion /\ 0 \in 0 .. MaxDbErrors
  BY BoundsAssumption
<1>3. RequestOK(NewRequest)
  BY <1>2, NoFindingsTyped DEF RequestOK, NewRequest, Step, Reply
<1>4. ASSUME NEW q \in Requests PROVE Good(q)
  <2>1. request[q] = NewRequest /\ saved[q] = NoRun
    BY DEF Init
  <2>2. NewRequest.pc = "idle" /\ NewRequest.reply = "none"
    BY DEF NewRequest
  <2>3. ProgressOK(q) /\ AnswerOK(q)
    BY <2>1, <2>2 DEF ProgressOK, AnswerOK, Holding
  <2>4. SavedOK(q)
    BY <2>1 DEF SavedOK, Saved
  <2> QED BY <1>3, <2>1, <2>3, <2>4, NoRunTyped DEF Good
<1> QED BY <1>1, <1>2, <1>4 DEF IInv, Init

-----------------------------------------------------------------------------
\* The steps of a request.

\* A request's step is seen by itself only.
LEMMA RequestMoves ==
    ASSUME IInv, NEW q \in Requests, UNCHANGED published,
           DOMAIN request' = Requests, DOMAIN saved' = Requests,
           \A x \in Requests \ {q} : request'[x] = request[x] /\ saved'[x] = saved[x],
           dbErrors' \in 0 .. MaxDbErrors, Good(q)'
    PROVE  IInv'
<1>1. PublishedOK'
  BY DEF IInv, PublishedOK, published
<1>2. ASSUME NEW x \in Requests PROVE Good(x)'
  <2>1. CASE x # q
    <3>1. Good(x) /\ request'[x] = request[x] /\ saved'[x] = saved[x]
      BY <2>1 DEF IInv
    <3> QED BY <3>1 DEF Good, ProgressOK, SavedOK, AnswerOK, Sourced, Saved, published
  <2> QED BY <2>1
<1> QED BY <1>1, <1>2 DEF IInv

LEMMA AnswerFields ==
    ASSUME IInv, NEW q \in Requests, NEW code, Answer(q, code)
    PROVE  /\ DOMAIN request' = Requests
           /\ \A x \in Requests \ {q} : request'[x] = request[x]
           /\ request'[q].pc = "done" /\ request'[q].reply = code
           /\ request'[q].doc = request[q].doc /\ request'[q].attempt = request[q].attempt
           /\ request'[q].version = request[q].version
           /\ request'[q].findings = request[q].findings
           /\ request'[q].cited = request[q].cited
<1>1. /\ DOMAIN request' = Requests
      /\ \A x \in Requests \ {q} : request'[x] = request[x]
      /\ request'[q] = [request[q] EXCEPT !.pc = "done", !.reply = code]
  BY DEF Answer, IInv
<1>2. request'[q].pc = "done" /\ request'[q].reply = code
  BY <1>1
<1>3. /\ request'[q].doc = request[q].doc /\ request'[q].attempt = request[q].attempt
      /\ request'[q].version = request[q].version
      /\ request'[q].findings = request[q].findings
      /\ request'[q].cited = request[q].cited
  BY <1>1
<1> QED BY <1>1, <1>2, <1>3

\* An answer that saves nothing new and suits what is saved.
LEMMA AnswerKeeps ==
    ASSUME IInv, NEW q \in Requests, NEW code \in Reply \ {"none"}, Answer(q, code),
           UNCHANGED <<published, saved>>, dbErrors' \in 0 .. MaxDbErrors,
           request[q].pc # "done",
           code = "201" => request[q].pc = "committed" /\ Saved(q),
           Saved(q) => code \in {"201", "500", "crashed"}
    PROVE  IInv'
<1>1. Good(q)
  BY DEF IInv
<1>2. RequestOK(request'[q])
  BY <1>1, AnswerFields DEF Good, RequestOK, Step
<1>3. RunOK(saved'[q])
  BY <1>1 DEF Good
<1>4. ProgressOK(q)'
  BY AnswerFields DEF ProgressOK, Holding
<1>5. SavedOK(q)'
  BY <1>1, AnswerFields DEF Good, SavedOK, Saved, Sourced, published
<1>6. AnswerOK(q)'
  BY <1>1, AnswerFields DEF Good, AnswerOK, Saved, published
<1> QED BY <1>2, <1>3, <1>4, <1>5, <1>6, AnswerFields, RequestMoves DEF Good, IInv

\* The record of a request that goes on within its transaction; "r" is the new one.
LEMMA StepKeeps ==
    ASSUME IInv, NEW q \in Requests, NEW r, request' = [request EXCEPT ![q] = r],
           UNCHANGED <<published, saved, dbErrors>>,
           request[q].pc \notin {"committed", "done"},
           r.pc \notin {"committed", "done"}, r.reply = "none", RequestOK(r),
           r.pc # "idle" => r.doc \in present \union removed,
           r.pc = "runSelected" => r.doc \in removed \/ Sourced(r.doc, r.attempt),
           r.pc \in Holding => Sourced(r.doc, r.attempt),
           r.pc \in Holding \ {"inserted"} => r.version \in 1 .. version[r.doc][r.attempt],
           r.pc \in {"evaluated", "persisted"} => Evaluated(r.findings),
           r.pc = "persisted" /\ r.cited => r.version = version[r.doc][r.attempt]
    PROVE  IInv'
<1>1. /\ DOMAIN request' = Requests /\ request'[q] = r
      /\ \A x \in Requests \ {q} : request'[x] = request[x]
  BY DEF IInv
<1>2. Good(q) /\ ~Saved(q)
  BY DEF IInv, Good, SavedOK
<1>3. ProgressOK(q)'
  BY <1>1 DEF ProgressOK, Sourced, published
<1>4. SavedOK(q)' /\ AnswerOK(q)'
  BY <1>1, <1>2 DEF Good, SavedOK, AnswerOK, Saved
<1>5. RequestOK(request'[q]) /\ RunOK(saved'[q])
  BY <1>1, <1>2 DEF Good
<1> QED BY <1>1, <1>3, <1>4, <1>5, RequestMoves DEF Good, IInv

\* Only the step changes.
LEMMA AdvanceFields ==
    ASSUME IInv, NEW q \in Requests, NEW pc \in Step
    PROVE  LET r == [request[q] EXCEPT !.pc = pc] IN
           /\ r.pc = pc /\ r.reply = request[q].reply /\ r.doc = request[q].doc
           /\ r.attempt = request[q].attempt /\ r.version = request[q].version
           /\ r.findings = request[q].findings /\ r.cited = request[q].cited
           /\ RequestOK(r)
<1> DEFINE r == [request[q] EXCEPT !.pc = pc]
<1>1. RequestOK(request[q])
  BY DEF IInv, Good
<1>2. /\ r.reply = request[q].reply /\ r.doc = request[q].doc
      /\ r.attempt = request[q].attempt /\ r.version = request[q].version
      /\ r.findings = request[q].findings /\ r.cited = request[q].cited
  OBVIOUS
<1>3. r.pc = pc
  BY <1>1 DEF RequestOK
<1> HIDE DEF r
<1>4. RequestOK(r)
  BY <1>1, <1>2, <1>3 DEF RequestOK
<1> QED BY <1>2, <1>3, <1>4 DEF r

LEMMA LoadDocumentIInv ==
    ASSUME IInv, NEW q \in Requests, NEW d \in Documents, LoadDocument(q, d)
    PROVE  IInv'
<1>0. Good(q) /\ ~Saved(q)
  BY DEF LoadDocument, IInv, Good, SavedOK
<1>1. 0 \in 0 .. MaxVersion
  BY BoundsAssumption
<1>2. CASE d \in present
  <2> DEFINE r == [NewRequest EXCEPT !.pc = "documentLoaded", !.doc = d]
  <2>1. request' = [request EXCEPT ![q] = r]
    BY <1>2 DEF LoadDocument
  <2>2. r.pc = "documentLoaded" /\ r.doc = d /\ r.reply = "none" /\ RequestOK(r)
    BY <1>1, NoFindingsTyped DEF NewRequest, RequestOK, Step, Reply
  <2> HIDE DEF r
  <2> QED BY <1>2, <2>1, <2>2, StepKeeps DEF LoadDocument, Holding
<1>3. CASE d \notin present
  <2> DEFINE r == [NewRequest EXCEPT !.pc = "done", !.doc = d, !.reply = "404"]
  <2>1. request' = [request EXCEPT ![q] = r]
    BY <1>3 DEF LoadDocument
  <2>2. r.pc = "done" /\ r.reply = "404" /\ RequestOK(r)
    BY <1>1, NoFindingsTyped DEF NewRequest, RequestOK, Step, Reply
  <2> HIDE DEF r
  <2>3. /\ DOMAIN request' = Requests /\ request'[q] = r
        /\ \A x \in Requests \ {q} : request'[x] = request[x]
    BY <2>1 DEF IInv
  <2>4. ProgressOK(q)' /\ SavedOK(q)' /\ AnswerOK(q)'
    BY <1>0, <2>2, <2>3 DEF ProgressOK, SavedOK, AnswerOK, Saved, Good, Holding, LoadDocument
  <2> QED BY <1>0, <2>2, <2>3, <2>4, RequestMoves DEF Good, IInv, LoadDocument
<1> QED BY <1>2, <1>3

LEMMA SelectCompletedRunIInv ==
    ASSUME IInv, NEW q \in Requests, SelectCompletedRun(q)
    PROVE  IInv'
<1> DEFINE d == request[q].doc
<1>1. /\ Good(q) /\ ~Saved(q) /\ PublishedOK
      /\ request[q].pc = "documentLoaded" /\ request[q].reply = "none"
  BY DEF SelectCompletedRun, IInv, Good, SavedOK, AnswerOK
<1>2. d \in Documents /\ d \in present \union removed
  BY <1>1 DEF Good, ProgressOK, PublishedOK
<1>3. CASE shown[d] = {}
  BY <1>1, <1>3, AnswerKeeps DEF SelectCompletedRun, Reply, IInv
<1>4. CASE shown[d] # {}
  <2>1. PICK n \in shown[d] :
           request' = [request EXCEPT ![q].pc = "runSelected", ![q].attempt = n]
    BY <1>4 DEF SelectCompletedRun
  <2> DEFINE r == [request[q] EXCEPT !.pc = "runSelected", !.attempt = n]
  <2>2. request' = [request EXCEPT ![q] = r]
    BY <2>1 DEF IInv
  <2>3. Sourced(d, n)
    BY <1>1, <1>2, <2>1 DEF PublishedOK, Sourced
  <2>4. /\ r.doc = d /\ r.reply = "none" /\ r.version = request[q].version
        /\ r.findings = request[q].findings /\ r.cited = request[q].cited
    BY <1>1
  <2>5. r.pc = "runSelected" /\ r.attempt = n
    BY <1>1 DEF Good, RequestOK
  <2> HIDE DEF r
  <2>6. RequestOK(r)
    BY <1>1, <2>3, <2>4, <2>5 DEF Good, RequestOK, Step, Sourced
  <2> QED BY <1>1, <1>2, <2>2, <2>3, <2>4, <2>5, <2>6, StepKeeps DEF SelectCompletedRun, Holding
<1> QED BY <1>3, <1>4

LEMMA InsertRunIInv ==
    ASSUME IInv, NEW q \in Requests, InsertRun(q)
    PROVE  IInv'
<1> DEFINE r == [request[q] EXCEPT !.pc = "inserted"]
<1>1. /\ Good(q) /\ PublishedOK
      /\ request[q].pc = "runSelected" /\ request[q].reply = "none"
  BY DEF InsertRun, IInv, Good, AnswerOK
<1>2. Sourced(request[q].doc, request[q].attempt)
  <2>1. request[q].doc \in Documents
    BY <1>1 DEF Good, ProgressOK, PublishedOK
  <2>2. request[q].doc \in present
    BY <1>1, <2>1 DEF InsertRun, PublishedOK
  <2> QED BY <1>1, <2>2 DEF Good, ProgressOK, PublishedOK
<1>3. request' = [request EXCEPT ![q] = r]
  BY DEF InsertRun, IInv
<1>4. /\ r.pc = "inserted" /\ r.reply = request[q].reply /\ r.doc = request[q].doc
      /\ r.attempt = request[q].attempt /\ RequestOK(r)
  BY AdvanceFields DEF Step
<1> HIDE DEF r
<1> QED BY <1>1, <1>2, <1>3, <1>4, StepKeeps DEF InsertRun, Holding, Sourced

LEMMA EvaluatePagesIInv ==
    ASSUME IInv, NEW q \in Requests, NEW e \in Evidences, NEW x \in BOOLEAN,
           EvaluatePages(q, e, x)
    PROVE  IInv'
<1> DEFINE v == version[request[q].doc][request[q].attempt]
           f == EvaluatePolicyReconciliation(e, x)
           r == [request[q] EXCEPT !.pc = "evaluated", !.version = v, !.findings = f,
                                   !.cited = e.cited]
<1>1. /\ Good(q) /\ PublishedOK
      /\ request[q].pc = "inserted" /\ request[q].reply = "none"
  BY DEF EvaluatePages, IInv, Good, AnswerOK
<1>2. Sourced(request[q].doc, request[q].attempt)
  BY <1>1 DEF Good, ProgressOK, Holding
<1>3. v \in 0 .. MaxVersion /\ v \in 1 .. v
  BY <1>1, <1>2, BoundsAssumption DEF PublishedOK, Sourced
<1>4. e \in Evidence /\ e.cited \in BOOLEAN
  BY EvidencesAssumption DEF Evidence
<1>5. Evaluated(f) /\ FindingsOK(f)
  BY <1>4, EvaluationTyped DEF Evaluated
<1> HIDE DEF v, f
<1>6. request' = [request EXCEPT ![q] = r]
  BY DEF EvaluatePages, IInv, v, f
<1>7. /\ r.reply = request[q].reply /\ r.doc = request[q].doc
      /\ r.attempt = request[q].attempt
  OBVIOUS
<1>8. r.pc = "evaluated" /\ r.version = v /\ r.findings = f /\ r.cited = e.cited
  BY <1>1 DEF Good, RequestOK
<1> HIDE DEF r
<1>9. RequestOK(r)
  BY <1>1, <1>3, <1>4, <1>5, <1>7, <1>8 DEF Good, RequestOK, Step
<1>10. v = version[request[q].doc][request[q].attempt]
  BY DEF v
<1>11. UNCHANGED <<published, saved, dbErrors>>
  BY DEF EvaluatePages
<1>12. request[q].doc \in present \union removed
  BY <1>2 DEF Sourced
<1> QED BY <1>1, <1>2, <1>3, <1>5, <1>6, <1>7, <1>8, <1>9, <1>10, <1>11, <1>12, StepKeeps
        DEF Holding

LEMMA EvaluateFindsNoTextIInv ==
    ASSUME IInv, NEW q \in Requests, EvaluateFindsNoText(q)
    PROVE  IInv'
<1> DEFINE v == version[request[q].doc][request[q].attempt]
           r == [request[q] EXCEPT !.pc = "textUnavailable", !.version = v]
<1>1. /\ Good(q) /\ PublishedOK
      /\ request[q].pc = "inserted" /\ request[q].reply = "none"
  BY DEF EvaluateFindsNoText, IInv, Good, AnswerOK
<1>2. Sourced(request[q].doc, request[q].attempt)
  BY <1>1 DEF Good, ProgressOK, Holding
<1>3. v \in 0 .. MaxVersion /\ v \in 1 .. v
  BY <1>1, <1>2, BoundsAssumption DEF PublishedOK, Sourced
<1> HIDE DEF v
<1>4. request' = [request EXCEPT ![q] = r] /\ UNCHANGED <<published, saved, dbErrors>>
  BY DEF EvaluateFindsNoText, IInv, v
<1>5. /\ r.reply = request[q].reply /\ r.doc = request[q].doc
      /\ r.attempt = request[q].attempt /\ r.findings = request[q].findings
      /\ r.cited = request[q].cited
  OBVIOUS
<1>6. r.pc = "textUnavailable" /\ r.version = v
  BY <1>1 DEF Good, RequestOK
<1> HIDE DEF r
<1>7. RequestOK(r)
  BY <1>1, <1>3, <1>5, <1>6 DEF Good, RequestOK, Step
<1>8. v = version[request[q].doc][request[q].attempt]
  BY DEF v
<1>9. request[q].doc \in present \union removed
  BY <1>2 DEF Sourced
<1> QED BY <1>1, <1>2, <1>3, <1>4, <1>5, <1>6, <1>7, <1>8, <1>9, StepKeeps DEF Holding

LEMMA PersistFindingsIInv ==
    ASSUME IInv, NEW q \in Requests, PersistFindings(q)
    PROVE  IInv'
<1> DEFINE r == [request[q] EXCEPT !.pc = "persisted"]
<1>1. /\ Good(q) /\ request[q].pc = "evaluated" /\ request[q].reply = "none"
      /\ request[q].cited => request[q].version = version[request[q].doc][request[q].attempt]
  BY DEF PersistFindings, PagesReplaced, IInv, Good, AnswerOK
<1>2. /\ Sourced(request[q].doc, request[q].attempt)
      /\ request[q].version \in 1 .. version[request[q].doc][request[q].attempt]
      /\ Evaluated(request[q].findings)
  BY <1>1 DEF Good, ProgressOK, Holding
<1>3. request' = [request EXCEPT ![q] = r] /\ UNCHANGED <<published, saved, dbErrors>>
  BY DEF PersistFindings, IInv
<1>4. /\ r.pc = "persisted" /\ r.reply = request[q].reply /\ r.doc = request[q].doc
      /\ r.attempt = request[q].attempt /\ r.version = request[q].version
      /\ r.findings = request[q].findings /\ r.cited = request[q].cited /\ RequestOK(r)
  BY AdvanceFields DEF Step
<1> HIDE DEF r
<1>5. request[q].doc \in present \union removed
  BY <1>2 DEF Sourced
<1> QED BY <1>1, <1>2, <1>3, <1>4, <1>5, StepKeeps DEF Holding

LEMMA CommitRunIInv ==
    ASSUME IInv, NEW q \in Requests, CommitRun(q)
    PROVE  IInv'
<1> DEFINE r == request[q]
           s == RunRecord(r.doc, r.attempt, r.version, OverallStatus(r.findings),
                          r.findings, r.cited)
<1>1. /\ Good(q) /\ PublishedOK
      /\ r.pc = "persisted" /\ r.reply = "none"
      /\ DOMAIN request = Requests /\ DOMAIN saved = Requests
  BY DEF CommitRun, IInv, Good, AnswerOK
<1>2. /\ Sourced(r.doc, r.attempt) /\ Evaluated(r.findings)
      /\ r.version \in 1 .. version[r.doc][r.attempt]
      /\ r.cited => r.version = version[r.doc][r.attempt]
  BY <1>1 DEF Good, ProgressOK, Holding
<1>3. /\ saved' = [saved EXCEPT ![q] = s] /\ request' = [request EXCEPT ![q].pc = "committed"]
      /\ UNCHANGED <<published, dbErrors>>
  BY DEF CommitRun
<1>4. /\ DOMAIN saved' = Requests /\ saved'[q] = s
      /\ \A x \in Requests \ {q} : saved'[x] = saved[x]
  <2> HIDE DEF s
  <2> QED BY <1>1, <1>3
<1>5. /\ s.doc = r.doc /\ s.attempt = r.attempt /\ s.version = r.version
      /\ s.status = OverallStatus(r.findings) /\ s.findings = r.findings
      /\ s.tasks = ReviewTasks(r.findings) /\ s.linked = r.cited
  BY DEF RunRecord
<1> HIDE DEF s
<1>6. OverallStatus(r.findings) \in {"completed", "needs_review"}
  BY DEF OverallStatus
<1>7. s # NoRun
  BY <1>5, <1>6, NoRunTyped
<1>8. RunOK(s)
  BY <1>1, <1>5, <1>6 DEF Good, RequestOK, RunOK
<1>9. /\ DOMAIN request' = Requests
      /\ \A x \in Requests \ {q} : request'[x] = request[x]
      /\ request'[q] = [r EXCEPT !.pc = "committed"]
  BY <1>1, <1>3
<1>10. /\ request'[q].pc = "committed" /\ request'[q].reply = r.reply
       /\ request'[q].doc = r.doc /\ RequestOK(request'[q])
  <2> DEFINE c == [r EXCEPT !.pc = "committed"]
  <2>1. c.pc = "committed" /\ c.reply = r.reply /\ c.doc = r.doc /\ RequestOK(c)
    BY AdvanceFields DEF Step
  <2>2. request'[q] = c
    BY <1>9
  <2> HIDE DEF c
  <2> QED BY <2>1, <2>2
<1>11. ProgressOK(q)'
  BY <1>2, <1>3, <1>10 DEF ProgressOK, Holding, Sourced, published
<1>12. SavedOK(q)'
  BY <1>2, <1>3, <1>4, <1>5, <1>6, <1>7, <1>10 DEF SavedOK, Saved, Sourced, published
<1>13. AnswerOK(q)'
  BY <1>1, <1>4, <1>5, <1>6, <1>7, <1>10 DEF AnswerOK, Saved
<1> QED BY <1>3, <1>4, <1>8, <1>9, <1>10, <1>11, <1>12, <1>13, RequestMoves DEF Good, IInv

LEMMA CommitFailedRunIInv ==
    ASSUME IInv, NEW q \in Requests, CommitFailedRun(q)
    PROVE  IInv'
<1> DEFINE r == request[q]
           s == RunRecord(r.doc, r.attempt, r.version, "failed", NoFindings, FALSE)
<1>1. /\ Good(q) /\ PublishedOK
      /\ r.pc = "textUnavailable" /\ r.reply = "none"
      /\ DOMAIN request = Requests /\ DOMAIN saved = Requests
  BY DEF CommitFailedRun, IInv, Good, AnswerOK
<1>2. Sourced(r.doc, r.attempt) /\ r.version \in 1 .. version[r.doc][r.attempt]
  BY <1>1 DEF Good, ProgressOK, Holding
<1>3. /\ saved' = [saved EXCEPT ![q] = s] /\ Answer(q, "422")
      /\ UNCHANGED <<published, dbErrors>>
  BY DEF CommitFailedRun
<1>4. /\ DOMAIN saved' = Requests /\ saved'[q] = s
      /\ \A x \in Requests \ {q} : saved'[x] = saved[x]
  <2> HIDE DEF s
  <2> QED BY <1>1, <1>3
<1>5. /\ s.doc = r.doc /\ s.attempt = r.attempt /\ s.version = r.version
      /\ s.status = "failed" /\ s.findings = NoFindings
      /\ s.tasks = ReviewTasks(NoFindings) /\ s.linked = FALSE
  BY DEF RunRecord
<1> HIDE DEF s
<1>6. s # NoRun
  BY <1>5, NoRunTyped
<1>7. RunOK(s)
  BY <1>1, <1>5, NoFindingsTyped DEF Good, RequestOK, RunOK
<1>8. RequestOK(request'[q])
  BY <1>1, <1>3, AnswerFields DEF Good, RequestOK, Step, Reply
<1>9. ProgressOK(q)'
  BY <1>3, AnswerFields DEF ProgressOK, Holding
<1>10. SavedOK(q)'
  BY <1>2, <1>3, <1>4, <1>5, <1>6, AnswerFields DEF SavedOK, Saved, Sourced, published
<1>11. AnswerOK(q)'
  BY <1>3, <1>4, <1>5, <1>6, AnswerFields DEF AnswerOK, Saved
<1> QED BY <1>3, <1>4, <1>7, <1>8, <1>9, <1>10, <1>11, AnswerFields, RequestMoves DEF Good, IInv

LEMMA ReconcileIInv ==
    ASSUME IInv, NEW q \in Requests, Reconcile(q)
    PROVE  IInv'
<1>1. Good(q) /\ dbErrors \in 0 .. MaxDbErrors
  BY DEF IInv
<1>2. request[q].pc \notin {"committed", "done"} => ~Saved(q)
  BY <1>1 DEF Good, SavedOK
<1>3. ASSUME NEW code \in {"409", "422", "500", "crashed"}, AnswerNothingSaved(q, code),
             request[q].pc # "done", Saved(q) => code \in {"500", "crashed"}
      PROVE  IInv'
  BY <1>1, <1>3, AnswerKeeps DEF AnswerNothingSaved, Reply
<1>4. ASSUME NEW d \in Documents, LoadDocument(q, d) PROVE IInv'
  BY <1>4, LoadDocumentIInv
<1>5. ASSUME NEW e \in Evidences, NEW x \in BOOLEAN, EvaluatePages(q, e, x) PROVE IInv'
  BY <1>5, EvaluatePagesIInv
<1>6. CASE InsertRunFails(q)
  BY <1>2, <1>3, <1>6 DEF InsertRunFails
<1>7. CASE EvaluateRaises(q)
  BY <1>2, <1>3, <1>7 DEF EvaluateRaises
<1>8. CASE PersistFindingsFails(q)
  BY <1>2, <1>3, <1>8 DEF PersistFindingsFails
<1>9. CASE ApiCrash(q)
  BY <1>3, <1>9 DEF ApiCrash
<1>10. CASE AnswerRun(q)
  <2>1. saved[q] = NoRun => AnswerNothingSaved(q, "500")
    BY <1>10 DEF AnswerRun, AnswerNothingSaved
  <2>2. saved[q] # NoRun => Answer(q, "201")
    BY <1>10 DEF AnswerRun
  <2>3. request[q].pc = "committed" /\ UNCHANGED <<published, saved, dbErrors>>
    BY <1>10 DEF AnswerRun
  <2> QED BY <1>1, <1>3, <2>1, <2>2, <2>3, AnswerKeeps DEF Saved, Reply
<1>11. CASE DatabaseErrs(q)
  <2>1. dbErrors' \in 0 .. MaxDbErrors /\ UNCHANGED <<published, saved>>
    BY <1>1, <1>11, BoundsAssumption DEF DatabaseErrs, DatabaseFails
  <2>2. CASE request[q].pc = "textUnavailable"
    <3>1. Answer(q, "422") /\ ~Saved(q)
      BY <1>2, <1>11, <2>2 DEF DatabaseErrs
    <3> QED BY <2>1, <2>2, <3>1, AnswerKeeps DEF Reply
  <2>3. CASE request[q].pc # "textUnavailable"
    <3>1. Answer(q, "500") /\ request[q].pc # "done"
      BY <1>11, <2>3 DEF DatabaseErrs
    <3> QED BY <2>1, <3>1, AnswerKeeps DEF Reply
  <2> QED BY <2>2, <2>3
<1> QED
  BY <1>4, <1>5, <1>6, <1>7, <1>8, <1>9, <1>10, <1>11, SelectCompletedRunIInv, InsertRunIInv,
     EvaluateFindsNoTextIInv, PersistFindingsIInv, CommitRunIInv, CommitFailedRunIInv
  DEF Reconcile

-----------------------------------------------------------------------------
\* The steps of the documents.

\* The sources of a request and of a saved run other than what is removed.
LEMMA SourcesKept ==
    ASSUME IInv, UNCHANGED <<request, saved, dbErrors>>, PublishedOK',
           present \subseteq present', removed \subseteq removed',
           \A d \in Documents : opened[d] \subseteq opened'[d],
           version' = version
    PROVE  IInv'
<1>1. ASSUME NEW q \in Requests PROVE Good(q)'
  <2>1. Good(q) /\ PublishedOK
    BY DEF IInv
  <2>2. \A d, n : Sourced(d, n) =>
           d \in present' /\ n \in Attempts /\ n \in opened'[d] /\ version'[d][n] >= 1
    BY <2>1 DEF Sourced, PublishedOK
  <2>3. ProgressOK(q)'
    BY <2>1, <2>2 DEF Good, ProgressOK, Sourced
  <2>4. SavedOK(q)'
    BY <2>1, <2>2 DEF Good, SavedOK, Saved, Sourced
  <2>5. AnswerOK(q)'
    BY <2>1 DEF Good, AnswerOK, Saved
  <2> QED BY <2>1, <2>3, <2>4, <2>5 DEF Good
<1> QED BY <1>1 DEF IInv

LEMMA OtherPublicationIInv ==
    ASSUME IInv, NEW d \in Documents, OtherPublication(d)
    PROVE  IInv'
<1>0. PublishedOK
  BY DEF IInv
<1>1. CASE Publication!Upload(d)
  <2>1. PublishedOK'
    BY <1>0, <1>1 DEF Publication!Upload, PublishedOK
  <2> QED BY <1>1, <2>1, SourcesKept DEF Publication!Upload, OtherPublication
<1>2. ASSUME NEW n \in Attempts, Publication!Open(d, n) PROVE IInv'
  <2>1. /\ opened' \in [Documents -> SUBSET Attempts]
        /\ \A c \in Documents : opened[c] \subseteq opened'[c]
        /\ \A c \in Documents : c # d => opened'[c] = opened[c]
    BY <1>0, <1>2 DEF Publication!Open, PublishedOK
  <2>2. d \in present /\ UNCHANGED <<present, removed, version, shown>>
    BY <1>2 DEF Publication!Open
  <2>3. PublishedOK'
    BY <1>0, <2>1, <2>2 DEF PublishedOK
  <2> QED BY <2>1, <2>2, <2>3, SourcesKept DEF OtherPublication
<1>3. ASSUME NEW n \in Attempts, Publication!Withdraw(d, n) PROVE IInv'
  <2>1. /\ shown' \in [Documents -> SUBSET Attempts]
        /\ \A c \in Documents : shown'[c] \subseteq shown[c]
        /\ UNCHANGED <<present, removed, opened, version>>
    BY <1>0, <1>3 DEF Publication!Withdraw, PublishedOK
  <2>2. PublishedOK'
    BY <1>0, <2>1 DEF PublishedOK
  <2> QED BY <2>1, <2>2, SourcesKept DEF OtherPublication
<1> QED BY <1>1, <1>2, <1>3 DEF OtherPublication

LEMMA LongerInterval ==
    ASSUME NEW a \in Nat, NEW b \in Nat, b >= a, NEW v \in 1 .. a
    PROVE  v \in 1 .. b
OBVIOUS

LEMMA RepublishIInv ==
    ASSUME IInv, NEW d \in Documents, NEW n \in Attempts, Republish(d, n)
    PROVE  IInv'
<1>0. PublishedOK /\ version[d][n] < MaxVersion
  BY DEF IInv, Republish
<1>1. /\ d \in present /\ n \in opened[d]
      /\ version' = [version EXCEPT ![d][n] = @ + 1]
      /\ shown' = [shown EXCEPT ![d] = @ \union {n}]
      /\ UNCHANGED <<present, removed, opened, request, dbErrors>>
  BY DEF Republish, Publication!Publish
<1>2. /\ version' \in [Documents -> [Attempts -> 0 .. MaxVersion]]
      /\ version'[d][n] = version[d][n] + 1
      /\ \A c \in Documents, m \in Attempts :
            c # d \/ m # n => version'[c][m] = version[c][m]
  BY <1>0, <1>1, BoundsAssumption DEF PublishedOK
<1>3. \A c \in Documents, m \in Attempts :
         /\ version[c][m] \in Nat /\ version'[c][m] \in Nat
         /\ version'[c][m] >= version[c][m]
  BY <1>0, <1>2, BoundsAssumption DEF PublishedOK
<1>4. /\ shown' \in [Documents -> SUBSET Attempts]
      /\ \A c \in Documents : shown'[c] \subseteq shown[c] \union (IF c = d THEN {n} ELSE {})
  BY <1>0, <1>1 DEF PublishedOK
<1>5. PublishedOK'
  <2>1. \A c \in Documents : shown'[c] \subseteq opened[c]
    BY <1>0, <1>1, <1>4 DEF PublishedOK
  <2>2. \A c \in Documents : \A m \in shown'[c] : version'[c][m] >= 1
    <3> SUFFICES ASSUME NEW c \in Documents, NEW m \in shown'[c] PROVE version'[c][m] >= 1
      OBVIOUS
    <3>1. CASE c = d /\ m = n
      BY <1>2, <1>3, <3>1
    <3>2. CASE ~(c = d /\ m = n)
      <4>1. m \in shown[c] /\ m \in Attempts
        BY <1>0, <1>4, <3>2 DEF PublishedOK
      <4> QED BY <1>0, <1>2, <3>2, <4>1 DEF PublishedOK
    <3> QED BY <3>1, <3>2
  <2> QED BY <1>0, <1>1, <1>2, <1>4, <2>1, <2>2 DEF PublishedOK
<1>6. /\ DOMAIN saved' = Requests
      /\ \A q \in Requests :
            saved'[q] = IF saved[q].doc = d /\ saved[q].attempt = n
                        THEN [saved[q] EXCEPT !.linked = FALSE]
                        ELSE saved[q]
  BY DEF Republish
<1>7. ASSUME NEW q \in Requests PROVE Good(q)'
  <2>1. Good(q) /\ request'[q] = request[q]
    BY <1>1 DEF IInv
  <2>2. ASSUME NEW c, NEW m, Sourced(c, m)
        PROVE  /\ c \in present' /\ m \in opened'[c] /\ version'[c][m] >= 1
               /\ c \in Documents /\ m \in Attempts
    BY <1>0, <1>1, <1>3, <2>2 DEF Sourced, PublishedOK
  <2>3. /\ saved'[q].doc = saved[q].doc /\ saved'[q].attempt = saved[q].attempt
        /\ saved'[q].version = saved[q].version /\ saved'[q].status = saved[q].status
        /\ saved'[q].findings = saved[q].findings /\ saved'[q].tasks = saved[q].tasks
        /\ saved'[q].linked \in BOOLEAN
        /\ saved'[q].linked => saved[q].linked /\ saved'[q] = saved[q]
                               /\ ~(saved[q].doc = d /\ saved[q].attempt = n)
    <3>1. CASE saved[q].doc = d /\ saved[q].attempt = n
      <4>1. saved'[q] = [saved[q] EXCEPT !.linked = FALSE]
        BY <1>6, <3>1
      <4>2. /\ saved'[q].doc = saved[q].doc /\ saved'[q].attempt = saved[q].attempt
            /\ saved'[q].version = saved[q].version /\ saved'[q].status = saved[q].status
            /\ saved'[q].findings = saved[q].findings /\ saved'[q].tasks = saved[q].tasks
        BY <4>1
      <4>3. saved'[q].linked = FALSE
        BY <2>1, <4>1 DEF Good, RunOK
      <4> QED BY <4>2, <4>3
    <3>2. CASE ~(saved[q].doc = d /\ saved[q].attempt = n)
      BY <1>6, <2>1, <3>2 DEF Good, RunOK
    <3> QED BY <3>1, <3>2
  <2>4. Saved(q)' <=> Saved(q)
    <3>1. CASE saved[q] = NoRun
      <4>1. NoRun.doc = NoDocument
        BY DEF NoRun, RunRecord
      <4>2. saved'[q] = NoRun
        BY <1>6, <3>1, <4>1, NoDocumentAssumption
      <4> QED BY <3>1, <4>2 DEF Saved
    <3>2. CASE saved[q] # NoRun
      <4>1. saved[q].status # "none"
        BY <2>1, <3>2 DEF Good, SavedOK
      <4>2. saved'[q] # NoRun
        BY <2>3, <4>1, NoRunTyped
      <4> QED BY <3>2, <4>2 DEF Saved
    <3> QED BY <3>1, <3>2
  <2>5. RunOK(saved'[q])
    BY <2>1, <2>3 DEF Good, RunOK
  <2>6. ProgressOK(q)'
    <3> DEFINE r == request[q]
    <3>1. /\ r.pc \notin {"idle", "done"} => r.doc \in present' \union removed'
          /\ r.pc = "runSelected" => r.doc \in removed' \/ Sourced(r.doc, r.attempt)
          /\ r.pc \in Holding => Sourced(r.doc, r.attempt)
          /\ r.pc \in {"evaluated", "persisted"} => Evaluated(r.findings)
      BY <1>1, <2>1 DEF Good, ProgressOK
    <3>2. r.pc \in Holding \ {"inserted"} => r.version \in 1 .. version'[r.doc][r.attempt]
      <4> SUFFICES ASSUME r.pc \in Holding \ {"inserted"}
                   PROVE  r.version \in 1 .. version'[r.doc][r.attempt]
        OBVIOUS
      <4>1. Sourced(r.doc, r.attempt) /\ r.version \in 1 .. version[r.doc][r.attempt]
        BY <2>1 DEF Good, ProgressOK
      <4>2. r.doc \in Documents /\ r.attempt \in Attempts
        BY <2>2, <4>1
      <4> QED BY <1>3, <4>1, <4>2, LongerInterval
    <3>3. r.pc = "persisted" /\ r.cited => r.version = version'[r.doc][r.attempt]
      <4> SUFFICES ASSUME r.pc = "persisted", r.cited
                   PROVE  r.version = version'[r.doc][r.attempt]
        OBVIOUS
      <4>1. Sourced(r.doc, r.attempt) /\ r.version = version[r.doc][r.attempt]
        BY <2>1 DEF Good, ProgressOK, Holding
      <4>2. ~(r.doc = d /\ r.attempt = n)
        BY DEF Republish, HoldsPages
      <4> QED BY <1>2, <2>2, <4>1, <4>2
    <3>4. ASSUME Sourced(r.doc, r.attempt)
          PROVE  /\ r.doc \in present' /\ r.attempt \in Attempts
                 /\ r.attempt \in opened'[r.doc] /\ version'[r.doc][r.attempt] >= 1
      BY <2>2, <3>4
    <3> QED BY <2>1, <3>1, <3>2, <3>3, <3>4 DEF ProgressOK, Sourced
  <2>7. SavedOK(q)'
    <3>1. saved'[q].status = "none" => saved'[q] = NoRun
      BY <2>1, <2>3, <2>4 DEF Good, SavedOK, Saved
    <3> DEFINE s == saved[q]
    <3>2. ASSUME Saved(q)
          PROVE  /\ s.version \in 1 .. version'[s.doc][s.attempt]
                 /\ saved'[q].linked => s.version = version'[s.doc][s.attempt]
                 /\ s.doc \in present' /\ s.attempt \in Attempts
                 /\ s.attempt \in opened'[s.doc] /\ version'[s.doc][s.attempt] >= 1
      <4>1. /\ Sourced(s.doc, s.attempt)
            /\ s.version \in 1 .. version[s.doc][s.attempt]
            /\ s.linked => s.version = version[s.doc][s.attempt]
        BY <2>1, <3>2 DEF Good, SavedOK
      <4>2. s.doc \in Documents /\ s.attempt \in Attempts
        BY <2>2, <4>1
      <4>3. s.version \in 1 .. version'[s.doc][s.attempt]
        BY <1>3, <4>1, <4>2, LongerInterval
      <4>4. saved'[q].linked => s.version = version'[s.doc][s.attempt]
        BY <1>2, <2>3, <4>1, <4>2
      <4> QED BY <2>2, <4>1, <4>3, <4>4
    <3>3. Saved(q) =>
            /\ request'[q].pc \in {"committed", "done"} /\ s.doc = request'[q].doc
            /\ \/ s.status = "failed" /\ s.findings = NoFindings
               \/ s.status = OverallStatus(s.findings) /\ Evaluated(s.findings)
      BY <2>1 DEF Good, SavedOK
    <3> QED BY <2>3, <2>4, <3>1, <3>2, <3>3 DEF SavedOK, Sourced
  <2>8. AnswerOK(q)'
    BY <1>1, <2>1, <2>3, <2>4 DEF Good, AnswerOK
  <2> QED BY <2>1, <2>5, <2>6, <2>7, <2>8 DEF Good
<1> QED BY <1>1, <1>5, <1>6, <1>7 DEF IInv

LEMMA RemoveDocumentIInv ==
    ASSUME IInv, NEW d \in Documents, RemoveDocument(d)
    PROVE  IInv'
<1>0. PublishedOK
  BY DEF IInv
<1>1. /\ \A q \in Requests : ~HoldsDocument(q, d)
      /\ present' = present \ {d} /\ removed' = removed \union {d}
      /\ opened' = [opened EXCEPT ![d] = {}]
      /\ version' = [version EXCEPT ![d] = [n \in Attempts |-> 0]]
      /\ shown' = [shown EXCEPT ![d] = {}]
      /\ UNCHANGED <<request, dbErrors>>
  BY DEF RemoveDocument, Publication!Remove
<1>2. \A c \in Documents \ {d} :
         opened'[c] = opened[c] /\ version'[c] = version[c] /\ shown'[c] = shown[c]
  BY <1>0, <1>1 DEF PublishedOK
<1>3. PublishedOK'
  <2>1. opened'[d] = {} /\ shown'[d] = {}
    BY <1>0, <1>1 DEF PublishedOK
  <2>2. /\ opened' \in [Documents -> SUBSET Attempts]
        /\ shown' \in [Documents -> SUBSET Attempts]
    BY <1>0, <1>1 DEF PublishedOK
  <2>3. [n \in Attempts |-> 0] \in [Attempts -> 0 .. MaxVersion]
    BY BoundsAssumption
  <2>4. version' \in [Documents -> [Attempts -> 0 .. MaxVersion]]
    BY <1>0, <1>1, <2>3 DEF PublishedOK
  <2> QED BY <1>0, <1>1, <1>2, <2>1, <2>2, <2>4 DEF PublishedOK
<1>4. /\ DOMAIN saved' = Requests
      /\ \A q \in Requests : saved'[q] = IF saved[q].doc = d THEN NoRun ELSE saved[q]
  BY DEF RemoveDocument
<1>5. ASSUME NEW q \in Requests PROVE Good(q)'
  <2>1. Good(q) /\ request'[q] = request[q]
    BY <1>1 DEF IInv
  <2>2. \A c, n : c # d /\ Sourced(c, n) =>
           /\ c \in present' /\ n \in Attempts /\ n \in opened'[c]
           /\ version'[c][n] >= 1 /\ version'[c] = version[c]
    BY <1>0, <1>1, <1>2 DEF Sourced, PublishedOK
  <2>3. request[q].pc \in Holding => request[q].doc # d
    BY <1>1 DEF HoldsDocument, Holding
  <2>4. ProgressOK(q)'
    <3>1. request[q].pc = "runSelected" /\ request[q].doc = d => d \in removed'
      BY <1>1
    <3>2. present \union removed \subseteq present' \union removed'
      BY <1>1
    <3> QED BY <1>1, <2>1, <2>2, <2>3, <3>1, <3>2 DEF Good, ProgressOK, Sourced, Holding
  <2>5. CASE saved[q].doc = d
    <3>1. saved'[q] = NoRun /\ ~Saved(q)'
      BY <1>4, <2>5 DEF Saved
    <3>2. SavedOK(q)'
      BY <3>1 DEF SavedOK
    <3>3. AnswerOK(q)'
      <4>1. Saved(q) => request[q].doc = d
        BY <2>1, <2>5 DEF Good, SavedOK
      <4> QED BY <1>1, <2>1, <3>1, <4>1 DEF Good, AnswerOK
    <3> QED BY <2>1, <2>4, <3>1, <3>2, <3>3, NoRunTyped DEF Good
  <2>6. CASE saved[q].doc # d
    <3>1. saved'[q] = saved[q]
      BY <1>4, <2>6
    <3>2. SavedOK(q)'
      BY <2>1, <2>2, <2>6, <3>1 DEF Good, SavedOK, Saved, Sourced
    <3>3. AnswerOK(q)'
      BY <1>1, <2>1, <3>1 DEF Good, AnswerOK, Saved
    <3> QED BY <2>1, <2>4, <3>1, <3>2, <3>3 DEF Good
  <2> QED BY <2>5, <2>6
<1> QED BY <1>1, <1>3, <1>4, <1>5 DEF IInv

LEMMA NextIInv == IInv /\ [Next]_vars => IInv'
<1> SUFFICES ASSUME IInv, [Next]_vars PROVE IInv'
  OBVIOUS
<1>1. ASSUME NEW q \in Requests, Reconcile(q) PROVE IInv'
  BY <1>1, ReconcileIInv
<1>2. ASSUME NEW d \in Documents, DocumentStep(d) PROVE IInv'
  BY <1>2, RemoveDocumentIInv, RepublishIInv, OtherPublicationIInv DEF DocumentStep
<1>3. CASE UNCHANGED vars
  <2>1. PublishedOK'
    BY <1>3 DEF vars, published, IInv, PublishedOK
  <2> QED BY <1>3, <2>1, SourcesKept DEF vars, published
<1> QED BY <1>1, <1>2, <1>3 DEF Next

THEOREM SpecIInv == Spec => []IInv
BY InitIInv, NextIInv, PTL DEF Spec

-----------------------------------------------------------------------------
\* What follows from it.

\* Every variable keeps its type; no reader ever sees a run that is still running.
THEOREM SpecTypeOK == Spec => []TypeOK
<1>1. IInv => TypeOK
  BY DEF IInv, TypeOK, PublishedOK, Good
<1> QED BY <1>1, SpecIInv, PTL

\* A failed run has no findings, and a run needs review exactly if it has tasks.
THEOREM SpecSavedRunIsWhole == Spec => []SavedRunIsWhole
<1>1. IInv => SavedRunIsWhole
  <2> SUFFICES ASSUME IInv, NEW q \in Requests, Saved(q)
               PROVE  /\ saved[q].status = "failed" <=> DOMAIN saved[q].findings = {}
                      /\ saved[q].status = "needs_review" <=> DOMAIN saved[q].tasks # {}
    BY DEF SavedRunIsWhole
  <2> DEFINE s == saved[q]
  <2>1. /\ s.tasks = ReviewTasks(s.findings)
        /\ \/ s.status = "failed" /\ s.findings = NoFindings
           \/ s.status = OverallStatus(s.findings) /\ Evaluated(s.findings)
    BY DEF IInv, Good, SavedOK, RunOK
  <2> HIDE DEF s
  <2>2. CASE s.status = "failed" /\ s.findings = NoFindings
    <3>1. DOMAIN ReviewTasks(NoFindings) = {}
      BY NoFindingsTyped DEF ReviewTasks
    <3> QED BY <2>1, <2>2, <3>1, NoFindingsTyped DEF s
  <2>3. CASE s.status = OverallStatus(s.findings) /\ Evaluated(s.findings)
    <3>1. PICK e \in Evidence, x \in BOOLEAN : s.findings = EvaluatePolicyReconciliation(e, x)
      BY <2>3 DEF Evaluated
    <3>2. DOMAIN s.findings # {}
      BY <3>1, EvaluationTyped
    <3>3. s.status = "needs_review" <=> DOMAIN s.tasks # {}
      BY <2>1, <2>3, <3>1, ReviewMeansTask
    <3>4. s.status # "failed"
      BY <2>3 DEF OverallStatus
    <3> QED BY <3>2, <3>3, <3>4 DEF s
  <2> QED BY <2>1, <2>2, <2>3
<1> QED BY <1>1, SpecIInv, PTL

\* What is answered agrees with what is saved.
THEOREM SpecAnswerMatchesRun == Spec => []AnswerMatchesRun
<1>1. IInv => AnswerMatchesRun
  <2> SUFFICES ASSUME IInv, NEW q \in Requests
               PROVE  /\ request[q].reply = "201" /\ request[q].doc \in present =>
                            Saved(q) /\ saved[q].status # "failed"
                      /\ request[q].reply = "422" /\ Saved(q) => saved[q].status = "failed"
                      /\ request[q].reply \in {"404", "409"} => ~Saved(q)
                      /\ request[q].reply = "none" /\ Saved(q) => request[q].pc = "committed"
    BY DEF AnswerMatchesRun
  <2> QED BY DEF IInv, Good, AnswerOK, SavedOK, PublishedOK
<1> QED BY <1>1, SpecIInv, PTL

\* A saved run belongs to an attempt that exists and was completed.
THEOREM SpecSavedRunHasSource == Spec => []SavedRunHasSource
<1>1. IInv => SavedRunHasSource
  BY DEF IInv, Good, SavedOK, Sourced, SavedRunHasSource
<1> QED BY <1>1, SpecIInv, PTL

\* A linked page is a page the findings were made from.
THEOREM SpecLinkedPagesAreCurrent == Spec => []LinkedPagesAreCurrent
<1>1. IInv => LinkedPagesAreCurrent
  <2> SUFFICES ASSUME IInv, NEW q \in Requests, saved[q].linked
               PROVE  saved[q].version = version[saved[q].doc][saved[q].attempt]
    BY DEF LinkedPagesAreCurrent
  <2>1. NoRun.linked = FALSE
    BY DEF NoRun, RunRecord
  <2>2. Saved(q)
    BY <2>1 DEF Saved
  <2> QED BY <2>2 DEF IInv, Good, SavedOK
<1> QED BY <1>1, SpecIInv, PTL

(***************************************************************************)
(* A saved run loses page links or goes with its document, and changes in  *)
(* no other way.                                                           *)
(***************************************************************************)
THEOREM SpecSavedRunIsFinal == Spec => SavedRunIsFinal
<1> DEFINE Final == \A q \in Requests : Saved(q) =>
              \/ saved'[q] \in {saved[q], [saved[q] EXCEPT !.linked = FALSE]}
              \/ saved'[q] = NoRun /\ saved[q].doc \notin present'
<1>1. IInv /\ [Next]_vars => [Final]_vars
  <2> SUFFICES ASSUME IInv, [Next]_vars PROVE Final
    OBVIOUS
  <2>1. CASE saved' = saved
    BY <2>1
  <2>2. ASSUME NEW q \in Requests, CommitRun(q) \/ CommitFailedRun(q) PROVE Final
    <3>1. ~Saved(q)
      BY <2>2 DEF CommitRun, CommitFailedRun, IInv, Good, SavedOK
    <3>2. \A x \in Requests \ {q} : saved'[x] = saved[x]
      BY <2>2 DEF CommitRun, CommitFailedRun, IInv
    <3> QED BY <3>1, <3>2
  <2>3. ASSUME NEW d \in Documents, RemoveDocument(d) PROVE Final
    BY <2>3 DEF RemoveDocument, Publication!Remove
  <2>4. ASSUME NEW d \in Documents, NEW n \in Attempts, Republish(d, n) PROVE Final
    BY <2>4 DEF Republish
  <2>5. ASSUME NEW q \in Requests, Reconcile(q), ~CommitRun(q), ~CommitFailedRun(q)
        PROVE  saved' = saved
    BY <2>5 DEF Reconcile, LoadDocument, SelectCompletedRun, InsertRun, InsertRunFails,
                EvaluatePages, EvaluateFindsNoText, EvaluateRaises, PersistFindings,
                PersistFindingsFails, AnswerRun, DatabaseErrs, ApiCrash, AnswerNothingSaved
  <2>6. ASSUME NEW d \in Documents, OtherPublication(d) PROVE saved' = saved
    BY <2>6 DEF OtherPublication
  <2> HIDE DEF Final
  <2>7. CASE UNCHANGED vars
    BY <2>1, <2>7 DEF vars
  <2> QED BY <2>1, <2>2, <2>3, <2>4, <2>5, <2>6, <2>7 DEF Next, DocumentStep
<1> QED BY <1>1, SpecIInv, PTL DEF Spec, SavedRunIsFinal

=============================================================================
