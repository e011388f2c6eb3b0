------------------------- MODULE PolicyFieldExtraction -------------------------
(***************************************************************************)
(* extract_policy_fields: nine fields are looked for on every line of every*)
(* page, and of what is found for a field the best candidate is taken. A   *)
(* line is the fields whose labels it begins with, each with what follows  *)
(* the label; what the normalisers make of a raw text is part of the text. *)
(* Confidences are percentages. Warnings, which only fill the evidence of  *)
(* REC012, are left out.                                                   *)
(***************************************************************************)
EXTENDS Integers, Sequences, FiniteSets

CONSTANTS
    Missing,             \* no value, no page, no confidence
    MinimumConfidence    \* of a field that needs no review

ASSUME ConfidenceAssumption == MinimumConfidence \in 0 .. 100

\* _FIELD_RULES: the confidence in a labelled line.
BaseConfidence ==
    [policy_number |-> 99, customer_name |-> 96, carrier_name |-> 94, plan_name |-> 94,
     effective_date |-> 97, termination_date |-> 96, signature_date |-> 96, premium |-> 97,
     policy_status |-> 94]

FieldNames == DOMAIN BaseConfidence

-----------------------------------------------------------------------------
\* A raw text: the values of the normalisers that accept it, and for the status
\* the aliases found in it as words, and the alias that it is.

StatusAliases ==
    <<<<"active", "active">>, <<"in force", "active">>, <<"in-force", "active">>,
      <<"issued", "active">>, <<"cancelled", "cancelled">>, <<"canceled", "cancelled">>,
      <<"terminated", "cancelled">>, <<"inactive", "cancelled">>, <<"pending", "pending">>,
      <<"pending issue", "pending">>, <<"not issued", "not_issued">>,
      <<"declined", "not_issued">>, <<"lapsed", "lapsed">>, <<"pending lapse", "pending_lapse">>, <<"trumped", "trumped">>>>

\* The text itself, or else the first alias of the list that it contains: "not
\* issued yet" is active.
NormalizeStatus(raw) ==
    LET fits == {i \in DOMAIN StatusAliases :
                    IF \E a \in DOMAIN StatusAliases : StatusAliases[a][1] = raw.whole
                    THEN StatusAliases[i][1] = raw.whole
                    ELSE StatusAliases[i][1] \in raw.words}
    IN  IF fits = {} THEN Missing
        ELSE StatusAliases[CHOOSE i \in fits : \A j \in fits : i <= j][2]

Normalize(field, raw) ==
    CASE field = "policy_status" -> NormalizeStatus(raw)
      [] field # "policy_status" /\ field \in DOMAIN raw.values -> raw.values[field]
      [] OTHER -> Missing

-----------------------------------------------------------------------------
\* Pages.

\* PolicySourcePage.__post_init__
SourcePageOK(p) ==
    /\ p.number \in Nat \ {0}
    /\ p.confidence \in (0 .. 100) \union {Missing}
    /\ Len(p.lines) \in Nat /\ DOMAIN p.lines = 1 .. Len(p.lines)

\* processing_run_page_unique
SourcePagesOK(pages) ==
    /\ IsFiniteSet(pages)
    /\ \A p \in pages : SourcePageOK(p)
    /\ \A p, q \in pages : p.number = q.number => p = q

-----------------------------------------------------------------------------
\* Candidates.

Lesser(m, n) == IF m < n THEN m ELSE n
Larger(m, n) == IF m > n THEN m ELSE n

CalculateConfidence(page, base, method) ==
    LET limited == IF page.confidence = Missing THEN base ELSE Lesser(base, page.confidence)
        penalty == CASE method = "labeled_next_line" -> 2
                     [] method = "fallback_pattern" -> 15
                     [] OTHER -> 0
    IN  Larger(0, limited - penalty)

Candidate(page, i, value, base, method) ==
    [value |-> value, page |-> page.number, line |-> i, method |-> method,
     confidence |-> CalculateConfidence(page, base, method)]

\* The first of the two next lines that is not blank.
NextNonEmptyLine(lines, i) ==
    {j \in (i + 1) .. Lesser(Len(lines), i + 2) :
        ~lines[j].blank /\ \A k \in (i + 1) .. (j - 1) : lines[k].blank}

\* What stands behind a label, or else on the next line, whatever that line says.
ExtractLabeledCandidates(page, field) ==
    LET lines == page.lines
        labelled == {i \in DOMAIN lines : field \in DOMAIN lines[i].labels}
        given(i) == lines[i].labels[field]
        same == {Candidate(page, i, Normalize(field, given(i)), BaseConfidence[field],
                           "labeled_line") :
                    i \in {i \in labelled : given(i) # Missing}}
        next == UNION {{Candidate(page, i, Normalize(field, lines[j].raw), BaseConfidence[field],
                                  "labeled_next_line") :
                           j \in NextNonEmptyLine(lines, i)} :
                       i \in {i \in labelled : given(i) = Missing}}
    IN  {c \in same \union next : c.value # Missing}

\* The first text of the page that looks like a policy number.
ExtractPolicyNumberFallback(page) ==
    IF page.pattern = Missing THEN {}
    ELSE {Candidate(page, 0, page.pattern, 90, "fallback_pattern")}

\* A page is searched without labels when no page up to it gave a policy number.
CandidatesOf(pages, field) ==
    LET labelled == UNION {ExtractLabeledCandidates(p, field) : p \in pages}
        unlabelled(p) ==
            /\ field = "policy_number"
            /\ \A c \in labelled : c.page > p.number
            /\ \A q \in pages : q.number < p.number => q.pattern = Missing
    IN  labelled \union UNION {ExtractPolicyNumberFallback(p) : p \in {p \in pages : unlabelled(p)}}

MethodPriority ==
    [labeled_line |-> 3, labeled_next_line |-> 2, fallback_pattern |-> 1]

\* _candidate_sort_key; of equals the first on the page is taken.
Preferred(c, d) ==
    \/ c.confidence > d.confidence
    \/ /\ c.confidence = d.confidence
       /\ \/ MethodPriority[c.method] > MethodPriority[d.method]
          \/ /\ MethodPriority[c.method] = MethodPriority[d.method]
             /\ c.page < d.page \/ (c.page = d.page /\ c.line < d.line)

NotFound ==
    [value |-> Missing, page |-> Missing, line |-> Missing, method |-> Missing,
     confidence |-> Missing]

\* Mutant: the page of the first candidate.
SelectCandidateApart(candidates) ==
    IF candidates = {} THEN NotFound
    ELSE LET best == CHOOSE c \in candidates : \A d \in candidates \ {c} : Preferred(c, d)
             first == CHOOSE c \in candidates : \A d \in candidates : c.page <= d.page
         IN  [best EXCEPT !.page = first.page]

SelectCandidate(candidates) ==
    IF candidates = {} THEN NotFound
    ELSE CHOOSE c \in candidates : \A d \in candidates \ {c} : Preferred(c, d)

\* The fields of a document, given as a set of numbered pages.
ExtractPolicyFields(pages) ==
    [field \in FieldNames |-> SelectCandidate(CandidatesOf(pages, field))]

\* _evaluate_extraction_confidence; the mean of the fields that are found is
\* high enough when each is.
ExtractionIsConfident(fields) ==
    /\ \E f \in FieldNames : fields[f] # NotFound
    /\ \A f \in FieldNames : fields[f] # NotFound => fields[f].confidence >= MinimumConfidence

=============================================================================
