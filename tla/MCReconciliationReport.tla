------------------------ MODULE MCReconciliationReport ------------------------
(***************************************************************************)
(* An instance of ReconciliationReport for TLC: the bodies of MCReviewTask *)
(* for two requests, and documents whose pages disagree, name a value on   *)
(* the line below, have no labelled number, or belong to no policy.        *)
(***************************************************************************)
EXTENDS ReconciliationReport, TLC

CONSTANTS q1, q2, u1, u2, outsider, n1, n2, v1

MCUserOf == (q1 :> u1) @@ (q2 :> u2)

MCPatches ==
    {NoPatch,
     [assignee |-> u1],
     [assignee |-> outsider],
     [status |-> Null],
     [status |-> "open"],
     [status |-> "in_progress", assignee |-> u2],
     [status |-> "approved", notes |-> n1],
     [status |-> "rejected", notes |-> n2],
     [status |-> "approved"],
     [status |-> "corrected", notes |-> n1, value |-> v1],
     [status |-> "corrected", notes |-> n1, value |-> Null],
     [status |-> "corrected", notes |-> n1],
     [notes |-> Null],
     [notes |-> Blank],
     [value |-> v1],
     [value |-> Null]}

\* Raw texts: of one value, of a status in other words, and of a name.
Of(f, value) == [values |-> f :> value, words |-> {}, whole |-> "none"]
NotIssuedYet == [values |-> "customer_name" :> "not issued yet",
                 words |-> {"issued", "not issued"}, whole |-> "none"]
Lapsed == [values |-> "customer_name" :> "lapsed", words |-> {"lapsed"}, whole |-> "lapsed"]

NoLabels == [f \in {} |-> Missing]
Line(labels, raw) == [blank |-> FALSE, labels |-> labels, raw |-> raw]
Labelled(f, value) == Line(f :> Of(f, value), Of(f, value))
Plain(raw) == Line(NoLabels, raw)
BlankLine == [blank |-> TRUE, labels |-> NoLabels, raw |-> Of("premium", Missing)]

SourcePage(number, lines, confidence, pattern) ==
    [number |-> number, lines |-> lines, confidence |-> confidence, pattern |-> pattern]

\* Page 2 is read better than page 1, and says otherwise.
Disagreeing ==
    {SourcePage(1, <<Labelled("policy_number", "P1"), Labelled("customer_name", "Ada"),
                     Labelled("premium", "30")>>, 80, "P1"),
     SourcePage(2, <<Labelled("customer_name", "Bob"), Labelled("effective_date", "May"),
                     Line("policy_status" :> Lapsed, Lapsed)>>, Missing, Missing)}

\* Values on the next lines; a number that no label announces; a poor scan.
Unlabelled ==
    {SourcePage(1, <<Line("customer_name" :> Missing, Of("carrier_name", "customer")), BlankLine,
                     Plain(Of("customer_name", "Ada"))>>, Missing, Missing),
     SourcePage(2, <<Line("policy_status" :> NotIssuedYet, NotIssuedYet),
                     Labelled("carrier_name", "Orion")>>, 60, "P1"),
     SourcePage(3, <<Labelled("policy_number", "P2")>>, 70, Missing)}

\* A label at the end, and a number of no policy.
Unmatched ==
    {SourcePage(1, <<Labelled("policy_number", "P9"), Labelled("signature_date", "June"),
                     Line("premium" :> Missing, Of("plan_name", "premium"))>>, 90, Missing)}

MCDocuments == {Disagreeing, Unlabelled, Unmatched}

MCPolicy ==
    [values |-> [f \in FieldNames |->
        CASE f = "policy_number" -> "P1" [] f = "customer_name" -> "Ada"
          [] f = "premium" -> "30" [] f = "effective_date" -> "May"
          [] f = "policy_status" -> "active" [] OTHER -> Missing],
     duplicate |-> TRUE, state |-> "active", payment |-> "none"]

=============================================================================
