----------------------------- MODULE MCQueryService -----------------------------
(***************************************************************************)
(* An instance of SeededQueries for TLC. Workspace w1 has rows of every    *)
(* kind the foreign keys allow, w2 the demonstration data; document 1 is of*)
(* w1 and document 2 of w2.                                                *)
(***************************************************************************)
EXTENDS SeededQueries, TLC

CONSTANTS r1, r2, w1, w2

Carrier(w, c, name) == [id |-> Id(w, c), workspace |-> w, name |-> name]
Policy(w, p, number, carrier, status, effective) ==
    [id |-> Id(w, p), workspace |-> w, number |-> number, carrier |-> carrier,
     status |-> status, effective |-> effective]
Payment(w, n, policy, amount) ==
    [id |-> Id(w, n), workspace |-> w, policy |-> policy, amount |-> amount]

\* A policy of w1 refers to a carrier of w2, and a payment of w2 to a policy of w1.
CrossedRows ==
    [insurance_carriers |-> {Carrier(w1, 1, 1), Carrier(w1, 2, 3)},
     insurance_policies |->
        {Policy(w1, 1, 1, Id(w1, 1), "Active", 4), Policy(w1, 2, 2, Id(w2, 1), "active", 3),
         Policy(w1, 3, 3, Id(w1, 2), "pending", 3), Policy(w1, 4, 3, Id(w1, 1), "active", 2)},
     insurance_payments |->
        {Payment(w1, 1, Id(w1, 1), 2), Payment(w1, 2, Id(w1, 3), 1), Payment(w1, 3, Id(w1, 2), 4),
         Payment(w2, 9, Id(w1, 4), 3)}]

MCInsurance == SeedDemoData(CrossedRows, w2)

MCBands == [active |-> 4, cancelled |-> 5, pending |-> 6, notIssued |-> 7]

Ask(kind, workspace, question, maxRows) ==
    [kind |-> kind, workspace |-> workspace, question |-> question, maxRows |-> maxRows]

DocumentAsk(kind, workspace, topK, citations, documents, field) ==
    [kind |-> kind, workspace |-> workspace, question |-> {}, topK |-> topK,
     citations |-> citations, documents |-> documents, maxDistance |-> 3,
     field |-> field, words |-> {"plan", "covers"}]

SqlAsks ==
    {Ask("query", w1, {"policy", "carrier"}, 1),
     Ask("query", w1, {"payment", "carrier"}, 3),
     Ask("query", w1, {"policy", "recent policies"}, 2),
     Ask("query", w1, {"policy", "active", "how many"}, 2),
     Ask("query", w1, {"policy", "by status"}, 2),
     Ask("query", w2, {"policy", "duplicate policies"}, 5),
     Ask("query", w2, {"policy", "payment", "without payments", "active"}, 2),
     Ask("query", w1, {"commission", "agent"}, 2)}

OtherAsks ==
    {Ask("schema", w1, {}, 1),
     Ask("plan", w2, {"policy", "by status"}, 2),
     Ask("query", w2, {"policy", "agent"}, 2),
     DocumentAsk("answer", w1, None, 3, {}, "policy_number"),
     DocumentAsk("answer", w2, 3, 1, {2}, "carrier"),
     DocumentAsk("search", w1, None, 1, {1}, None),
     DocumentAsk("search", w2, 5, 1, {}, None)}

MCAsks == (r1 :> SqlAsks) @@ (r2 :> OtherAsks)

Sentence(words, length, holds) == [words |-> words, length |-> length, holds |-> holds]

Covers == Sentence({"plan", "covers"}, 40, {"P1"})
Lists == Sentence({"plan"}, 20, {"P2"})
Preamble == Sentence({"from", "plan", "long"}, 300, {"P2"})

Passage(distance, sentences, values) ==
    [distance |-> distance, sentences |-> sentences, values |-> values]

NoValues == [f \in {} |-> None]
Number(value) == [f \in {"policy_number"} |-> value]
NumberAndName(value) ==
    [f \in {"policy_number", "customer_name"} |-> IF f = "policy_number" THEN value ELSE "Ada"]

\* The second attempt cuts another text; document 2 repeats itself.
MCChunks ==
    [d \in {1, 2} |-> [n \in {1, 2} |-> [k \in {0, 1} |->
        CASE k = 0 -> <<>>
          [] k = 1 /\ d = 1 /\ n = 1 ->
                <<Passage(1, <<Lists, Covers>>, Number("P1")), Passage(1, <<Preamble>>, Number("P2"))>>
          [] k = 1 /\ d = 1 /\ n = 2 ->
                <<Passage(2, <<Covers>>, NumberAndName("P1")), Passage(2, <<Lists>>, NoValues),
                  Passage(3, <<Preamble, Covers>>, Number("P1")), Passage(4, <<>>, NoValues)>>
          [] OTHER -> <<Passage(1, <<Lists>>, NoValues), Passage(1, <<Lists>>, NoValues)>>]]]

MCMaxAttempt == [d \in {1, 2} |-> IF d = 1 THEN 2 ELSE 1]

MCWorkspaceOf == [d \in {1, 2} |-> IF d = 1 THEN w1 ELSE w2]

(***************************************************************************)
(* "Try questions such as: ... Show commissions by agent": a question that *)
(* the agent itself proposes is never answered by an internal error at its *)
(* planning. Does not hold: the migrations call the column gross_amount or *)
(* net_amount.                                                             *)
(***************************************************************************)
AdvertisedQuestionsArePlanned ==
    \A r \in Requests :
        request[r].pc = "inspect" /\ request[r].ask.kind \in {"plan", "query"} =>
            Outcome[request[r].ask] # "500"

=============================================================================
