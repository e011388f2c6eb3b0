----------------------------- MODULE SeededQueries -----------------------------
(***************************************************************************)
(* The SQL agent asked about the demonstration: the insurance rows are the *)
(* ones that seed_demo_data leaves in a database that had rows already.    *)
(***************************************************************************)
EXTENDS QueryService, SyntheticData

CONSTANTS
    Unseeded,         \* rows of the insurance tables before, of any workspace
    SeededWorkspace

ASSUME SeededAssumption == Insurance = SeedDemoData(Unseeded, SeededWorkspace)

\* What the dataset was made to show, as the queries return it.
DuplicatedCases == {[number |-> n, count |-> 2] : n \in DuplicatedIndices}

MissingPaymentCases ==
    {[id |-> Id(SeededWorkspace, n), number |-> n, status |-> "active"] :
        n \in MissingPaymentNumbers}

\* Nothing but the cases, and all of them where the limit allows it.
Finds(q, cases) ==
    /\ q.rows \subseteq cases
    /\ Cardinality(cases) <= q.ask.maxRows => q.rows = cases

(***************************************************************************)
(* The demonstration shows what it was made for: in the workspace that was *)
(* seeded, the agent finds every policy that was duplicated, twice, and    *)
(* every active policy that was left without a payment, and no other.      *)
(***************************************************************************)
SeededCasesAreFound ==
    \A r \in Requests : Answered(r, {"query"}) /\ request[r].ask.workspace = SeededWorkspace =>
        LET intent == DetectIntent(request[r].ask.question)
        IN  /\ intent = "duplicate_policy_numbers" => Finds(request[r], DuplicatedCases)
            /\ intent = "active_policies_without_payments" =>
                  Finds(request[r], MissingPaymentCases)

=============================================================================
