----------------------------- MODULE SyntheticData -----------------------------
(***************************************************************************)
(* The demonstration data: build_demo_dataset makes policies of which some *)
(* are duplicated and some unpaid on purpose, and seed_demo_data puts them *)
(* in place of the insurance rows of one workspace, in one transaction.    *)
(* Names, dates of birth and premiums, partly random, are left out, as are *)
(* the tables that no query of the SQL agent reads.                        *)
(***************************************************************************)
EXTENDS Naturals, Sequences, FiniteSets

CONSTANTS
    Bands,              \* last index of every status but "terminated", in the order below
    PolicyCount,        \* policies before the duplicates
    CarrierCount,
    DuplicatedIndices,  \* of the policies that are repeated
    MissingCount        \* of the active policies that are not paid

Index == 1 .. PolicyCount

ASSUME DatasetAssumption ==
    /\ PolicyCount \in Nat \ {0} /\ CarrierCount \in Nat \ {0}
    /\ DuplicatedIndices \subseteq Index /\ MissingCount \in Nat

PolicyStatus(index) ==
    CASE index <= Bands.active -> "active"
      [] index \in Bands.active + 1 .. Bands.cancelled -> "cancelled"
      [] index \in Bands.cancelled + 1 .. Bands.pending -> "pending"
      [] index \in Bands.pending + 1 .. Bands.notIssued -> "not_issued"
      [] OTHER -> "terminated"

\* Two plans for each carrier, taken in turn.
PlanCount == 2 * CarrierCount
PlanOf(index) == ((index - 1) % PlanCount) + 1
CarrierOfPlan(plan) == (plan + 1) \div 2
EffectiveMonth(index) == ((index - 1) % 7) + 1

\* Policies are identified by the index of their source record.
Canonical(index, source) ==
    [source |-> source, number |-> index, status |-> PolicyStatus(index),
     carrier |-> CarrierOfPlan(PlanOf(index)), effective |-> EffectiveMonth(index)]

\* The place of an index among those that are repeated.
Place(index) == Cardinality({i \in DuplicatedIndices : i <= index})

\* Mutant: a duplicate gets a number of its own.
BuildPoliciesApart ==
    {Canonical(i, i) : i \in Index}
        \union {[Canonical(i, PolicyCount + Place(i)) EXCEPT !.number = PolicyCount + i] :
                   i \in DuplicatedIndices}

BuildPolicies ==
    {Canonical(i, i) : i \in Index}
        \union {Canonical(i, PolicyCount + Place(i)) : i \in DuplicatedIndices}

\* The first active policies that are not repeated.
MissingPaymentNumbers ==
    LET candidates == {i \in Index \ DuplicatedIndices : PolicyStatus(i) = "active"}
    IN  {i \in candidates : Cardinality({j \in candidates : j <= i}) <= MissingCount}

\* Every active row is paid but those, the second row of a duplicate too; an
\* amount counts as one.
BuildPayments ==
    {[source |-> p.source, amount |-> 1] :
        p \in {p \in BuildPolicies : p.status = "active" /\ p.number \notin MissingPaymentNumbers}}

\* _validate_duplicate_policy_scenario
DuplicateScenarioHolds ==
    \A p \in BuildPolicies :
        Cardinality({o \in BuildPolicies : o.number = p.number}) =
            IF p.number \in DuplicatedIndices THEN 2 ELSE 1

\* _validate_missing_payment_scenario
MissingPaymentScenarioHolds ==
    {p.number : p \in {p \in BuildPolicies : p.status = "active"
                          /\ \A payment \in BuildPayments : payment.source # p.source}}
        = MissingPaymentNumbers

-----------------------------------------------------------------------------
\* The rows of the seeded workspace. Identities belong to a workspace.

Id(workspace, n) == <<workspace, n>>

InsertCarriers(workspace) ==
    {[id |-> Id(workspace, c), workspace |-> workspace, name |-> c] : c \in 1 .. CarrierCount}

InsertPolicies(workspace) ==
    {[id |-> Id(workspace, p.source), workspace |-> workspace, number |-> p.number,
      carrier |-> Id(workspace, p.carrier), status |-> p.status, effective |-> p.effective] :
        p \in BuildPolicies}

InsertPayments(workspace) ==
    {[id |-> Id(workspace, r.source), workspace |-> workspace,
      policy |-> Id(workspace, r.source), amount |-> r.amount] : r \in BuildPayments}

\* clear_existing_demo_data, then the inserts; a dataset without its scenarios
\* raises before anything is touched.
SeedDemoData(db, workspace) ==
    LET others(table) == {r \in db[table] : r.workspace # workspace}
    IN  IF ~(DuplicateScenarioHolds /\ MissingPaymentScenarioHolds) THEN db
        ELSE [insurance_carriers |-> others("insurance_carriers") \union InsertCarriers(workspace),
              insurance_policies |-> others("insurance_policies") \union InsertPolicies(workspace),
              insurance_payments |-> others("insurance_payments") \union InsertPayments(workspace)]

=============================================================================
