---------------------------- MODULE InsuranceQueries ----------------------------
(***************************************************************************)
(* The SQL agent without the database around it: which question is taken   *)
(* for which query, which columns a query needs, what the guardrails       *)
(* refuse, and the rows a query returns. A question is the set of the      *)
(* phrases found in it, a database a set of rows per table.                *)
(***************************************************************************)
EXTENDS Naturals, FiniteSets, Sequences, FiniteSetsExt

\* The columns the planner may ask for, as the migrations create them.
TableColumns ==
    [insurance_carriers |-> {"id", "workspace_id", "code", "name", "is_active"},
     insurance_plans |-> {"id", "workspace_id", "carrier_id", "code", "name", "monthly_premium"},
     insurance_agents |-> {"id", "workspace_id", "npn", "first_name", "last_name", "email"},
     insurance_customers |-> {"id", "workspace_id", "customer_number", "first_name", "last_name"},
     insurance_policies |-> {"id", "workspace_id", "policy_number", "customer_id", "carrier_id",
                             "plan_id", "agent_id", "effective_date", "status", "premium",
                             "created_at"},
     insurance_payments |-> {"id", "workspace_id", "policy_id", "payment_date", "amount", "status"},
     insurance_commissions |-> {"id", "workspace_id", "policy_id", "agent_id", "statement_date",
                                "gross_amount", "net_amount", "status"}]

SQL_AGENT_ALLOWED_TABLES ==
    {"insurance_carriers", "insurance_plans", "insurance_agents", "insurance_customers",
     "insurance_policies", "insurance_payments", "insurance_commissions"}

-----------------------------------------------------------------------------
\* detect_sql_agent_intent. Words are looked for inside other words, so that
\* "active" is found in "inactive".

Phrases ==
    {"policy", "payment", "commission", "carrier", "agent", "without payments",
     "duplicate policies", "by status", "active", "how many", "recent policies"}

Unsupported == "unsupported"

\* The first that fits.
DetectIntent(question) ==
    CASE {"policy", "payment", "without payments"} \subseteq question ->
            "active_policies_without_payments"
      [] {"policy", "duplicate policies"} \subseteq question -> "duplicate_policy_numbers"
      [] {"commission", "agent"} \subseteq question -> "commissions_by_agent"
      [] {"payment", "carrier"} \subseteq question -> "payments_by_carrier"
      [] {"policy", "carrier"} \subseteq question -> "policies_by_carrier"
      [] {"policy", "by status"} \subseteq question -> "policy_status_summary"
      [] {"policy", "active", "how many"} \subseteq question -> "active_policy_count"
      [] {"policy", "recent policies"} \subseteq question -> "recent_policies"
      [] OTHER -> Unsupported

-----------------------------------------------------------------------------
\* The plan: the query of an intent, built from the columns that exist.

Columns(table, names) == [table |-> table, oneOf |-> names]

\* Every table is asked for its workspace.
Scoped(table, required) ==
    {Columns(table, {c}) : c \in required \union {"workspace_id"}}

Policies(required) == Scoped("insurance_policies", required)
Carriers(required) ==
    Scoped("insurance_carriers", required)
        \union {Columns("insurance_carriers", {"name", "carrier_name"})}
Payments(required) == Scoped("insurance_payments", required)

\* build_agent_name_expression: first and last name, or else a name, or an address.
AgentName ==
    IF {"first_name", "last_name"} \subseteq TableColumns["insurance_agents"] THEN {}
    ELSE {Columns("insurance_agents",
                  {"name", "full_name", "agent_name", "email", "work_email"})}

\* A commission names its agent, or its policy does.
CommissionAgent ==
    IF "agent_id" \in TableColumns["insurance_commissions"] THEN {}
    ELSE Scoped("insurance_commissions", {"policy_id"}) \union Policies({"id", "agent_id"})

\* What the builder of an intent requires, or requires one of.
Requirements(intent) ==
    CASE intent = "policy_status_summary" -> Policies({"status"})
      [] intent = "active_policy_count" -> Policies({"status"})
      [] intent = "policies_by_carrier" -> Policies({"carrier_id"}) \union Carriers({"id"})
      [] intent = "active_policies_without_payments" ->
            Policies({"id", "policy_number", "status"}) \union Payments({"id", "policy_id"})
      [] intent = "duplicate_policy_numbers" -> Policies({"policy_number"})
      [] intent = "payments_by_carrier" ->
            Payments({"policy_id"}) \union Policies({"id", "carrier_id"})
                \union Carriers({"id"})
                \union {Columns("insurance_payments",
                                {"amount", "payment_amount", "paid_amount"})}
      [] intent = "commissions_by_agent" ->
            Scoped("insurance_commissions", {}) \union Scoped("insurance_agents", {"id"})
                \union AgentName \union CommissionAgent
                \union {Columns("insurance_commissions", {"amount", "commission_amount"})}
      [] intent = "recent_policies" ->
            Policies({"policy_number", "status"})
                \union {Columns("insurance_policies", {"effective_date", "created_at"})}

\* require_column and require_one_of
Resolves(requirement) == requirement.oneOf \intersect TableColumns[requirement.table] # {}

CanBuild(intent) == \A requirement \in Requirements(intent) : Resolves(requirement)

\* The generated SQL, as far as the guardrails look at it.
GeneratedSql(intent) ==
    [statements |-> 1, root |-> "select",
     nodes |-> {"select", "from", "where"}
        \union (IF intent \in {"policies_by_carrier", "payments_by_carrier",
                               "active_policies_without_payments", "commissions_by_agent"}
                THEN {"join"} ELSE {}),
     functions |->
        CASE intent \in {"recent_policies"} -> {}
          [] intent = "active_policies_without_payments" -> {"lower"}
          [] intent = "active_policy_count" -> {"count", "lower"}
          [] intent \in {"payments_by_carrier", "commissions_by_agent"} ->
                {"count", "sum", "coalesce"}
          [] OTHER -> {"count"},
     ctes |-> {},
     tables |-> {[catalog |-> "", schema |-> "public", name |-> r.table] :
                    r \in Requirements(intent)}]

-----------------------------------------------------------------------------
\* validate_sql_agent_query.

AllowedRoots == {"select", "union", "intersect", "except"}

ForbiddenNodes ==
    {"insert", "update", "delete", "merge", "create", "drop", "alter", "truncate",
     "truncatetable", "command", "copy", "grant", "revoke", "transaction", "commit",
     "rollback", "set", "use", "call", "execute", "prepare", "deallocate", "lock", "into",
     "load", "attach", "detach", "vacuum", "analyze", "refresh", "replace"}

ForbiddenFunctions ==
    {"pg_sleep", "pg_read_file", "pg_read_binary_file", "pg_ls_dir", "pg_stat_file",
     "pg_advisory_lock", "pg_advisory_xact_lock", "pg_try_advisory_lock",
     "pg_try_advisory_xact_lock", "pg_terminate_backend", "pg_cancel_backend", "lo_import",
     "lo_export", "dblink", "dblink_connect", "dblink_exec", "set_config", "query_to_xml",
     "database_to_xml", "table_to_xml"}

\* The tables that are no common table expressions.
PhysicalTables(sql) ==
    {t \in sql.tables : ~(t.name \in sql.ctes /\ t.schema = "" /\ t.catalog = "")}

ValidateSqlTables(sql) ==
    /\ PhysicalTables(sql) # {}
    /\ \A t \in PhysicalTables(sql) :
          /\ t.catalog = ""
          /\ t.schema \in {"", "public"}
          /\ t.name \in SQL_AGENT_ALLOWED_TABLES

ValidateSqlAgentQuery(sql, maxRows) ==
    /\ maxRows >= 1
    /\ sql.statements = 1
    /\ sql.root \in AllowedRoots
    /\ sql.nodes \intersect ForbiddenNodes = {}
    /\ sql.functions \intersect ForbiddenFunctions = {}
    /\ ValidateSqlTables(sql)

\* plan_sql_agent_question: the status of the answer, or "planned". A column
\* that is missing is found after the schema was loaded, where nobody expects
\* it any more.
PlanSqlAgentQuestion(question, maxRows) ==
    LET intent == DetectIntent(question)
    IN  CASE intent = Unsupported -> "422"
          [] intent # Unsupported /\ ~CanBuild(intent) -> "500"
          [] intent # Unsupported /\ CanBuild(intent)
             /\ ~ValidateSqlAgentQuery(GeneratedSql(intent), maxRows) -> "400"
          [] OTHER -> "planned"

-----------------------------------------------------------------------------
\* The rows of a query that can be built.

\* build_workspace_condition
InWorkspace(db, table, workspace) == {r \in db[table] : r.workspace = workspace}

\* Mutant: the join of the carriers is not scoped.
JoinableCarriersAnywhere(db, workspace) == db["insurance_carriers"]

JoinableCarriers(db, workspace) == InWorkspace(db, "insurance_carriers", workspace)

Lower(status) == IF status = "Active" THEN "active" ELSE status

IsActive(policy) == Lower(policy.status) = "active"

Sum(rows) == MapThenSumSet(LAMBDA r : r.amount, rows)

\* The policies with their carriers: those that have none to join are dropped.
PoliciesOfCarriers(db, workspace) ==
    {pc \in InWorkspace(db, "insurance_policies", workspace) \X JoinableCarriers(db, workspace) :
        pc[1].carrier = pc[2].id}

PaymentsOfCarrier(db, workspace, name) ==
    {r \in InWorkspace(db, "insurance_payments", workspace) :
        \E pc \in PoliciesOfCarriers(db, workspace) :
            r.policy = pc[1].id /\ pc[2].name = name}

QueryResult(intent, db, workspace) ==
    LET policies == InWorkspace(db, "insurance_policies", workspace)
        payments == InWorkspace(db, "insurance_payments", workspace)
        joined == PoliciesOfCarriers(db, workspace)
        listed(p) == [id |-> p.id, number |-> p.number, status |-> p.status,
                      effective |-> p.effective]
    IN  CASE intent = "policy_status_summary" ->
                {[status |-> s, count |-> Cardinality({p \in policies : p.status = s})] :
                    s \in {p.status : p \in policies}}
          [] intent = "active_policy_count" ->
                {[count |-> Cardinality({p \in policies : IsActive(p)})]}
          [] intent = "policies_by_carrier" ->
                {[carrier |-> n, count |-> Cardinality({pc \in joined : pc[2].name = n})] :
                    n \in {pc[2].name : pc \in joined}}
          [] intent = "active_policies_without_payments" ->
                {[id |-> p.id, number |-> p.number, status |-> p.status] :
                    p \in {p \in policies : IsActive(p) /\ \A r \in payments : r.policy # p.id}}
          [] intent = "duplicate_policy_numbers" ->
                {d \in {[number |-> p.number,
                         count |-> Cardinality({o \in policies : o.number = p.number})] :
                           p \in policies} : d.count > 1}
          [] intent = "payments_by_carrier" ->
                {[carrier |-> n,
                  count |-> Cardinality(PaymentsOfCarrier(db, workspace, n)),
                  total |-> Sum(PaymentsOfCarrier(db, workspace, n))] :
                    n \in {n \in {pc[2].name : pc \in joined} :
                              PaymentsOfCarrier(db, workspace, n) # {}}}
          [] intent = "recent_policies" -> {listed(p) : p \in policies}

\* ORDER BY, without its last key: rows that are equal here come in any order.
Precedes(intent, r, s) ==
    CASE intent \in {"policy_status_summary", "policies_by_carrier", "duplicate_policy_numbers"} ->
            r.count > s.count
      [] intent = "payments_by_carrier" -> r.total > s.total
      [] intent = "active_policies_without_payments" -> r.number < s.number
      [] intent = "recent_policies" ->
            r.effective > s.effective \/ (r.effective = s.effective /\ r.number < s.number)
      [] OTHER -> FALSE

\* build_row_limited_sql: what SELECT * FROM (...) LIMIT maxRows may return.
RowLimited(intent, rows, maxRows) ==
    {returned \in SUBSET rows :
        /\ Cardinality(returned) = Min({Cardinality(rows), maxRows})
        /\ \A r \in returned, s \in rows \ returned : ~Precedes(intent, s, r)}

=============================================================================
