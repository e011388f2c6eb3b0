------------------------------ MODULE QueryService ------------------------------
(***************************************************************************)
(* The requests that only read: questions to the SQL agent (/sql-agent     *)
(* /schema, /plan, /query) and to the documents (/rag/search, /rag/answer).*)
(* A request's session takes a connection from the pool when the user is   *)
(* looked up, and keeps it until the request ends; the inspection of the   *)
(* schema and the execution of a query each take a second one meanwhile,   *)
(* since they go to the engine and not to the session. Who finds the pool  *)
(* empty waits, and gives up after pool_timeout.                           *)
(*                                                                         *)
(* The documents behave as DocumentPublication says.                       *)
(***************************************************************************)
EXTENDS InsuranceQueries, GroundedAnswers

CONSTANTS
    Documents, Attempts,
    Requests,
    Asks,         \* what every request may ask
    Insurance,    \* rows of the insurance tables, which no request writes
    PoolSize,     \* connections: pool_size and max_overflow
    MaxVersion,   \* bound: executions of a processing run that complete
    MaxAttempt    \* bound: attempts of a document

ASSUME PoolAssumption == PoolSize \in Nat \ {0}

\* The planner and resolve_max_citations refuse other limits.
ASSUME AsksAssumption ==
    \A r \in Requests : \A a \in Asks[r] :
        /\ a.kind \in {"schema", "plan", "query", "search", "answer"}
        /\ a.question \subseteq Phrases
        /\ a.kind \in {"schema", "plan", "query"} => a.maxRows \in Nat
        /\ a.kind \in {"search", "answer"} => a.citations \in Nat \ {0}

ASSUME InsuranceAssumption ==
    \A t \in {"insurance_carriers", "insurance_policies", "insurance_payments"} :
        t \in DOMAIN Insurance /\ IsFiniteSet(Insurance[t])

\* Documents are compared by their identifiers.
ASSUME DocumentsAssumption == Documents \subseteq Nat

ASSUME VersionAssumption == MaxVersion \in Nat

ASSUME ChunksAssumption ==
    \A d \in Documents, n \in Attempts :
        /\ Chunks[d][n][0] = <<>>
        /\ \A k \in 0 .. MaxVersion :
              /\ Len(Chunks[d][n][k]) \in Nat
              /\ DOMAIN Chunks[d][n][k] = 1 .. Len(Chunks[d][n][k])
              /\ \A i \in DOMAIN Chunks[d][n][k] : Chunks[d][n][k][i].distance \in Nat

VARIABLES
    present, removed, opened, version, shown,   \* the published results
    request

published == <<present, removed, opened, version, shown>>
vars == <<published, request>>

Publication == INSTANCE DocumentPublication

Step == {"idle", "authenticate", "catalog", "inspect", "execute", "executing",
         "embed", "search", "replying", "done"}

Reply == {"none", "200", "400", "401", "403", "408", "422", "500", "503"}

NoAsk == [kind |-> "none"]

NewRequest ==
    [pc |-> "idle", ask |-> NoAsk, held |-> 0, reply |-> "none",
     rows |-> {}, limitReached |-> FALSE, hits |-> <<>>]

RequestOK(q) ==
    /\ q.pc \in Step /\ q.reply \in Reply
    /\ q.held = CASE q.pc \in {"inspect", "executing"} -> 2
                  [] q.pc \in {"catalog", "execute", "embed", "search"} -> 1
                  [] q.pc = "replying" -> IF q.held = 0 THEN 0 ELSE 1
                  [] OTHER -> 0
    /\ q.reply = "none" <=> q.pc # "replying"
    /\ q.ask = NoAsk <=> q.pc \in {"idle", "done"} \/ q.reply \notin {"none", "200"}
    /\ q.rows # {} => q.ask.kind = "query" /\ q.reply = "200"
    /\ q.hits # <<>> => q.ask.kind \in {"search", "answer"} /\ q.reply = "200"

Init ==
    /\ Publication!Init
    /\ request = [r \in Requests |-> NewRequest]

AllAsks == UNION {Asks[r] : r \in Requests}

\* The outcome of planning, and the results a planned query may have; the
\* schema and the rows do not change meanwhile.
Outcome ==
    [ask \in {a \in AllAsks : a.kind \in {"schema", "plan", "query"}} |->
        IF ask.kind = "schema" THEN "200" ELSE PlanSqlAgentQuestion(ask.question, ask.maxRows)]

Results ==
    [ask \in {a \in DOMAIN Outcome : a.kind = "query" /\ Outcome[a] = "planned"} |->
        LET intent == DetectIntent(ask.question)
        IN  RowLimited(intent, QueryResult(intent, Insurance, ask.workspace), ask.maxRows)]

\* The connections that requests hold, the first and the second of each.
CheckedOut == {c \in Requests \X {1, 2} : c[2] <= request[c[1]].held}

Free == PoolSize - Cardinality(CheckedOut)

-----------------------------------------------------------------------------
\* The steps of every request.

Go(r, step, held) ==
    /\ UNCHANGED published
    /\ request' = [request EXCEPT ![r].pc = step, ![r].held = held]

\* An answer without rows and hits; a refusal forgets what was asked.
Answer(r, reply, held) ==
    /\ UNCHANGED published
    /\ request' = [request EXCEPT
          ![r].pc = "replying", ![r].reply = reply, ![r].held = held,
          ![r].ask = IF reply = "200" THEN @ ELSE NoAsk]

Arrive(r) ==
    /\ request[r].pc = "idle"
    /\ UNCHANGED published
    /\ \E ask \in Asks[r] :
          request' = [request EXCEPT ![r].pc = "authenticate", ![r].ask = ask]

\* get_current_user
Authenticate(r) ==
    /\ request[r].pc = "authenticate"
    /\ Free > 0
    /\ Go(r, IF request[r].ask.kind \in {"search", "answer"} THEN "embed" ELSE "catalog", 1)

\* A bad token is refused before the user is looked up, and an unknown or
\* inactive user after it.
RefuseToken(r) ==
    /\ request[r].pc = "authenticate"
    /\ Answer(r, "401", 0)

RefuseUser(r) ==
    /\ request[r].pc = "authenticate"
    /\ Free > 0
    /\ \E reply \in {"401", "403"} : Answer(r, reply, 1)

\* Mutant: only the first checkout gives up.
PoolTimeoutAtFirst(r) ==
    /\ request[r].pc = "authenticate"
    /\ Free = 0
    /\ Answer(r, "500", request[r].held)

\* Nobody gave a connection back within pool_timeout.
PoolTimeout(r) ==
    /\ request[r].pc \in {"authenticate", "catalog", "execute"}
    /\ Free = 0
    /\ Answer(r, "500", request[r].held)

\* The session is closed.
Close(r) ==
    /\ request[r].pc = "replying"
    /\ UNCHANGED published
    /\ request' = [request EXCEPT ![r] = [NewRequest EXCEPT !.pc = "done"]]

-----------------------------------------------------------------------------
\* The SQL agent.

\* load_insurance_schema_catalog; the checkouts of one inspection follow each
\* other and stand as one.
OpenCatalog(r) ==
    /\ request[r].pc = "catalog"
    /\ Free > 0
    /\ Go(r, "inspect", 2)

InspectFails(r) ==
    /\ request[r].pc = "inspect"
    /\ Answer(r, "500", 1)

\* Mutant: the inspector keeps its connection.
ReadCatalogHolding(r) ==
    /\ request[r].pc = "inspect"
    /\ LET ask == request[r].ask
           outcome == Outcome[ask]
       IN  \/ outcome = "planned" /\ ask.kind = "query" /\ Go(r, "execute", 1)
           \/ outcome = "planned" /\ ask.kind = "plan" /\ Answer(r, "200", 2)
           \/ outcome # "planned" /\ Answer(r, outcome, 2)

\* The catalog is complete; a question is planned with it.
ReadCatalog(r) ==
    /\ request[r].pc = "inspect"
    /\ LET ask == request[r].ask
           outcome == Outcome[ask]
       IN  \/ outcome = "planned" /\ ask.kind = "query" /\ Go(r, "execute", 1)
           \/ outcome = "planned" /\ ask.kind = "plan" /\ Answer(r, "200", 1)
           \/ outcome # "planned" /\ Answer(r, outcome, 1)

\* open_sql_agent_connection
OpenExecution(r) ==
    /\ request[r].pc = "execute"
    /\ Free > 0
    /\ Go(r, "executing", 2)

\* Mutant: a result as long as the limit counts as complete.
LimitPassed(rows, maxRows) == Cardinality(rows) > maxRows

LimitReached(rows, maxRows) == Cardinality(rows) >= maxRows

\* execute_validated_sql: one statement of a transaction that reads only.
Execute(r) ==
    /\ request[r].pc = "executing"
    /\ UNCHANGED published
    /\ \E rows \in Results[request[r].ask] :
          request' = [request EXCEPT
             ![r].pc = "replying", ![r].reply = "200", ![r].held = 1, ![r].rows = rows,
             ![r].limitReached = LimitReached(rows, request[r].ask.maxRows)]

\* The statement timeout, or the database.
ExecutionFails(r) ==
    /\ request[r].pc = "executing"
    /\ \E reply \in {"408", "500"} : Answer(r, reply, 1)

-----------------------------------------------------------------------------
\* The documents.

TopK(ask) ==
    CASE ask.kind = "answer" -> ResolvedTopK(ask)
      [] ask.kind = "search" /\ ask.topK # None -> ask.topK
      [] OTHER -> DefaultTopK

\* embed_query; a session without a statement to run keeps its connection.
Embed(r) ==
    /\ request[r].pc = "embed"
    /\ IF TopKIsAllowed(TopK(request[r].ask)) THEN Go(r, "search", 1) ELSE Answer(r, "400", 1)

EmbedFails(r) ==
    /\ request[r].pc = "embed"
    /\ TopKIsAllowed(TopK(request[r].ask))
    /\ Answer(r, "503", 1)

Search(r) ==
    /\ request[r].pc = "search"
    /\ UNCHANGED published
    /\ request' = [request EXCEPT
          ![r].pc = "replying", ![r].reply = "200",
          ![r].hits = SearchDocumentChunks(request[r].ask, TopK(request[r].ask),
                                           opened, version, shown)]

SearchFails(r) ==
    /\ request[r].pc = "search"
    /\ Answer(r, "500", 1)

-----------------------------------------------------------------------------
\* Uploads, processing and deletions go on meanwhile.
Publish ==
    /\ Publication!Next
    /\ \A d \in Documents, n \in Attempts :
          version'[d][n] <= MaxVersion /\ (n \in opened'[d] => n <= MaxAttempt[d])
    /\ UNCHANGED request

Serve(r) ==
    \/ Authenticate(r) \/ RefuseToken(r) \/ RefuseUser(r) \/ PoolTimeout(r)
    \/ OpenCatalog(r) \/ InspectFails(r) \/ ReadCatalog(r)
    \/ OpenExecution(r) \/ Execute(r) \/ ExecutionFails(r)
    \/ Embed(r) \/ EmbedFails(r) \/ Search(r) \/ SearchFails(r)
    \/ Close(r)

Next == Publish \/ \E r \in Requests : Arrive(r) \/ Serve(r)

Spec == Init /\ [][Next]_vars

\* A request in a thread goes on; who waits for a connection gets it or gives up.
FairSpec == Spec /\ \A r \in Requests : WF_vars(Serve(r))

-----------------------------------------------------------------------------
\* Properties.

TypeOK ==
    /\ \A r \in Requests : RequestOK(request[r])
    /\ Free \in 0 .. PoolSize
    /\ present \subseteq Documents

Answered(r, kinds) ==
    request[r].pc = "replying" /\ request[r].reply = "200" /\ request[r].ask.kind \in kinds

Hits(r) == {request[r].hits[i] : i \in DOMAIN request[r].hits}

\* The rows of one workspace.
OwnRows(workspace) ==
    [t \in DOMAIN Insurance |-> InWorkspace(Insurance, t, workspace)]

(***************************************************************************)
(* What a workspace is told is computed from its own rows, whatever the    *)
(* other workspaces own and whichever rows of theirs its own refer to; and *)
(* no hit is of another workspace's document.                              *)
(***************************************************************************)
AnswersKeepTheWorkspace ==
    \A r \in Requests :
        LET ask == request[r].ask
            intent == DetectIntent(ask.question)
        IN  /\ Answered(r, {"query"}) =>
                  request[r].rows \subseteq QueryResult(intent, OwnRows(ask.workspace), ask.workspace)
            /\ Answered(r, {"search", "answer"}) =>
                  \A i \in DOMAIN request[r].hits :
                      WorkspaceOf[request[r].hits[i].document] = ask.workspace

(***************************************************************************)
(* A result that does not say that its limit was reached is complete, and  *)
(* one that was cut has the rows that come first.                          *)
(***************************************************************************)
CompleteUnlessLimited ==
    \A r \in Requests : Answered(r, {"query"}) =>
        LET intent == DetectIntent(request[r].ask.question)
            all == QueryResult(intent, Insurance, request[r].ask.workspace)
        IN  /\ ~request[r].limitReached => request[r].rows = all
            /\ \A s \in all \ request[r].rows, t \in request[r].rows : ~Precedes(intent, s, t)

(***************************************************************************)
(* Citations of one document come from one processing run, although the    *)
(* chunks of older ones are still stored; they are numbered in the order of*)
(* the hits and say different things; and an answer that claims to have    *)
(* found nothing had no hit to quote.                                      *)
(***************************************************************************)
CitationsShareOneResult ==
    \A r \in Requests : Answered(r, {"answer"}) =>
        LET answer == GroundedAnswer(request[r].ask, request[r].hits)
            cited == answer.citations
        IN  /\ ~answer.grounded => \A i \in DOMAIN request[r].hits :
                  BestExcerpt(request[r].ask, ChunkOf(request[r].hits[i])) = NoExcerpt
            /\ Len(cited) <= request[r].ask.citations /\ Len(cited) <= answer.retrieved
            /\ \A i, j \in DOMAIN cited : i < j =>
                  /\ cited[i].number < cited[j].number
                  /\ cited[i].excerpt # cited[j].excerpt
                  /\ Rank(cited[i].source, Hits(r)) < Rank(cited[j].source, Hits(r))
                  /\ cited[i].source.document = cited[j].source.document =>
                        cited[i].source.attempt = cited[j].source.attempt

(***************************************************************************)
(* Every request ends: it does not wait for ever for a connection that     *)
(* others hold while they wait themselves.                                 *)
(***************************************************************************)
EveryRequestEnds ==
    \A r \in Requests : request[r].pc = "authenticate" ~> request[r].pc = "done"

=============================================================================
