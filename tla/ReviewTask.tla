------------------------------ MODULE ReviewTask ------------------------------
(***************************************************************************)
(* One review task and the requests PATCH /reconciliation/review-tasks/{id}*)
(* that work on it: update_review_task reads the row without a lock, stages*)
(* the new values in the session's object, and commits. SQLAlchemy then    *)
(* writes the columns whose staged value differs from the one that was     *)
(* read, and no other, so what concurrent requests leave is a mixture.     *)
(***************************************************************************)
CONSTANTS
    Requests,      \* update requests, one shot each
    Users,
    Assignable,    \* active members of the task's workspace
    UserOf,        \* who sends a request
    Notes,         \* texts of resolution notes
    Blank,         \* notes of white space only
    Values,        \* corrected values
    Patches,       \* bodies of requests
    Null,
    NoTask         \* the task was cascaded away with its document

Resolved == {"approved", "corrected", "rejected"}
TaskStatus == {"open", "in_progress"} \union Resolved

Fields == {"status", "assignee", "notes", "value"}
Columns == Fields \union {"resolver", "resolvedAt"}

\* A body gives values to some of the fields: its domain is model_fields_set.
PatchOK(p) ==
    /\ DOMAIN p \subseteq Fields
    /\ "status" \in DOMAIN p => p["status"] \in TaskStatus \union {Null}
    /\ "assignee" \in DOMAIN p => p["assignee"] \in Users \union {Null}
    /\ "notes" \in DOMAIN p => p["notes"] \in Notes \union {Blank, Null}
    /\ "value" \in DOMAIN p => p["value"] \in Values \union {Null}

ASSUME UsersAssumption == Assignable \subseteq Users /\ UserOf \in [Requests -> Users]

ASSUME PatchesAssumption == \A p \in Patches : PatchOK(p)

Cells == TaskStatus \union Users \union Requests \union Notes \union Values \union {Blank, Null}

\* A row; resolvedAt is the request whose moment it is.
TaskOK(t) ==
    /\ t \in [Columns -> Cells]
    /\ t["status"] \in TaskStatus
    /\ t["assignee"] \in Assignable \union {Null}
    /\ t["notes"] \in Notes \union {Blank, Null}
    /\ t["value"] \in Values \union {Null}
    /\ t["resolver"] \in Users \union {Null}
    /\ t["resolvedAt"] \in Requests \union {Null}

NewTask == [c \in Columns |-> IF c = "status" THEN "open" ELSE Null]

ASSUME NullAssumption == Null \notin Notes \union Values \union {Blank}

ASSUME NoTaskAssumption == NoTask \notin [Columns -> Cells]

VARIABLES
    task,      \* the committed row, or NoTask
    request    \* progress of every request

vars == <<task, request>>

NoPatch == [f \in {} |-> Null]

NewRequest == [pc |-> "idle", patch |-> NoPatch, read |-> NewTask, staged |-> NewTask,
               reply |-> "none"]

RequestOK(r) ==
    /\ r.pc \in {"idle", "staged", "committed", "done"}
    /\ r.reply \in {"none", "200", "404", "409", "422", "500"}
    /\ PatchOK(r.patch) /\ TaskOK(r.read) /\ TaskOK(r.staged)

TypeOK ==
    /\ task = NoTask \/ TaskOK(task)
    /\ DOMAIN request = Requests /\ \A q \in Requests : RequestOK(request[q])

Init ==
    /\ task = NewTask
    /\ request = [q \in Requests |-> NewRequest]

-----------------------------------------------------------------------------
\* What the request validates.

Gives(p, f) == f \in DOMAIN p

Resolves(p) == Gives(p, "status") /\ p["status"] \in Resolved

\* Mutant: notes are optional.
ValidateResolutionLoosely(p) ==
    p["status"] = "corrected" => Gives(p, "value")

\* validate_resolution, for a body whose status is a resolution. A corrected
\* value of null counts as given.
ValidateResolution(p) ==
    /\ Gives(p, "notes") /\ p["notes"] \in Notes
    /\ p["status"] = "corrected" => Gives(p, "value")

\* Mutant: the assignee is looked up in every workspace.
ValidateAssigneeAnywhere(p) ==
    Gives(p, "assignee") => p["assignee"] \in Users \union {Null}

ValidateAssignee(p) ==
    Gives(p, "assignee") => p["assignee"] \in Assignable \union {Null}

\* Mutant: a resolved task can be reopened.
ValidateStatusTransitionLoosely(current, requested) ==
    current \in Resolved => requested = current \/ requested = "open"

ValidateStatusTransition(current, requested) ==
    current \in Resolved => requested = current

\* The row as the request would have it.
Staged(q, t, p) ==
    [c \in Columns |->
        CASE c \in DOMAIN p -> p[c]
          [] c = "resolver" /\ Gives(p, "status") -> IF Resolves(p) THEN UserOf[q] ELSE Null
          [] c = "resolvedAt" /\ Gives(p, "status") -> IF Resolves(p) THEN q ELSE Null
          [] OTHER -> t[c]]

\* The code of the refusal of body p on row t, or "none".
Refusal(q, t, p) ==
    CASE ~ValidateAssignee(p) -> "422"
      [] Gives(p, "status") /\ p["status"] = Null -> "422"
      [] Gives(p, "status") /\ ~ValidateStatusTransition(t["status"], p["status"]) -> "409"
      [] /\ Staged(q, t, p)["status"] = "corrected"
         /\ ~Gives(p, "value") /\ t["value"] = Null -> "422"
      [] OTHER -> "none"

-----------------------------------------------------------------------------
\* The steps of a request.

Answer(q, code) == request' = [request EXCEPT ![q].pc = "done", ![q].reply = code]

\* The schema, or an empty body.
RejectBody(q, p) ==
    /\ request[q].pc = "idle"
    /\ DOMAIN p = {} \/ (Resolves(p) /\ ~ValidateResolution(p))
    /\ Answer(q, "422")
    /\ UNCHANGED task

\* Read the task, validate and stage.
StageUpdate(q, p) ==
    /\ request[q].pc = "idle"
    /\ DOMAIN p # {} /\ (Resolves(p) => ValidateResolution(p))
    /\ CASE task = NoTask -> Answer(q, "404")
         [] task # NoTask /\ Refusal(q, task, p) # "none" -> Answer(q, Refusal(q, task, p))
         [] OTHER -> request' = [request EXCEPT ![q] =
              [NewRequest EXCEPT !.pc = "staged", !.patch = p, !.read = task,
                                 !.staged = Staged(q, task, p)]]
    /\ UNCHANGED task

Written(q) == {c \in Columns : request[q].staged[c] # request[q].read[c]}

\* Mutant: the UPDATE names every column.
CommitWholeRow(q) ==
    /\ request[q].pc = "staged"
    /\ task # NoTask
    /\ task' = request[q].staged
    /\ request' = [request EXCEPT ![q].pc = "committed"]

\* The UPDATE of the columns that differ; without one there is nothing to do.
CommitUpdate(q) ==
    /\ request[q].pc = "staged"
    /\ task = NoTask => Written(q) = {}
    /\ task' = IF task = NoTask THEN NoTask
               ELSE [c \in Columns |-> IF c \in Written(q) THEN request[q].staged[c] ELSE task[c]]
    /\ request' = [request EXCEPT ![q].pc = "committed"]

\* The UPDATE finds no row, or the database fails.
CommitFails(q) ==
    /\ request[q].pc = "staged"
    /\ Answer(q, "500")
    /\ UNCHANGED task

\* refresh() stands in the try of commit().
AnswerUpdate(q) ==
    /\ request[q].pc = "committed"
    /\ task # NoTask
    /\ Answer(q, "200")
    /\ UNCHANGED task

RefreshFails(q) ==
    /\ request[q].pc = "committed"
    /\ Answer(q, "500")
    /\ UNCHANGED task

RemoveTask ==
    /\ task # NoTask
    /\ task' = NoTask
    /\ UNCHANGED request

Update(q) ==
    \/ \E p \in Patches : RejectBody(q, p) \/ StageUpdate(q, p)
    \/ CommitUpdate(q)
    \/ CommitFails(q)
    \/ AnswerUpdate(q)
    \/ RefreshFails(q)

\* All is done: a step of its own, so that TLC takes any other end for a deadlock.
Rest ==
    /\ \A q \in Requests : request[q].pc = "done"
    /\ UNCHANGED vars

Next == RemoveTask \/ Rest \/ \E q \in Requests : Update(q)

Spec == Init /\ [][Next]_vars

-----------------------------------------------------------------------------
\* Properties.

Commits(q) == request[q].pc = "staged" /\ request'[q].pc = "committed"

\* The columns a body speaks about.
Named(p) ==
    DOMAIN p \union (IF Gives(p, "status") THEN {"resolver", "resolvedAt"} ELSE {})

(***************************************************************************)
(* No update is lost to a request that did not speak of it: a commit leaves*)
(* alone every column its body does not name, whatever others committed    *)
(* between its read and its write.                                         *)
(***************************************************************************)
UnnamedColumnsStay ==
    [][\A q \in Requests : Commits(q) /\ task # NoTask =>
          \A c \in Columns \ Named(request[q].patch) : task'[c] = task[c]]_vars

(***************************************************************************)
(* A resolved task is moved to another status by nobody but a request that *)
(* read it before it was resolved.                                         *)
(***************************************************************************)
ResolvedMovesOnlyByRace ==
    [][task # NoTask /\ task' # NoTask
       /\ task["status"] \in Resolved /\ task'["status"] # task["status"] =>
          \E q \in Requests : Commits(q) /\ request[q].read["status"] \notin Resolved]_vars

(***************************************************************************)
(* A resolution comes with its grounds: a resolved task has notes and a    *)
(* corrected one a value, unless a request that was let through cleared    *)
(* them.                                                                   *)
(***************************************************************************)
ResolutionIsExplained ==
    task # NoTask =>
        /\ task["status"] \in Resolved /\ task["notes"] \notin Notes =>
              \E q \in Requests : /\ request[q].pc \in {"committed", "done"}
                                  /\ Gives(request[q].patch, "notes")
                                  /\ request[q].patch["notes"] \notin Notes
        /\ task["status"] = "corrected" /\ task["value"] = Null =>
              \E q \in Requests : /\ request[q].pc \in {"committed", "done"}
                                  /\ Gives(request[q].patch, "value")
                                  /\ request[q].patch["value"] = Null

(***************************************************************************)
(* "A resolved review task cannot be moved to another status.": does not   *)
(* hold, see ResolvedMovesOnlyByRace.                                      *)
(***************************************************************************)
ResolvedStatusIsFinal ==
    [][task # NoTask /\ task' # NoTask /\ task["status"] \in Resolved =>
          task'["status"] = task["status"]]_vars

=============================================================================
