---------------------- MODULE ReconciliationReportProofs ----------------------
(***************************************************************************)
(* Proofs about ReviewTask and ReconciliationReport: types, what a commit  *)
(* leaves alone, how a resolution can be lost, and that resolutions come   *)
(* with their grounds; for a task the report changes nothing, so that all  *)
(* of this holds beside it; a report is of one state of its run, unless    *)
(* the document was removed; and what it says stands on the pages it names. *)
(***************************************************************************)
EXTENDS ReconciliationReport, OrderLemmas

USE UsersAssumption, PatchesAssumption

\* A staged request will write what its body asks for, on the row it read.
StagedOK(q) ==
    LET r == request[q] IN
    r.pc = "staged" =>
        /\ r.staged = Staged(q, r.read, r.patch)
        /\ Gives(r.patch, "status") =>
              /\ r.patch["status"] \in TaskStatus
              /\ ValidateStatusTransition(r.read["status"], r.patch["status"])
        /\ Gives(r.patch, "assignee") => r.patch["assignee"] \in Assignable \union {Null}
        /\ Resolves(r.patch) => ValidateResolution(r.patch)

StagedInv == \A q \in Requests : StagedOK(q)

\* The row that a staged request will write has a row's type.
LEMMA StagedTyped ==
    ASSUME NEW q \in Requests, NEW t, TaskOK(t), NEW p, PatchOK(p),
           Gives(p, "status") => p["status"] \in TaskStatus,
           Gives(p, "assignee") => p["assignee"] \in Assignable \union {Null}
    PROVE  TaskOK(Staged(q, t, p))
<1> DEFINE s == Staged(q, t, p)
<1>1. /\ s["status"] = IF "status" \in DOMAIN p THEN p["status"] ELSE t["status"]
      /\ s["assignee"] = IF "assignee" \in DOMAIN p THEN p["assignee"] ELSE t["assignee"]
      /\ s["notes"] = IF "notes" \in DOMAIN p THEN p["notes"] ELSE t["notes"]
      /\ s["value"] = IF "value" \in DOMAIN p THEN p["value"] ELSE t["value"]
  BY DEF Staged, Columns, Fields
<1>2. /\ s["resolver"] \in {UserOf[q], Null, t["resolver"]}
      /\ s["resolvedAt"] \in {q, Null, t["resolvedAt"]}
  BY DEF Staged, Columns, Fields, PatchOK
<1>3. UserOf[q] \in Users
  OBVIOUS
<1>4. /\ s["status"] \in TaskStatus
      /\ s["assignee"] \in Assignable \union {Null}
      /\ s["notes"] \in Notes \union {Blank, Null}
      /\ s["value"] \in Values \union {Null}
      /\ s["resolver"] \in Users \union {Null}
      /\ s["resolvedAt"] \in Requests \union {Null}
  <2> HIDE DEF s
  <2> QED BY <1>1, <1>2, <1>3 DEF TaskOK, PatchOK, Gives
<1>5. s = [c \in Columns |-> s[c]]
  BY DEF Staged
<1>6. \A c \in Columns : s[c] \in Cells
  <2> HIDE DEF s
  <2> QED BY <1>4 DEF Columns, Fields, Cells
<1>7. s \in [Columns -> Cells]
  <2> HIDE DEF s
  <2> QED BY <1>5, <1>6
<1> QED BY <1>4, <1>7 DEF TaskOK

\* A mixture of two rows is a row.
LEMMA MixtureTyped ==
    ASSUME NEW t, TaskOK(t), NEW s, TaskOK(s), NEW W
    PROVE  TaskOK([c \in Columns |-> IF c \in W THEN s[c] ELSE t[c]])
BY DEF TaskOK, Columns, Fields

LEMMA InitTypeOK == Init => TypeOK
<1> SUFFICES ASSUME Init PROVE TypeOK
  OBVIOUS
<1>1. TaskOK(NewTask)
  BY DEF NewTask, TaskOK, Columns, Fields, Cells, TaskStatus
<1>2. PatchOK(NoPatch)
  BY DEF PatchOK, NoPatch
<1> QED BY <1>1, <1>2 DEF Init, TypeOK, RequestOK, NewRequest

\* Answering changes only the progress of one request.
LEMMA AnswerFields ==
    ASSUME NEW q \in Requests, NEW code, DOMAIN request = Requests, Answer(q, code)
    PROVE  /\ DOMAIN request' = Requests
           /\ \A x \in Requests \ {q} : request'[x] = request[x]
           /\ request'[q] = [request[q] EXCEPT !.pc = "done", !.reply = code]
BY DEF Answer

\* Types and what is staged, together: neither is inductive alone.
TypedInv == TypeOK /\ StagedInv

\* A request that goes on has a well-formed record; the others keep theirs.
LEMMA RequestStep ==
    ASSUME TypedInv, NEW q \in Requests,
           DOMAIN request' = Requests,
           \A x \in Requests \ {q} : request'[x] = request[x],
           RequestOK(request'[q]), StagedOK(q)',
           task' = NoTask \/ TaskOK(task')
    PROVE  TypedInv'
<1>1. \A x \in Requests : RequestOK(request'[x])
  BY DEF TypedInv, TypeOK
<1>2. ASSUME NEW x \in Requests PROVE StagedOK(x)'
  <2>1. CASE x = q
    BY <2>1
  <2>2. CASE x # q
    BY <2>2 DEF TypedInv, StagedInv, StagedOK
  <2> QED BY <2>1, <2>2
<1> QED BY <1>1, <1>2 DEF TypedInv, TypeOK, StagedInv

LEMMA AnswerTyped ==
    ASSUME TypedInv, NEW q \in Requests,
           NEW code \in {"200", "404", "409", "422", "500"}, Answer(q, code),
           UNCHANGED task
    PROVE  TypedInv'
<1>1. /\ DOMAIN request' = Requests
      /\ \A x \in Requests \ {q} : request'[x] = request[x]
      /\ request'[q] = [request[q] EXCEPT !.pc = "done", !.reply = code]
  BY AnswerFields DEF TypedInv, TypeOK
<1>2. request'[q].pc = "done"
  BY <1>1
<1>3. RequestOK(request'[q])
  BY <1>1 DEF TypedInv, TypeOK, RequestOK
<1>4. StagedOK(q)'
  BY <1>2 DEF StagedOK
<1> QED BY <1>1, <1>3, <1>4, RequestStep DEF TypedInv, TypeOK

LEMMA StageUpdateTyped ==
    ASSUME TypedInv, NEW q \in Requests, NEW p \in Patches, StageUpdate(q, p)
    PROVE  TypedInv'
<1>1. CASE task = NoTask
  BY <1>1, AnswerTyped DEF StageUpdate
<1>2. CASE task # NoTask /\ Refusal(q, task, p) # "none"
  <2>1. Refusal(q, task, p) \in {"409", "422"}
    BY <1>2 DEF Refusal
  <2>2. Answer(q, Refusal(q, task, p)) /\ UNCHANGED task
    BY <1>2 DEF StageUpdate
  <2> QED BY <2>1, <2>2, AnswerTyped
<1>3. CASE task # NoTask /\ Refusal(q, task, p) = "none"
  <2> DEFINE r == [NewRequest EXCEPT !.pc = "staged", !.patch = p, !.read = task,
                                    !.staged = Staged(q, task, p)]
  <2>1. /\ request' = [request EXCEPT ![q] = r]
        /\ UNCHANGED task
        /\ Resolves(p) => ValidateResolution(p)
    BY <1>3 DEF StageUpdate
  <2>2. /\ r.pc = "staged" /\ r.patch = p /\ r.read = task
        /\ r.staged = Staged(q, task, p) /\ r.reply = "none"
    BY DEF NewRequest
  <2> HIDE DEF r
  <2>3. /\ DOMAIN request' = Requests
        /\ \A x \in Requests \ {q} : request'[x] = request[x]
        /\ request'[q] = r
    BY <2>1 DEF TypedInv, TypeOK
  <2>4. PatchOK(p) /\ TaskOK(task)
    BY <1>3 DEF TypedInv, TypeOK
  <2>5. /\ Gives(p, "assignee") => p["assignee"] \in Assignable \union {Null}
        /\ Gives(p, "status") => p["status"] # Null
                                 /\ ValidateStatusTransition(task["status"], p["status"])
    BY <1>3 DEF Refusal, ValidateAssignee
  <2>6. Gives(p, "status") => p["status"] \in TaskStatus
    BY <2>4, <2>5 DEF PatchOK, Gives
  <2>7. TaskOK(Staged(q, task, p))
    BY <2>4, <2>5, <2>6, StagedTyped
  <2>8. RequestOK(request'[q])
    BY <2>2, <2>3, <2>4, <2>7 DEF RequestOK
  <2>9. StagedOK(q)'
    BY <2>1, <2>2, <2>3, <2>5, <2>6 DEF StagedOK
  <2> QED BY <2>1, <2>3, <2>4, <2>8, <2>9, RequestStep
<1> QED BY <1>1, <1>2, <1>3

LEMMA CommitUpdateTyped ==
    ASSUME TypedInv, NEW q \in Requests, CommitUpdate(q)
    PROVE  TypedInv'
<1>1. /\ DOMAIN request' = Requests
      /\ \A x \in Requests \ {q} : request'[x] = request[x]
      /\ request'[q] = [request[q] EXCEPT !.pc = "committed"]
  BY DEF CommitUpdate, TypedInv, TypeOK
<1>2. request'[q].pc = "committed" /\ RequestOK(request'[q])
  BY <1>1 DEF TypedInv, TypeOK, RequestOK
<1>3. task' = NoTask \/ TaskOK(task')
  <2>1. CASE task = NoTask
    BY <2>1 DEF CommitUpdate
  <2>2. CASE task # NoTask
    <3>1. TaskOK(task) /\ TaskOK(request[q].staged)
      BY <2>2 DEF TypedInv, TypeOK, RequestOK
    <3>2. task' = [c \in Columns |-> IF c \in Written(q) THEN request[q].staged[c] ELSE task[c]]
      BY <2>2 DEF CommitUpdate
    <3> QED BY <3>1, <3>2, MixtureTyped
  <2> QED BY <2>1, <2>2
<1>4. StagedOK(q)'
  BY <1>2 DEF StagedOK
<1> QED BY <1>1, <1>2, <1>3, <1>4, RequestStep

LEMMA NextTypedInv == TypedInv /\ [Next]_vars => TypedInv'
<1> SUFFICES ASSUME TypedInv, [Next]_vars PROVE TypedInv'
  OBVIOUS
<1>1. CASE RemoveTask
  BY <1>1 DEF RemoveTask, TypedInv, TypeOK, StagedInv, StagedOK
<1>2. CASE UNCHANGED vars
  BY <1>2 DEF vars, TypedInv, TypeOK, StagedInv, StagedOK
<1>3. CASE Rest
  BY <1>2, <1>3 DEF Rest
<1>4. ASSUME NEW q \in Requests, Update(q) PROVE TypedInv'
  <2>1. ASSUME NEW p \in Patches, RejectBody(q, p) PROVE TypedInv'
    BY <2>1, AnswerTyped DEF RejectBody
  <2>2. ASSUME NEW p \in Patches, StageUpdate(q, p) PROVE TypedInv'
    BY <2>2, StageUpdateTyped
  <2>3. CASE CommitUpdate(q)
    BY <2>3, CommitUpdateTyped
  <2>4. CASE CommitFails(q)
    BY <2>4, AnswerTyped DEF CommitFails
  <2>5. CASE AnswerUpdate(q)
    BY <2>5, AnswerTyped DEF AnswerUpdate
  <2>6. CASE RefreshFails(q)
    BY <2>6, AnswerTyped DEF RefreshFails
  <2> QED BY <1>4, <2>1, <2>2, <2>3, <2>4, <2>5, <2>6 DEF Update
<1> QED BY <1>1, <1>2, <1>3, <1>4 DEF Next

THEOREM SpecTypedInv == Spec => []TypedInv
<1>1. Init => TypedInv
  BY InitTypeOK DEF TypedInv, StagedInv, StagedOK, Init, NewRequest
<1> QED BY <1>1, NextTypedInv, PTL DEF Spec

\* Every variable keeps its type, whatever bodies are sent.
THEOREM SpecTypeOK == Spec => []TypeOK
BY SpecTypedInv, PTL DEF TypedInv

-----------------------------------------------------------------------------
\* What a commit does to the row.

\* Only a commit or a removal changes the row.
LEMMA OnlyCommitsWrite ==
    ASSUME TypedInv, [Next]_vars, task # NoTask, task' # NoTask, task' # task
    PROVE  \E q \in Requests : CommitUpdate(q) /\ Commits(q)
<1>1. PICK q \in Requests : Update(q)
  BY DEF Next, RemoveTask, Rest, vars
<1>2. CommitUpdate(q)
  BY <1>1 DEF Update, RejectBody, StageUpdate, CommitFails, AnswerUpdate, RefreshFails
<1>3. request'[q] = [request[q] EXCEPT !.pc = "committed"]
  BY <1>2 DEF CommitUpdate, TypedInv, TypeOK
<1>4. request'[q].pc = "committed"
  BY <1>3
<1> QED BY <1>2, <1>4 DEF CommitUpdate, Commits

\* What a staged request does not speak of, it does not write.
LEMMA WritesWhatIsNamed ==
    ASSUME TypedInv, NEW q \in Requests, request[q].pc = "staged"
    PROVE  Written(q) \subseteq Named(request[q].patch)
<1>1. request[q].staged = Staged(q, request[q].read, request[q].patch)
  BY DEF TypedInv, StagedInv, StagedOK
<1> QED BY <1>1 DEF Written, Named, Staged, Gives

(***************************************************************************)
(* A commit leaves alone what its body does not name, for any number of    *)
(* concurrent requests and any bodies.                                     *)
(***************************************************************************)
THEOREM SpecUnnamedColumnsStay == Spec => UnnamedColumnsStay
<1> DEFINE Stays == \A q \in Requests : Commits(q) /\ task # NoTask =>
                      \A c \in Columns \ Named(request[q].patch) : task'[c] = task[c]
<1>1. TypedInv /\ [Next]_vars => [Stays]_vars
  <2> SUFFICES ASSUME TypedInv, [Next]_vars, NEW q \in Requests, Commits(q), task # NoTask,
                      NEW c \in Columns \ Named(request[q].patch)
               PROVE  task'[c] = task[c]
    OBVIOUS
  <2>1. CASE task' = task
    BY <2>1
  <2>2. CASE CommitUpdate(q)
    <3>1. c \notin Written(q)
      BY WritesWhatIsNamed DEF Commits
    <3> QED BY <2>2, <3>1 DEF CommitUpdate
  <2>3. CASE ~CommitUpdate(q) /\ task' # task
    <3>1. request'[q] # request[q]
      BY DEF Commits
    <3>2. PICK x \in Requests : Update(x)
      BY <2>3, <3>1 DEF Next, RemoveTask, Rest, vars
    <3>3. CommitUpdate(x)
      BY <2>3, <3>2 DEF Update, RejectBody, StageUpdate, CommitFails, AnswerUpdate, RefreshFails
    <3>4. x # q
      BY <2>3, <3>3
    <3> QED BY <3>1, <3>3, <3>4 DEF CommitUpdate, TypedInv, TypeOK
  <2> QED BY <2>1, <2>2, <2>3
<1> QED BY <1>1, SpecTypedInv, PTL DEF Spec, UnnamedColumnsStay

(***************************************************************************)
(* The only way to lose a resolution is a request that read the task while *)
(* it was not resolved.                                                    *)
(***************************************************************************)
THEOREM SpecResolvedMovesOnlyByRace == Spec => ResolvedMovesOnlyByRace
<1> DEFINE Race == task # NoTask /\ task' # NoTask
                   /\ task["status"] \in Resolved /\ task'["status"] # task["status"] =>
                      \E q \in Requests : Commits(q) /\ request[q].read["status"] \notin Resolved
<1>1. TypedInv /\ [Next]_vars => [Race]_vars
  <2> SUFFICES ASSUME TypedInv, [Next]_vars, task # NoTask, task' # NoTask,
                      task["status"] \in Resolved, task'["status"] # task["status"]
               PROVE  \E q \in Requests : Commits(q) /\ request[q].read["status"] \notin Resolved
    OBVIOUS
  <2>1. PICK q \in Requests : CommitUpdate(q) /\ Commits(q)
    BY OnlyCommitsWrite
  <2> DEFINE r == request[q]
  <2>2. "status" \in Written(q)
    BY <2>1 DEF CommitUpdate, Columns, Fields
  <2>3. /\ r.staged = Staged(q, r.read, r.patch)
        /\ Gives(r.patch, "status") =>
              ValidateStatusTransition(r.read["status"], r.patch["status"])
    BY <2>1 DEF Commits, TypedInv, StagedInv, StagedOK
  <2>4. /\ Gives(r.patch, "status")
        /\ r.patch["status"] # r.read["status"]
    BY <2>2, <2>3 DEF Written, Staged, Gives, Columns, Fields
  <2> QED BY <2>1, <2>3, <2>4 DEF ValidateStatusTransition
<1> QED BY <1>1, SpecTypedInv, PTL DEF Spec, ResolvedMovesOnlyByRace

-----------------------------------------------------------------------------
\* The grounds of a resolution.

\* Request q clears the notes, or the value.
ClearsNotes(q) ==
    /\ request[q].pc \in {"committed", "done"}
    /\ Gives(request[q].patch, "notes") /\ request[q].patch["notes"] \notin Notes

ClearsValue(q) ==
    /\ request[q].pc \in {"committed", "done"}
    /\ Gives(request[q].patch, "value") /\ request[q].patch["value"] = Null

\* Unless somebody clears them, notes that a staged request has read are there
\* still, so that it need not write them again.
NotesInv ==
    task # NoTask =>
        \/ \E q \in Requests : ClearsNotes(q)
        \/ /\ task["status"] \in Resolved => task["notes"] \in Notes
           /\ \A q \in Requests : request[q].pc = "staged" /\ request[q].read["notes"] \in Notes =>
                 task["notes"] \in Notes

ValueInv ==
    task # NoTask =>
        \/ \E q \in Requests : ClearsValue(q)
        \/ /\ task["status"] = "corrected" => task["value"] # Null
           /\ \A q \in Requests : request[q].pc = "staged" /\ request[q].read["value"] # Null =>
                 task["value"] # Null

\* A step of a request other than its commit: staged requests were staged
\* before, or have just read the row.
QuietStep ==
    /\ task' = task
    /\ \A q \in Requests :
          \/ request'[q] = request[q]
          \/ request[q].pc # "idle" /\ request'[q].pc = "done" /\ request'[q].patch = request[q].patch
          \/ request[q].pc = "idle" /\ request'[q].pc # "staged"
          \/ request[q].pc = "idle" /\ request'[q].read = task

LEMMA AnswerIsQuiet ==
    ASSUME TypedInv, NEW q \in Requests, NEW code, Answer(q, code), UNCHANGED task
    PROVE  QuietStep
<1>1. /\ \A x \in Requests \ {q} : request'[x] = request[x]
      /\ request'[q] = [request[q] EXCEPT !.pc = "done", !.reply = code]
  BY AnswerFields DEF TypedInv, TypeOK
<1>2. request'[q].pc = "done" /\ request'[q].patch = request[q].patch
  BY <1>1
<1> QED BY <1>1, <1>2 DEF QuietStep

LEMMA UpdateIsQuiet ==
    ASSUME TypedInv, NEW q \in Requests, Update(q), ~CommitUpdate(q)
    PROVE  QuietStep
<1>1. ASSUME NEW p \in Patches, RejectBody(q, p) PROVE QuietStep
  BY <1>1, AnswerIsQuiet DEF RejectBody
<1>2. ASSUME NEW p \in Patches, StageUpdate(q, p) PROVE QuietStep
  <2>1. CASE \E code : Answer(q, code)
    BY <1>2, <2>1, AnswerIsQuiet DEF StageUpdate
  <2>2. CASE ~\E code : Answer(q, code)
    <3> DEFINE r == [NewRequest EXCEPT !.pc = "staged", !.patch = p, !.read = task,
                                      !.staged = Staged(q, task, p)]
    <3>1. request[q].pc = "idle" /\ request' = [request EXCEPT ![q] = r] /\ task' = task
      BY <1>2, <2>2 DEF StageUpdate
    <3>2. r.read = task
      BY DEF NewRequest
    <3> HIDE DEF r
    <3>3. request'[q] = r /\ \A x \in Requests \ {q} : request'[x] = request[x]
      BY <3>1 DEF TypedInv, TypeOK
    <3> QED BY <3>1, <3>2, <3>3 DEF QuietStep
  <2> QED BY <2>1, <2>2
<1>3. CASE CommitFails(q)
  BY <1>3, AnswerIsQuiet DEF CommitFails
<1>4. CASE AnswerUpdate(q)
  BY <1>4, AnswerIsQuiet DEF AnswerUpdate
<1>5. CASE RefreshFails(q)
  BY <1>5, AnswerIsQuiet DEF RefreshFails
<1> QED BY <1>1, <1>2, <1>3, <1>4, <1>5 DEF Update

LEMMA QuietKeepsGrounds ==
    ASSUME TypedInv, NotesInv, ValueInv, QuietStep
    PROVE  NotesInv' /\ ValueInv'
<1>1. ASSUME NEW q \in Requests, ClearsNotes(q) PROVE ClearsNotes(q)'
  BY <1>1 DEF ClearsNotes, QuietStep
<1>2. ASSUME NEW q \in Requests, ClearsValue(q) PROVE ClearsValue(q)'
  BY <1>2 DEF ClearsValue, QuietStep
<1>3. ASSUME NEW q \in Requests, request'[q].pc = "staged"
      PROVE  (request[q].pc = "staged" /\ request'[q].read = request[q].read)
             \/ request'[q].read = task
  BY <1>3 DEF QuietStep
<1>4. NotesInv'
  BY <1>1, <1>3 DEF NotesInv, QuietStep
<1>5. ValueInv'
  BY <1>2, <1>3 DEF ValueInv, QuietStep
<1> QED BY <1>4, <1>5

LEMMA CommitKeepsGrounds ==
    ASSUME TypedInv, NotesInv, ValueInv, NEW q \in Requests, CommitUpdate(q)
    PROVE  NotesInv' /\ ValueInv'
<1> DEFINE r == request[q]
<1>1. /\ r.pc = "staged"
      /\ r.staged = Staged(q, r.read, r.patch)
      /\ Resolves(r.patch) => ValidateResolution(r.patch)
  BY DEF CommitUpdate, TypedInv, StagedInv, StagedOK
<1>2. /\ \A x \in Requests \ {q} : request'[x] = request[x]
      /\ request'[q] = [r EXCEPT !.pc = "committed"]
  BY DEF CommitUpdate, TypedInv, TypeOK
<1>3. request'[q].pc = "committed" /\ request'[q].patch = r.patch
  BY <1>2
<1>4. CASE task = NoTask
  BY <1>4 DEF CommitUpdate, NotesInv, ValueInv
<1>5. CASE task # NoTask
  <2>1. /\ \A c \in {"status", "notes", "value"} :
              /\ task'[c] = IF r.staged[c] # r.read[c] THEN r.staged[c] ELSE task[c]
              /\ r.staged[c] = IF Gives(r.patch, c) THEN r.patch[c] ELSE r.read[c]
    BY <1>1, <1>5 DEF CommitUpdate, Written, Staged, Columns, Fields, Gives
  <2>2. NotesInv'
    <3>1. CASE \E x \in Requests : ClearsNotes(x)
      <4>1. PICK x \in Requests : ClearsNotes(x)
        BY <3>1
      <4>2. ClearsNotes(x)'
        BY <1>1, <1>2, <4>1 DEF ClearsNotes
      <4> QED BY <4>2 DEF NotesInv
    <3>2. CASE Gives(r.patch, "notes") /\ r.patch["notes"] \notin Notes
      BY <1>3, <3>2 DEF ClearsNotes, NotesInv
    <3>3. CASE /\ ~\E x \in Requests : ClearsNotes(x)
               /\ Gives(r.patch, "notes") => r.patch["notes"] \in Notes
      <4>1. task["notes"] \in Notes => task'["notes"] \in Notes
        BY <2>1, <3>3
      <4>2. \A x \in Requests : request'[x].pc = "staged" =>
               x # q /\ request'[x] = request[x]
        BY <1>2, <1>3
      <4>3. task'["status"] \in Resolved => task'["notes"] \in Notes
        <5>1. CASE task'["status"] = task["status"]
          BY <1>5, <3>3, <4>1, <5>1 DEF NotesInv
        <5>2. CASE task'["status"] # task["status"]
          <6>1. Gives(r.patch, "status") /\ task'["status"] = r.patch["status"]
            BY <2>1, <5>2
          <6>2. CASE Resolves(r.patch)
            <7>1. Gives(r.patch, "notes") /\ r.patch["notes"] \in Notes
              BY <1>1, <6>2 DEF ValidateResolution
            <7>2. r.read["notes"] \in Notes => task["notes"] \in Notes
              BY <1>1, <1>5, <3>3 DEF NotesInv
            <7> QED BY <2>1, <7>1, <7>2
          <6> QED BY <6>1, <6>2 DEF Resolves
        <5> QED BY <5>1, <5>2
      <4> QED BY <1>5, <3>3, <4>1, <4>2, <4>3 DEF NotesInv
    <3> QED BY <3>1, <3>2, <3>3
  <2>3. ValueInv'
    <3>1. CASE \E x \in Requests : ClearsValue(x)
      <4>1. PICK x \in Requests : ClearsValue(x)
        BY <3>1
      <4>2. ClearsValue(x)'
        BY <1>1, <1>2, <4>1 DEF ClearsValue
      <4> QED BY <4>2 DEF ValueInv
    <3>2. CASE Gives(r.patch, "value") /\ r.patch["value"] = Null
      BY <1>3, <3>2 DEF ClearsValue, ValueInv
    <3>3. CASE /\ ~\E x \in Requests : ClearsValue(x)
               /\ Gives(r.patch, "value") => r.patch["value"] # Null
      <4>1. task["value"] # Null => task'["value"] # Null
        BY <2>1, <3>3
      <4>2. \A x \in Requests : request'[x].pc = "staged" =>
               x # q /\ request'[x] = request[x]
        BY <1>2, <1>3
      <4>3. task'["status"] = "corrected" => task'["value"] # Null
        <5>1. CASE task'["status"] = task["status"]
          BY <1>5, <3>3, <4>1, <5>1 DEF ValueInv
        <5>2. CASE task'["status"] # task["status"] /\ task'["status"] = "corrected"
          <6>1. Gives(r.patch, "status") /\ r.patch["status"] = "corrected"
            BY <2>1, <5>2
          <6>2. Gives(r.patch, "value") /\ r.patch["value"] # Null
            BY <1>1, <3>3, <6>1 DEF ValidateResolution, Resolves, Resolved
          <6>3. r.read["value"] # Null => task["value"] # Null
            BY <1>1, <1>5, <3>3 DEF ValueInv
          <6> QED BY <2>1, <6>2, <6>3
        <5> QED BY <5>1, <5>2
      <4> QED BY <1>5, <3>3, <4>1, <4>2, <4>3 DEF ValueInv
    <3> QED BY <3>1, <3>2, <3>3
  <2> QED BY <2>2, <2>3
<1> QED BY <1>4, <1>5

LEMMA NextGrounds ==
    TypedInv /\ NotesInv /\ ValueInv /\ [Next]_vars => NotesInv' /\ ValueInv'
<1> SUFFICES ASSUME TypedInv, NotesInv, ValueInv, [Next]_vars
             PROVE  NotesInv' /\ ValueInv'
  OBVIOUS
<1>1. CASE RemoveTask
  BY <1>1 DEF RemoveTask, NotesInv, ValueInv
<1>2. CASE Rest \/ UNCHANGED vars
  BY <1>2, QuietKeepsGrounds DEF Rest, vars, QuietStep
<1>3. ASSUME NEW q \in Requests, Update(q) PROVE NotesInv' /\ ValueInv'
  BY <1>3, UpdateIsQuiet, QuietKeepsGrounds, CommitKeepsGrounds
<1> QED BY <1>1, <1>2, <1>3 DEF Next

(***************************************************************************)
(* Resolutions come with their grounds, unless a body that was let through *)
(* cleared them.                                                           *)
(***************************************************************************)
THEOREM SpecResolutionIsExplained == Spec => []ResolutionIsExplained
<1>1. Init => NotesInv /\ ValueInv
  BY DEF Init, NotesInv, ValueInv, NewTask, NewRequest, Columns, Fields, Resolved
<1>2. NotesInv /\ ValueInv => ResolutionIsExplained
  BY DEF NotesInv, ValueInv, ResolutionIsExplained, ClearsNotes, ClearsValue
<1> QED BY <1>1, <1>2, NextGrounds, SpecTypedInv, PTL DEF Spec

-----------------------------------------------------------------------------
\* The report.

\* Every step of the larger system is one of ReviewTask, or none.
THEOREM ReportImplementsReviewTask == ReportSpec => Spec
<1>1. ReportInit => Init
  BY DEF ReportInit
<1>2. [ReportNext]_reportVars => [Next]_vars
  <2> SUFFICES ASSUME [ReportNext]_reportVars PROVE [Next]_vars
    OBVIOUS
  <2>1. CASE Report
    BY <2>1 DEF Report, LoadRun, LoadDocumentName, LoadFindings, LoadReviewTasks, ReportFails,
                GenerateReport, Load, AnswerReport, vars
  <2>2. CASE Next /\ UNCHANGED <<pages, report>>
    BY <2>2
  <2>3. CASE UNCHANGED reportVars
    BY <2>3 DEF reportVars, vars
  <2> QED BY <2>1, <2>2, <2>3 DEF ReportNext
<1> QED BY <1>1, <1>2, PTL DEF ReportSpec, Spec

\* So updates keep their promises while a report is loaded.
THEOREM ReportUpdatesAreSafe ==
    ReportSpec => /\ []TypeOK /\ []ResolutionIsExplained
                  /\ UnnamedColumnsStay /\ ResolvedMovesOnlyByRace
BY ReportImplementsReviewTask, SpecTypeOK, SpecResolutionIsExplained, SpecUnnamedColumnsStay,
   SpecResolvedMovesOnlyByRace, PTL

-----------------------------------------------------------------------------
\* What is extracted from the pages.

Methods == DOMAIN MethodPriority

\* A candidate is known by its page, its line and how it was found.
ValueAt(p, field, i, method) ==
    CASE method = "labeled_line" -> Normalize(field, p.lines[i].labels[field])
      [] method = "labeled_next_line" ->
            Normalize(field, p.lines[CHOOSE j \in NextNonEmptyLine(p.lines, i) : TRUE].raw)
      [] OTHER -> p.pattern

BaseOf(field, method) == IF method = "fallback_pattern" THEN 90 ELSE BaseConfidence[field]

CandidateAt(p, field, i, method) ==
    Candidate(p, i, ValueAt(p, field, i, method), BaseOf(field, method), method)

LEMMA NextLineIsUnique ==
    ASSUME NEW p, SourcePageOK(p), NEW i \in DOMAIN p.lines,
           NEW j \in NextNonEmptyLine(p.lines, i), NEW k \in NextNonEmptyLine(p.lines, i)
    PROVE  j = k
<1>1. i \in Nat /\ Len(p.lines) \in Nat
  BY DEF SourcePageOK
<1>2. Lesser(Len(p.lines), i + 2) \in Int
  BY <1>1 DEF Lesser
<1> HIDE DEF Lesser
<1>3. /\ j \in Int /\ k \in Int /\ i + 1 <= j /\ i + 1 <= k
      /\ ~p.lines[j].blank /\ ~p.lines[k].blank
      /\ \A l \in (i + 1) .. (j - 1) : p.lines[l].blank
      /\ \A l \in (i + 1) .. (k - 1) : p.lines[l].blank
  BY <1>1, <1>2 DEF NextNonEmptyLine
<1>4. ~(j < k)
  <2> SUFFICES ASSUME j < k PROVE FALSE
    OBVIOUS
  <2>1. j \in (i + 1) .. (k - 1)
    BY <1>1, <1>3
  <2> QED BY <1>3, <2>1
<1>5. ~(k < j)
  <2> SUFFICES ASSUME k < j PROVE FALSE
    OBVIOUS
  <2>1. k \in (i + 1) .. (j - 1)
    BY <1>1, <1>3
  <2> QED BY <1>3, <2>1
<1> QED BY <1>3, <1>4, <1>5

LEMMA LabeledCandidate ==
    ASSUME NEW p, SourcePageOK(p), NEW field, NEW c \in ExtractLabeledCandidates(p, field)
    PROVE  /\ \E i \in 0 .. Len(p.lines), m \in Methods : c = CandidateAt(p, field, i, m)
           /\ c.value # Missing
<1> DEFINE lines == p.lines
           given(i) == lines[i].labels[field]
           labelled == {i \in DOMAIN lines : field \in DOMAIN lines[i].labels}
           Same(i) == Candidate(p, i, Normalize(field, given(i)), BaseConfidence[field],
                                "labeled_line")
           Under(i, j) == Candidate(p, i, Normalize(field, lines[j].raw), BaseConfidence[field],
                                   "labeled_next_line")
           same == {Same(i) : i \in {i \in labelled : given(i) # Missing}}
           next == UNION {{Under(i, j) : j \in NextNonEmptyLine(lines, i)} :
                          i \in {i \in labelled : given(i) = Missing}}
<1>1. c \in same \union next /\ c.value # Missing
  BY Zenon DEF ExtractLabeledCandidates
<1>2. \A i \in DOMAIN lines : i \in 0 .. Len(lines)
  BY DEF SourcePageOK
<1>3. CASE c \in same
  <2>1. PICK i \in DOMAIN lines : c = Same(i)
    BY <1>3
  <2>2. c = CandidateAt(p, field, i, "labeled_line")
    BY <2>1, Zenon DEF CandidateAt, ValueAt, BaseOf
  <2>3. "labeled_line" \in Methods
    BY DEF Methods, MethodPriority
  <2> QED BY <1>1, <1>2, <2>2, <2>3
<1>4. CASE c \in next
  <2>1. PICK i \in DOMAIN lines : \E j \in NextNonEmptyLine(lines, i) : c = Under(i, j)
    BY <1>4
  <2>2. PICK j \in NextNonEmptyLine(lines, i) : c = Under(i, j)
    BY <2>1
  <2>3. j = CHOOSE k \in NextNonEmptyLine(lines, i) : TRUE
    <3>1. (CHOOSE k \in NextNonEmptyLine(lines, i) : TRUE) \in NextNonEmptyLine(lines, i)
      BY <2>2
    <3> QED BY <3>1, NextLineIsUnique
  <2>4. c = CandidateAt(p, field, i, "labeled_next_line")
    <3>1. ValueAt(p, field, i, "labeled_next_line") = Normalize(field, lines[j].raw)
      BY <2>3 DEF ValueAt
    <3>2. BaseOf(field, "labeled_next_line") = BaseConfidence[field]
      BY DEF BaseOf
    <3> QED BY <2>2, <3>1, <3>2 DEF CandidateAt
  <2>5. "labeled_next_line" \in Methods
    BY DEF Methods, MethodPriority
  <2> QED BY <1>1, <1>2, <2>4, <2>5
<1> QED BY <1>1, <1>3, <1>4

LEMMA FallbackCandidate ==
    ASSUME NEW p, SourcePageOK(p), NEW c \in ExtractPolicyNumberFallback(p), NEW field
    PROVE  /\ c = CandidateAt(p, field, 0, "fallback_pattern")
           /\ c.value = p.pattern /\ c.page = p.number
           /\ p.pattern # Missing /\ 0 \in 0 .. Len(p.lines) /\ "fallback_pattern" \in Methods
<1>1. c = Candidate(p, 0, p.pattern, 90, "fallback_pattern") /\ p.pattern # Missing
  BY DEF ExtractPolicyNumberFallback
<1>2. ValueAt(p, field, 0, "fallback_pattern") = p.pattern
  BY DEF ValueAt
<1>3. c = CandidateAt(p, field, 0, "fallback_pattern")
  BY <1>1, <1>2 DEF CandidateAt, BaseOf
<1>4. c.value = p.pattern /\ c.page = p.number
  BY <1>1 DEF Candidate
<1> QED BY <1>1, <1>3, <1>4 DEF SourcePageOK, Methods, MethodPriority

\* Every candidate of a field is found somewhere on one of the pages, which gave its value.
LEMMA CandidateHasPage ==
    ASSUME NEW doc, SourcePagesOK(doc), NEW field, NEW c \in CandidatesOf(doc, field)
    PROVE  \E p \in doc :
              /\ \E i \in 0 .. Len(p.lines), m \in Methods : c = CandidateAt(p, field, i, m)
              /\ c.page = p.number /\ c.value # Missing /\ Gave(p, field, c.value)
<1>1. \/ \E p \in doc : c \in ExtractLabeledCandidates(p, field)
      \/ field = "policy_number" /\ \E p \in doc : c \in ExtractPolicyNumberFallback(p)
  BY DEF CandidatesOf
<1>2. CASE \E p \in doc : c \in ExtractLabeledCandidates(p, field)
  <2>1. PICK p \in doc : c \in ExtractLabeledCandidates(p, field)
    BY <1>2
  <2>2. SourcePageOK(p)
    BY DEF SourcePagesOK
  <2>3. PICK i \in 0 .. Len(p.lines), m \in Methods : c = CandidateAt(p, field, i, m)
    BY <2>1, <2>2, LabeledCandidate
  <2>4. c.page = p.number
    BY <2>3 DEF CandidateAt, Candidate
  <2>5. c.value # Missing
    BY <2>1, <2>2, LabeledCandidate
  <2> QED BY <2>1, <2>3, <2>4, <2>5 DEF Gave
<1>3. CASE field = "policy_number" /\ \E p \in doc : c \in ExtractPolicyNumberFallback(p)
  <2>1. PICK p \in doc : c \in ExtractPolicyNumberFallback(p)
    BY <1>3
  <2>2. SourcePageOK(p)
    BY DEF SourcePagesOK
  <2> QED BY <1>3, <2>1, <2>2, FallbackCandidate DEF Gave
<1> QED BY <1>1, <1>2, <1>3

LEMMA CandidatesFinite ==
    ASSUME NEW doc, SourcePagesOK(doc), NEW field
    PROVE  IsFiniteSet(CandidatesOf(doc, field))
<1> DEFINE places(p) == (0 .. Len(p.lines)) \X Methods
           at(p) == [x \in places(p) |-> CandidateAt(p, field, x[1], x[2])]
           on(p) == {at(p)[x] : x \in places(p)}
           all == [p \in doc |-> on(p)]
<1>1. IsFiniteSet(Methods)
  <2>1. Methods = {"labeled_line", "labeled_next_line", "fallback_pattern"}
    BY DEF Methods, MethodPriority
  <2> QED BY <2>1, TripleFinite
<1>2. \A p \in doc : IsFiniteSet(on(p))
  <2> SUFFICES ASSUME NEW p \in doc PROVE IsFiniteSet(on(p))
    OBVIOUS
  <2>1. Len(p.lines) \in Nat
    BY DEF SourcePagesOK, SourcePageOK
  <2>2. IsFiniteSet(0 .. Len(p.lines))
    BY <2>1, FS_Interval
  <2>3. IsFiniteSet(places(p))
    BY <1>1, <2>2, FS_Product
  <2> HIDE DEF places, at
  <2> QED BY <2>3, FiniteImage
<1>3. IsFiniteSet({all[p] : p \in doc})
  <2> HIDE DEF all
  <2> QED BY FiniteImage DEF SourcePagesOK
<1>4. \A T \in {all[p] : p \in doc} : IsFiniteSet(T)
  <2> HIDE DEF on
  <2> QED BY <1>2
<1>5. IsFiniteSet(UNION {all[p] : p \in doc})
  <2> HIDE DEF all
  <2> QED BY <1>3, <1>4, FS_UNION
<1>6. \A p \in doc : \A i \in 0 .. Len(p.lines), m \in Methods :
          CandidateAt(p, field, i, m) \in on(p)
  <2> SUFFICES ASSUME NEW p \in doc, NEW i \in 0 .. Len(p.lines), NEW m \in Methods
               PROVE  CandidateAt(p, field, i, m) \in on(p)
    OBVIOUS
  <2>1. <<i, m>> \in places(p) /\ at(p)[<<i, m>>] = CandidateAt(p, field, i, m)
    OBVIOUS
  <2> HIDE DEF places, at
  <2> QED BY <2>1
<1>7. CandidatesOf(doc, field) \subseteq UNION {all[p] : p \in doc}
  <2> SUFFICES ASSUME NEW c \in CandidatesOf(doc, field)
               PROVE  c \in UNION {all[p] : p \in doc}
    OBVIOUS
  <2>1. PICK p \in doc : \E i \in 0 .. Len(p.lines), m \in Methods : c = CandidateAt(p, field, i, m)
    BY CandidateHasPage
  <2>2. c \in on(p)
    BY <1>6, <2>1
  <2> HIDE DEF on
  <2> QED BY <2>2
<1> QED BY <1>5, <1>7, FS_Subset

LEMMA ConfidenceIsNat ==
    ASSUME NEW p, SourcePageOK(p), NEW field \in FieldNames, NEW i, NEW m \in Methods
    PROVE  CandidateAt(p, field, i, m).confidence \in Nat
<1>1. BaseOf(field, m) \in Nat
  BY DEF BaseOf, FieldNames, BaseConfidence
<1>2. CalculateConfidence(p, BaseOf(field, m), m) \in Nat
  <2> DEFINE base == BaseOf(field, m)
             limited == IF p.confidence = Missing THEN base ELSE Lesser(base, p.confidence)
  <2>1. limited \in Nat
    <3>1. p.confidence = Missing \/ p.confidence \in 0 .. 100
      BY DEF SourcePageOK
    <3>2. CASE p.confidence = Missing
      BY <1>1, <3>2
    <3>3. CASE p.confidence # Missing /\ p.confidence \in 0 .. 100
      BY <1>1, <3>3 DEF Lesser
    <3> QED BY <3>1, <3>2, <3>3
  <2> HIDE DEF limited
  <2> QED BY <2>1 DEF CalculateConfidence, limited, Larger
<1> QED BY <1>2 DEF CandidateAt, Candidate

\* Preference is a strict total order on the candidates of a field.
LEMMA PreferredOrders ==
    ASSUME NEW doc, SourcePagesOK(doc), NEW field \in FieldNames,
           NEW S, S = CandidatesOf(doc, field),
           NEW before, before = {z \in S \X S : Preferred(z[1], z[2])}
    PROVE  StrictOrder(before, S) /\ Total(before, S)
<1> DEFINE K(c) == /\ c.confidence \in Nat /\ MethodPriority[c.method] \in Nat
                   /\ c.page \in Nat /\ c.line \in Nat
<1>1. \A c \in S : K(c)
  <2> SUFFICES ASSUME NEW c \in S PROVE K(c)
    OBVIOUS
  <2>1a. PICK p \in doc : \E i \in 0 .. Len(p.lines), m \in Methods : c = CandidateAt(p, field, i, m)
    BY CandidateHasPage
  <2>1. PICK i \in 0 .. Len(p.lines), m \in Methods : c = CandidateAt(p, field, i, m)
    BY <2>1a
  <2>2. SourcePageOK(p)
    BY DEF SourcePagesOK
  <2>3. c.page = p.number /\ c.line = i /\ c.method = m
    BY <2>1 DEF CandidateAt, Candidate
  <2>4. c.confidence \in Nat
    BY <2>1, <2>2, ConfidenceIsNat
  <2> QED BY <2>2, <2>3, <2>4 DEF SourcePageOK, Methods, MethodPriority
<1>2. \A c, d \in S : <<c, d>> \in before <=> Preferred(c, d)
  OBVIOUS
<1>3. \A c, d \in S : c.method = d.method /\ c.page = d.page /\ c.line = d.line => c = d
  <2> SUFFICES ASSUME NEW c \in S, NEW d \in S,
                      c.method = d.method, c.page = d.page, c.line = d.line
               PROVE  c = d
    OBVIOUS
  <2>1a. PICK p \in doc : \E i \in 0 .. Len(p.lines), m \in Methods : c = CandidateAt(p, field, i, m)
    BY CandidateHasPage
  <2>1. PICK i \in 0 .. Len(p.lines), m \in Methods : c = CandidateAt(p, field, i, m)
    BY <2>1a
  <2>2a. PICK q \in doc : \E j \in 0 .. Len(q.lines), n \in Methods : d = CandidateAt(q, field, j, n)
    BY CandidateHasPage
  <2>2. PICK j \in 0 .. Len(q.lines), n \in Methods : d = CandidateAt(q, field, j, n)
    BY <2>2a
  <2>3. c.page = p.number /\ c.line = i /\ c.method = m
    BY <2>1 DEF CandidateAt, Candidate
  <2>4. d.page = q.number /\ d.line = j /\ d.method = n
    BY <2>2 DEF CandidateAt, Candidate
  <2>5. p = q
    BY <2>3, <2>4 DEF SourcePagesOK
  <2> QED BY <2>1, <2>2, <2>3, <2>4, <2>5
<1>4. \A c, d \in S : MethodPriority[c.method] = MethodPriority[d.method] => c.method = d.method
  <2> SUFFICES ASSUME NEW c \in S, NEW d \in S,
                      MethodPriority[c.method] = MethodPriority[d.method]
               PROVE  c.method = d.method
    OBVIOUS
  <2>1. c.method \in Methods /\ d.method \in Methods
    BY CandidateHasPage DEF CandidateAt, Candidate
  <2> QED BY <2>1 DEF Methods, MethodPriority
<1>5. StrictOrder(before, S)
  <2>1. \A c \in S : ~Preferred(c, c)
    BY <1>1 DEF Preferred
  <2>2. \A c, d, e \in S : Preferred(c, d) /\ Preferred(d, e) => Preferred(c, e)
    BY <1>1 DEF Preferred
  <2> HIDE DEF K
  <2> QED BY <1>2, <2>1, <2>2 DEF StrictOrder
<1>6. Total(before, S)
  <2>1. \A c, d \in S : c = d \/ Preferred(c, d) \/ Preferred(d, c)
    BY <1>1, <1>3, <1>4 DEF Preferred
  <2> QED BY <1>2, <2>1 DEF Total
<1> QED BY <1>5, <1>6

\* What is selected for a field is one of its candidates.
LEMMA SelectedIsCandidate ==
    ASSUME NEW doc, SourcePagesOK(doc), NEW field \in FieldNames, CandidatesOf(doc, field) # {}
    PROVE  SelectCandidate(CandidatesOf(doc, field)) \in CandidatesOf(doc, field)
<1> DEFINE S == CandidatesOf(doc, field)
           before == {z \in S \X S : Preferred(z[1], z[2])}
<1>1. StrictOrder(before, S) /\ Total(before, S)
  <2> HIDE DEF before
  <2> QED BY PreferredOrders DEF before
<1>2. \E c \in S : \A d \in S \ {c} : <<c, d>> \in before
  <2> HIDE DEF before
  <2> QED BY <1>1, CandidatesFinite, First
<1>3. \E c \in S : \A d \in S \ {c} : Preferred(c, d)
  BY <1>2
<1> HIDE DEF S
<1> QED BY <1>3, Zenon DEF SelectCandidate, S

\* A value that a finding shows was read from the page that it names.
LEMMA FindingHasPage ==
    ASSUME NEW doc \in Documents, NEW rule \in DOMAIN Stored[doc] \intersect DOMAIN FieldOfRule,
           Stored[doc][rule].value # Missing
    PROVE  \E p \in doc : p.number = Stored[doc][rule].page
               /\ Gave(p, FieldOfRule[rule], Stored[doc][rule].value)
<1> DEFINE field == FieldOfRule[rule]
           S == CandidatesOf(doc, field)
           c == SelectCandidate(S)
<1>1. field \in FieldNames
  BY DEF FieldOfRule, FieldNames, BaseConfidence
<1>2. Stored[doc][rule].value = c.value /\ Stored[doc][rule].page = c.page
  <2>1. ExtractPolicyFields(doc)[field] = c
    BY <1>1 DEF ExtractPolicyFields
  <2> HIDE DEF c, field
  <2> QED BY <2>1 DEF Stored, FindingsOf, field
<1>3. SourcePagesOK(doc)
  BY DocumentsAssumption
<1>4. S # {}
  <2> SUFFICES ASSUME S = {} PROVE FALSE
    OBVIOUS
  <2>1. c = NotFound
    BY DEF SelectCandidate
  <2> QED BY <1>2, <2>1 DEF NotFound
<1>5. c \in S
  BY <1>1, <1>3, <1>4, SelectedIsCandidate
<1> HIDE DEF c
<1>6. PICK p \in doc : c.page = p.number /\ Gave(p, field, c.value)
  BY <1>3, <1>5, CandidateHasPage
<1> QED BY <1>2, <1>6

\* A value that was read with too little confidence has the task of REC012.
LEMMA DoubtIsReviewed ==
    ASSUME NEW doc \in Documents, NEW f \in FieldNames,
           ExtractPolicyFields(doc)[f] # NotFound,
           ExtractPolicyFields(doc)[f].confidence < MinimumConfidence
    PROVE  "REC012" \in DOMAIN ReviewTasks(Stored[doc])
<1> DEFINE fields == ExtractPolicyFields(doc)
           S == CandidatesOf(doc, f)
           e == EvidenceOf(fields)
           results == EvaluatePolicyReconciliation(e, ExcludeCancelled)
<1>1. fields[f].confidence \in Nat
  <2>1. fields[f] = SelectCandidate(S)
    BY DEF ExtractPolicyFields
  <2>2. S # {}
    BY <2>1 DEF SelectCandidate
  <2>3. SourcePagesOK(doc)
    BY DocumentsAssumption
  <2>4. fields[f] \in S
    BY <2>1, <2>2, <2>3, SelectedIsCandidate
  <2> HIDE DEF fields
  <2>5. PICK p \in doc : \E i \in 0 .. Len(p.lines), m \in Methods :
                            fields[f] = CandidateAt(p, f, i, m)
    BY <2>3, <2>4, CandidateHasPage
  <2> QED BY <2>3, <2>5, ConfidenceIsNat DEF SourcePagesOK
<1>2. ~ExtractionIsConfident(fields)
  <2> HIDE DEF fields
  <2> QED BY <1>1, ConfidenceAssumption DEF ExtractionIsConfident, fields
<1>3. ~e.confident
  <2> HIDE DEF fields
  <2> QED BY <1>2 DEF EvidenceOf
<1>4. "REC012" \in DOMAIN results /\ results["REC012"] = Finding("needs_review", "medium")
  <2> HIDE DEF e
  <2>1. EvaluateRule("REC012", e, ExcludeCancelled) = Finding("needs_review", "medium")
    BY <1>3 DEF EvaluateRule, EvaluateExtractionConfidence
  <2>2. "REC012" \in UnmatchedRules /\ "REC012" \in Rules
    BY DEF UnmatchedRules, Rules
  <2> QED BY <2>1, <2>2 DEF EvaluatePolicyReconciliation
<1>5. /\ "REC012" \in DOMAIN Stored[doc]
      /\ Stored[doc]["REC012"].status = "needs_review"
      /\ Stored[doc]["REC012"].severity = "medium"
  <2> HIDE DEF e, results
  <2> QED BY <1>4 DEF Stored, FindingsOf, results, e, fields, Finding
<1> QED BY <1>5 DEF ReviewTasks, ShouldCreateReviewTask

-----------------------------------------------------------------------------
\* What a run has stored.

LEMMA RulesFinite == IsFiniteSet(Rules)
<1>1. Rules = {"REC001", "REC012", "REC002"} \union {"REC003", "REC004", "REC005"}
                \union {"REC006", "REC007", "REC008"} \union {"REC009", "REC010", "REC011"}
  BY DEF Rules, UnmatchedRules
<1>2. IsFiniteSet({"REC001", "REC012", "REC002"} \union {"REC003", "REC004", "REC005"})
  BY TripleFinite, FS_Union
<1>3. IsFiniteSet({"REC001", "REC012", "REC002"} \union {"REC003", "REC004", "REC005"}
                    \union {"REC006", "REC007", "REC008"})
  BY <1>2, TripleFinite, FS_Union
<1> QED BY <1>1, <1>3, TripleFinite, FS_Union

\* A run has finitely many findings: one for each rule at most.
LEMMA StoredFinite ==
    ASSUME NEW p \in Documents
    PROVE  IsFiniteSet(DOMAIN Stored[p])
<1> DEFINE e == EvidenceOf(ExtractPolicyFields(p))
           results == EvaluatePolicyReconciliation(e, ExcludeCancelled)
<1>1. DOMAIN results \subseteq Rules
  <2> HIDE DEF e
  <2> QED BY DEF EvaluatePolicyReconciliation, Rules
<1>2. DOMAIN Stored[p] = DOMAIN results
  BY DEF Stored, FindingsOf
<1> QED BY <1>1, <1>2, RulesFinite, FS_Subset

\* The CSV has one row for each finding.
LEMMA OneRowEach ==
    ASSUME NEW data, IsFiniteSet(DOMAIN data.findings)
    PROVE  Cardinality(BuildFlatCsvRows(data)) = Cardinality(DOMAIN data.findings)
<1> DEFINE D == DOMAIN data.findings
           Row(rule) == [rule |-> rule, finding |-> data.findings[rule],
                         task |-> IF rule \in DOMAIN data.tasks THEN data.tasks[rule] ELSE NoTask]
           f == [rule \in D |-> Row(rule)]
           R == BuildFlatCsvRows(data)
<1>1. R = {Row(rule) : rule \in D}
  BY DEF BuildFlatCsvRows
<1>2. f \in [D -> R]
  BY <1>1
<1>3. \A rule \in D : f[rule].rule = rule
  OBVIOUS
<1>4. \A row \in R : \E rule \in D : f[rule] = row
  BY <1>1
<1> HIDE DEF f, R, D
<1>5. f \in Surjection(D, R)
  BY <1>2, <1>4 DEF Surjection
<1>6. f \in Injection(D, R)
  BY <1>2, <1>3 DEF Injection, IsInjective
<1> QED BY <1>5, <1>6, FS_Surjection DEF D, R

-----------------------------------------------------------------------------
\* What the request has loaded.

ReportFields == {"pc", "reply", "run", "named", "findings", "tasks", "format"}

Past(steps) == report.pc \in steps \/ Delivered

\* Without its name the document was gone before, and with it what comes later.
NamedOK == report.named \/ task = NoTask

FindingsLoaded ==
    \/ report.findings = Stored[pages] /\ report.named
    \/ report.findings = <<>> /\ task = NoTask

TasksLoaded ==
    \/ /\ report.findings = Stored[pages]
       /\ DOMAIN report.tasks = DOMAIN ReviewTasks(Stored[pages])
       /\ \A rule \in DOMAIN report.tasks : report.tasks[rule] # NoTask
    \/ report.tasks = <<>> /\ task = NoTask

ReportInv ==
    /\ pages \in Documents
    /\ DOMAIN report = ReportFields
    /\ report.pc # "done" => report.reply # "200"
    /\ Past({"run", "name", "findings", "loaded"}) => report.run = RunToDict(Stored[pages])
    /\ Past({"name", "findings", "loaded"}) => NamedOK
    /\ Past({"findings", "loaded"}) => FindingsLoaded
    /\ Past({"loaded"}) => TasksLoaded

\* A removed task does not come back.
LEMMA RemovalIsFinal == [Next]_vars /\ task = NoTask => task' = NoTask
BY DEF Next, RemoveTask, Rest, Update, RejectBody, StageUpdate, CommitUpdate, CommitFails,
       AnswerUpdate, RefreshFails, vars

\* A loaded task is an entry.
LEMMA EntryIsSome ==
    ASSUME TypeOK, task # NoTask, NEW rule, NEW finding
    PROVE  ReviewTaskToDict(rule, ReviewPriority(finding)) # NoTask
<1>1. TaskOK(task) /\ TaskOK(NewTask)
  BY DEF TypeOK, NewTask, TaskOK, Columns, Fields, Cells, TaskStatus
<1>2. ReviewPriority(finding) \in {"high", "medium", "low"}
  BY DEF ReviewPriority
<1> HIDE DEF ReviewPriority
<1>3. ReviewTaskToDict(rule, ReviewPriority(finding)) \in
         [priority : {"high", "medium", "low"}, row : [Columns -> Cells]]
  BY <1>1, <1>2 DEF ReviewTaskToDict, TaskOK
<1> QED BY <1>3, NoEntryAssumption

LEMMA InitReportInv == ReportInit => ReportInv
BY DEF ReportInit, ReportInv, NewReport, ReportFields, Past, Delivered

\* An answer without a report.
LEMMA AnswerKeepsInv ==
    ASSUME ReportInv, NEW reply, reply # "200", AnswerReport(reply)
    PROVE  ReportInv'
BY DEF ReportInv, AnswerReport, NewReport, ReportFields, Past, Delivered

LEMMA ReportKeepsInv ==
    ASSUME TypeOK, ReportInv, Report
    PROVE  ReportInv'
<1> USE DEF ReportInv, ReportFields
<1>1. CASE LoadRun
  <2>1. CASE task = NoTask
    BY <1>1, <2>1, AnswerKeepsInv DEF LoadRun
  <2>2. CASE task # NoTask
    <3>1. /\ DOMAIN report' = ReportFields /\ report'.pc = "run" /\ report'.reply = report.reply
          /\ report'.run = RunToDict(Stored[pages]) /\ pages' = pages
      BY <1>1, <2>2 DEF LoadRun, Load
    <3>2. report'.reply # "200"
      BY <1>1, <3>1 DEF LoadRun
    <3> QED BY <3>1, <3>2 DEF Past, Delivered
  <2> QED BY <2>1, <2>2
<1>2. CASE LoadDocumentName
  <2>1. /\ DOMAIN report' = ReportFields /\ report'.pc = "name" /\ report'.reply = report.reply
        /\ report'.run = report.run /\ report'.named = (task # NoTask)
        /\ pages' = pages /\ task' = task /\ report.pc = "run"
    BY <1>2 DEF LoadDocumentName, Load
  <2>2. report'.reply # "200" /\ report'.run = RunToDict(Stored[pages])
    BY <2>1 DEF Past
  <2> QED BY <2>1, <2>2 DEF Past, Delivered, NamedOK
<1>3. CASE LoadFindings
  <2>1. /\ DOMAIN report' = ReportFields /\ report'.pc = "findings" /\ report'.reply = report.reply
        /\ report'.run = report.run /\ report'.named = report.named
        /\ report'.findings = IF task = NoTask THEN <<>> ELSE Stored[pages]
        /\ pages' = pages /\ task' = task /\ report.pc = "name"
    BY <1>3 DEF LoadFindings, Load
  <2>2. report'.reply # "200" /\ report'.run = RunToDict(Stored[pages]) /\ NamedOK
    BY <2>1 DEF Past
  <2>3. NamedOK' /\ FindingsLoaded'
    BY <2>1, <2>2 DEF NamedOK, FindingsLoaded
  <2> QED BY <2>1, <2>2, <2>3 DEF Past, Delivered
<1>4. CASE LoadReviewTasks
  <2> DEFINE priorities == ReviewTasks(Stored[pages])
  <2>1. /\ DOMAIN report' = ReportFields /\ report'.pc = "loaded" /\ report'.reply = report.reply
        /\ report'.run = report.run /\ report'.named = report.named
        /\ report'.findings = report.findings
        /\ report'.tasks = IF task = NoTask THEN <<>>
              ELSE [rule \in DOMAIN priorities |-> ReviewTaskToDict(rule, priorities[rule])]
        /\ pages' = pages /\ task' = task /\ report.pc = "findings"
    BY <1>4 DEF LoadReviewTasks, Load
  <2>2. /\ report'.reply # "200" /\ report'.run = RunToDict(Stored[pages])
        /\ NamedOK /\ FindingsLoaded
    BY <2>1 DEF Past
  <2>3. NamedOK' /\ FindingsLoaded'
    BY <2>1, <2>2 DEF NamedOK, FindingsLoaded
  <2>4. CASE task = NoTask
    BY <2>1, <2>2, <2>3, <2>4 DEF Past, Delivered, TasksLoaded
  <2>5. CASE task # NoTask
    <3>1. report'.findings = Stored[pages]
      BY <2>1, <2>2, <2>5 DEF FindingsLoaded
    <3>2. \A rule \in DOMAIN priorities :
             priorities[rule] = ReviewPriority(Stored[pages][rule])
      BY DEF ReviewTasks
    <3>3. \A rule \in DOMAIN priorities : ReviewTaskToDict(rule, priorities[rule]) # NoTask
      BY <2>5, <3>2, EntryIsSome
    <3>4. /\ DOMAIN report'.tasks = DOMAIN priorities
          /\ \A rule \in DOMAIN report'.tasks : report'.tasks[rule] # NoTask
      <4> HIDE DEF priorities
      <4> QED BY <2>1, <2>5, <3>3
    <3>5. TasksLoaded'
      BY <2>1, <3>1, <3>4 DEF TasksLoaded
    <3> QED BY <2>1, <2>2, <2>3, <3>5 DEF Past, Delivered
  <2> QED BY <2>4, <2>5
<1>5. CASE ReportFails
  BY <1>5, AnswerKeepsInv DEF ReportFails
<1>6. CASE GenerateReport
  <2>1. /\ DOMAIN report' = ReportFields /\ report'.pc = "done"
        /\ report'.run = report.run /\ report'.named = report.named
        /\ report'.findings = report.findings /\ report'.tasks = report.tasks
        /\ pages' = pages /\ task' = task /\ report.pc = "loaded"
    BY <1>6 DEF GenerateReport, Load
  <2>2. /\ report'.run = RunToDict(Stored[pages]) /\ NamedOK /\ FindingsLoaded /\ TasksLoaded
    BY <2>1 DEF Past
  <2>3. NamedOK' /\ FindingsLoaded' /\ TasksLoaded'
    BY <2>1, <2>2 DEF NamedOK, FindingsLoaded, TasksLoaded
  <2> QED BY <2>1, <2>2, <2>3
<1> QED BY <1>1, <1>2, <1>3, <1>4, <1>5, <1>6 DEF Report

LEMMA NextReportInv == TypeOK /\ ReportInv /\ [ReportNext]_reportVars => ReportInv'
<1> SUFFICES ASSUME TypeOK, ReportInv, [ReportNext]_reportVars PROVE ReportInv'
  OBVIOUS
<1>1. CASE Report
  BY <1>1, ReportKeepsInv
<1>2. CASE [Next]_vars /\ UNCHANGED <<pages, report>>
  <2>1. task = NoTask => task' = NoTask
    BY <1>2, RemovalIsFinal
  <2> QED BY <1>2, <2>1 DEF ReportInv, Past, Delivered, NamedOK, FindingsLoaded, TasksLoaded
<1>3. CASE UNCHANGED reportVars
  BY <1>2, <1>3 DEF reportVars, vars
<1> QED BY <1>1, <1>2, <1>3 DEF ReportNext

THEOREM SpecReportInv == ReportSpec => []ReportInv
BY InitReportInv, NextReportInv, ReportUpdatesAreSafe, PTL DEF ReportSpec

(***************************************************************************)
(* Whatever the document says and whenever it is removed, a report is of   *)
(* one state of its run, and no finding that asks for a review lacks its   *)
(* task.                                                                   *)
(***************************************************************************)
THEOREM SpecReportIsConsistent == ReportSpec => []ReportIsConsistent
<1>1. ReportInv => ReportIsConsistent
  <2> SUFFICES ASSUME ReportInv, Delivered PROVE ReportIsConsistent
    BY DEF ReportIsConsistent
  <2> DEFINE rows == BuildFlatCsvRows(report)
             stored == Stored[pages]
  <2>1. /\ pages \in Documents /\ report.run = RunToDict(stored)
        /\ NamedOK /\ FindingsLoaded /\ TasksLoaded
    BY DEF ReportInv, Past
  <2>2. Workbook(report) = [summary |-> SummarySheet(report), findings |-> report.findings,
                            reviewTasks |-> report.tasks]
    BY DEF Workbook
  <2>3. SummarySheet(report) =
           [metrics |-> report.run,
            breakdown |-> [status \in FindingStatus |-> Counts(report.findings, status)]]
    BY DEF SummarySheet
  <2>4. {row.rule : row \in rows} = DOMAIN report.findings
    <3> DEFINE Row(rule) == [rule |-> rule, finding |-> report.findings[rule],
                             task |-> IF rule \in DOMAIN report.tasks
                                      THEN report.tasks[rule] ELSE NoTask]
    <3>1. rows = {Row(rule) : rule \in DOMAIN report.findings}
      BY DEF BuildFlatCsvRows
    <3>2. \A rule : Row(rule).rule = rule
      OBVIOUS
    <3> HIDE DEF Row, rows
    <3> QED BY <3>1, <3>2
  <2>5. CASE task # NoTask
    <3>1. /\ report.named /\ report.findings = stored
          /\ DOMAIN report.tasks = DOMAIN ReviewTasks(stored)
          /\ \A rule \in DOMAIN report.tasks : report.tasks[rule] # NoTask
      BY <2>1, <2>5 DEF NamedOK, FindingsLoaded, TasksLoaded
    <3>2. Cardinality(rows) = report.run.total
      <4>1. IsFiniteSet(DOMAIN report.findings)
        BY <2>1, <3>1, StoredFinite
      <4>2. report.run.total = Cardinality(DOMAIN stored)
        BY <2>1 DEF RunToDict
      <4> QED BY <3>1, <4>1, <4>2, OneRowEach
    <3>3. /\ SummarySheet(report).breakdown["passed"] = report.run.passed
          /\ SummarySheet(report).breakdown["failed"] = report.run.failed
          /\ SummarySheet(report).breakdown["needs_review"] = report.run.review
      BY <2>1, <2>3, <3>1 DEF RunToDict, FindingStatus
    <3>4. ASSUME NEW row \in rows, ShouldCreateReviewTask(row.finding)
          PROVE  row.task # NoTask
      <4>1. PICK rule \in DOMAIN report.findings :
               row = [rule |-> rule, finding |-> report.findings[rule],
                      task |-> IF rule \in DOMAIN report.tasks THEN report.tasks[rule] ELSE NoTask]
        BY DEF BuildFlatCsvRows
      <4>2. rule \in DOMAIN ReviewTasks(stored)
        BY <3>1, <3>4, <4>1 DEF ReviewTasks
      <4> QED BY <3>1, <4>1, <4>2
    <3>5. DOMAIN report.tasks \subseteq DOMAIN report.findings
      BY <3>1 DEF ReviewTasks
    <3> HIDE DEF rows, stored
    <3> QED BY <2>2, <2>3, <2>4, <3>1, <3>2, <3>3, <3>4, <3>5 DEF ReportIsConsistent, rows
  <2>6. CASE task = NoTask
    <3>1. DOMAIN report.tasks \subseteq DOMAIN report.findings
      BY <2>1 DEF TasksLoaded, ReviewTasks
    <3>2. ~report.named => report.findings = <<>>
      BY <2>1 DEF FindingsLoaded
    <3>3. report.findings = <<>> => rows = {}
      BY DEF BuildFlatCsvRows
    <3> HIDE DEF rows
    <3> QED BY <2>2, <2>4, <2>6, <3>1, <3>2, <3>3 DEF ReportIsConsistent, rows
  <2> QED BY <2>5, <2>6
<1> QED BY <1>1, SpecReportInv, PTL

(***************************************************************************)
(* Whatever the pages of a document say and however well they were read,   *)
(* the page that a finding of a report names gave the value that was       *)
(* compared, and a value below the confidence asked for has its task.      *)
(***************************************************************************)
THEOREM SpecFindingsAreTraceable == ReportSpec => []FindingsAreTraceable
<1>1. ReportInv => FindingsAreTraceable
  <2> SUFFICES ASSUME ReportInv, Delivered PROVE FindingsAreTraceable
    BY DEF FindingsAreTraceable
  <2>1. pages \in Documents /\ FindingsLoaded /\ TasksLoaded
    BY DEF ReportInv, Past
  <2>2. ASSUME NEW rule \in DOMAIN report.findings \intersect DOMAIN FieldOfRule,
               report.findings[rule].value # Missing
        PROVE  \E p \in pages : p.number = report.findings[rule].page
                  /\ Gave(p, FieldOfRule[rule], report.findings[rule].value)
    <3>1. report.findings = Stored[pages]
      BY <2>1, <2>2 DEF FindingsLoaded
    <3> QED BY <2>1, <2>2, <3>1, FindingHasPage
  <2>3. ASSUME DOMAIN report.tasks # {}, NEW f \in FieldNames,
               ExtractPolicyFields(pages)[f] # NotFound,
               ExtractPolicyFields(pages)[f].confidence < MinimumConfidence
        PROVE  "REC012" \in DOMAIN report.tasks
    <3>1. DOMAIN report.tasks = DOMAIN ReviewTasks(Stored[pages])
      BY <2>1, <2>3 DEF TasksLoaded
    <3> QED BY <2>1, <2>3, <3>1, DoubtIsReviewed
  <2> QED BY <2>2, <2>3 DEF FindingsAreTraceable
<1> QED BY <1>1, SpecReportInv, PTL

=============================================================================
