-------------------------- MODULE DocumentPublication --------------------------
(***************************************************************************)
(* What the document pipeline promises to those who read its results: the  *)
(* RAG search, the page listing and the reconciliation, which all take the *)
(* latest completed run of a document. Queue, workers, storage, crashes    *)
(* and redelivery are out of sight; a result appears, is replaced and      *)
(* disappears in single steps.                                             *)
(***************************************************************************)
EXTENDS Naturals

CONSTANTS Documents, Attempts

VARIABLES
    present,   \* documents that exist
    removed,   \* documents that will not exist again
    opened,    \* per document, the attempts that have a run
    version,   \* per attempt, which execution wrote its pages and chunks
    shown      \* per document, the attempts whose run is completed

pubVars == <<present, removed, opened, version, shown>>

Init ==
    /\ present = {}
    /\ removed = {}
    /\ opened = [d \in Documents |-> {}]
    /\ version = [d \in Documents |-> [n \in Attempts |-> 0]]
    /\ shown = [d \in Documents |-> {}]

Upload(d) ==
    /\ d \notin removed
    /\ present' = present \union {d}
    /\ UNCHANGED <<removed, opened, version, shown>>

\* Attempts are numbered without gaps.
Open(d, n) ==
    /\ d \in present
    /\ n \notin opened[d]
    /\ \A m \in opened[d] : m < n
    /\ n > 1 => n - 1 \in opened[d]
    /\ opened' = [opened EXCEPT ![d] = @ \union {n}]
    /\ UNCHANGED <<present, removed, version, shown>>

\* A new execution's pages and chunks replace the old and become visible at once.
Publish(d, n) ==
    /\ d \in present
    /\ n \in opened[d]
    /\ version' = [version EXCEPT ![d][n] = @ + 1]
    /\ shown' = [shown EXCEPT ![d] = @ \union {n}]
    /\ UNCHANGED <<present, removed, opened>>

\* A late failure of the same run hides a result that was visible.
Withdraw(d, n) ==
    /\ shown' = [shown EXCEPT ![d] = @ \ {n}]
    /\ UNCHANGED <<present, removed, opened, version>>

Remove(d) ==
    /\ present' = present \ {d}
    /\ removed' = removed \union {d}
    /\ opened' = [opened EXCEPT ![d] = {}]
    /\ version' = [version EXCEPT ![d] = [n \in Attempts |-> 0]]
    /\ shown' = [shown EXCEPT ![d] = {}]

Next ==
    \E d \in Documents :
        \/ Upload(d)
        \/ Remove(d)
        \/ \E n \in Attempts : Open(d, n) \/ Publish(d, n) \/ Withdraw(d, n)

Spec == Init /\ [][Next]_pubVars

=============================================================================
