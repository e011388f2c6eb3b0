----------------------------- MODULE MCReviewTask -----------------------------
(***************************************************************************)
(* An instance of ReviewTask for TLC: bodies that assign, start, reopen,   *)
(* resolve in every way, edit, clear, and bodies that are refused.         *)
(***************************************************************************)
EXTENDS ReviewTask, TLC

CONSTANTS q1, q2, q3, u1, u2, outsider, n1, n2, v1

MCUserOf == (q1 :> u1) @@ (q2 :> u2) @@ (q3 :> u1)

MCPatches ==
    {NoPatch,
     [assignee |-> u1],
     [assignee |-> outsider],
     [status |-> Null],
     [status |-> "open"],
     [status |-> "in_progress", assignee |-> u2],
     [status |-> "approved", notes |-> n1],
     [status |-> "rejected", notes |-> n2],
     [status |-> "approved"],
     [status |-> "corrected", notes |-> n1, value |-> v1],
     [status |-> "corrected", notes |-> n1, value |-> Null],
     [status |-> "corrected", notes |-> n1],
     [notes |-> Null],
     [notes |-> Blank],
     [value |-> v1],
     [value |-> Null]}

=============================================================================
