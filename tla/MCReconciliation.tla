--------------------------- MODULE MCReconciliation ---------------------------
(***************************************************************************)
(* An instance of Reconciliation for TLC: the evidence of a document that  *)
(* agrees with its policy, and of documents that differ from it in one or  *)
(* two respects, or that have no policy.                                   *)
(***************************************************************************)
EXTENDS Reconciliation, TLC

MCAttempts == {1, 2}

Agreeing ==
    [confident |-> TRUE, policy |-> "same", duplicate |-> FALSE,
     customer |-> "equal", carrier |-> "equal", plan |-> "equal",
     effective |-> "equal", termination |-> "bothMissing",
     signature |-> "databaseMissing", premium |-> "equal", policyStatus |-> "equal",
     state |-> "active", payment |-> "posted", cited |-> TRUE]

MCEvidences ==
    {Agreeing,
     [Agreeing EXCEPT !.policy = "none", !.cited = FALSE],
     [Agreeing EXCEPT !.signature = "bothMissing"],
     [Agreeing EXCEPT !.premium = "different", !.carrier = "documentMissing"],
     [Agreeing EXCEPT !.confident = FALSE, !.state = "cancelled", !.payment = "none"]}

Interchangeable == Permutations(Requests)

=============================================================================
