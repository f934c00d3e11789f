----------------------------- MODULE MCMergeGate -----------------------------
(***************************************************************************)
(* Instance of MergeGate for TLC, with the evidence updates that the       *)
(* verifier sends in strict mode.                                          *)
(***************************************************************************)
EXTENDS MergeGate

CONSTANTS t1, t2

Evidence(unit, security, tree) ==
    [unit |-> unit, integration |-> "not_applicable", security |-> security,
     review |-> None, tree |-> tree, runner |-> "ci:verifier",
     ctxTree |-> tree]

\* agents/verifier.py: the tree it checked out is in both places.  The schema
\* of the update also accepts a review verdict.
VerifierPayloads ==
    {Evidence("passed", "passed", t1), Evidence("failed", "passed", t1),
     Evidence("passed", "failed", t1), Evidence("passed", "passed", t2),
     [Evidence("passed", "passed", t1) EXCEPT !.review = "completed"]}
=============================================================================
