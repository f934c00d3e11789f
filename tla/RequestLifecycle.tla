-------------------------- MODULE RequestLifecycle --------------------------
(***************************************************************************)
(* What the verification queue promises about one request, whoever polls,  *)
(* claims or crashes: it is verified at most once, only while a verifier   *)
(* holds it; a verdict repeats the evidence on the merge-readiness pack;   *)
(* and a request nobody claimed in time fails closed.                      *)
(***************************************************************************)
CONSTANT Requests

VARIABLES
    status,     \* status[q]: the life of the request
    verified    \* verified[q]: the evidence written for it, or "no"

Verdicts == {"passed", "failed"}
Finished == Verdicts \cup {"error", "expired"}

Init ==
    /\ status = [q \in Requests |-> "absent"]
    /\ verified = [q \in Requests |-> "no"]

Enqueue(q) ==
    /\ status[q] = "absent"
    /\ status' = [status EXCEPT ![q] = "pending"]
    /\ UNCHANGED verified

\* Any number of stale requests expire in one transaction.
Expire(S) ==
    /\ \A q \in S : status[q] = "pending"
    /\ status' = [q \in Requests |-> IF q \in S THEN "expired" ELSE status[q]]
    /\ UNCHANGED verified

Claim(q) ==
    /\ status[q] = "pending"
    /\ status' = [status EXCEPT ![q] = "running"]
    /\ UNCHANGED verified

Verify(q, verdict) ==
    /\ status[q] = "running"
    /\ verified[q] = "no"
    /\ verified' = [verified EXCEPT ![q] = verdict]
    /\ UNCHANGED status

\* The verdict is that of the evidence, or an operational error.
Finish(q, outcome) ==
    /\ status[q] = "running"
    /\ outcome \in {verified[q], "error"} \ {"no"}
    /\ status' = [status EXCEPT ![q] = outcome]
    /\ UNCHANGED verified

Next ==
    \/ \E S \in SUBSET Requests : Expire(S)
    \/ \E q \in Requests :
          \/ Enqueue(q) \/ Claim(q)
          \/ \E v \in Verdicts : Verify(q, v)
          \/ \E o \in Verdicts \cup {"error"} : Finish(q, o)

Spec == Init /\ [][Next]_<<status, verified>>
=============================================================================
