-------------------------- MODULE VerificationQueue --------------------------
(***************************************************************************)
(* The remote-verification protocol: the orchestrator enqueues requests,   *)
(* anyone may poll their status, and verifier workers (single invocations  *)
(* of agents/verifier.py --claim) claim a request, verify its commit,      *)
(* write the evidence on its pack and complete it.                         *)
(*                                                                         *)
(* A handler with two transactions, or with a read that another handler    *)
(* can overtake before its commit, is two actions.  Enqueueing the same    *)
(* request again changes no row.  Workers all authenticate as ci:verifier, *)
(* so the lease holder never tells them apart and is left out.             *)
(***************************************************************************)
EXTENDS Naturals, Sequences, FiniteSets

CONSTANTS
    Requests,    \* verification requests, one per agent run
    Workers,     \* places where verifier invocations run
    Commits,     \* pinned commits, and the tree hashes they have
    None,        \* no request, no tree
    SlowPoll,    \* a status poll may be overtaken before its commit
    Manual,      \* the verifier credential is also used by hand
    MaxCrashes   \* bound: workers that die with a request

VARIABLES
    reqs,        \* reqs[q]: the verification_requests row
    order,       \* requests in the order of created_at
    stale,       \* requests past their expires_at
    reading,     \* status polls that saw a stale pending row, uncommitted
    jobs,        \* jobs[w]: what the worker is doing
    evidence,    \* evidence[q]: evidence rows written on the request's pack
    lost         \* requests whose worker died

vars == <<reqs, order, stale, reading, jobs, evidence, lost>>

-----------------------------------------------------------------------------
Verdicts == {"passed", "failed"}
Terminal == {"passed", "failed", "error", "expired"}
Statuses == {"absent", "pending", "running"} \cup Terminal
Outcomes == Verdicts \cup {"error"}

ASSUME QueueAssumption ==
    /\ None \notin Requests \cup Commits
    /\ SlowPoll \in BOOLEAN /\ Manual \in BOOLEAN
    /\ MaxCrashes \in Nat

Request == [status: Statuses, commit: Commits \cup {None},
            tree: Commits \cup {None}]
Row     == [tree: Commits \cup {None}, verdict: Verdicts]
FreeJob == [step: {"idle", "claiming"}, req: {None}, outcome: {"error"}]
HeldJob == [step: {"claimed", "verified", "completing"}, req: Requests,
            outcome: Outcomes]

NoRequest == [status |-> "absent", commit |-> None, tree |-> None]
Idle      == [step |-> "idle", req |-> None, outcome |-> "error"]

TypeOK ==
    /\ reqs \in [Requests -> Request]
    /\ order \in Seq(Requests)
    /\ stale \subseteq Requests
    /\ reading \subseteq Requests
    /\ jobs \in [Workers -> FreeJob \cup HeldJob]
    /\ evidence \in [Requests -> Seq(Row)]
    /\ lost \subseteq Requests

Init ==
    /\ reqs = [q \in Requests |-> NoRequest]
    /\ order = <<>>
    /\ stale = {}
    /\ reading = {}
    /\ jobs = [w \in Workers |-> Idle]
    /\ evidence = [q \in Requests |-> <<>>]
    /\ lost = {}

Pending(q) == reqs[q].status = "pending"

-----------------------------------------------------------------------------
(* The orchestrator's side: enqueue and poll.                              *)

CreateRequest(q, commit) ==
    /\ reqs[q].status = "absent"
    /\ reqs' = [reqs EXCEPT ![q] = [status |-> "pending", commit |-> commit,
                                    tree |-> None]]
    /\ order' = Append(order, q)
    /\ UNCHANGED <<stale, reading, jobs, evidence, lost>>

TtlPasses(q) ==
    /\ reqs[q].status # "absent"
    /\ stale' = stale \cup {q}
    /\ UNCHANGED <<reqs, order, reading, jobs, evidence, lost>>

Expired(S) ==
    [q \in Requests |-> IF q \in S THEN [reqs[q] EXCEPT !.status = "expired"]
                                   ELSE reqs[q]]

\* Faulty poll: any stale request is reported as expired.
StaleUnfinished(q) == q \in stale /\ reqs[q].status \notin Terminal \cup {"absent"}

\* A poll reports a pending request past its TTL as expired.
StalePending(q) == q \in stale /\ Pending(q)

GetStatus(q) ==
    /\ StalePending(q)
    /\ reqs' = Expired({q})
    /\ UNCHANGED <<order, stale, reading, jobs, evidence, lost>>

\* The same handler, overtaken between its SELECT and its UPDATE.
GetStatusRead(q) ==
    /\ SlowPoll
    /\ StalePending(q)
    /\ reading' = reading \cup {q}
    /\ UNCHANGED <<reqs, order, stale, jobs, evidence, lost>>

GetStatusCommit(q) ==
    /\ q \in reading
    /\ reading' = reading \ {q}
    /\ reqs' = Expired({q})
    /\ UNCHANGED <<order, stale, jobs, evidence, lost>>

-----------------------------------------------------------------------------
(* The verifier's side.                                                    *)

\* First transaction of claim-next: every stale pending request expires.
ClaimNextExpire(w) ==
    /\ jobs[w].step = "idle"
    /\ reqs' = Expired({q \in Requests : StalePending(q)})
    /\ jobs' = [jobs EXCEPT ![w].step = "claiming"]
    /\ UNCHANGED <<order, stale, reading, evidence, lost>>

\* Faulty selection: a request that another worker runs may be taken.
UnfinishedRequests == {i \in DOMAIN order : reqs[order[i]].status
                                              \in {"pending", "running"}}

ClaimableRequests == {i \in DOMAIN order : Pending(order[i])}

\* Second transaction: the oldest pending request is taken, or 404.
ClaimNextTake(w) ==
    /\ jobs[w].step = "claiming"
    /\ \/ /\ ClaimableRequests = {}
          /\ jobs' = [jobs EXCEPT ![w] = Idle]
          /\ UNCHANGED reqs
       \/ \E i \in ClaimableRequests :
             /\ \A j \in ClaimableRequests : i <= j
             /\ reqs' = [reqs EXCEPT ![order[i]].status = "running"]
             /\ jobs' = [jobs EXCEPT ![w] = [step |-> "claimed",
                                             req |-> order[i],
                                             outcome |-> "error"]]
    /\ UNCHANGED <<order, stale, reading, evidence, lost>>

\* The evidence names the tree of the checkout of the pinned commit.
EvidenceRow(q, verdict) == [tree |-> reqs[q].commit, verdict |-> verdict]

\* The worker verifies and writes evidence.  When the API's answer to the
\* write is lost, the row is there and the worker takes it for a failure.
VerifyAndWrite(w, verdict, answered) ==
    /\ jobs[w].step = "claimed"
    /\ evidence' = [evidence EXCEPT ![jobs[w].req] =
                      Append(@, EvidenceRow(jobs[w].req, verdict))]
    /\ jobs' = [jobs EXCEPT ![w] =
                  [step |-> "verified", req |-> @.req,
                   outcome |-> IF answered THEN verdict ELSE "error"]]
    /\ UNCHANGED <<reqs, order, stale, reading, lost>>

VerifyFails(w) ==
    /\ jobs[w].step = "claimed"
    /\ jobs' = [jobs EXCEPT ![w] = [step |-> "verified", req |-> @.req,
                                    outcome |-> "error"]]
    /\ UNCHANGED <<reqs, order, stale, reading, evidence, lost>>

\* Faulty guard: a claimed request counts as terminal.
IfPending(q) == reqs[q].status = "pending"

Completable(q) == reqs[q].status \notin Terminal \cup {"absent"}

\* The worker's completion: a terminal request answers 409.
CompleteRead(w) ==
    /\ jobs[w].step = "verified"
    /\ jobs' = [jobs EXCEPT ![w] = IF Completable(jobs[w].req)
                                   THEN [@ EXCEPT !.step = "completing"]
                                   ELSE Idle]
    /\ UNCHANGED <<reqs, order, stale, reading, evidence, lost>>

\* An error completion carries no tree.
CompletedRow(q, outcome) ==
    [reqs EXCEPT ![q] =
       [status |-> outcome, commit |-> @.commit,
        tree |-> IF outcome = "error" THEN None ELSE @.commit]]

CompleteCommit(w) ==
    /\ jobs[w].step = "completing"
    /\ reqs' = CompletedRow(jobs[w].req, jobs[w].outcome)
    /\ jobs' = [jobs EXCEPT ![w] = Idle]
    /\ UNCHANGED <<order, stale, reading, evidence, lost>>

\* A caller with the verifier credential completes a request by hand.
CompleteManually(q, outcome) ==
    /\ Manual
    /\ Completable(q)
    /\ reqs' = CompletedRow(q, outcome)
    /\ UNCHANGED <<order, stale, reading, jobs, evidence, lost>>

\* The worker dies, or its completion never reaches the API.
Crash(w) ==
    /\ jobs[w].step \in {"claimed", "verified"}
    /\ Cardinality(lost) < MaxCrashes
    /\ lost' = lost \cup {jobs[w].req}
    /\ jobs' = [jobs EXCEPT ![w] = Idle]
    /\ UNCHANGED <<reqs, order, stale, reading, evidence>>

-----------------------------------------------------------------------------
RequestStep(q) ==
    \/ \E c \in Commits : CreateRequest(q, c)
    \/ TtlPasses(q)
    \/ GetStatus(q) \/ GetStatusRead(q) \/ GetStatusCommit(q)
    \/ \E o \in Outcomes : CompleteManually(q, o)

Invoke(w) == ClaimNextExpire(w) \/ ClaimNextTake(w)

Work(w) ==
    \/ \E v \in Verdicts, answered \in BOOLEAN : VerifyAndWrite(w, v, answered)
    \/ VerifyFails(w)
    \/ CompleteRead(w)
    \/ CompleteCommit(w)

Next ==
    \/ \E q \in Requests : RequestStep(q)
    \/ \E w \in Workers : Invoke(w) \/ Work(w) \/ Crash(w)

Spec == Init /\ [][Next]_vars

\* Runners keep being invoked, and an invocation that lives makes progress.
Fairness == \A w \in Workers : WF_vars(Invoke(w)) /\ WF_vars(Work(w))

FairSpec == Spec /\ Fairness

-----------------------------------------------------------------------------
(* Properties.                                                             *)

\* Two workers never hold the same request, and a request in a worker's
\* hands is not up for a claim (FOR UPDATE SKIP LOCKED in claim_next).
ExclusiveJobs ==
    \A w \in Workers : jobs[w].req # None =>
        /\ ~Pending(jobs[w].req)
        /\ \A v \in Workers \ {w} : jobs[v].req # jobs[w].req

\* A request that is running is in a worker's hands, or its worker died on it:
\* no 409, no expiry and no completion by hand makes a living worker forget a
\* request that a poller still waits for.
RunningIsHeld ==
    \A q \in Requests : reqs[q].status = "running" =>
        q \in lost \/ \E w \in Workers : jobs[w].req = q

\* At most one evidence row is ever written for a request, whatever crashes,
\* lost answers and expiries happen: G7 reads the first row only.
VerifiedAtMostOnce == \A q \in Requests : Len(evidence[q]) <= 1

\* A passed or failed request has its evidence, with the same verdict and
\* about the tree of its pinned commit, on the pack it names, where no poll is
\* overtaken and nobody completes by hand (see StrictVerificationProofs).
VerdictHasEvidence ==
    \A q \in Requests : reqs[q].status \in Verdicts =>
        /\ reqs[q].tree = reqs[q].commit
        /\ [tree |-> reqs[q].commit, verdict |-> reqs[q].status]
             \in {evidence[q][i] : i \in DOMAIN evidence[q]}

\* The queue keeps the promise of RequestLifecycle.
Lifecycle == INSTANCE RequestLifecycle WITH
    status   <- [q \in Requests |-> reqs[q].status],
    verified <- [q \in Requests |-> IF evidence[q] = <<>> THEN "no"
                                    ELSE evidence[q][1].verdict]

ImplementsLifecycle == Lifecycle!Spec

\* Every request reaches a terminal status, or its worker died on it.
EndsOrIsLost ==
    \A q \in Requests :
        Pending(q) ~> reqs[q].status \in Terminal \/ q \in lost
=============================================================================
