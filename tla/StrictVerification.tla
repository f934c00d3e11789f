------------------------- MODULE StrictVerification -------------------------
(***************************************************************************)
(* The strict coordinator (_sod_verify_and_package) against the queue of   *)
(* VerificationQueue and the packs that gates G7 and G8 read: a pipeline   *)
(* pins the head of its workspace, enqueues one request, runs one verifier *)
(* invocation and waits for it to exit, polls its own request, has the     *)
(* pack reviewed by another subprocess, and closes its run.  A verifier    *)
(* claims the oldest pending request, whichever pipeline enqueued that,    *)
(* and writes its evidence on the pack that the request names.             *)
(*                                                                         *)
(* A pipeline, its run, pack, request, place for a verifier and commit     *)
(* share one name.  Refused and lost calls, open CRPs and the reaper are   *)
(* in CodingPhase, the other writers of packs in MergeGate.                *)
(***************************************************************************)
EXTENDS Naturals, Sequences, FiniteSets

CONSTANTS
    Pipelines,   \* coordinators, each packaging one run
    None,
    MaxCrashes   \* see VerificationQueue

VARIABLES
    reqs, order, stale, reading, jobs, evidence, lost,  \* VerificationQueue
    pipe,        \* pipe[p]: where the coordinator is
    waited,      \* waited[p]: its variable of that name in the polling loop
    head,        \* head[p]: the head commit of its workspace
    proposed,    \* proposed[p]: the commit_hash of its run
    pack,        \* pack[p]: evidence and review on its pack
    took,        \* took[p]: the request that its verifier claimed
    shared       \* the coordinators work in one workspace

Queue == INSTANCE VerificationQueue
           WITH Requests <- Pipelines, Workers <- Pipelines,
                Commits <- Pipelines, SlowPoll <- FALSE, Manual <- FALSE

queueVars == <<reqs, order, stale, reading, jobs, evidence, lost>>
pipeVars  == <<pipe, waited, head, proposed, took, shared>>
vars      == <<queueVars, pack, pipeVars>>

-----------------------------------------------------------------------------
Stages  == {"coding", "packaging", "runner", "poll", "review", "closing"}
Ends    == {"packaged", "blocked", "refused", "gave_up"}

\* The check columns of a pack: nothing yet, every check passed, only the
\* bytecode compilation failed, the tests or the scan failed.
Checks == {"none", "passed", "lint_failed", "failed"}
MaxWait == 920     \* max_wait, in seconds

\* Faulty loop: the time that passes is not counted.
Uncounted == 0

PollMs == 500      \* poll_ms, in milliseconds

ASSUME PipelineAssumption ==
    /\ None \notin Pipelines
    /\ MaxCrashes \in Nat

OrNone == Pipelines \cup {None}

TypeOK ==
    /\ Queue!TypeOK
    /\ pipe \in [Pipelines -> Stages \cup Ends]
    /\ waited \in [Pipelines -> Nat]
    /\ head \in [Pipelines -> OrNone]
    /\ proposed \in [Pipelines -> OrNone]
    /\ took \in [Pipelines -> OrNone]
    /\ shared \in BOOLEAN
    /\ pack \in [Pipelines -> [checks: Checks,
                  review: {"none", "completed", "needs_revision"}]]

Init ==
    /\ Queue!Init
    /\ pipe = [p \in Pipelines |-> "coding"]
    /\ waited = [p \in Pipelines |-> 0]
    /\ head = [p \in Pipelines |-> None]
    /\ proposed = [p \in Pipelines |-> None]
    /\ took = [p \in Pipelines |-> None]
    /\ shared \in BOOLEAN
    /\ pack = [p \in Pipelines |-> [checks |-> "none", review |-> "none"]]

Goto(p, stage) == pipe' = [pipe EXCEPT ![p] = stage]

-----------------------------------------------------------------------------
\* The coder commits its proposal, or finds nothing to commit and names the
\* head of the workspace.
Propose(p) ==
    /\ pipe[p] = "coding"
    /\ \/ /\ head' = [q \in Pipelines |->
                        IF shared \/ q = p THEN p ELSE head[q]]
          /\ proposed' = [proposed EXCEPT ![p] = p]
       \/ /\ head[p] # None
          /\ proposed' = [proposed EXCEPT ![p] = head[p]]
          /\ UNCHANGED head
    /\ Goto(p, "packaging")
    /\ UNCHANGED <<queueVars, pack, waited, took, shared>>

\* Faulty packaging: the commit of whoever came first is pinned.
OldestCommit(p) == IF order = <<>> THEN head[p] ELSE reqs[order[1]].commit

\* What the coordinator pins: the head of its workspace at this moment.
PinnedCommit(p) == head[p]

Enqueue(p) ==
    /\ pipe[p] = "packaging"
    /\ Queue!CreateRequest(p, PinnedCommit(p))
    /\ Goto(p, "runner")
    /\ UNCHANGED <<pack, waited, head, proposed, took, shared>>

\* The process of the verifier has exited.
Exited(w) == jobs'[w] = Queue!Idle

\* The verifier process: one invocation, after which the pipeline polls.
RunnerClaims(p) ==
    /\ pipe[p] = "runner"
    /\ \/ Queue!ClaimNextExpire(p) /\ UNCHANGED <<pipe, took>>
       \/ /\ Queue!ClaimNextTake(p)
          /\ took' = [took EXCEPT ![p] = jobs'[p].req]
          /\ IF Exited(p) THEN Goto(p, "poll") ELSE UNCHANGED pipe
    /\ UNCHANGED <<pack, waited, head, proposed, shared>>

\* Faulty verdict: the compilation is reported, but does not count.
LintAside(verdict) == IF verdict = "passed" THEN {"passed", "lint_failed"}
                                            ELSE {"failed"}

\* The verdict is that of the tests, the scan and the compilation together;
\* the pack has a column for each.
ChecksWith(verdict) == IF verdict = "passed" THEN {"passed"}
                                             ELSE {"lint_failed", "failed"}

RunnerWorks(p) ==
    /\ pipe[p] = "runner"
    /\ \/ \E v \in Queue!Verdicts, answered \in BOOLEAN :
             /\ Queue!VerifyAndWrite(p, v, answered)
             /\ \E c \in ChecksWith(v) :
                   pack' = [pack EXCEPT ![jobs[p].req].checks = c]
       \/ /\ Queue!VerifyFails(p) \/ Queue!CompleteRead(p)
                \/ Queue!CompleteCommit(p)
          /\ UNCHANGED pack
    /\ IF Exited(p) THEN Goto(p, "poll") ELSE UNCHANGED pipe
    /\ UNCHANGED <<waited, head, proposed, took, shared>>

\* The verifier dies: its exit code is not looked at, but when it was killed
\* for taking too long the coordinator fails.
RunnerDies(p) ==
    /\ pipe[p] = "runner"
    /\ Queue!Crash(p)
    /\ Goto(p, "poll") \/ Goto(p, "refused")
    /\ UNCHANGED <<pack, waited, head, proposed, took, shared>>

-----------------------------------------------------------------------------
(* Polling.                                                                *)

\* Faulty poll: an operational error is not the end of a request.
WithoutError == Queue!Terminal \ {"error"}

\* Faulty poll: a verdict of either kind is good news.
AnyVerdict == {"passed", "failed"}

Reported == Queue!Terminal
Approved == {"passed"}

StatusSeen(p) == IF Queue!StalePending(p) THEN "expired" ELSE reqs[p].status

\* One poll: the terminal status decides, any other is waited for.  The demo
\* scripts leave the review to a later step.
Poll(p) ==
    /\ pipe[p] = "poll"
    /\ waited[p] < MaxWait
    /\ \/ Queue!GetStatus(p)
       \/ ~Queue!StalePending(p) /\ UNCHANGED queueVars
    /\ IF StatusSeen(p) \in Reported
       THEN /\ IF StatusSeen(p) \in Approved
               THEN Goto(p, "review") \/ Goto(p, "closing")
               ELSE Goto(p, "refused")
            /\ UNCHANGED waited
       ELSE /\ waited' = [waited EXCEPT ![p] = @ + PollMs]
            /\ UNCHANGED pipe
    /\ UNCHANGED <<pack, head, proposed, took, shared>>

GiveUp(p) ==
    /\ pipe[p] = "poll"
    /\ waited[p] >= MaxWait
    /\ Goto(p, "gave_up")
    /\ UNCHANGED <<queueVars, pack, waited, head, proposed, took, shared>>

TtlPasses(p) == Queue!TtlPasses(p) /\ UNCHANGED <<pack, pipeVars>>

-----------------------------------------------------------------------------
(* Review and the end of the run.                                          *)

\* The reviewer subprocess: its verdict is advisory, and only its failure
\* stops the coordinator, also when the review was written before.
Review(p, written, exited) ==
    /\ pipe[p] = "review"
    /\ exited => written
    /\ \/ /\ written
          /\ \E v \in {"completed", "needs_revision"} :
                pack' = [pack EXCEPT ![p].review = v]
       \/ ~written /\ UNCHANGED pack
    /\ Goto(p, IF exited THEN "closing" ELSE "refused")
    /\ UNCHANGED <<queueVars, waited, head, proposed, took, shared>>

\* The terminal patch completes the run, unless it has open questions: their
\* high CRP blocks it, and the patch is refused.  Nobody else writes the row
\* here, so that the two calls are one step.
Close(p, questions) ==
    /\ pipe[p] = "closing"
    /\ Goto(p, IF questions THEN "blocked" ELSE "packaged")
    /\ UNCHANGED <<queueVars, pack, waited, head, proposed, took, shared>>

-----------------------------------------------------------------------------
Runner(p) == RunnerClaims(p) \/ RunnerWorks(p)

Coordinate(p) ==
    \/ Enqueue(p) \/ Poll(p) \/ GiveUp(p)
    \/ \E written, exited \in BOOLEAN : Review(p, written, exited)
    \/ \E questions \in BOOLEAN : Close(p, questions)

Next ==
    \E p \in Pipelines :
        Propose(p) \/ Coordinate(p) \/ Runner(p) \/ RunnerDies(p)
          \/ TtlPasses(p)

Spec == Init /\ [][Next]_vars

\* A coordinator and the verifier that it waits for are processes that run on.
FairSpec == Spec /\ \A p \in Pipelines : WF_vars(Runner(p) \/ Coordinate(p))

-----------------------------------------------------------------------------
(* Properties.                                                             *)

\* The verification is behind the pipeline.
Verified(p) == pipe[p] \in {"review", "closing", "packaged", "blocked"}

\* A pipeline goes on to the review, and completes or blocks its run, only
\* with passing evidence on its own pack, about the commit that it pinned,
\* whoever wrote it.
PassIsEvidenced ==
    \A p \in Pipelines : Verified(p) =>
        /\ pack[p].checks = "passed"
        /\ [tree |-> reqs[p].commit, verdict |-> "passed"]
             \in {evidence[p][i] : i \in DOMAIN evidence[p]}

\* G7 and G8: the tests and the scan passed, in the verifier's words, and the
\* reviewer has completed its review.
GateOpen(p) ==
    pack[p].checks \in {"passed", "lint_failed"} /\ pack[p].review = "completed"

\* The gate does not look at the request, nor at the compilation; yet it
\* opens only for a pack whose request passed, all checks together, since
\* the coordinator has no other pack reviewed.
GateOpensOnPass ==
    \A p \in Pipelines :
        GateOpen(p) => reqs[p].status = "passed" /\ pack[p].checks = "passed"

\* A pipeline gives up on its request only because its verifier worked on
\* the request of another pipeline, or found none, or died.
GivesUpOnOthers ==
    \A p \in Pipelines : pipe[p] = "gave_up" => took[p] # p \/ p \in lost

\* What a pipeline had verified is the commit its run proposed, when it has a
\* git workspace of its own (run_e2_backend.py, run_e3_frontend.py).
VerifiesProposal ==
    ~shared => \A p \in Pipelines :
                 Verified(p) => reqs[p].tree = proposed[p]

\* The queue under coordinators and their verifiers keeps the promise of
\* RequestLifecycle.
ImplementsLifecycle == Queue!ImplementsLifecycle

\* A pipeline that enqueued a request comes to an end, whatever the others do.
PipelinesEnd == \A p \in Pipelines : pipe[p] = "runner" ~> pipe[p] \in Ends
=============================================================================
