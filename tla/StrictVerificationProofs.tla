----------------------- MODULE StrictVerificationProofs -----------------------
(***************************************************************************)
(* Proofs about StrictVerification for any number of pipelines.  The       *)
(* coordinators and their verifiers implement VerificationQueue, so that   *)
(* its invariants and its refinement hold here.  Backed is the inductive   *)
(* invariant behind the verdicts: it ties a pack to the first evidence row *)
(* of its request, that row to the status of the request, and the status   *)
(* to how far the coordinator has come.                                    *)
(***************************************************************************)
EXTENDS StrictVerification, TLAPS

QP == INSTANCE VerificationQueueProofs
        WITH Requests <- Pipelines, Workers <- Pipelines,
             Commits <- Pipelines, SlowPoll <- FALSE, Manual <- FALSE

USE PipelineAssumption

-----------------------------------------------------------------------------
(* The queue inside StrictVerification.                                    *)

\* A coordinator that packages has a head to pin.
HeadKnown ==
    /\ pipe \in [Pipelines -> Stages \cup Ends]
    /\ head \in [Pipelines -> OrNone]
    /\ \A p \in Pipelines : pipe[p] = "packaging" => head[p] \in Pipelines

\* No coordinator packages before the coder has proposed a commit.
LEMMA HeadIsKnown == Spec => []HeadKnown
<1>1. Init => HeadKnown
  BY DEF Init, HeadKnown, Stages, OrNone
<1>2. HeadKnown /\ [Next]_vars => HeadKnown'
  <2> SUFFICES ASSUME HeadKnown, [Next]_vars PROVE HeadKnown'
    OBVIOUS
  <2> USE DEF HeadKnown, Goto, Stages, Ends, OrNone
  <2>1. ASSUME NEW p \in Pipelines, Propose(p) PROVE HeadKnown'
    BY <2>1 DEF Propose
  <2>2. ASSUME NEW p \in Pipelines,
               UNCHANGED head,
               \/ UNCHANGED pipe
               \/ \E stage \in (Stages \cup Ends) \ {"packaging"} :
                     Goto(p, stage)
        PROVE  HeadKnown'
    BY <2>2
  <2>3. ASSUME NEW p \in Pipelines, Coordinate(p) PROVE HeadKnown'
    BY <2>2, <2>3 DEF Coordinate, Enqueue, Poll, GiveUp, Review, Close
  <2>4. ASSUME NEW p \in Pipelines,
               Runner(p) \/ RunnerDies(p) \/ TtlPasses(p)
        PROVE  HeadKnown'
    BY <2>2, <2>4
       DEF Runner, RunnerClaims, RunnerWorks, RunnerDies, TtlPasses, pipeVars
  <2>5. CASE UNCHANGED vars
    BY <2>5 DEF vars, pipeVars
  <2> QED
    BY <2>1, <2>3, <2>4, <2>5 DEF Next
<1> QED
  BY <1>1, <1>2, PTL DEF Spec

\* Every step of the coordinators and their verifiers is one of the queue, or
\* leaves it alone.
LEMMA QueueStep ==
    ASSUME HeadKnown, [Next]_vars PROVE [Queue!Next]_(Queue!vars)
<1> SUFFICES Queue!Next \/ UNCHANGED queueVars
  BY DEF queueVars, Queue!vars
<1>1. ASSUME NEW p \in Pipelines, Enqueue(p) PROVE Queue!Next
  BY <1>1 DEF Enqueue, PinnedCommit, HeadKnown, Queue!Next, Queue!RequestStep
<1>2. ASSUME NEW p \in Pipelines, Coordinate(p)
      PROVE  Queue!Next \/ UNCHANGED queueVars
  BY <1>1, <1>2
     DEF Coordinate, Poll, GiveUp, Review, Close, Queue!Next,
         Queue!RequestStep
<1>3. ASSUME NEW p \in Pipelines, Runner(p) PROVE Queue!Next
  BY <1>3 DEF Runner, RunnerClaims, RunnerWorks, Queue!Next, Queue!Invoke,
              Queue!Work
<1>4. ASSUME NEW p \in Pipelines, RunnerDies(p) \/ TtlPasses(p)
      PROVE  Queue!Next
  BY <1>4 DEF RunnerDies, TtlPasses, Queue!Next, Queue!RequestStep
<1>5. ASSUME NEW p \in Pipelines, Propose(p) PROVE UNCHANGED queueVars
  BY <1>5 DEF Propose
<1>6. CASE UNCHANGED vars
  BY <1>6 DEF vars
<1> QED
  BY <1>2, <1>3, <1>4, <1>5, <1>6 DEF Next

\* The coordinators and their verifiers implement the queue.
THEOREM ImplementsQueue == Spec => Queue!Spec
<1>1. Init => Queue!Init
  BY DEF Init
<1>2. HeadKnown /\ [Next]_vars => [Queue!Next]_(Queue!vars)
  BY QueueStep
<1> QED
  BY <1>1, <1>2, HeadIsKnown, PTL DEF Spec, Queue!Spec

\* The two instances of VerificationQueue are the same specification.
LEMMA SameNext == [Queue!Next]_(Queue!vars) => [QP!Next]_(QP!vars)
<1>1. ASSUME NEW q \in Pipelines, Queue!RequestStep(q) PROVE QP!RequestStep(q)
  BY <1>1
     DEF Queue!RequestStep, QP!RequestStep,
         Queue!CreateRequest, QP!CreateRequest, Queue!TtlPasses, QP!TtlPasses,
         Queue!GetStatus, QP!GetStatus, Queue!GetStatusRead, QP!GetStatusRead,
         Queue!GetStatusCommit, QP!GetStatusCommit,
         Queue!CompleteManually, QP!CompleteManually,
         Queue!StalePending, QP!StalePending, Queue!Pending, QP!Pending,
         Queue!Expired, QP!Expired
<1>2. ASSUME NEW w \in Pipelines, Queue!Invoke(w) PROVE QP!Invoke(w)
  BY <1>2
     DEF Queue!Invoke, QP!Invoke, Queue!ClaimNextExpire, QP!ClaimNextExpire,
         Queue!ClaimNextTake, QP!ClaimNextTake,
         Queue!ClaimableRequests, QP!ClaimableRequests,
         Queue!StalePending, QP!StalePending, Queue!Pending, QP!Pending,
         Queue!Expired, QP!Expired, Queue!Idle, QP!Idle
<1>3. ASSUME NEW w \in Pipelines, Queue!Work(w) \/ Queue!Crash(w)
      PROVE  QP!Work(w) \/ QP!Crash(w)
  <2>1. ASSUME NEW v \in Queue!Verdicts, NEW ok \in BOOLEAN,
               Queue!VerifyAndWrite(w, v, ok)
        PROVE  v \in QP!Verdicts /\ QP!VerifyAndWrite(w, v, ok)
    BY <2>1 DEF Queue!VerifyAndWrite, QP!VerifyAndWrite, Queue!EvidenceRow,
                QP!EvidenceRow, Queue!Verdicts, QP!Verdicts
  <2>2. Queue!VerifyFails(w) => QP!VerifyFails(w)
    BY DEF Queue!VerifyFails, QP!VerifyFails
  <2>3. Queue!CompleteRead(w) => QP!CompleteRead(w)
    BY DEF Queue!CompleteRead, QP!CompleteRead, Queue!Completable,
           QP!Completable, Queue!Terminal, QP!Terminal, Queue!Idle, QP!Idle
  <2>4. Queue!CompleteCommit(w) => QP!CompleteCommit(w)
    BY DEF Queue!CompleteCommit, QP!CompleteCommit, Queue!CompletedRow,
           QP!CompletedRow, Queue!Idle, QP!Idle
  <2>5. Queue!Crash(w) => QP!Crash(w)
    BY DEF Queue!Crash, QP!Crash, Queue!Idle, QP!Idle, Queue!Cardinality,
           QP!Cardinality
  <2> QED
    BY <1>3, <2>1, <2>2, <2>3, <2>4, <2>5 DEF Queue!Work, QP!Work
<1> QED
  BY <1>1, <1>2, <1>3 DEF Queue!Next, QP!Next, Queue!vars, QP!vars

\* Hence the theorems about one are theorems about the other.
LEMMA SameSpec == Queue!Spec => QP!Spec
<1>1. Queue!Init => QP!Init
  BY DEF Queue!Init, QP!Init, Queue!NoRequest, QP!NoRequest, Queue!Idle,
         QP!Idle
<1> QED
  BY <1>1, SameNext, PTL DEF Queue!Spec, QP!Spec

\* What is proved of the queue by itself holds of the queue inside.
LEMMA QueueInvariants ==
    Spec => [](Queue!TypeOK /\ QP!TypeOK /\ QP!Custody /\ QP!Held)
<1>1. QP!QueueAssumption
  BY DEF QP!QueueAssumption
<1>2. QP!TypeOK => Queue!TypeOK
  BY DEF QP!TypeOK, Queue!TypeOK, QP!Request, Queue!Request, QP!Row,
         Queue!Row, QP!FreeJob, Queue!FreeJob, QP!HeldJob, Queue!HeldJob,
         QP!Statuses, Queue!Statuses, QP!Terminal, Queue!Terminal,
         QP!Verdicts, Queue!Verdicts, QP!Outcomes, Queue!Outcomes
<1>3. QP!Spec => []QP!TypeOK
  BY <1>1, QP!TypeCorrect
<1>4. QP!Spec => []QP!Custody
  BY <1>1, QP!CustodyHolds
<1>5. QP!Spec => []QP!Held
  BY <1>1, QP!HeldHolds
<1> QED
  BY <1>2, <1>3, <1>4, <1>5, ImplementsQueue, SameSpec, PTL

\* The queue keeps its promise under coordinators and their verifiers.
THEOREM KeepsPromise == Spec => ImplementsLifecycle
<1>1. QP!QueueAssumption
  BY DEF QP!QueueAssumption
<1>2. QP!Spec => QP!ImplementsLifecycle
  BY <1>1, QP!KeepsPromise
<1>3. QP!Lifecycle!Init => Queue!Lifecycle!Init
  BY DEF QP!Lifecycle!Init, Queue!Lifecycle!Init
<1>4. QP!Lifecycle!Next => Queue!Lifecycle!Next
  BY DEF QP!Lifecycle!Next, Queue!Lifecycle!Next,
         QP!Lifecycle!Expire, Queue!Lifecycle!Expire,
         QP!Lifecycle!Enqueue, Queue!Lifecycle!Enqueue,
         QP!Lifecycle!Claim, Queue!Lifecycle!Claim,
         QP!Lifecycle!Verify, Queue!Lifecycle!Verify,
         QP!Lifecycle!Finish, Queue!Lifecycle!Finish,
         QP!Lifecycle!Verdicts, Queue!Lifecycle!Verdicts
<1> QED
  BY <1>2, <1>3, <1>4, ImplementsQueue, SameSpec, PTL
     DEF ImplementsLifecycle, Queue!ImplementsLifecycle,
         QP!ImplementsLifecycle, QP!Lifecycle!Spec, Queue!Lifecycle!Spec

-----------------------------------------------------------------------------
(* Types.                                                                  *)

\* Coordinators, packs and heads have their types, and so has the queue.
THEOREM TypeCorrect == Spec => []TypeOK
<1>1. Init => TypeOK
  <2> SUFFICES ASSUME Init PROVE TypeOK
    OBVIOUS
  <2>1. Queue!TypeOK
    BY DEF Init, Queue!Init, Queue!TypeOK, Queue!NoRequest, Queue!Idle,
           Queue!Request, Queue!FreeJob, Queue!Statuses
  <2> QED
    BY <2>1 DEF Init, TypeOK, Stages, OrNone, Checks
<1>2. TypeOK /\ Queue!TypeOK' /\ [Next]_vars => TypeOK'
  <2> SUFFICES ASSUME TypeOK, Queue!TypeOK', [Next]_vars PROVE TypeOK'
    OBVIOUS
  <2> USE DEF TypeOK, Goto, Stages, Ends, OrNone, Checks
  <2>1. ASSUME NEW p \in Pipelines, Propose(p) PROVE TypeOK'
    BY <2>1 DEF Propose
  <2>2. ASSUME NEW p \in Pipelines, Enqueue(p) \/ GiveUp(p) PROVE TypeOK'
    BY <2>2 DEF Enqueue, GiveUp
  <2>3. ASSUME NEW p \in Pipelines, Poll(p) PROVE TypeOK'
    BY <2>3 DEF Poll, PollMs
  <2>4. ASSUME NEW p \in Pipelines, NEW w \in BOOLEAN, NEW x \in BOOLEAN,
               Review(p, w, x)
        PROVE  TypeOK'
    <3>1. /\ UNCHANGED <<waited, head, proposed, took, shared>>
          /\ pipe' \in [Pipelines -> Stages \cup Ends]
      BY <2>4 DEF Review
    <3>2. pack' \in [Pipelines -> [checks: Checks,
                         review: {"none", "completed", "needs_revision"}]]
      BY <2>4 DEF Review
    <3> QED
      BY <3>1, <3>2
  <2>5. ASSUME NEW p \in Pipelines, NEW q \in BOOLEAN, Close(p, q)
        PROVE  TypeOK'
    BY <2>5 DEF Close
  <2>6. ASSUME NEW p \in Pipelines, RunnerClaims(p) PROVE TypeOK'
    <3>1. jobs'[p].req \in OrNone
      BY DEF Queue!TypeOK, Queue!FreeJob, Queue!HeldJob
    <3> QED
      BY <2>6, <3>1 DEF RunnerClaims
  <2>7. ASSUME NEW p \in Pipelines, RunnerWorks(p) PROVE TypeOK'
    <3>1. /\ UNCHANGED <<waited, head, proposed, took, shared>>
          /\ pipe' \in [Pipelines -> Stages \cup Ends]
      BY <2>7 DEF RunnerWorks
    <3>2. pack' \in [Pipelines -> [checks: Checks,
                         review: {"none", "completed", "needs_revision"}]]
      <4>1. ASSUME NEW q, NEW c \in Checks, pack' = [pack EXCEPT ![q].checks = c]
            PROVE  pack' \in [Pipelines -> [checks: Checks,
                              review: {"none", "completed", "needs_revision"}]]
        BY <4>1
      <4>2. \A v : ChecksWith(v) \subseteq Checks
        BY DEF ChecksWith
      <4> HIDE DEF Checks
      <4> QED
        BY <2>7, <4>1, <4>2 DEF RunnerWorks
    <3> QED
      BY <3>1, <3>2
  <2>8. ASSUME NEW p \in Pipelines, RunnerDies(p) \/ TtlPasses(p) PROVE TypeOK'
    BY <2>8 DEF RunnerDies, TtlPasses, pipeVars
  <2>9. CASE UNCHANGED vars
    BY <2>9 DEF vars, pipeVars
  <2> HIDE DEF TypeOK
  <2> QED
    BY <2>1, <2>2, <2>3, <2>4, <2>5, <2>6, <2>7, <2>8, <2>9
       DEF Next, Coordinate, Runner
<1> QED
  BY <1>1, <1>2, QueueInvariants, PTL DEF Spec

-----------------------------------------------------------------------------
(* Verdicts.                                                               *)

Known == TypeOK /\ HeadKnown /\ QP!TypeOK /\ QP!Custody /\ QP!Held

\* What is known of every reachable state of the coordinators and the queue.
LEMMA KnownHolds == Spec => []Known
  BY TypeCorrect, HeadIsKnown, QueueInvariants, PTL DEF Known

Backed ==
    \A p \in Pipelines :
        /\ evidence[p] # <<>> =>
             /\ evidence[p][1].tree = reqs[p].commit
             /\ pack[p].checks = "passed" <=> evidence[p][1].verdict = "passed"
        /\ reqs[p].status \in Queue!Verdicts =>
             /\ evidence[p] # <<>>
             /\ evidence[p][1].verdict = reqs[p].status
             /\ reqs[p].tree = reqs[p].commit
        /\ Verified(p) \/ pack[p].review # "none" => reqs[p].status = "passed"

\* What happens to the row of a request.
LEMMA RowMoves ==
    ASSUME Known, [Next]_vars, NEW p \in Pipelines
    PROVE  \/ reqs'[p] = reqs[p]
           \/ /\ reqs[p].status \notin Queue!Verdicts
              /\ reqs'[p].status \notin Queue!Verdicts
              /\ reqs'[p].status # "absent"
              /\ reqs[p].status # "absent" => reqs'[p].commit = reqs[p].commit
           \/ /\ evidence[p] # <<>>
              /\ reqs[p].status = "running"
              /\ reqs'[p] = [status |-> evidence[p][1].verdict,
                             commit |-> reqs[p].commit,
                             tree   |-> reqs[p].commit]
<1>1. QP!QueueAssumption
  BY DEF QP!QueueAssumption
<1>2. [QP!Next]_(QP!vars)
  BY QueueStep, SameNext DEF Known
<1> QED
  BY <1>1, <1>2, QP!RowStep DEF Known, QP!Verdicts, Queue!Verdicts

\* Evidence is written once, together with the columns of the pack.
LEMMA EvidenceMoves ==
    ASSUME Known, [Next]_vars, NEW p \in Pipelines
    PROVE  \/ evidence'[p] = evidence[p] /\ pack'[p].checks = pack[p].checks
           \/ /\ evidence[p] = <<>>
              /\ reqs'[p] = reqs[p]
              /\ reqs[p].status = "running"
              /\ \E v \in Queue!Verdicts :
                    /\ evidence'[p] = <<[tree |-> reqs[p].commit,
                                         verdict |-> v]>>
                    /\ pack'[p].checks = "passed" <=> v = "passed"
<1> USE DEF Known
<1>1. ASSUME NEW w \in Pipelines, NEW v \in Queue!Verdicts, NEW ok \in BOOLEAN,
             NEW c \in ChecksWith(v),
             Queue!VerifyAndWrite(w, v, ok),
             pack' = [pack EXCEPT ![jobs[w].req].checks = c]
      PROVE  \/ evidence'[p] = evidence[p] /\ pack'[p].checks = pack[p].checks
             \/ /\ evidence[p] = <<>>
                /\ reqs'[p] = reqs[p]
                /\ reqs[p].status = "running"
                /\ evidence'[p] = <<[tree |-> reqs[p].commit, verdict |-> v]>>
                /\ pack'[p].checks = "passed" <=> v = "passed"
  <2>1. PICK q \in Pipelines : q = jobs[w].req /\ jobs[w].step = "claimed"
    BY <1>1 DEF Queue!VerifyAndWrite, TypeOK, Queue!TypeOK, Queue!FreeJob,
                Queue!HeldJob
  <2>2. evidence[q] = <<>> /\ reqs[q].status = "running"
    BY <2>1 DEF QP!Custody, QP!Held
  <2>3. /\ evidence' = [evidence EXCEPT ![q] = <<Queue!EvidenceRow(q, v)>>]
        /\ reqs' = reqs
    BY <1>1, <2>1, <2>2 DEF Queue!VerifyAndWrite, TypeOK, Queue!TypeOK
  <2>4. /\ pack'[q].checks = c
        /\ p # q => pack'[p] = pack[p]
    BY <1>1, <2>1 DEF TypeOK
  <2>5. c = "passed" <=> v = "passed"
    BY DEF ChecksWith
  <2> QED
    BY <2>2, <2>3, <2>4, <2>5 DEF Queue!EvidenceRow, TypeOK, Queue!TypeOK
<1>2. ASSUME NEW w \in Pipelines, RunnerWorks(w)
      PROVE  \/ evidence'[p] = evidence[p] /\ pack'[p].checks = pack[p].checks
             \/ /\ evidence[p] = <<>>
                /\ reqs'[p] = reqs[p]
                /\ reqs[p].status = "running"
                /\ \E v \in Queue!Verdicts :
                      /\ evidence'[p] = <<[tree |-> reqs[p].commit,
                                           verdict |-> v]>>
                      /\ pack'[p].checks = "passed" <=> v = "passed"
  <2>1. CASE /\ Queue!VerifyFails(w) \/ Queue!CompleteRead(w)
                  \/ Queue!CompleteCommit(w)
             /\ UNCHANGED pack
    BY <2>1 DEF Queue!VerifyFails, Queue!CompleteRead, Queue!CompleteCommit
  <2> QED
    BY <1>1, <1>2, <2>1 DEF RunnerWorks
<1>3. ASSUME NEW w \in Pipelines, NEW a \in BOOLEAN, NEW b \in BOOLEAN,
             Review(w, a, b)
      PROVE  evidence'[p] = evidence[p] /\ pack'[p].checks = pack[p].checks
  BY <1>3 DEF Review, queueVars, TypeOK
<1>4. CASE UNCHANGED <<evidence, pack>>
  BY <1>4
<1> QED
  BY <1>2, <1>3, <1>4
     DEF Next, Coordinate, Runner, Propose, Enqueue, Poll, GiveUp, Close,
         RunnerClaims, RunnerDies, TtlPasses, vars, queueVars, pipeVars,
         Queue!CreateRequest, Queue!GetStatus, Queue!TtlPasses, Queue!Crash,
         Queue!ClaimNextExpire, Queue!ClaimNextTake

\* A pipeline gets past its verification only when its request has passed.
LEMMA PipelineMoves ==
    ASSUME Known, [Next]_vars, NEW p \in Pipelines,
           Verified(p)' \/ pack'[p].review # "none"
    PROVE  \/ Verified(p) \/ pack[p].review # "none"
           \/ reqs[p].status = "passed"
<1> USE DEF Known, Verified, Goto
<1>1. ASSUME NEW w \in Pipelines, Poll(w)
      PROVE  \/ Verified(p) \/ pack[p].review # "none"
             \/ reqs[p].status = "passed"
  BY <1>1 DEF Poll, Approved, Reported, StatusSeen, TypeOK
<1>2. ASSUME NEW w \in Pipelines, NEW a \in BOOLEAN, NEW b \in BOOLEAN,
             Review(w, a, b)
      PROVE  Verified(p) \/ pack[p].review # "none"
  BY <1>2 DEF Review, TypeOK
<1>3. ASSUME NEW w \in Pipelines, NEW q \in BOOLEAN, Close(w, q)
      PROVE  Verified(p) \/ pack[p].review # "none"
  BY <1>3 DEF Close, TypeOK
<1>4. ASSUME NEW w \in Pipelines, RunnerWorks(w)
      PROVE  Verified(p) \/ pack[p].review # "none"
  <2>1. pack'[p].review = pack[p].review
    <3>1. ASSUME NEW q, NEW c, pack' = [pack EXCEPT ![q].checks = c]
          PROVE  pack'[p].review = pack[p].review
      BY <3>1 DEF TypeOK
    <3> QED
      BY <1>4, <3>1 DEF RunnerWorks
  <2>2. pipe'[p] = pipe[p] \/ pipe'[p] = "poll"
    BY <1>4 DEF RunnerWorks, TypeOK
  <2> QED
    BY <2>1, <2>2
<1>5. CASE /\ UNCHANGED pack
           /\ pipe'[p] \in {pipe[p], "packaging", "runner", "poll", "refused",
                            "gave_up"}
  BY <1>5
<1>6. ASSUME NEW w \in Pipelines,
             Propose(w) \/ Enqueue(w) \/ GiveUp(w) \/ RunnerClaims(w)
               \/ RunnerDies(w) \/ TtlPasses(w)
      PROVE  Verified(p) \/ pack[p].review # "none"
  BY <1>5, <1>6
     DEF Propose, Enqueue, GiveUp, RunnerClaims, RunnerDies, TtlPasses,
         pipeVars, TypeOK
<1>7. CASE UNCHANGED vars
  BY <1>5, <1>7 DEF vars, pipeVars
<1> QED
  BY <1>1, <1>2, <1>3, <1>4, <1>6, <1>7 DEF Next, Coordinate, Runner

\* Backed is inductive.
THEOREM BackedHolds == Spec => []Backed
<1>1. Init => Backed
  BY DEF Init, Backed, Queue!Init, Queue!NoRequest, Queue!Verdicts, Verified
<1>2. Known /\ Backed /\ [Next]_vars => Backed'
  <2> SUFFICES ASSUME Known, Backed, [Next]_vars, NEW p \in Pipelines
               PROVE  /\ evidence'[p] # <<>> =>
                           /\ evidence'[p][1].tree = reqs'[p].commit
                           /\ pack'[p].checks = "passed"
                                <=> evidence'[p][1].verdict = "passed"
                      /\ reqs'[p].status \in Queue!Verdicts =>
                           /\ evidence'[p] # <<>>
                           /\ evidence'[p][1].verdict = reqs'[p].status
                           /\ reqs'[p].tree = reqs'[p].commit
                      /\ Verified(p)' \/ pack'[p].review # "none"
                           => reqs'[p].status = "passed"
    BY DEF Backed, Queue!Verdicts
  <2>1. /\ evidence[p] # <<>> =>
             /\ evidence[p][1].tree = reqs[p].commit
             /\ pack[p].checks = "passed" <=> evidence[p][1].verdict = "passed"
             /\ reqs[p].status # "absent"
        /\ reqs[p].status \in Queue!Verdicts =>
             /\ evidence[p] # <<>>
             /\ evidence[p][1].verdict = reqs[p].status
             /\ reqs[p].tree = reqs[p].commit
        /\ Verified(p) \/ pack[p].review # "none" => reqs[p].status = "passed"
    BY DEF Backed, Known, QP!Custody, QP!Taken
  <2>2. CASE /\ evidence'[p] = evidence[p]
             /\ pack'[p].checks = pack[p].checks
    <3>1. evidence'[p] # <<>> =>
             /\ evidence'[p][1].tree = reqs'[p].commit
             /\ pack'[p].checks = "passed"
                  <=> evidence'[p][1].verdict = "passed"
      <4>1. evidence[p] # <<>> => reqs'[p].commit = reqs[p].commit
        <5>1. CASE reqs'[p] = reqs[p]
          BY <5>1
        <5>2. CASE reqs[p].status # "absent" => reqs'[p].commit = reqs[p].commit
          BY <2>1, <5>2
        <5>3. CASE reqs'[p] = [status |-> evidence[p][1].verdict,
                               commit |-> reqs[p].commit,
                               tree   |-> reqs[p].commit]
          BY <5>3
        <5> QED
          BY <5>1, <5>2, <5>3, RowMoves
      <4> QED
        BY <2>1, <2>2, <4>1
    <3>2. reqs'[p].status \in Queue!Verdicts =>
             /\ evidence'[p] # <<>>
             /\ evidence'[p][1].verdict = reqs'[p].status
             /\ reqs'[p].tree = reqs'[p].commit
      <4>1. CASE reqs'[p] = reqs[p]
        BY <2>1, <2>2, <4>1
      <4>2. CASE reqs'[p].status \notin Queue!Verdicts
        BY <4>2
      <4>3. CASE /\ evidence[p] # <<>>
                 /\ reqs'[p] = [status |-> evidence[p][1].verdict,
                                commit |-> reqs[p].commit,
                                tree   |-> reqs[p].commit]
        BY <2>2, <4>3
      <4> QED
        BY <4>1, <4>2, <4>3, RowMoves
    <3>3. Verified(p)' \/ pack'[p].review # "none"
            => reqs'[p].status = "passed"
      BY <2>1, RowMoves, PipelineMoves DEF Queue!Verdicts
    <3> QED
      BY <3>1, <3>2, <3>3
  <2>3. CASE /\ evidence[p] = <<>>
             /\ reqs'[p] = reqs[p]
             /\ reqs[p].status = "running"
             /\ \E v \in Queue!Verdicts :
                   /\ evidence'[p] = <<[tree |-> reqs[p].commit,
                                        verdict |-> v]>>
                   /\ pack'[p].checks = "passed" <=> v = "passed"
    BY <2>1, <2>3, PipelineMoves DEF Queue!Verdicts
  <2> QED
    BY <2>2, <2>3, EvidenceMoves
<1> QED
  BY <1>1, <1>2, KnownHolds, PTL DEF Spec

\* Every verdict on a request repeats the evidence on its pack, about the tree
\* of its pinned commit.
THEOREM VerdictsAreEvidenced == Spec => []Queue!VerdictHasEvidence
<1>1. Known /\ Backed => Queue!VerdictHasEvidence
  <2> SUFFICES ASSUME Known, Backed, NEW p \in Pipelines,
                      reqs[p].status \in Queue!Verdicts
               PROVE  /\ reqs[p].tree = reqs[p].commit
                      /\ [tree |-> reqs[p].commit, verdict |-> reqs[p].status]
                           \in {evidence[p][i] : i \in DOMAIN evidence[p]}
    BY DEF Queue!VerdictHasEvidence
  <2>1. /\ evidence[p] # <<>>
        /\ evidence[p][1].verdict = reqs[p].status
        /\ evidence[p][1].tree = reqs[p].commit
        /\ reqs[p].tree = reqs[p].commit
    BY DEF Backed
  <2>2. evidence[p] \in Seq(Queue!Row)
    BY DEF Known, TypeOK, Queue!TypeOK
  <2>3. 1 \in DOMAIN evidence[p] /\ evidence[p][1] \in Queue!Row
    BY <2>1, <2>2
  <2>4. evidence[p][1] = [tree |-> reqs[p].commit, verdict |-> reqs[p].status]
    BY <2>1, <2>3 DEF Queue!Row
  <2> QED
    BY <2>1, <2>3, <2>4
<1> QED
  BY <1>1, BackedHolds, KnownHolds, PTL

\* No pipeline gets past its verification, and no run is completed or
\* blocked, without passing evidence on its own pack about its own commit.
THEOREM PassesAreEvidenced == Spec => []PassIsEvidenced
<1>1. Queue!VerdictHasEvidence /\ Backed => PassIsEvidenced
  <2> SUFFICES ASSUME Queue!VerdictHasEvidence, Backed,
                      NEW p \in Pipelines, Verified(p)
               PROVE  /\ pack[p].checks = "passed"
                      /\ [tree |-> reqs[p].commit, verdict |-> "passed"]
                           \in {evidence[p][i] : i \in DOMAIN evidence[p]}
    BY DEF PassIsEvidenced
  <2> QED
    BY DEF Backed, Queue!VerdictHasEvidence, Queue!Verdicts
<1> QED
  BY <1>1, BackedHolds, VerdictsAreEvidenced, PTL

\* Gates G7 and G8 never open for a pack whose request did not pass.
THEOREM GatesOpenOnPass == Spec => []GateOpensOnPass
<1>1. Backed => GateOpensOnPass
  BY DEF Backed, GateOpensOnPass, GateOpen, Queue!Verdicts
<1> QED
  BY <1>1, BackedHolds, PTL

-----------------------------------------------------------------------------
(* Proposals.                                                              *)

\* In a workspace of its own a pipeline pins what its run proposed.
Pinned ==
    ~shared => \A p \in Pipelines :
        /\ pipe[p] # "coding" => proposed[p] = head[p]
        /\ reqs[p].status # "absent" =>
             /\ pipe[p] \notin {"coding", "packaging"}
             /\ reqs[p].commit = head[p]

\* Pinned is inductive.
LEMMA PinnedHolds == Spec => []Pinned
<1>1. Init => Pinned
  BY DEF Init, Pinned, Queue!Init, Queue!NoRequest
<1>2. Known /\ Pinned /\ [Next]_vars => Pinned'
  <2> SUFFICES ASSUME Known, Pinned, [Next]_vars PROVE Pinned'
    OBVIOUS
  <2> USE DEF Known, Pinned, Goto
  <2>1. ASSUME NEW p \in Pipelines, Propose(p) PROVE Pinned'
    BY <2>1 DEF Propose, queueVars, TypeOK
  <2>2. ASSUME NEW p \in Pipelines, Enqueue(p) PROVE Pinned'
    BY <2>2 DEF Enqueue, PinnedCommit, Queue!CreateRequest, TypeOK,
                Queue!TypeOK
  <2>3. ASSUME UNCHANGED <<head, proposed, shared>>,
               \A p \in Pipelines :
                  /\ reqs[p].status = "absent" => reqs'[p].status = "absent"
                  /\ \/ pipe'[p] = pipe[p]
                     \/ /\ pipe[p] \notin {"coding", "packaging"}
                        /\ pipe'[p] \notin {"coding", "packaging"}
        PROVE  Pinned'
    <3>1. \A p \in Pipelines : reqs[p].status # "absent"
                                 => reqs'[p].commit = reqs[p].commit
      <4> SUFFICES ASSUME NEW p \in Pipelines, reqs[p].status # "absent"
                   PROVE  reqs'[p].commit = reqs[p].commit
        OBVIOUS
      <4>1. CASE reqs'[p] = reqs[p]
        BY <4>1
      <4>2. CASE reqs[p].status # "absent" => reqs'[p].commit = reqs[p].commit
        BY <4>2
      <4>3. CASE reqs'[p] = [status |-> evidence[p][1].verdict,
                             commit |-> reqs[p].commit,
                             tree   |-> reqs[p].commit]
        BY <4>3
      <4> QED
        BY <4>1, <4>2, <4>3, RowMoves
    <3> QED
      BY <2>3, <3>1
  <2>4. ASSUME NEW S \in SUBSET Pipelines, reqs' = Queue!Expired(S),
               \A q \in S : Queue!StalePending(q), NEW p \in Pipelines,
               reqs[p].status = "absent"
        PROVE  reqs'[p].status = "absent"
    BY <2>4 DEF Queue!Expired, Queue!StalePending, Queue!Pending
  <2>5. ASSUME NEW p \in Pipelines, Coordinate(p), ~Enqueue(p) PROVE Pinned'
    <3>1. UNCHANGED <<head, proposed, shared>>
      BY <2>5 DEF Coordinate, Poll, GiveUp, Review, Close
    <3>2. \A q \in Pipelines :
             \/ pipe'[q] = pipe[q]
             \/ /\ pipe[q] \notin {"coding", "packaging"}
                /\ pipe'[q] \notin {"coding", "packaging"}
      BY <2>5 DEF Coordinate, Poll, GiveUp, Review, Close, TypeOK
    <3>3. \A q \in Pipelines : reqs[q].status = "absent"
                                 => reqs'[q].status = "absent"
      BY <2>4, <2>5 DEF Coordinate, Poll, GiveUp, Review, Close, queueVars,
                        Queue!GetStatus
    <3> QED
      BY <2>3, <3>1, <3>2, <3>3
  <2>6. ASSUME NEW p \in Pipelines, Runner(p) PROVE Pinned'
    <3>1. UNCHANGED <<head, proposed, shared>>
      BY <2>6 DEF Runner, RunnerClaims, RunnerWorks
    <3>2. \A q \in Pipelines :
             \/ pipe'[q] = pipe[q]
             \/ /\ pipe[q] \notin {"coding", "packaging"}
                /\ pipe'[q] \notin {"coding", "packaging"}
      BY <2>6 DEF Runner, RunnerClaims, RunnerWorks, TypeOK
    <3>3. \A q \in Pipelines : reqs[q].status = "absent"
                                 => reqs'[q].status = "absent"
      <4>1. CASE Queue!ClaimNextExpire(p)
        BY <2>4, <4>1 DEF Queue!ClaimNextExpire
      <4>2. CASE Queue!ClaimNextTake(p)
        BY <4>2 DEF Queue!ClaimNextTake, Queue!ClaimableRequests,
                    Queue!Pending, TypeOK, Queue!TypeOK
      <4>3. CASE Queue!CompleteCommit(p)
        <5>1. reqs[jobs[p].req].status = "running"
          BY <4>3 DEF Queue!CompleteCommit, QP!Held, TypeOK, Queue!TypeOK,
                      Queue!FreeJob, Queue!HeldJob
        <5> QED
          BY <4>3, <5>1 DEF Queue!CompleteCommit, Queue!CompletedRow, TypeOK,
                            Queue!TypeOK
      <4>4. CASE UNCHANGED reqs
        BY <4>4
      <4> QED
        BY <2>6, <4>1, <4>2, <4>3, <4>4
           DEF Runner, RunnerClaims, RunnerWorks, Queue!VerifyAndWrite,
               Queue!VerifyFails, Queue!CompleteRead
    <3> QED
      BY <2>3, <3>1, <3>2, <3>3
  <2>7. ASSUME NEW p \in Pipelines, RunnerDies(p) \/ TtlPasses(p)
        PROVE  Pinned'
    <3>1. UNCHANGED <<reqs, head, proposed, shared>>
      BY <2>7 DEF RunnerDies, TtlPasses, Queue!Crash, Queue!TtlPasses, pipeVars
    <3>2. \A q \in Pipelines :
             \/ pipe'[q] = pipe[q]
             \/ /\ pipe[q] \notin {"coding", "packaging"}
                /\ pipe'[q] \notin {"coding", "packaging"}
      BY <2>7 DEF RunnerDies, TtlPasses, pipeVars, TypeOK
    <3> QED
      BY <2>3, <3>1, <3>2
  <2>8. CASE UNCHANGED vars
    BY <2>8 DEF vars, queueVars, pipeVars
  <2> QED
    BY <2>1, <2>2, <2>5, <2>6, <2>7, <2>8 DEF Next
<1> QED
  BY <1>1, <1>2, KnownHolds, PTL DEF Spec

\* What a pipeline with its own workspace had verified is what its run
\* proposed.
THEOREM ProposalsAreVerified == Spec => []VerifiesProposal
<1>1. Known /\ Backed /\ Pinned => VerifiesProposal
  <2> SUFFICES ASSUME Known, Backed, Pinned, ~shared, NEW p \in Pipelines,
                      Verified(p)
               PROVE  reqs[p].tree = proposed[p]
    BY DEF VerifiesProposal
  <2>1. reqs[p].status = "passed" /\ reqs[p].tree = reqs[p].commit
    BY DEF Backed, Queue!Verdicts
  <2> QED
    BY <2>1 DEF Pinned, Verified
<1> QED
  BY <1>1, KnownHolds, BackedHolds, PinnedHolds, PTL
-----------------------------------------------------------------------------
(* Giving up.                                                              *)

\* A terminal request stays terminal: what a verifier holds is running, and
\* what expires or is claimed is pending.
LEMMA TerminalStays ==
    ASSUME Known, [Next]_vars, NEW p \in Pipelines,
           reqs[p].status \in Queue!Terminal
    PROVE  reqs'[p].status \in Queue!Terminal
<1> USE DEF Known
<1>1. reqs[p].status \notin {"absent", "pending", "running"}
  BY DEF Queue!Terminal
<1>2. ASSUME NEW S \in SUBSET Pipelines, reqs' = Queue!Expired(S)
      PROVE  reqs'[p].status \in Queue!Terminal
  BY <1>2 DEF Queue!Expired, Queue!Terminal, TypeOK, Queue!TypeOK,
              Queue!Request
<1>3. ASSUME NEW w \in Pipelines, Queue!ClaimNextTake(w)
      PROVE  reqs'[p] = reqs[p]
  BY <1>1, <1>3 DEF Queue!ClaimNextTake, Queue!ClaimableRequests,
                    Queue!Pending, TypeOK, Queue!TypeOK
<1>4. ASSUME NEW w \in Pipelines, Queue!CompleteCommit(w)
      PROVE  reqs'[p] = reqs[p]
  <2>1. jobs[w].req # None
    BY <1>4 DEF Queue!CompleteCommit, TypeOK, Queue!TypeOK, Queue!FreeJob,
                Queue!HeldJob
  <2>2. jobs[w].req # p
    BY <1>1, <2>1 DEF QP!Held
  <2> QED
    BY <1>4, <2>2 DEF Queue!CompleteCommit, Queue!CompletedRow, TypeOK,
                      Queue!TypeOK
<1>5. ASSUME NEW w \in Pipelines, Enqueue(w)
      PROVE  reqs'[p] = reqs[p]
  BY <1>1, <1>5 DEF Enqueue, Queue!CreateRequest, TypeOK, Queue!TypeOK
<1>6. CASE UNCHANGED reqs
  BY <1>6
<1>7. ASSUME NEW w \in Pipelines, Coordinate(w) \/ Runner(w)
      PROVE  reqs'[p].status \in Queue!Terminal
  <2>1. CASE Coordinate(w)
    BY <1>2, <1>5, <1>6, <2>1
       DEF Coordinate, Poll, GiveUp, Review, Close, queueVars, Queue!GetStatus
  <2>2. CASE RunnerClaims(w)
    BY <1>2, <1>3, <2>2 DEF RunnerClaims, Queue!ClaimNextExpire
  <2>3. CASE RunnerWorks(w)
    BY <1>4, <1>6, <2>3
       DEF RunnerWorks, Queue!VerifyAndWrite, Queue!VerifyFails,
           Queue!CompleteRead
  <2> QED
    BY <1>7, <2>1, <2>2, <2>3 DEF Runner
<1> QED
  BY <1>6, <1>7 DEF Next, Propose, RunnerDies, TtlPasses, vars, queueVars,
                    Queue!Crash, Queue!TtlPasses

\* A verifier holds what its coordinator knows it took, and a coordinator
\* whose own request was verified finds it terminal at the first poll.
Delivered(p) ==
    /\ pipe[p] \in {"coding", "packaging"} => jobs[p].req = None
    /\ pipe[p] \in {"coding", "packaging", "runner"} =>
         /\ waited[p] = 0
         /\ jobs[p].req = took[p]
    /\ took[p] = p /\ p \notin lost =>
         /\ pipe[p] = "poll" => /\ reqs[p].status \in Queue!Terminal
                                /\ waited[p] = 0
         /\ pipe[p] # "gave_up"

\* What others do leaves a coordinator's request delivered.
LEMMA OthersDeliver ==
    ASSUME Known, [Next]_vars, NEW p \in Pipelines, Delivered(p),
           pipe'[p] = pipe[p], waited'[p] = waited[p], took'[p] = took[p],
           jobs'[p].req = jobs[p].req, lost \subseteq lost'
    PROVE  Delivered(p)'
  BY TerminalStays DEF Delivered, Queue!Terminal

\* Delivered is inductive.
LEMMA DeliveredHolds == Spec => [](\A p \in Pipelines : Delivered(p))
<1>1. Init => \A p \in Pipelines : Delivered(p)
  BY DEF Init, Delivered, Queue!Init, Queue!Idle, PipelineAssumption
<1>2. Known /\ (\A p \in Pipelines : Delivered(p)) /\ [Next]_vars
        => (\A p \in Pipelines : Delivered(p))'
  <2> SUFFICES ASSUME Known, \A p \in Pipelines : Delivered(p), [Next]_vars,
                      NEW p \in Pipelines
               PROVE  Delivered(p)'
    OBVIOUS
  <2> USE DEF Known
  <2>1. ASSUME UNCHANGED <<pipe, waited, took, jobs, lost>>
        PROVE  Delivered(p)'
    BY <2>1, OthersDeliver
  <2>2. ASSUME NEW w \in Pipelines, Propose(w) \/ Enqueue(w)
        PROVE  Delivered(p)'
    <3>1. UNCHANGED <<waited, took, jobs, lost>>
      BY <2>2 DEF Propose, Enqueue, queueVars, Queue!CreateRequest
    <3>2. CASE w # p
      BY <2>2, <3>1, <3>2, OthersDeliver DEF Propose, Enqueue, Goto, TypeOK
    <3>3. CASE w = p
      BY <2>2, <3>1, <3>3
         DEF Propose, Enqueue, Goto, TypeOK, Delivered
    <3> QED
      BY <3>2, <3>3
  <2>3. ASSUME NEW w \in Pipelines, Poll(w)
        PROVE  Delivered(p)'
    <3>1. UNCHANGED <<took, jobs, lost>>
      BY <2>3 DEF Poll, queueVars, Queue!GetStatus
    <3>2. CASE w # p
      BY <2>3, <3>1, <3>2, OthersDeliver DEF Poll, Goto, TypeOK
    <3>3. CASE w = p /\ took[p] = p /\ p \notin lost
      <4>1. reqs[p].status \in Queue!Terminal
        BY <2>3, <3>3 DEF Poll, Delivered
      <4>2. StatusSeen(p) \in Reported
        BY <4>1 DEF StatusSeen, Reported, Queue!Terminal
      <4>3. pipe'[p] \in {"review", "closing", "refused"}
        BY <2>3, <3>3, <4>2 DEF Poll, Goto, TypeOK
      <4> QED
        BY <4>3 DEF Delivered
    <3>4. CASE w = p /\ ~(took[p] = p /\ p \notin lost)
      <4>1. pipe'[p] \in {"poll", "review", "closing", "refused"}
        BY <2>3, <3>4 DEF Poll, Goto, TypeOK
      <4> QED
        BY <3>1, <3>4, <4>1 DEF Delivered
    <3> QED
      BY <3>2, <3>3, <3>4
  <2>4. ASSUME NEW w \in Pipelines, GiveUp(w)
        PROVE  Delivered(p)'
    <3>1. UNCHANGED <<waited, took, jobs, lost>>
      BY <2>4 DEF GiveUp, queueVars
    <3>2. CASE w # p
      BY <2>4, <3>1, <3>2, OthersDeliver DEF GiveUp, Goto, TypeOK
    <3>3. CASE w = p
      BY <2>4, <3>1, <3>3 DEF GiveUp, Goto, TypeOK, Delivered, MaxWait
    <3> QED
      BY <3>2, <3>3
  <2>5. ASSUME NEW w \in Pipelines, NEW a \in BOOLEAN, NEW b \in BOOLEAN,
               Review(w, a, b) \/ Close(w, a)
        PROVE  Delivered(p)'
    <3>1. UNCHANGED <<waited, took, jobs, lost>>
      BY <2>5 DEF Review, Close, queueVars
    <3>2. CASE w # p
      BY <2>5, <3>1, <3>2, OthersDeliver DEF Review, Close, Goto, TypeOK
    <3>3. CASE w = p
      <4>1. pipe'[p] \in {"closing", "refused", "blocked", "packaged"}
        BY <2>5, <3>3 DEF Review, Close, Goto, TypeOK
      <4> QED
        BY <4>1 DEF Delivered
    <3> QED
      BY <3>2, <3>3
  <2>6. ASSUME NEW w \in Pipelines, RunnerClaims(w)
        PROVE  Delivered(p)'
    <3>1. UNCHANGED <<waited, lost>>
      BY <2>6 DEF RunnerClaims, Queue!ClaimNextExpire, Queue!ClaimNextTake
    <3>2. CASE w # p
      <4>1. /\ pipe'[p] = pipe[p] /\ took'[p] = took[p]
            /\ jobs'[p] = jobs[p]
        BY <2>6, <3>2 DEF RunnerClaims, Goto, TypeOK, Queue!TypeOK,
                          Queue!ClaimNextExpire, Queue!ClaimNextTake
      <4> QED
        BY <3>1, <4>1, OthersDeliver
    <3>3. CASE w = p /\ Queue!ClaimNextExpire(p)
      <4>1. jobs'[p].req = jobs[p].req
        BY <3>3 DEF Queue!ClaimNextExpire, TypeOK, Queue!TypeOK,
                    Queue!FreeJob, Queue!HeldJob
      <4>2. UNCHANGED <<pipe, took>>
        BY <2>6, <3>3, <4>1 DEF RunnerClaims, Queue!ClaimNextExpire,
                                Queue!ClaimNextTake, TypeOK, Queue!TypeOK
      <4> QED
        BY <3>1, <4>1, <4>2, OthersDeliver
    <3>4. CASE w = p /\ Queue!ClaimNextTake(p)
      <4>1. /\ pipe[p] = "runner" /\ waited[p] = 0
            /\ took'[p] = jobs'[p].req
            /\ IF Exited(p) THEN pipe'[p] = "poll" ELSE pipe'[p] = "runner"
        BY <2>6, <3>4 DEF RunnerClaims, Goto, TypeOK, Queue!TypeOK, Delivered,
                          Queue!ClaimNextExpire, Queue!ClaimNextTake
      <4>2. Exited(p) => jobs'[p].req # p
        BY PipelineAssumption DEF Exited, Queue!Idle
      <4> QED
        BY <3>1, <4>1, <4>2 DEF Delivered
    <3> QED
      BY <2>6, <3>2, <3>3, <3>4 DEF RunnerClaims
  <2>7. ASSUME NEW w \in Pipelines, RunnerWorks(w)
        PROVE  Delivered(p)'
    <3>1. UNCHANGED <<waited, took, lost>>
      BY <2>7 DEF RunnerWorks, Queue!VerifyAndWrite, Queue!VerifyFails,
                  Queue!CompleteRead, Queue!CompleteCommit
    <3>2. CASE w # p
      <4>1. jobs'[p] = jobs[p]
        BY <2>7, <3>2
           DEF RunnerWorks, Queue!VerifyAndWrite, Queue!VerifyFails,
               Queue!CompleteRead, Queue!CompleteCommit, TypeOK, Queue!TypeOK
      <4>2. pipe'[p] = pipe[p]
        BY <2>7, <3>2 DEF RunnerWorks, Goto, TypeOK
      <4> QED
        BY <3>1, <4>1, <4>2, OthersDeliver
    <3>3. CASE w = p
      <4>1. /\ pipe[p] = "runner" /\ waited[p] = 0 /\ jobs[p].req = took[p]
            /\ IF Exited(p) THEN pipe'[p] = "poll" ELSE pipe'[p] = "runner"
        BY <2>7, <3>3 DEF RunnerWorks, Goto, TypeOK, Delivered
      <4>2. jobs[p] \in Queue!FreeJob \cup Queue!HeldJob
        BY DEF TypeOK, Queue!TypeOK
      <4>3. CASE Queue!CompleteCommit(p)
        <5>1. PICK q \in Pipelines : q = jobs[p].req
          BY <4>2, <4>3 DEF Queue!CompleteCommit, Queue!FreeJob,
                            Queue!HeldJob
        <5>2. /\ reqs'[q].status = jobs[p].outcome
              /\ Exited(p)
          BY <4>3, <5>1 DEF Queue!CompleteCommit, Queue!CompletedRow, Exited,
                            TypeOK, Queue!TypeOK
        <5>3. jobs[p].outcome \in Queue!Terminal
          BY <4>2, <4>3 DEF Queue!CompleteCommit, Queue!FreeJob,
                            Queue!HeldJob, Queue!Outcomes, Queue!Verdicts,
                            Queue!Terminal
        <5> QED
          BY <3>1, <4>1, <5>1, <5>2, <5>3 DEF Delivered, Queue!Terminal
      <4>4. ASSUME jobs[p].req \in Pipelines, jobs'[p].req = jobs[p].req
            PROVE  Delivered(p)'
        <5>1. ~Exited(p)
          BY <4>4, PipelineAssumption DEF Exited, Queue!Idle
        <5> QED
          BY <3>1, <4>1, <4>4, <5>1 DEF Delivered
      <4>5. CASE Queue!CompleteRead(p)
        <5>1. /\ jobs[p].req \in Pipelines
              /\ jobs[p].req # None
          BY <4>2, <4>5, PipelineAssumption
             DEF Queue!CompleteRead, Queue!FreeJob, Queue!HeldJob
        <5>2. Queue!Completable(jobs[p].req)
          BY <5>1 DEF QP!Held, Queue!Completable, Queue!Terminal
        <5>3. jobs'[p].req = jobs[p].req
          BY <4>2, <4>5, <5>1, <5>2
             DEF Queue!CompleteRead, TypeOK, Queue!TypeOK, Queue!HeldJob,
                 Queue!FreeJob
        <5> QED
          BY <4>4, <5>1, <5>3
      <4>6. ASSUME NEW v \in Queue!Verdicts, NEW x \in BOOLEAN,
                   Queue!VerifyAndWrite(p, v, x) \/ Queue!VerifyFails(p)
            PROVE  Delivered(p)'
        <5>1. jobs[p].req \in Pipelines
          BY <4>2, <4>6 DEF Queue!VerifyAndWrite, Queue!VerifyFails,
                            Queue!FreeJob, Queue!HeldJob
        <5>2. jobs'[p].req = jobs[p].req
          BY <4>6 DEF Queue!VerifyAndWrite, Queue!VerifyFails, TypeOK,
                      Queue!TypeOK
        <5> QED
          BY <4>4, <5>1, <5>2
      <4>7. "passed" \in Queue!Verdicts
        BY DEF Queue!Verdicts
      <4> QED
        BY <2>7, <3>3, <4>3, <4>5, <4>6, <4>7 DEF RunnerWorks
    <3> QED
      BY <3>2, <3>3
  <2>8. ASSUME NEW w \in Pipelines, RunnerDies(w)
        PROVE  Delivered(p)'
    <3>1. UNCHANGED <<waited, took>> /\ lost' = lost \cup {jobs[w].req}
      BY <2>8 DEF RunnerDies, Queue!Crash
    <3>2. CASE w # p
      <4>1. jobs'[p] = jobs[p] /\ pipe'[p] = pipe[p]
        BY <2>8, <3>2 DEF RunnerDies, Queue!Crash, Goto, TypeOK, Queue!TypeOK
      <4> QED
        BY <3>1, <4>1, OthersDeliver
    <3>3. CASE w = p
      <4>1. jobs[p].req = took[p] /\ pipe'[p] \in {"poll", "refused"}
        BY <2>8, <3>3 DEF RunnerDies, Goto, TypeOK, Delivered
      <4> QED
        BY <3>1, <3>3, <4>1 DEF Delivered
    <3> QED
      BY <3>2, <3>3
  <2>9. ASSUME NEW w \in Pipelines, TtlPasses(w)
        PROVE  Delivered(p)'
    BY <2>1, <2>9 DEF TtlPasses, pipeVars, Queue!TtlPasses
  <2>10. CASE UNCHANGED vars
    BY <2>1, <2>10 DEF vars, queueVars, pipeVars
  <2> QED
    BY <2>2, <2>3, <2>4, <2>5, <2>6, <2>7, <2>8, <2>9, <2>10
       DEF Next, Coordinate, Runner
<1> QED
  BY <1>1, <1>2, KnownHolds, PTL DEF Spec

\* A coordinator gives up only when its verifier worked for another one, or
\* found nothing to do, or died.
THEOREM GivesUpOnlyOnOthers == Spec => []GivesUpOnOthers
<1>1. (\A p \in Pipelines : Delivered(p)) => GivesUpOnOthers
  BY DEF Delivered, GivesUpOnOthers
<1> QED
  BY <1>1, DeliveredHolds, PTL

-----------------------------------------------------------------------------
(* How long a pipeline waits, and for whom.                                *)

\* The polling loop adds milliseconds to what it compares with seconds, so
\* that a pipeline gives up after its second poll.
TwoPolls ==
    \A p \in Pipelines :
        /\ waited[p] \in {0, PollMs, 2 * PollMs}
        /\ pipe[p] = "gave_up" => waited[p] = 2 * PollMs

\* No pipeline polls a third time, and none gives up before its second poll,
\* although max_wait is meant as 920 seconds (_poll_verification_request).
THEOREM GivesUpAfterTwoPolls == Spec => []TwoPolls
<1>1. Init => TwoPolls
  BY DEF Init, TwoPolls
<1>2. TypeOK /\ TwoPolls /\ [Next]_vars => TwoPolls'
  <2> SUFFICES ASSUME TypeOK, TwoPolls, [Next]_vars, NEW p \in Pipelines
               PROVE  /\ waited'[p] \in {0, PollMs, 2 * PollMs}
                      /\ pipe'[p] = "gave_up" => waited'[p] = 2 * PollMs
    BY DEF TwoPolls, PollMs
  <2> USE DEF TypeOK, TwoPolls, Goto, PollMs, MaxWait
  <2>1. ASSUME waited'[p] = waited[p],
               pipe'[p] = pipe[p] \/ pipe'[p] # "gave_up"
        PROVE  /\ waited'[p] \in {0, PollMs, 2 * PollMs}
               /\ pipe'[p] = "gave_up" => waited'[p] = 2 * PollMs
    BY <2>1
  <2>2. ASSUME NEW w \in Pipelines, Poll(w)
        PROVE  /\ waited'[p] \in {0, PollMs, 2 * PollMs}
               /\ pipe'[p] = "gave_up" => waited'[p] = 2 * PollMs
    <3>1. CASE w = p
      BY <2>2, <3>1 DEF Poll
    <3>2. CASE w # p
      BY <2>1, <2>2, <3>2 DEF Poll
    <3> QED
      BY <3>1, <3>2
  <2>3. ASSUME NEW w \in Pipelines, GiveUp(w)
        PROVE  /\ waited'[p] \in {0, PollMs, 2 * PollMs}
               /\ pipe'[p] = "gave_up" => waited'[p] = 2 * PollMs
    BY <2>3 DEF GiveUp
  <2>4. ASSUME NEW w \in Pipelines,
               Propose(w) \/ Enqueue(w) \/ Runner(w) \/ RunnerDies(w)
                 \/ TtlPasses(w)
        PROVE  /\ waited'[p] = waited[p]
               /\ pipe'[p] = pipe[p] \/ pipe'[p] # "gave_up"
    BY <2>4 DEF Propose, Enqueue, Runner, RunnerClaims, RunnerWorks,
                RunnerDies, TtlPasses, pipeVars
  <2>5. ASSUME NEW w \in Pipelines, NEW a \in BOOLEAN, NEW b \in BOOLEAN,
               Review(w, a, b) \/ Close(w, a)
        PROVE  /\ waited'[p] = waited[p]
               /\ pipe'[p] = pipe[p] \/ pipe'[p] # "gave_up"
    BY <2>5 DEF Review, Close
  <2>6. CASE UNCHANGED vars
    BY <2>1, <2>6 DEF vars, pipeVars
  <2> HIDE DEF TypeOK, TwoPolls, Goto, PollMs, MaxWait
  <2> QED
    BY <2>1, <2>2, <2>3, <2>4, <2>5, <2>6 DEF Next, Coordinate
<1> QED
  BY <1>1, <1>2, TypeCorrect, PTL DEF Spec

\* A verifier process is there only while its coordinator waits for its exit.
RunnersAreAwaited ==
    \A w \in Pipelines : jobs[w].step # "idle" => pipe[w] = "runner"

\* RunnersAreAwaited is inductive.
LEMMA RunnersHold == Spec => []RunnersAreAwaited
<1>1. Init => RunnersAreAwaited
  BY DEF Init, RunnersAreAwaited, Queue!Init, Queue!Idle
<1>2. TypeOK /\ RunnersAreAwaited /\ [Next]_vars => RunnersAreAwaited'
  <2> SUFFICES ASSUME TypeOK, RunnersAreAwaited, [Next]_vars,
                      NEW p \in Pipelines, jobs'[p].step # "idle"
               PROVE  pipe'[p] = "runner"
    BY DEF RunnersAreAwaited
  <2> USE DEF TypeOK, Queue!TypeOK, RunnersAreAwaited, Goto
  <2>1. ASSUME jobs'[p] = jobs[p], pipe'[p] = pipe[p]
        PROVE  pipe'[p] = "runner"
    BY <2>1
  <2>2. ASSUME NEW w \in Pipelines, Propose(w) \/ Coordinate(w)
        PROVE  pipe'[p] = "runner"
    <3>1. UNCHANGED jobs
      BY <2>2 DEF Propose, Coordinate, Enqueue, Poll, GiveUp, Review, Close,
                  queueVars, Queue!CreateRequest, Queue!GetStatus
    <3>2. pipe[p] = "runner"
      BY <3>1
    <3> QED
      BY <2>2, <3>2 DEF Propose, Coordinate, Enqueue, Poll, GiveUp, Review,
                        Close
  <2>3. ASSUME NEW w \in Pipelines, Runner(w), w # p
        PROVE  pipe'[p] = "runner"
    <3>1. jobs'[p] = jobs[p]
      BY <2>3 DEF Runner, RunnerClaims, RunnerWorks, Queue!ClaimNextExpire,
                  Queue!ClaimNextTake, Queue!VerifyAndWrite,
                  Queue!VerifyFails, Queue!CompleteRead, Queue!CompleteCommit
    <3>2. pipe'[p] = pipe[p]
      BY <2>3 DEF Runner, RunnerClaims, RunnerWorks
    <3> QED
      BY <2>1, <3>1, <3>2
  <2>4. CASE Runner(p)
    BY <2>4 DEF Runner, RunnerClaims, RunnerWorks, Exited, Queue!Idle
  <2>5. ASSUME NEW w \in Pipelines, RunnerDies(w) PROVE pipe'[p] = "runner"
    BY <2>5 DEF RunnerDies, Queue!Crash, Queue!Idle
  <2>6. ASSUME NEW w \in Pipelines, TtlPasses(w) PROVE pipe'[p] = "runner"
    BY <2>1, <2>6 DEF TtlPasses, pipeVars, Queue!TtlPasses
  <2>7. CASE UNCHANGED vars
    BY <2>1, <2>7 DEF vars, queueVars, pipeVars
  <2> QED
    BY <2>2, <2>3, <2>4, <2>5, <2>6, <2>7 DEF Next
<1> QED
  BY <1>1, <1>2, TypeCorrect, PTL DEF Spec

\* A request that is running is worked on by a verifier that some coordinator
\* is waiting for, or its verifier died: with no crash, a poller that sees
\* "running" looks at the work of another pipeline in progress.
RunningIsAwaited ==
    \A q \in Pipelines : reqs[q].status = "running" =>
        \/ q \in lost
        \/ \E w \in Pipelines : jobs[w].req = q /\ pipe[w] = "runner"

\* No request is running that nobody will complete, unless its verifier died.
THEOREM RunningHasRunner == Spec => []RunningIsAwaited
<1>1. QP!QueueAssumption
  BY DEF QP!QueueAssumption
<1>2. QP!Spec => []QP!RunningIsHeld
  BY <1>1, QP!RunningAreHeld
<1>3. TypeOK /\ RunnersAreAwaited /\ QP!RunningIsHeld => RunningIsAwaited
  <2> SUFFICES ASSUME TypeOK, RunnersAreAwaited, QP!RunningIsHeld,
                      NEW q \in Pipelines, reqs[q].status = "running",
                      q \notin lost
               PROVE  \E w \in Pipelines : jobs[w].req = q /\ pipe[w] = "runner"
    BY DEF RunningIsAwaited
  <2>1. PICK w \in Pipelines : jobs[w].req = q
    BY DEF QP!RunningIsHeld
  <2>2. jobs[w].step # "idle"
    BY <2>1 DEF TypeOK, Queue!TypeOK, Queue!FreeJob, Queue!HeldJob
  <2> QED
    BY <2>1, <2>2 DEF RunnersAreAwaited
<1> QED
  BY <1>2, <1>3, TypeCorrect, RunnersHold, ImplementsQueue, SameSpec, PTL
=============================================================================
