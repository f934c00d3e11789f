----------------------- MODULE VerificationQueueProofs -----------------------
(***************************************************************************)
(* Proofs about VerificationQueue for any sets of requests and workers.    *)
(* Custody is the inductive invariant behind every theorem here: it says   *)
(* what a worker's step means for the request it holds, and that a request *)
(* with evidence is in nobody's hands unverified.  Where no poll is        *)
(* overtaken and nobody completes by hand, Held says more: only its worker *)
(* ends a request, so that the queue implements RequestLifecycle.          *)
(***************************************************************************)
EXTENDS VerificationQueue, TLAPS

USE QueueAssumption

Taken(q) == reqs[q].status \notin {"absent", "pending"}

Custody ==
    /\ \A w \in Workers :
         /\ jobs[w].req # None => Taken(jobs[w].req)
         /\ \A v \in Workers : jobs[w].req # None /\ jobs[v].req = jobs[w].req
                               => v = w
    /\ \A q \in Requests : evidence[q] # <<>> =>
         /\ Taken(q)
         /\ \A w \in Workers : jobs[w].step = "claimed" => jobs[w].req # q

-----------------------------------------------------------------------------
\* A completed row is a row, and the others are left alone.
LEMMA CompletedRowType ==
    ASSUME TypeOK, NEW q \in Requests, NEW o \in Outcomes
    PROVE  /\ CompletedRow(q, o) \in [Requests -> Request]
           /\ \A p \in Requests :
                CompletedRow(q, o)[p] =
                  IF p = q
                  THEN [status |-> o, commit |-> reqs[q].commit,
                        tree |-> IF o = "error" THEN None ELSE reqs[q].commit]
                  ELSE reqs[p]
    <1> DEFINE row == [status |-> o, commit |-> reqs[q].commit,
                       tree |-> IF o = "error" THEN None ELSE reqs[q].commit]
    <1>1. row \in Request
      BY DEF TypeOK, Request, Statuses, Terminal, Outcomes, Verdicts
    <1> HIDE DEF row
    <1>2. CompletedRow(q, o) = [reqs EXCEPT ![q] = row]
      BY DEF CompletedRow, TypeOK, row
    <1> QED
      BY <1>1, <1>2 DEF TypeOK, row

\* Rows, jobs and evidence keep their types.
THEOREM TypeCorrect == Spec => []TypeOK
<1>1. Init => TypeOK
  BY DEF Init, TypeOK, NoRequest, Idle, Request, FreeJob, Statuses
<1>2. TypeOK /\ [Next]_vars => TypeOK'
  <2> SUFFICES ASSUME TypeOK, [Next]_vars PROVE TypeOK'
    OBVIOUS
  <2> USE DEF TypeOK
  <2>a. \A S \in SUBSET Requests : Expired(S) \in [Requests -> Request]
    BY DEF Expired, Request, Statuses, Terminal
  <2>b. Idle \in FreeJob
    BY DEF Idle, FreeJob
  <2>1. ASSUME NEW q \in Requests, NEW c \in Commits, CreateRequest(q, c)
        PROVE  TypeOK'
    BY <2>1 DEF CreateRequest, Request, Statuses
  <2>2. ASSUME NEW q \in Requests, TtlPasses(q) PROVE TypeOK'
    BY <2>2 DEF TtlPasses
  <2>3. ASSUME NEW q \in Requests,
               GetStatus(q) \/ GetStatusRead(q) \/ GetStatusCommit(q)
        PROVE  TypeOK'
    BY <2>3, <2>a DEF GetStatus, GetStatusRead, GetStatusCommit
  <2>4. ASSUME NEW q \in Requests, NEW o \in Outcomes, CompleteManually(q, o)
        PROVE  TypeOK'
    BY <2>4, CompletedRowType DEF CompleteManually
  <2>5. ASSUME NEW w \in Workers, ClaimNextExpire(w) PROVE TypeOK'
    BY <2>5, <2>a DEF ClaimNextExpire, FreeJob, HeldJob
  <2>6. ASSUME NEW w \in Workers, ClaimNextTake(w) PROVE TypeOK'
    <3>1. CASE reqs' = reqs /\ jobs' = [jobs EXCEPT ![w] = Idle]
      BY <2>6, <3>1, <2>b DEF ClaimNextTake
    <3>2. ASSUME NEW i \in ClaimableRequests,
                 reqs' = [reqs EXCEPT ![order[i]].status = "running"],
                 jobs' = [jobs EXCEPT ![w] = [step |-> "claimed",
                                              req |-> order[i],
                                              outcome |-> "error"]]
          PROVE  TypeOK'
      <4>1. order[i] \in Requests
        BY DEF ClaimableRequests
      <4>2. [reqs[order[i]] EXCEPT !.status = "running"] \in Request
        BY <4>1 DEF Request, Statuses
      <4>3. [step |-> "claimed", req |-> order[i], outcome |-> "error"]
              \in HeldJob
        BY <4>1 DEF HeldJob, Outcomes
      <4> QED
        BY <2>6, <3>2, <4>1, <4>2, <4>3 DEF ClaimNextTake
    <3> QED
      BY <2>6, <3>1, <3>2 DEF ClaimNextTake
  <2>7. ASSUME NEW w \in Workers, NEW v \in Verdicts, NEW ok \in BOOLEAN,
               VerifyAndWrite(w, v, ok)
        PROVE  TypeOK'
    <3> DEFINE q == jobs[w].req
    <3>1. jobs[w] \in HeldJob
      BY <2>7 DEF VerifyAndWrite, FreeJob
    <3>2. jobs' \in [Workers -> FreeJob \cup HeldJob]
      BY <2>7, <3>1 DEF VerifyAndWrite, HeldJob, Outcomes
    <3>3. q \in Requests
      BY <3>1 DEF HeldJob
    <3>4. EvidenceRow(q, v) \in Row
      BY <3>3 DEF EvidenceRow, Row, Request
    <3>5. Append(evidence[q], EvidenceRow(q, v)) \in Seq(Row)
      BY <3>3, <3>4
    <3> QED
      BY <2>7, <3>2, <3>3, <3>5 DEF VerifyAndWrite
  <2>8. ASSUME NEW w \in Workers,
               VerifyFails(w) \/ CompleteRead(w) \/ Crash(w)
        PROVE  TypeOK'
    <3>1. jobs[w] \in HeldJob
      BY <2>8 DEF VerifyFails, CompleteRead, Crash, FreeJob
    <3>2. /\ [jobs[w] EXCEPT !.step = "completing"] \in HeldJob
          /\ [step |-> "verified", req |-> jobs[w].req, outcome |-> "error"]
               \in HeldJob
          /\ jobs[w].req \in Requests
      BY <3>1 DEF HeldJob, Outcomes
    <3>3. jobs' \in [Workers -> FreeJob \cup HeldJob]
      BY <2>8, <2>b, <3>2 DEF VerifyFails, CompleteRead, Crash
    <3> QED
      BY <2>8, <3>2, <3>3 DEF VerifyFails, CompleteRead, Crash
  <2>10. ASSUME NEW w \in Workers, CompleteCommit(w) PROVE TypeOK'
    <3>1. jobs[w] \in HeldJob
      BY <2>10 DEF CompleteCommit, FreeJob
    <3>2. jobs[w].req \in Requests /\ jobs[w].outcome \in Outcomes
      BY <3>1 DEF HeldJob
    <3> QED
      BY <2>10, <2>b, <3>2, CompletedRowType DEF CompleteCommit
  <2>9. CASE UNCHANGED vars
    BY <2>9 DEF vars
  <2> HIDE DEF TypeOK
  <2> QED
    BY <2>1, <2>2, <2>3, <2>4, <2>5, <2>6, <2>7, <2>8, <2>9, <2>10
       DEF Next, RequestStep, Invoke, Work
<1> QED
  BY <1>1, <1>2, PTL DEF Spec

-----------------------------------------------------------------------------
(* Custody is inductive.                                                   *)

\* No step returns a request to the queue.
LEMMA TakenStays ==
    ASSUME TypeOK, [Next]_vars, NEW p \in Requests, Taken(p)
    PROVE  Taken(p)'
    <1> USE DEF Taken
    <1>1. ASSUME NEW S \in SUBSET Requests, reqs' = Expired(S)
          PROVE  Taken(p)'
      BY <1>1 DEF Expired, TypeOK, Request
    <1>2. ASSUME NEW q \in Requests, NEW o \in Outcomes,
                 reqs' = CompletedRow(q, o)
          PROVE  Taken(p)'
      <2>1. reqs'[p] = IF p = q
                       THEN [status |-> o, commit |-> reqs[q].commit,
                             tree |-> IF o = "error" THEN None
                                      ELSE reqs[q].commit]
                       ELSE reqs[p]
        BY <1>2, CompletedRowType
      <2>2. reqs'[p].status \in {o, reqs[p].status}
        BY <2>1
      <2> QED
        BY <2>2 DEF Outcomes, Verdicts
    <1>3. ASSUME NEW q \in Requests, RequestStep(q) PROVE Taken(p)'
      <2>1. CASE \E c \in Commits : CreateRequest(q, c)
        BY <2>1 DEF CreateRequest, TypeOK
      <2>2. CASE GetStatus(q) \/ GetStatusCommit(q)
        BY <2>2, <1>1 DEF GetStatus, GetStatusCommit
      <2>3. CASE \E o \in Outcomes : CompleteManually(q, o)
        BY <2>3, <1>2 DEF CompleteManually
      <2> QED
        BY <1>3, <2>1, <2>2, <2>3
           DEF RequestStep, TtlPasses, GetStatusRead
    <1>4. ASSUME NEW w \in Workers, ClaimNextExpire(w) PROVE Taken(p)'
      BY <1>4, <1>1 DEF ClaimNextExpire
    <1>5. ASSUME NEW w \in Workers, ClaimNextTake(w) PROVE Taken(p)'
      <2>1. CASE reqs' = reqs
        BY <2>1
      <2>2. ASSUME NEW i \in ClaimableRequests,
                   reqs' = [reqs EXCEPT ![order[i]].status = "running"]
            PROVE  Taken(p)'
        BY <2>2 DEF TypeOK, Request
      <2> QED
        BY <1>5, <2>1, <2>2 DEF ClaimNextTake
    <1>6. ASSUME NEW w \in Workers, CompleteCommit(w) PROVE Taken(p)'
      <2>1. jobs[w].req \in Requests /\ jobs[w].outcome \in Outcomes
        BY <1>6 DEF CompleteCommit, TypeOK, FreeJob, HeldJob
      <2> QED
        BY <1>6, <2>1, <1>2 DEF CompleteCommit
    <1>7. CASE UNCHANGED reqs
      BY <1>7
    <1> QED
      BY <1>3, <1>4, <1>5, <1>6, <1>7
         DEF Next, vars, Invoke, Work, VerifyAndWrite, VerifyFails,
             CompleteRead, Crash

\* A step that writes no evidence and hands out no request keeps custody.
LEMMA ReleaseKeepsCustody ==
    ASSUME TypeOK, Custody, [Next]_vars, UNCHANGED evidence,
           \A w \in Workers :
              /\ jobs'[w].req \in {None, jobs[w].req}
              /\ jobs'[w].step = "claimed" => jobs'[w] = jobs[w]
    PROVE  Custody'
    BY TakenStays DEF Custody, TypeOK, FreeJob, HeldJob

\* Custody is inductive, whatever is overtaken or completed by hand.
THEOREM CustodyHolds == Spec => []Custody
<1>1. Init => Custody
  BY DEF Init, Custody, Idle
<1>2. TypeOK /\ Custody /\ [Next]_vars => Custody'
  <2> SUFFICES ASSUME TypeOK, Custody, [Next]_vars PROVE Custody'
    OBVIOUS
  <2>a. \A p \in Requests : Taken(p) => Taken(p)'
    BY TakenStays
  <2>b. \A u \in Workers : jobs[u].req \in Requests \cup {None}
    BY DEF TypeOK, FreeJob, HeldJob
  <2>1. ASSUME NEW q \in Requests, RequestStep(q) PROVE Custody'
    <3>1. UNCHANGED <<jobs, evidence>>
      BY <2>1 DEF RequestStep, CreateRequest, TtlPasses, GetStatus,
                  GetStatusRead, GetStatusCommit, CompleteManually
    <3> QED
      BY <3>1, ReleaseKeepsCustody
  <2>2. ASSUME NEW w \in Workers, ClaimNextExpire(w) PROVE Custody'
    <3>1. jobs[w] \in FreeJob
      BY <2>2 DEF ClaimNextExpire, TypeOK, HeldJob
    <3> QED
      BY <2>2, <3>1, ReleaseKeepsCustody DEF ClaimNextExpire, TypeOK, FreeJob
  <2>3. ASSUME NEW w \in Workers, ClaimNextTake(w) PROVE Custody'
    <3>1. CASE jobs' = [jobs EXCEPT ![w] = Idle]
      BY <2>3, <3>1, ReleaseKeepsCustody DEF ClaimNextTake, TypeOK, Idle
    <3>2. ASSUME NEW q \in Requests, Pending(q),
                 reqs' = [reqs EXCEPT ![q].status = "running"],
                 jobs' = [jobs EXCEPT ![w] = [step |-> "claimed", req |-> q,
                                              outcome |-> "error"]]
          PROVE  Custody'
      <4>1. ~Taken(q)
        BY <3>2 DEF Pending, Taken
      <4>2. evidence[q] = <<>> /\ \A v \in Workers : jobs[v].req # q
        BY <4>1 DEF Custody
      <4>3. Taken(q)'
        BY <3>2 DEF Taken, TypeOK, Request
      <4>4. /\ jobs'[w].req = q
            /\ \A v \in Workers \ {w} : jobs'[v] = jobs[v]
            /\ evidence' = evidence
        BY <2>3, <3>2 DEF ClaimNextTake, TypeOK
      <4>5. ASSUME NEW u \in Workers, jobs'[u].req # None
            PROVE  /\ Taken(jobs[u].req)'
                   /\ \A v \in Workers : jobs'[v].req = jobs'[u].req => v = u
        <5>1. CASE u = w
          BY <5>1, <4>2, <4>3, <4>4
        <5>2. CASE u # w
          <6>1. jobs'[u] = jobs[u] /\ jobs[u].req # q
            BY <5>2, <4>2, <4>4
          <6>2. Taken(jobs[u].req) /\ jobs[u].req \in Requests
            BY <4>5, <6>1, <2>b DEF Custody
          <6>3. Taken(jobs[u].req)'
            BY <6>1, <6>2, <2>a DEF Taken
          <6> QED
            BY <4>5, <6>1, <6>3, <4>4 DEF Custody
        <5> QED
          BY <5>1, <5>2
      <4>6. ASSUME NEW p \in Requests, evidence'[p] # <<>>
            PROVE  /\ Taken(p)'
                   /\ \A u \in Workers : jobs'[u].step = "claimed"
                                            => jobs'[u].req # p
        BY <4>2, <4>4, <4>6, <2>a DEF Custody
      <4> QED
        BY <4>5, <4>6 DEF Custody
    <3>3. \A i \in ClaimableRequests :
             order[i] \in Requests /\ Pending(order[i])
      BY DEF ClaimableRequests, TypeOK
    <3> QED
      BY <2>3, <3>1, <3>2, <3>3 DEF ClaimNextTake
  <2>4. ASSUME NEW w \in Workers, NEW v \in Verdicts, NEW ok \in BOOLEAN,
               VerifyAndWrite(w, v, ok)
        PROVE  Custody'
    <3>1. PICK q \in Requests : q = jobs[w].req
      BY <2>4 DEF VerifyAndWrite, TypeOK, FreeJob, HeldJob
    <3>2. Taken(q) /\ \A u \in Workers \ {w} : jobs[u].req # q
      BY <3>1 DEF Custody
    <3>3. /\ jobs'[w].req = q /\ jobs'[w].step = "verified"
          /\ \A u \in Workers \ {w} : jobs'[u] = jobs[u]
          /\ \A p \in Requests \ {q} : evidence'[p] = evidence[p]
      BY <2>4, <3>1 DEF VerifyAndWrite, TypeOK
    <3>4. Taken(q)'
      BY <3>2, TakenStays
    <3>5. ASSUME NEW u \in Workers, jobs'[u].req # None
          PROVE  /\ Taken(jobs[u].req)'
                 /\ \A t \in Workers : jobs'[t].req = jobs'[u].req => t = u
      <4>1. jobs'[u].req = jobs[u].req
        BY <3>1, <3>3
      <4>2. Taken(jobs[u].req)'
        BY <3>5, <4>1, <2>a, <2>b DEF Custody, Taken
      <4> QED
        BY <3>1, <3>3, <3>5, <4>1, <4>2 DEF Custody
    <3>6. ASSUME NEW p \in Requests, evidence'[p] # <<>>
          PROVE  /\ Taken(p)'
                 /\ \A u \in Workers : jobs'[u].step = "claimed"
                                          => jobs'[u].req # p
      BY <3>2, <3>3, <3>4, <3>6, <2>a DEF Custody
    <3> QED
      BY <3>5, <3>6 DEF Custody
  <2>5. ASSUME NEW w \in Workers,
               VerifyFails(w) \/ CompleteRead(w) \/ CompleteCommit(w)
                 \/ Crash(w)
        PROVE  Custody'
    <3>1. jobs[w] \in HeldJob
      BY <2>5 DEF VerifyFails, CompleteRead, CompleteCommit, Crash, TypeOK,
                  FreeJob
    <3>2. /\ jobs'[w].req \in {None, jobs[w].req}
          /\ jobs'[w].step # "claimed"
      BY <2>5, <3>1
         DEF VerifyFails, CompleteRead, CompleteCommit, Crash, TypeOK, HeldJob,
             Idle
    <3>3. \A u \in Workers \ {w} : jobs'[u] = jobs[u]
      BY <2>5 DEF VerifyFails, CompleteRead, CompleteCommit, Crash, TypeOK
    <3>4. UNCHANGED evidence
      BY <2>5 DEF VerifyFails, CompleteRead, CompleteCommit, Crash
    <3> QED
      BY <3>2, <3>3, <3>4, ReleaseKeepsCustody
  <2>6. CASE UNCHANGED vars
    BY <2>6, ReleaseKeepsCustody DEF vars
  <2> QED
    BY <2>1, <2>2, <2>3, <2>4, <2>5, <2>6 DEF Next, Invoke, Work
<1> QED
  BY <1>1, <1>2, TypeCorrect, PTL DEF Spec

-----------------------------------------------------------------------------
\* Two workers never hold the same request, whatever they and the pollers
\* overtake, and a held request is not pending.
THEOREM JobsAreExclusive == Spec => []ExclusiveJobs
<1>1. Custody => ExclusiveJobs
  BY DEF Custody, ExclusiveJobs, Taken, Pending
<1> QED
  BY <1>1, CustodyHolds, PTL

\* No request ever gets a second evidence row.
THEOREM VerifiedOnce == Spec => []VerifiedAtMostOnce
<1>1. Init => VerifiedAtMostOnce
  BY DEF Init, VerifiedAtMostOnce
<1>2. TypeOK /\ Custody /\ VerifiedAtMostOnce /\ [Next]_vars
        => VerifiedAtMostOnce'
  <2> SUFFICES ASSUME TypeOK, Custody, VerifiedAtMostOnce, [Next]_vars
               PROVE  VerifiedAtMostOnce'
    OBVIOUS
  <2>1. ASSUME NEW w \in Workers, NEW v \in Verdicts, NEW ok \in BOOLEAN,
               VerifyAndWrite(w, v, ok)
        PROVE  VerifiedAtMostOnce'
    <3> DEFINE q == jobs[w].req
    <3>1. q \in Requests /\ jobs[w].step = "claimed"
      BY <2>1 DEF VerifyAndWrite, TypeOK, FreeJob, HeldJob
    <3>2. evidence[q] = <<>>
      BY <3>1 DEF Custody
    <3>3. evidence' = [evidence EXCEPT ![q] = <<EvidenceRow(q, v)>>]
      BY <2>1, <3>1, <3>2 DEF VerifyAndWrite, TypeOK
    <3> QED
      BY <3>1, <3>3 DEF VerifiedAtMostOnce, TypeOK
  <2>2. CASE UNCHANGED evidence
    BY <2>2 DEF VerifiedAtMostOnce
  <2> QED
    BY <2>1, <2>2
       DEF Next, vars, RequestStep, CreateRequest, TtlPasses, GetStatus,
           GetStatusRead, GetStatusCommit, CompleteManually, Invoke,
           ClaimNextExpire, ClaimNextTake, Work, VerifyFails, CompleteRead,
           CompleteCommit, Crash
<1> QED
  BY <1>1, <1>2, TypeCorrect, CustodyHolds, PTL DEF Spec

-----------------------------------------------------------------------------
\* A worker lets go of a request only when that has ended, or by dying on it,
\* and an expiry or a completion by hand ends it.
THEOREM RunningAreHeld == Spec => []RunningIsHeld
<1>1. Init => RunningIsHeld
  BY DEF Init, RunningIsHeld, NoRequest
<1>2. TypeOK /\ RunningIsHeld /\ [Next]_vars => RunningIsHeld'
  <2> SUFFICES ASSUME TypeOK, RunningIsHeld, [Next]_vars PROVE RunningIsHeld'
    OBVIOUS
  <2> USE DEF RunningIsHeld
  <2>0. /\ reqs \in [Requests -> Request] /\ order \in Seq(Requests)
        /\ jobs \in [Workers -> FreeJob \cup HeldJob]
        /\ \A w \in Workers :
             /\ jobs[w] \in FreeJob => /\ jobs[w].req = None
                                      /\ jobs[w].step \in {"idle", "claiming"}
             /\ jobs[w] \in HeldJob =>
                  /\ jobs[w].req \in Requests /\ jobs[w].outcome \in Outcomes
                  /\ jobs[w].step \notin {"idle", "claiming"}
    BY DEF TypeOK, FreeJob, HeldJob
  <2>h. None \notin Requests /\ Idle.req = None
    BY DEF Idle
  <2>1. ASSUME UNCHANGED lost,
               \A q \in Requests : reqs'[q].status = "running" =>
                                      reqs[q].status = "running",
               \A w \in Workers : jobs'[w].req = jobs[w].req
        PROVE  RunningIsHeld'
    BY <2>1
  <2>2. \A S \in SUBSET Requests : \A q \in Requests :
           Expired(S)[q].status \in {"expired", reqs[q].status}
    BY <2>0 DEF Expired, Request
  <2>c. ASSUME NEW q \in Requests, NEW o \in Outcomes,
               reqs' = CompletedRow(q, o)
        PROVE  /\ reqs'[q].status = o /\ o # "running"
               /\ \A p \in Requests : p # q => reqs'[p] = reqs[p]
    <3>1. \A p \in Requests :
             CompletedRow(q, o)[p] =
               IF p = q
               THEN [status |-> o, commit |-> reqs[q].commit,
                     tree |-> IF o = "error" THEN None ELSE reqs[q].commit]
               ELSE reqs[p]
      BY CompletedRowType
    <3>2. reqs'[q] = [status |-> o, commit |-> reqs[q].commit,
                      tree |-> IF o = "error" THEN None ELSE reqs[q].commit]
      BY <2>c, <3>1
    <3> QED
      BY <2>c, <3>1, <3>2 DEF Outcomes, Verdicts
  <2>3. ASSUME NEW q \in Requests, RequestStep(q) PROVE RunningIsHeld'
    <3>1. ASSUME NEW o \in Outcomes, CompleteManually(q, o)
          PROVE  RunningIsHeld'
      <4>1. /\ reqs' = CompletedRow(q, o) /\ UNCHANGED <<jobs, lost>>
        BY <3>1 DEF CompleteManually
      <4>2. /\ reqs'[q].status # "running"
            /\ \A p \in Requests : p # q => reqs'[p] = reqs[p]
        BY <2>c, <4>1
      <4> QED
        BY <2>1, <4>1, <4>2
    <3>2. ASSUME NEW c \in Commits, CreateRequest(q, c) PROVE RunningIsHeld'
      BY <2>0, <2>1, <3>2 DEF CreateRequest, Request
    <3>3. CASE GetStatus(q) \/ GetStatusCommit(q)
      <4>1. UNCHANGED <<lost, jobs>> /\ reqs' = Expired({q})
        BY <3>3 DEF GetStatus, GetStatusCommit
      <4> QED
        BY <2>1, <2>2, <4>1
    <3>4. CASE TtlPasses(q) \/ GetStatusRead(q)
      BY <2>1, <3>4 DEF TtlPasses, GetStatusRead
    <3> QED
      BY <2>3, <3>1, <3>2, <3>3, <3>4 DEF RequestStep
  <2>4. ASSUME NEW w \in Workers, ClaimNextExpire(w) PROVE RunningIsHeld'
    <3>1. \A v \in Workers : jobs'[v].req = jobs[v].req
      BY <2>0, <2>4 DEF ClaimNextExpire, FreeJob, HeldJob
    <3>2. \A q \in Requests : reqs'[q].status \in {"expired", reqs[q].status}
      BY <2>2, <2>4 DEF ClaimNextExpire
    <3> QED
      BY <2>1, <2>4, <3>1, <3>2 DEF ClaimNextExpire
  <2>5. ASSUME NEW w \in Workers, ClaimNextTake(w) PROVE RunningIsHeld'
    <3>1. jobs[w].req \notin Requests
      BY <2>0, <2>5, <2>h DEF ClaimNextTake
    <3>2. CASE reqs' = reqs /\ jobs' = [jobs EXCEPT ![w] = Idle]
      BY <2>0, <2>5, <2>h, <3>1, <3>2 DEF ClaimNextTake
    <3>3. ASSUME NEW i \in ClaimableRequests,
                 reqs' = [reqs EXCEPT ![order[i]].status = "running"],
                 jobs' = [jobs EXCEPT ![w] = [step |-> "claimed",
                                              req |-> order[i],
                                              outcome |-> "error"]]
          PROVE  RunningIsHeld'
      <4>1. /\ jobs'[w].req = order[i]
            /\ \A v \in Workers \ {w} : jobs'[v] = jobs[v]
            /\ \A q \in Requests : q # order[i] => reqs'[q] = reqs[q]
        BY <2>0, <3>3
      <4>2. UNCHANGED lost
        BY <2>5 DEF ClaimNextTake
      <4> QED
        BY <3>1, <4>1, <4>2
    <3> QED
      BY <2>5, <3>2, <3>3 DEF ClaimNextTake
  <2>6. ASSUME NEW w \in Workers, Work(w) PROVE RunningIsHeld'
    <3>1. CASE \/ \E v \in Verdicts, ok \in BOOLEAN : VerifyAndWrite(w, v, ok)
               \/ VerifyFails(w)
      <4>1. \A v \in Workers : jobs'[v].req = jobs[v].req
        BY <2>0, <3>1 DEF VerifyAndWrite, VerifyFails
      <4>2. UNCHANGED <<reqs, lost>>
        BY <3>1 DEF VerifyAndWrite, VerifyFails
      <4> QED
        BY <2>1, <4>1, <4>2
    <3>2. ASSUME CompleteRead(w) \/ CompleteCommit(w)
          PROVE  /\ \A v \in Workers \ {w} : jobs'[v] = jobs[v]
                 /\ jobs[w] \in HeldJob /\ UNCHANGED lost
      BY <2>0, <3>2 DEF CompleteRead, CompleteCommit
    <3>3. CASE CompleteRead(w)
      <4>1. CASE Completable(jobs[w].req)
        <5>1. \A v \in Workers : jobs'[v].req = jobs[v].req
          BY <2>0, <3>2, <3>3, <4>1 DEF CompleteRead, HeldJob
        <5> QED
          BY <2>1, <3>3, <5>1 DEF CompleteRead
      <4>2. CASE ~Completable(jobs[w].req)
        <5>1. reqs[jobs[w].req].status # "running"
          BY <4>2 DEF Completable, Terminal, Outcomes, Verdicts
        <5>2. UNCHANGED reqs
          BY <3>3 DEF CompleteRead
        <5> QED
          BY <3>2, <3>3, <5>1, <5>2
      <4> QED
        BY <4>1, <4>2
    <3>4. CASE CompleteCommit(w)
      <4>1. jobs[w].req \in Requests /\ jobs[w].outcome \in Outcomes
        BY <2>0, <3>2, <3>4
      <4>2. /\ reqs'[jobs[w].req].status # "running"
            /\ \A q \in Requests : q # jobs[w].req => reqs'[q] = reqs[q]
        <5>1. reqs' = CompletedRow(jobs[w].req, jobs[w].outcome)
          BY <3>4 DEF CompleteCommit
        <5> QED
          BY <2>c, <4>1, <5>1
      <4> QED
        <5>1. \A q \in Requests :
                 reqs'[q].status = "running" =>
                    q # jobs[w].req /\ reqs[q].status = "running"
          BY <4>2
        <5>2. ASSUME NEW q \in Requests, NEW v \in Workers,
                     q # jobs[w].req, jobs[v].req = q
              PROVE  jobs'[v].req = q
          BY <3>2, <3>4, <5>2
        <5> QED
          BY <3>2, <3>4, <5>1, <5>2
    <3> QED
      BY <2>6, <3>1, <3>3, <3>4 DEF Work
  <2>7. ASSUME NEW w \in Workers, Crash(w) PROVE RunningIsHeld'
    <3>1. /\ lost' = lost \cup {jobs[w].req} /\ reqs' = reqs
          /\ \A v \in Workers \ {w} : jobs'[v] = jobs[v]
      BY <2>0, <2>7 DEF Crash
    <3>2. jobs[w].req \in Requests
      BY <2>0, <2>7 DEF Crash
    <3> QED
      BY <3>1, <3>2
  <2>8. CASE UNCHANGED vars
    BY <2>1, <2>8 DEF vars
  <2> QED
    BY <2>3, <2>4, <2>5, <2>6, <2>7, <2>8 DEF Next, Invoke
<1> QED
  BY <1>1, <1>2, TypeCorrect, PTL DEF Spec

-----------------------------------------------------------------------------
(* The refinement of RequestLifecycle.                                     *)

\* A held request is running, and what its worker will say is its evidence.
Held ==
    /\ reading = {}
    /\ \A w \in Workers : jobs[w].req # None =>
         /\ reqs[jobs[w].req].status = "running"
         /\ jobs[w].step # "claimed" /\ jobs[w].outcome # "error" =>
              /\ evidence[jobs[w].req] # <<>>
              /\ evidence[jobs[w].req][1].verdict = jobs[w].outcome

\* Held is inductive where polls are not overtaken and nobody interferes.
LEMMA HeldHolds ==
    ASSUME ~SlowPoll, ~Manual
    PROVE  Spec => []Held
<1>1. Init => Held
  BY DEF Init, Held, Idle
<1>2. TypeOK /\ Custody /\ Held /\ [Next]_vars => Held'
  <2> SUFFICES ASSUME TypeOK, Custody, Held, [Next]_vars PROVE Held'
    OBVIOUS
  <2>a. \A u \in Workers : jobs[u].req \in Requests \cup {None}
    BY DEF TypeOK, FreeJob, HeldJob
  <2>b. ASSUME UNCHANGED <<reading, jobs, evidence>>,
               \A q \in Requests : reqs[q].status = "running"
                                      => reqs'[q].status = "running"
        PROVE  Held'
    BY <2>a, <2>b DEF Held
  <2>c. ASSUME NEW S \in SUBSET Requests, reqs' = Expired(S),
               \A q \in S : StalePending(q), NEW q \in Requests,
               reqs[q].status = "running"
        PROVE  reqs'[q].status = "running"
    BY <2>c DEF Expired, StalePending, Pending
  <2>1. ASSUME NEW q \in Requests, RequestStep(q) PROVE Held'
    <3>1. CASE \E c \in Commits : CreateRequest(q, c)
      BY <3>1, <2>b DEF CreateRequest, TypeOK
    <3>2. CASE TtlPasses(q)
      BY <3>2, <2>b DEF TtlPasses
    <3>3. CASE GetStatus(q)
      BY <3>3, <2>b, <2>c DEF GetStatus
    <3> QED
      BY <2>1, <3>1, <3>2, <3>3
         DEF RequestStep, GetStatusRead, GetStatusCommit, CompleteManually, Held
  <2>2. ASSUME NEW w \in Workers, ClaimNextExpire(w) PROVE Held'
    <3>1. jobs[w] \in FreeJob
      BY <2>2 DEF ClaimNextExpire, TypeOK, HeldJob
    <3>2. \A u \in Workers :
             /\ jobs'[u].req = jobs[u].req
             /\ jobs[u].req # None => jobs'[u] = jobs[u]
      BY <2>2, <3>1 DEF ClaimNextExpire, TypeOK, FreeJob
    <3>3. \A q \in Requests : reqs[q].status = "running"
                                 => reqs'[q].status = "running"
      BY <2>2, <2>c DEF ClaimNextExpire
    <3> QED
      BY <2>2, <2>a, <3>2, <3>3 DEF ClaimNextExpire, Held
  <2>3. ASSUME NEW w \in Workers, ClaimNextTake(w) PROVE Held'
    <3>1. CASE reqs' = reqs /\ jobs' = [jobs EXCEPT ![w] = Idle]
      BY <2>3, <3>1 DEF ClaimNextTake, Held, Idle, TypeOK
    <3>2. ASSUME NEW i \in ClaimableRequests,
                 reqs' = [reqs EXCEPT ![order[i]].status = "running"],
                 jobs' = [jobs EXCEPT ![w] = [step |-> "claimed",
                                              req |-> order[i],
                                              outcome |-> "error"]]
          PROVE  Held'
      <4>1. order[i] \in Requests
        BY DEF ClaimableRequests, TypeOK
      <4>2. /\ reqs'[order[i]].status = "running"
            /\ \A q \in Requests \ {order[i]} : reqs'[q] = reqs[q]
        BY <3>2, <4>1 DEF TypeOK, Request
      <4>3. /\ jobs'[w].req = order[i] /\ jobs'[w].step = "claimed"
            /\ \A u \in Workers \ {w} : jobs'[u] = jobs[u]
        BY <3>2 DEF TypeOK
      <4> QED
        BY <2>3, <2>a, <4>1, <4>2, <4>3 DEF ClaimNextTake, Held
    <3> QED
      BY <2>3, <3>1, <3>2 DEF ClaimNextTake
  <2>4. ASSUME NEW w \in Workers, NEW v \in Verdicts, NEW ok \in BOOLEAN,
               VerifyAndWrite(w, v, ok)
        PROVE  Held'
    <3>1. PICK q \in Requests : q = jobs[w].req
      BY <2>4 DEF VerifyAndWrite, TypeOK, FreeJob, HeldJob
    <3>2. evidence[q] = <<>> /\ \A u \in Workers \ {w} : jobs[u].req # q
      BY <2>4, <3>1 DEF Custody, VerifyAndWrite
    <3>3. /\ evidence'[q] = <<EvidenceRow(q, v)>>
          /\ \A p \in Requests \ {q} : evidence'[p] = evidence[p]
      BY <2>4, <3>1, <3>2 DEF VerifyAndWrite, TypeOK
    <3>4. evidence'[q] # <<>> /\ evidence'[q][1].verdict = v
      BY <3>3 DEF EvidenceRow
    <3>5. /\ jobs'[w].req = q /\ jobs'[w].outcome \in {v, "error"}
          /\ \A u \in Workers \ {w} : jobs'[u] = jobs[u]
      BY <2>4, <3>1 DEF VerifyAndWrite, TypeOK
    <3>6. reqs' = reqs /\ reading' = reading
      BY <2>4 DEF VerifyAndWrite
    <3> QED
      BY <2>a, <3>1, <3>2, <3>3, <3>4, <3>5, <3>6 DEF Held
  <2>5. ASSUME NEW w \in Workers,
               VerifyFails(w) \/ CompleteRead(w) \/ Crash(w)
        PROVE  Held'
    <3>1. jobs[w] \in HeldJob
      BY <2>5 DEF VerifyFails, CompleteRead, Crash, TypeOK, FreeJob
    <3>2. \/ jobs'[w].req = None
          \/ /\ jobs'[w].req = jobs[w].req
             /\ \/ jobs'[w].outcome = "error"
                \/ /\ jobs[w].step # "claimed"
                   /\ jobs'[w].outcome = jobs[w].outcome
      BY <2>5, <3>1
         DEF VerifyFails, CompleteRead, Crash, TypeOK, HeldJob, Idle
    <3>3. \A u \in Workers \ {w} : jobs'[u] = jobs[u]
      BY <2>5 DEF VerifyFails, CompleteRead, Crash, TypeOK
    <3>4. UNCHANGED <<reqs, reading, evidence>>
      BY <2>5 DEF VerifyFails, CompleteRead, Crash
    <3> QED
      BY <2>a, <3>2, <3>3, <3>4 DEF Held
  <2>6. ASSUME NEW w \in Workers, CompleteCommit(w) PROVE Held'
    <3>1. jobs[w] \in HeldJob
      BY <2>6 DEF CompleteCommit, TypeOK, FreeJob
    <3>2. PICK q \in Requests, o \in Outcomes :
             q = jobs[w].req /\ o = jobs[w].outcome
      BY <3>1 DEF HeldJob
    <3>3. \A p \in Requests : p # q => reqs'[p] = reqs[p]
      <4>1. reqs' = CompletedRow(q, o)
        BY <2>6, <3>2 DEF CompleteCommit
      <4> TAKE p \in Requests
      <4>2. q \in Requests /\ o \in Outcomes
        BY <3>2
      <4>3. CompletedRow(q, o)[p] =
              IF p = q
              THEN [status |-> o, commit |-> reqs[q].commit,
                    tree |-> IF o = "error" THEN None ELSE reqs[q].commit]
              ELSE reqs[p]
        BY <4>2, CompletedRowType
      <4> QED
        BY <4>1, <4>3
    <3>4. \A u \in Workers \ {w} : jobs'[u] = jobs[u] /\ jobs[u].req # q
      BY <2>6, <3>2 DEF CompleteCommit, TypeOK, Custody
    <3>5. jobs'[w].req = None
      BY <2>6 DEF CompleteCommit, TypeOK, Idle
    <3>6. UNCHANGED <<reading, evidence>>
      BY <2>6 DEF CompleteCommit
    <3> QED
      BY <2>a, <3>3, <3>4, <3>5, <3>6 DEF Held
  <2>7. CASE UNCHANGED vars
    BY <2>7 DEF vars, Held
  <2> QED
    BY <2>1, <2>2, <2>3, <2>4, <2>5, <2>6, <2>7 DEF Next, Invoke, Work
<1> QED
  BY <1>1, <1>2, TypeCorrect, CustodyHolds, PTL DEF Spec

\* What a step may do to a row: nothing, move it short of a verdict, or give
\* it the verdict of its evidence.
LEMMA RowStep ==
    ASSUME ~SlowPoll, ~Manual, TypeOK, Custody, Held, [Next]_vars,
           NEW p \in Requests
    PROVE  \/ reqs'[p] = reqs[p]
           \/ /\ reqs[p].status \notin Verdicts
              /\ reqs'[p].status \notin Verdicts
              /\ reqs'[p].status # "absent"
              /\ reqs[p].status # "absent" => reqs'[p].commit = reqs[p].commit
           \/ /\ evidence[p] # <<>>
              /\ reqs[p].status = "running"
              /\ reqs'[p] = [status |-> evidence[p][1].verdict,
                             commit |-> reqs[p].commit,
                             tree   |-> reqs[p].commit]
<1> DEFINE Moved ==
             \/ reqs'[p] = reqs[p]
             \/ /\ reqs[p].status \notin Verdicts
                /\ reqs'[p].status \notin Verdicts
                /\ reqs'[p].status # "absent"
                /\ reqs[p].status # "absent" => reqs'[p].commit = reqs[p].commit
<1>1. ASSUME NEW S \in SUBSET Requests, reqs' = Expired(S),
             \A q \in S : StalePending(q)
      PROVE  Moved
  BY <1>1 DEF Expired, StalePending, Pending, TypeOK, Request, Verdicts
<1>2. ASSUME NEW q \in Requests, RequestStep(q) PROVE Moved
  <2>1. CASE \E c \in Commits : CreateRequest(q, c)
    BY <2>1 DEF CreateRequest, TypeOK, Verdicts
  <2>2. CASE GetStatus(q)
    BY <2>2, <1>1 DEF GetStatus
  <2> QED
    BY <1>2, <2>1, <2>2
       DEF RequestStep, TtlPasses, GetStatusRead, GetStatusCommit,
           CompleteManually, Held
<1>3. ASSUME NEW w \in Workers, ClaimNextExpire(w) PROVE Moved
  BY <1>3, <1>1 DEF ClaimNextExpire
<1>4. ASSUME NEW w \in Workers, ClaimNextTake(w) PROVE Moved
  <2>1. CASE reqs' = reqs
    BY <2>1
  <2>2. ASSUME NEW i \in ClaimableRequests,
               reqs' = [reqs EXCEPT ![order[i]].status = "running"]
        PROVE  Moved
    BY <2>2 DEF ClaimableRequests, Pending, TypeOK, Request, Verdicts
  <2> QED
    BY <1>4, <2>1, <2>2 DEF ClaimNextTake
<1>5. ASSUME NEW w \in Workers, CompleteCommit(w), jobs[w].req = p
      PROVE  \/ Moved
             \/ /\ evidence[p] # <<>>
                /\ reqs[p].status = "running"
                /\ reqs'[p] = [status |-> evidence[p][1].verdict,
                               commit |-> reqs[p].commit,
                               tree   |-> reqs[p].commit]
  <2>1. PICK o \in Outcomes : o = jobs[w].outcome
    BY <1>5 DEF CompleteCommit, TypeOK, FreeJob, HeldJob
  <2>2. reqs' = CompletedRow(p, o)
    BY <1>5, <2>1 DEF CompleteCommit
  <2>3. reqs'[p] = [status |-> o, commit |-> reqs[p].commit,
                    tree |-> IF o = "error" THEN None ELSE reqs[p].commit]
    <3>1. o \in Outcomes
      BY <2>1
    <3>2. CompletedRow(p, o)[p] =
            IF p = p
            THEN [status |-> o, commit |-> reqs[p].commit,
                  tree |-> IF o = "error" THEN None ELSE reqs[p].commit]
            ELSE reqs[p]
      BY <3>1, CompletedRowType
    <3> QED
      BY <2>2, <3>2
  <2>4. reqs[p].status = "running"
    BY <1>5 DEF Held
  <2>5. CASE o = "error"
    BY <2>3, <2>4, <2>5 DEF Verdicts
  <2>6. CASE o # "error"
    <3>1. jobs[w].step # "claimed"
      BY <1>5 DEF CompleteCommit
    <3>2. evidence[p] # <<>> /\ evidence[p][1].verdict = o
      BY <1>5, <2>1, <2>6, <3>1 DEF Held
    <3> QED
      BY <2>3, <2>4, <2>6, <3>2
  <2> QED
    BY <2>5, <2>6
<1>6. ASSUME NEW w \in Workers, CompleteCommit(w), jobs[w].req # p
      PROVE  Moved
  <2>1. PICK q \in Requests, o \in Outcomes :
           q = jobs[w].req /\ o = jobs[w].outcome
    BY <1>6 DEF CompleteCommit, TypeOK, FreeJob, HeldJob
  <2>2. reqs' = CompletedRow(q, o)
    BY <1>6, <2>1 DEF CompleteCommit
  <2>3. q \in Requests /\ o \in Outcomes
    BY <2>1
  <2>4. CompletedRow(q, o)[p] =
          IF p = q
          THEN [status |-> o, commit |-> reqs[q].commit,
                tree |-> IF o = "error" THEN None ELSE reqs[q].commit]
          ELSE reqs[p]
    BY <2>3, CompletedRowType
  <2> QED
    BY <1>6, <2>1, <2>2, <2>4
<1>7. CASE UNCHANGED reqs
  BY <1>7
<1> QED
  BY <1>2, <1>3, <1>4, <1>5, <1>6, <1>7
     DEF Next, vars, Invoke, Work, VerifyAndWrite, VerifyFails, CompleteRead,
         Crash

\* Where no poll is overtaken and nobody completes by hand, every step of the
\* queue is a step of the abstract life of a request, or none.
THEOREM KeepsPromise ==
    ASSUME ~SlowPoll, ~Manual
    PROVE  Spec => ImplementsLifecycle
<1> DEFINE St  == [q \in Requests |-> reqs[q].status]
           Ver == [q \in Requests |-> IF evidence[q] = <<>> THEN "no"
                                      ELSE evidence[q][1].verdict]
<1>1. Init => Lifecycle!Init
  BY DEF Init, Lifecycle!Init, NoRequest
<1>2. TypeOK /\ Custody /\ Held /\ [Next]_vars
        => [Lifecycle!Next]_<<St, Ver>>
  <2> SUFFICES ASSUME TypeOK, Custody, Held, [Next]_vars
               PROVE  Lifecycle!Next \/ (St' = St /\ Ver' = Ver)
    OBVIOUS
  <2>a. ASSUME UNCHANGED evidence PROVE Ver' = Ver
    BY <2>a
  <2>b. ASSUME UNCHANGED reqs PROVE St' = St
    BY <2>b
  <2>c. ASSUME NEW S \in SUBSET Requests, reqs' = Expired(S),
               \A q \in S : StalePending(q), UNCHANGED evidence
        PROVE  Lifecycle!Next
    <3>1. Lifecycle!Expire(S)
      <4>1. \A q \in S : St[q] = "pending"
        BY <2>c DEF StalePending, Pending
      <4>2. St' = [q \in Requests |-> IF q \in S THEN "expired" ELSE St[q]]
        BY <2>c DEF Expired, TypeOK, Request
      <4> QED
        BY <4>1, <4>2, <2>a, <2>c DEF Lifecycle!Expire
    <3> QED
      BY <3>1 DEF Lifecycle!Next
  <2>1. ASSUME NEW q \in Requests, RequestStep(q)
        PROVE  Lifecycle!Next \/ (St' = St /\ Ver' = Ver)
    <3>1. ASSUME NEW c \in Commits, CreateRequest(q, c)
          PROVE  Lifecycle!Next
      <4>1. St[q] = "absent" /\ St' = [St EXCEPT ![q] = "pending"]
        BY <3>1 DEF CreateRequest, TypeOK
      <4>2. Ver' = Ver
        BY <3>1 DEF CreateRequest
      <4> QED
        BY <4>1, <4>2 DEF Lifecycle!Next, Lifecycle!Enqueue
    <3>2. CASE TtlPasses(q)
      BY <3>2 DEF TtlPasses
    <3>3. CASE GetStatus(q)
      BY <3>3, <2>c DEF GetStatus
    <3> QED
      BY <2>1, <3>1, <3>2, <3>3
         DEF RequestStep, GetStatusRead, GetStatusCommit, CompleteManually, Held
  <2>2. ASSUME NEW w \in Workers, ClaimNextExpire(w) PROVE Lifecycle!Next
    BY <2>2, <2>c DEF ClaimNextExpire
  <2>3. ASSUME NEW w \in Workers, ClaimNextTake(w)
        PROVE  Lifecycle!Next \/ (St' = St /\ Ver' = Ver)
    <3>1. CASE reqs' = reqs
      BY <2>3, <3>1 DEF ClaimNextTake
    <3>2. ASSUME NEW i \in ClaimableRequests,
                 reqs' = [reqs EXCEPT ![order[i]].status = "running"]
          PROVE  Lifecycle!Next
      <4>1. PICK q \in Requests : q = order[i] /\ Pending(q)
        BY DEF ClaimableRequests, TypeOK
      <4>2. St[q] = "pending" /\ St' = [St EXCEPT ![q] = "running"]
        BY <3>2, <4>1 DEF Pending, TypeOK, Request
      <4>3. Ver' = Ver
        BY <2>3 DEF ClaimNextTake
      <4> QED
        BY <4>2, <4>3 DEF Lifecycle!Next, Lifecycle!Claim
    <3> QED
      BY <2>3, <3>1, <3>2 DEF ClaimNextTake
  <2>4. ASSUME NEW w \in Workers, NEW v \in Verdicts, NEW ok \in BOOLEAN,
               VerifyAndWrite(w, v, ok)
        PROVE  Lifecycle!Next
    <3>1. PICK q \in Requests : q = jobs[w].req
      BY <2>4 DEF VerifyAndWrite, TypeOK, FreeJob, HeldJob
    <3>2. evidence[q] = <<>> /\ St[q] = "running"
      BY <2>4, <3>1 DEF Custody, Held, VerifyAndWrite
    <3>3. /\ evidence'[q] = <<EvidenceRow(q, v)>>
          /\ \A p \in Requests \ {q} : evidence'[p] = evidence[p]
      BY <2>4, <3>1, <3>2 DEF VerifyAndWrite, TypeOK
    <3>4. evidence'[q] # <<>> /\ evidence'[q][1].verdict = v
      BY <3>3 DEF EvidenceRow
    <3>5. Ver[q] = "no" /\ Ver' = [Ver EXCEPT ![q] = v]
      BY <3>2, <3>3, <3>4
    <3>6. St' = St
      BY <2>4 DEF VerifyAndWrite
    <3> QED
      BY <3>2, <3>5, <3>6
         DEF Lifecycle!Next, Lifecycle!Verify, Verdicts, Lifecycle!Verdicts
  <2>5. ASSUME NEW w \in Workers,
               VerifyFails(w) \/ CompleteRead(w) \/ Crash(w)
        PROVE  St' = St /\ Ver' = Ver
    BY <2>5 DEF VerifyFails, CompleteRead, Crash
  <2>6. ASSUME NEW w \in Workers, CompleteCommit(w) PROVE Lifecycle!Next
    <3>1. jobs[w] \in HeldJob /\ jobs[w].step # "claimed"
      BY <2>6 DEF CompleteCommit, TypeOK, FreeJob
    <3>2. PICK q \in Requests, o \in Outcomes :
             q = jobs[w].req /\ o = jobs[w].outcome
      BY <3>1 DEF HeldJob
    <3>3. St[q] = "running"
      BY <3>2 DEF Held
    <3>4. o \in {Ver[q], "error"} \ {"no"}
      BY <3>1, <3>2 DEF Held, Outcomes, Verdicts
    <3>5. reqs' = CompletedRow(q, o)
      BY <2>6, <3>2 DEF CompleteCommit
    <3>6. \A p \in Requests :
             reqs'[p].status = IF p = q THEN o ELSE reqs[p].status
      <4> TAKE p \in Requests
      <4>1. q \in Requests /\ o \in Outcomes
        BY <3>2
      <4>2. CompletedRow(q, o)[p] =
              IF p = q
              THEN [status |-> o, commit |-> reqs[q].commit,
                    tree |-> IF o = "error" THEN None ELSE reqs[q].commit]
              ELSE reqs[p]
        BY <4>1, CompletedRowType
      <4> QED
        BY <3>5, <4>2
    <3>7. St' = [St EXCEPT ![q] = o] /\ Ver' = Ver
      BY <2>6, <3>6 DEF CompleteCommit
    <3> QED
      BY <3>3, <3>4, <3>7
         DEF Lifecycle!Next, Lifecycle!Finish, Lifecycle!Verdicts, Outcomes,
             Verdicts
  <2>7. CASE UNCHANGED vars
    BY <2>7 DEF vars
  <2> QED
    BY <2>1, <2>2, <2>3, <2>4, <2>5, <2>6, <2>7 DEF Next, Invoke, Work
<1> QED
  BY <1>1, <1>2, HeldHolds, TypeCorrect, CustodyHolds, PTL
     DEF Spec, ImplementsLifecycle, Lifecycle!Spec
=============================================================================
