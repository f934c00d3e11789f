--------------------------- MODULE OfflineRunProofs ---------------------------
(***************************************************************************)
(* Proofs about OfflineRun for any runs and project names.  What a record  *)
(* shows is determined by the call that the thread is at (Shaped); that    *)
(* is stronger than RecordIsHonest, and inductive.                         *)
(***************************************************************************)
EXTENDS OfflineRun, TLAPS

USE JobAssumption

-----------------------------------------------------------------------------
(* The stages at each call.                                                *)

\* The level of the work that a thread at a call has not completed yet.
Reach == [blueprint |-> 1, project |-> 2, prd |-> 2, story |-> 2, spec |-> 3,
          validate |-> 4, coder |-> 5, package |-> 6, review |-> 7]

\* The stages that the record shows as open at a call.
OpenAt == [blueprint |-> {"blueprint"}, project |-> {"product"},
           prd |-> {"product"}, story |-> {"product"}, spec |-> {"spec"},
           validate |-> {}, coder |-> {"coder"},
           package |-> {"tests", "verifier", "reviewer"},
           review |-> {"reviewer"}]

StagesAt(call) ==
    [s \in Stages |-> IF Level[s] < Reach[call] THEN "completed"
                      ELSE IF s \in OpenAt[call] THEN "running"
                      ELSE "pending"]

AllDone == [s \in Stages |-> "completed"]

\* A mark takes the stages of a call to those of the next one.
LEMMA MarkedNext ==
    ASSUME NEW c \in Calls \ {"review"}
    PROVE  /\ After[c] \in Calls
           /\ Marked(StagesAt(c), c) = StagesAt(After[c])
<1>1. CASE c = "blueprint"
  BY <1>1 DEF Marked, StagesAt, After, Completes, Opens, Reach, OpenAt, Level,
              Stages, Calls
<1>2. CASE c = "project"
  BY <1>2 DEF Marked, StagesAt, After, Completes, Opens, Reach, OpenAt, Level,
              Stages, Calls
<1>3. CASE c = "prd"
  BY <1>3 DEF Marked, StagesAt, After, Completes, Opens, Reach, OpenAt, Level,
              Stages, Calls
<1>4. CASE c = "story"
  BY <1>4 DEF Marked, StagesAt, After, Completes, Opens, Reach, OpenAt, Level,
              Stages, Calls
<1>5. CASE c = "spec"
  BY <1>5 DEF Marked, StagesAt, After, Completes, Opens, Reach, OpenAt, Level,
              Stages, Calls
<1>6. CASE c = "validate"
  BY <1>6 DEF Marked, StagesAt, After, Completes, Opens, Reach, OpenAt, Level,
              Stages, Calls
<1>7. CASE c = "coder"
  BY <1>7 DEF Marked, StagesAt, After, Completes, Opens, Reach, OpenAt, Level,
              Stages, Calls
<1>8. CASE c = "package"
  BY <1>8 DEF Marked, StagesAt, After, Completes, Opens, Reach, OpenAt, Level,
              Stages, Calls
<1> QED
  BY <1>1, <1>2, <1>3, <1>4, <1>5, <1>6, <1>7, <1>8 DEF Calls

\* The last mark completes the last stages.
LEMMA MarkedLast ==
    /\ After["review"] = "ended"
    /\ Marked(StagesAt("review"), "review") = AllDone
  BY DEF Marked, StagesAt, After, Completes, Opens, Reach, OpenAt, Level,
         Stages, AllDone

\* The first stages.
LEMMA FirstStages ==
    [NewRecord.stages EXCEPT !["blueprint"] = "running"] = StagesAt("blueprint")
  BY DEF NewRecord, StagesAt, Reach, OpenAt, Level, Stages

-----------------------------------------------------------------------------
(* The records.                                                            *)

New(r)        == r = NewRecord
Going(r, c)   == r.status = "running" /\ r.stages = StagesAt(c) /\ ~r.product
Stopped(r, c) == r.status = "failed" /\ r.stages = Closed(StagesAt(c))
                   /\ ~r.product
Completed(r)  == r.status = "completed" /\ r.stages = AllDone /\ r.product

Shaped ==
    /\ run \in [Jobs -> Record]
    /\ step \in [Jobs -> Calls \cup {"idle", "ended"}]
    /\ \A j \in Jobs :
         \/ step[j] = "idle" /\ New(run[j])
         \/ step[j] \in Calls /\ Going(run[j], step[j])
         \/ /\ step[j] = "ended"
            /\ \/ \E c \in Calls : Going(run[j], c) \/ Stopped(run[j], c)
               \/ Completed(run[j])

StageStatuses == {"pending", "running", "completed", "failed"}

\* The stages at a call, and those of a failure there, are stages of a record.
LEMMA StageTypes ==
    /\ \A c \in Calls : /\ StagesAt(c) \in [Stages -> StageStatuses]
                        /\ Closed(StagesAt(c)) \in [Stages -> StageStatuses]
    /\ AllDone \in [Stages -> StageStatuses]
  BY DEF StagesAt, Closed, AllDone, StageStatuses

\* Going on keeps the shape.
LEMMA ProceedShape ==
    ASSUME Shaped, NEW j \in Jobs, step[j] \in Calls, Proceed(j)
    PROVE  Shaped'
<1>1. Going(run[j], step[j])
  BY DEF Shaped, Calls
<1>2. /\ step' = [step EXCEPT ![j] = After[step[j]]]
      /\ run'[j].status = IF step[j] = "review" THEN "completed" ELSE "running"
      /\ run'[j].stages = Marked(StagesAt(step[j]), step[j])
      /\ run'[j].product <=> step[j] = "review"
      /\ \A i \in Jobs \ {j} : run'[i] = run[i]
  BY <1>1 DEF Proceed, Going, Shaped
<1>3. run'[j].stages \in [Stages -> StageStatuses]
  BY <1>2, StageTypes, MarkedNext, MarkedLast
<1>4. run' \in [Jobs -> Record]
  BY <1>1, <1>2, <1>3 DEF Proceed, Going, Shaped, Record, StageStatuses
<1>5. CASE step[j] = "review"
  <2>1. Completed(run'[j]) /\ step'[j] = "ended"
    BY <1>2, <1>5, MarkedLast DEF Completed, Shaped
  <2> QED
    BY <1>2, <1>4, <2>1 DEF Shaped
<1>6. CASE step[j] # "review"
  <2>1. PICK c \in Calls : c = After[step[j]]
    BY <1>6, MarkedNext
  <2>2. step'[j] = c /\ Going(run'[j], step'[j])
    BY <1>2, <1>6, <2>1, MarkedNext DEF Going, Shaped
  <2> QED
    BY <1>2, <1>4, <2>1, <2>2 DEF Shaped
<1> QED
  BY <1>5, <1>6

\* Failing keeps the shape.
LEMMA FailShape ==
    ASSUME Shaped, NEW j \in Jobs, step[j] \in Calls, Fail(j)
    PROVE  Shaped'
<1>1. Going(run[j], step[j])
  BY DEF Shaped, Calls
<1>2. /\ run'[j].status = "failed"
      /\ run'[j].stages = Closed(StagesAt(step[j]))
      /\ run'[j].product = run[j].product
      /\ \A i \in Jobs \ {j} : run'[i] = run[i]
  BY <1>1 DEF Fail, Going, Shaped, Record
<1>3. run' \in [Jobs -> Record]
  <2>1. \A r \in Record : [r EXCEPT !.status = "failed"] \in Record
    BY DEF Record
  <2>2. \A r \in Record, f \in [Stages -> StageStatuses] :
           [r EXCEPT !.stages = f] \in Record
    BY DEF Record, StageStatuses
  <2>3. [run EXCEPT ![j].status = "failed"] \in [Jobs -> Record]
    BY <2>1 DEF Shaped
  <2>4. /\ run'[j].stages \in [Stages -> StageStatuses]
        /\ run' = [[run EXCEPT ![j].status = "failed"]
                     EXCEPT ![j].stages = run'[j].stages]
    BY <1>2, <2>3, StageTypes DEF Fail
  <2> QED
    BY <2>2, <2>3, <2>4
<1>4. step' = [step EXCEPT ![j] = "ended"] /\ Stopped(run'[j], step[j])
  BY <1>1, <1>2 DEF Fail, Going, Stopped
<1> QED
  BY <1>2, <1>3, <1>4 DEF Shaped

\* Only a thread at a look-up has looked.
LookedAt ==
    /\ step \in [Jobs -> Calls \cup {"idle", "ended"}]
    /\ looked \subseteq Jobs
    /\ \A j \in looked : step[j] \in {"blueprint", "project", "spec"}

\* LookedAt is inductive.
LEMMA LookedHolds == Spec => []LookedAt
<1>1. Init => LookedAt
  BY DEF Init, LookedAt
<1>2. LookedAt /\ [Next]_vars => LookedAt'
  <2> SUFFICES ASSUME LookedAt, [Next]_vars PROVE LookedAt'
    OBVIOUS
  <2> USE DEF LookedAt
  <2>a. \A c \in Calls : After[c] \in Calls \cup {"ended"}
    BY DEF After, Calls
  <2>1. ASSUME NEW j \in Jobs, step[j] \in Calls, Proceed(j) \/ Fail(j),
               looked' \subseteq looked \ {j}
        PROVE  LookedAt'
    <3>1. step' \in [Jobs -> Calls \cup {"idle", "ended"}]
      BY <2>1, <2>a DEF Proceed, Fail
    <3>2. \A i \in Jobs : i # j => step'[i] = step[i]
      BY <2>1 DEF Proceed, Fail
    <3> QED
      BY <2>1, <3>1, <3>2
  <2>2. ASSUME NEW j \in Jobs, Thread(j) PROVE LookedAt'
    <3>1. CASE LookUp(j)
      BY <2>1, <3>1 DEF LookUp, Served, Calls
    <3>2. CASE Insert(j)
      BY <2>1, <3>2 DEF Insert, Served, Calls
    <3>3. ASSUME NEW a \in BOOLEAN, NEW b \in BOOLEAN,
                 CreatePrd(j, a, b) \/ CreateStory(j, a, b)
          PROVE  LookedAt'
      BY <2>1, <3>3 DEF CreatePrd, CreateStory, Calls
    <3>4. CASE Validate(j) \/ ProposeCode(j) \/ Package(j)
      BY <2>1, <3>4 DEF Validate, ProposeCode, Package, Served, apiVars, Calls
    <3>5. ASSUME NEW v, ReadReview(j, v) PROVE LookedAt'
      BY <2>1, <3>5 DEF ReadReview, apiVars, Calls
    <3>6. CASE Break(j)
      BY <2>1, <3>6 DEF Break
    <3> QED
      BY <2>2, <3>1, <3>2, <3>3, <3>4, <3>5, <3>6 DEF Thread
  <2>3. ASSUME NEW j \in Jobs, NEW p \in Projects, StartRun(j, p)
        PROVE  LookedAt'
    BY <2>3 DEF StartRun, apiVars, Calls
  <2>4. CASE RunnerStops
    BY <2>4 DEF RunnerStops
  <2>5. CASE UNCHANGED vars
    BY <2>5 DEF vars, recVars, apiVars
  <2> QED
    BY <2>2, <2>3, <2>4, <2>5 DEF Next
<1> QED
  BY <1>1, <1>2, PTL DEF Spec

\* What a record shows is determined by the call that its thread is at.
THEOREM RecordsAreShaped == Spec => []Shaped
<1>1. Init => Shaped
  BY DEF Init, Shaped, Calls, New, NewRecord, Record
<1>2. LookedAt /\ Shaped /\ [Next]_vars => Shaped'
  <2> SUFFICES ASSUME LookedAt, Shaped, [Next]_vars PROVE Shaped'
    OBVIOUS
  <2>1. ASSUME NEW j \in Jobs, Thread(j) PROVE Shaped'
    <3>1. CASE UNCHANGED <<run, step>>
      BY <3>1 DEF Shaped, New, Going, Stopped, Completed
    <3>2. CASE step[j] \in Calls /\ (Proceed(j) \/ Fail(j))
      BY <3>2, ProceedShape, FailShape
    <3>3. CASE Insert(j)
      BY <3>2, <3>3 DEF Insert, Served, LookedAt, Calls
    <3> QED
      BY <2>1, <3>1, <3>2, <3>3
         DEF Thread, LookUp, CreatePrd, CreateStory, Validate, ProposeCode,
             Package, ReadReview, Break, Served, Calls
  <2>2. ASSUME NEW j \in Jobs, NEW p \in Projects, StartRun(j, p) PROVE Shaped'
    <3>1. run[j] = NewRecord
      BY <2>2 DEF StartRun, Shaped, New, Going, Stopped, Completed
    <3>2. /\ run'[j].status = "running"
          /\ run'[j].stages = [NewRecord.stages EXCEPT !["blueprint"] = "running"]
          /\ run'[j].product = FALSE
          /\ \A i \in Jobs \ {j} : run'[i] = run[i]
      BY <2>2, <3>1 DEF StartRun, NewRecord, Shaped, Record
    <3>3. run' \in [Jobs -> Record]
      <4>1. \A r \in Record : [r EXCEPT !.status = "running"] \in Record
        BY DEF Record
      <4>2. \A r \in Record :
               [r EXCEPT !.stages["blueprint"] = "running"] \in Record
        BY DEF Record
      <4>3. [run EXCEPT ![j].status = "running"] \in [Jobs -> Record]
        BY <4>1 DEF Shaped
      <4>4. run' = [[run EXCEPT ![j].status = "running"]
                     EXCEPT ![j].stages["blueprint"] = "running"]
        BY <2>2 DEF StartRun
      <4> QED
        BY <4>2, <4>3, <4>4
    <3>4. step' = [step EXCEPT ![j] = "blueprint"]
      BY <2>2 DEF StartRun
    <3>5. Going(run'[j], "blueprint")
      BY <3>2, FirstStages DEF Going
    <3> QED
      BY <3>2, <3>3, <3>4, <3>5 DEF Shaped, Calls
  <2>3. CASE RunnerStops
    BY <2>3 DEF RunnerStops, Shaped, Calls
  <2>4. CASE UNCHANGED vars
    BY <2>4 DEF vars, recVars, Shaped, New, Going, Stopped, Completed
  <2> QED
    BY <2>1, <2>2, <2>3, <2>4 DEF Next
<1> QED
  BY <1>1, <1>2, LookedHolds, PTL DEF Spec

\* A stage that is completed has the work before it completed, at every call
\* and when a failure has closed the stages.
LEMMA ShapedIsHonest == Shaped => RecordIsHonest
<1> SUFFICES ASSUME Shaped, NEW j \in Jobs
             PROVE  /\ \A a, b \in Stages :
                         (Level[a] < Level[b] /\ run[j].stages[b] = "completed")
                            => run[j].stages[a] = "completed"
                    /\ run[j].status \in {"completed", "failed"} =>
                         \A s \in Stages : run[j].stages[s] # "running"
                    /\ run[j].product
                         <=> \A s \in Stages : run[j].stages[s] = "completed"
  BY DEF RecordIsHonest, HonestProgress, EndedIsClosed
<1>1. ASSUME NEW c \in Calls
      PROVE  Reach[c] \in Nat /\ Reach[c] < 8
  BY DEF Reach, Calls
<1>2. \A s \in Stages : Level[s] \in Nat
  BY DEF Level, Stages
<1>3. "artifact" \in Stages /\ Level["artifact"] = 8
  BY DEF Level, Stages
<1>4. CASE New(run[j])
  BY <1>3, <1>4 DEF New, NewRecord
<1>5. ASSUME NEW c \in Calls, Going(run[j], c)
      PROVE  /\ \A a, b \in Stages :
                  (Level[a] < Level[b] /\ run[j].stages[b] = "completed")
                     => run[j].stages[a] = "completed"
             /\ run[j].status \notin {"completed", "failed"}
             /\ ~run[j].product
             /\ run[j].stages["artifact"] # "completed"
  <2>1. \A s \in Stages : run[j].stages[s] = "completed"
                             <=> Level[s] < Reach[c]
    BY <1>5 DEF Going, StagesAt
  <2> QED
    BY <1>1, <1>2, <1>3, <1>5, <2>1 DEF Going
<1>6. ASSUME NEW c \in Calls, Stopped(run[j], c)
      PROVE  /\ \A a, b \in Stages :
                  (Level[a] < Level[b] /\ run[j].stages[b] = "completed")
                     => run[j].stages[a] = "completed"
             /\ \A s \in Stages : run[j].stages[s] # "running"
             /\ ~run[j].product
             /\ run[j].stages["artifact"] # "completed"
  <2>1. \A s \in Stages : run[j].stages[s] = "completed"
                             <=> Level[s] < Reach[c]
    BY <1>1, <1>3, <1>6 DEF Stopped, StagesAt, Closed
  <2>2. \A s \in Stages : run[j].stages[s] # "running"
    BY <1>6 DEF Stopped, StagesAt, Closed
  <2> QED
    BY <1>1, <1>2, <1>3, <1>6, <2>1, <2>2 DEF Stopped
<1>7. CASE Completed(run[j])
  BY <1>7 DEF Completed, AllDone
<1> QED
  BY <1>3, <1>4, <1>5, <1>6, <1>7 DEF Shaped

\* What the record of a run says is what happened.
THEOREM RecordsAreHonest == Spec => []RecordIsHonest
  BY RecordsAreShaped, ShapedIsHonest, PTL

\* A record is changed by the start of its run, or by its thread at a call.
LEMMA RecordSteps ==
    ASSUME LookedAt, [Next]_vars
    PROVE  \/ UNCHANGED run
           \/ \E j \in Jobs : step[j] \in Calls /\ (Proceed(j) \/ Fail(j))
           \/ \E j \in Jobs, p \in Projects : StartRun(j, p)
<1>1. ASSUME NEW j \in Jobs, Thread(j)
      PROVE  \/ UNCHANGED run
             \/ step[j] \in Calls /\ (Proceed(j) \/ Fail(j))
  <2>1. CASE Insert(j)
    BY <2>1 DEF Insert, Served, LookedAt, Calls
  <2> QED
    BY <1>1, <2>1 DEF Thread, LookUp, CreatePrd, CreateStory, Validate,
                      ProposeCode, Package, ReadReview, Break, Served, Calls
<1>2. RunnerStops \/ UNCHANGED vars => UNCHANGED run
  BY DEF RunnerStops, vars, recVars
<1> QED
  BY <1>1, <1>2 DEF Next

\* A mark and a failure keep what is completed.
LEMMA WorkStays ==
    ASSUME NEW c \in Calls, NEW s \in Stages, StagesAt(c)[s] = "completed"
    PROVE  /\ Marked(StagesAt(c), c)[s] = "completed"
           /\ Closed(StagesAt(c))[s] = "completed"
<1>1. \A k \in Calls : Reach[k] \in Nat /\ Reach[k] < 8
  BY DEF Reach, Calls
<1>2. \A x \in Stages : Level[x] \in Nat
  BY DEF Level, Stages
<1>3. Level[s] < Reach[c]
  BY DEF StagesAt
<1>4. Marked(StagesAt(c), c)[s] = "completed"
  <2>1. CASE c = "review"
    BY <2>1, MarkedLast DEF AllDone
  <2>2. CASE c # "review"
    <3>1. Reach[c] <= Reach[After[c]]
      BY <2>2 DEF Reach, After, Calls
    <3>2. After[c] \in Calls /\ Marked(StagesAt(c), c) = StagesAt(After[c])
      BY <2>2, MarkedNext
    <3>3. Level[s] < Reach[After[c]]
      BY <1>1, <1>2, <1>3, <3>1, <3>2
    <3> QED
      BY <3>2, <3>3 DEF StagesAt
  <2> QED
    BY <2>1, <2>2
<1>5. s # "artifact"
  BY <1>1, <1>3 DEF Level
<1>6. Closed(StagesAt(c))[s] = "completed"
  BY <1>5 DEF Closed
<1> QED
  BY <1>4, <1>6

\* Progress that was shown is not taken back: neither by a later mark, nor by
\* the failure of the run, nor after its end.
THEOREM ShownProgressStays == Spec => ProgressStays
<1> DEFINE RecordsStay ==
      \A j \in Jobs :
         /\ \A s \in Stages : run[j].stages[s] = "completed"
                                 => run'[j].stages[s] = "completed"
         /\ run[j].status \in {"completed", "failed"} => run'[j] = run[j]
<1>1. LookedAt /\ Shaped /\ [Next]_vars => RecordsStay
  <2> SUFFICES ASSUME LookedAt, Shaped, [Next]_vars PROVE RecordsStay
    OBVIOUS
  <2>1. CASE UNCHANGED run
    BY <2>1
  <2>2. ASSUME NEW j \in Jobs, step[j] \in Calls, Proceed(j) \/ Fail(j)
        PROVE  RecordsStay
    <3>1. Going(run[j], step[j])
      BY <2>2 DEF Shaped, Calls
    <3>2. /\ run'[j].stages = Marked(StagesAt(step[j]), step[j])
                \/ run'[j].stages = Closed(StagesAt(step[j]))
          /\ \A i \in Jobs \ {j} : run'[i] = run[i]
      BY <2>2, <3>1 DEF Proceed, Fail, Going, Shaped, Record
    <3>3. \A s \in Stages : run[j].stages[s] = "completed"
                               => run'[j].stages[s] = "completed"
      BY <2>2, <3>1, <3>2, WorkStays DEF Going
    <3> QED
      BY <3>1, <3>2, <3>3 DEF Going
  <2>3. ASSUME NEW j \in Jobs, NEW p \in Projects, StartRun(j, p)
        PROVE  RecordsStay
    <3>1. run[j] = NewRecord
      BY <2>3 DEF StartRun, Shaped, New, Going, Stopped, Completed
    <3>2. \A i \in Jobs \ {j} : run'[i] = run[i]
      BY <2>3 DEF StartRun, Shaped
    <3> QED
      BY <3>1, <3>2 DEF NewRecord
  <2> QED
    BY <2>1, <2>2, <2>3, RecordSteps
<1> QED
  BY <1>1, LookedHolds, RecordsAreShaped, PTL DEF Spec, ProgressStays

-----------------------------------------------------------------------------
(* Types and what was coded.                                               *)

\* A thread that was started has a project.
Started ==
    \A j \in Jobs : step[j] # "idle" => project[j] \in Projects

\* Every variable has its type, and a thread that was started a project.
THEOREM TypeCorrect == Spec => [](TypeOK /\ Started)
<1>1. Init => TypeOK /\ Started
  BY DEF Init, TypeOK, Started, NewRecord, Record, Calls
<1>2. LookedAt /\ Shaped' /\ TypeOK /\ Started /\ [Next]_vars => (TypeOK /\ Started)'
  <2> SUFFICES ASSUME LookedAt, Shaped', TypeOK, Started, [Next]_vars
               PROVE  TypeOK' /\ Started'
    OBVIOUS
  <2>1. run' \in [Jobs -> Record] /\ step' \in [Jobs -> Calls \cup {"idle", "ended"}]
    BY DEF Shaped
  <2>a. ASSUME UNCHANGED project,
               \A i \in Jobs : step[i] = "idle" => step'[i] = "idle"
        PROVE  Started' /\ project' \in [Jobs -> Projects \cup {None}]
    BY <2>a, <2>1 DEF TypeOK, Started
  <2>2. ASSUME NEW j \in Jobs, Thread(j) PROVE TypeOK' /\ Started'
    <3>1. ASSUME step[j] # "idle", Proceed(j) \/ Fail(j) \/ UNCHANGED step,
                 UNCHANGED project
          PROVE  /\ Started' /\ project' \in [Jobs -> Projects \cup {None}]
                 /\ project[j] \in Projects /\ Domain(j) \in Domains
      <4>1. \A i \in Jobs : step[i] = "idle" => step'[i] = "idle"
        BY <3>1 DEF Proceed, Fail, TypeOK
      <4>2. project[j] \in Projects /\ Domain(j) \in Domains
        BY <3>1 DEF Started, Domain, Domains
      <4> QED
        BY <2>a, <3>1, <4>1, <4>2
    <3>2. CASE LookUp(j)
      <4>1. step[j] # "idle" /\ (Proceed(j) \/ Fail(j) \/ UNCHANGED step)
              /\ UNCHANGED project
        BY <3>2 DEF LookUp, Served
      <4>2. /\ looked' \in SUBSET Jobs /\ faulted' \in SUBSET Jobs
            /\ UNCHANGED <<rows, code, validated, prds, stories, prdRef, storyRef>>
        BY <3>2 DEF LookUp, Served, TypeOK
      <4> QED
        BY <2>1, <3>1, <4>1, <4>2 DEF TypeOK
    <3>3. CASE Insert(j)
      <4>1. step[j] # "idle" /\ (Proceed(j) \/ Fail(j) \/ UNCHANGED step)
              /\ UNCHANGED project
        BY <3>3 DEF Insert, Served, LookedAt
      <4>2. /\ looked' \in SUBSET Jobs /\ faulted' \in SUBSET Jobs
            /\ rows' \in [Keys -> Jobs \cup {None}]
            /\ UNCHANGED <<code, validated, prds, stories, prdRef, storyRef>>
        BY <3>3 DEF Insert, Served, TypeOK
      <4> QED
        BY <2>1, <3>1, <4>1, <4>2 DEF TypeOK
    <3>4. ASSUME NEW a \in BOOLEAN, NEW b \in BOOLEAN, CreatePrd(j, a, b)
          PROVE  TypeOK' /\ Started'
      <4>1. step[j] # "idle" /\ Proceed(j) /\ UNCHANGED project
        BY <3>4 DEF CreatePrd
      <4>2. /\ prds' \in SUBSET Domains /\ prdRef' \in SUBSET Jobs
            /\ faulted' \in SUBSET Jobs
            /\ UNCHANGED <<looked, rows, code, validated, stories, storyRef>>
        BY <3>1, <3>4, <4>1 DEF CreatePrd, TypeOK
      <4> QED
        BY <2>1, <3>1, <4>1, <4>2 DEF TypeOK
    <3>5. ASSUME NEW a \in BOOLEAN, NEW b \in BOOLEAN, CreateStory(j, a, b)
          PROVE  TypeOK' /\ Started'
      <4>1. step[j] # "idle" /\ Proceed(j) /\ UNCHANGED project
        BY <3>5 DEF CreateStory
      <4>2. /\ stories' \in SUBSET Domains /\ storyRef' \in SUBSET Jobs
            /\ faulted' \in SUBSET Jobs
            /\ UNCHANGED <<looked, rows, code, validated, prds, prdRef>>
        BY <3>1, <3>5, <4>1 DEF CreateStory, TypeOK
      <4> QED
        BY <2>1, <3>1, <4>1, <4>2 DEF TypeOK
    <3>6. CASE Validate(j)
      <4>1. step[j] # "idle" /\ (Proceed(j) \/ Fail(j)) /\ UNCHANGED project
        BY <3>6 DEF Validate, Served
      <4>2. /\ validated' \in SUBSET Domains /\ faulted' \in SUBSET Jobs
            /\ UNCHANGED <<looked, rows, code, prds, stories, prdRef, storyRef>>
        BY <3>1, <3>6, <4>1 DEF Validate, Served, TypeOK
      <4> QED
        BY <2>1, <3>1, <4>1, <4>2 DEF TypeOK
    <3>7. CASE ProposeCode(j)
      <4>1. step[j] # "idle" /\ (Proceed(j) \/ Fail(j)) /\ UNCHANGED project
        BY <3>7 DEF ProposeCode, Served
      <4>2. <<"spec", Domain(j)>> \in Keys
        BY <3>1, <4>1 DEF Keys
      <4>3. /\ code' \in [Jobs -> Jobs \cup {None}] /\ faulted' \in SUBSET Jobs
            /\ UNCHANGED <<looked, rows, validated, prds, stories, prdRef, storyRef>>
        BY <3>7, <4>2 DEF ProposeCode, Served, TypeOK, apiVars
      <4> QED
        BY <2>1, <3>1, <4>1, <4>3 DEF TypeOK
    <3>8. CASE Package(j)
      <4>1. step[j] # "idle" /\ (Proceed(j) \/ Fail(j)) /\ UNCHANGED project
        BY <3>8 DEF Package, Served
      <4>2. /\ faulted' \in SUBSET Jobs
            /\ UNCHANGED <<apiVars, code, prdRef, storyRef>>
        BY <3>8 DEF Package, Served, TypeOK
      <4> QED
        BY <2>1, <3>1, <4>1, <4>2 DEF TypeOK, apiVars
    <3>9. ASSUME NEW v, ReadReview(j, v) PROVE TypeOK' /\ Started'
      <4>1. step[j] # "idle" /\ (Proceed(j) \/ Fail(j)) /\ UNCHANGED project
        BY <3>9 DEF ReadReview
      <4>2. UNCHANGED <<apiVars, code, prdRef, storyRef, faulted>>
        BY <3>9 DEF ReadReview
      <4> QED
        BY <2>1, <3>1, <4>1, <4>2 DEF TypeOK, apiVars
    <3>10. CASE Break(j)
      <4>1. step[j] # "idle" /\ Fail(j) /\ UNCHANGED project
        BY <3>10 DEF Break, Calls
      <4>2. /\ looked' \in SUBSET Jobs /\ faulted' \in SUBSET Jobs
            /\ UNCHANGED <<rows, code, validated, prds, stories, prdRef, storyRef>>
        BY <3>10 DEF Break, TypeOK
      <4> QED
        BY <2>1, <3>1, <4>1, <4>2 DEF TypeOK
    <3> QED
      BY <2>2, <3>2, <3>3, <3>4, <3>5, <3>6, <3>7, <3>8, <3>9, <3>10 DEF Thread
  <2>3. ASSUME NEW j \in Jobs, NEW p \in Projects, StartRun(j, p)
        PROVE  TypeOK' /\ Started'
    BY <2>1, <2>3 DEF StartRun, apiVars, TypeOK, Started
  <2>4. CASE RunnerStops
    <3>1. \A i \in Jobs : step[i] = "idle" => step'[i] = "idle"
      BY <2>4 DEF RunnerStops, Calls
    <3> QED
      BY <2>1, <2>a, <2>4, <3>1 DEF RunnerStops, TypeOK
  <2>5. CASE UNCHANGED vars
    BY <2>5 DEF vars, recVars, apiVars, TypeOK, Started
  <2> QED
    BY <2>2, <2>3, <2>4, <2>5 DEF Next
<1> QED
  BY <1>1, <1>2, LookedHolds, RecordsAreShaped, PTL DEF Spec

\* Nothing that was validated or created is taken back, a run keeps its
\* project, and the coder is given the specification of the validated row.
LEMMA RowsStay ==
    ASSUME TypeOK, LookedAt, Shaped, [Next]_vars
    PROVE  /\ validated \subseteq validated'
           /\ \A k \in Keys : rows[k] # None => rows'[k] = rows[k]
           /\ \A j \in Jobs : step[j] # "idle" =>
                 step'[j] # "idle" /\ project'[j] = project[j]
           /\ \A j \in Jobs :
                 \/ code'[j] = code[j]
                 \/ /\ step[j] # "idle"
                    /\ Domain(j) \in validated
                    /\ UNCHANGED <<rows, project>>
                    /\ code'[j] = rows[<<"spec", Domain(j)>>]
<1>a. \A c \in Calls : After[c] # "idle"
  BY DEF After, Calls
<1>1. ASSUME NEW j \in Jobs, Thread(j)
      PROVE  \/ UNCHANGED step
             \/ Proceed(j) /\ step[j] \in Calls
             \/ Fail(j)
  BY <1>1 DEF Thread, LookUp, Insert, CreatePrd, CreateStory, Validate,
              ProposeCode, Package, ReadReview, Break, Served, LookedAt, Calls
<1>2. ASSUME NEW j \in Jobs, Thread(j)
      PROVE  \A i \in Jobs : step[i] # "idle" => step'[i] # "idle"
  BY <1>a, <1>1, <1>2 DEF Proceed, Fail, TypeOK
<1>3. ASSUME NEW j \in Jobs, Thread(j) PROVE UNCHANGED project
  BY <1>3 DEF Thread, LookUp, Insert, CreatePrd, CreateStory, Validate,
              ProposeCode, Package, ReadReview, Break
<1>4. ASSUME NEW j \in Jobs, Thread(j) PROVE validated \subseteq validated'
  BY <1>4 DEF Thread, LookUp, Insert, CreatePrd, CreateStory, Validate,
              ProposeCode, Package, ReadReview, Break, apiVars
<1>5. ASSUME NEW j \in Jobs, Thread(j), NEW k \in Keys, rows[k] # None
      PROVE  rows'[k] = rows[k]
  <2>1. CASE Insert(j)
    BY <1>5, <2>1 DEF Insert, Insertable, TypeOK
  <2> QED
    BY <1>5, <2>1 DEF Thread, LookUp, CreatePrd, CreateStory, Validate,
                      ProposeCode, Package, ReadReview, Break, apiVars
<1>6. ASSUME NEW j \in Jobs, Thread(j), NEW i \in Jobs, code'[i] # code[i]
      PROVE  /\ step[i] # "idle"
             /\ Domain(i) \in validated
             /\ UNCHANGED <<rows, project>>
             /\ code'[i] = rows[<<"spec", Domain(i)>>]
  <2>1. ProposeCode(j)
    BY <1>6 DEF Thread, LookUp, Insert, CreatePrd, CreateStory, Validate,
                Package, ReadReview, Break
  <2>2. i = j
    BY <1>6, <2>1 DEF ProposeCode, TypeOK
  <2> QED
    BY <2>1, <2>2 DEF ProposeCode, TypeOK, apiVars
<1>7. ASSUME NEW j \in Jobs, NEW p \in Projects, StartRun(j, p)
      PROVE  /\ UNCHANGED <<validated, rows, code>>
             /\ \A i \in Jobs : step[i] # "idle" =>
                   step'[i] # "idle" /\ project'[i] = project[i]
  <2>1. step[j] = "idle"
    BY <1>7 DEF StartRun, Shaped, Going, Stopped, Completed
  <2> QED
    BY <1>7, <2>1 DEF StartRun, apiVars, TypeOK
<1>8. CASE RunnerStops
  BY <1>8 DEF RunnerStops, TypeOK, Calls
<1>9. CASE UNCHANGED vars
  BY <1>9 DEF vars, recVars, apiVars
<1> QED
  BY <1>2, <1>3, <1>4, <1>5, <1>6, <1>7, <1>8, <1>9 DEF Next

\* Only a thread that was started has coded.
Coded ==
    /\ CodedIsValidated
    /\ \A j \in Jobs : code[j] # None => step[j] # "idle"

\* What was coded was validated, and stays the specification of its domain.
THEOREM CodedStaysValidated == Spec => []CodedIsValidated
<1>1. Init => Coded
  BY DEF Init, Coded, CodedIsValidated
<1>2. /\ TypeOK /\ Started /\ LookedAt /\ Shaped /\ Coded
      /\ [Next]_vars
      => Coded'
  <2> SUFFICES ASSUME TypeOK, Started, LookedAt, Shaped, Coded, [Next]_vars,
                      NEW j \in Jobs, code'[j] # None
               PROVE  /\ step'[j] # "idle"
                      /\ Domain(j)' \in validated'
                      /\ rows'[<<"spec", Domain(j)'>>] = code'[j]
    BY DEF Coded, CodedIsValidated
  <2>1. /\ step[j] # "idle" /\ Domain(j) \in validated
        /\ rows[<<"spec", Domain(j)>>] = code'[j]
    BY RowsStay DEF Coded, CodedIsValidated
  <2>2. <<"spec", Domain(j)>> \in Keys
    BY <2>1 DEF Started, Domain, Domains, Keys
  <2>3. Domain(j)' = Domain(j)
    BY <2>1, RowsStay DEF Domain
  <2> QED
    BY <2>1, <2>2, <2>3, RowsStay
<1>3. Coded => CodedIsValidated
  BY DEF Coded
<1> QED
  BY <1>1, <1>2, <1>3, TypeCorrect, LookedHolds, RecordsAreShaped, PTL DEF Spec
=============================================================================
