------------------------- MODULE ConsultationProofs -------------------------
(***************************************************************************)
(* Proofs about Consultation, for any sets of specifications, runs and     *)
(* CRPs.  TypeOK is inductive by itself; each of the four safety           *)
(* invariants is inductive relative to TypeOK, so the proofs have the same *)
(* shape: the initial state, one step per action, and PTL.                 *)
(***************************************************************************)
EXTENDS Consultation, TLAPS

USE NoneAssumption

-----------------------------------------------------------------------------
\* Every column holds a value of its type, whatever the sets of identifiers.
THEOREM TypeCorrect == Spec => []TypeOK
<1>1. Init => TypeOK
  BY DEF Init, TypeOK, NoRun, NoCrp
<1>2. TypeOK /\ [Next]_vars => TypeOK'
  <2> SUFFICES ASSUME TypeOK, [Next]_vars PROVE TypeOK'
    OBVIOUS
  <2> USE DEF TypeOK
  <2>1. ASSUME NEW s \in Specs, CreateSpec(s) PROVE TypeOK'
    BY <2>1 DEF CreateSpec
  <2>2. ASSUME NEW s \in Specs, ValidateSpec(s) PROVE TypeOK'
    BY <2>2 DEF ValidateSpec
  <2>3. ASSUME NEW r \in Runs, NEW task \in TaskTypes,
               NEW s \in Specs \cup {None}, StartAgentRun(r, task, s)
        PROVE  TypeOK'
    BY <2>3 DEF StartAgentRun, Run, RunStatuses
  <2>4. ASSUME NEW r \in Runs, NEW st \in RunStatuses \cup {None},
               NEW p \in Patches \cup {None}, UpdateAgentRun(r, st, p)
        PROVE  TypeOK'
    <3>1. runs[r] \in Run
      BY <2>4 DEF UpdateAgentRun, NoRun
    <3>2. PatchedRun(runs[r], st, p) \in Run
      BY <3>1 DEF PatchedRun, Run
    <3> QED
      BY <2>4, <3>2 DEF UpdateAgentRun
  <2>5. ASSUME NEW r \in Runs, CutoffPasses(r) PROVE TypeOK'
    BY <2>5 DEF CutoffPasses
  <2>6. ASSUME ReapOrphanRuns PROVE TypeOK'
    <3>1. ASSUME NEW r \in Orphans PROVE ReapedRun(runs[r]) \in Run
      <4>1. runs[r] \in Run
        BY <3>1 DEF Orphans, NoRun
      <4> QED
        BY <4>1 DEF ReapedRun, Run, RunStatuses
    <3> QED
      BY <2>6, <3>1 DEF ReapOrphanRuns
  <2>7. ASSUME NEW c \in Crps, NEW sev \in Severities,
               NEW s \in Specs \cup {None}, NEW r \in Runs \cup {None},
               CreateCrp(c, sev, s, r)
        PROVE  TypeOK'
    <3>1. crps' \in [Crps -> Crp \cup {NoCrp}]
      BY <2>7 DEF CreateCrp, Crp
    <3>2. runs' \in [Runs -> Run \cup {NoRun}]
      <4>1. CASE UNCHANGED runs
        BY <4>1
      <4>2. CASE /\ r # None
                 /\ runs' = [runs EXCEPT ![r].status = "blocked"]
        <5>1. runs[r] \in Run
          BY <2>7, <4>2 DEF CreateCrp, RunRef, NoRun
        <5> QED
          BY <4>2, <5>1 DEF Run, RunStatuses
      <4> QED
        BY <2>7, <4>1, <4>2 DEF CreateCrp
    <3> QED
      BY <2>7, <3>1, <3>2 DEF CreateCrp
  <2>8. ASSUME NEW c \in Crps, CreateVcr(c) PROVE TypeOK'
    <3>1. crps[c] \in Crp
      BY <2>8 DEF CreateVcr, NoCrp
    <3> QED
      BY <2>8, <3>1 DEF CreateVcr, Resolved, Crp
  <2>9. CASE UNCHANGED vars
    BY <2>9 DEF vars
  <2> QED
    BY <2>1, <2>2, <2>3, <2>4, <2>5, <2>6, <2>7, <2>8, <2>9
       DEF Next, SpecStep, RunStep, CrpStep
<1> QED
  BY <1>1, <1>2, PTL DEF Spec

-----------------------------------------------------------------------------
\* The row that a PATCH leaves keeps the columns a PATCH cannot write, and
\* its status unless the payload names one.
LEMMA PatchedColumns ==
    ASSUME NEW run \in Run, NEW st \in RunStatuses \cup {None},
           NEW p \in Patches \cup {None}
    PROVE  LET new == PatchedRun(run, st, p)
           IN  /\ new.task = run.task
               /\ new.spec = run.spec
               /\ new.status = IF st = None THEN run.status ELSE st
               /\ new.finished = (run.finished \/ st \in TerminalStatuses)
    BY DEF PatchedRun, Run

\* The reaper moves running rows to failed, and no other column but the stamp.
LEMMA ReapedColumns ==
    ASSUME TypeOK, ReapOrphanRuns, NEW q \in Runs
    PROVE  /\ runs'[q].task = runs[q].task
           /\ runs'[q].spec = runs[q].spec
           /\ \/ /\ runs[q].status = "running"
                 /\ runs'[q].status = "failed"
                 /\ runs'[q].finished = TRUE
              \/ runs'[q] = runs[q]
    <1>1. CASE q \in Orphans
      <2>1. runs[q] \in Run
        BY <1>1 DEF Orphans, NoRun, TypeOK
      <2>2. runs'[q] = ReapedRun(runs[q])
        BY <1>1 DEF ReapOrphanRuns
      <2> QED
        BY <1>1, <2>1, <2>2 DEF ReapedRun, Run, Orphans
    <1>2. CASE q \notin Orphans
      BY <1>2 DEF ReapOrphanRuns
    <1> QED
      BY <1>1, <1>2

\* A patch that a terminal run accepts leaves its status and stamp alone.
LEMMA TerminalPatch ==
    ASSUME TypeOK, NEW q \in Runs, runs[q].status \in TerminalStatuses,
           NEW r \in Runs, NEW st \in RunStatuses \cup {None},
           NEW p \in Patches \cup {None}, UpdateAgentRun(r, st, p)
    PROVE  /\ runs'[q].status = runs[q].status
           /\ runs'[q].finished = runs[q].finished
    <1>1. CASE q = r
      <2>1. st = None
        BY <1>1 DEF UpdateAgentRun, Patchable
      <2>2. runs[q] \in Run
        BY DEF TypeOK, NoRun, TerminalStatuses
      <2>3. runs'[q] = PatchedRun(runs[q], st, p)
        BY <1>1 DEF UpdateAgentRun, TypeOK
      <2>4. None \notin TerminalStatuses
        BY DEF TerminalStatuses, RunStatuses
      <2> QED
        BY <2>1, <2>2, <2>3, <2>4 DEF PatchedRun, Run
    <1>2. CASE q # r
      BY <1>2 DEF UpdateAgentRun, TypeOK
    <1> QED
      BY <1>1, <1>2

-----------------------------------------------------------------------------
\* Every code-generation run that names a specification names a validated
\* one, in every state: nothing unvalidates, and the insert is guarded.
THEOREM CodegenIsValidated == Spec => []ValidatedBeforeCodegen
<1>1. Init => ValidatedBeforeCodegen
  BY DEF Init, ValidatedBeforeCodegen, NoRun
<1>2. TypeOK /\ ValidatedBeforeCodegen /\ [Next]_vars
        => ValidatedBeforeCodegen'
  <2> SUFFICES ASSUME TypeOK, ValidatedBeforeCodegen, [Next]_vars,
                      NEW q \in Runs,
                      runs'[q].task = "code_generation",
                      runs'[q].spec # None
               PROVE  specs'[runs'[q].spec] = "validated"
    BY DEF ValidatedBeforeCodegen
  <2>a. runs[q].task = "code_generation" /\ runs[q].spec # None
          => specs[runs[q].spec] = "validated" /\ runs[q].spec \in Specs
    BY DEF TypeOK, ValidatedBeforeCodegen, Run, NoRun
  <2>b. ASSUME UNCHANGED specs, runs'[q].task = runs[q].task,
               runs'[q].spec = runs[q].spec
        PROVE  specs'[runs'[q].spec] = "validated"
    BY <2>a, <2>b
  <2>1. ASSUME NEW s \in Specs, CreateSpec(s)
        PROVE  specs'[runs'[q].spec] = "validated"
    BY <2>1, <2>a DEF CreateSpec, TypeOK
  <2>2. ASSUME NEW s \in Specs, ValidateSpec(s)
        PROVE  specs'[runs'[q].spec] = "validated"
    BY <2>2, <2>a DEF ValidateSpec, TypeOK
  <2>3. ASSUME NEW r \in Runs, NEW task \in TaskTypes,
               NEW s \in Specs \cup {None}, StartAgentRun(r, task, s)
        PROVE  specs'[runs'[q].spec] = "validated"
    BY <2>3, <2>a DEF StartAgentRun, SpecMustBeValidated, TypeOK
  <2>4. ASSUME NEW r \in Runs, NEW st \in RunStatuses \cup {None},
               NEW p \in Patches \cup {None}, UpdateAgentRun(r, st, p)
        PROVE  specs'[runs'[q].spec] = "validated"
    <3>1. runs[r] \in Run
      BY <2>4 DEF UpdateAgentRun, NoRun, TypeOK
    <3>2. runs'[q].task = runs[q].task /\ runs'[q].spec = runs[q].spec
      BY <2>4, <3>1, PatchedColumns DEF UpdateAgentRun, TypeOK
    <3> QED
      BY <2>4, <3>2, <2>b DEF UpdateAgentRun
  <2>5. ASSUME NEW r \in Runs, CutoffPasses(r)
        PROVE  specs'[runs'[q].spec] = "validated"
    BY <2>5, <2>b DEF CutoffPasses
  <2>6. ASSUME ReapOrphanRuns PROVE specs'[runs'[q].spec] = "validated"
    <3>1. runs'[q].task = runs[q].task /\ runs'[q].spec = runs[q].spec
      BY <2>6, ReapedColumns
    <3> QED
      BY <2>6, <3>1, <2>b DEF ReapOrphanRuns
  <2>7. ASSUME NEW c \in Crps, NEW sev \in Severities,
               NEW s \in Specs \cup {None}, NEW r \in Runs \cup {None},
               CreateCrp(c, sev, s, r)
        PROVE  specs'[runs'[q].spec] = "validated"
    <3>1. runs'[q].task = runs[q].task /\ runs'[q].spec = runs[q].spec
      BY <2>7 DEF CreateCrp, TypeOK, Run, NoRun
    <3> QED
      BY <2>7, <3>1, <2>b DEF CreateCrp
  <2>8. ASSUME NEW c \in Crps, CreateVcr(c)
        PROVE  specs'[runs'[q].spec] = "validated"
    BY <2>8, <2>b DEF CreateVcr
  <2>9. CASE UNCHANGED vars
    BY <2>9, <2>b DEF vars
  <2> QED
    BY <2>1, <2>2, <2>3, <2>4, <2>5, <2>6, <2>7, <2>8, <2>9
       DEF Next, SpecStep, RunStep, CrpStep
<1> QED
  BY <1>1, <1>2, TypeCorrect, PTL DEF Spec

-----------------------------------------------------------------------------
\* Every run that a high or critical CRP names stays blocked: the CRP sets
\* it, and no writer of the status accepts a terminal run.
THEOREM HighCrpBlocks == Spec => []HighCrpBlocksRun
<1>1. Init => HighCrpBlocksRun
  BY DEF Init, HighCrpBlocksRun, NoCrp
<1>2. TypeOK /\ HighCrpBlocksRun /\ [Next]_vars => HighCrpBlocksRun'
  <2> SUFFICES ASSUME TypeOK, HighCrpBlocksRun, [Next]_vars,
                      NEW d \in Crps,
                      crps'[d].severity \in Blocking, crps'[d].run # None
               PROVE  runs'[crps'[d].run].status = "blocked"
    BY DEF HighCrpBlocksRun, Blocking
  <2> DEFINE q == crps[d].run
  <2>a. crps[d].severity \in Blocking /\ q # None
          => q \in Runs /\ runs[q].status = "blocked"
    BY DEF TypeOK, HighCrpBlocksRun, Crp, NoCrp
  <2>b. ASSUME crps'[d] = crps[d],
               \A r \in Runs : runs[r].status = "blocked"
                                => runs'[r].status = "blocked"
        PROVE  runs'[crps'[d].run].status = "blocked"
    BY <2>a, <2>b
  <2>1. ASSUME NEW s \in Specs, CreateSpec(s) \/ ValidateSpec(s)
        PROVE  runs'[crps'[d].run].status = "blocked"
    BY <2>1, <2>b DEF CreateSpec, ValidateSpec
  <2>2. ASSUME NEW r \in Runs, NEW task \in TaskTypes,
               NEW s \in Specs \cup {None}, StartAgentRun(r, task, s)
        PROVE  runs'[crps'[d].run].status = "blocked"
    BY <2>2, <2>b DEF StartAgentRun, TypeOK
  <2>3. ASSUME NEW r \in Runs, NEW st \in RunStatuses \cup {None},
               NEW p \in Patches \cup {None}, UpdateAgentRun(r, st, p)
        PROVE  runs'[crps'[d].run].status = "blocked"
    <3>1. \A x \in Runs : runs[x].status = "blocked"
                           => runs'[x].status = "blocked"
      BY <2>3, TerminalPatch DEF TerminalStatuses
    <3> QED
      BY <2>3, <3>1, <2>b DEF UpdateAgentRun
  <2>4. ASSUME NEW r \in Runs, CutoffPasses(r)
        PROVE  runs'[crps'[d].run].status = "blocked"
    BY <2>4, <2>b DEF CutoffPasses
  <2>5. ASSUME ReapOrphanRuns
        PROVE  runs'[crps'[d].run].status = "blocked"
    <3>1. \A x \in Runs : runs[x].status = "blocked"
                           => runs'[x].status = "blocked"
      BY <2>5, ReapedColumns
    <3> QED
      BY <2>5, <3>1, <2>b DEF ReapOrphanRuns
  <2>6. ASSUME NEW c \in Crps, NEW sev \in Severities,
               NEW s \in Specs \cup {None}, NEW r \in Runs \cup {None},
               CreateCrp(c, sev, s, r)
        PROVE  runs'[crps'[d].run].status = "blocked"
    <3>1. \A x \in Runs : runs[x].status = "blocked"
                           => runs'[x].status = "blocked"
      BY <2>6 DEF CreateCrp, TypeOK, Run, NoRun
    <3>2. CASE d # c
      BY <2>6, <3>1, <3>2, <2>b DEF CreateCrp, TypeOK
    <3>3. CASE d = c
      <4>1. crps'[d].severity = sev /\ crps'[d].run = r
        BY <2>6, <3>3 DEF CreateCrp, TypeOK
      <4>2. /\ r \in Runs
            /\ runs' = [runs EXCEPT ![r].status = "blocked"]
        BY <2>6, <4>1 DEF CreateCrp
      <4>3. runs[r] \in Run
        BY <2>6, <4>2 DEF CreateCrp, RunRef, NoRun, TypeOK
      <4> QED
        BY <4>1, <4>2, <4>3 DEF TypeOK, Run
    <3> QED
      BY <3>2, <3>3
  <2>7. ASSUME NEW c \in Crps, CreateVcr(c)
        PROVE  runs'[crps'[d].run].status = "blocked"
    <3>1. crps'[d].severity = crps[d].severity /\ crps'[d].run = crps[d].run
      BY <2>7 DEF CreateVcr, Resolved, TypeOK, Crp, NoCrp
    <3> QED
      BY <2>7, <3>1, <2>a DEF CreateVcr
  <2>8. CASE UNCHANGED vars
    BY <2>8, <2>b DEF vars
  <2> QED
    BY <2>1, <2>2, <2>3, <2>4, <2>5, <2>6, <2>7, <2>8
       DEF Next, SpecStep, RunStep, CrpStep
<1> QED
  BY <1>1, <1>2, TypeCorrect, PTL DEF Spec

-----------------------------------------------------------------------------
\* The status of a CRP and the existence of its VCR agree in every state.
THEOREM ResolutionsAgree == Spec => []ResolvedIffVcr
<1>1. Init => ResolvedIffVcr
  BY DEF Init, ResolvedIffVcr, NoCrp
<1>2. TypeOK /\ ResolvedIffVcr /\ [Next]_vars => ResolvedIffVcr'
  <2> SUFFICES ASSUME TypeOK, ResolvedIffVcr, [Next]_vars
               PROVE  ResolvedIffVcr'
    OBVIOUS
  <2>1. CASE UNCHANGED <<crps, vcrs>>
    BY <2>1 DEF ResolvedIffVcr
  <2>2. ASSUME NEW c \in Crps, NEW sev \in Severities,
               NEW s \in Specs \cup {None}, NEW r \in Runs \cup {None},
               CreateCrp(c, sev, s, r)
        PROVE  ResolvedIffVcr'
    BY <2>2 DEF CreateCrp, ResolvedIffVcr, TypeOK
  <2>3. ASSUME NEW c \in Crps, CreateVcr(c) PROVE ResolvedIffVcr'
    <3>1. crps[c] \in Crp
      BY <2>3 DEF CreateVcr, TypeOK, NoCrp
    <3>2. \A d \in Crps : crps'[d].status = IF d = c THEN "resolved"
                                             ELSE crps[d].status
      BY <2>3, <3>1 DEF CreateVcr, Resolved, TypeOK, Crp
    <3> QED
      BY <2>3, <3>2 DEF CreateVcr, ResolvedIffVcr
  <2> QED
    BY <2>1, <2>2, <2>3
       DEF Next, SpecStep, RunStep, CrpStep, CreateSpec, ValidateSpec,
           StartAgentRun, UpdateAgentRun, CutoffPasses, ReapOrphanRuns, vars
<1> QED
  BY <1>1, <1>2, TypeCorrect, PTL DEF Spec

-----------------------------------------------------------------------------
\* Only the runs a CRP blocked are terminal without a finishing time, and no
\* run has a finishing time before it is terminal.
THEOREM OnlyCrpLeavesUnstamped == Spec => []UnstampedOnlyByCrp
<1> DEFINE BlockedBy(c, r) == /\ crps[c].run = r
                              /\ crps[c].severity \in Blocking
<1> DEFINE Stamped(r) ==
      /\ runs[r].finished => runs[r].status \in TerminalStatuses
      /\ runs[r].status \in TerminalStatuses /\ ~runs[r].finished =>
           \E c \in Crps : BlockedBy(c, r)
<1>0. UnstampedOnlyByCrp <=> \A r \in Runs : Stamped(r)
  BY DEF UnstampedOnlyByCrp
<1>1. Init => UnstampedOnlyByCrp
  BY DEF Init, UnstampedOnlyByCrp, NoRun, TerminalStatuses
<1>2. TypeOK /\ UnstampedOnlyByCrp /\ [Next]_vars => UnstampedOnlyByCrp'
  <2> SUFFICES ASSUME TypeOK, UnstampedOnlyByCrp, [Next]_vars,
                      NEW q \in Runs
               PROVE  Stamped(q)'
    BY DEF UnstampedOnlyByCrp
  <2>a. Stamped(q)
    BY <1>0
  <2> HIDE DEF Stamped
  <2>b. ASSUME runs'[q].status = runs[q].status,
               runs'[q].finished = runs[q].finished,
               \A c \in Crps : BlockedBy(c, q) => BlockedBy(c, q)'
        PROVE  Stamped(q)'
    BY <2>a, <2>b DEF Stamped
  <2>1. ASSUME NEW s \in Specs, CreateSpec(s) \/ ValidateSpec(s)
        PROVE  Stamped(q)'
    BY <2>1, <2>b DEF CreateSpec, ValidateSpec
  <2>2. ASSUME NEW r \in Runs, NEW task \in TaskTypes,
               NEW s \in Specs \cup {None}, StartAgentRun(r, task, s)
        PROVE  Stamped(q)'
    <3>1. CASE q = r
      BY <2>2, <3>1
         DEF StartAgentRun, TypeOK, Stamped, TerminalStatuses
    <3>2. CASE q # r
      BY <2>2, <3>2, <2>b DEF StartAgentRun, TypeOK
    <3> QED
      BY <3>1, <3>2
  <2>3. ASSUME NEW r \in Runs, NEW st \in RunStatuses \cup {None},
               NEW p \in Patches \cup {None}, UpdateAgentRun(r, st, p)
        PROVE  Stamped(q)'
    <3>1. CASE q = r
      <4>1. runs[q] \in Run
        BY <2>3, <3>1 DEF UpdateAgentRun, NoRun, TypeOK
      <4>2. runs'[q] = PatchedRun(runs[q], st, p)
        BY <2>3, <3>1 DEF UpdateAgentRun, TypeOK
      <4>3. /\ runs'[q].status = IF st = None THEN runs[q].status ELSE st
            /\ runs'[q].finished =
                 (runs[q].finished \/ st \in TerminalStatuses)
        BY <4>1, <4>2, PatchedColumns
      <4>4. CASE st = None
        <5>1. st \notin TerminalStatuses
          BY <4>4 DEF TerminalStatuses, RunStatuses
        <5>2. runs'[q].status = runs[q].status
          BY <4>3, <4>4
        <5>3. runs'[q].finished = runs[q].finished
          BY <4>1, <4>3, <5>1 DEF Run
        <5> QED
          BY <2>3, <5>2, <5>3, <2>b DEF UpdateAgentRun
      <4>5. CASE st # None
        <5>1. runs[q].status \notin TerminalStatuses
          BY <2>3, <3>1, <4>5 DEF UpdateAgentRun, Patchable
        <5>2. runs[q].finished = FALSE
          BY <4>1, <5>1, <2>a DEF Stamped, Run
        <5> QED
          BY <4>3, <4>5, <5>2 DEF Stamped
      <4> QED
        BY <4>4, <4>5
    <3>2. CASE q # r
      BY <2>3, <3>2, <2>b DEF UpdateAgentRun, TypeOK
    <3> QED
      BY <3>1, <3>2
  <2>4. ASSUME NEW r \in Runs, CutoffPasses(r) PROVE Stamped(q)'
    BY <2>4, <2>b DEF CutoffPasses
  <2>5. ASSUME ReapOrphanRuns PROVE Stamped(q)'
    <3>1. CASE runs'[q].status = "failed" /\ runs'[q].finished = TRUE
      BY <3>1 DEF Stamped, TerminalStatuses
    <3>2. CASE runs'[q] = runs[q]
      BY <2>5, <3>2, <2>b DEF ReapOrphanRuns
    <3> QED
      BY <2>5, <3>1, <3>2, ReapedColumns
  <2>6. ASSUME NEW c \in Crps, NEW sev \in Severities,
               NEW s \in Specs \cup {None}, NEW r \in Runs \cup {None},
               CreateCrp(c, sev, s, r)
        PROVE  Stamped(q)'
    <3>1. \A d \in Crps : BlockedBy(d, q) => BlockedBy(d, q)'
      <4>1. crps[c] = NoCrp
        BY <2>6 DEF CreateCrp, TypeOK, Crp
      <4>2. ~BlockedBy(c, q)
        BY <4>1 DEF NoCrp, Blocking, Severities
      <4>3. \A d \in Crps \ {c} : crps'[d] = crps[d]
        BY <2>6 DEF CreateCrp, TypeOK
      <4> QED
        BY <4>2, <4>3
    <3>2. CASE runs'[q] = runs[q]
      BY <3>1, <3>2, <2>b
    <3>3. CASE runs'[q] # runs[q]
      <4>1. /\ r = q /\ sev \in Blocking /\ Patchable(q)
            /\ runs' = [runs EXCEPT ![q].status = "blocked"]
        BY <2>6, <3>3 DEF CreateCrp, TypeOK
      <4>2. BlockedBy(c, q)'
        BY <2>6, <4>1 DEF CreateCrp, TypeOK
      <4>3. runs[q] \in Run
        BY <2>6, <4>1 DEF CreateCrp, RunRef, NoRun, TypeOK
      <4>4. runs'[q].status = "blocked"
        BY <4>1, <4>3 DEF TypeOK, Run
      <4> QED
        BY <4>2, <4>4 DEF Stamped, TerminalStatuses
    <3> QED
      BY <3>2, <3>3
  <2>7. ASSUME NEW c \in Crps, CreateVcr(c) PROVE Stamped(q)'
    <3>1. \A d \in Crps : BlockedBy(d, q) => BlockedBy(d, q)'
      BY <2>7 DEF CreateVcr, Resolved, TypeOK, Crp, NoCrp
    <3> QED
      BY <2>7, <3>1, <2>b DEF CreateVcr
  <2>8. CASE UNCHANGED vars
    BY <2>8, <2>b DEF vars
  <2> QED
    BY <2>1, <2>2, <2>3, <2>4, <2>5, <2>6, <2>7, <2>8
       DEF Next, SpecStep, RunStep, CrpStep
<1> QED
  BY <1>1, <1>2, TypeCorrect, PTL DEF Spec

-----------------------------------------------------------------------------
\* No step of any handler, nor of the reaper, moves a run out of a terminal
\* status or changes its stamp.
THEOREM TerminalRunsStay == Spec => TerminalIsFinal
<1>1. TypeOK /\ [Next]_vars =>
        [\A r \in Runs : runs[r].status \in TerminalStatuses =>
           /\ runs'[r].status = runs[r].status
           /\ runs'[r].finished = runs[r].finished]_vars
  <2> SUFFICES ASSUME TypeOK, Next, NEW q \in Runs,
                      runs[q].status \in TerminalStatuses
               PROVE  /\ runs'[q].status = runs[q].status
                      /\ runs'[q].finished = runs[q].finished
    BY DEF vars
  <2>1. CASE UNCHANGED runs
    BY <2>1
  <2>2. ASSUME NEW r \in Runs, NEW task \in TaskTypes,
               NEW s \in Specs \cup {None}, StartAgentRun(r, task, s)
        PROVE  runs'[q] = runs[q]
    BY <2>2 DEF StartAgentRun, TypeOK, TerminalStatuses
  <2>3. ASSUME NEW r \in Runs, NEW st \in RunStatuses \cup {None},
               NEW p \in Patches \cup {None}, UpdateAgentRun(r, st, p)
        PROVE  /\ runs'[q].status = runs[q].status
               /\ runs'[q].finished = runs[q].finished
    BY <2>3, TerminalPatch
  <2>4. ASSUME ReapOrphanRuns PROVE runs'[q] = runs[q]
    BY <2>4 DEF ReapOrphanRuns, Orphans, TerminalStatuses
  <2>5. ASSUME NEW c \in Crps, NEW sev \in Severities,
               NEW s \in Specs \cup {None}, NEW r \in Runs \cup {None},
               CreateCrp(c, sev, s, r)
        PROVE  runs'[q] = runs[q]
    BY <2>5 DEF CreateCrp, Patchable, TypeOK
  <2> QED
    BY <2>1, <2>2, <2>3, <2>4, <2>5
       DEF Next, SpecStep, RunStep, CrpStep, CreateSpec, ValidateSpec,
           CutoffPasses, CreateVcr
<1> QED
  BY <1>1, TypeCorrect, PTL DEF Spec, TerminalIsFinal
=============================================================================
