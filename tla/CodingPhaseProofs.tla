-------------------------- MODULE CodingPhaseProofs --------------------------
(***************************************************************************)
(* Proofs about CodingPhase for any number of clients and specifications.  *)
(* A client is followed by its place in the order of its steps: what it    *)
(* has done before a place is what the end of its run rests on.            *)
(***************************************************************************)
EXTENDS CodingPhase, Integers, SequenceTheorems, TLAPS

CP == INSTANCE ConsultationProofs WITH Runs <- Pipelines, Crps <- Pipelines

USE NameAssumption DEF Cons!NoneAssumption

-----------------------------------------------------------------------------
(* The order of the steps.                                                 *)

\* Every order begins with the start of the run.
LEMMA Orders ==
    ASSUME NEW k \in Kinds, NEW q \in BOOLEAN
    PROVE  LET o == Order(k, q)
           IN  o \in Seq(Steps) /\ Len(o) \in 4 .. 7 /\ o[1] = "start"
<1>1. CASE k = "python" /\ q
  BY <1>1 DEF Order, Steps
<1>2. CASE k = "python" /\ ~q
  BY <1>2 DEF Order, Steps
<1>3. CASE k = "java" /\ q
  BY <1>3 DEF Order, Steps
<1>4. CASE k = "java" /\ ~q
  BY <1>4 DEF Order, Steps
<1>5. CASE k = "design"
  BY <1>5 DEF Order, Steps
<1>6. CASE k = "strict" /\ q
  BY <1>6 DEF Order, Steps
<1>7. CASE k = "strict" /\ ~q
  BY <1>7 DEF Order, Steps
<1> QED
  BY <1>1, <1>2, <1>3, <1>4, <1>5, <1>6, <1>7 DEF Kinds

\* Which step comes after the i-th of the order o, as far as the clients of
\* kind k get.
Follow(o, k, q, i) ==
    LET last == i = Len(o)
        next(S) == i < Len(o) /\ o[i + 1] \in S
    IN  /\ o[i] = "start" => next({"work"})
        /\ o[i] = "work" => \/ k = "python" /\ next({"mrp"})
                            \/ k = "java" /\ next({"pr_number"})
                            \/ k = "strict" /\ next({"proposal"})
                            \/ k = "design"
        /\ o[i] = "proposal" => k = "strict" /\ next({"mrp"})
        /\ o[i] = "mrp" => \/ k = "python" /\ next({"patch"})
                           \/ k = "strict" /\ next({"verify"})
                           \/ k \in {"java", "design"}
        /\ o[i] = "verify" => k = "strict" /\ next({"crp", "patch"})
        /\ o[i] = "crp" => /\ q
                           /\ \/ k = "python" /\ next({"evidence"})
                              \/ k = "strict" /\ next({"patch"})
                              \/ k = "java"
        /\ o[i] = "patch" => \/ k = "python" /\ q /\ next({"crp"})
                             \/ k = "python" /\ ~q /\ next({"evidence"})
                             \/ k = "strict" /\ last
                             \/ k \in {"java", "design"}
        /\ o[i] = "evidence" => k = "python" /\ last
        /\ o[i] = "pr_number" => k = "java"

\* The orders are followed like that.
LEMMA Successors ==
    ASSUME NEW k \in Kinds, NEW q \in BOOLEAN,
           NEW i \in 1 .. Len(Order(k, q))
    PROVE  Follow(Order(k, q), k, q, i)
<1> USE DEF Follow
<1>1. CASE k = "python" /\ q
  BY <1>1 DEF Order
<1>2. CASE k = "python" /\ ~q
  BY <1>2 DEF Order
<1>3. CASE k = "java" /\ q
  BY <1>3 DEF Order
<1>4. CASE k = "java" /\ ~q
  BY <1>4 DEF Order
<1>5. CASE k = "design"
  BY <1>5 DEF Order
<1>6. CASE k = "strict" /\ q
  BY <1>6 DEF Order
<1>7. CASE k = "strict" /\ ~q
  BY <1>7 DEF Order
<1> QED
  BY <1>1, <1>2, <1>3, <1>4, <1>5, <1>6, <1>7 DEF Kinds

\* The order of a client, and its place there.
OrderOf(p) == Order(kind[p], work[p].questions)

Here(p, i) ==
    /\ i \in 1 .. Len(OrderOf(p))
    /\ todo[p] = SubSeq(OrderOf(p), i, Len(OrderOf(p)))

\* The next step of a client at a place, and what it has left.
LEMMA AtPlace ==
    ASSUME kind \in [Pipelines -> Kinds], work \in [Pipelines -> Work],
           NEW p \in Pipelines, NEW i, Here(p, i)
    PROVE  /\ i \in 1 .. Len(OrderOf(p)) /\ Len(OrderOf(p)) \in Nat
           /\ Head(todo[p]) = OrderOf(p)[i]
           /\ Len(todo[p]) = Len(OrderOf(p)) - i + 1
           /\ Tail(todo[p]) = SubSeq(OrderOf(p), i + 1, Len(OrderOf(p)))
           /\ todo[p] \in Seq(Steps) /\ Tail(todo[p]) \in Seq(Steps)
<1> DEFINE o == OrderOf(p)
<1>1. o \in Seq(Steps) /\ Len(o) \in 4 .. 7
  BY Orders DEF OrderOf, Work
<1>2. i \in 1 .. Len(o) /\ todo[p] = SubSeq(o, i, Len(o))
  BY DEF Here
<1>3. i \in Int /\ Len(o) \in Nat /\ i <= Len(o)
  BY <1>1, <1>2
<1> HIDE DEF o
<1>4. /\ Head(SubSeq(o, i, Len(o))) = o[i]
      /\ Tail(SubSeq(o, i, Len(o))) = SubSeq(o, i + 1, Len(o))
  BY <1>1, <1>2, <1>3, HeadTailOfSubSeq
<1>5. /\ SubSeq(o, i, Len(o)) \in Seq(Steps)
      /\ Len(SubSeq(o, i, Len(o))) = Len(o) - i + 1
  BY <1>1, <1>2, <1>3, SubSeqProperties
<1>6. SubSeq(o, i, Len(o)) # <<>>
  <2>1. Len(SubSeq(o, i, Len(o))) # Len(<<>>)
    BY <1>3, <1>5
  <2> QED
    BY <2>1
<1>7. Tail(SubSeq(o, i, Len(o))) \in Seq(Steps)
  BY <1>5, <1>6, HeadTailProperties
<1> QED
  BY <1>2, <1>3, <1>4, <1>5, <1>7 DEF o

-----------------------------------------------------------------------------
(* The rows behind the calls.                                              *)

\* What the clients write has the types of the columns.
LEMMA Written ==
    ASSUME NEW p \in Pipelines
    PROVE  /\ FinalStatus(p) \in Cons!TerminalStatuses
           /\ FinalStatus(p) # None
           /\ FinalPatch(p) \in Patches
           /\ TaskOf(p) \in Cons!TaskTypes
           /\ Cons!TerminalStatuses \subseteq Cons!RunStatuses
  BY DEF FinalStatus, FinalPatch, TaskOf, Patches, Cons!TerminalStatuses,
         Cons!RunStatuses, Cons!TaskTypes

\* Every step of a client or of its environment is a step of Consultation, or
\* leaves its rows alone.
LEMMA StepsOfConsultation ==
    ASSUME Cons!TypeOK, [Next]_vars
    PROVE  [Cons!Next]_(Cons!vars)
<1>1. CASE Environment
  BY <1>1 DEF Environment, Cons!Next, Cons!RunStep
<1>2. ASSUME NEW p \in Pipelines, NEW s \in Specs, Start(p, s)
      PROVE  [Cons!Next]_(Cons!vars)
  BY <1>2, Written DEF Start, Cons!Next, Cons!RunStep, consVars, Cons!vars
<1>3. ASSUME NEW p \in Pipelines, Propose(p) PROVE [Cons!Next]_(Cons!vars)
  BY <1>3 DEF Propose, Cons!Next, Cons!RunStep, consVars, Cons!vars, Patches
<1>4. ASSUME NEW p \in Pipelines, TerminalPatch(p) PROVE [Cons!Next]_(Cons!vars)
  BY <1>4, Written DEF TerminalPatch, Cons!Next, Cons!RunStep, consVars, Cons!vars
<1>5. ASSUME NEW p \in Pipelines, MarkFailed(p) PROVE [Cons!Next]_(Cons!vars)
  BY <1>5 DEF MarkFailed, Cons!Next, Cons!RunStep, consVars, Cons!vars,
              Cons!RunStatuses
<1>6. ASSUME NEW p \in Pipelines, RaiseCrp(p) PROVE [Cons!Next]_(Cons!vars)
  <2>1. runs[p].spec \in Specs \cup {None} /\ "high" \in Cons!Severities
    BY DEF Cons!TypeOK, Cons!Run, Cons!NoRun, Cons!Severities
  <2>2. ASSUME Cons!CreateCrp(p, "high", runs[p].spec, p) PROVE Cons!CrpStep
    BY <2>1, <2>2 DEF Cons!CrpStep
  <2> QED
    BY <1>6, <2>2 DEF RaiseCrp, Cons!Next, consVars, Cons!vars
<1>7. ASSUME NEW p \in Pipelines,
             \/ \E questions \in BOOLEAN : Invoke(p, questions)
             \/ \E passed \in BOOLEAN : DoWork(p, passed) \/ AwaitVerdict(p, passed)
             \/ PrNumber(p) \/ CreateMrp(p) \/ RecordEvidence(p) \/ Kill(p)
      PROVE  UNCHANGED Cons!vars
  BY <1>7 DEF Invoke, DoWork, AwaitVerdict, PrNumber, CreateMrp,
              RecordEvidence, Kill, consVars, Cons!vars
<1>8. CASE UNCHANGED vars
  BY <1>8 DEF vars, consVars, Cons!vars
<1> QED
  BY <1>1, <1>2, <1>3, <1>4, <1>5, <1>6, <1>7, <1>8 DEF Next, Step

\* Consultation keeps the types of its rows.
LEMMA RowTypes ==
    ASSUME Cons!TypeOK, [Cons!Next]_(Cons!vars)
    PROVE  Cons!TypeOK'
<1> USE DEF Cons!TypeOK
<1>1. CASE Cons!SpecStep
  BY <1>1 DEF Cons!SpecStep, Cons!CreateSpec, Cons!ValidateSpec
<1>2. ASSUME NEW r \in Pipelines, NEW task \in Cons!TaskTypes,
             NEW s \in Specs \cup {None}, Cons!StartAgentRun(r, task, s)
      PROVE  Cons!TypeOK'
  BY <1>2 DEF Cons!StartAgentRun, Cons!Run, Cons!RunStatuses
<1>3. ASSUME NEW r \in Pipelines, NEW st \in Cons!RunStatuses \cup {None},
             NEW pt \in Patches \cup {None}, Cons!UpdateAgentRun(r, st, pt)
      PROVE  Cons!TypeOK'
  <2>1. runs[r] \in Cons!Run
    BY <1>3 DEF Cons!UpdateAgentRun, Cons!NoRun
  <2>2. Cons!PatchedRun(runs[r], st, pt) \in Cons!Run
    BY <2>1 DEF Cons!PatchedRun, Cons!Run
  <2> QED
    BY <1>3, <2>2 DEF Cons!UpdateAgentRun
<1>4. ASSUME NEW r \in Pipelines, Cons!CutoffPasses(r) PROVE Cons!TypeOK'
  BY <1>4 DEF Cons!CutoffPasses
<1>5. CASE Cons!ReapOrphanRuns
  <2>1. ASSUME NEW r \in Cons!Orphans
        PROVE  r \in Pipelines /\ Cons!ReapedRun(runs[r]) \in Cons!Run
    <3>1. r \in Pipelines /\ runs[r] \in Cons!Run
      BY <2>1 DEF Cons!Orphans, Cons!NoRun
    <3> QED
      BY <3>1 DEF Cons!ReapedRun, Cons!Run, Cons!RunStatuses
  <2>2. runs' \in [Pipelines -> Cons!Run \cup {Cons!NoRun}]
    BY <1>5, <2>1 DEF Cons!ReapOrphanRuns
  <2> QED
    BY <1>5, <2>2 DEF Cons!ReapOrphanRuns
<1>6. ASSUME NEW c \in Pipelines, NEW sev \in Cons!Severities,
             NEW s \in Specs \cup {None}, NEW r \in Pipelines \cup {None},
             Cons!CreateCrp(c, sev, s, r)
      PROVE  Cons!TypeOK'
  <2>1. crps' \in [Pipelines -> Cons!Crp \cup {Cons!NoCrp}]
    BY <1>6 DEF Cons!CreateCrp, Cons!Crp
  <2>2. runs' = runs \/ \E q \in Pipelines :
           /\ runs[q] \in Cons!Run
           /\ runs' = [runs EXCEPT ![q].status = "blocked"]
    BY <1>6 DEF Cons!CreateCrp, Cons!RunRef, Cons!NoRun
  <2>3. runs' \in [Pipelines -> Cons!Run \cup {Cons!NoRun}]
    BY <2>2 DEF Cons!Run, Cons!RunStatuses
  <2> QED
    BY <1>6, <2>1, <2>3 DEF Cons!CreateCrp
<1>7. ASSUME NEW c \in Pipelines, Cons!CreateVcr(c) PROVE Cons!TypeOK'
  <2>1. crps[c] \in Cons!Crp
    BY <1>7 DEF Cons!CreateVcr, Cons!NoCrp
  <2>2. crps' \in [Pipelines -> Cons!Crp \cup {Cons!NoCrp}]
    BY <1>7, <2>1 DEF Cons!CreateVcr, Cons!Resolved, Cons!Crp
  <2> QED
    BY <1>7, <2>2 DEF Cons!CreateVcr
<1>8. CASE UNCHANGED Cons!vars
  BY <1>8 DEF Cons!vars
<1> QED
  BY <1>1, <1>2, <1>3, <1>4, <1>5, <1>6, <1>7, <1>8
     DEF Cons!Next, Cons!RunStep, Cons!CrpStep

\* The clients and their environment implement the consultation loop, whose
\* theorems therefore hold here.
THEOREM ImplementsConsultation == Spec => Cons!Spec
<1>1. Init => Cons!Init /\ Cons!TypeOK
  BY DEF Init, Cons!Init, Cons!TypeOK
<1>2. Cons!TypeOK /\ [Next]_vars => Cons!TypeOK' /\ [Cons!Next]_(Cons!vars)
  BY StepsOfConsultation, RowTypes
<1> QED
  BY <1>1, <1>2, PTL DEF Spec, Cons!Spec

\* The two instances of Consultation are the same specification.
LEMMA SameSpec == Cons!Spec => CP!Spec
<1>1. Cons!Init => CP!Init
  BY DEF Cons!Init, CP!Init, Cons!NoRun, CP!NoRun, Cons!NoCrp, CP!NoCrp
<1>2. Cons!SpecStep => CP!SpecStep
  BY DEF Cons!SpecStep, CP!SpecStep, Cons!CreateSpec, CP!CreateSpec,
         Cons!ValidateSpec, CP!ValidateSpec
<1>3. Cons!RunStep => CP!RunStep
  BY DEF Cons!RunStep, CP!RunStep, Cons!StartAgentRun, CP!StartAgentRun,
         Cons!UpdateAgentRun, CP!UpdateAgentRun,
         Cons!CutoffPasses, CP!CutoffPasses,
         Cons!ReapOrphanRuns, CP!ReapOrphanRuns,
         Cons!SpecMustBeValidated, CP!SpecMustBeValidated,
         Cons!Patchable, CP!Patchable, Cons!PatchedRun, CP!PatchedRun,
         Cons!Orphans, CP!Orphans, Cons!ReapedRun, CP!ReapedRun,
         Cons!SpecRef, CP!SpecRef, Cons!RunStatuses, CP!RunStatuses,
         Cons!TerminalStatuses, CP!TerminalStatuses,
         Cons!TaskTypes, CP!TaskTypes
<1>4. Cons!CrpStep => CP!CrpStep
  BY DEF Cons!CrpStep, CP!CrpStep, Cons!CreateCrp, CP!CreateCrp,
         Cons!SpecRef, CP!SpecRef, Cons!RunRef, CP!RunRef,
         Cons!Patchable, CP!Patchable, Cons!Blocking, CP!Blocking,
         Cons!Severities, CP!Severities,
         Cons!TerminalStatuses, CP!TerminalStatuses
<1>5. ASSUME NEW c \in Pipelines, Cons!CreateVcr(c) PROVE CP!CreateVcr(c)
  BY <1>5 DEF Cons!CreateVcr, CP!CreateVcr, Cons!Resolved, CP!Resolved
<1>6. [Cons!Next]_(Cons!vars) => [CP!Next]_(CP!vars)
  BY <1>2, <1>3, <1>4, <1>5 DEF Cons!Next, CP!Next, Cons!vars, CP!vars
<1> QED
  BY <1>1, <1>6, PTL DEF Cons!Spec, CP!Spec

\* The theorems of Consultation, read through the instance of the clients.
LEMMA SameProperties ==
    /\ CP!NoneAssumption
    /\ CP!TypeOK => Cons!TypeOK
    /\ CP!ValidatedBeforeCodegen <=> Cons!ValidatedBeforeCodegen
    /\ CP!HighCrpBlocksRun <=> Cons!HighCrpBlocksRun
    /\ CP!ResolvedIffVcr <=> Cons!ResolvedIffVcr
    /\ CP!UnstampedOnlyByCrp <=> Cons!UnstampedOnlyByCrp
<1> USE DEF Cons!RunStatuses, CP!RunStatuses, Cons!TaskTypes, CP!TaskTypes,
            Cons!Severities, CP!Severities
<1>1. CP!NoneAssumption
  BY DEF CP!NoneAssumption
<1>2. CP!TypeOK => Cons!TypeOK
  BY DEF Cons!TypeOK, CP!TypeOK, Cons!Run, CP!Run, Cons!Crp, CP!Crp,
         Cons!NoRun, CP!NoRun, Cons!NoCrp, CP!NoCrp
<1> QED
  BY <1>1, <1>2
     DEF Cons!ValidatedBeforeCodegen, CP!ValidatedBeforeCodegen,
         Cons!HighCrpBlocksRun, CP!HighCrpBlocksRun,
         Cons!ResolvedIffVcr, CP!ResolvedIffVcr,
         Cons!UnstampedOnlyByCrp, CP!UnstampedOnlyByCrp,
         Cons!Blocking, CP!Blocking,
         Cons!TerminalStatuses, CP!TerminalStatuses

\* What the clients send, in whatever order and with whatever is lost, cannot
\* break what the consultation loop promises: no code generation from an
\* unvalidated specification, a run under a blocking CRP stays blocked, a CRP
\* is resolved exactly when it has its VCR, only a CRP leaves a run unstamped,
\* and no terminal patch or except block moves a run that has ended.
THEOREM ConsultationHolds ==
    /\ Spec => [](/\ Cons!ValidatedBeforeCodegen
                  /\ Cons!HighCrpBlocksRun
                  /\ Cons!ResolvedIffVcr
                  /\ Cons!UnstampedOnlyByCrp)
    /\ Spec => Cons!TerminalIsFinal
<1>1. CP!Spec => [](/\ CP!ValidatedBeforeCodegen
                    /\ CP!HighCrpBlocksRun
                    /\ CP!ResolvedIffVcr
                    /\ CP!UnstampedOnlyByCrp)
  BY SameProperties, CP!CodegenIsValidated, CP!HighCrpBlocks,
     CP!ResolutionsAgree, CP!OnlyCrpLeavesUnstamped, PTL
<1>2. CP!Spec => CP!TerminalIsFinal
  BY SameProperties, CP!TerminalRunsStay
<1>3. CP!TerminalIsFinal => Cons!TerminalIsFinal
  BY DEF CP!TerminalIsFinal, Cons!TerminalIsFinal, CP!TerminalStatuses,
         Cons!TerminalStatuses, CP!vars, Cons!vars
<1> QED
  BY <1>1, <1>2, <1>3, SameProperties, ImplementsConsultation, SameSpec, PTL

-----------------------------------------------------------------------------
(* Where a client is, and what it has done by then.                        *)

\* The row of a run after a PATCH.
LEMMA PatchedRow ==
    ASSUME Cons!TypeOK, NEW p \in Pipelines,
           NEW st \in Cons!RunStatuses \cup {None},
           NEW pt \in Patches \cup {None}, Cons!UpdateAgentRun(p, st, pt)
    PROVE  /\ runs[p].status # "absent"
           /\ st # None => runs[p].status \notin Cons!TerminalStatuses
           /\ runs'[p].status = IF st # None THEN st ELSE runs[p].status
           /\ runs'[p].provenance = IF pt # None THEN pt ELSE runs[p].provenance
           /\ \A q \in Pipelines \ {p} : runs'[q] = runs[q]
<1>1. runs[p] \in Cons!Run
  BY DEF Cons!UpdateAgentRun, Cons!NoRun, Cons!TypeOK
<1> QED
  BY <1>1 DEF Cons!UpdateAgentRun, Cons!PatchedRun, Cons!Patchable, Cons!Run,
              Cons!TypeOK

\* Before the step a, a client has created its MRP, ended its run or done
\* nothing, as its order says; the Spring Boot coder and the designer come to
\* a halt early.
Knows(p, a) ==
    /\ kind[p] = "java" => a \in {"start", "work", "pr_number"}
    /\ kind[p] = "design" => a = "start"
    /\ a = "start" => runs[p].status = "absent"
    /\ a \in {"verify", "patch", "crp", "evidence"} => p \in mrps
    /\ a = "evidence" \/ (a = "crp" /\ kind[p] = "python") =>
         runs[p].status # "running"
    /\ runs[p].status = "completed" => a = "evidence"

\* The run of a client says what its control flow has come to.
Consistent(p) ==
    /\ phase[p] = "idle" \/ kind[p] = "design" => runs[p].status = "absent"
    /\ phase[p] = "ended" /\ kind[p] # "strict" /\ p \notin faulted =>
         runs[p].status # "running"
    /\ runs[p].status = "completed" =>
         /\ work[p].passed /\ ~work[p].questions
         /\ runs[p].provenance = "packaged" /\ p \in mrps
    /\ runs[p].status = "blocked" =>
         work[p].questions /\ kind[p] \in {"python", "strict"}

OnCourse(p) ==
    phase[p] = "going" =>
        \E i \in 1 .. Len(OrderOf(p)) : Here(p, i) /\ Knows(p, OrderOf(p)[i])

Course == \A p \in Pipelines : OnCourse(p) /\ Consistent(p)

\* A client is not concerned by a step that leaves its run and process alone.
LEMMA Elsewhere ==
    ASSUME NEW q \in Pipelines, OnCourse(q), Consistent(q), kind' = kind,
           runs'[q] = runs[q], phase'[q] = phase[q], todo'[q] = todo[q],
           work'[q] = work[q], q \in mrps => q \in mrps',
           q \in faulted => q \in faulted'
    PROVE  OnCourse(q)' /\ Consistent(q)'
<1>1. OrderOf(q)' = OrderOf(q)
  BY DEF OrderOf
<1>2. ASSUME NEW i, Here(q, i), Knows(q, OrderOf(q)[i])
      PROVE  Here(q, i)' /\ Knows(q, OrderOf(q)[i])'
  BY <1>1, <1>2 DEF Here, Knows
<1> QED
  BY <1>1, <1>2 DEF OnCourse, Consistent

\* What returning from a step does: the client goes on to the next place.
LEMMA Returned ==
    ASSUME TypeOK, NEW p \in Pipelines, NEW i, Here(p, i), phase[p] = "going",
           Return(p), kind' = kind,
           work'[p].questions = work[p].questions
    PROVE  /\ OrderOf(p)' = OrderOf(p)
           /\ i = Len(OrderOf(p)) => phase'[p] = "ended"
           /\ i < Len(OrderOf(p)) => phase'[p] = "going" /\ Here(p, i + 1)'
           /\ i \in 1 .. Len(OrderOf(p)) /\ Len(OrderOf(p)) \in Nat
           /\ todo' \in [Pipelines -> Seq(Steps)]
           /\ phase' \in [Pipelines -> Phases]
<1> USE DEF TypeOK
<1>1. OrderOf(p)' = OrderOf(p)
  BY DEF OrderOf
<1>2. /\ i \in 1 .. Len(OrderOf(p)) /\ Len(OrderOf(p)) \in Nat
      /\ Len(todo[p]) = Len(OrderOf(p)) - i + 1
      /\ Tail(todo[p]) = SubSeq(OrderOf(p), i + 1, Len(OrderOf(p)))
      /\ Tail(todo[p]) \in Seq(Steps)
  BY AtPlace
<1>3. Len(todo[p]) = 1 <=> i = Len(OrderOf(p))
  BY <1>2
<1>4. i < Len(OrderOf(p)) => i + 1 \in 1 .. Len(OrderOf(p))
  BY <1>2
<1>5. todo'[p] = Tail(todo[p]) /\ todo' \in [Pipelines -> Seq(Steps)]
  BY <1>2 DEF Return
<1>6. /\ phase'[p] = IF Len(todo[p]) = 1 THEN "ended" ELSE "going"
      /\ phase' \in [Pipelines -> Phases]
  BY DEF Return, Phases
<1> QED
  BY <1>1, <1>2, <1>3, <1>4, <1>5, <1>6 DEF Here

\* What raising does: the client fails its run next, or is at its end.
LEMMA Raised ==
    ASSUME TypeOK, NEW p \in Pipelines, NEW a, Raise(p, a)
    PROVE  /\ phase'[p] = IF Caught(p, a) THEN "failing" ELSE "ended"
           /\ phase' \in [Pipelines -> Phases]
           /\ todo' = todo
  BY DEF Raise, TypeOK, Phases

\* A call of a client leaves the others' processes alone.
LEMMA OthersStay ==
    ASSUME TypeOK, NEW p \in Pipelines, NEW a, Return(p) \/ Raise(p, a)
    PROVE  \A q \in Pipelines \ {p} : phase'[q] = phase[q] /\ todo'[q] = todo[q]
  BY DEF Return, Raise, TypeOK

\* A client at a step is at a place with that step, and what comes after it is
\* as the order says.
LEMMA AtStep ==
    ASSUME TypeOK, Course, NEW p \in Pipelines, NEW a, At(p, a)
    PROVE  \E i \in 1 .. Len(OrderOf(p)) :
              Here(p, i) /\ OrderOf(p)[i] = a /\ Knows(p, a) /\ phase[p] = "going"
  BY AtPlace DEF TypeOK, Course, OnCourse, At

\* A client that goes on is on its course when it knows enough at the next
\* place.
LEMMA GoesOn ==
    ASSUME TypeOK, NEW p \in Pipelines, NEW i, Here(p, i), phase[p] = "going",
           Return(p), kind' = kind,
           work'[p].questions = work[p].questions,
           i < Len(OrderOf(p)) => Knows(p, OrderOf(p)[i + 1])'
    PROVE  OnCourse(p)'
<1>1. CASE i = Len(OrderOf(p))
  BY <1>1, Returned DEF OnCourse
<1>2. CASE i < Len(OrderOf(p))
  <2>1. /\ OrderOf(p)' = OrderOf(p)
        /\ Here(p, i + 1)'
        /\ Knows(p, OrderOf(p)[i + 1])'
    BY <1>2, Returned
  <2>2. i + 1 \in 1 .. Len(OrderOf(p))'
    BY <2>1 DEF Here
  <2> QED
    BY <2>1, <2>2 DEF OnCourse
<1>3. i = Len(OrderOf(p)) \/ i < Len(OrderOf(p))
  BY Returned
<1> QED
  BY <1>1, <1>2, <1>3

\* A client that raises is on no course any more.
LEMMA FallsOff ==
    ASSUME TypeOK, NEW p \in Pipelines, NEW a, Raise(p, a)
    PROVE  OnCourse(p)'
  BY Raised DEF OnCourse

\* The step after a client's place, by its kind.
LEMMA After ==
    ASSUME TypeOK, NEW p \in Pipelines, NEW i \in 1 .. Len(OrderOf(p))
    PROVE  Follow(OrderOf(p), kind[p], work[p].questions, i)
<1>1. kind[p] \in Kinds /\ work[p].questions \in BOOLEAN
  BY DEF TypeOK, Work
<1> QED
  BY <1>1, Successors DEF OrderOf

-----------------------------------------------------------------------------
(* The steps of a client.                                                  *)

\* Starting a run, or being refused.
LEMMA StartStep ==
    ASSUME TypeOK, Course, NEW p \in Pipelines, NEW s \in Specs, Start(p, s)
    PROVE  OnCourse(p)' /\ Consistent(p)'
<1>1. PICK i \in 1 .. Len(OrderOf(p)) :
         Here(p, i) /\ OrderOf(p)[i] = "start" /\ Knows(p, "start") /\ phase[p] = "going"
  BY AtStep DEF Start
<1>2. i < Len(OrderOf(p)) /\ OrderOf(p)[i + 1] = "work"
  BY <1>1, After DEF Follow
<1>3. /\ kind' = kind /\ work' = work /\ mrps' = mrps
      /\ runs[p].status = "absent"
  BY <1>1 DEF Start, packVars, Knows
<1>4. ~Caught(p, "start")
  BY DEF Caught
<1>5. CASE RoleExists(p) /\ Cons!StartAgentRun(p, TaskOf(p), s) /\ Served(p, "start")
  <2>1. runs'[p].status = "running" /\ kind[p] # "design"
    BY <1>5 DEF Cons!StartAgentRun, RoleExists, TypeOK, Cons!TypeOK
  <2>2. CASE Return(p) /\ UNCHANGED faulted
    <3>1. /\ OrderOf(p)' = OrderOf(p) /\ phase'[p] = "going"
      BY <1>1, <1>2, <1>3, <2>2, Returned
    <3>2. Knows(p, OrderOf(p)[i + 1])'
      BY <1>2, <1>3, <2>1, <3>1 DEF Knows
    <3>3. OnCourse(p)'
      BY <1>1, <1>3, <2>2, <3>2, GoesOn
    <3> QED
      BY <1>3, <2>1, <3>1, <3>3 DEF Consistent
  <2>3. CASE Raise(p, "start") /\ Fault(p)
    BY <1>3, <1>4, <2>1, <2>3, Raised, FallsOff DEF Consistent, Fault
  <2> QED
    BY <1>5, <2>2, <2>3 DEF Served
<1>6. CASE UNCHANGED consVars /\ Raise(p, "start")
  BY <1>3, <1>4, <1>6, Raised, FallsOff DEF Consistent, consVars
<1> QED
  BY <1>5, <1>6 DEF Start, Unserved

\* Working without the API.
LEMMA WorkStep ==
    ASSUME TypeOK, Course, NEW p \in Pipelines, NEW passed \in BOOLEAN,
           DoWork(p, passed)
    PROVE  OnCourse(p)' /\ Consistent(p)'
<1>1. PICK i \in 1 .. Len(OrderOf(p)) :
         Here(p, i) /\ OrderOf(p)[i] = "work" /\ Knows(p, "work") /\ phase[p] = "going"
  BY AtStep DEF DoWork
<1>2. /\ kind[p] # "design" /\ runs[p].status # "completed"
      /\ i < Len(OrderOf(p))
      /\ \/ kind[p] = "java" /\ OrderOf(p)[i + 1] = "pr_number"
         \/ kind[p] # "java" /\ OrderOf(p)[i + 1] \in {"mrp", "proposal"}
  BY <1>1, After DEF Knows, Follow
<1>3. /\ kind' = kind /\ runs' = runs /\ mrps' = mrps /\ faulted' = faulted
      /\ work'[p].questions = work[p].questions
  BY DEF DoWork, packVars, consVars, TypeOK, Work
<1>4. Caught(p, "work")
  BY DEF Caught
<1>5. CASE Return(p)
  <2>1. OrderOf(p)' = OrderOf(p) /\ phase'[p] = "going"
    BY <1>1, <1>2, <1>3, <1>5, Returned
  <2>2. Knows(p, OrderOf(p)[i + 1])'
    BY <1>2, <1>3, <2>1 DEF Knows
  <2>3. OnCourse(p)'
    BY <1>1, <1>3, <1>5, <2>2, GoesOn
  <2> QED
    BY <1>2, <1>3, <2>1, <2>3 DEF Consistent, Course
<1>6. CASE Raise(p, "work")
  BY <1>2, <1>3, <1>4, <1>6, Raised, FallsOff DEF Consistent, Course
<1> QED
  BY <1>5, <1>6 DEF DoWork

\* Proposing what was committed.
LEMMA ProposeStep ==
    ASSUME TypeOK, Course, NEW p \in Pipelines, Propose(p)
    PROVE  OnCourse(p)' /\ Consistent(p)'
<1>1. PICK i \in 1 .. Len(OrderOf(p)) :
         Here(p, i) /\ OrderOf(p)[i] = "proposal" /\ Knows(p, "proposal") /\ phase[p] = "going"
  BY AtStep DEF Propose
<1>2. /\ kind[p] = "strict" /\ runs[p].status # "completed"
      /\ i < Len(OrderOf(p)) /\ OrderOf(p)[i + 1] = "mrp"
  BY <1>1, After DEF Knows, Follow
<1>3. kind' = kind /\ work' = work /\ mrps' = mrps
  BY DEF Propose, packVars
<1>4. runs'[p].status = runs[p].status
  BY PatchedRow DEF Propose, consVars, TypeOK, Patches, Unserved
<1>5. Consistent(p)' /\ (Return(p) => Knows(p, OrderOf(p)[i + 1])')
  <2>1. Return(p) => OrderOf(p)' = OrderOf(p) /\ phase'[p] = "going"
    BY <1>1, <1>2, <1>3, Returned
  <2>2. Raise(p, "proposal") => phase'[p] = "failing"
    BY <1>2, Raised DEF Caught
  <2>3. phase'[p] \notin {"idle", "ended"}
    BY <2>1, <2>2 DEF Propose, Served, Unserved
  <2> QED
    BY <1>2, <1>3, <1>4, <2>1, <2>3 DEF Consistent, Course, Knows
<1>6. CASE Return(p)
  BY <1>1, <1>3, <1>5, <1>6, GoesOn
<1>7. CASE Raise(p, "proposal")
  BY <1>5, <1>7, FallsOff
<1> QED
  BY <1>5, <1>6, <1>7 DEF Propose, Served, Unserved

\* Asking for a pull-request number, which only the Spring Boot coder does.
LEMMA PrNumberStep ==
    ASSUME TypeOK, Course, NEW p \in Pipelines, PrNumber(p)
    PROVE  OnCourse(p)' /\ Consistent(p)'
<1>1. PICK i \in 1 .. Len(OrderOf(p)) :
         Here(p, i) /\ OrderOf(p)[i] = "pr_number" /\ Knows(p, "pr_number") /\ phase[p] = "going"
  BY AtStep DEF PrNumber
<1>2. kind[p] = "java"
  BY <1>1, After DEF Follow
<1>3. /\ kind' = kind /\ work' = work /\ mrps' = mrps /\ runs' = runs
      /\ Raise(p, "pr_number")
  BY DEF PrNumber, packVars, consVars
<1>4. phase'[p] = "failing"
  BY <1>2, <1>3, Raised DEF Caught
<1> QED
  BY <1>2, <1>3, <1>4, FallsOff DEF Consistent, Course

\* Creating the pack.
LEMMA MrpStep ==
    ASSUME TypeOK, Course, NEW p \in Pipelines, CreateMrp(p)
    PROVE  OnCourse(p)' /\ Consistent(p)'
<1>1. PICK i \in 1 .. Len(OrderOf(p)) :
         Here(p, i) /\ OrderOf(p)[i] = "mrp" /\ Knows(p, "mrp") /\ phase[p] = "going"
  BY AtStep DEF CreateMrp
<1>2. /\ kind[p] \in {"python", "strict"} /\ runs[p].status # "completed"
      /\ i < Len(OrderOf(p)) /\ OrderOf(p)[i + 1] \in {"patch", "verify"}
  BY <1>1, After DEF Knows, Follow
<1>3. kind' = kind /\ work' = work /\ runs' = runs
  BY DEF CreateMrp, consVars
<1>4. CASE Return(p) /\ p \in mrps'
  <2>1. OrderOf(p)' = OrderOf(p) /\ phase'[p] = "going"
    BY <1>1, <1>2, <1>3, <1>4, Returned
  <2>2. Knows(p, OrderOf(p)[i + 1])'
    BY <1>2, <1>3, <1>4, <2>1 DEF Knows
  <2>3. OnCourse(p)'
    BY <1>1, <1>3, <1>4, <2>2, GoesOn
  <2> QED
    BY <1>2, <1>3, <2>1, <2>3 DEF Consistent, Course
<1>5. CASE Raise(p, "mrp")
  <2>1. phase'[p] = "failing" \/ (kind[p] = "strict" /\ phase'[p] = "ended")
    BY <1>2, <1>5, Raised DEF Caught
  <2> QED
    BY <1>2, <1>3, <1>5, <2>1, FallsOff DEF Consistent, Course
<1> QED
  BY <1>4, <1>5 DEF CreateMrp, Served, Unserved

\* Waiting for the verdict.
LEMMA VerdictStep ==
    ASSUME TypeOK, Course, NEW p \in Pipelines, NEW passed \in BOOLEAN,
           AwaitVerdict(p, passed)
    PROVE  OnCourse(p)' /\ Consistent(p)'
<1>1. PICK i \in 1 .. Len(OrderOf(p)) :
         Here(p, i) /\ OrderOf(p)[i] = "verify" /\ Knows(p, "verify") /\ phase[p] = "going"
  BY AtStep DEF AwaitVerdict
<1>2. /\ kind[p] = "strict" /\ runs[p].status # "completed" /\ p \in mrps
      /\ i < Len(OrderOf(p)) /\ OrderOf(p)[i + 1] \in {"crp", "patch"}
  BY <1>1, After DEF Knows, Follow
<1>3. /\ kind' = kind /\ mrps' = mrps /\ runs' = runs
      /\ work'[p].questions = work[p].questions
  BY DEF AwaitVerdict, consVars, packVars, TypeOK, Work
<1>4. CASE Return(p)
  <2>1. OrderOf(p)' = OrderOf(p) /\ phase'[p] = "going"
    BY <1>1, <1>2, <1>3, <1>4, Returned
  <2>2. Knows(p, OrderOf(p)[i + 1])'
    BY <1>2, <1>3, <2>1 DEF Knows
  <2>3. OnCourse(p)'
    BY <1>1, <1>3, <1>4, <2>2, GoesOn
  <2> QED
    BY <1>2, <1>3, <2>1, <2>3 DEF Consistent, Course
<1>5. CASE Raise(p, "verify")
  <2>1. phase'[p] = "ended"
    BY <1>2, <1>5, Raised DEF Caught
  <2> QED
    BY <1>2, <1>3, <1>5, <2>1, FallsOff DEF Consistent, Course
<1> QED
  BY <1>4, <1>5 DEF AwaitVerdict

\* Raising a CRP, which blocks the run unless it is refused.
LEMMA CrpStep ==
    ASSUME TypeOK, Course, NEW p \in Pipelines, RaiseCrp(p)
    PROVE  OnCourse(p)' /\ Consistent(p)'
<1>1. PICK i \in 1 .. Len(OrderOf(p)) :
         Here(p, i) /\ OrderOf(p)[i] = "crp" /\ Knows(p, "crp") /\ phase[p] = "going"
  BY AtStep DEF RaiseCrp
<1>2. /\ kind[p] \in {"python", "strict"} /\ work[p].questions
      /\ runs[p].status # "completed" /\ p \in mrps
      /\ kind[p] = "python" => runs[p].status # "running"
      /\ i < Len(OrderOf(p))
      /\ \/ kind[p] = "python" /\ OrderOf(p)[i + 1] = "evidence"
         \/ kind[p] = "strict" /\ OrderOf(p)[i + 1] = "patch"
  BY <1>1, After DEF Knows, Follow
<1>3. kind' = kind /\ work' = work /\ mrps' = mrps
  BY DEF RaiseCrp, packVars
<1>4. runs'[p].status \in {runs[p].status, "blocked"}
  BY DEF RaiseCrp, consVars, Cons!CreateCrp, TypeOK, Cons!TypeOK, Cons!Run,
         Cons!NoRun
<1>5. CASE Return(p)
  <2>1. OrderOf(p)' = OrderOf(p) /\ phase'[p] = "going"
    BY <1>1, <1>2, <1>3, <1>5, Returned
  <2>2. Knows(p, OrderOf(p)[i + 1])'
    BY <1>2, <1>3, <1>4, <2>1 DEF Knows
  <2>3. OnCourse(p)'
    BY <1>1, <1>3, <1>5, <2>2, GoesOn
  <2> QED
    BY <1>2, <1>3, <1>4, <2>1, <2>3 DEF Consistent, Course
<1>6. CASE Raise(p, "crp")
  <2>1. phase'[p] = "failing" \/ (kind[p] = "strict" /\ phase'[p] = "ended")
    BY <1>2, <1>6, Raised DEF Caught
  <2> QED
    BY <1>2, <1>3, <1>4, <1>6, <2>1, FallsOff DEF Consistent, Course
<1> QED
  BY <1>5, <1>6 DEF RaiseCrp, Served, Unserved

\* The terminal patch, which a blocked run refuses.
LEMMA PatchStep ==
    ASSUME TypeOK, Course, NEW p \in Pipelines, TerminalPatch(p)
    PROVE  OnCourse(p)' /\ Consistent(p)'
<1>1. PICK i \in 1 .. Len(OrderOf(p)) :
         Here(p, i) /\ OrderOf(p)[i] = "patch" /\ Knows(p, "patch") /\ phase[p] = "going"
  BY AtStep DEF TerminalPatch
<1>2. /\ kind[p] \in {"python", "strict"}
      /\ runs[p].status # "completed" /\ p \in mrps
      /\ kind[p] = "strict" => i = Len(OrderOf(p))
      /\ kind[p] = "python" =>
           /\ i < Len(OrderOf(p))
           /\ OrderOf(p)[i + 1] = IF work[p].questions THEN "crp" ELSE "evidence"
  BY <1>1, After DEF Knows, Follow
<1>3. kind' = kind /\ work' = work /\ mrps' = mrps
  BY DEF TerminalPatch, packVars
<1>4. CASE Cons!UpdateAgentRun(p, FinalStatus(p), FinalPatch(p)) /\ Served(p, "patch")
  <2>1. /\ runs'[p].status = FinalStatus(p)
        /\ runs'[p].provenance = "packaged"
    BY <1>2, <1>4, PatchedRow, Written DEF TypeOK, FinalPatch, Patches
  <2>2. /\ FinalStatus(p) = "completed" => work[p].passed /\ ~work[p].questions
        /\ FinalStatus(p) = "blocked" => work[p].questions
        /\ FinalStatus(p) # "running"
    BY <1>2 DEF FinalStatus
  <2>3. CASE Return(p)
    <3>1. /\ OrderOf(p)' = OrderOf(p)
          /\ phase'[p] \in {"going", "ended"}
      BY <1>1, <1>3, <2>3, Returned
    <3>2. i < Len(OrderOf(p)) => Knows(p, OrderOf(p)[i + 1])'
      BY <1>2, <1>3, <2>1, <2>2, <3>1 DEF Knows
    <3>3. OnCourse(p)'
      BY <1>1, <1>3, <2>3, <3>2, GoesOn
    <3> QED
      BY <1>2, <1>3, <2>1, <2>2, <3>1, <3>3 DEF Consistent
  <2>4. CASE Raise(p, "patch")
    <3>1. phase'[p] \in {"failing", "ended"}
      BY <2>4, Raised
    <3> QED
      BY <1>2, <1>3, <2>1, <2>2, <2>4, <3>1, FallsOff DEF Consistent
  <2> QED
    BY <1>4, <2>3, <2>4 DEF Served
<1>5. CASE Raise(p, "patch") /\ UNCHANGED consVars
  <2>1. phase'[p] = "failing" \/ (kind[p] = "strict" /\ phase'[p] = "ended")
    BY <1>2, <1>5, Raised DEF Caught
  <2> QED
    BY <1>2, <1>3, <1>5, <2>1, FallsOff DEF Consistent, Course, consVars
<1> QED
  BY <1>4, <1>5 DEF TerminalPatch, Unserved

\* Recording what the coder's own tests said, after everything else.
LEMMA EvidenceStep ==
    ASSUME TypeOK, Course, NEW p \in Pipelines, RecordEvidence(p)
    PROVE  OnCourse(p)' /\ Consistent(p)'
<1>1. PICK i \in 1 .. Len(OrderOf(p)) :
         Here(p, i) /\ OrderOf(p)[i] = "evidence" /\ Knows(p, "evidence") /\ phase[p] = "going"
  BY AtStep DEF RecordEvidence
<1>2. kind[p] = "python" /\ runs[p].status # "running" /\ i = Len(OrderOf(p))
  BY <1>1, After DEF Knows, Follow
<1>3. kind' = kind /\ work' = work /\ mrps' = mrps /\ runs' = runs
  BY DEF RecordEvidence, consVars
<1>4. phase'[p] = "ended"
  BY <1>1, <1>2, <1>3, Returned, Raised
     DEF RecordEvidence, Served, Unserved, Caught
<1> QED
  BY <1>2, <1>3, <1>4 DEF OnCourse, Consistent, Course

\* The except block.
LEMMA FailStep ==
    ASSUME TypeOK, Course, NEW p \in Pipelines, MarkFailed(p)
    PROVE  OnCourse(p)' /\ Consistent(p)'
<1>1. /\ kind' = kind /\ work' = work /\ mrps' = mrps
      /\ phase[p] = "failing" /\ phase'[p] = "ended"
  BY DEF MarkFailed, packVars, TypeOK
<1>2. CASE Cons!UpdateAgentRun(p, "failed", None)
  <2>1. runs'[p].status = "failed" /\ runs[p].status # "absent"
    BY <1>2, PatchedRow DEF TypeOK, Cons!RunStatuses
  <2> QED
    BY <1>1, <2>1 DEF OnCourse, Consistent, Course
<1>3. CASE runs' = runs /\ (~Cons!Patchable(p) \/ Fault(p))
  BY <1>1, <1>3 DEF OnCourse, Consistent, Course, Cons!Patchable,
                    Cons!TerminalStatuses, Fault
<1> QED
  BY <1>2, <1>3 DEF MarkFailed, consVars

\* The beginning and the violent end of a client.
LEMMA InvokeStep ==
    ASSUME TypeOK, Course, NEW p \in Pipelines, NEW questions \in BOOLEAN,
           Invoke(p, questions)
    PROVE  OnCourse(p)' /\ Consistent(p)'
<1> DEFINE o == Order(kind[p], questions)
<1>1. /\ kind' = kind /\ mrps' = mrps /\ runs' = runs
      /\ phase[p] = "idle" /\ phase'[p] = "going"
      /\ todo'[p] = o /\ work'[p].questions = questions
      /\ runs[p].status = "absent"
  BY DEF Invoke, consVars, packVars, TypeOK, Work, Course, Consistent
<1>2. o \in Seq(Steps) /\ Len(o) \in 4 .. 7 /\ o[1] = "start"
  BY Orders DEF TypeOK
<1>3. OrderOf(p)' = o
  BY <1>1 DEF OrderOf
<1> HIDE DEF o
<1>4. SubSeq(o, 1, Len(o)) = o
  BY <1>2, SubSeqFull
<1>5. Here(p, 1)'
  BY <1>1, <1>2, <1>3, <1>4 DEF Here
<1>6. Knows(p, OrderOf(p)[1])'
  BY <1>1, <1>2, <1>3 DEF Knows
<1>7. OnCourse(p)'
  BY <1>2, <1>3, <1>5, <1>6 DEF OnCourse
<1> QED
  BY <1>1, <1>7 DEF Consistent

\* What humans, the clock and the reaper do leaves every client on course.
LEMMA EnvironmentStep ==
    ASSUME TypeOK, Course, Environment, NEW p \in Pipelines
    PROVE  OnCourse(p)' /\ Consistent(p)'
<1>1. UNCHANGED <<kind, phase, todo, work, mrps, faulted>>
  BY DEF Environment, packVars
<1>2. CASE runs'[p] = runs[p]
  BY <1>1, <1>2, Elsewhere DEF Course
<1>3. CASE runs[p].status = "running" /\ runs'[p].status = "failed"
  <2>1. OrderOf(p)' = OrderOf(p)
    BY <1>1 DEF OrderOf
  <2>2. ASSUME NEW i, Here(p, i), Knows(p, OrderOf(p)[i])
        PROVE  Here(p, i)' /\ Knows(p, OrderOf(p)[i])'
    BY <1>1, <1>3, <2>1, <2>2 DEF Here, Knows
  <2> QED
    BY <1>1, <1>3, <2>1, <2>2 DEF OnCourse, Consistent, Course
<1>4. ASSUME Cons!ReapOrphanRuns
      PROVE  \/ runs'[p] = runs[p]
             \/ runs[p].status = "running" /\ runs'[p].status = "failed"
  <2>1. CASE p \in Cons!Orphans
    <3>1. runs[p] \in Cons!Run /\ runs[p].status = "running"
      BY <2>1 DEF Cons!Orphans, Cons!NoRun, TypeOK, Cons!TypeOK
    <3>2. runs'[p] = Cons!ReapedRun(runs[p])
      BY <1>4, <2>1 DEF Cons!ReapOrphanRuns
    <3> QED
      BY <3>1, <3>2 DEF Cons!ReapedRun, Cons!Run
  <2>2. CASE p \notin Cons!Orphans
    BY <1>4, <2>2 DEF Cons!ReapOrphanRuns
  <2> QED
    BY <2>1, <2>2
<1>5. ~Cons!ReapOrphanRuns => runs' = runs
  BY DEF Environment, Cons!SpecStep, Cons!CreateSpec, Cons!ValidateSpec,
         Cons!CutoffPasses, Cons!CreateVcr
<1> QED
  BY <1>2, <1>3, <1>4, <1>5

\* A client's step leaves the other clients and their runs alone.
LEMMA OneClient ==
    ASSUME TypeOK, NEW p \in Pipelines, NEW q \in Pipelines \ {p},
           Step(p) \/ Kill(p) \/ \E questions \in BOOLEAN : Invoke(p, questions)
    PROVE  /\ kind' = kind /\ runs'[q] = runs[q] /\ phase'[q] = phase[q]
           /\ todo'[q] = todo[q] /\ work'[q] = work[q]
           /\ q \in mrps => q \in mrps'
           /\ q \in faulted => q \in faulted'
<1> USE DEF TypeOK
<1>1. ASSUME NEW s \in Specs, Start(p, s)
      PROVE  runs'[q] = runs[q] /\ UNCHANGED <<kind, work, mrps>>
  BY <1>1 DEF Start, Cons!StartAgentRun, Cons!TypeOK, consVars, packVars
<1>2. ASSUME NEW st, NEW pt, Cons!UpdateAgentRun(p, st, pt)
      PROVE  runs'[q] = runs[q]
  BY <1>2 DEF Cons!UpdateAgentRun, Cons!TypeOK
<1>3. CASE Propose(p) \/ TerminalPatch(p) \/ MarkFailed(p)
  BY <1>2, <1>3, OthersStay DEF Propose, TerminalPatch, MarkFailed, consVars,
         packVars, Served, Unserved, Fault
<1>4. CASE RaiseCrp(p)
  BY <1>4, OthersStay DEF RaiseCrp, Cons!CreateCrp, Cons!TypeOK, consVars,
         packVars, Served, Unserved, Fault
<1>5. CASE \E passed \in BOOLEAN : DoWork(p, passed) \/ AwaitVerdict(p, passed)
  BY <1>5, OthersStay DEF DoWork, AwaitVerdict, consVars, packVars
<1>6. CASE PrNumber(p) \/ CreateMrp(p) \/ RecordEvidence(p)
  BY <1>6, OthersStay DEF PrNumber, CreateMrp, RecordEvidence, consVars,
         packVars, Served, Unserved, Fault
<1>7. CASE Kill(p) \/ \E questions \in BOOLEAN : Invoke(p, questions)
  BY <1>7 DEF Kill, Invoke, consVars, packVars, Fault
<1>8. ASSUME NEW s \in Specs, Start(p, s)
      PROVE  /\ phase'[q] = phase[q] /\ todo'[q] = todo[q]
             /\ q \in faulted => q \in faulted'
  BY <1>8, OthersStay DEF Start, Served, Unserved, Fault
<1> QED
  BY <1>1, <1>3, <1>4, <1>5, <1>6, <1>7, <1>8 DEF Step

\* Every step of a client leaves it on course.
LEMMA OwnStep ==
    ASSUME TypeOK, Course, NEW p \in Pipelines,
           Step(p) \/ Kill(p) \/ \E questions \in BOOLEAN : Invoke(p, questions)
    PROVE  OnCourse(p)' /\ Consistent(p)'
<1>1. CASE Kill(p)
  <2>1. /\ UNCHANGED <<kind, work, mrps, runs>>
        /\ phase[p] # "idle" /\ phase'[p] = "ended" /\ p \in faulted'
    BY <1>1 DEF Kill, Fault, consVars, packVars, TypeOK
  <2> QED
    BY <2>1 DEF OnCourse, Consistent, Course
<1> QED
  BY <1>1, StartStep, WorkStep, ProposeStep, PrNumberStep, MrpStep,
     VerdictStep, CrpStep, PatchStep, EvidenceStep, FailStep, InvokeStep
     DEF Step

\* A client's process keeps its types.
LEMMA ProcessTypes ==
    ASSUME TypeOK, Course, [Next]_vars
    PROVE  /\ kind' \in [Pipelines -> Kinds]
           /\ phase' \in [Pipelines -> Phases]
           /\ todo' \in [Pipelines -> Seq(Steps)]
           /\ work' \in [Pipelines -> Work]
           /\ mrps' \subseteq Pipelines
           /\ evidenced' \subseteq Pipelines
           /\ faulted' \subseteq Pipelines
<1> USE DEF TypeOK
<1>1. ASSUME NEW p \in Pipelines, NEW a, At(p, a), Return(p) \/ Raise(p, a)
      PROVE  /\ phase' \in [Pipelines -> Phases]
             /\ todo' \in [Pipelines -> Seq(Steps)]
  <2>1. PICK i \in 1 .. Len(OrderOf(p)) : Here(p, i)
    BY <1>1, AtStep
  <2>2. Tail(todo[p]) \in Seq(Steps)
    BY <2>1, AtPlace
  <2>3. CASE Return(p)
    BY <2>2, <2>3 DEF Return, Phases
  <2>4. CASE Raise(p, a)
    BY <2>4, Raised
  <2> QED
    BY <1>1, <2>3, <2>4
<1>2. ASSUME NEW p \in Pipelines, NEW a, At(p, a),
             \/ Served(p, a)
             \/ \E refused \in BOOLEAN : Unserved(p, a, refused)
      PROVE  /\ phase' \in [Pipelines -> Phases]
             /\ todo' \in [Pipelines -> Seq(Steps)]
             /\ faulted' \subseteq Pipelines
  BY <1>1, <1>2 DEF Served, Unserved, Fault
<1>3. ASSUME NEW p \in Pipelines, NEW s \in Specs, Start(p, s)
      PROVE  /\ phase' \in [Pipelines -> Phases]
             /\ todo' \in [Pipelines -> Seq(Steps)]
             /\ faulted' \subseteq Pipelines
             /\ UNCHANGED <<kind, work, packVars>>
  <2>1. At(p, "start") /\ (Return(p) \/ Raise(p, "start"))
    BY <1>3 DEF Start, Served, Unserved
  <2>2. faulted' = faulted \/ Fault(p)
    BY <1>3 DEF Start, Served, Unserved
  <2> QED
    BY <1>1, <1>3, <2>1, <2>2 DEF Start, Fault
<1>4. ASSUME NEW p \in Pipelines,
             Propose(p) \/ CreateMrp(p) \/ RecordEvidence(p)
      PROVE  /\ phase' \in [Pipelines -> Phases]
             /\ todo' \in [Pipelines -> Seq(Steps)]
             /\ faulted' \subseteq Pipelines
             /\ UNCHANGED <<kind, work>>
             /\ mrps' \subseteq Pipelines /\ evidenced' \subseteq Pipelines
  BY <1>2, <1>4 DEF Propose, CreateMrp, RecordEvidence, packVars
<1>5. ASSUME NEW p \in Pipelines, RaiseCrp(p) \/ TerminalPatch(p)
      PROVE  /\ phase' \in [Pipelines -> Phases]
             /\ todo' \in [Pipelines -> Seq(Steps)]
             /\ faulted' \subseteq Pipelines
             /\ UNCHANGED <<kind, work, packVars>>
  <2>1. (~Cons!Patchable(p)) \in BOOLEAN
    BY DEF Cons!Patchable
  <2> QED
    BY <1>2, <1>5, <2>1 DEF RaiseCrp, TerminalPatch
<1>6. ASSUME NEW p \in Pipelines, NEW passed \in BOOLEAN,
             DoWork(p, passed) \/ AwaitVerdict(p, passed)
      PROVE  /\ phase' \in [Pipelines -> Phases]
             /\ todo' \in [Pipelines -> Seq(Steps)]
             /\ work' \in [Pipelines -> Work]
             /\ UNCHANGED <<kind, packVars, faulted>>
  <2>1. [work EXCEPT ![p].passed = passed] \in [Pipelines -> Work]
    BY DEF Work
  <2>2. \E a : At(p, a) /\ (Return(p) \/ Raise(p, a))
    BY <1>6 DEF DoWork, AwaitVerdict
  <2> QED
    BY <1>1, <1>6, <2>1, <2>2 DEF DoWork, AwaitVerdict
<1>7. ASSUME NEW p \in Pipelines, PrNumber(p)
      PROVE  /\ phase' \in [Pipelines -> Phases]
             /\ todo' \in [Pipelines -> Seq(Steps)]
             /\ UNCHANGED <<kind, work, packVars, faulted>>
  BY <1>1, <1>7 DEF PrNumber
<1>8. ASSUME NEW p \in Pipelines, MarkFailed(p) \/ Kill(p)
      PROVE  /\ phase' \in [Pipelines -> Phases]
             /\ faulted' \subseteq Pipelines
             /\ UNCHANGED <<kind, todo, work, packVars>>
  BY <1>8 DEF MarkFailed, Kill, Fault, Phases
<1>9. ASSUME NEW p \in Pipelines, NEW questions \in BOOLEAN, Invoke(p, questions)
      PROVE  /\ phase' \in [Pipelines -> Phases]
             /\ todo' \in [Pipelines -> Seq(Steps)]
             /\ work' \in [Pipelines -> Work]
             /\ UNCHANGED <<kind, packVars, faulted>>
  <2>1. Order(kind[p], questions) \in Seq(Steps)
    BY Orders
  <2>2. [work EXCEPT ![p].questions = questions] \in [Pipelines -> Work]
    BY DEF Work
  <2> QED
    BY <1>9, <2>1, <2>2 DEF Invoke, Phases
<1>10. CASE UNCHANGED <<kind, phase, todo, work, packVars, faulted>>
  BY <1>10 DEF packVars
<1>11. Environment \/ UNCHANGED vars =>
         UNCHANGED <<kind, phase, todo, work, packVars, faulted>>
  BY DEF Environment, vars
<1>12. ASSUME NEW p \in Pipelines, Step(p)
       PROVE  /\ kind' \in [Pipelines -> Kinds]
              /\ phase' \in [Pipelines -> Phases]
              /\ todo' \in [Pipelines -> Seq(Steps)]
              /\ work' \in [Pipelines -> Work]
              /\ mrps' \subseteq Pipelines
              /\ evidenced' \subseteq Pipelines
              /\ faulted' \subseteq Pipelines
  BY <1>3, <1>4, <1>5, <1>6, <1>7, <1>8, <1>12 DEF Step, packVars
<1> QED
  BY <1>8, <1>9, <1>10, <1>11, <1>12 DEF Next, packVars

-----------------------------------------------------------------------------
(* Theorems.                                                               *)

\* Types and the course of every client, together.
LEMMA CourseHolds == Spec => [](TypeOK /\ Course)
<1>1. Init => TypeOK /\ Course
  <2> SUFFICES ASSUME Init PROVE TypeOK /\ Course
    OBVIOUS
  <2>1. TypeOK
    BY DEF Init, TypeOK, Cons!Init, Cons!TypeOK, Phases, Work
  <2>2. \A p \in Pipelines : OnCourse(p) /\ Consistent(p)
    BY DEF Init, Cons!Init, Cons!NoRun, OnCourse, Consistent
  <2> QED
    BY <2>1, <2>2 DEF Course
<1>2. TypeOK /\ Course /\ [Next]_vars => TypeOK' /\ Course'
  <2> SUFFICES ASSUME TypeOK, Course, [Next]_vars PROVE TypeOK' /\ Course'
    OBVIOUS
  <2>1. Cons!TypeOK'
    BY StepsOfConsultation, RowTypes DEF TypeOK
  <2>2. TypeOK'
    BY <2>1, ProcessTypes DEF TypeOK
  <2>3. ASSUME NEW p \in Pipelines,
               \/ Step(p) \/ Kill(p)
               \/ \E questions \in BOOLEAN : Invoke(p, questions)
        PROVE  Course'
    <3>1. \A q \in Pipelines \ {p} : OnCourse(q)' /\ Consistent(q)'
      BY <2>3, OneClient, Elsewhere DEF Course
    <3>2. OnCourse(p)' /\ Consistent(p)'
      BY <2>3, OwnStep
    <3> QED
      BY <3>1, <3>2 DEF Course
  <2>4. CASE Environment
    BY <2>2, <2>4, EnvironmentStep DEF Course
  <2>5. CASE UNCHANGED vars
    BY <2>2, <2>5, Elsewhere DEF vars, consVars, packVars, Course
  <2> QED
    BY <2>2, <2>3, <2>4, <2>5 DEF Next
<1> QED
  BY <1>1, <1>2, PTL DEF Spec

\* Every variable has its type.
THEOREM TypeCorrect == Spec => []TypeOK
  BY CourseHolds, PTL

\* A completed run passed its tests and names its pack, and only questions
\* block a run, for any number of clients of any kind, calls lost or refused.
THEOREM StatusesAreEarned == Spec => []StatusIsEarned
<1>1. Course => StatusIsEarned
  BY DEF Course, Consistent, StatusIsEarned, CompletedIsEarned,
         BlockedIsQuestioned
<1> QED
  BY <1>1, CourseHolds, PTL

\* A coder that ended on its own leaves no running run.
THEOREM EndedCodersEndRuns == Spec => []EndedCoderEndsRun
<1>1. Course => EndedCoderEndsRun
  BY DEF Course, Consistent, EndedCoderEndsRun
<1> QED
  BY <1>1, CourseHolds, PTL
=============================================================================
