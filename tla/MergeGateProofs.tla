--------------------------- MODULE MergeGateProofs ---------------------------
(***************************************************************************)
(* Proofs about MergeGate, in either separation-of-duties mode and for any *)
(* sets of rows, trees and evidence updates that satisfy the assumptions.  *)
(* MergeGate implements Consultation, so the theorems proved there hold of *)
(* it; ReadyIsEvidenced needs a stronger inductive invariant, Backed: the  *)
(* check columns of a pack mirror the last evidence row in the audit log.  *)
(***************************************************************************)
EXTENDS MergeGate, TLAPS

CP == INSTANCE ConsultationProofs

USE NullAssumption DEF Cons!NoneAssumption

-----------------------------------------------------------------------------
(* The consultation loop inside MergeGate.                                 *)

\* Every step of MergeGate is a step of Consultation or leaves it alone.
THEOREM ImplementsConsultation == Spec => Cons!Spec
<1>1. Init => Cons!Init
  BY DEF Init
<1>2. [Next]_vars => [Cons!Next]_(Cons!vars)
  BY DEF Next, vars, consVars, ConsultationStep, PackStep, ResolveCrp,
         CreateMrp, UpdateEvidence, UpdateReview, CheckReady, HumanDecision,
         CreateMrpVcr, Cons!Next, Cons!vars
<1> QED
  BY <1>1, <1>2, PTL DEF Spec, Cons!Spec

\* The two instances of Consultation are the same specification.
LEMMA SameSpec == Cons!Spec => CP!Spec
<1>1. Cons!Init => CP!Init
  BY DEF Cons!Init, CP!Init, Cons!NoRun, CP!NoRun, Cons!NoCrp, CP!NoCrp
<1>2. Cons!SpecStep => CP!SpecStep
  BY DEF Cons!SpecStep, CP!SpecStep, Cons!CreateSpec, CP!CreateSpec,
         Cons!ValidateSpec, CP!ValidateSpec
<1>3. Cons!RunStep => CP!RunStep
  BY DEF Cons!RunStep, CP!RunStep, Cons!StartAgentRun, CP!StartAgentRun,
         Cons!UpdateAgentRun, CP!UpdateAgentRun,
         Cons!CutoffPasses, CP!CutoffPasses,
         Cons!ReapOrphanRuns, CP!ReapOrphanRuns,
         Cons!SpecMustBeValidated, CP!SpecMustBeValidated,
         Cons!Patchable, CP!Patchable, Cons!PatchedRun, CP!PatchedRun,
         Cons!Orphans, CP!Orphans, Cons!ReapedRun, CP!ReapedRun,
         Cons!SpecRef, CP!SpecRef, Cons!RunStatuses, CP!RunStatuses,
         Cons!TerminalStatuses, CP!TerminalStatuses,
         Cons!TaskTypes, CP!TaskTypes
<1>4. Cons!CrpStep => CP!CrpStep
  BY DEF Cons!CrpStep, CP!CrpStep, Cons!CreateCrp, CP!CreateCrp,
         Cons!SpecRef, CP!SpecRef, Cons!RunRef, CP!RunRef,
         Cons!Patchable, CP!Patchable, Cons!Blocking, CP!Blocking,
         Cons!Severities, CP!Severities,
         Cons!TerminalStatuses, CP!TerminalStatuses
<1>5. ASSUME NEW c \in Crps, Cons!CreateVcr(c) PROVE CP!CreateVcr(c)
  BY <1>5 DEF Cons!CreateVcr, CP!CreateVcr, Cons!Resolved, CP!Resolved
<1>6. [Cons!Next]_(Cons!vars) => [CP!Next]_(CP!vars)
  BY <1>2, <1>3, <1>4, <1>5 DEF Cons!Next, CP!Next, Cons!vars, CP!vars
<1> QED
  BY <1>1, <1>6, PTL DEF Cons!Spec, CP!Spec

\* The theorems of Consultation, read through the instance of the gate.
LEMMA SameProperties ==
    /\ CP!NoneAssumption
    /\ CP!TypeOK => Cons!TypeOK
    /\ CP!ValidatedBeforeCodegen <=> Cons!ValidatedBeforeCodegen
    /\ CP!HighCrpBlocksRun <=> Cons!HighCrpBlocksRun
    /\ CP!ResolvedIffVcr <=> Cons!ResolvedIffVcr
    /\ CP!UnstampedOnlyByCrp <=> Cons!UnstampedOnlyByCrp
<1> USE DEF Cons!RunStatuses, CP!RunStatuses, Cons!TaskTypes, CP!TaskTypes,
            Cons!Severities, CP!Severities
<1>1. CP!NoneAssumption
  BY DEF CP!NoneAssumption
<1>2. CP!TypeOK => Cons!TypeOK
  BY DEF Cons!TypeOK, CP!TypeOK, Cons!Run, CP!Run, Cons!Crp, CP!Crp,
         Cons!NoRun, CP!NoRun, Cons!NoCrp, CP!NoCrp
<1> QED
  BY <1>1, <1>2
     DEF Cons!ValidatedBeforeCodegen, CP!ValidatedBeforeCodegen,
         Cons!HighCrpBlocksRun, CP!HighCrpBlocksRun,
         Cons!ResolvedIffVcr, CP!ResolvedIffVcr,
         Cons!UnstampedOnlyByCrp, CP!UnstampedOnlyByCrp,
         Cons!Blocking, CP!Blocking,
         Cons!TerminalStatuses, CP!TerminalStatuses

\* The rows of the consultation loop keep their types.
LEMMA ConsTypeCorrect == Spec => []Cons!TypeOK
<1>1. CP!Spec => []CP!TypeOK
  BY SameProperties, CP!TypeCorrect
<1> QED
  BY <1>1, SameProperties, ImplementsConsultation, SameSpec, PTL

\* The gate and the resolution of a CRP through its routes, which also detach
\* it from packs, keep what the consultation loop promises: no code generation
\* from an unvalidated specification, a run under a blocking CRP stays blocked,
\* a CRP is resolved exactly when it has its VCR, only a CRP leaves a run
\* unstamped, and no run that has ended moves.
THEOREM ConsultationHolds ==
    /\ Spec => [](/\ Cons!ValidatedBeforeCodegen
                  /\ Cons!HighCrpBlocksRun
                  /\ Cons!ResolvedIffVcr
                  /\ Cons!UnstampedOnlyByCrp)
    /\ Spec => Cons!TerminalIsFinal
<1>1. CP!Spec => [](/\ CP!ValidatedBeforeCodegen
                    /\ CP!HighCrpBlocksRun
                    /\ CP!ResolvedIffVcr
                    /\ CP!UnstampedOnlyByCrp)
  BY SameProperties, CP!CodegenIsValidated, CP!HighCrpBlocks,
     CP!ResolutionsAgree, CP!OnlyCrpLeavesUnstamped, PTL
<1>2. CP!Spec => CP!TerminalIsFinal
  BY SameProperties, CP!TerminalRunsStay
<1>3. CP!TerminalIsFinal => Cons!TerminalIsFinal
  BY DEF CP!TerminalIsFinal, Cons!TerminalIsFinal, CP!TerminalStatuses,
         Cons!TerminalStatuses, CP!vars, Cons!vars
<1> QED
  BY <1>1, <1>2, <1>3, SameProperties, ImplementsConsultation, SameSpec, PTL

-----------------------------------------------------------------------------
(* Types and attached CRPs.                                                *)

\* An evidence update writes every check column, and in strict mode the tree;
\* it leaves the status, the specifications and the attached CRPs alone.
LEMMA EvidenceColumns ==
    ASSUME NEW mrp \in Mrp, NEW p \in Payloads
    PROVE  LET new == WithEvidence(mrp, p)
           IN  /\ new \in Mrp
               /\ new.status = mrp.status
               /\ new.specs = mrp.specs
               /\ new.openCrps = mrp.openCrps
               /\ new.unit = p.unit
               /\ new.integration = p.integration
               /\ new.security = p.security
               /\ Strict => new.tree = p.tree
    <1> DEFINE new == WithEvidence(mrp, p)
    <1>1. p \in Payload /\ None \notin {p.unit, p.integration, p.security}
      BY PayloadAssumption
    <1>g. /\ Given(p.unit, mrp.unit) = p.unit
          /\ Given(p.integration, mrp.integration) = p.integration
          /\ Given(p.security, mrp.security) = p.security
      BY <1>1 DEF Given
    <1>2. new = [mrp EXCEPT !.unit = p.unit, !.integration = p.integration,
                            !.security = p.security,
                            !.review = Given(p.review, mrp.review),
                            !.tree = Given(p.tree, mrp.tree)]
      BY <1>g DEF WithEvidence
    <1>3. /\ p.unit \in OrNull(Results)
          /\ p.integration \in OrNull(Results)
          /\ p.security \in OrNull(Results)
          /\ Given(p.review, mrp.review) \in OrNull(Reviews)
          /\ Given(p.tree, mrp.tree) \in OrNull(Trees)
      BY <1>1 DEF Given, Payload, Mrp
    <1> HIDE DEF new
    <1>4. /\ new \in Mrp
          /\ new.status = mrp.status /\ new.specs = mrp.specs
          /\ new.openCrps = mrp.openCrps
          /\ new.unit = p.unit /\ new.integration = p.integration
          /\ new.security = p.security
          /\ new.tree = Given(p.tree, mrp.tree)
      BY <1>2, <1>3 DEF Mrp
    <1>5. Strict => Given(p.tree, mrp.tree) = p.tree
      BY PayloadAssumption DEF Given
    <1> QED
      BY <1>4, <1>5 DEF new

\* Every column and every audit row holds a value of its type.
THEOREM TypeCorrect == Spec => []TypeOK
<1>1. Init => TypeOK
  <2> SUFFICES ASSUME Init PROVE TypeOK
    OBVIOUS
  <2>1. Cons!TypeOK
    BY DEF Init, Cons!Init, Cons!TypeOK, Cons!NoRun, Cons!NoCrp
  <2> QED
    BY <2>1 DEF Init, TypeOK, NoMrp
<1>2. TypeOK /\ Cons!TypeOK' /\ [Next]_vars => TypeOK'
  <2> SUFFICES ASSUME TypeOK, Cons!TypeOK', [Next]_vars PROVE TypeOK'
    OBVIOUS
  <2> USE DEF TypeOK
  <2>1. CASE UNCHANGED <<mrpVcrs, packVars>>
    BY <2>1 DEF packVars
  <2>2. ASSUME NEW m \in Mrps, NEW S \in SUBSET Specs, NEW bp \in BOOLEAN,
               NEW t \in OrNull(Trees), CreateMrp(m, S, bp, t)
        PROVE  TypeOK'
    <3> DEFINE row == [NoMrp EXCEPT !.status = "draft", !.specs = S,
                                    !.blueprint = bp, !.tree = t,
                                    !.openCrps = UnresolvedCrps(S)]
    <3>1. row \in Mrp
      BY DEF NoMrp, Mrp, UnresolvedCrps, MrpStatuses, OrNull
    <3>2. mrps' = [mrps EXCEPT ![m] = row]
      BY <2>2 DEF CreateMrp
    <3> QED
      BY <2>2, <3>1, <3>2 DEF CreateMrp
  <2>3. ASSUME NEW m \in Mrps, NEW p \in Payloads, UpdateEvidence(m, p)
        PROVE  TypeOK'
    <3>1. mrps[m] \in Mrp
      BY <2>3 DEF UpdateEvidence, Exists, NoMrp
    <3>2. WithEvidence(mrps[m], p) \in Mrp
      BY <3>1, EvidenceColumns
    <3> QED
      BY <2>3, <3>2 DEF UpdateEvidence
  <2>4. ASSUME NEW m \in Mrps, NEW v \in Reviews, UpdateReview(m, v)
        PROVE  TypeOK'
    <3>1. mrps[m] \in Mrp
      BY <2>4 DEF UpdateReview, Exists, NoMrp
    <3>2. [mrps[m] EXCEPT !.review = v] \in Mrp
      BY <3>1 DEF Mrp, OrNull
    <3> QED
      BY <2>4, <3>2 DEF UpdateReview
  <2>5. ASSUME NEW m \in Mrps, CheckReady(m) PROVE TypeOK'
    <3>1. mrps[m] \in Mrp
      BY <2>5 DEF CheckReady, Exists, NoMrp
    <3>2. \A st \in MrpStatuses : [mrps[m] EXCEPT !.status = st] \in Mrp
      BY <3>1 DEF Mrp
    <3> QED
      BY <2>5, <3>2 DEF CheckReady, MrpStatuses, Decisions
  <2>6. ASSUME NEW m \in Mrps, NEW d \in Decisions, HumanDecision(m, d)
        PROVE  TypeOK'
    <3>1. mrps[m] \in Mrp
      BY <2>6 DEF HumanDecision, Exists, NoMrp
    <3>2. [mrps[m] EXCEPT !.status = d, !.decision = d] \in Mrp
      BY <3>1 DEF Mrp, OrNull, MrpStatuses
    <3>3. mrps' = [mrps EXCEPT ![m] = [mrps[m] EXCEPT !.status = d,
                                                      !.decision = d]]
      BY <2>6 DEF HumanDecision
    <3> QED
      BY <2>6, <3>2, <3>3 DEF HumanDecision
  <2>7. ASSUME NEW m \in Mrps, CreateMrpVcr(m) PROVE TypeOK'
    BY <2>7 DEF CreateMrpVcr, packVars
  <2>8. ASSUME NEW c \in Crps, ResolveCrp(c) PROVE TypeOK'
    <3>1. ASSUME NEW m \in Mrps
          PROVE  [mrps[m] EXCEPT !.openCrps = @ \ {c}] \in Mrp \cup {NoMrp}
      <4>1. CASE mrps[m] \in Mrp
        BY <4>1 DEF Mrp
      <4>2. CASE mrps[m] = NoMrp
        <5>1. NoMrp.openCrps \ {c} = NoMrp.openCrps
          BY DEF NoMrp
        <5>2. [NoMrp EXCEPT !.openCrps = NoMrp.openCrps] = NoMrp
          BY DEF NoMrp
        <5> QED
          BY <4>2, <5>1, <5>2
      <4> QED
        BY <4>1, <4>2
    <3> QED
      BY <2>8, <3>1 DEF ResolveCrp, Cleared
  <2> HIDE DEF TypeOK
  <2>9. ASSUME NEW m \in Mrps, PackStep(m) PROVE TypeOK'
    BY <2>2, <2>3, <2>4, <2>5, <2>6, <2>7, <2>9 DEF PackStep
  <2> QED
    BY <2>1, <2>8, <2>9 DEF Next, vars, ConsultationStep
<1> QED
  BY <1>1, <1>2, ConsTypeCorrect, PTL DEF Spec

\* No pack ever names a resolved CRP among its open ones.
THEOREM AttachedCrpsAreOpen == Spec => []OpenCrpIdsUnresolved
<1>1. Init => OpenCrpIdsUnresolved
  BY DEF Init, OpenCrpIdsUnresolved, NoMrp
<1>2. TypeOK /\ OpenCrpIdsUnresolved /\ [Next]_vars => OpenCrpIdsUnresolved'
  <2> SUFFICES ASSUME TypeOK, OpenCrpIdsUnresolved, [Next]_vars,
                      NEW m \in Mrps, NEW c \in mrps'[m].openCrps
               PROVE  crps'[c].status = "open"
    BY DEF OpenCrpIdsUnresolved
  <2>1. mrps[m] \in Mrp \cup {NoMrp}
    BY DEF TypeOK
  <2>2. CASE /\ c \in mrps[m].openCrps
             /\ crps' = crps
    BY <2>2 DEF OpenCrpIdsUnresolved
  <2>3. ASSUME ConsultationStep PROVE crps'[c].status = "open"
    <3>1. c \in mrps[m].openCrps /\ crps[c].status = "open"
      BY <2>3 DEF ConsultationStep, packVars, OpenCrpIdsUnresolved
    <3>2. CASE crps' = crps
      BY <3>1, <3>2
    <3>3. CASE Cons!CrpStep
      BY <3>1, <3>3
         DEF Cons!CrpStep, Cons!CreateCrp, TypeOK, Cons!TypeOK
    <3> QED
      BY <2>3, <3>2, <3>3
         DEF ConsultationStep, Cons!SpecStep, Cons!RunStep, Cons!CreateSpec,
             Cons!ValidateSpec, Cons!StartAgentRun, Cons!UpdateAgentRun,
             Cons!CutoffPasses, Cons!ReapOrphanRuns
  <2>4. ASSUME NEW k \in Mrps, NEW S \in SUBSET Specs, NEW bp \in BOOLEAN,
               NEW t \in OrNull(Trees), CreateMrp(k, S, bp, t)
        PROVE  crps'[c].status = "open"
    <3>1. crps' = crps
      BY <2>4 DEF CreateMrp, consVars
    <3>2. CASE k # m
      BY <2>4, <3>1, <3>2, <2>2 DEF CreateMrp, TypeOK
    <3>3. CASE k = m
      <4>1. c \in UnresolvedCrps(S)
        BY <2>4, <3>3 DEF CreateMrp, TypeOK, NoMrp
      <4>2. crps[c] \in Cons!Crp
        BY <4>1 DEF UnresolvedCrps, TypeOK, Cons!TypeOK, Cons!NoCrp
      <4> QED
        BY <3>1, <4>1, <4>2 DEF UnresolvedCrps, Cons!Crp
    <3> QED
      BY <3>2, <3>3
  <2>5. ASSUME NEW k \in Mrps, NEW p \in Payloads, UpdateEvidence(k, p)
        PROVE  crps'[c].status = "open"
    <3>1. mrps'[m].openCrps = mrps[m].openCrps
      <4>1. CASE k = m
        <5>1. mrps[m] \in Mrp
          BY <2>5, <4>1, <2>1 DEF UpdateEvidence, Exists, NoMrp
        <5> QED
          BY <2>5, <4>1, <5>1, EvidenceColumns DEF UpdateEvidence, TypeOK
      <4>2. CASE k # m
        BY <2>5, <4>2 DEF UpdateEvidence, TypeOK
      <4> QED
        BY <4>1, <4>2
    <3> QED
      BY <2>5, <3>1, <2>2 DEF UpdateEvidence, consVars
  <2>6. ASSUME NEW k \in Mrps,
               \/ \E v \in Reviews : UpdateReview(k, v)
               \/ CheckReady(k)
               \/ \E d \in Decisions : HumanDecision(k, d)
        PROVE  crps'[c].status = "open"
    <3>1. mrps'[m].openCrps = mrps[m].openCrps
      <4>1. CASE \E v \in Reviews : UpdateReview(k, v)
        BY <4>1, <2>1 DEF UpdateReview, TypeOK, Mrp, NoMrp
      <4>2. CASE CheckReady(k)
        BY <4>2, <2>1 DEF CheckReady, TypeOK, Mrp, NoMrp
      <4>3. CASE \E d \in Decisions : HumanDecision(k, d)
        <5>1. PICK d \in Decisions : HumanDecision(k, d)
          BY <4>3
        <5>2. \A r \in Mrp \cup {NoMrp} :
                [r EXCEPT !.status = d, !.decision = d].openCrps = r.openCrps
          BY DEF Mrp, NoMrp
        <5>3. mrps' = [mrps EXCEPT ![k] = [mrps[k] EXCEPT !.status = d,
                                                          !.decision = d]]
          BY <5>1 DEF HumanDecision
        <5> QED
          BY <5>2, <5>3, <2>1 DEF TypeOK
      <4> QED
        BY <2>6, <4>1, <4>2, <4>3
    <3> QED
      BY <2>6, <3>1, <2>2
         DEF UpdateReview, CheckReady, HumanDecision, consVars
  <2>7. ASSUME NEW k \in Mrps, CreateMrpVcr(k)
        PROVE  crps'[c].status = "open"
    BY <2>7, <2>2 DEF CreateMrpVcr, consVars, packVars
  <2>8. ASSUME NEW d \in Crps, ResolveCrp(d) PROVE crps'[c].status = "open"
    <3>1. mrps'[m].openCrps = mrps[m].openCrps \ {d}
      BY <2>8, <2>1 DEF ResolveCrp, Cleared, Mrp, NoMrp
    <3>2. c # d /\ crps[c].status = "open"
      BY <3>1 DEF OpenCrpIdsUnresolved
    <3> QED
      BY <2>8, <3>2
         DEF ResolveCrp, Cons!CreateVcr, Cons!Resolved, TypeOK, Cons!TypeOK
  <2>9. CASE UNCHANGED vars
    BY <2>9, <2>2 DEF vars, consVars, packVars
  <2> QED
    BY <2>3, <2>4, <2>5, <2>6, <2>7, <2>8, <2>9 DEF Next, PackStep
<1> QED
  BY <1>1, <1>2, TypeCorrect, PTL DEF Spec

-----------------------------------------------------------------------------
(* The audit trail.                                                        *)

\* In strict mode every evidence row is the verifier's, so the tree that G7
\* compares with is that of the first row.
LEMMA FirstRowIsEvidenced ==
    ASSUME Strict, NEW log \in Seq(Payloads), log # <<>>
    PROVE  EvidencedTree(log) = log[1].ctxTree
    <1>1. VerifierRows(log) = DOMAIN log
      <2>1. \A i \in DOMAIN log : log[i] \in Payloads
        OBVIOUS
      <2>2. \A i \in DOMAIN log : log[i].runner = "ci:verifier"
        BY <2>1, PayloadAssumption
      <2> QED
        BY <2>2 DEF VerifierRows
    <1>2. DOMAIN log = 1 .. Len(log) /\ Len(log) \in Nat /\ Len(log) >= 1
      OBVIOUS
    <1>3. \A j \in DOMAIN log : 1 <= j
      BY <1>2
    <1>4. \A i \in DOMAIN log : (\A j \in DOMAIN log : i <= j) => i = 1
      BY <1>2
    <1>5. (CHOOSE i \in DOMAIN log : \A j \in DOMAIN log : i <= j) = 1
      BY <1>2, <1>3, <1>4
    <1> QED
      BY <1>1, <1>2, <1>5 DEF EvidencedTree

\* A pack that has its evidence keeps it when more is appended to its logs.
LEMMA EvidencedStays ==
    ASSUME TypeOK, NEW m \in Mrps, Evidenced(m),
           \/ evidence'[m] = evidence[m]
           \/ \E p \in Payloads : evidence'[m] = Append(evidence[m], p),
           \/ reviews'[m] = reviews[m]
           \/ \E v \in Reviews : reviews'[m] = Append(reviews[m], v)
    PROVE  Evidenced(m)'
    <1>0. evidence[m] \in Seq(Payloads) /\ reviews[m] \in Seq(Reviews)
      BY DEF TypeOK
    <1>1. /\ evidence[m] \in Seq(Payloads) /\ evidence'[m] \in Seq(Payloads)
          /\ reviews[m] \in Seq(Reviews)
      <2>1. \A p \in Payloads : Append(evidence[m], p) \in Seq(Payloads)
        BY <1>0
      <2> QED
        BY <1>0, <2>1
    <1>2. /\ DOMAIN evidence[m] \subseteq DOMAIN evidence'[m]
          /\ \A i \in DOMAIN evidence[m] : evidence'[m][i] = evidence[m][i]
      BY <1>1
    <1>3. /\ DOMAIN reviews[m] \subseteq DOMAIN reviews'[m]
          /\ \A j \in DOMAIN reviews[m] : reviews'[m][j] = reviews[m][j]
      BY <1>1
    <1>4. evidence[m] # <<>> /\ evidence'[m] # <<>>
      BY <1>1, <1>2 DEF Evidenced
    <1>5. evidence'[m][1] = evidence[m][1]
      BY <1>1, <1>2, <1>4
    <1>6. Strict => EvidencedTree(evidence[m])' = EvidencedTree(evidence[m])
      <2> SUFFICES ASSUME Strict
                   PROVE  EvidencedTree(evidence'[m])
                            = EvidencedTree(evidence[m])
        OBVIOUS
      <2>1. EvidencedTree(evidence[m]) = evidence[m][1].ctxTree
        BY <1>1, <1>4, FirstRowIsEvidenced
      <2>2. EvidencedTree(evidence'[m]) = evidence'[m][1].ctxTree
        BY <1>1, <1>4, FirstRowIsEvidenced
      <2> QED
        BY <2>1, <2>2, <1>5
    <1> QED
      BY <1>2, <1>3, <1>6 DEF Evidenced, Passing

\* A pack whose row mirrors its log and passes the gate is evidenced.
LEMMA GateIsEvidenced ==
    ASSUME TypeOK, PackMirrorsLog, NEW m \in Mrps, ReadyForMerge(m)
    PROVE  Evidenced(m)
    <1> DEFINE n == Len(evidence[m])
    <1>1. evidence[m] \in Seq(Payloads)
      BY DEF TypeOK
    <1>2. evidence[m] # <<>>
      BY DEF PackMirrorsLog, ReadyForMerge, TestsPass, Passing, Results
    <1>3. n \in DOMAIN evidence[m] /\ evidence[m][n] \in Payloads
      BY <1>1, <1>2
    <1>4. Passing(evidence[m][n])
      BY <1>2 DEF PackMirrorsLog, ReadyForMerge, TestsPass, Passing
    <1>5. ASSUME Strict
          PROVE  /\ evidence[m][n].runner = "ci:verifier"
                 /\ evidence[m][n].ctxTree = EvidencedTree(evidence[m])
                 /\ \E j \in DOMAIN reviews[m] : reviews[m][j] = "completed"
      <2>1. /\ evidence[m][n].runner = "ci:verifier"
            /\ evidence[m][n].ctxTree = evidence[m][n].tree
        BY <1>3, <1>5, PayloadAssumption
      <2>2. evidence[m][n].tree = mrps[m].tree
        BY <1>2, <1>5 DEF PackMirrorsLog
      <2> QED
        BY <1>5, <2>1, <2>2
           DEF ReadyForMerge, IndependentlyVerified, IndependentlyReviewed
    <1> QED
      BY <1>3, <1>4, <1>5 DEF Evidenced

-----------------------------------------------------------------------------
\* What a step of MergeGate does to the row and the logs of one pack.
Logged(m) ==
    \/ /\ Exists(m)
       /\ reviews'[m] = reviews[m]
       /\ \E p \in Payloads :
            /\ mrps'[m] = WithEvidence(mrps[m], p)
            /\ evidence'[m] = Append(evidence[m], p)
    \/ /\ evidence'[m] = evidence[m]
       /\ \/ reviews'[m] = reviews[m]
          \/ \E v \in Reviews : reviews'[m] = Append(reviews[m], v)
       /\ Exists(m) => Exists(m)'
       /\ Exists(m) => /\ mrps'[m].unit = mrps[m].unit
                       /\ mrps'[m].integration = mrps[m].integration
                       /\ mrps'[m].security = mrps[m].security
                       /\ mrps'[m].tree = mrps[m].tree
       /\ ~Exists(m) => mrps'[m].unit = None
       /\ \/ mrps'[m].status \notin Mergeable
          \/ mrps'[m].status = mrps[m].status
          \/ ReadyForMerge(m) /\ mrps'[m].specs = mrps[m].specs

\* Every step does one of these two things to each pack.
LEMMA StepsAreLogged ==
    ASSUME TypeOK, [Next]_vars, NEW m \in Mrps
    PROVE  Logged(m)
    <1> USE DEF Logged
    <1>0. /\ mrps[m] \in Mrp \cup {NoMrp}
          /\ ~Exists(m) => mrps[m] = NoMrp
      BY DEF TypeOK, Exists, Mrp, MrpStatuses, Decisions
    <1>1. CASE UNCHANGED packVars
      BY <1>1, <1>0 DEF packVars, Exists, NoMrp
    <1>2. ASSUME NEW k \in Mrps, NEW S \in SUBSET Specs, NEW bp \in BOOLEAN,
                 NEW t \in OrNull(Trees), CreateMrp(k, S, bp, t)
          PROVE  Logged(m)
      <2>1. CASE k = m
        BY <1>2, <2>1 DEF CreateMrp, TypeOK, NoMrp, Mergeable
      <2>2. CASE k # m
        BY <1>2, <2>2, <1>0 DEF CreateMrp, TypeOK, Exists, NoMrp
      <2> QED
        BY <2>1, <2>2
    <1>3. ASSUME NEW k \in Mrps, NEW p \in Payloads, UpdateEvidence(k, p)
          PROVE  Logged(m)
      <2>1. CASE k = m
        BY <1>3, <2>1 DEF UpdateEvidence, TypeOK
      <2>2. CASE k # m
        BY <1>3, <2>2, <1>0 DEF UpdateEvidence, TypeOK, Exists, NoMrp
      <2> QED
        BY <2>1, <2>2
    <1>4. ASSUME NEW k \in Mrps, NEW v \in Reviews, UpdateReview(k, v)
          PROVE  Logged(m)
      <2>1. CASE k = m
        <3>1. mrps[m] \in Mrp
          BY <1>4, <2>1, <1>0 DEF UpdateReview, Exists, NoMrp
        <3> QED
          BY <1>4, <2>1, <3>1 DEF UpdateReview, TypeOK, Exists, Mrp
      <2>2. CASE k # m
        BY <1>4, <2>2, <1>0 DEF UpdateReview, TypeOK, Exists, NoMrp
      <2> QED
        BY <2>1, <2>2
    <1>5. ASSUME NEW k \in Mrps, CheckReady(k) PROVE Logged(m)
      <2>1. CASE k = m
        <3>1. mrps[m] \in Mrp
          BY <1>5, <2>1, <1>0 DEF CheckReady, Exists, NoMrp
        <3> QED
          BY <1>5, <2>1, <3>1 DEF CheckReady, TypeOK, Exists, Mrp, Mergeable
      <2>2. CASE k # m
        BY <1>5, <2>2, <1>0 DEF CheckReady, TypeOK, Exists, NoMrp
      <2> QED
        BY <2>1, <2>2
    <1>6. ASSUME NEW k \in Mrps, NEW d \in Decisions, HumanDecision(k, d)
          PROVE  Logged(m)
      <2> DEFINE row == [mrps[k] EXCEPT !.status = d, !.decision = d]
      <2>0. mrps' = [mrps EXCEPT ![k] = row]
        BY <1>6 DEF HumanDecision
      <2>1. CASE k = m
        <3>1. mrps[m] \in Mrp
          BY <1>6, <2>1, <1>0 DEF HumanDecision, Exists, NoMrp
        <3>2. /\ row.status = d /\ row.unit = mrps[k].unit
              /\ row.specs = mrps[k].specs
              /\ row.integration = mrps[k].integration
              /\ row.security = mrps[k].security
              /\ row.tree = mrps[k].tree
          BY <2>1, <3>1 DEF Mrp
        <3>3. d \in Mergeable => ReadyForMerge(m)
          BY <1>6, <2>1 DEF HumanDecision, Decisions, Mergeable
        <3>4. d # "absent"
          BY DEF Decisions
        <3> HIDE DEF row
        <3>5. mrps'[m] = row
          BY <2>0, <2>1 DEF TypeOK
        <3> QED
          BY <1>6, <2>1, <3>2, <3>3, <3>4, <3>5 DEF HumanDecision, Exists
      <2>2. CASE k # m
        BY <1>6, <2>0, <2>2, <1>0 DEF HumanDecision, TypeOK, Exists, NoMrp
      <2> QED
        BY <2>1, <2>2
    <1>7. ASSUME NEW c \in Crps, ResolveCrp(c) PROVE Logged(m)
      <2>1. mrps'[m] = [mrps[m] EXCEPT !.openCrps = @ \ {c}]
        BY <1>7 DEF ResolveCrp, Cleared
      <2>2. /\ mrps'[m].status = mrps[m].status
            /\ mrps'[m].unit = mrps[m].unit
            /\ mrps'[m].integration = mrps[m].integration
            /\ mrps'[m].security = mrps[m].security
            /\ mrps'[m].tree = mrps[m].tree
        BY <2>1, <1>0 DEF Mrp, NoMrp
      <2> QED
        BY <1>7, <2>2, <1>0 DEF ResolveCrp, NoMrp, Exists
    <1>8. ASSUME NEW k \in Mrps, CreateMrpVcr(k) PROVE Logged(m)
      BY <1>8, <1>1 DEF CreateMrpVcr
    <1>9. CASE UNCHANGED vars
      BY <1>9, <1>1 DEF vars
    <1> HIDE DEF Logged
    <1>10. ASSUME NEW k \in Mrps, PackStep(k) PROVE Logged(m)
      BY <1>2, <1>3, <1>4, <1>5, <1>6, <1>8, <1>10 DEF PackStep
    <1> QED
      BY <1>1, <1>7, <1>9, <1>10 DEF Next, ConsultationStep

\* A pack becomes mergeable only through the gate.
LEMMA OnlyTheGateReadies ==
    ASSUME TypeOK, [Next]_vars, NEW m \in Mrps, mrps'[m].status \in Mergeable
    PROVE  \/ mrps'[m].status = mrps[m].status
           \/ ReadyForMerge(m) /\ mrps'[m].specs = mrps[m].specs
    <1>1. Logged(m)
      BY StepsAreLogged
    <1>2. \A p \in Payloads : Exists(m) =>
            WithEvidence(mrps[m], p).status = mrps[m].status
      BY EvidenceColumns DEF TypeOK, Exists, NoMrp
    <1> QED
      BY <1>1, <1>2 DEF Logged

\* The columns of a pack mirror its evidence log, in every state.
THEOREM LogIsMirrored == Spec => []PackMirrorsLog
<1>1. Init => PackMirrorsLog
  BY DEF Init, PackMirrorsLog, NoMrp
<1>2. TypeOK /\ PackMirrorsLog /\ [Next]_vars => PackMirrorsLog'
  <2> SUFFICES ASSUME TypeOK, PackMirrorsLog, [Next]_vars, NEW m \in Mrps
               PROVE  IF evidence'[m] = <<>> THEN mrps'[m].unit = None
                      ELSE LET last == evidence'[m][Len(evidence'[m])]
                           IN  /\ Exists(m)'
                               /\ mrps'[m].unit = last.unit
                               /\ mrps'[m].integration = last.integration
                               /\ mrps'[m].security = last.security
                               /\ Strict => mrps'[m].tree = last.tree
    BY DEF PackMirrorsLog
  <2>1. Logged(m)
    BY StepsAreLogged
  <2>2. ASSUME Exists(m), NEW p \in Payloads,
               mrps'[m] = WithEvidence(mrps[m], p),
               evidence'[m] = Append(evidence[m], p)
        PROVE  /\ evidence'[m] # <<>>
               /\ evidence'[m][Len(evidence'[m])] = p
               /\ Exists(m)'
               /\ mrps'[m].unit = p.unit
               /\ mrps'[m].integration = p.integration
               /\ mrps'[m].security = p.security
               /\ Strict => mrps'[m].tree = p.tree
    <3>1. mrps[m] \in Mrp /\ evidence[m] \in Seq(Payloads)
      BY <2>2 DEF TypeOK, Exists, NoMrp
    <3>2. /\ evidence'[m] # <<>>
          /\ evidence'[m][Len(evidence'[m])] = p
      BY <2>2, <3>1
    <3>3. LET new == WithEvidence(mrps[m], p)
          IN  /\ new.status = mrps[m].status
              /\ new.unit = p.unit /\ new.integration = p.integration
              /\ new.security = p.security
              /\ Strict => new.tree = p.tree
      BY <3>1, EvidenceColumns
    <3> QED
      BY <2>2, <3>2, <3>3 DEF Exists
  <2>3. CASE evidence'[m] = evidence[m]
    BY <2>1, <2>2, <2>3 DEF Logged, PackMirrorsLog
  <2> QED
    BY <2>1, <2>2, <2>3 DEF Logged
<1> QED
  BY <1>1, <1>2, TypeCorrect, PTL DEF Spec

\* A pack that awaits or has an approval is backed by its audit trail.
THEOREM ReadyIsBacked == Spec => []ReadyIsEvidenced
<1>1. Init => ReadyIsEvidenced
  BY DEF Init, ReadyIsEvidenced, NoMrp, Mergeable
<1>2. TypeOK /\ PackMirrorsLog /\ ReadyIsEvidenced /\ [Next]_vars
        => ReadyIsEvidenced'
  <2> SUFFICES ASSUME TypeOK, PackMirrorsLog, ReadyIsEvidenced, [Next]_vars,
                      NEW m \in Mrps, mrps'[m].status \in Mergeable
               PROVE  Evidenced(m)'
    BY DEF ReadyIsEvidenced
  <2>1. Logged(m)
    BY StepsAreLogged
  <2>2. \/ evidence'[m] = evidence[m]
        \/ \E p \in Payloads : evidence'[m] = Append(evidence[m], p)
    BY <2>1 DEF Logged
  <2>3. \/ reviews'[m] = reviews[m]
        \/ \E v \in Reviews : reviews'[m] = Append(reviews[m], v)
    BY <2>1 DEF Logged
  <2>4. Evidenced(m)
    BY OnlyTheGateReadies, GateIsEvidenced DEF ReadyIsEvidenced
  <2> QED
    BY <2>2, <2>3, <2>4, EvidencedStays
<1> QED
  BY <1>1, <1>2, TypeCorrect, LogIsMirrored, PTL DEF Spec

-----------------------------------------------------------------------------
\* No pack becomes ready or approved while a high or critical CRP of one of
\* its specifications lacks its resolution.
THEOREM MergesAreResolved == Spec => NoMergeWithoutResolution
<1>1. TypeOK /\ Cons!ResolvedIffVcr /\ [Next]_vars =>
        [\A m \in Mrps :
           /\ mrps'[m].status \in Mergeable
           /\ mrps'[m].status # mrps[m].status
           => \A c \in Crps : /\ crps[c].severity = "high"
                              /\ crps[c].spec \in mrps'[m].specs
                              => c \in vcrs]_vars
  <2> SUFFICES ASSUME TypeOK, Cons!ResolvedIffVcr, Next, NEW m \in Mrps,
                      mrps'[m].status \in Mergeable,
                      mrps'[m].status # mrps[m].status,
                      NEW c \in Crps, crps[c].severity = "high",
                      crps[c].spec \in mrps'[m].specs
               PROVE  c \in vcrs
    OBVIOUS
  <2>1. ReadyForMerge(m) /\ mrps'[m].specs = mrps[m].specs
    BY OnlyTheGateReadies
  <2>2. crps[c].status # "open"
    BY <2>1 DEF ReadyForMerge, BlockingCrps, Cons!Blocking
  <2>3. crps[c] \in Cons!Crp
    BY DEF TypeOK, Cons!TypeOK, Cons!NoCrp, Cons!Severities
  <2> QED
    BY <2>2, <2>3 DEF Cons!ResolvedIffVcr, Cons!Crp
<1> QED
  BY <1>1, TypeCorrect, ConsultationHolds, PTL
     DEF Spec, NoMergeWithoutResolution
=============================================================================
