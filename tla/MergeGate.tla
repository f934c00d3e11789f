------------------------------ MODULE MergeGate ------------------------------
(***************************************************************************)
(* Merge-Readiness Packs (MRPs) on top of the consultation loop: evidence  *)
(* written by the CI or verifier identity, the AI review, the readiness    *)
(* gate with its separation-of-duties parts G7 and G8, and the human       *)
(* decision that authorizes a merge.                                       *)
(*                                                                         *)
(* As in Consultation, an action is one handler taken as one transaction.  *)
(* The audit_log is modelled by the two kinds of rows the gates read back: *)
(* the evidence rows and the review rows of each MRP, in insertion order.  *)
(***************************************************************************)
EXTENDS Naturals, Sequences

CONSTANTS
    Specs, Runs, Crps, Patches, None,   \* see Consultation
    Mrps,         \* identifiers of MRP rows
    Trees,        \* git tree hashes
    Payloads,     \* the evidence updates that clients send
    Strict,       \* SASE_SOD_MODE = strict
    MaxEvidence,  \* bound: evidence updates of one MRP
    MaxReviews    \* bound: review updates of one MRP

VARIABLES
    specs, runs, old, crps, vcrs,       \* see Consultation
    mrpVcrs,      \* MRPs that have a row VCR-<mrp id>
    mrps,         \* mrps[m]: the mrps row
    evidence,     \* evidence[m]: audit rows update_mrp_evidence
    reviews       \* reviews[m]: audit rows update_mrp_review

Cons == INSTANCE Consultation

consVars == <<specs, runs, old, crps, vcrs>>
packVars == <<mrps, evidence, reviews>>
vars     == <<consVars, mrpVcrs, packVars>>

-----------------------------------------------------------------------------
Results     == {"passed", "failed", "not_applicable"}
Reviews     == {"in_progress", "needs_revision", "completed"}
Decisions   == {"approved", "rejected", "needs_revision"}
MrpStatuses == Decisions \cup {"draft", "ready_for_human_review"}
Mergeable   == {"ready_for_human_review", "approved"}

OrNull(S) == S \cup {None}

\* The body of PATCH /mrps/{id}/evidence, which is also its audit row: runner
\* and ctxTree come from its execution_context.
Payload == [unit: OrNull(Results), integration: OrNull(Results),
            security: OrNull(Results), review: OrNull(Reviews),
            tree: OrNull(Trees), runner: OrNull({"ci:verifier", "other"}),
            ctxTree: OrNull(Trees)]

Mrp == [status: MrpStatuses, specs: SUBSET Specs, blueprint: BOOLEAN,
        unit: OrNull(Results), integration: OrNull(Results),
        security: OrNull(Results), review: OrNull(Reviews),
        tree: OrNull(Trees), openCrps: SUBSET Crps,
        decision: OrNull(Decisions)]  \* the last row mrp_human_decision

NoMrp == [status |-> "absent", specs |-> {}, blueprint |-> FALSE,
          unit |-> None, integration |-> None, security |-> None,
          review |-> None, tree |-> None, openCrps |-> {},
          decision |-> None]

\* NULL is no value of a column.
ASSUME NullAssumption ==
    /\ Cons!NoneAssumption
    /\ None \notin Results \cup Reviews \cup Trees \cup Decisions

\* Clients report all their checks in one update; in strict mode only the
\* verifier may, with one tree hash in the row and in the execution context.
ASSUME PayloadAssumption ==
    /\ Strict \in BOOLEAN
    /\ MaxEvidence \in Nat /\ MaxReviews \in Nat
    /\ Payloads \subseteq Payload
    /\ \A p \in Payloads :
         /\ None \notin {p.unit, p.integration, p.security}
         /\ Strict => /\ p.runner = "ci:verifier"
                      /\ p.tree # None
                      /\ p.ctxTree = p.tree

TypeOK ==
    /\ Cons!TypeOK
    /\ mrpVcrs \subseteq Mrps
    /\ mrps \in [Mrps -> Mrp \cup {NoMrp}]
    /\ evidence \in [Mrps -> Seq(Payloads)]
    /\ reviews \in [Mrps -> Seq(Reviews)]

Exists(m) == mrps[m].status # "absent"

Init ==
    /\ Cons!Init
    /\ mrpVcrs = {}
    /\ mrps = [m \in Mrps |-> NoMrp]
    /\ evidence = [m \in Mrps |-> <<>>]
    /\ reviews = [m \in Mrps |-> <<>>]

-----------------------------------------------------------------------------
(* The gates of api/gates.py.                                              *)

Passing(checks) ==
    /\ checks.unit = "passed"
    /\ checks.integration \in {"passed", "not_applicable", None}
    /\ checks.security = "passed"

\* Faulty check: a failed security scan does not block.
PassingTests(checks) ==
    /\ checks.unit = "passed"
    /\ checks.integration \in {"passed", "not_applicable", None}

TestsPassUnscanned(m) == PassingTests(mrps[m])

TestsPass(m) == Passing(mrps[m])

\* Open CRPs of high or critical severity that name one of the specifications.
BlockingCrps(S) ==
    {c \in Crps : /\ crps[c].spec \in S
                  /\ crps[c].status \in {"open", "blocking"}
                  /\ crps[c].severity \in Cons!Blocking}

VerifierRows(log) == {i \in DOMAIN log : log[i].runner = "ci:verifier"}

\* The tree hash of the first evidence row that the verifier wrote.
EvidencedTree(log) ==
    IF VerifierRows(log) = {} THEN None
    ELSE log[CHOOSE i \in VerifierRows(log) :
                \A j \in VerifierRows(log) : i <= j].ctxTree

\* G7: the pack is bound to the tree that the verifier's evidence names.
IndependentlyVerified(m) ==
    /\ mrps[m].tree # None
    /\ EvidencedTree(evidence[m]) = mrps[m].tree

\* G8: the review is completed, and the reviewer once wrote that it was.
IndependentlyReviewed(m) ==
    /\ mrps[m].review = "completed"
    /\ \E i \in DOMAIN reviews[m] : reviews[m][i] = "completed"

\* Faulty gate: it trusts the CRPs attached when the pack was created.
ReadyOnSnapshot(m) ==
    /\ TestsPass(m)
    /\ mrps[m].specs # {}
    /\ mrps[m].blueprint
    /\ mrps[m].openCrps = {}
    /\ mrps[m].status # "rejected"
    /\ Strict => IndependentlyVerified(m) /\ IndependentlyReviewed(m)

ReadyForMerge(m) ==
    /\ TestsPass(m)
    /\ mrps[m].specs # {}
    /\ mrps[m].blueprint
    /\ BlockingCrps(mrps[m].specs) = {}
    /\ mrps[m].status # "rejected"
    /\ Strict => IndependentlyVerified(m) /\ IndependentlyReviewed(m)

-----------------------------------------------------------------------------
(* Handlers of the MRP router and of the review router.                    *)

\* POST /mrps attaches the unresolved CRPs of its specifications.
UnresolvedCrps(S) ==
    {c \in Crps : crps[c].spec \in S /\ crps[c].status # "resolved"}

CreateMrp(m, S, blueprint, tree) ==
    /\ ~Exists(m)
    /\ mrps' = [mrps EXCEPT ![m] =
                  [NoMrp EXCEPT !.status = "draft", !.specs = S,
                                !.blueprint = blueprint, !.tree = tree,
                                !.openCrps = UnresolvedCrps(S)]]
    /\ UNCHANGED <<consVars, mrpVcrs, evidence, reviews>>

Given(field, value) == IF field = None THEN value ELSE field

\* Faulty update: a check the payload reports as passed is never downgraded.
WithBestEvidence(mrp, p) ==
    [mrp EXCEPT !.unit = IF @ = "passed" THEN @ ELSE Given(p.unit, @),
                !.integration = Given(p.integration, @),
                !.security = Given(p.security, @),
                !.review = Given(p.review, @),
                !.tree = Given(p.tree, @)]

\* The row after an evidence update; it is written whatever its status.
WithEvidence(mrp, p) ==
    [mrp EXCEPT !.unit = Given(p.unit, @),
                !.integration = Given(p.integration, @),
                !.security = Given(p.security, @),
                !.review = Given(p.review, @),
                !.tree = Given(p.tree, @)]

UpdateEvidence(m, p) ==
    /\ Exists(m)
    /\ Len(evidence[m]) < MaxEvidence
    /\ mrps' = [mrps EXCEPT ![m] = WithEvidence(@, p)]
    /\ evidence' = [evidence EXCEPT ![m] = Append(@, p)]
    /\ UNCHANGED <<consVars, mrpVcrs, reviews>>

UpdateReview(m, verdict) ==
    /\ Exists(m)
    /\ Len(reviews[m]) < MaxReviews
    /\ mrps' = [mrps EXCEPT ![m].review = verdict]
    /\ reviews' = [reviews EXCEPT ![m] = Append(@, verdict)]
    /\ UNCHANGED <<consVars, mrpVcrs, evidence>>

CheckReady(m) ==
    /\ Exists(m)
    /\ mrps' = [mrps EXCEPT ![m].status =
                  IF ReadyForMerge(m) THEN "ready_for_human_review"
                                      ELSE "needs_revision"]
    /\ UNCHANGED <<consVars, mrpVcrs, evidence, reviews>>

HumanDecision(m, decision) ==
    /\ Exists(m)
    /\ decision = "approved" =>
         BlockingCrps(mrps[m].specs) = {} /\ ReadyForMerge(m)
    /\ mrps' = [mrps EXCEPT ![m].status = decision, ![m].decision = decision]
    /\ UNCHANGED <<consVars, mrpVcrs, evidence, reviews>>

\* Faulty clearing: packs that left draft are forgotten.
ClearedDrafts(c) ==
    [m \in Mrps |-> IF mrps[m].status = "draft"
                    THEN [mrps[m] EXCEPT !.openCrps = @ \ {c}] ELSE mrps[m]]

\* Every pack that had the CRP attached, with the CRP removed.
Cleared(c) ==
    [m \in Mrps |-> [mrps[m] EXCEPT !.openCrps = @ \ {c}]]

ResolveCrp(c) ==
    /\ Cons!CreateVcr(c)
    /\ mrps' = Cleared(c)
    /\ UNCHANGED <<mrpVcrs, evidence, reviews>>

\* A VCR may also be filed on a pack; it records a decision, no more.
CreateMrpVcr(m) ==
    /\ Exists(m)
    /\ m \notin mrpVcrs
    /\ mrpVcrs' = mrpVcrs \cup {m}
    /\ UNCHANGED <<consVars, packVars>>

-----------------------------------------------------------------------------
ConsultationStep ==
    /\ Cons!SpecStep \/ Cons!RunStep \/ Cons!CrpStep
    /\ UNCHANGED <<mrpVcrs, packVars>>

PackStep(m) ==
    \/ \E S \in SUBSET Specs, bp \in BOOLEAN, t \in OrNull(Trees) :
          CreateMrp(m, S, bp, t)
    \/ \E p \in Payloads : UpdateEvidence(m, p)
    \/ \E v \in Reviews : UpdateReview(m, v)
    \/ CheckReady(m)
    \/ \E d \in Decisions : HumanDecision(m, d)
    \/ CreateMrpVcr(m)

Next ==
    \/ ConsultationStep
    \/ \E c \in Crps : ResolveCrp(c)
    \/ \E m \in Mrps : PackStep(m)

Spec == Init /\ [][Next]_vars

-----------------------------------------------------------------------------
(* Properties.                                                             *)

\* A pack's open_crp_ids never names a resolved CRP: create_vcr clears the
\* CRP from every pack it was attached to (vcr.py).
OpenCrpIdsUnresolved ==
    \A m \in Mrps : \A c \in mrps[m].openCrps : crps[c].status = "open"

\* The row and the audit log agree: the check columns of a pack are those of
\* the last evidence update in its log, and in strict mode so is its tree;
\* without evidence there is no test result.
PackMirrorsLog ==
    \A m \in Mrps :
        IF evidence[m] = <<>> THEN mrps[m].unit = None
        ELSE LET last == evidence[m][Len(evidence[m])]
             IN  /\ Exists(m)
                 /\ mrps[m].unit = last.unit
                 /\ mrps[m].integration = last.integration
                 /\ mrps[m].security = last.security
                 /\ Strict => mrps[m].tree = last.tree

\* An evidence row of the pack authorizes a merge: all checks passed and, in
\* strict mode, it is about the tree of the verifier's first evidence, and
\* the reviewer once wrote a completed review.
Evidenced(m) ==
    \E i \in DOMAIN evidence[m] :
        /\ Passing(evidence[m][i])
        /\ Strict =>
             /\ evidence[m][i].runner = "ci:verifier"
             /\ evidence[m][i].ctxTree = EvidencedTree(evidence[m])
             /\ \E j \in DOMAIN reviews[m] : reviews[m][j] = "completed"

\* The audit trail backs a merge authorization: a pack that awaits or has an
\* approval is evidenced, whatever was written to it since (gates.py G1, G7
\* and G8 read the row; the audit rows outlive it).
ReadyIsEvidenced ==
    \A m \in Mrps : mrps[m].status \in Mergeable => Evidenced(m)

\* A pack becomes ready or approved only when every high or critical CRP ever
\* raised on one of its specifications, before or after the pack was made,
\* has its resolution (README: MRPs cannot merge while such CRPs are open).
NoMergeWithoutResolution ==
    [][\A m \in Mrps :
         /\ mrps'[m].status \in Mergeable
         /\ mrps'[m].status # mrps[m].status
         => \A c \in Crps : /\ crps[c].severity = "high"
                            /\ crps[c].spec \in mrps'[m].specs
                            => c \in vcrs]_vars

\* A rejected pack does not become ready again but by a human decision
\* (gates.py gives the rejection as a blocking reason).
RejectedIsNotReadied ==
    [][\A m \in Mrps :
         /\ mrps'[m].status = "ready_for_human_review"
         /\ mrps[m].status # "ready_for_human_review"
         => mrps[m].decision # "rejected"]_vars
=============================================================================
