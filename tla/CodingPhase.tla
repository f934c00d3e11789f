----------------------------- MODULE CodingPhase -----------------------------
(***************************************************************************)
(* The client processes that drive a coding run through the API: the       *)
(* Python coder, the Spring Boot coder and the designer, which package     *)
(* their own work, and the strict coordinator, which packages what a coder *)
(* only proposed (used by the orchestrator and by the offline runner).     *)
(*                                                                         *)
(* Each is a fixed sequence of steps, most of them one HTTP call.  A call  *)
(* may be refused, may fail to arrive, or may be carried out while its     *)
(* answer is lost; the client sees an exception in all three cases.  What  *)
(* the API does in a call is the action of Consultation for that handler.  *)
(* The repair loop and the verification are steps with a verdict.          *)
(***************************************************************************)
EXTENDS Naturals, Sequences

CONSTANTS
    Specs,       \* see Consultation
    Pipelines,   \* client processes; each starts one run, which has its name
    None         \* see Consultation

VARIABLES
    specs, runs, old, crps, vcrs,  \* see Consultation
    kind,        \* kind[p]: which client it is
    phase,       \* phase[p]: how far its control flow is
    todo,        \* todo[p]: the steps it has left
    work,        \* work[p]: what it knows of the spec and of the tests
    mrps,        \* pipelines whose MRP exists
    evidenced,   \* pipelines whose MRP got evidence of the legacy coder
    faulted      \* pipelines that lost a call or an answer, or were killed

Patches == {"proposal", "packaged"}

Cons == INSTANCE Consultation WITH Runs <- Pipelines, Crps <- Pipelines

consVars == <<specs, runs, old, crps, vcrs>>
packVars == <<mrps, evidenced>>
vars     == <<consVars, kind, phase, todo, work, packVars, faulted>>

-----------------------------------------------------------------------------
Kinds  == {"python", "java", "design", "strict"}
Phases == {"idle", "going", "failing", "ended"}
Steps  == {"start", "work", "proposal", "pr_number", "mrp", "verify", "crp",
           "patch", "evidence"}

ASSUME NameAssumption == Cons!NoneAssumption

Work == [questions: BOOLEAN, passed: BOOLEAN]

TypeOK ==
    /\ Cons!TypeOK
    /\ kind \in [Pipelines -> Kinds]
    /\ phase \in [Pipelines -> Phases]
    /\ todo \in [Pipelines -> Seq(Steps)]
    /\ work \in [Pipelines -> Work]
    /\ mrps \subseteq Pipelines
    /\ evidenced \subseteq Pipelines
    /\ faulted \subseteq Pipelines

Init ==
    /\ Cons!Init
    /\ kind \in [Pipelines -> Kinds]
    /\ phase = [p \in Pipelines |-> "idle"]
    /\ todo = [p \in Pipelines |-> <<>>]
    /\ work = [p \in Pipelines |-> [questions |-> FALSE, passed |-> FALSE]]
    /\ mrps = {}
    /\ evidenced = {}
    /\ faulted = {}

-----------------------------------------------------------------------------
(* The clients.                                                            *)

\* The order of the steps; open questions in the spec call for a CRP.  The
\* Spring Boot coder asks for a pull-request number with a method it does not
\* have, and the designer for a run with a role that the database does not
\* have, so that they get no further.
Order(k, questions) ==
    CASE k = "python" /\ questions ->
           <<"start", "work", "mrp", "patch", "crp", "evidence">>
      [] k = "python" /\ ~questions ->
           <<"start", "work", "mrp", "patch", "evidence">>
      [] k = "java" /\ questions ->
           <<"start", "work", "pr_number", "mrp", "crp", "patch">>
      [] k = "java" /\ ~questions ->
           <<"start", "work", "pr_number", "mrp", "patch">>
      [] k = "design" ->
           <<"start", "work", "patch", "mrp">>
      [] k = "strict" /\ questions ->
           <<"start", "work", "proposal", "mrp", "verify", "crp", "patch">>
      [] k = "strict" /\ ~questions ->
           <<"start", "work", "proposal", "mrp", "verify", "patch">>

\* Faulty handler: an exception of the coder itself is not caught either.
NeverCaught(p, step) == FALSE

\* The steps whose exceptions the client answers by failing the run: the try
\* block of implement_spec begins after the run was started, and the strict
\* coordinator has none of its own.
Caught(p, step) ==
    /\ step \notin {"start", "evidence"}
    /\ kind[p] = "strict" => step \in {"work", "proposal"}

\* Faulty decision: untested code completes.
FinalUntested(p) ==
    IF work[p].questions /\ kind[p] # "design" THEN "blocked" ELSE "completed"

\* The status of the terminal patch.
FinalStatus(p) ==
    IF kind[p] = "design" THEN "completed"
    ELSE IF work[p].questions THEN "blocked"
    ELSE IF work[p].passed THEN "completed" ELSE "failed"

\* What the terminal patch records: the designer has no MRP at that point.
FinalPatch(p) == IF kind[p] = "design" THEN "proposal" ELSE "packaged"

TaskOf(p) ==
    IF kind[p] = "design" THEN "design_generation" ELSE "code_generation"

-----------------------------------------------------------------------------
(* Control flow.                                                           *)

At(p, step) ==
    /\ phase[p] = "going"
    /\ Head(todo[p]) = step

Return(p) ==
    /\ todo' = [todo EXCEPT ![p] = Tail(@)]
    /\ phase' = [phase EXCEPT ![p] = IF Len(todo[p]) = 1 THEN "ended" ELSE @]

Raise(p, step) ==
    /\ phase' = [phase EXCEPT ![p] = IF Caught(p, step) THEN "failing"
                                                        ELSE "ended"]
    /\ UNCHANGED todo

Fault(p) == faulted' = faulted \cup {p}

\* A call that the API carried out: the client reads the answer, or loses it.
Served(p, step) ==
    \/ Return(p) /\ UNCHANGED faulted
    \/ Raise(p, step) /\ Fault(p)

\* A call that changed nothing: refused when its guard fails, or not arrived.
Unserved(p, step, refused) ==
    /\ Raise(p, step)
    /\ \/ refused /\ UNCHANGED faulted
       \/ Fault(p)

\* A client is invoked for a specification, with or without open questions.
Invoke(p, questions) ==
    /\ phase[p] = "idle"
    /\ phase' = [phase EXCEPT ![p] = "going"]
    /\ todo' = [todo EXCEPT ![p] = Order(kind[p], questions)]
    /\ work' = [work EXCEPT ![p].questions = questions]
    /\ UNCHANGED <<consVars, kind, packVars, faulted>>

\* The roles that a run can have in the database: the designer's is missing.
RoleExists(p) == kind[p] # "design"

\* POST /agent-runs.
Start(p, s) ==
    /\ At(p, "start")
    /\ \/ /\ RoleExists(p)
          /\ Cons!StartAgentRun(p, TaskOf(p), s)
          /\ Served(p, "start")
       \/ /\ Unserved(p, "start", \/ ~RoleExists(p)
                                  \/ ~Cons!SpecMustBeValidated(TaskOf(p), s)
                                  \/ ~Cons!SpecRef(s))
          /\ UNCHANGED consVars
    /\ UNCHANGED <<kind, work, packVars>>

\* Generation, tests with repairs, scan and commit, without the API.  The
\* strict client does not test.
DoWork(p, passed) ==
    /\ At(p, "work")
    /\ \/ /\ Return(p)
          /\ work' = [work EXCEPT ![p].passed = passed]
       \/ /\ Raise(p, "work")
          /\ UNCHANGED work
    /\ UNCHANGED <<consVars, kind, packVars, faulted>>

\* PATCH /agent-runs without a status.
Propose(p) ==
    /\ At(p, "proposal")
    /\ \/ Cons!UpdateAgentRun(p, None, "proposal") /\ Served(p, "proposal")
       \/ Unserved(p, "proposal", FALSE) /\ UNCHANGED consVars
    /\ UNCHANGED <<kind, work, packVars>>

PrNumber(p) ==
    /\ At(p, "pr_number")
    /\ Raise(p, "pr_number")
    /\ UNCHANGED <<consVars, kind, work, packVars, faulted>>

\* POST /mrps: the pull-request number, which is made from the names of the
\* spec and of the run modulo 30000, may belong to another run's MRP.
CreateMrp(p) ==
    /\ At(p, "mrp")
    /\ \/ mrps' = mrps \cup {p} /\ Served(p, "mrp")
       \/ Unserved(p, "mrp", TRUE) /\ UNCHANGED mrps
    /\ UNCHANGED <<consVars, kind, work, evidenced>>

\* The verdict on the verification request; anything but a pass is raised.
AwaitVerdict(p, passed) ==
    /\ At(p, "verify")
    /\ work' = [work EXCEPT ![p].passed = passed]
    /\ IF passed THEN Return(p) ELSE Raise(p, "verify")
    /\ UNCHANGED <<consVars, kind, packVars, faulted>>

\* POST /crps with severity high.
RaiseCrp(p) ==
    /\ At(p, "crp")
    /\ \/ Cons!CreateCrp(p, "high", runs[p].spec, p) /\ Served(p, "crp")
       \/ Unserved(p, "crp", ~Cons!Patchable(p)) /\ UNCHANGED consVars
    /\ UNCHANGED <<kind, work, packVars>>

\* The terminal PATCH /agent-runs.
TerminalPatch(p) ==
    /\ At(p, "patch")
    /\ \/ /\ Cons!UpdateAgentRun(p, FinalStatus(p), FinalPatch(p))
          /\ Served(p, "patch")
       \/ Unserved(p, "patch", ~Cons!Patchable(p)) /\ UNCHANGED consVars
    /\ UNCHANGED <<kind, work, packVars>>

\* PATCH /mrps/{id}/evidence with what the coder's own tests said.
RecordEvidence(p) ==
    /\ At(p, "evidence")
    /\ \/ evidenced' = evidenced \cup {p} /\ Served(p, "evidence")
       \/ Unserved(p, "evidence", FALSE) /\ UNCHANGED evidenced
    /\ UNCHANGED <<consVars, kind, work, mrps>>

\* The except block: the run is marked as failed, if it still can be.
MarkFailed(p) ==
    /\ phase[p] = "failing"
    /\ phase' = [phase EXCEPT ![p] = "ended"]
    /\ \/ /\ Cons!UpdateAgentRun(p, "failed", None)
          /\ UNCHANGED faulted
       \/ /\ ~Cons!Patchable(p)
          /\ UNCHANGED <<consVars, faulted>>
       \/ Fault(p) /\ UNCHANGED consVars
    /\ UNCHANGED <<kind, todo, work, packVars>>

Kill(p) ==
    /\ phase[p] \in {"going", "failing"}
    /\ phase' = [phase EXCEPT ![p] = "ended"]
    /\ Fault(p)
    /\ UNCHANGED <<consVars, kind, todo, work, packVars>>

-----------------------------------------------------------------------------
\* Humans, the wall clock and API restarts.
Environment ==
    /\ \/ Cons!SpecStep
       \/ Cons!ReapOrphanRuns
       \/ \E p \in Pipelines : Cons!CutoffPasses(p) \/ Cons!CreateVcr(p)
    /\ UNCHANGED <<kind, phase, todo, work, packVars, faulted>>

Step(p) ==
    \/ \E s \in Specs : Start(p, s)
    \/ \E passed \in BOOLEAN : DoWork(p, passed) \/ AwaitVerdict(p, passed)
    \/ Propose(p) \/ PrNumber(p) \/ CreateMrp(p) \/ RaiseCrp(p)
    \/ TerminalPatch(p) \/ RecordEvidence(p)
    \/ MarkFailed(p)

Next ==
    \/ Environment
    \/ \E p \in Pipelines :
          \/ \E questions \in BOOLEAN : Invoke(p, questions)
          \/ Step(p)
          \/ Kill(p)

Spec == Init /\ [][Next]_vars

\* A client process that was invoked runs on until it ends or is killed.
FairSpec == Spec /\ \A p \in Pipelines : WF_vars(Step(p))

-----------------------------------------------------------------------------
(* Properties.                                                             *)

\* A completed coding run passed its tests or its verification, has no open
\* question and names an MRP that exists, whatever was lost on the way.
CompletedIsEarned ==
    \A p \in Pipelines :
        runs[p].status = "completed" =>
            /\ work[p].passed /\ ~work[p].questions
            /\ runs[p].provenance = "packaged" /\ p \in mrps

\* Only open questions block a run, be it by the terminal patch or by the CRP,
\* and only in the clients that ask them.
BlockedIsQuestioned ==
    \A p \in Pipelines :
        runs[p].status = "blocked" => /\ work[p].questions
                                      /\ kind[p] \in {"python", "strict"}

\* How a run ended says what came of its work.
StatusIsEarned == CompletedIsEarned /\ BlockedIsQuestioned

\* A coder that ended on its own, without a lost call, leaves no running run
\* (coder_agent.py: "a crash must not leave an immortal 'running' row").
EndedCoderEndsRun ==
    \A p \in Pipelines :
        /\ phase[p] = "ended"
        /\ kind[p] # "strict"
        /\ p \notin faulted
        => runs[p].status # "running"

\* Every run of a coder ends, or the coder was killed or cut off.
CoderRunsEnd ==
    \A p \in Pipelines :
        runs[p].status = "running" /\ kind[p] # "strict"
            ~> runs[p].status # "running" \/ p \in faulted
=============================================================================
