---------------------------- MODULE Consultation ----------------------------
(***************************************************************************)
(* The consultation loop of the governance engine: specifications and      *)
(* their human validation, agent runs and their status machine,            *)
(* Consultation Request Packs (CRPs) that agents raise, and the Version    *)
(* Controlled Resolutions (VCRs) that close them.                          *)
(*                                                                         *)
(* Every action is one HTTP handler of api/routers (or the startup         *)
(* reaper) taken as one transaction.  A handler that raises HTTPException  *)
(* rolls its transaction back, so a refusal is simply a disabled action.   *)
(* What happens when the read step and the commit step of two handlers     *)
(* interleave is the subject of module ReadCommitted.                      *)
(***************************************************************************)
EXTENDS Naturals

CONSTANTS
    Specs,     \* identifiers of specification rows
    Runs,      \* identifiers of agent-run rows
    Crps,      \* identifiers of CRP rows
    Patches,   \* provenance a PATCH may write (files, commit hash, mrp id...)
    None       \* SQL NULL, and a field left out of a request

VARIABLES
    specs,     \* specs[s]: no row, a draft, or a human-validated row
    runs,      \* runs[r]: the agent_runs row
    old,       \* runs started before the orphan cutoff
    crps,      \* crps[c]: the crps row
    vcrs       \* the artifacts that have a row VCR-<artifact id>

vars == <<specs, runs, old, crps, vcrs>>

-----------------------------------------------------------------------------
RunStatuses      == {"running", "completed", "failed", "blocked"}
TerminalStatuses == {"completed", "failed", "blocked"}
TaskTypes        == {"code_generation", "design_generation"}
Severities       == {"medium", "high"}    \* low = medium, critical = high
Blocking         == {"high"}

\* NULL is no identifier and no value of an enumerated column.
ASSUME NoneAssumption ==
    None \notin Specs \cup Runs \cup Patches
                \cup RunStatuses \cup TaskTypes \cup Severities

NoRun == [status |-> "absent", task |-> None, spec |-> None,
          provenance |-> None, finished |-> FALSE]
NoCrp == [status |-> "absent", severity |-> None, spec |-> None, run |-> None]

Run == [status: RunStatuses, task: TaskTypes, spec: Specs \cup {None},
        provenance: Patches \cup {None}, finished: BOOLEAN]
Crp == [status: {"open", "resolved"}, severity: Severities,
        spec: Specs \cup {None}, run: Runs \cup {None}]

TypeOK ==
    /\ specs \in [Specs -> {"absent", "draft", "validated"}]
    /\ runs \in [Runs -> Run \cup {NoRun}]
    /\ old \subseteq Runs
    /\ crps \in [Crps -> Crp \cup {NoCrp}]
    /\ vcrs \subseteq Crps

\* Foreign keys: a reference is NULL or names an existing row.
SpecRef(s) == s # None => specs[s] # "absent"
RunRef(r)  == r # None => runs[r].status # "absent"

Init ==
    /\ specs = [s \in Specs |-> "absent"]
    /\ runs = [r \in Runs |-> NoRun]
    /\ old = {}
    /\ crps = [c \in Crps |-> NoCrp]
    /\ vcrs = {}

-----------------------------------------------------------------------------
(* Specifications.                                                         *)

CreateSpec(s) ==
    /\ specs[s] = "absent"
    /\ specs' = [specs EXCEPT ![s] = "draft"]
    /\ UNCHANGED <<runs, old, crps, vcrs>>

ValidateSpec(s) ==
    /\ specs[s] # "absent"
    /\ specs' = [specs EXCEPT ![s] = "validated"]
    /\ UNCHANGED <<runs, old, crps, vcrs>>

-----------------------------------------------------------------------------
(* Agent runs.                                                             *)

\* Faulty gate: the specification need only exist.
SpecMustExist(task, s) == s # None => specs[s] # "absent"

\* The gate that keeps an unvalidated specification out of code generation.
SpecMustBeValidated(task, s) ==
    task = "code_generation" /\ s # None => specs[s] = "validated"

StartAgentRun(r, task, s) ==
    /\ runs[r].status = "absent"
    /\ SpecMustBeValidated(task, s)
    /\ SpecRef(s)
    /\ runs' = [runs EXCEPT ![r] =
                  [status |-> "running", task |-> task, spec |-> s,
                   provenance |-> None, finished |-> FALSE]]
    /\ UNCHANGED <<specs, old, crps, vcrs>>

\* Faulty guard: a run blocked by a consultation may be patched again.
PatchableIfBlocked(r) == runs[r].status \notin {"completed", "failed"}

\* assert_run_patchable: the guard shared by PATCH /agent-runs and POST /crps.
Patchable(r) == runs[r].status \notin TerminalStatuses

\* The row a PATCH leaves; a field that is None was not in the payload.
PatchedRun(run, status, patch) ==
    [run EXCEPT
       !.status     = IF status # None THEN status ELSE @,
       !.provenance = IF patch # None THEN patch ELSE @,
       !.finished   = @ \/ status \in TerminalStatuses]

UpdateAgentRun(r, status, patch) ==
    /\ runs[r].status # "absent"
    /\ status # None => Patchable(r)
    /\ runs' = [runs EXCEPT ![r] = PatchedRun(@, status, patch)]
    /\ UNCHANGED <<specs, old, crps, vcrs>>

\* The wall clock passes the orphan cutoff of a run.
CutoffPasses(r) ==
    /\ runs[r].status # "absent"
    /\ old' = old \cup {r}
    /\ UNCHANGED <<specs, runs, crps, vcrs>>

\* Faulty selections and updates of the reaper: every old run; a status no
\* PATCH would accept; a failed run without its finishing time.
OldRuns == old
OrphanedRun(run) == [run EXCEPT !.status = "orphaned", !.finished = TRUE]
UnstampedRun(run) == [run EXCEPT !.status = "failed"]

Orphans == {r \in old : runs[r].status = "running"}

ReapedRun(run) == [run EXCEPT !.status = "failed", !.finished = TRUE]

\* An API start: every orphan fails, in one transaction.
ReapOrphanRuns ==
    /\ runs' = [r \in Runs |->
                  IF r \in Orphans THEN ReapedRun(runs[r]) ELSE runs[r]]
    /\ UNCHANGED <<specs, old, crps, vcrs>>

-----------------------------------------------------------------------------
(* Consultation requests and their resolutions.                            *)

CreateCrp(c, severity, s, r) ==
    /\ crps[c].status = "absent"
    /\ SpecRef(s) /\ RunRef(r)
    /\ crps' = [crps EXCEPT ![c] = [status |-> "open", severity |-> severity,
                                    spec |-> s, run |-> r]]
    /\ \/ /\ r = None \/ severity \notin Blocking
          /\ UNCHANGED runs
       \/ /\ r # None /\ severity \in Blocking
          /\ Patchable(r)
          /\ runs' = [runs EXCEPT ![r].status = "blocked"]
    /\ UNCHANGED <<specs, old, vcrs>>

\* Faulty resolution: only a blocking CRP is closed.
ResolvedIfBlocking(c) ==
    IF crps[c].severity \in Blocking
    THEN [crps EXCEPT ![c].status = "resolved"] ELSE crps

Resolved(c) == [crps EXCEPT ![c].status = "resolved"]

\* One resolution per CRP, whatever the decision recorded in it says.
CreateVcr(c) ==
    /\ crps[c].status # "absent"
    /\ c \notin vcrs
    /\ crps' = Resolved(c)
    /\ vcrs' = vcrs \cup {c}
    /\ UNCHANGED <<specs, runs, old>>

-----------------------------------------------------------------------------
SpecStep == \E s \in Specs : CreateSpec(s) \/ ValidateSpec(s)

RunStep ==
    \/ \E r \in Runs, task \in TaskTypes, s \in Specs \cup {None} :
          StartAgentRun(r, task, s)
    \/ \E r \in Runs, st \in RunStatuses \cup {None},
          p \in Patches \cup {None} : UpdateAgentRun(r, st, p)
    \/ \E r \in Runs : CutoffPasses(r)
    \/ ReapOrphanRuns

CrpStep ==
    \E c \in Crps, sev \in Severities, s \in Specs \cup {None},
       r \in Runs \cup {None} : CreateCrp(c, sev, s, r)

Next == SpecStep \/ RunStep \/ CrpStep \/ \E c \in Crps : CreateVcr(c)

Spec == Init /\ [][Next]_vars

-----------------------------------------------------------------------------
(* Properties.                                                             *)

\* No code-generation run that names a specification exists before a human
\* has validated that specification (requirements.py: the validate endpoint
\* is the only writer of human_validated; agent_runs.py checks it).
ValidatedBeforeCodegen ==
    \A r \in Runs :
        /\ runs[r].task = "code_generation"
        /\ runs[r].spec # None
        => specs[runs[r].spec] = "validated"

\* A run that an agent raised a high or critical CRP about is blocked, and
\* stays so after the resolution: it never runs on, nor ends as completed
\* (crp.py sets the run, gates.py refuses every later status).
HighCrpBlocksRun ==
    \A c \in Crps :
        /\ crps[c].severity \in Blocking
        /\ crps[c].run # None
        => runs[crps[c].run].status = "blocked"

\* A CRP is resolved exactly when its resolution is recorded: the status and
\* the VCR row are two tables written by one handler, and no other handler
\* resolves (vcr.py).
ResolvedIffVcr == \A c \in Crps : crps[c].status = "resolved" <=> c \in vcrs

\* A finished_at stamp and a terminal status go together, but for the runs a
\* CRP blocked: their row shows a terminal status with no finishing time.
UnstampedOnlyByCrp ==
    \A r \in Runs :
        /\ runs[r].finished => runs[r].status \in TerminalStatuses
        /\ runs[r].status \in TerminalStatuses /\ ~runs[r].finished =>
             \E c \in Crps : crps[c].run = r /\ crps[c].severity \in Blocking

\* The four writers of a run's status (PATCH, POST /crps, the reaper, the
\* insert) never move a run out of a terminal status.
TerminalIsFinal ==
    [][\A r \in Runs : runs[r].status \in TerminalStatuses =>
         /\ runs'[r].status = runs[r].status
         /\ runs'[r].finished = runs[r].finished]_vars
=============================================================================
