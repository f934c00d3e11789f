------------------------------ MODULE OfflineRun ------------------------------
(***************************************************************************)
(* The offline runner (scripts/offline_runner.py): each run that a user    *)
(* starts is a thread that takes a blueprint through the governed stages   *)
(* by calls to the API and keeps a record, saved as a file at every mark,  *)
(* which the user interface polls.                                         *)
(*                                                                         *)
(* Runs meet in the rows whose identifiers are made from the project name: *)
(* the blueprint and the project, and the specification, whose identifier  *)
(* has only the first word of the name.  Creating such a row is a look-up  *)
(* and an insert, between which another run may insert it.  A run stands   *)
(* for the blueprint text it was started with.                             *)
(*                                                                         *)
(* What the coder and the strict packaging do is in CodingPhase and        *)
(* StrictVerification; here they succeed or raise.                         *)
(***************************************************************************)
EXTENDS Naturals, FiniteSets

CONSTANTS
    Jobs,       \* runs of the offline runner
    Projects,   \* project names
    DomainOf,   \* the first word of each project name
    None        \* no row, no project, nothing coded

VARIABLES
    run,        \* run[j]: the saved record
    step,       \* step[j]: the call that the thread makes next
    project,    \* project[j]: the project name it was given
    looked,     \* runs whose look-up found no row, before their insert
    rows,       \* rows[k]: the run that created the row k, or None
    validated,  \* domains whose specification is human-validated
    prds, stories,      \* domains whose first PRD, user story exists
    prdRef, storyRef,   \* runs that were told the identifier of theirs
    code,       \* code[j]: whose specification the coder was given
    faulted     \* runs that lost a call, or whose work failed

recVars == <<run, step, project>>
apiVars == <<looked, rows, validated, prds, stories>>
vars    == <<recVars, apiVars, prdRef, storyRef, code, faulted>>

-----------------------------------------------------------------------------
Stages == {"blueprint", "product", "spec", "design", "coder", "tests",
           "reviewer", "verifier", "artifact"}
Calls  == {"blueprint", "project", "prd", "story", "spec", "validate",
           "coder", "package", "review"}

Domains == {DomainOf[p] : p \in Projects}
Keys    == ({"blueprint", "project"} \X Projects) \cup ({"spec"} \X Domains)

ASSUME JobAssumption ==
    /\ None \notin Jobs \cup Projects
    /\ DomainOf \in [Projects -> STRING]

Record == [status: {"absent", "running", "completed", "failed"},
           stages: [Stages -> {"pending", "running", "completed", "failed"}],
           product: BOOLEAN]

TypeOK ==
    /\ run \in [Jobs -> Record]
    /\ step \in [Jobs -> Calls \cup {"idle", "ended"}]
    /\ project \in [Jobs -> Projects \cup {None}]
    /\ rows \in [Keys -> Jobs \cup {None}]
    /\ code \in [Jobs -> Jobs \cup {None}]
    /\ validated \cup prds \cup stories \subseteq Domains
    /\ looked \cup prdRef \cup storyRef \cup faulted \subseteq Jobs

NewRecord == [status |-> "absent", stages |-> [s \in Stages |-> "pending"],
              product |-> FALSE]

Init ==
    /\ run = [j \in Jobs |-> NewRecord]
    /\ step = [j \in Jobs |-> "idle"]
    /\ project = [j \in Jobs |-> None]
    /\ looked = {}
    /\ rows = [k \in Keys |-> None]
    /\ validated = {}
    /\ prds = {}
    /\ stories = {}
    /\ prdRef = {}
    /\ storyRef = {}
    /\ code = [j \in Jobs |-> None]
    /\ faulted = {}

-----------------------------------------------------------------------------
(* The record.                                                             *)

\* What follows a call: the stages that are marked as completed, those that
\* are marked as running, and the next call.
Completes == [blueprint |-> {"blueprint"}, project |-> {}, prd |-> {},
              story |-> {"product"}, spec |-> {"spec"},
              validate |-> {"design"}, coder |-> {"coder"},
              package |-> {"tests", "verifier"},
              review |-> {"reviewer", "artifact"}]
Opens == [blueprint |-> {"product"}, project |-> {}, prd |-> {},
          story |-> {"spec"}, spec |-> {}, validate |-> {"coder"},
          coder |-> {"tests", "verifier", "reviewer"}, package |-> {},
          review |-> {}]
After == [blueprint |-> "project", project |-> "prd", prd |-> "story",
          story |-> "spec", spec |-> "validate", validate |-> "coder",
          coder |-> "package", package |-> "review", review |-> "ended"]

\* Faulty marks: the reviewer's stage is closed together with the tests.
MarkedEarly(stages, call) ==
    [s \in Stages |->
       IF s \in Completes[call] \/ (call = "coder" /\ s = "reviewer")
       THEN "completed"
       ELSE IF s \in Opens[call] THEN "running" ELSE stages[s]]

Marked(stages, call) ==
    [s \in Stages |-> IF s \in Completes[call] THEN "completed"
                      ELSE IF s \in Opens[call] THEN "running" ELSE stages[s]]

\* Faulty failure: it closes every stage that was begun.
ClosedAll(stages) ==
    [s \in Stages |-> IF s = "artifact" \/ stages[s] # "pending" THEN "failed"
                      ELSE stages[s]]

\* A failure closes the stages that were open, and the artifact.
Closed(stages) ==
    [s \in Stages |-> IF s = "artifact" \/ stages[s] = "running" THEN "failed"
                      ELSE stages[s]]

Proceed(j) ==
    /\ run' = [run EXCEPT ![j] =
                 [status  |-> IF step[j] = "review" THEN "completed" ELSE @.status,
                  stages  |-> Marked(@.stages, step[j]),
                  product |-> step[j] = "review"]]
    /\ step' = [step EXCEPT ![j] = After[step[j]]]

\* Faulty handler: the thread retries for ever.
Retry(j) == UNCHANGED <<run, step>>

Fail(j) ==
    /\ run' = [run EXCEPT ![j].status = "failed", ![j].stages = Closed(@)]
    /\ step' = [step EXCEPT ![j] = "ended"]

\* The API carried out a call: the thread goes on, or never learns of it.
Served(j) ==
    \/ Proceed(j) /\ UNCHANGED faulted
    \/ Fail(j) /\ faulted' = faulted \cup {j}

-----------------------------------------------------------------------------
\* POST /api/runs of the runner starts the thread.
StartRun(j, p) ==
    /\ run[j].status = "absent"
    /\ run' = [run EXCEPT ![j].status = "running",
                          ![j].stages["blueprint"] = "running"]
    /\ step' = [step EXCEPT ![j] = "blueprint"]
    /\ project' = [project EXCEPT ![j] = p]
    /\ UNCHANGED <<apiVars, prdRef, storyRef, code, faulted>>

Domain(j) == DomainOf[project[j]]

\* The row that a call creates, unless it exists.
KeyOf(j) ==
    CASE step[j] = "blueprint" -> <<"blueprint", project[j]>>
      [] step[j] = "project"   -> <<"project", project[j]>>
      [] step[j] = "spec"      -> <<"spec", Domain(j)>>

\* The handler looks for the row; the thread takes the 409 as success.
LookUp(j) ==
    /\ step[j] \in {"blueprint", "project", "spec"}
    /\ j \notin looked
    /\ \/ /\ rows[KeyOf(j)] # None
          /\ Served(j)
          /\ UNCHANGED looked
       \/ /\ rows[KeyOf(j)] = None
          /\ looked' = looked \cup {j}
          /\ UNCHANGED <<run, step, faulted>>
    /\ UNCHANGED <<project, rows, validated, prds, stories, prdRef, storyRef,
                   code>>

\* Faulty key: an insert replaces the row.
Replaceable(j) == TRUE

\* The identifier is a primary key; the specification refers to a user story,
\* by its identifier or else by that of the first story of the domain.
Insertable(j) ==
    /\ rows[KeyOf(j)] = None
    /\ step[j] = "spec" => j \in storyRef \/ Domain(j) \in stories

Insert(j) ==
    /\ j \in looked
    /\ looked' = looked \ {j}
    /\ \/ /\ Insertable(j)
          /\ rows' = [rows EXCEPT ![KeyOf(j)] = j]
          /\ Served(j)
       \/ /\ ~Insertable(j)
          /\ Fail(j)
          /\ UNCHANGED <<rows, faulted>>
    /\ UNCHANGED <<project, validated, prds, stories, prdRef, storyRef, code>>

\* POST /prds and POST /user-stories: a failure is swallowed.  A lost answer
\* leaves the row, and the thread without its identifier.
CreatePrd(j, arrived, answered) ==
    /\ step[j] = "prd"
    /\ answered => arrived
    /\ prds' = IF arrived THEN prds \cup {Domain(j)} ELSE prds
    /\ prdRef' = IF answered THEN prdRef \cup {j} ELSE prdRef
    /\ faulted' = IF answered THEN faulted ELSE faulted \cup {j}
    /\ Proceed(j)
    /\ UNCHANGED <<project, looked, rows, validated, stories, storyRef, code>>

CreateStory(j, arrived, answered) ==
    LET accepted == arrived /\ (j \in prdRef \/ Domain(j) \in prds)
    IN  /\ step[j] = "story"
        /\ answered => arrived
        /\ stories' = IF accepted THEN stories \cup {Domain(j)} ELSE stories
        /\ storyRef' = IF accepted /\ answered THEN storyRef \cup {j}
                                               ELSE storyRef
        /\ faulted' = IF answered THEN faulted ELSE faulted \cup {j}
        /\ Proceed(j)
        /\ UNCHANGED <<project, looked, rows, validated, prds, prdRef, code>>

Validate(j) ==
    /\ step[j] = "validate"
    /\ validated' = validated \cup {Domain(j)}
    /\ Served(j)
    /\ UNCHANGED <<project, looked, rows, prds, stories, prdRef, storyRef, code>>

\* The coder reads the specification; the agent run is accepted when that is
\* validated.
ProposeCode(j) ==
    /\ step[j] = "coder"
    /\ Domain(j) \in validated
    /\ code' = [code EXCEPT ![j] = rows[<<"spec", Domain(j)>>]]
    /\ Served(j)
    /\ UNCHANGED <<project, apiVars, prdRef, storyRef>>

Package(j) ==
    /\ step[j] = "package"
    /\ Served(j)
    /\ UNCHANGED <<project, apiVars, prdRef, storyRef, code>>

\* The review verdict that is read back; either way it is advisory, but it
\* has to be one.
ReadReview(j, verdict) ==
    /\ step[j] = "review"
    /\ IF verdict \in {"completed", "needs_revision"} THEN Proceed(j) ELSE Fail(j)
    /\ UNCHANGED <<project, apiVars, prdRef, storyRef, code, faulted>>

\* A call does not arrive, or the work before it fails.
Break(j) ==
    /\ step[j] \in Calls \ {"prd", "story"}
    /\ Fail(j)
    /\ looked' = looked \ {j}
    /\ faulted' = faulted \cup {j}
    /\ UNCHANGED <<project, rows, validated, prds, stories, prdRef, storyRef,
                   code>>

\* The runner's process ends, and its threads with it.
RunnerStops ==
    LET going == {j \in Jobs : step[j] \in Calls}
    IN  /\ going # {}
        /\ step' = [j \in Jobs |-> IF j \in going THEN "ended" ELSE step[j]]
        /\ looked' = {}
        /\ faulted' = faulted \cup going
        /\ UNCHANGED <<run, project, rows, validated, prds, stories, prdRef,
                       storyRef, code>>

-----------------------------------------------------------------------------
Thread(j) ==
    \/ LookUp(j) \/ Insert(j)
    \/ \E arrived, answered \in BOOLEAN :
          CreatePrd(j, arrived, answered) \/ CreateStory(j, arrived, answered)
    \/ Validate(j) \/ ProposeCode(j) \/ Package(j)
    \/ \E v \in {"completed", "needs_revision", "in_progress"} : ReadReview(j, v)
    \/ Break(j)

Next ==
    \/ \E j \in Jobs : Thread(j) \/ \E p \in Projects : StartRun(j, p)
    \/ RunnerStops

Spec == Init /\ [][Next]_vars

\* A thread runs on: each call, subprocess and generation has a timeout.
FairSpec == Spec /\ \A j \in Jobs : WF_vars(Thread(j))

-----------------------------------------------------------------------------
(* Properties.                                                             *)

\* The order of the work, in which tests and verifier are one step; it is not
\* STAGE_ORDER, which shows the reviewer before the verifier.
Level == [blueprint |-> 1, product |-> 2, spec |-> 3, design |-> 4,
          coder |-> 5, tests |-> 6, verifier |-> 6, reviewer |-> 7,
          artifact |-> 8]

\* What a user sees of a run is what happened: a completed stage has all the
\* work before it completed, in running and in failed runs.
HonestProgress ==
    \A j \in Jobs : \A a, b \in Stages :
        (Level[a] < Level[b] /\ run[j].stages[b] = "completed")
            => run[j].stages[a] = "completed"

\* A run that is over shows no open stage; it has its product exactly when
\* every stage was completed.
EndedIsClosed ==
    \A j \in Jobs :
        /\ run[j].status \in {"completed", "failed"} =>
             \A s \in Stages : run[j].stages[s] # "running"
        /\ run[j].product <=> \A s \in Stages : run[j].stages[s] = "completed"

\* What the record says is what happened, while the run is going and after it.
RecordIsHonest == HonestProgress /\ EndedIsClosed

\* A stage that the user was shown as completed is never shown otherwise, and
\* the record of a run that is over is not touched again: not by a later mark,
\* a failure after the last one, or another run of the same name.
ProgressStays ==
    [][\A j \in Jobs :
         /\ \A s \in Stages : run[j].stages[s] = "completed"
                                 => run'[j].stages[s] = "completed"
         /\ run[j].status \in {"completed", "failed"} => run'[j] = run[j]]_run

\* The specification that was coded was validated, and is still the one in
\* the API: no later run of the project or of a namesake replaces it.
CodedIsValidated ==
    \A j \in Jobs : code[j] # None =>
        /\ Domain(j) \in validated
        /\ rows[<<"spec", Domain(j)>>] = code[j]

\* Every run ends, unless the runner's process does.
RunsEnd ==
    \A j \in Jobs :
        run[j].status = "running" ~>
            run[j].status \in {"completed", "failed"} \/ step[j] = "ended"
=============================================================================
