# Formal models of the governed software-engineering engine

TLA+ models of the parts of this repository whose correctness depends on order:
who may write what, after whom, and what is left when a call is lost, overtaken
or never made. TLC checks the models on small instances, TLAPS proves what
matters most for instances of any size.

- [The system](#the-system)
- [Modules and the code they model](#modules-and-the-code-they-model)
- [Runs](#runs)
- [Fairness](#fairness)
- [Findings](#findings)
- [Proofs](#proofs)
- [What is not modelled](#what-is-not-modelled)
- [Plan](#plan)

`PROJECT.json` is the machine-readable index: components, runs, the source lines
of every definition (`map`), the hazards with their lines, the mutants that show
that each property can fail, and the theorems. Paths below are relative to the
repository.

## The system

A FastAPI service (`api/`) keeps the governance rows in PostgreSQL. Agents
(`agents/`) and a runner (`scripts/offline_runner.py`) are HTTP clients of it in
processes of their own, and humans use it through a web interface.

| Component | State it keeps | Operations | What makes it correct |
|---|---|---|---|
| Specification gate (`api/routers/requirements.py`) | `specs`: row, `human_validated` | create, validate | no code is generated from a spec that no human validated |
| Agent runs (`api/routers/agent_runs.py`, `api/main.py`) | `agent_runs`: status, task, spec, provenance, `finished_at` | start, patch, reap at start-up | a terminal status is final; a run that a high CRP names does not go on |
| Consultation (`crp.py`, `vcr.py`) | `crps`, `vcrs`, `mrps.open_crp_ids` | raise, resolve | resolved exactly when the resolution row exists; one resolution for ever |
| Merge gate (`mrp.py`, `review.py`, `gates.py`) | `mrps`, its evidence and review rows in `audit_log` | create, evidence, review, check-ready, human decision | ready or approved only with evidence, and with every blocking CRP resolved |
| Verification queue (`verification_requests.py`, `agents/verifier.py`) | `verification_requests`, the work of each verifier process | enqueue, poll, claim, verify, complete | a request is verified once, by one worker; a verdict repeats the evidence |
| Transactions (`api/database.py`, `api/ids.py`) | one session per handler, READ COMMITTED; a counter row per domain | read, decide, lock a counter, flush, commit | which of the above survive two handlers at once; the counter gives no number twice |
| Coders, designer, strict coordinator (`agents/coder_*.py`, `designer_agent.py`, `orchestrator.py`) | their control flow and what they know of the tests | a fixed sequence of calls and an exception handler | the status of a run is what happened; a coder never leaves an immortal running row |
| Strict coordination (`orchestrator.py`, `verification.py`) | pinned commit, polling counter | pin, enqueue, spawn a verifier, poll, spawn a reviewer, CRP and terminal patch | it goes on only with its own passing evidence, and comes to an end; the gate opens for no other pack |
| Offline runner (`scripts/offline_runner.py`) | the record of each run, saved as a file | nine calls, each with stage marks; start, list, show | the record says what happened; it is closed at the end |
| Live view of an offline run (`static/ui/app.js`) | address, watched run, timer, calls in flight | submit, list, show, poll | a dashboard that says LIVE is polled; the end of a run is shown |
| Approval centre (`static/ui/app.js`, `dashboard.py`, `security.py`, `authn.py`) | a browser tab: token, view, calls in flight | sign in, navigate, refresh, review, decide | what it says is recorded is recorded; a dead session and a decided item disappear |

They interact through the rows. A human validates a spec; a coder starts a run
on it, works, and either packages the result itself (legacy mode: MRP, terminal
patch, CRP, evidence in an order of its own) or only proposes it (strict mode:
the coordinator creates the MRP, enqueues a verification request, spawns a
verifier and polls). The verifier claims the oldest request, whoever enqueued
it, writes evidence on the MRP under an identity of its own and completes the
request. A reviewer writes its verdict. Gates read the rows and two kinds of
audit rows; a human decides.

What is hard about it, and what the models are aimed at:

- **Two handlers at once.** No handler locks what it checks: a read may be
  overtaken by the commit of another handler (ReadCommitted, and the slow poll
  and the two-transaction claim of VerificationQueue).
- **Order of calls.** Terminal runs refuse patches and CRPs, so that the order
  in which a client patches, raises and packages decides what remains
  (CodingPhase). A pack can be reviewed, rejected and checked again in any order
  (MergeGate).
- **Failure.** A client sees the same exception when a call was refused, did not
  arrive, or was carried out and the answer was lost; workers die with a claimed
  request; the API restarts and reaps; the runner's process ends with its
  threads.
- **Stale state.** What a page shows while others decide, the CRPs attached to a
  pack, the first evidence row of G7, the workspace's head at the time of
  packaging, and rows that other projects created under the same derived
  identifier.
- **Files.** The record of an offline run is truncated and written again at every
  mark, while other threads of the runner read it (LiveRun).
- **Time.** The TTL of a request, the orphan cutoff of a run and the polling
  limit are separate from what they guard.

The list of hazards in `PROJECT.json` gives each with its line and its
properties.

## Modules and the code they model

| Module | Models | Uses |
|---|---|---|
| `Consultation` | specs, runs, CRPs, VCRs; each handler is one transaction | |
| `MergeGate` | packs, evidence, review, gate, decision on top of it | `Consultation` (INSTANCE) |
| `ReadCommitted` | the same handlers as a read and a commit, and the CRP counters | |
| `RequestLifecycle` | abstract: what the queue promises about one request | |
| `VerificationQueue` | the queue and the verifier workers | implements `RequestLifecycle` |
| `StrictVerification` | strict coordinators that share the queue | `VerificationQueue` (INSTANCE) |
| `CodingPhase` | the clients of a coding run against the API | `Consultation` (INSTANCE) |
| `OfflineRun` | the runner's threads, their record and the rows they meet in | |
| `LiveRun` | the record's file and the page that starts, lists and polls runs | |
| `ApprovalCenter` | a human's browser tab against the API | `Consultation` (INSTANCE) |
| `MC*` | values for TLC: payloads, domains, symmetry | the module of that name |
| `*Proofs` | theorems | the module of that name, TLAPS; those of a module that instantiates another also the proofs of that one. `InterfaceProofs` extends both models of the web interface, `ApprovalCenter` and `LiveRun`, whose names are disjoint for that |

**Consultation.** `specs`, `runs`, `crps` and `vcrs` are the tables; identifiers
are model values and `None` is SQL NULL. `CreateSpec`, `ValidateSpec`,
`StartAgentRun`, `UpdateAgentRun`, `CreateCrp` and `CreateVcr` are the handlers
in the order of their checks; a refusal (4xx) rolls back and is a disabled
action. `ReapOrphanRuns` is `fail_orphan_runs` at the start of the API, over all
runs that are `old` (past the cutoff: `CutoffPasses`) and running. Severities
are two classes, the blocking ones (`high`, `critical`) and the others, and the
provenance columns of a PATCH are one value.

**MergeGate.** `mrps[m]` has the columns the gate reads; `evidence[m]` and
`reviews[m]` are the audit rows that G7 and G8 read back. `ReadyForMerge` is the
conjunction of the gate's blocking reasons, in strict mode with
`IndependentlyVerified` (G7, by the verifier's *first* row) and
`IndependentlyReviewed` (G8). `CheckReady` writes the outcome over whatever
status there was; `HumanDecision` checks again before an approval. `ResolveCrp`
is the other half of `create_vcr`. The assumption on `Payloads` is the check on
the writer of evidence in strict mode (`ci:verifier` only) and the shape of what
`agents/verifier.py` and `record_ci_evidence` send. `decision` is the last
`mrp_human_decision` audit row; no gate reads it, a property does.

**ReadCommitted.** `tx[t]` is the handler in a thread: what it read and will
write. The mapper flushes only the columns whose value it changed (`Flushed`),
arrays whole (`Detached`), and inserts fail on a key that is taken by then. A
CRP takes the next number of its domain (`NextCrp`) from a counter row that is
keyed by the domain as it is *spelled* and stays locked until the commit
(`CounterLocked`), while the identifier has the domain in upper case (`Upper`):
the identifier may be taken (`CrpKeyIsFree`), and the failed insert takes the
number back with it (`CreateCrpFails`). The rest of the gate is a Boolean choice
(`checks`).

**VerificationQueue.** `claim_next` is two actions because it commits the expiry
before it selects; `get_status` is one action, or two when `SlowPoll` lets
another handler commit between its SELECT and its UPDATE. `Work` is
`agents/verifier.py` after a claim: `VerifyAndWrite` writes the evidence row and
may lose the answer, `VerifyFails` covers every exception before it,
`CompleteRead`/`CompleteCommit` is the completion. `Crash` is the end of a
worker; nothing reads the lease. `Manual` adds completions by hand with the
verifier's credential. Ghost state: `lost`, the requests whose worker died.

**StrictVerification.** `_sod_verify_and_package`: pin the head, enqueue, run one
verifier invocation to its end, poll, have the pack reviewed, close the run. Its
variable `waited` counts what the code counts (500 per poll against a limit of
920). The verifier writes on the pack of the request that it claimed: `pack[p]`
has what came of the three checks (`ChecksWith`: the verdict is that of all
three, the pack has a column for each, and the gate reads two of them) and the
review. `Review` is the reviewer's process, which may fail before or after its
write; `Close` is the CRP and the terminal patch, of which the second is refused
after the first. `shared` says whether the coordinators work in one workspace, as
the offline runner's do, or have one each.

**CodingPhase.** A client is the list of steps it has left (`todo`), in the order
of its source (`Order`, one list for each kind of client, with and without open
questions). Each step is a call with the action of Consultation
behind it, and has the outcomes *served*, *served but the answer lost*,
*refused* and *not arrived*; the latter three raise. `Caught` says which steps
the client answers by marking its run as failed. Ghost state: `faulted`, the
clients that lost a call or were killed. The Spring Boot coder stops at
`pr_number` and the designer at `start`, as their code does.

**OfflineRun.** `step[j]` is the next call of the thread, `run[j]` the record
that it saves at each mark. Blueprints, projects and specs are created by a
look-up and an insert (`LookUp`, `Insert`), between which another run may
insert; the record's thread takes a 409 for success. PRDs and stories are
created with swallowed failures and fall back to the first of the domain. The
file of a record is written at once here.

**LiveRun.** The page and the runner around that file. `kept[r]` is the status in
the thread's memory, `file[r]` what a reader finds: `Save` truncates (`torn`),
`Write` completes. `RunnerStops` ends the process, also between the two. A call of
the page is sent, served by the runner (`ServeStart` and `ServeRead` for the POST,
which creates the file and reads it back; one torn file fails the whole list) and
continued at whatever address the page is by then: `Render` sets the timer by the
status that it paints, `ContinueView` paints without looking, `ContinuePoll` looks
at the run that is watched *now* (`Mounted`), which two late answers and the list
(`null === null`) defeat. Of the page's other views there is the blueprint form.

**ApprovalCenter.** One tab of `static/ui/app.js`. A call of the page is a record
in `calls`: sent, then answered by the server (`Read`, `Record`, `Refuse` when the
token no longer counts, `Lose` when the connection fails before or after the
work), then continued (`Continue` is the code behind the `await`, `Leave` the
`logout()` that `api()` makes of a 401 and `boot()` of any failure). Other humans,
agents, `Expire` and the 15-second timer (`Tick`) come in between. `screen` is the
content of `#view`, which whatever answer comes last paints. `CarryOut` is what
`decide` sends: for a specification the validation endpoint with an empty body,
whichever button was pressed. Two identical requests in flight are one: the second
has the same effect as when it is sent after the first was served. `Questions` are
what the page asks, `Calls` what it asked and how that may be answered. Of the views,
the inbox, the dashboard (shown when its call is answered, refreshed) and the
settings (painted without a call) stand for the others. `record` is what the
database has as the decision, `approved` is a history variable.

## Runs

| Run | Instance | What it asks |
|---|---|---|
| `Consultation` | 1 spec, 2 runs, 2 CRPs, 1 patch | `ValidatedBeforeCodegen`, `HighCrpBlocksRun`, `ResolvedIffVcr`, `UnstampedOnlyByCrp`, `TerminalIsFinal` |
| `MergeGateStrict` | 1 spec, 1 CRP, 1 pack, 2 trees, 5 payloads, 2 evidence and 2 review updates | `PackMirrorsLog`, `OpenCrpIdsUnresolved`, `ReadyIsEvidenced`, `NoMergeWithoutResolution` |
| `VerificationQueueLive` | 2 requests of one commit, 2 workers, 1 crash, slow polls and completions by hand | what survives them: `ExclusiveJobs`, `RunningIsHeld` (a running request is held by a worker, or was lost with one), `VerifiedAtMostOnce`, and `EndsOrIsLost` |
| `ReadCommitted` | 2 threads, 1 run, 1 pack, 3 spellings of 2 domains with one CRP each, 2 resolutions | what survives two handlers at once: `CollisionIsSpelling`, `ResolvedIffVcr`, `ResolutionIsFinal`, `NeverRevived`, `CrpStopsRun`, `UnresolvedStaysAttached` |
| `CodingPhase` | 2 clients of any kind, 1 spec | `StatusIsEarned` (`CompletedIsEarned` and `BlockedIsQuestioned`), `EndedCoderEndsRun`, and `CoderRunsEnd` |
| `StrictVerification` | 2 coordinators, 1 crash, one workspace or two | `PassIsEvidenced`, `GateOpensOnPass`, `GivesUpOnOthers`, `VerifiesProposal`, the refinement of `RequestLifecycle` (`ImplementsLifecycle`: a terminal request stays so, an expired one was never verified), and `PipelinesEnd` |
| `OfflineRun` | 2 runs, 2 projects of one domain | `RecordIsHonest` (`HonestProgress` and `EndedIsClosed`), `CodedIsValidated`, `ProgressStays` (what was shown as completed stays so, and a run that is over keeps its record), and `RunsEnd` |
| `LiveRun` | 2 runs, 2 calls in flight, a runner that may stop | `LiveIsPolled`, `ShownEndHappened` (a dashboard shows a run as over only when that very run is), and `EndIsShown` |
| `ApprovalCenter` | 1 spec, 1 CRP, 1 run, 2 calls in flight | `ToldIsRecorded`, `RecordIsFinal` (no decision replaces another), `DeadSessionIsLeft`, `DecidedLeavesInbox` |
| `RejectedIsNotReadied` | as `MergeGateStrict` | a violation, see below |
| `ApprovedOverNoCrp` | as `ReadCommitted` | a violation, see below |
| `RejectedSpecIsNotCoded` | as `ApprovalCenter` | a violation, see below |

**Why the bounds are enough.** Every hazard here is between two actors, so that
two runs, requests, workers, threads or clients show it; a third would only
repeat one of the two. Two trees tell the bytes of the pack from those of the
first evidence, two evidence rows tell the first from the last, two reviews let a
verdict be taken back. One crash leaves one worker to finish the other request.
One CRP in `MergeGateStrict` can be raised before or after the pack; several CRPs
are in `Consultation` and `ReadCommitted`. The bounds are `MaxEvidence` and
`MaxReviews` (updates of one pack, in the guards of `UpdateEvidence` and
`UpdateReview`), `MaxCrashes` (in `Crash`), `MaxCalls` (in `HasRoom`) and the set
`Connections` (in `Free`): two calls are enough for one to overtake another; and
`MaxSeq` (numbers of one spelling, in the guard of the read of a CRP: with one
number each, two spellings collide already, and two handlers of one spelling
compete for the lock). Everything else is bounded by the sets of identifiers. The
queue with fast polls, nobody's hand and several commits is what
`StrictVerification` instantiates, so that the refinement is checked there. The proofs hold for any number of rows, and for any bound.

`MergeGate` in legacy mode (`Strict = FALSE`) is covered by the proofs, which are
for both modes. Deadlock is checked wherever the system cannot stop; the runs of
`StrictVerification`, `OfflineRun` and `LiveRun` end when all their clients have
(the last one when the runner has stopped, too), and say so. The types of all
modules but `Consultation` are proved and not checked again by their runs. Runs with a liveness property use no symmetry.

Each property of a passing run has a mutant: a plausible wrong version of one
definition (its comment begins with "Faulty") with which TLC finds the property
violated.

## Fairness

Only the processes that drive the work are fair, and only weakly. Requests of
users, calls of other clients, the clock, faults, kills and crashes never have
to happen.

- `VerificationQueueLive`: `WF(Invoke(w))` and `WF(Work(w))`. Verifier invocations
  keep being started (`agents/verifier.py --claim` is one claim per invocation:
  the strict coordinator starts one for every request, and `--claim` is meant
  for a runner that calls it again), and an invocation that lives goes on: every
  subprocess and every request it makes has a timeout. It may die at any point
  by `Crash`, which needs no fairness.
- `CodingPhase`: `WF(Step(p))`, a client process that is not killed runs on
  (the API client has a timeout of 15 seconds, subprocesses have theirs).
- `StrictVerification`: `WF(Runner(p) \/ Coordinate(p))`. The coordinator blocks
  in `subprocess.run` with a timeout, then polls with a counter.
- `OfflineRun`: `WF(Thread(j))`, each call has a timeout of 30 seconds. The end of
  the process is `RunnerStops`, without fairness.
- `LiveRun`: `WF(Write(r))`, a thread that has truncated its file writes it;
  `WF(Advance(c))`, a call is answered or fails and its continuation runs;
  `WF(\E c : PollTick(c))`, the timer fires. The marks of a thread, the end of the
  runner and what the user does have no fairness.
- `ApprovalCenter`: calls are answered or fail and their continuations run
  (`fetch` settles, the event loop is fair); a connection does not fail for ever
  (`SF(Serve)` for the views that are refreshed), and the timer fires (`SF(Tick)`;
  strong only because a tick waits while `MaxCalls` calls are in flight).

## Findings

Three runs check what a document or a comment of the repository says and find it
violated by what the code does:

- **`RejectedIsNotReadied`** (`api/routers/mrp.py:128`): a rejected pack is given
  as blocked by `gates.py:194`, but the same `check_ready` overwrites `rejected`
  with `needs_revision`; the second call finds no rejection any more.
- **`ApprovedOverNoCrp`** (`api/routers/mrp.py:159`): a CRP that commits between
  the check of an approval and its commit is open on the approved pack.
- **`RejectedSpecIsNotCoded`** (`static/ui/app.js:334`): *Reject* on a
  specification sends what *Approve* sends, so that a specification that a human
  rejected, and whose rejection the page reports as recorded, is validated and
  coded.

The models have further behaviour of the code that is at odds with a comment. No
run is spent on it; the properties are worded so as to hold in spite of it:

- The strict coordinator raises its CRP first, which blocks the run, and its own
  terminal patch is then refused (`orchestrator.py:482`, against the comment at
  `:463`): such a run never names its pack. `StatusIsEarned` asks for the pack of
  a completed run only.
- A claim writes a lease that no code reads, and the TTL is for pending requests
  (`verification_requests.py:160`): a request whose worker died is running for
  ever. `EndsOrIsLost` says so.
- A decision whose answer is lost is reported as "Backend gate refused" although
  the database has it (`app.js:348`): `ToldIsRecorded` is about reported success,
  and `DecidedLeavesInbox` shows that the item disappears all the same.
- An answer paints over whatever view was gone to meanwhile (`app.js:244`), and
  the 15-second refresh over an open form: `DecidedLeavesInbox` and
  `DeadSessionIsLeft` are conditioned on the route.
- A PATCH without a status changes the provenance of a finished run
  (`agent_runs.py:124` against `gates.py:113`): `TerminalIsFinal` is about the
  status and the finishing time.
- Two patches that both read a running run both commit (`agent_runs.py:116`):
  in ReadCommitted a terminal status can be replaced by another one, hence
  `NeverRevived` and not finality.
- A pack that is created while its CRP is being resolved keeps it attached
  (`vcr.py:34`); `UnresolvedStaysAttached` is the direction that holds.
- A slow poll can expire a claimed request (`verification_requests.py:114`), and
  a request that nobody claimed can be completed (`:194`). The run with `SlowPoll`
  and `Manual` checks what holds all the same: `ExclusiveJobs`,
  `VerifiedAtMostOnce`, `RunningIsHeld` and `EndsOrIsLost`. `RequestLifecycle` does
  not hold then, and its refinement is checked without the two.
- The evidence endpoint accepts a review verdict (`mrp.py:96`), so that G8 holds
  by a review that was completed *once*: `Evidenced` says just that.
- The Python coder's CRP comes after its terminal patch and is refused
  (`coder_agent.py:227`): `BlockedIsQuestioned` asks for the question, not for
  the CRP.
- A failed strict run is not marked, for its identifier is lost with the
  exception (`offline_runner.py:321`); the Spring Boot coder calls a method it
  does not have (`coder_springboot.py:205`); the designer's role is missing from
  the enumeration of the database (`001_init.sql:18`).
- The polling limit is compared in two units (`orchestrator.py:346`): a
  coordinator gives up after two polls. `GivesUpOnOthers` shows that this is
  harmless when its own verifier took its own request.
- A run of the offline runner takes the 409 of an existing spec for success and
  builds that spec (`offline_runner.py:434`), and fails when it loses the race of
  the insert (`:442`). `CodedIsValidated` is about the row that exists.
- A poll paints "only ... if we still have this run's dashboard mounted"
  (`app.js:945`), but compares with the run that is watched when the answer
  arrives: the answer about one run is painted over another, and over the list,
  where both sides of the comparison are null. The end of one run clears the timer
  of the other. A dashboard whose first view fails says "unreachable" and does not
  ask again. `EndIsShown` is worded accordingly.
- A runner that stops between truncating and writing leaves a torn file, which
  fails every later list; and a POST that reads its record back while the thread
  writes reports a failure although the run goes on (`offline_runner.py:161`). The
  record of a run that is cut off says running for ever; `RunsEnd` excepts it.
- The verdict of a verification covers the compilation, the gate does not
  (`gates.py:171`), and G7's query has no order (`gates.py:56`; the models take
  the first row that was written). `GateOpensOnPass` shows why a failed
  compilation does not get past the gate all the same: only a pack that passed
  is reviewed.
- Two spellings of one domain have two counters and one identifier
  (`ids.py:75`, where the docstring of the counter at `:25` promises that
  identifiers do not collide): the second spelling is refused, its number is
  rolled back, and its next attempt is refused for the same number again.
  `CollisionIsSpelling` says that nothing else collides.

## Proofs

TLAPS (1.4.5, with Z3, Zenon and LS4) checks the following for all values of the
constants.

| Module | Theorems | Argument |
|---|---|---|
| `ConsultationProofs` | `TypeCorrect`, `CodegenIsValidated`, `HighCrpBlocks`, `ResolutionsAgree`, `OnlyCrpLeavesUnstamped`, `TerminalRunsStay` | each invariant is inductive together with the types. `PatchedColumns`, `ReapedColumns` and `TerminalPatch` say what the two writers of many columns leave alone |
| `MergeGateProofs` | `ImplementsConsultation`, `ConsultationHolds`, `TypeCorrect`, `AttachedCrpsAreOpen`, `LogIsMirrored`, `ReadyIsBacked`, `MergesAreResolved` | every step of MergeGate is a step of Consultation or leaves its variables alone, so that Consultation's theorems carry over. `ReadyIsBacked` is inductive with `PackMirrorsLog` |
| `VerificationQueueProofs` | `TypeCorrect`, `CustodyHolds`, `JobsAreExclusive`, `VerifiedOnce`, `RunningAreHeld`, `KeepsPromise` | the inductive invariant `Custody`; for the refinement also `Held`, where polls are fast and nobody completes by hand |
| `StrictVerificationProofs` | `ImplementsQueue`, `KeepsPromise`, `TypeCorrect`, `BackedHolds`, `VerdictsAreEvidenced`, `PassesAreEvidenced`, `GatesOpenOnPass`, `ProposalsAreVerified`, `GivesUpOnlyOnOthers`, `GivesUpAfterTwoPolls`, `RunningHasRunner` | every step is a step of the queue or leaves it alone, so that the queue's theorems carry over; `Backed`, `Pinned` and `Delivered` on top |
| `ReadCommittedProofs` | `TypeCorrect`, `CollisionsAreSpellings`, `ResolutionsAgree`, `ResolutionsStay`, `TerminalRunsEnd`, `CrpsStopRuns`, `UnresolvedStay` | for each property what a handler in progress still knows: `Reserved`, `Asked`, `Numbered`, `Patched`, `Agree` |
| `CodingPhaseProofs` | `ImplementsConsultation`, `ConsultationHolds`, `TypeCorrect`, `StatusesAreEarned`, `EndedCodersEndRuns` | the inductive invariant `Course`: what is known of a run by its client's place in `Order` |
| `OfflineRunProofs` | `RecordsAreShaped`, `RecordsAreHonest`, `ShownProgressStays`, `TypeCorrect`, `CodedStaysValidated` | the record is a function of the thread's next call (`Shaped`) |
| `InterfaceProofs`, on `ApprovalCenter` | `ImplementsConsultation`, `ConsultationHolds`, `TypeCorrect`, `RecordsAreFinal`, `ToldIsTrue`, `InboxIsOpen` | `Typed` for the calls in flight; `RecordIsTables`, `AnswersAreRecorded` |
| `InterfaceProofs`, on `LiveRun` | `LiveTypeCorrect`, `LiveDashboardsArePolled`, `EndsStay`, `RecordsFollowRuns`, `ShownEndsHappened` | `SoundCalls` for the types; `Polled`; `Followed`, `EndsSeenHappened` |

**Assumptions.** `NoneAssumption`, `NullAssumption`, `NameAssumption`,
`QueueAssumption`, `PipelineAssumption`, `ThreadAssumption`, `JobAssumption`,
`RunAssumption` and `ItemAssumption`: NULL is no identifier and no value of an enumerated column, the
two fixed addresses of the page are no runs, a specification is no CRP (their
identifiers have different prefixes), domains have names, Booleans are
Booleans and bounds are numbers. `PayloadAssumption`: clients report all three checks, and in
strict mode only the verifier writes evidence, with the same tree in the row and
in its execution context. TLC evaluates each of them on the runs of its module.

`PayloadAssumption` is about the clients, not about the endpoint, which accepts an
update of some checks only (`mrp.py:63`) and then keeps the other columns of the
pack. Both clients that write evidence, the coder and the verifier, send all three at
once. `PackMirrorsLog` and `ReadyIsEvidenced`, and with them `LogIsMirrored` and
`ReadyIsBacked`, rest on it: after updates in parts, the columns of a pack need not be
those of one row.

**MergeGate.** `ReadyIsEvidenced` is not inductive: a gate that opens reads the
*row*, while the property speaks of the *log*. `PackMirrorsLog` connects them:
the row's checks are those of the last evidence update. The last row is about
the tree of the first one because G7 compares the two. Once a pack is evidenced
it stays so (`EvidencedStays`): logs only grow, and `FirstRowIsEvidenced` says
that what is appended does not move the first row. `StepsAreLogged` says what
one step may do to a pack and its logs, and `OnlyTheGateReadies` that only a step
through the gate makes it ready or approved; `MergesAreResolved` then needs
`ResolvedIffVcr`, which comes from Consultation by the refinement.

**VerificationQueue.** Exclusiveness is not inductive either: that two workers
hold different requests needs that a held request is not pending, that this
stays so whatever a slow poll or a hand does to its status (`TakenStays`), and
that a worker that has yet to verify finds no evidence of its request. `Custody`
is the conjunction; `ReleaseKeepsCustody` deals with all the steps that take
nothing, and the claim is the one interesting case. `Custody` does not assume
`SlowPoll = FALSE` or `Manual = FALSE`, nor does `RunningIsHeld`, its converse: a
worker that is alive never forgets a request that still says running. What breaks
it would be a release before the completion is committed.

`KeepsPromise` assumes both. What it adds is `Held`: a request that a worker holds
is running, and what the worker is about to say is what its evidence says; so a
completion is the abstract life's step from running to that verdict, and an
expiry meets no evidence.

**StrictVerification.** `ImplementsQueue` maps every step to one of the queue, and
brings its types, `Custody`, `Held` and the refinement along. `PassIsEvidenced` and
`GateOpensOnPass` relate three rows that nothing in the code relates: the pack,
its evidence row and the request. `Backed` is the chain: a pack's columns are
those of its first and only evidence row, the row's verdict is that of the
request once that is over, and a coordinator is past its poll only when it has
seen its request passed. The gate needs the review, the review needs the
coordinator past its poll, and so the columns that the gate does not read are
good as well. `ProposalsAreVerified` needs that a head of one's own does not move
between the proposal and the pinning (`Pinned`). `GivesUpOnlyOnOthers` needs no
count of the polls: a request that a verifier held and did not lose is terminal
when the verifier has exited, stays so (`TerminalStays`), and so the first poll
ends the loop (`Delivered`). `GivesUpAfterTwoPolls` is the count: a coordinator has
waited for none, one or two intervals, and for two when it gives up. The queue's
`RunningIsHeld`, read through the refinement, and `RunnersAreAwaited` (a verifier is
there only while its coordinator waits for its exit) give `RunningHasRunner`: the
status `running` that a poll sees belongs to a verifier at work, or to a dead one.

**ReadCommitted.** A handler decides on what it read and commits later; each
property needs to know which part of what it read still holds. `Reserved`: a CRP
in progress has its counter's next number, and nobody else has the counter.
`Numbered`: a CRP that exists has a number which some spelling of its domain has
come to, so that a collision within one spelling is impossible. `Asked`: the CRP
of a resolution in progress exists; the key of the VCR then makes `ResolvedIffVcr`
and `ResolutionIsFinal` inductive. `Patched`: who writes a status has read a
running run, so that whatever it writes is terminal (`PatchedRun`), and a CRP that
came in between is not undone. `Agree` is about the array of a pack: what a
resolution will write differs from what is there by now only in resolved CRPs.

**CodingPhase.** That the run of a client agrees with its work depends on the order
of its calls, hence on its place in it: `Here(p, i)` says that the steps left are
the end of the client's `Order` from the i-th on, `Knows` what has been done
before each step, and `Consistent` what the status of the run tells in return.
`Follow` is the successor of a step for the clients that get there.
`ImplementsConsultation` is proved the same way as for `MergeGate`.

**The loop inside the others.** `MergeGate`, `CodingPhase` and `ApprovalCenter` each
implement `Consultation`, and their `ConsultationHolds` says what follows: five
properties that are proved once hold however the gate, the clients and the page
call the handlers. The instance of `Consultation` in a module and the one inside
its proofs are the same specification (`SameSpec`, `SameProperties`).

**OfflineRun and LiveRun.** The record of a run is determined by the call that its
thread is at (`StagesAt`), or by the one that it stopped at; honesty follows
without further induction. For `CodedIsValidated` it is enough that a validated
spec stays the one of its domain. `ProgressStays` is a step from the stages of one
call to those of the next, which has no less completed (`WorkStays`), or to those of
a failure, which touches open ones only. A dashboard says LIVE only when `Render` has set
the timer; who clears it has painted something else, or is at another address
(`Polled`). That it shows no end that did not happen takes the whole way of a status:
a file is torn or says what its run has come to (`Followed`), an answer was read from
the file of the run that it is about (`AnswersAreRead`), and an end stays (`EndsStay`),
so that the answer may be as late as it likes.

**ApprovalCenter.** The decision on record mirrors the tables (`RecordIsTables`: a
specification has one when it is validated, a CRP when its VCR exists), which makes
it final, and an answer *ok* to a decision in flight is what is on record
(`AnswersAreRecorded`). This is not inductive for a page of whatever calls: that an
answer names an item and a decision needs the fields of the calls (`CallFields`), and
that the set of calls stays finite and within `MaxCalls` needs a call that is
continued to leave it before the next view is asked for (`Room`, `Dropped`). For a
specification the record is an approval whichever button was pressed; this is where
`ToldIsRecorded` has to be worded as it is, and where `RejectedSpecIsNotCoded` fails.

**Only model-checked.** Liveness and `ENABLED` are outside the proof system's
reach: `EndsOrIsLost`, `CoderRunsEnd`, `PipelinesEnd`, `RunsEnd`, `EndIsShown`,
`DeadSessionIsLeft` and `DecidedLeavesInbox` are checked by TLC. Every
invariant and every action property of a run is proved, and so is the refinement of
`RequestLifecycle`.

## What is not modelled

- **Language models, generation, tests, scanning.** One step with a verdict that
  is chosen freely.
- **Who may call what.** `api/security.py` and `api/authn.py` decide on one
  request from a token table. The models have the decision's result: which
  identity writes evidence (`PayloadAssumption`), which status a handler accepts,
  and in ApprovalCenter that the token of a human stops to count at some moment.
- **Traceability, evidence export, the other views of the web interface.** They
  read rows and change none. The trace and artifact endpoints of the runner read
  the record's file once more.
- **Identifier strings.** Identifiers are model values, except where two rows can
  get the same one (`OfflineRun`, `ReadCommitted`). The counter modelled is that of
  the CRPs; those of PRDs, stories, runs and requests are the same function with
  another key.
- **Blueprint versions, `promote_vcr`, coverage numbers.** No gate reads
  them.
- **PostgreSQL.** READ COMMITTED, primary keys and row locks as the handlers use
  them. Its append-only triggers on the audit log are why logs only grow.
- **Evidence updates at the same time.** Each is one transaction in `MergeGate`,
  and `ReadCommitted` has none. A mixture of two verifications on one pack takes
  four updates by hand, two of them at once: a worker writes once per request
  (`VerifiedAtMostOnce`), and a coordinator has one request per pack.
- **A request that names another pack.** Enqueueing a commit again returns the
  request that exists; in StrictVerification request and pack share one name.

## Plan

What is left, in this order:

1. The queue and the merge gate in one module: requests that are enqueued again
   with another pack (`verification_requests.py:65`), and evidence updates of two
   verifications on one pack as reads and commits (`mrp.py:96`).
2. Blueprint versions (`blueprints.py`), next to the runner's look-up and insert.
