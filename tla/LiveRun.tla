------------------------------- MODULE LiveRun -------------------------------
(***************************************************************************)
(* The live view of an offline run: the page (static/ui/app.js) starts     *)
(* runs, lists them and shows one of them, which it polls while a timer is *)
(* set; the runner (scripts/offline_runner.py) keeps each run in a file    *)
(* that its thread truncates and writes again at every mark.               *)
(*                                                                         *)
(* A call of the page goes through a connection: sent, read by the runner, *)
(* continued by the page when the answer arrives, at whatever address the  *)
(* page is by then.  Of a record only the status is kept; what the thread  *)
(* does between two marks is in OfflineRun.  Of the other views there is   *)
(* the blueprint form, which is painted at once.  One form is submitted at *)
(* a time.                                                                 *)
(*                                                                         *)
(* No name here is one of ApprovalCenter, the other model of the page, so  *)
(* that one module can be about both.                                      *)
(***************************************************************************)
EXTENDS FiniteSets

CONSTANTS
    Jobs,          \* identifiers that uuid4 gives
    Connections,   \* bound: calls in flight
    NoJob          \* no run

VARIABLES
    kept,      \* kept[r]: the status of the run as its thread has it
    file,      \* file[r]: the status in the record file
    thread,    \* thread[r]: where the thread of the run is
    up,        \* the runner's process is there
    address,   \* a run's dashboard, the list of runs, or the form
    watched,   \* devRunId
    page,      \* what the view element shows
    timer,     \* runPollTimer is set
    call       \* call[c]: the call in flight on a connection

runnerVars == <<kept, file, thread, up>>
pageVars   == <<address, watched, page, timer>>
liveVars   == <<runnerVars, pageVars, call>>

-----------------------------------------------------------------------------
\* "over": completed or failed.
Statuses == {"absent", "running", "over"}
Threads  == {"none", "starting", "working", "writing", "closing", "finishing"}

ASSUME RunAssumption ==
    /\ NoJob \notin Jobs \cup {"list", "form"}
    /\ "list" \notin Jobs /\ "form" \notin Jobs

OrNone == Jobs \cup {NoJob}

LivePage == [kind: {"form", "list", "run", "error"}, run: OrNone,
             status: Statuses]
\* got: the status that was read; "torn" also stands for a failure.
LiveCall == [kind: {"idle", "start", "list", "view", "poll"}, run: OrNone,
             state: {"sent", "served", "read", "files"},
             got: Statuses \cup {"torn"}]

LiveTypeOK ==
    /\ kept \in [Jobs -> Statuses]
    /\ file \in [Jobs -> Statuses \cup {"torn"}]
    /\ thread \in [Jobs -> Threads]
    /\ up \in BOOLEAN
    /\ address \in Jobs \cup {"list", "form"}
    /\ watched \in OrNone
    /\ page \in LivePage
    /\ timer \in BOOLEAN
    /\ call \in [Connections -> LiveCall]

Plain(kind) == [kind |-> kind, run |-> NoJob, status |-> "absent"]
Sent(kind, r) == [kind |-> kind, run |-> r, state |-> "sent",
                  got |-> "absent"]
NoCall == Sent("idle", NoJob)

LiveInit ==
    /\ kept = [r \in Jobs |-> "absent"]
    /\ file = [r \in Jobs |-> "absent"]
    /\ thread = [r \in Jobs |-> "none"]
    /\ up = TRUE
    /\ address = "form"
    /\ watched = NoJob
    /\ page = Plain("form")
    /\ timer = FALSE
    /\ call = [c \in Connections |-> NoCall]

-----------------------------------------------------------------------------
(* The runner.                                                             *)

Writing(r) == thread[r] \in {"starting", "writing", "finishing"}

\* The thread marks a stage, or the end of the run; after the end it saves
\* once more.  Saving truncates the file first.
Save(r) ==
    /\ thread[r] \in {"working", "closing"}
    /\ \/ /\ thread[r] = "working"
          /\ \E s \in {"running", "over"} : kept' = [kept EXCEPT ![r] = s]
          /\ thread' = [thread EXCEPT ![r] = "writing"]
       \/ /\ thread[r] = "closing"
          /\ thread' = [thread EXCEPT ![r] = "finishing"]
          /\ UNCHANGED kept
    /\ file' = [file EXCEPT ![r] = "torn"]
    /\ UNCHANGED <<up, pageVars, call>>

\* The write of a save; that of the POST is followed by the thread's start.
Write(r) ==
    /\ Writing(r)
    /\ file' = [file EXCEPT ![r] = kept[r]]
    /\ thread' = [thread EXCEPT ![r] =
                    IF @ = "finishing" THEN "none"
                    ELSE IF kept[r] = "running" THEN "working" ELSE "closing"]
    /\ UNCHANGED <<kept, up, pageVars, call>>

\* The threads are daemons: they end with the process, also while writing,
\* and with it the POST that waits for them.  Nobody has to start it again.
RunnerStops ==
    /\ up
    /\ up' = FALSE
    /\ thread' = [r \in Jobs |-> "none"]
    /\ call' = [c \in Connections |->
                  IF call[c].state = "served"
                  THEN [call[c] EXCEPT !.state = "read", !.got = "torn"]
                  ELSE call[c]]
    /\ UNCHANGED <<kept, file, pageVars>>

-----------------------------------------------------------------------------
(* The page, as its user moves it.                                         *)

\* Calls differ by what they ask, not by the connection they are given.
Free(c) ==
    LET unused == {d \in Connections : call[d] = NoCall}
    IN  c \in unused /\ c = CHOOSE d \in unused : TRUE

\* route at a new address: only a view outside the runs clears the timer.
RouteTo(a, c) ==
    /\ address' = a
    /\ IF a = "form"
       THEN /\ page' = Plain("form")
            /\ timer' = FALSE
            /\ call' = [call EXCEPT ![c] = NoCall]
            /\ UNCHANGED watched
       ELSE /\ watched' = IF a = "list" THEN NoJob ELSE a
            /\ call' = [call EXCEPT ![c] =
                          IF a = "list" THEN Sent("list", NoJob)
                                        ELSE Sent("view", a)]
            /\ UNCHANGED <<page, timer>>

Visit(a, c) ==
    /\ Free(c)
    /\ a # address
    /\ a \in Jobs => kept[a] # "absent"
    /\ RouteTo(a, c)
    /\ UNCHANGED runnerVars

\* The form is submitted.
Submit(c) ==
    /\ page.kind = "form"
    /\ address = "form"
    /\ Free(c)
    /\ \A d \in Connections : call[d].kind # "start"
    /\ call' = [call EXCEPT ![c] = Sent("start", NoJob)]
    /\ UNCHANGED <<runnerVars, pageVars>>

\* The timer: nothing is asked at an address without a run.
PollTick(c) ==
    /\ timer
    /\ watched # NoJob
    /\ Free(c)
    /\ call' = [call EXCEPT ![c] = Sent("poll", watched)]
    /\ UNCHANGED <<runnerVars, pageVars>>

-----------------------------------------------------------------------------
(* The runner's side of a call.                                            *)

ReadAnswer(c, got) == [call EXCEPT ![c].state = "read", ![c].got = got]

\* One file in the middle of a write fails the whole list.
ListFails == \E r \in Jobs : file[r] = "torn"

\* POST: the record is created and its file truncated.
ServeStart(c) ==
    /\ call[c].kind = "start" /\ call[c].state = "sent"
    /\ up
    /\ \E r \in Jobs :
          /\ kept[r] = "absent"
          /\ kept' = [kept EXCEPT ![r] = "running"]
          /\ file' = [file EXCEPT ![r] = "torn"]
          /\ thread' = [thread EXCEPT ![r] = "starting"]
          /\ call' = [call EXCEPT ![c].state = "served", ![c].run = r]
    /\ UNCHANGED <<up, pageVars>>

\* The answer of the POST is the record read back, which its thread may be
\* writing by then; a run's record is read the same way.
ServeRead(c) ==
    /\ up
    /\ \/ /\ call[c].kind = "start" /\ call[c].state = "served"
          /\ thread[call[c].run] # "starting"
          /\ call' = ReadAnswer(c, file[call[c].run])
       \/ /\ call[c].kind \in {"view", "poll"} /\ call[c].state = "sent"
          /\ call' = ReadAnswer(c, file[call[c].run])
       \/ /\ call[c].kind = "list" /\ call[c].state = "sent"
          /\ call' = ReadAnswer(c, IF ListFails THEN "torn" ELSE "absent")
    /\ UNCHANGED <<runnerVars, pageVars>>

\* The runner is not there, or the API refused the blueprint before.
Unreached(c) ==
    /\ call[c].kind # "idle"
    /\ call[c].state = "sent"
    /\ ~up \/ call[c].kind = "start"
    /\ call' = ReadAnswer(c, "torn")
    /\ UNCHANGED <<runnerVars, pageVars>>

-----------------------------------------------------------------------------
(* The page continues with an answer.                                      *)

Failed(c) == call[c].got = "torn"

\* Faulty rendering: only the first view of a run sets the timer.
RenderOnce(run, status) ==
    /\ page' = [kind |-> "run", run |-> run, status |-> status]
    /\ timer' = IF page.kind = "run" THEN timer /\ status = "running"
                                    ELSE status = "running"

\* Faulty rendering: the answer is painted as that of the run watched by now.
RenderWatched(run, status) ==
    /\ page' = [kind |-> "run", run |-> watched, status |-> status]
    /\ timer' = (status = "running")

\* renderDevRun paints a run and sets the timer when that is running.
Render(run, status) ==
    /\ page' = [kind |-> "run", run |-> run, status |-> status]
    /\ timer' = (status = "running")

Done(c) == call' = [call EXCEPT ![c] = NoCall]

\* submitBlueprint: the run's dashboard, or a message, wherever the user is.
\* An address that is set to what it is already does not route.
ContinueStart(c) ==
    IF Failed(c) \/ address = call[c].run
    THEN Done(c) /\ UNCHANGED pageVars
    ELSE RouteTo(call[c].run, c)

\* viewDevList.
ContinueList(c) ==
    /\ page' = Plain(IF Failed(c) THEN "error" ELSE "list")
    /\ Done(c)
    /\ UNCHANGED <<address, watched, timer>>

\* When a run that is over was completed, its files are a second call, whose
\* failure is ignored.
AskFiles(c) == call' = [call EXCEPT ![c].state = "files"]

\* viewDevRun paints without looking where the page is.
ContinueView(c) ==
    \/ /\ Failed(c)
       /\ page' = Plain("error")
       /\ Done(c)
       /\ UNCHANGED <<address, watched, timer>>
    \/ /\ call[c].got = "over" /\ call[c].state = "read"
       /\ AskFiles(c)
       /\ UNCHANGED pageVars
    \/ /\ ~Failed(c)
       /\ Render(call[c].run, call[c].got)
       /\ Done(c)
       /\ UNCHANGED <<address, watched>>

\* Faulty poll: an error ends the polling.
StopsPolling(c) == timer' = FALSE

\* A poll that fails is forgotten.
PollFailed(c) == UNCHANGED timer

\* pollRunOnce paints when the address is that of the run that is watched by
\* now; the list has neither.
Mounted == address = watched \/ (address = "list" /\ watched = NoJob)

ContinuePoll(c) ==
    \/ /\ Failed(c)
       /\ PollFailed(c)
       /\ Done(c)
       /\ UNCHANGED <<address, watched, page>>
    \/ /\ call[c].got = "over" /\ call[c].state = "read"
       /\ AskFiles(c)
       /\ UNCHANGED pageVars
    \/ /\ ~Failed(c)
       /\ IF Mounted
          THEN Render(call[c].run, call[c].got)
          ELSE /\ timer' = (timer /\ call[c].got # "over")
               /\ UNCHANGED page
       /\ Done(c)
       /\ UNCHANGED <<address, watched>>

Resume(c) ==
    /\ call[c].state \in {"read", "files"}
    /\ CASE call[c].kind = "start" -> ContinueStart(c)
         [] call[c].kind = "list"  -> ContinueList(c)
         [] call[c].kind = "view"  -> ContinueView(c)
         [] call[c].kind = "poll"  -> ContinuePoll(c)
    /\ UNCHANGED runnerVars

-----------------------------------------------------------------------------
Advance(c) == ServeStart(c) \/ ServeRead(c) \/ Unreached(c) \/ Resume(c)

LiveNext ==
    \/ \E r \in Jobs : Save(r) \/ Write(r)
    \/ RunnerStops
    \/ \E c \in Connections :
          \/ \E a \in Jobs \cup {"list", "form"} : Visit(a, c)
          \/ Submit(c) \/ PollTick(c) \/ Advance(c)

LiveSpec == LiveInit /\ [][LiveNext]_liveVars

\* Writes end, calls are answered or fail, the timer goes off.
FairSpec ==
    /\ LiveSpec
    /\ \A r \in Jobs : WF_liveVars(Write(r))
    /\ \A c \in Connections : WF_liveVars(Advance(c))
    /\ WF_liveVars(\E c \in Connections : PollTick(c))

-----------------------------------------------------------------------------
(* Properties.                                                             *)

\* A dashboard that says LIVE has the timer set, or waits for the first view
\* of its run.
LiveIsPolled ==
    (address \in Jobs /\ page.kind = "run" /\ page.status = "running") =>
        timer \/ \E c \in Connections :
                    call[c].kind = "view" /\ call[c].run = address

ShowsEnd(r) == page.kind = "run" /\ page.run = r /\ page.status = "over"

\* The page shows the end of a run only when that run has ended, whichever
\* answer comes late, wherever the page is by then, and in the middle of
\* whatever write the record was read (renderDevRun, _save).
ShownEndHappened == \A r \in Jobs : ShowsEnd(r) => kept[r] = "over"

\* A user who stays at a dashboard that polls is shown the end of its run,
\* however answers are delayed and records torn, unless the runner stops or
\* the end of another run is painted over it.
EndIsShown ==
    \A r \in Jobs :
        (address = r /\ timer /\ file[r] = "over") ~>
            \/ ShowsEnd(r)
            \/ address # r
            \/ ~up
            \/ page.kind = "run" /\ page.run # r /\ page.status = "over"
=============================================================================
