--------------------------- MODULE ApprovalCenter ---------------------------
(***************************************************************************)
(* The approval centre of the web interface (static/ui/app.js): one        *)
(* browser tab in which a human looks at what awaits a decision and        *)
(* decides it, against the API, whose rows are those of Consultation.      *)
(*                                                                         *)
(* Every call of the page is three steps: it is sent, the server carries   *)
(* it out, and the continuation behind the await runs.  Other humans,      *)
(* agents, timers and the expiry of the token come in between.             *)
(***************************************************************************)
EXTENDS FiniteSets, Naturals

CONSTANTS Specs, Runs, Crps, Patches, None,
          MaxCalls    \* bound: calls of the page in flight at once

VARIABLES
    specs, runs, old, crps, vcrs,    \* the tables of Consultation
    record,     \* record[i]: the human decision that the database has on i
    approved,   \* history: the specifications some human said Approve to
    session,    \* the token in sessionStorage: none, live, dead
    entered,    \* ME is set: enterApp() has run to its end
    route,      \* the view in location.hash
    screen,     \* what the element #view shows
    calls       \* the calls of this page in flight, or answered

Engine == INSTANCE Consultation

tables == <<specs, runs, old, crps, vcrs, record>>
tab    == <<session, entered, route, screen, calls>>
vars   == <<tables, approved, tab>>

-----------------------------------------------------------------------------
Items     == Specs \cup Crps
Decisions == {"approve", "reject"}

\* Settings stands for the views that are painted without a call, the
\* dashboard for those that only show what a call answers.
Views == {"dashboard", "approvals", "settings"}
Local == {"settings"}

\* Faulty timer: the inbox is not refreshed.
PolledOverview == {"dashboard"}

\* The views that the timer of enterApp() routes to again.
Polled == {"dashboard", "approvals"}

\* Identifiers of specifications and of CRPs have different prefixes; NULL is
\* neither, nor a decision.
ASSUME ItemAssumption ==
    /\ Engine!NoneAssumption
    /\ Specs \cap Crps = {}
    /\ None \notin Crps \cup Decisions
    /\ MaxCalls \in Nat \ {0}

Page(shows, items) == [shows |-> shows, items |-> items]
Blank == Page("nothing", {})

Call(kind, on, says) == [kind |-> kind, on |-> on, says |-> says,
                         answer |-> "pending", items |-> {}]
Me            == Call("me", None, None)
View(v)       == Call("view", v, None)
Detail(i)     == Call("detail", i, None)
Decision(i, d) == Call("decide", i, d)

\* What the page asks, and the calls that have or await an answer.
Questions ==
    {Me} \cup {View(v) : v \in Views \ Local}
         \cup {Detail(i) : i \in Items}
         \cup {Decision(i, d) : i \in Items, d \in Decisions}

Answers == {"pending", "ok", "failed", "unauthorized"}

Answered(q, answer, items) ==
    [kind |-> q.kind, on |-> q.on, says |-> q.says,
     answer |-> answer, items |-> items]

Calls ==
    {Answered(q, a, shown) :
        q \in Questions, a \in Answers, shown \in SUBSET Items}

TypeOK ==
    /\ Engine!TypeOK
    /\ record \in [Items -> Decisions \cup {None}]
    /\ approved \subseteq Specs
    /\ session \in {"none", "live", "dead"}
    /\ entered => session # "none"
    /\ route \in Views
    /\ screen \in [shows: Views \cup {"nothing", "error", "form"},
                   items: SUBSET Items]
    /\ ~entered => screen = Blank
    /\ Cardinality(calls) <= MaxCalls
    /\ calls \subseteq Calls

Init ==
    /\ Engine!Init
    /\ record = [i \in Items |-> None]
    /\ approved = {}
    /\ session = "none" /\ entered = FALSE /\ route = "dashboard"
    /\ screen = Blank /\ calls = {}

-----------------------------------------------------------------------------
(* The session and the navigation.                                         *)

\* A page load with a token: boot() asks who it is before it shows anything.
Boot ==
    /\ entered' = FALSE /\ screen' = Blank
    /\ calls' = {Me}

SignIn ==
    /\ session = "none"
    /\ session' = "live" /\ route' = "dashboard"
    /\ Boot
    /\ UNCHANGED <<tables, approved>>

\* A reload; one in the middle of a boot would only start the same boot again.
Reload ==
    /\ entered
    /\ Boot
    /\ UNCHANGED <<tables, approved, session, route>>

\* The token passes its time to live, or is revoked, or its user deactivated.
Expire ==
    /\ session = "live"
    /\ session' = "dead"
    /\ UNCHANGED <<tables, approved, entered, route, screen, calls>>

\* logout(): back to the login page; continuations die with the page.
Leave ==
    /\ session' = "none" /\ entered' = FALSE /\ route' = "dashboard"
    /\ screen' = Blank /\ calls' = {}

SignOut ==
    /\ entered
    /\ Leave
    /\ UNCHANGED <<tables, approved>>

\* route(): a view is painted at once, or when its call is answered.
Show(v, waiting) ==
    /\ route' = v
    /\ \/ /\ v \in Local
          /\ screen' = Page(v, {}) /\ calls' = waiting
       \/ /\ v \notin Local
          /\ calls' = waiting \cup {View(v)}
          /\ UNCHANGED screen

\* What has been approved once somebody says d to i.
Approved(i, d) ==
    approved \cup {s \in Specs : s = i /\ d = "approve"}

HasRoom == Cardinality(calls) < MaxCalls

Go(v) ==
    /\ entered /\ HasRoom
    /\ v # route
    /\ Show(v, calls)
    /\ UNCHANGED <<tables, approved, session, entered>>

Tick ==
    /\ entered /\ HasRoom
    /\ route \in Polled
    /\ Show(route, calls)
    /\ UNCHANGED <<tables, approved, session, entered>>

-----------------------------------------------------------------------------
(* Decisions.                                                              *)

OpenDecision(i) ==
    /\ screen.shows = "approvals" /\ i \in screen.items
    /\ HasRoom
    /\ calls' = calls \cup {Detail(i)}
    /\ UNCHANGED <<tables, approved, session, entered, route, screen>>

Decide(i, d) ==
    /\ screen = Page("form", {i})
    /\ HasRoom
    /\ calls' = calls \cup {Decision(i, d)}
    /\ approved' = Approved(i, d)
    /\ UNCHANGED <<tables, session, entered, route, screen>>

\* Faulty resolution: a second VCR overwrites the first.
CarryOutAgain(i, d) ==
    \/ /\ i \in Specs
       /\ Engine!ValidateSpec(i)
       /\ record' = [record EXCEPT ![i] = "approve"]
    \/ /\ i \in Crps /\ crps[i].status # "absent"
       /\ crps' = Engine!Resolved(i)
       /\ vcrs' = vcrs \cup {i}
       /\ record' = [record EXCEPT ![i] = d]
       /\ UNCHANGED <<specs, runs, old>>

\* The endpoint of a specification is that of its validation and its body is
\* empty, whichever button was pressed; that of a CRP says which.
CarryOut(i, d) ==
    \/ /\ i \in Specs
       /\ Engine!ValidateSpec(i)
       /\ record' = [record EXCEPT ![i] = "approve"]
    \/ /\ i \in Crps
       /\ Engine!CreateVcr(i)
       /\ record' = [record EXCEPT ![i] = d]

\* Another human, by the API, which has no way to reject a specification.
OtherDecides(i, d) ==
    /\ i \in Specs => d = "approve"
    /\ CarryOut(i, d)
    /\ approved' = Approved(i, d)
    /\ UNCHANGED tab

-----------------------------------------------------------------------------
(* The server.                                                             *)

\* The inbox: unvalidated specifications and open CRPs.
PendingApprovals ==
    {s \in Specs : specs[s] = "draft"} \cup {c \in Crps : crps[c].status = "open"}

\* Reading one row is open to everyone.
Authorized(k) == k.kind = "detail" \/ session = "live"

Answer(k, answer, items) ==
    /\ calls' = (calls \ {k}) \cup {Answered(k, answer, items)}
    /\ UNCHANGED <<session, entered, route, screen, approved>>

Read(k) ==
    /\ k.kind # "decide" /\ Authorized(k)
    /\ Answer(k, "ok", IF k.on = "approvals" THEN PendingApprovals ELSE {})
    /\ UNCHANGED tables

Record(k) ==
    /\ k.kind = "decide" /\ Authorized(k)
    /\ \/ CarryOut(k.on, k.says) /\ Answer(k, "ok", {})
       \/ /\ k.on \in vcrs
          /\ Answer(k, "failed", {})
          /\ UNCHANGED tables

Refuse(k) ==
    /\ ~Authorized(k)
    /\ Answer(k, "unauthorized", {})
    /\ UNCHANGED tables

Serve(k) ==
    /\ k.answer = "pending"
    /\ Read(k) \/ Record(k) \/ Refuse(k)

\* The connection fails, before or after the server has done its work.
Lose(k) ==
    /\ k.answer = "pending"
    /\ \/ UNCHANGED tables
       \/ k.kind = "decide" /\ Authorized(k) /\ CarryOut(k.on, k.says)
    /\ Answer(k, "failed", {})

-----------------------------------------------------------------------------
(* The continuations.                                                      *)

\* Faulty helper: the response is used without a look at its status.
Arrived(k) == k.answer # "unauthorized"

Succeeded(k) == k.answer = "ok"

\* Faulty helper: a refused token is an error like any other.
BootFails(k) == k.kind = "me" /\ ~Succeeded(k)

\* api() logs out on a 401, and boot() on whatever went wrong.
LogsOut(k) == k.answer = "unauthorized" \/ (k.kind = "me" /\ ~Succeeded(k))

\* After the message that a decision is recorded, the inbox is shown, unless
\* the hash is that of the inbox already: then it does not change.
BackToInbox(k) ==
    \/ /\ route = "approvals"
       /\ calls' = calls \ {k} /\ UNCHANGED <<route, screen>>
    \/ route # "approvals" /\ Show("approvals", calls \ {k})

Continue(k) ==
    \/ k.kind = "me" /\ entered' = TRUE /\ Show(route, calls \ {k})
    \/ /\ k.kind = "view"
       /\ screen' = IF Succeeded(k) THEN Page(k.on, k.items) ELSE Page("error", {})
       /\ calls' = calls \ {k}
       /\ UNCHANGED <<entered, route>>
    \/ /\ k.kind = "detail"
       /\ screen' = IF Succeeded(k) THEN Page("form", {k.on}) ELSE screen
       /\ calls' = calls \ {k}
       /\ UNCHANGED <<entered, route>>
    \/ k.kind = "decide" /\ Succeeded(k) /\ BackToInbox(k) /\ UNCHANGED entered
    \/ /\ k.kind = "decide" /\ ~Succeeded(k)
       /\ calls' = calls \ {k}
       /\ UNCHANGED <<entered, route, screen>>

Deliver(k) ==
    /\ k.answer # "pending"
    /\ \/ LogsOut(k) /\ Leave
       \/ ~LogsOut(k) /\ Continue(k) /\ UNCHANGED session
    /\ UNCHANGED <<tables, approved>>

-----------------------------------------------------------------------------
\* The agents draft specifications, generate code and ask questions.
AgentStep ==
    /\ \/ \E s \in Specs : Engine!CreateSpec(s)
       \/ \E r \in Runs, s \in Specs :
             Engine!StartAgentRun(r, "code_generation", s)
       \/ \E c \in Crps : Engine!CreateCrp(c, "high", None, None)
    /\ UNCHANGED <<record, approved, tab>>

Human ==
    \/ SignIn \/ Reload \/ SignOut \/ Expire
    \/ \E v \in Views : Go(v)
    \/ \E i \in Items : OpenDecision(i) \/ \E d \in Decisions : Decide(i, d)

Progress(k) == Serve(k) \/ Lose(k) \/ Deliver(k)

Next ==
    \/ Human \/ AgentStep \/ Tick
    \/ \E i \in Items, d \in Decisions : OtherDecides(i, d)
    \/ \E k \in calls : Progress(k)

CallOf(v, k) == k.kind = "view" /\ k.on = v

\* Calls are answered or fail and their continuations run, whatever else the
\* page is waiting for; a connection does not fail for ever; timers fire
\* (strongly fair because a tick waits for MaxCalls).
Fairness ==
    /\ WF_vars(\E k \in calls : Progress(k))
    /\ WF_vars(\E k \in calls : LogsOut(k) /\ Deliver(k))
    /\ \A v \in Polled :
          /\ SF_vars(\E k \in calls : CallOf(v, k) /\ Serve(k))
          /\ WF_vars(\E k \in calls : CallOf(v, k) /\ Deliver(k))
    /\ SF_vars(Tick)

Spec == Init /\ [][Next]_vars /\ Fairness

-----------------------------------------------------------------------------
(* Properties.                                                             *)

\* The page is about to say "Approved as ... recorded" only when the approval
\* is what the database has, and "Rejected as ... recorded" likewise for a
\* CRP, whoever else decided the same item meanwhile and however late the
\* answer is (decide in app.js, the 409 of vcr.py).
ToldIsRecorded ==
    \A k \in calls :
        /\ k.kind = "decide" /\ k.answer # "pending" /\ Succeeded(k)
        /\ k.on \in Crps \/ k.says = "approve"
        => record[k.on] = k.says

\* A decision that the database has is never replaced by another one, whoever
\* decides again, from whatever stale page (vcr.py has one VCR per CRP, and
\* validation is not undone).
RecordIsFinal ==
    [][\A i \in Items : record[i] # None => record'[i] = record[i]]_vars

\* A page whose token no longer counts is left for the login page, unless the
\* human goes to a view that makes no call (the 401 branch of api(), the
\* timer of enterApp, the catch of boot).
DeadSessionIsLeft ==
    session = "dead" /\ (entered => route \in Polled)
        ~> session # "dead" \/ route \notin Polled

\* What is decided disappears from the inbox, even when an answer of before
\* the decision is painted after it.
DecidedLeavesInbox ==
    \A i \in Items :
        /\ route = "approvals"
        /\ screen.shows = "approvals" /\ i \in screen.items
        /\ record[i] # None
        ~> \/ route # "approvals"
           \/ screen.shows = "approvals" => i \notin screen.items

\* requirements.py: "No Spec may enter code generation without final human
\* validation and review" - some human approved the specification of a run.
RejectedSpecIsNotCoded ==
    \A r \in Runs :
        runs[r].task = "code_generation" => runs[r].spec \in approved
=============================================================================
