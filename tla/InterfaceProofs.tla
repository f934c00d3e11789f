--------------------------- MODULE InterfaceProofs ---------------------------
(***************************************************************************)
(* Proofs about the two models of the web interface, ApprovalCenter (any   *)
(* rows, any number of calls in flight) and LiveRun (any runs and any      *)
(* number of connections).                                                 *)
(***************************************************************************)
EXTENDS ApprovalCenter, LiveRun, FiniteSetTheorems, TLAPS

CP == INSTANCE ConsultationProofs

USE ItemAssumption DEF Engine!NoneAssumption

-----------------------------------------------------------------------------
(* ApprovalCenter: the tables behind the page.                             *)

\* Every step of the page, of other humans and of agents is a step of
\* Consultation or leaves its tables alone.
THEOREM ImplementsConsultation == Spec => Engine!Spec
<1>1. Init => Engine!Init
  BY DEF Init
<1>2. [Next]_vars => [Engine!Next]_(Engine!vars)
  <2> SUFFICES ASSUME [Next]_vars PROVE [Engine!Next]_(Engine!vars)
    OBVIOUS
  <2> USE DEF tables, tab, Engine!vars
  <2>1. ASSUME NEW i, NEW d, CarryOut(i, d) PROVE Engine!Next
    BY <2>1 DEF CarryOut, Engine!Next, Engine!SpecStep
  <2>2. CASE Human
    BY <2>2 DEF Human, SignIn, Reload, SignOut, Expire, Go, OpenDecision,
                Decide
  <2>3. CASE AgentStep
    BY <2>3 DEF AgentStep, Engine!Next, Engine!SpecStep, Engine!RunStep,
                Engine!CrpStep, Engine!TaskTypes, Engine!Severities
  <2>4. CASE Tick
    BY <2>4 DEF Tick
  <2>5. ASSUME NEW i \in Items, NEW d \in Decisions, OtherDecides(i, d)
        PROVE  Engine!Next
    BY <2>1, <2>5 DEF OtherDecides
  <2>6. ASSUME NEW k \in calls, Serve(k) PROVE [Engine!Next]_(Engine!vars)
    BY <2>1, <2>6 DEF Serve, Read, Record, Refuse
  <2>7. ASSUME NEW k \in calls, Lose(k) PROVE [Engine!Next]_(Engine!vars)
    BY <2>1, <2>7 DEF Lose
  <2>8. ASSUME NEW k \in calls, Deliver(k) PROVE [Engine!Next]_(Engine!vars)
    BY <2>8 DEF Deliver
  <2>9. CASE UNCHANGED vars
    BY <2>9 DEF vars
  <2> QED
    BY <2>2, <2>3, <2>4, <2>5, <2>6, <2>7, <2>8, <2>9 DEF Next, Progress
<1> QED
  BY <1>1, <1>2, PTL DEF Spec, Engine!Spec

\* The two instances of Consultation are the same specification.
LEMMA SameSpec == Engine!Spec => CP!Spec
<1>1. Engine!Init => CP!Init
  BY DEF Engine!Init, CP!Init, Engine!NoRun, CP!NoRun, Engine!NoCrp, CP!NoCrp
<1>2. Engine!SpecStep => CP!SpecStep
  BY DEF Engine!SpecStep, CP!SpecStep, Engine!CreateSpec, CP!CreateSpec,
         Engine!ValidateSpec, CP!ValidateSpec
<1>3. Engine!RunStep => CP!RunStep
  BY DEF Engine!RunStep, CP!RunStep, Engine!StartAgentRun, CP!StartAgentRun,
         Engine!UpdateAgentRun, CP!UpdateAgentRun,
         Engine!CutoffPasses, CP!CutoffPasses,
         Engine!ReapOrphanRuns, CP!ReapOrphanRuns,
         Engine!SpecMustBeValidated, CP!SpecMustBeValidated,
         Engine!Patchable, CP!Patchable, Engine!PatchedRun, CP!PatchedRun,
         Engine!Orphans, CP!Orphans, Engine!ReapedRun, CP!ReapedRun,
         Engine!SpecRef, CP!SpecRef, Engine!RunStatuses, CP!RunStatuses,
         Engine!TerminalStatuses, CP!TerminalStatuses,
         Engine!TaskTypes, CP!TaskTypes
<1>4. Engine!CrpStep => CP!CrpStep
  BY DEF Engine!CrpStep, CP!CrpStep, Engine!CreateCrp, CP!CreateCrp,
         Engine!SpecRef, CP!SpecRef, Engine!RunRef, CP!RunRef,
         Engine!Patchable, CP!Patchable, Engine!Blocking, CP!Blocking,
         Engine!Severities, CP!Severities,
         Engine!TerminalStatuses, CP!TerminalStatuses
<1>5. ASSUME NEW c \in Crps, Engine!CreateVcr(c) PROVE CP!CreateVcr(c)
  BY <1>5 DEF Engine!CreateVcr, CP!CreateVcr, Engine!Resolved, CP!Resolved
<1>6. [Engine!Next]_(Engine!vars) => [CP!Next]_(CP!vars)
  BY <1>2, <1>3, <1>4, <1>5 DEF Engine!Next, CP!Next, Engine!vars, CP!vars
<1> QED
  BY <1>1, <1>6, PTL DEF Engine!Spec, CP!Spec

\* The theorems of Consultation, read through the instance of the page.
LEMMA SameProperties ==
    /\ CP!NoneAssumption
    /\ CP!TypeOK => Engine!TypeOK
    /\ CP!ValidatedBeforeCodegen <=> Engine!ValidatedBeforeCodegen
    /\ CP!HighCrpBlocksRun <=> Engine!HighCrpBlocksRun
    /\ CP!ResolvedIffVcr <=> Engine!ResolvedIffVcr
    /\ CP!UnstampedOnlyByCrp <=> Engine!UnstampedOnlyByCrp
<1> USE DEF Engine!RunStatuses, CP!RunStatuses, Engine!TaskTypes, CP!TaskTypes,
            Engine!Severities, CP!Severities
<1>1. CP!NoneAssumption
  BY DEF CP!NoneAssumption
<1>2. CP!TypeOK => Engine!TypeOK
  BY DEF Engine!TypeOK, CP!TypeOK, Engine!Run, CP!Run, Engine!Crp, CP!Crp,
         Engine!NoRun, CP!NoRun, Engine!NoCrp, CP!NoCrp
<1> QED
  BY <1>1, <1>2
     DEF Engine!ValidatedBeforeCodegen, CP!ValidatedBeforeCodegen,
         Engine!HighCrpBlocksRun, CP!HighCrpBlocksRun,
         Engine!ResolvedIffVcr, CP!ResolvedIffVcr,
         Engine!UnstampedOnlyByCrp, CP!UnstampedOnlyByCrp,
         Engine!Blocking, CP!Blocking,
         Engine!TerminalStatuses, CP!TerminalStatuses

\* The tables keep their types whatever the page does.
LEMMA TableTypes == Spec => []Engine!TypeOK
<1>1. CP!Spec => []CP!TypeOK
  BY SameProperties, CP!TypeCorrect
<1> QED
  BY <1>1, SameProperties, ImplementsConsultation, SameSpec, PTL

\* What a human decides late, twice or from a stale page cannot break what the
\* consultation loop promises: no code generation from an unvalidated
\* specification, a run under a blocking CRP stays blocked, a CRP is resolved
\* exactly when it has its VCR, only a CRP leaves a run unstamped, and no run
\* that has ended moves.
THEOREM ConsultationHolds ==
    /\ Spec => [](/\ Engine!ValidatedBeforeCodegen
                  /\ Engine!HighCrpBlocksRun
                  /\ Engine!ResolvedIffVcr
                  /\ Engine!UnstampedOnlyByCrp)
    /\ Spec => Engine!TerminalIsFinal
<1>1. CP!Spec => [](/\ CP!ValidatedBeforeCodegen
                    /\ CP!HighCrpBlocksRun
                    /\ CP!ResolvedIffVcr
                    /\ CP!UnstampedOnlyByCrp)
  BY SameProperties, CP!CodegenIsValidated, CP!HighCrpBlocks,
     CP!ResolutionsAgree, CP!OnlyCrpLeavesUnstamped, PTL
<1>2. CP!Spec => CP!TerminalIsFinal
  BY SameProperties, CP!TerminalRunsStay
<1>3. CP!TerminalIsFinal => Engine!TerminalIsFinal
  BY DEF CP!TerminalIsFinal, Engine!TerminalIsFinal, CP!TerminalStatuses,
         Engine!TerminalStatuses, CP!vars, Engine!vars
<1> QED
  BY <1>1, <1>2, <1>3, SameProperties, ImplementsConsultation, SameSpec, PTL

-----------------------------------------------------------------------------
(* ApprovalCenter: types, and what a page may have in flight.              *)

\* Calls need a token, and a page that has not been entered waits for nothing
\* but the question who it is.
Booting ==
    /\ calls # {} => session # "none"
    /\ ~entered => \A k \in calls : k.kind = "me"

Typed == TypeOK /\ IsFiniteSet(calls) /\ Booting

\* What a call is about, by its kind; its answer changes nothing of that.
LEMMA CallFields ==
    ASSUME NEW k \in Calls
    PROVE  /\ k.kind \in {"me", "view", "detail", "decide"}
           /\ k.kind = "view" => k.on \in Views \ Local
           /\ k.kind = "detail" => k.on \in Items
           /\ k.kind = "decide" => k.on \in Items /\ k.says \in Decisions
           /\ k.answer \in Answers /\ k.items \subseteq Items
           /\ \A a \in Answers, shown \in SUBSET Items :
                Answered(k, a, shown) \in Calls
<1>1. PICK q \in Questions, b \in Answers, is \in SUBSET Items :
         k = Answered(q, b, is)
  BY DEF Calls
<1>2. /\ q.kind \in {"me", "view", "detail", "decide"}
      /\ q.kind = "view" => q.on \in Views \ Local
      /\ q.kind = "detail" => q.on \in Items
      /\ q.kind = "decide" => q.on \in Items /\ q.says \in Decisions
  BY DEF Questions, Me, View, Detail, Decision, Call
<1>3. ASSUME NEW a \in Answers, NEW shown \in SUBSET Items
      PROVE  Answered(k, a, shown) \in Calls
  <2>1. Answered(k, a, shown) = Answered(q, a, shown)
    BY <1>1 DEF Answered
  <2> QED
    BY <2>1 DEF Calls
<1> QED
  BY <1>1, <1>2, <1>3 DEF Answered

\* A question is a call that waits for its answer.
LEMMA QuestionsPend ==
    ASSUME NEW q \in Questions
    PROVE  q \in Calls /\ q.answer = "pending"
<1>1. q = Answered(q, "pending", {})
  BY DEF Questions, Me, View, Detail, Decision, Call, Answered
<1>2. Answered(q, "pending", {}) \in Calls
  BY DEF Calls, Answers
<1> QED
  BY <1>1, <1>2 DEF Answered

\* There is room for one more call where there were fewer than MaxCalls, and
\* where one of them is dropped.
LEMMA Room ==
    ASSUME NEW S, S \subseteq Calls, IsFiniteSet(S), Cardinality(S) < MaxCalls,
           NEW k \in Calls
    PROVE  /\ S \cup {k} \subseteq Calls
           /\ IsFiniteSet(S \cup {k})
           /\ Cardinality(S \cup {k}) <= MaxCalls
<1>1. Cardinality(S) \in Nat /\ MaxCalls \in Nat
  BY FS_CardinalityType
<1>2. IsFiniteSet(S \cup {k})
      /\ Cardinality(S \cup {k}) \in {Cardinality(S), Cardinality(S) + 1}
  BY FS_AddElement
<1> QED
  BY <1>1, <1>2

\* A call that is taken from those in flight makes room for another.
LEMMA Dropped ==
    ASSUME Typed, NEW k \in calls
    PROVE  /\ calls \ {k} \subseteq Calls
           /\ IsFiniteSet(calls \ {k})
           /\ Cardinality(calls \ {k}) < MaxCalls
<1>1. /\ IsFiniteSet(calls \ {k})
      /\ Cardinality(calls \ {k}) = Cardinality(calls) - 1
  BY FS_RemoveElement DEF Typed
<1>2. Cardinality(calls) \in Nat /\ MaxCalls \in Nat
  BY FS_CardinalityType DEF Typed
<1> QED
  BY <1>1, <1>2 DEF Typed, TypeOK

\* The boot of a page starts from the one question who it is.
LEMMA BootTypes ==
    /\ {Me} \subseteq Calls /\ IsFiniteSet({Me})
    /\ Cardinality({Me}) <= MaxCalls /\ Me.kind = "me"
<1>1. Me \in Calls
  BY QuestionsPend DEF Questions
<1>2. IsFiniteSet({Me}) /\ Cardinality({Me}) = 1
  BY FS_Singleton
<1> QED
  BY <1>1, <1>2 DEF Me, Call

\* A page that was left has no calls.
LEMMA NoCalls == IsFiniteSet({}) /\ Cardinality({}) <= MaxCalls
  BY FS_EmptySet

\* Routing to a view keeps the types of the page.
LEMMA ShowTypes ==
    ASSUME Typed, NEW S, S \subseteq Calls, IsFiniteSet(S),
           Cardinality(S) < MaxCalls, NEW v \in Views, Show(v, S)
    PROVE  /\ route' \in Views
           /\ screen' \in [shows: Views \cup {"nothing", "error", "form"},
                           items: SUBSET Items]
           /\ calls' \subseteq Calls /\ IsFiniteSet(calls')
           /\ Cardinality(calls') <= MaxCalls
<1>1. CASE v \in Local
  <2>1. Cardinality(S) <= MaxCalls
    BY FS_CardinalityType
  <2> QED
    BY <1>1, <2>1 DEF Show, Page
<1>2. CASE v \notin Local
  <2>1. View(v) \in Calls
    BY <1>2, QuestionsPend DEF Questions
  <2> QED
    BY <1>2, <2>1, Room DEF Show, Typed, TypeOK
<1> QED
  BY <1>1, <1>2

\* What a human and a timer do keeps the types.
LEMMA HumanTypes ==
    ASSUME Typed, Engine!TypeOK', Human \/ Tick PROVE Typed'
<1> USE DEF Typed, TypeOK, Booting
<1>0. /\ Blank \in [shows: Views \cup {"nothing", "error", "form"},
                    items: SUBSET Items]
      /\ Blank.shows = "nothing"
  BY DEF Blank, Page
<1>1. ASSUME UNCHANGED tables, session' \in {"live", "dead"}, Boot,
             route' \in Views, approved' = approved
      PROVE  Typed'
  BY <1>0, <1>1, BootTypes DEF Boot, tables
<1>2. CASE SignIn \/ Reload
  BY <1>1, <1>2 DEF SignIn, Reload, Views, tables
<1>3. CASE SignOut
  BY <1>0, <1>3, NoCalls DEF SignOut, Leave, Views, tables
<1>4. CASE Expire
  BY <1>4 DEF Expire, tables
<1>5. ASSUME NEW v \in Views, entered, HasRoom, Show(v, calls),
             UNCHANGED <<tables, approved, session, entered>>
      PROVE  Typed'
  <2>1. /\ calls' \subseteq Calls /\ IsFiniteSet(calls')
        /\ Cardinality(calls') <= MaxCalls
    BY <1>5, ShowTypes DEF HasRoom
  <2>2. /\ route' \in Views
        /\ screen' \in [shows: Views \cup {"nothing", "error", "form"},
                        items: SUBSET Items]
    BY <1>5, ShowTypes DEF HasRoom
  <2> QED
    BY <1>5, <2>1, <2>2 DEF tables
<1>6. CASE \E v \in Views : Go(v)
  BY <1>5, <1>6 DEF Go
<1>7. CASE Tick
  BY <1>5, <1>7 DEF Tick
<1>8. ASSUME NEW q \in Questions, entered, HasRoom, calls' = calls \cup {q},
             UNCHANGED <<tables, session, entered, route, screen>>,
             approved' \subseteq Specs
      PROVE  Typed'
  <2>1. q \in Calls
    BY QuestionsPend
  <2>2. /\ calls' \subseteq Calls /\ IsFiniteSet(calls')
        /\ Cardinality(calls') <= MaxCalls
    BY <1>8, <2>1, Room DEF HasRoom
  <2> QED
    BY <1>8, <2>2 DEF tables
<1>9. screen.shows \in {"approvals", "form"} => entered
  BY <1>0
<1>10. ASSUME NEW i \in Items, OpenDecision(i) PROVE Typed'
  <2>1. Detail(i) \in Questions
    BY DEF Questions
  <2> QED
    BY <1>8, <1>9, <1>10, <2>1 DEF OpenDecision
<1>11. ASSUME NEW i \in Items, NEW d \in Decisions, Decide(i, d) PROVE Typed'
  <2>1. Decision(i, d) \in Questions
    BY DEF Questions
  <2>2. approved' \subseteq Specs
    BY <1>11 DEF Decide, Approved
  <2>3. screen.shows = "form"
    BY <1>11 DEF Decide, Page
  <2> QED
    BY <1>8, <1>9, <1>11, <2>1, <2>2, <2>3 DEF Decide
<1> QED
  BY <1>2, <1>3, <1>4, <1>6, <1>7, <1>10, <1>11 DEF Human

\* A decision that is carried out is recorded with its type.
LEMMA CarryOutTypes ==
    ASSUME record \in [Items -> Decisions \cup {None}],
           NEW i \in Items, NEW d \in Decisions, CarryOut(i, d)
    PROVE  record' \in [Items -> Decisions \cup {None}]
  BY DEF CarryOut, Decisions

\* What the server and the network do keeps the types.
LEMMA ServeTypes ==
    ASSUME Typed, Engine!TypeOK', NEW k \in calls, Serve(k) \/ Lose(k)
    PROVE  Typed'
<1> USE DEF Typed, TypeOK
<1>1. k \in Calls
  OBVIOUS
<1>2. PendingApprovals \subseteq Items
  BY DEF PendingApprovals, Items
<1>3. \/ UNCHANGED tables
      \/ k.kind = "decide" /\ CarryOut(k.on, k.says)
  BY DEF Serve, Read, Record, Refuse, Lose
<1>4. record' \in [Items -> Decisions \cup {None}]
  BY <1>1, <1>3, CallFields, CarryOutTypes DEF tables
<1>5. PICK a \in Answers, shown \in SUBSET Items : Answer(k, a, shown)
  BY <1>2 DEF Serve, Read, Record, Refuse, Lose, Answers
<1>6. Answered(k, a, shown) \in Calls
  BY <1>1, CallFields
<1>7. /\ calls' \subseteq Calls /\ IsFiniteSet(calls')
      /\ Cardinality(calls') <= MaxCalls
  BY <1>5, <1>6, Dropped, Room DEF Answer
<1>8. Booting'
  BY <1>5 DEF Booting, Answer, Answered
<1> QED
  BY <1>4, <1>5, <1>7, <1>8 DEF Answer

\* The continuations keep the types.
LEMMA DeliverTypes ==
    ASSUME Typed, Engine!TypeOK', NEW k \in calls, Deliver(k)
    PROVE  Typed'
<1> USE DEF Typed, TypeOK
<1>1. k \in Calls /\ UNCHANGED <<tables, approved>>
  BY DEF Deliver
<1>2. /\ Blank \in [shows: Views \cup {"nothing", "error", "form"},
                    items: SUBSET Items]
      /\ session # "none"
  BY DEF Blank, Page, Booting
<1>3. /\ calls \ {k} \subseteq Calls /\ IsFiniteSet(calls \ {k})
      /\ Cardinality(calls \ {k}) < MaxCalls
      /\ Cardinality(calls \ {k}) <= MaxCalls
  <2>1. Cardinality(calls \ {k}) < MaxCalls /\ IsFiniteSet(calls \ {k})
    BY Dropped
  <2>2. Cardinality(calls \ {k}) <= MaxCalls
    BY <2>1, FS_CardinalityType
  <2> QED
    BY <2>1, <2>2
<1>4. CASE Leave
  BY <1>1, <1>2, <1>4, NoCalls DEF Leave, Views, tables, Booting
<1>5. CASE Continue(k) /\ UNCHANGED session
  <2>1. ASSUME NEW v \in Views, Show(v, calls \ {k}), entered'
        PROVE  Typed'
    <3>1. /\ calls' \subseteq Calls /\ IsFiniteSet(calls')
          /\ Cardinality(calls') <= MaxCalls
      BY <1>3, <2>1, ShowTypes
    <3>2. /\ route' \in Views
          /\ screen' \in [shows: Views \cup {"nothing", "error", "form"},
                          items: SUBSET Items]
      BY <1>3, <2>1, ShowTypes
    <3> QED
      BY <1>1, <1>2, <1>5, <2>1, <3>1, <3>2 DEF tables, Booting
  <2>2. ASSUME k.kind # "me",
               screen' \in [shows: Views \cup {"nothing", "error", "form"},
                            items: SUBSET Items],
               calls' = calls \ {k}, UNCHANGED <<entered, route>>
        PROVE  Typed'
    BY <1>1, <1>2, <1>3, <1>5, <2>2 DEF tables, Booting
  <2>3. k.kind # "me" => entered
    BY DEF Booting
  <2>4. /\ k.kind = "view" => k.on \in Views
        /\ k.kind = "detail" => k.on \in Items
        /\ k.items \subseteq Items
    BY <1>1, CallFields
  <2>5. CASE k.kind = "me"
    BY <1>5, <2>1, <2>5 DEF Continue
  <2>6. CASE k.kind = "view"
    <3>1. screen' = IF Succeeded(k) THEN Page(k.on, k.items)
                    ELSE Page("error", {})
      BY <1>5, <2>6 DEF Continue
    <3>2. screen' \in [shows: Views \cup {"nothing", "error", "form"},
                       items: SUBSET Items]
      BY <2>4, <2>6, <3>1 DEF Page
    <3> QED
      BY <1>5, <2>2, <2>6, <3>2 DEF Continue
  <2>7. CASE k.kind = "detail"
    <3>1. screen' = IF Succeeded(k) THEN Page("form", {k.on}) ELSE screen
      BY <1>5, <2>7 DEF Continue
    <3>2. screen' \in [shows: Views \cup {"nothing", "error", "form"},
                       items: SUBSET Items]
      BY <2>4, <2>7, <3>1 DEF Page
    <3> QED
      BY <1>5, <2>2, <2>7, <3>2 DEF Continue
  <2>8. CASE k.kind = "decide"
    <3>1. "approvals" \in Views
      BY DEF Views
    <3>2. CASE Show("approvals", calls \ {k}) /\ UNCHANGED entered
      BY <2>1, <2>3, <2>8, <3>1, <3>2
    <3>3. CASE calls' = calls \ {k} /\ UNCHANGED <<entered, route, screen>>
      BY <2>2, <2>8, <3>3
    <3> QED
      BY <1>5, <2>8, <3>2, <3>3 DEF Continue, BackToInbox
  <2> QED
    BY <1>1, <2>5, <2>6, <2>7, <2>8, CallFields
<1> QED
  BY <1>4, <1>5 DEF Deliver

\* The types are inductive together with what a booting page may ask.
LEMMA TypedHolds == Spec => []Typed
<1>1. Init /\ Engine!TypeOK => Typed
  <2> SUFFICES ASSUME Init, Engine!TypeOK PROVE Typed
    OBVIOUS
  <2> QED
    BY NoCalls DEF Init, Typed, TypeOK, Booting, Blank, Page, Views
<1>2. Typed /\ Engine!TypeOK' /\ [Next]_vars => Typed'
  <2> SUFFICES ASSUME Typed, Engine!TypeOK', [Next]_vars PROVE Typed'
    OBVIOUS
  <2>1. CASE AgentStep
    BY <2>1 DEF AgentStep, Typed, TypeOK, Booting, tab
  <2>2. ASSUME NEW i \in Items, NEW d \in Decisions, OtherDecides(i, d)
        PROVE  Typed'
    <3>1. record' \in [Items -> Decisions \cup {None}]
      BY <2>2, CarryOutTypes DEF OtherDecides, Typed, TypeOK
    <3>2. approved' \subseteq Specs
      BY <2>2 DEF OtherDecides, Approved, Typed, TypeOK
    <3> QED
      BY <2>2, <3>1, <3>2 DEF OtherDecides, Typed, TypeOK, Booting, tab
  <2>3. CASE UNCHANGED vars
    BY <2>3 DEF vars, tables, tab, Typed, TypeOK, Booting
  <2> QED
    BY <2>1, <2>2, <2>3, HumanTypes, ServeTypes, DeliverTypes
       DEF Next, Progress
<1> QED
  BY <1>1, <1>2, TableTypes, PTL DEF Spec

\* Every column, and everything the page holds, has a value of its type, and
\* the page never has more calls in flight than MaxCalls.
THEOREM TypeCorrect == Spec => []TypeOK
  BY TypedHolds, PTL DEF Typed

-----------------------------------------------------------------------------
(* ApprovalCenter: what is decided, what is recorded, what the human is    *)
(* told.                                                                   *)

\* The recorded decision agrees with the tables: a CRP has one exactly when it
\* has its VCR, a specification exactly when it is validated.
RecordIsTables ==
    /\ \A c \in Crps : c \in vcrs <=> record[c] # None
    /\ \A s \in Specs :
          record[s] = IF specs[s] = "validated" THEN "approve" ELSE None

\* A page with an answer that its decision was carried out has it on record;
\* for a specification that is an approval, whatever the page said.
AnswersAreRecorded ==
    \A k \in calls :
        k.kind = "decide" /\ k.answer = "ok" =>
            record[k.on] = IF k.on \in Crps THEN k.says ELSE "approve"

\* A step carries out the decision of somebody, or is one of the agents, or
\* leaves the tables alone.
LEMMA TableSteps ==
    ASSUME Typed, [Next]_vars
    PROVE  \/ UNCHANGED tables
           \/ AgentStep
           \/ \E i \in Items, d \in Decisions : CarryOut(i, d)
<1>1. ASSUME NEW k \in calls, k.kind = "decide"
      PROVE  k.on \in Items /\ k.says \in Decisions
  BY <1>1, CallFields DEF Typed, TypeOK
<1>2. Human \/ Tick => UNCHANGED tables
  BY DEF Human, Tick, SignIn, Reload, SignOut, Expire, Go, OpenDecision, Decide
<1>3. ASSUME NEW k \in calls, Progress(k)
      PROVE  \/ UNCHANGED tables
             \/ \E i \in Items, d \in Decisions : CarryOut(i, d)
  BY <1>1, <1>3
     DEF Progress, Serve, Read, Record, Refuse, Lose, Deliver, tables
<1> QED
  BY <1>2, <1>3 DEF Next, OtherDecides, vars, tables

\* A decision that the tables show stays what it is when another one is
\* carried out.
LEMMA CarriedOutOnce ==
    ASSUME Typed, RecordIsTables, NEW i \in Items, NEW d \in Decisions,
           CarryOut(i, d)
    PROVE  /\ RecordIsTables'
           /\ \A j \in Items : record[j] # None => record'[j] = record[j]
           /\ record'[i] = IF i \in Crps THEN d ELSE "approve"
<1> USE DEF Typed, TypeOK, RecordIsTables, Items
<1>1. CASE i \in Specs
  <2>1. /\ specs' = [specs EXCEPT ![i] = "validated"]
        /\ record' = [record EXCEPT ![i] = "approve"]
        /\ vcrs' = vcrs /\ i \notin Crps
    BY <1>1 DEF CarryOut, Engine!ValidateSpec
  <2> QED
    BY <1>1, <2>1 DEF Engine!TypeOK, Decisions
<1>2. CASE i \in Crps
  <2>1. /\ vcrs' = vcrs \cup {i} /\ i \notin vcrs /\ specs' = specs
        /\ record' = [record EXCEPT ![i] = d] /\ d # None /\ i \notin Specs
    BY <1>2 DEF CarryOut, Engine!CreateVcr
  <2> QED
    BY <1>2, <2>1 DEF Engine!TypeOK
<1> QED
  BY <1>1, <1>2

\* No step makes the record and the tables disagree, or replaces a decision.
LEMMA DecisionsStay ==
    ASSUME Typed, RecordIsTables, [Next]_vars
    PROVE  /\ RecordIsTables'
           /\ \A j \in Items : record[j] # None => record'[j] = record[j]
<1>1. CASE UNCHANGED tables
  BY <1>1 DEF tables, RecordIsTables
<1>2. CASE AgentStep
  <2>1. CASE \E s \in Specs : Engine!CreateSpec(s)
    BY <1>2, <2>1
       DEF AgentStep, Engine!CreateSpec, RecordIsTables, Typed, TypeOK,
           Engine!TypeOK
  <2>2. CASE UNCHANGED <<specs, vcrs>>
    BY <1>2, <2>2 DEF AgentStep, RecordIsTables
  <2> QED
    BY <1>2, <2>1, <2>2
       DEF AgentStep, Engine!StartAgentRun, Engine!CreateCrp
<1> QED
  BY <1>1, <1>2, TableSteps, CarriedOutOnce

\* The approval history of the database is that of its tables.
LEMMA RecordsAgree == Spec => []RecordIsTables
<1>1. Init => RecordIsTables
  BY DEF Init, Engine!Init, RecordIsTables, Items
<1>2. Typed /\ RecordIsTables /\ [Next]_vars => RecordIsTables'
  BY DecisionsStay
<1> QED
  BY <1>1, <1>2, TypedHolds, PTL DEF Spec

\* A decision on record is never replaced: not by a second human, nor by a
\* page that decides again from a stale form.
THEOREM RecordsAreFinal == Spec => RecordIsFinal
<1>1. Typed /\ RecordIsTables /\ [Next]_vars =>
        [\A i \in Items : record[i] # None => record'[i] = record[i]]_vars
  BY DecisionsStay
<1> QED
  BY <1>1, TypedHolds, RecordsAgree, PTL DEF Spec, RecordIsFinal

\* The answer that a decision was carried out was on the page before the step,
\* or the step is the one that carries it out.
LEMMA NewAnswers ==
    ASSUME Typed, [Next]_vars, NEW k \in calls', k.kind = "decide",
           k.answer = "ok"
    PROVE  \/ k \in calls
           \/ /\ k.on \in Items /\ k.says \in Decisions
              /\ CarryOut(k.on, k.says)
<1>1. ASSUME NEW q \in Questions PROVE q.answer # "ok"
  BY <1>1, QuestionsPend
<1>2. \A v \in Views \ Local : View(v) \in Questions
  BY DEF Questions
<1>3. \A i \in Items : Detail(i) \in Questions /\
                       \A d \in Decisions : Decision(i, d) \in Questions
  BY DEF Questions
<1>4. CASE Human \/ Tick
  <2>1. Me.answer # "ok"
    BY <1>1 DEF Questions
  <2>2. ASSUME NEW v \in Views, Show(v, calls) PROVE k \in calls
    BY <1>1, <1>2, <2>2 DEF Show
  <2>3. Tick => k \in calls
    BY <2>2 DEF Tick, Typed, TypeOK
  <2>4. (\E v \in Views : Go(v)) => k \in calls
    BY <2>2 DEF Go
  <2>5. SignIn \/ Reload \/ SignOut \/ Expire => k \in calls
    BY <2>1 DEF SignIn, Reload, SignOut, Expire, Boot, Leave
  <2>6. ASSUME NEW i \in Items,
               OpenDecision(i) \/ \E d \in Decisions : Decide(i, d)
        PROVE  k \in calls
    BY <1>1, <1>3, <2>6 DEF OpenDecision, Decide
  <2> QED
    BY <1>4, <2>3, <2>4, <2>5, <2>6 DEF Human
<1>5. ASSUME NEW c \in calls, Serve(c) \/ Lose(c), k \notin calls
      PROVE  /\ k.on \in Items /\ k.says \in Decisions
             /\ CarryOut(k.on, k.says)
  <2>1. PICK a, shown :
           /\ Answer(c, a, shown)
           /\ a = "ok" => Read(c) \/ (Record(c) /\ CarryOut(c.on, c.says))
    BY <1>5 DEF Serve, Read, Record, Refuse, Lose, Answers, Answer
  <2>2. k = Answered(c, a, shown)
    BY <1>5, <2>1 DEF Answer
  <2>3. k.kind = c.kind /\ k.on = c.on /\ k.says = c.says /\ a = "ok"
    BY <2>2 DEF Answered
  <2>4. CarryOut(c.on, c.says)
    BY <2>1, <2>3 DEF Read
  <2> QED
    BY <2>3, <2>4, CallFields DEF Typed, TypeOK
<1>6. ASSUME NEW c \in calls, Deliver(c) PROVE k \in calls
  <2>1. calls' = {} \/ calls' = calls \ {c} \/
          \E v \in Views : Show(v, calls \ {c})
    BY <1>6 DEF Deliver, Leave, Continue, BackToInbox, Typed, TypeOK, Views
  <2>2. ASSUME NEW v \in Views, Show(v, calls \ {c}) PROVE k \in calls
    BY <1>1, <1>2, <2>2 DEF Show
  <2> QED
    BY <2>1, <2>2
<1>7. CASE AgentStep \/ UNCHANGED vars \/
           \E i \in Items, d \in Decisions : OtherDecides(i, d)
  BY <1>7 DEF AgentStep, OtherDecides, vars, tab
<1> QED
  BY <1>4, <1>5, <1>6, <1>7 DEF Next, Progress

\* A carried-out decision is on record, and stays there while its answer is on
\* its way or waits for its continuation.
LEMMA AnswersHold == Spec => []AnswersAreRecorded
<1>1. Init => AnswersAreRecorded
  BY DEF Init, AnswersAreRecorded
<1>2. Typed /\ RecordIsTables /\ AnswersAreRecorded /\ [Next]_vars =>
        AnswersAreRecorded'
  <2> SUFFICES ASSUME Typed, RecordIsTables, AnswersAreRecorded, [Next]_vars,
                      NEW k \in calls', k.kind = "decide", k.answer = "ok"
               PROVE  record'[k.on] =
                        IF k.on \in Crps THEN k.says ELSE "approve"
    BY DEF AnswersAreRecorded
  <2>1. CASE k \in calls
    <3>1. /\ k.on \in Items /\ k.says \in Decisions
          /\ record[k.on] = IF k.on \in Crps THEN k.says ELSE "approve"
      BY <2>1, CallFields DEF AnswersAreRecorded, Typed, TypeOK
    <3>2. record[k.on] # None
      BY <3>1 DEF Decisions
    <3> QED
      BY <3>1, <3>2, DecisionsStay
  <2>2. CASE /\ k.on \in Items /\ k.says \in Decisions
             /\ CarryOut(k.on, k.says)
    BY <2>2, CarriedOutOnce
  <2> QED
    BY <2>1, <2>2, NewAnswers
<1> QED
  BY <1>1, <1>2, TypedHolds, RecordsAgree, PTL DEF Spec

\* What the page is about to say about a CRP, or about an approval, is what the
\* database has, however late the answer and whoever else decided meanwhile.
THEOREM ToldIsTrue == Spec => []ToldIsRecorded
<1>1. Typed /\ AnswersAreRecorded => ToldIsRecorded
  <2> SUFFICES ASSUME Typed, AnswersAreRecorded, NEW k \in calls,
                      k.kind = "decide", k.answer = "ok",
                      k.on \in Crps \/ k.says = "approve"
               PROVE  record[k.on] = k.says
    BY DEF ToldIsRecorded, Succeeded
  <2> QED
    BY DEF AnswersAreRecorded
<1> QED
  BY <1>1, TypedHolds, AnswersHold, PTL

\* The inbox offers nothing that is decided: an item in the answer of GET
\* /dashboard/approvals has no decision on record when the answer is computed.
InboxIsUndecided == \A i \in PendingApprovals : record[i] = None

\* An item leaves the inbox of the server with the decision on it
\* (pending_approvals in dashboard.py).
THEOREM InboxIsOpen == Spec => []InboxIsUndecided
<1>1. /\ Typed /\ RecordIsTables /\ Engine!ResolvedIffVcr => InboxIsUndecided
  BY DEF Typed, TypeOK, RecordIsTables, Engine!ResolvedIffVcr,
         InboxIsUndecided, PendingApprovals
<1> QED
  BY <1>1, TypedHolds, RecordsAgree, ConsultationHolds, PTL

-----------------------------------------------------------------------------
(* LiveRun: types.                                                         *)

USE RunAssumption

\* A call about a run names it, and so does the answer to a POST that did not
\* fail; an idle connection has no answer.
SoundCalls ==
    \A c \in Connections :
        /\ call[c].kind = "idle" => call[c].state = "sent"
        /\ call[c].kind \in {"view", "poll"} => call[c].run \in Jobs
        /\ call[c].kind = "start" =>
             /\ call[c].state = "served" => call[c].run \in Jobs
             /\ call[c].state \in {"read", "files"} =>
                  call[c].run \in Jobs \/ call[c].got = "torn"

LiveTyped == LiveTypeOK /\ SoundCalls

\* What the page shows and sends has its type.
LEMMA PlainTypes ==
    /\ \A k \in {"form", "list", "run", "error"} : Plain(k) \in LivePage
    /\ \A k \in {"idle", "start", "list", "view", "poll"}, r \in OrNone :
          Sent(k, r) \in LiveCall
    /\ NoCall \in LiveCall
  BY DEF Plain, Sent, NoCall, LivePage, LiveCall, Statuses, OrNone

\* What a call becomes when it is replaced, or when some of it changes.
LEMMA CallTypes ==
    ASSUME LiveTyped, NEW c \in Connections
    PROVE  /\ \A x \in LiveCall :
                /\ x.kind \in {"idle", "start"} => x.state = "sent"
                /\ x.kind \in {"view", "poll"} => x.run \in Jobs
                /\ call' = [call EXCEPT ![c] = x]
                => call' \in [Connections -> LiveCall] /\ SoundCalls'
           /\ \A g \in Statuses \cup {"torn"} :
                /\ call[c].kind # "idle"
                /\ \/ call[c].kind # "start"
                   \/ call[c].state = "served"
                   \/ g = "torn"
                /\ call' = ReadAnswer(c, g)
                => call' \in [Connections -> LiveCall] /\ SoundCalls'
<1> USE DEF LiveTyped, LiveTypeOK
<1>1. ASSUME NEW x \in LiveCall,
             x.kind \in {"idle", "start"} => x.state = "sent",
             x.kind \in {"view", "poll"} => x.run \in Jobs,
             call' = [call EXCEPT ![c] = x]
      PROVE  call' \in [Connections -> LiveCall] /\ SoundCalls'
  BY <1>1 DEF SoundCalls
<1>2. ASSUME NEW g \in Statuses \cup {"torn"},
             call[c].kind # "idle",
             \/ call[c].kind # "start"
             \/ call[c].state = "served"
             \/ g = "torn",
             call' = ReadAnswer(c, g)
      PROVE  call' \in [Connections -> LiveCall] /\ SoundCalls'
  <2>1. \A x \in LiveCall : [x EXCEPT !.state = "read"] \in LiveCall
    BY DEF LiveCall
  <2>2. \A x \in LiveCall : [x EXCEPT !.got = g] \in LiveCall
    BY DEF LiveCall
  <2>3. [call EXCEPT ![c].state = "read"] \in [Connections -> LiveCall]
    BY <2>1
  <2>4. call' \in [Connections -> LiveCall]
    BY <1>2, <2>2, <2>3 DEF ReadAnswer
  <2>5. /\ call'[c].kind = call[c].kind
        /\ call'[c].run = call[c].run
        /\ call'[c].state = "read"
        /\ call'[c].got = g
        /\ \A d \in Connections : d # c => call'[d] = call[d]
    BY <1>2 DEF ReadAnswer, LiveCall
  <2> QED
    BY <1>2, <2>4, <2>5 DEF SoundCalls
<1> QED
  BY <1>1, <1>2

\* Going to an address keeps the types.
LEMMA ShowLiveTypes ==
    ASSUME LiveTyped, NEW c \in Connections,
           NEW a \in Jobs \cup {"list", "form"},
           RouteTo(a, c)
    PROVE  /\ address' \in Jobs \cup {"list", "form"}
           /\ watched' \in OrNone
           /\ page' \in LivePage
           /\ timer' \in BOOLEAN
           /\ call' \in [Connections -> LiveCall]
           /\ SoundCalls'
<1>1. NoCall \in LiveCall /\ NoCall.kind = "idle"
  BY PlainTypes DEF NoCall, Sent
<1>0. NoCall.state = "sent"
  BY DEF NoCall, Sent
<1>2. /\ Sent("list", NoJob) \in LiveCall
      /\ Sent("list", NoJob).kind = "list"
      /\ a \in Jobs => Sent("view", a) \in LiveCall
      /\ Sent("view", a).kind = "view" /\ Sent("view", a).run = a
  BY PlainTypes DEF Sent, OrNone
<1>3. call' \in [Connections -> LiveCall] /\ SoundCalls'
  <2>1. CASE a = "form"
    BY <1>0, <1>1, <2>1, CallTypes DEF RouteTo
  <2>2. CASE a # "form"
    BY <1>2, <2>2, CallTypes DEF RouteTo
  <2> QED
    BY <2>1, <2>2
<1>4. Plain("form") \in LivePage
  BY PlainTypes
<1> QED
  BY <1>3, <1>4 DEF RouteTo, LiveTyped, LiveTypeOK, OrNone

\* Painting a run keeps the types.
LEMMA RenderTypes ==
    ASSUME NEW r \in OrNone,
           NEW s \in Statuses, Render(r, s)
    PROVE  page' \in LivePage /\ timer' \in BOOLEAN
  BY DEF Render, LivePage

\* The types are inductive together with what the calls name.
LEMMA LiveTypedHolds == LiveSpec => []LiveTyped
<1>1. LiveInit => LiveTyped
  <2> SUFFICES ASSUME LiveInit PROVE LiveTyped
    OBVIOUS
  <2>1. /\ Plain("form") \in LivePage /\ NoCall \in LiveCall
        /\ NoCall.kind = "idle" /\ NoCall.state = "sent"
    BY PlainTypes DEF NoCall, Sent
  <2> QED
    BY <2>1 DEF LiveInit, LiveTyped, LiveTypeOK, SoundCalls, Statuses,
                Threads, OrNone
<1>2. LiveTyped /\ [LiveNext]_liveVars => LiveTyped'
  <2> SUFFICES ASSUME LiveTyped, [LiveNext]_liveVars PROVE LiveTyped'
    OBVIOUS
  <2> USE DEF LiveTyped, LiveTypeOK
  <2>a. /\ NoCall \in LiveCall /\ NoCall.kind = "idle"
        /\ NoCall.state = "sent"
    BY PlainTypes DEF NoCall, Sent
  <2>b. ASSUME UNCHANGED call PROVE SoundCalls'
    BY <2>b DEF SoundCalls
  <2>1. ASSUME NEW r \in Jobs, Save(r) PROVE LiveTyped'
    BY <2>1, <2>b DEF Save, pageVars, Statuses, Threads
  <2>2. ASSUME NEW r \in Jobs, Write(r) PROVE LiveTyped'
    BY <2>2, <2>b DEF Write, pageVars, Statuses, Threads
  <2>3. CASE RunnerStops
    <3>1. \A x \in LiveCall :
             [x EXCEPT !.state = "read", !.got = "torn"] \in LiveCall
      BY DEF LiveCall
    <3>2. call' \in [Connections -> LiveCall]
      BY <2>3, <3>1 DEF RunnerStops
    <3>3. \A c \in Connections :
             \/ call'[c] = call[c]
             \/ /\ call[c].state = "served"
                /\ call'[c].kind = call[c].kind
                /\ call'[c].run = call[c].run
                /\ call'[c].state = "read" /\ call'[c].got = "torn"
      BY <2>3 DEF RunnerStops, LiveCall
    <3>4. SoundCalls'
      BY <3>3 DEF SoundCalls
    <3> QED
      BY <2>3, <3>2, <3>4 DEF RunnerStops, Threads, pageVars
  <2>4. ASSUME NEW c \in Connections, NEW a \in Jobs \cup {"list", "form"},
               Visit(a, c)
        PROVE  LiveTyped'
    BY <2>4, ShowLiveTypes DEF Visit, runnerVars
  <2>5. ASSUME NEW c \in Connections, Submit(c) PROVE LiveTyped'
    <3>1. /\ Sent("start", NoJob) \in LiveCall
          /\ Sent("start", NoJob).state = "sent"
          /\ Sent("start", NoJob).kind = "start"
      BY PlainTypes DEF Sent, OrNone
    <3> QED
      BY <2>5, <3>1, CallTypes DEF Submit, runnerVars, pageVars
  <2>6. ASSUME NEW c \in Connections, PollTick(c) PROVE LiveTyped'
    <3>1. /\ Sent("poll", watched) \in LiveCall
          /\ Sent("poll", watched).kind = "poll"
          /\ Sent("poll", watched).run = watched
      BY PlainTypes DEF Sent
    <3>2. watched \in Jobs
      BY <2>6 DEF PollTick, OrNone
    <3> QED
      BY <2>6, <3>2, <3>1, CallTypes
         DEF PollTick, runnerVars, pageVars
  <2>7. ASSUME NEW c \in Connections, ServeStart(c) PROVE LiveTyped'
    <3>1. PICK r \in Jobs :
            /\ kept' = [kept EXCEPT ![r] = "running"]
            /\ file' = [file EXCEPT ![r] = "torn"]
            /\ thread' = [thread EXCEPT ![r] = "starting"]
            /\ call' = [call EXCEPT ![c].state = "served", ![c].run = r]
      BY <2>7 DEF ServeStart
    <3>2. \A x \in LiveCall :
            [x EXCEPT !.state = "served", !.run = r] \in LiveCall
      BY DEF LiveCall, OrNone
    <3>3. /\ call' \in [Connections -> LiveCall]
          /\ call'[c].state = "served" /\ call'[c].run = r
          /\ call'[c].kind = call[c].kind
          /\ \A d \in Connections : d # c => call'[d] = call[d]
      <4>1. call' = [call EXCEPT ![c] = [@ EXCEPT !.state = "served",
                                                  !.run = r]]
        BY <3>1
      <4> QED
        BY <3>2, <4>1 DEF LiveCall
    <3>4. SoundCalls'
      BY <2>7, <3>3 DEF ServeStart, SoundCalls
    <3> QED
      BY <2>7, <3>1, <3>3, <3>4
         DEF ServeStart, Statuses, Threads, pageVars
  <2>8. ASSUME NEW c \in Connections, ServeRead(c) PROVE LiveTyped'
    <3>1. ASSUME NEW r \in Jobs
          PROVE  file[r] \in Statuses \cup {"torn"}
      OBVIOUS
    <3>2. CASE call[c].kind = "start" /\ call[c].state = "served"
                 /\ call' = ReadAnswer(c, file[call[c].run])
      <4>1. call[c].run \in Jobs
        BY <3>2 DEF SoundCalls
      <4> QED
        BY <2>8, <3>1, <3>2, <4>1, CallTypes
           DEF ServeRead, runnerVars, pageVars
    <3>3. CASE call[c].kind \in {"view", "poll"}
                 /\ call' = ReadAnswer(c, file[call[c].run])
      <4>1. call[c].run \in Jobs
        BY <3>3 DEF SoundCalls
      <4> QED
        BY <2>8, <3>1, <3>3, <4>1, CallTypes
           DEF ServeRead, runnerVars, pageVars
    <3>4. CASE call[c].kind = "list"
                 /\ call' = ReadAnswer(c,
                              IF ListFails THEN "torn" ELSE "absent")
      BY <2>8, <3>4, CallTypes
         DEF ServeRead, Statuses, runnerVars, pageVars
    <3> QED
      BY <2>8, <3>2, <3>3, <3>4 DEF ServeRead
  <2>9. ASSUME NEW c \in Connections, Unreached(c) PROVE LiveTyped'
    BY <2>9, CallTypes DEF Unreached, runnerVars, pageVars
  <2>10. ASSUME NEW c \in Connections, Resume(c) PROVE LiveTyped'
    <3>1. \/ call[c].kind = "start" /\ ContinueStart(c)
          \/ call[c].kind = "list" /\ ContinueList(c)
          \/ call[c].kind = "view" /\ ContinueView(c)
          \/ call[c].kind = "poll" /\ ContinuePoll(c)
      <4>1. call[c].kind # "idle" /\ call[c] \in LiveCall
        BY <2>10 DEF Resume, SoundCalls
      <4> QED
        BY <2>10, <4>1 DEF Resume, LiveCall
    <3>2. call' = [call EXCEPT ![c] = NoCall]
            => call' \in [Connections -> LiveCall] /\ SoundCalls'
      BY <2>a, CallTypes
    <3>3. ASSUME AskFiles(c), call[c].kind \notin {"idle", "start"}
          PROVE  call' \in [Connections -> LiveCall] /\ SoundCalls'
      <4>1. \A x \in LiveCall : [x EXCEPT !.state = "files"] \in LiveCall
        BY DEF LiveCall
      <4>2. call' \in [Connections -> LiveCall]
        BY <3>3, <4>1 DEF AskFiles
      <4>3. /\ call'[c].kind = call[c].kind /\ call'[c].run = call[c].run
            /\ \A d \in Connections : d # c => call'[d] = call[d]
        BY <3>3 DEF AskFiles, LiveCall
      <4> QED
        BY <3>3, <4>2, <4>3 DEF SoundCalls
    <3>4. /\ call[c] \in LiveCall
          /\ ~Failed(c) => call[c].got \in Statuses
      BY DEF LiveCall, Failed
    <3>5. CASE call[c].kind = "start" /\ ContinueStart(c)
      <4>1. CASE Failed(c) \/ address = call[c].run
        BY <2>10, <3>2, <3>5, <4>1
           DEF ContinueStart, Done, Resume, runnerVars,
               pageVars
      <4>2. CASE ~Failed(c) /\ address # call[c].run
        <5>1. call[c].run \in Jobs
          BY <2>10, <3>5, <4>2 DEF Resume, SoundCalls, Failed
        <5>2. RouteTo(call[c].run, c)
          BY <3>5, <4>2 DEF ContinueStart
        <5> QED
          BY <2>10, <5>1, <5>2, ShowLiveTypes
             DEF Resume, runnerVars
      <4> QED
        BY <4>1, <4>2
    <3>6. CASE call[c].kind = "list" /\ ContinueList(c)
      <4>1. /\ Plain("error") \in LivePage
            /\ Plain("list") \in LivePage
        BY PlainTypes
      <4> QED
        BY <2>10, <3>2, <3>6, <4>1
           DEF ContinueList, Done, Resume, runnerVars
    <3>7. CASE call[c].kind = "view" /\ ContinueView(c)
      <4>1. Plain("error") \in LivePage
        BY PlainTypes
      <4>2. CASE ~Failed(c) /\ Done(c)
                   /\ Render(call[c].run, call[c].got)
                   /\ UNCHANGED <<address, watched>>
        <5>1. page' \in LivePage /\ timer' \in BOOLEAN
          BY <3>4, <4>2, RenderTypes DEF LiveCall
        <5> QED
          BY <2>10, <3>2, <4>2, <5>1
             DEF Done, Resume, runnerVars
      <4> QED
        BY <2>10, <3>2, <3>3, <3>7, <4>1, <4>2
           DEF ContinueView, Done, Resume, runnerVars,
               pageVars
    <3>8. CASE call[c].kind = "poll" /\ ContinuePoll(c)
      <4>1. ASSUME Render(call[c].run, call[c].got), ~Failed(c)
            PROVE  page' \in LivePage /\ timer' \in BOOLEAN
        BY <3>4, <4>1, RenderTypes DEF LiveCall
      <4> QED
        BY <2>10, <3>2, <3>3, <3>8, <4>1
           DEF ContinuePoll, PollFailed, Done, Resume,
               runnerVars, pageVars
    <3> QED
      BY <3>1, <3>5, <3>6, <3>7, <3>8
  <2>11. CASE UNCHANGED liveVars
    BY <2>11, <2>b DEF liveVars, runnerVars, pageVars
  <2> QED
    BY <2>1, <2>2, <2>3, <2>4, <2>5, <2>6, <2>7, <2>8, <2>9, <2>10, <2>11
       DEF LiveNext, Advance
<1> QED
  BY <1>1, <1>2, PTL DEF LiveSpec

\* Every variable of the page and of the runner has its type.
THEOREM LiveTypeCorrect == LiveSpec => []LiveTypeOK
  BY LiveTypedHolds, PTL DEF LiveTyped

-----------------------------------------------------------------------------
(* LiveRun: polling.                                                       *)

\* A dashboard's address is the run that is watched, and a dashboard that
\* says LIVE is polled.
LivePolled ==
    /\ address \in Jobs => watched = address
    /\ LiveIsPolled

\* A dashboard that says LIVE is polled, or waits for its first view, however
\* its user moves and answers are late.
THEOREM LiveDashboardsArePolled == LiveSpec => []LiveIsPolled
<1>1. LiveInit => LivePolled
  BY DEF LiveInit, LivePolled, LiveIsPolled
<1>2. LiveTyped /\ LivePolled /\ [LiveNext]_liveVars => LivePolled'
  <2> SUFFICES ASSUME LiveTyped, LivePolled, [LiveNext]_liveVars
               PROVE  LivePolled'
    OBVIOUS
  <2> USE DEF LiveTyped, LiveTypeOK, LivePolled, LiveIsPolled
  <2>a. NoCall.kind = "idle"
    BY DEF NoCall, Sent
  \* What matters of the calls in flight are the first views.
  <2>1. ASSUME UNCHANGED pageVars,
               \A c \in Connections : call[c].kind = "view" =>
                  call'[c].kind = "view" /\ call'[c].run = call[c].run
        PROVE  LivePolled'
    BY <2>1 DEF pageVars
  <2>3. ASSUME NEW c \in Connections, NEW a \in Jobs \cup {"list", "form"},
               RouteTo(a, c)
        PROVE  LivePolled'
    <3>1. CASE a = "form"
      BY <3>1, <2>3 DEF RouteTo
    <3>2. CASE a = "list"
      BY <3>2, <2>3 DEF RouteTo
    <3>3. CASE a \in Jobs
      <4>1. /\ address' = a /\ watched' = a
            /\ call'[c].kind = "view" /\ call'[c].run = a
        BY <3>3, <2>3 DEF RouteTo, Sent
      <4> QED
        BY <4>1
    <3> QED
      BY <3>1, <3>2, <3>3
  <2>4. ASSUME NEW c \in Connections, Advance(c) PROVE LivePolled'
    <3>1. CASE ServeStart(c) \/ ServeRead(c) \/ Unreached(c)
      <4>1. ASSUME NEW d \in Connections
            PROVE  \/ /\ call'[d].kind = call[d].kind
                      /\ call'[d].run = call[d].run
                   \/ call[d].kind = "start"
        BY <3>1
           DEF ServeStart, ServeRead, Unreached, ReadAnswer, LiveCall
      <4> QED
        BY <2>1, <3>1, <4>1
           DEF ServeStart, ServeRead, Unreached, pageVars
    <3>2. CASE Resume(c)
      <4>1. \/ call[c].kind = "start" /\ ContinueStart(c)
            \/ call[c].kind = "list" /\ ContinueList(c)
            \/ call[c].kind = "view" /\ ContinueView(c)
            \/ call[c].kind = "poll" /\ ContinuePoll(c)
        <5>1. call[c].kind # "idle" /\ call[c] \in LiveCall
          BY <3>2 DEF Resume, SoundCalls
        <5> QED
          BY <3>2, <5>1 DEF Resume, LiveCall
      <4>2. ASSUME Done(c), call[c].kind # "view", UNCHANGED pageVars
            PROVE  LivePolled'
        BY <2>1, <4>2 DEF Done
      <4>3. ASSUME AskFiles(c), UNCHANGED pageVars PROVE LivePolled'
        <5>1. \A d \in Connections :
                 call'[d].kind = call[d].kind /\ call'[d].run = call[d].run
          BY <4>3 DEF AskFiles, LiveCall
        <5> QED
          BY <2>1, <4>3, <5>1
      <4>4. ASSUME NEW s, Render(call[c].run, s),
                   UNCHANGED <<address, watched>>
            PROVE  LivePolled'
        BY <4>4 DEF Render
      <4>5. CASE call[c].kind = "start" /\ ContinueStart(c)
        <5>1. CASE Failed(c) \/ address = call[c].run
          BY <4>2, <4>5, <5>1 DEF ContinueStart
        <5>2. CASE ~Failed(c) /\ address # call[c].run
          <6>1. call[c].run \in Jobs
            BY <3>2, <4>5, <5>2 DEF Resume, SoundCalls, Failed
          <6> QED
            BY <2>3, <4>5, <5>2, <6>1 DEF ContinueStart
        <5> QED
          BY <5>1, <5>2
      <4>6. CASE call[c].kind = "list" /\ ContinueList(c)
        BY <4>6 DEF ContinueList, Plain
      <4>7. CASE call[c].kind = "view" /\ ContinueView(c)
        BY <4>3, <4>4, <4>7 DEF ContinueView, Plain
      <4>8. CASE call[c].kind = "poll" /\ ContinuePoll(c)
        <5>1. CASE Failed(c)
          BY <4>2, <4>8, <5>1
             DEF ContinuePoll, PollFailed, pageVars, Failed
        <5>2. CASE AskFiles(c) /\ UNCHANGED pageVars
          BY <4>3, <5>2
        <5>3. CASE Render(call[c].run, call[c].got)
                     /\ UNCHANGED <<address, watched>>
          BY <4>4, <5>3
        <5>4. CASE ~Mounted /\ UNCHANGED <<page, address, watched>>
          BY <5>4 DEF Mounted
        <5> QED
          BY <4>8, <5>1, <5>2, <5>3, <5>4 DEF ContinuePoll
      <4> QED
        BY <4>1, <4>5, <4>6, <4>7, <4>8
    <3> QED
      BY <2>4, <3>1, <3>2 DEF Advance
  <2>5. CASE \E r \in Jobs : Save(r) \/ Write(r)
    BY <2>1, <2>5 DEF Save, Write
  <2>6. CASE RunnerStops
    <3>1. \A c \in Connections :
             call'[c].kind = call[c].kind /\ call'[c].run = call[c].run
      BY <2>6 DEF RunnerStops, LiveCall
    <3> QED
      BY <2>1, <2>6, <3>1 DEF RunnerStops
  <2>7. ASSUME NEW c \in Connections, Submit(c) \/ PollTick(c)
        PROVE  LivePolled'
    BY <2>1, <2>7, <2>a DEF Submit, PollTick, Free
  <2>8. CASE UNCHANGED liveVars
    BY <2>1, <2>8 DEF liveVars
  <2>9. ASSUME NEW c \in Connections, NEW a \in Jobs \cup {"list", "form"},
               Visit(a, c)
        PROVE  LivePolled'
    BY <2>3, <2>9 DEF Visit
  <2> QED
    BY <2>4, <2>5, <2>6, <2>7, <2>8, <2>9 DEF LiveNext
<1>3. LivePolled => LiveIsPolled
  BY DEF LivePolled
<1> QED
  BY <1>1, <1>2, <1>3, LiveTypedHolds, PTL DEF LiveSpec

-----------------------------------------------------------------------------
(* LiveRun: what the page shows has happened.                              *)

\* Where the thread of a run is agrees with what the run has come to.
ThreadsFollow ==
    \A r \in Jobs :
        /\ kept[r] = "absent" => thread[r] = "none"
        /\ thread[r] \in {"starting", "working"} => kept[r] = "running"
        /\ thread[r] \in {"closing", "finishing"} => kept[r] = "over"

\* A record file is what its run has come to, or torn.
FilesFollow == \A r \in Jobs : file[r] \in {kept[r], "torn"}

\* A torn record is being written, or the process stopped in the middle.
TornIsWritten ==
    \A r \in Jobs : file[r] = "torn" => Writing(r) \/ ~up

\* The end of a run that an answer carries, or that the page shows, has come.
EndsSeenHappened ==
    /\ \A c \in Connections :
          call[c].got = "over" => /\ call[c].run \in Jobs
                                  /\ kept[call[c].run] = "over"
                                  /\ call[c].state \in {"read", "files"}
    /\ page.status = "over" => page.run \in Jobs /\ kept[page.run] = "over"

Followed == ThreadsFollow /\ FilesFollow /\ TornIsWritten

\* What the thread of a run, the runner and the POST do.
LEMMA RunnerSteps ==
    ASSUME LiveTyped, [LiveNext]_liveVars
    PROVE  \/ UNCHANGED runnerVars
           \/ \E r \in Jobs : Save(r) \/ Write(r)
           \/ RunnerStops
           \/ \E c \in Connections : ServeStart(c)
  BY DEF LiveNext, liveVars, Advance, Visit, Submit,
         PollTick, ServeRead, Unreached, Resume

\* Threads and files follow what their runs have come to, and a run that is
\* over stays over.
LEMMA RunnerKeeps ==
    ASSUME LiveTyped, Followed, [LiveNext]_liveVars
    PROVE  /\ Followed'
           /\ \A r \in Jobs : kept[r] = "over" => kept'[r] = "over"
<1> USE DEF LiveTyped, LiveTypeOK, Followed, ThreadsFollow, FilesFollow,
            TornIsWritten,
            Writing
<1>1. CASE UNCHANGED runnerVars
  BY <1>1 DEF runnerVars
<1>2. ASSUME NEW r \in Jobs, Save(r)
      PROVE  /\ Followed'
             /\ \A q \in Jobs : kept[q] = "over" => kept'[q] = "over"
  BY <1>2 DEF Save
<1>3. ASSUME NEW r \in Jobs, Write(r)
      PROVE  /\ Followed'
             /\ \A q \in Jobs : kept[q] = "over" => kept'[q] = "over"
  <2>1. kept[r] \in {"running", "over"}
    BY <1>3 DEF Write, Statuses
  <2>2. /\ kept' = kept /\ up' = up
        /\ file' = [file EXCEPT ![r] = kept[r]]
        /\ thread' = [thread EXCEPT ![r] =
                        IF @ = "finishing" THEN "none"
                        ELSE IF kept[r] = "running" THEN "working"
                        ELSE "closing"]
    BY <1>3 DEF Write
  <2>3. thread'[r] \in {"none", "working", "closing"}
        /\ (thread'[r] = "working" <=> kept[r] = "running")
    BY <1>3, <2>1, <2>2 DEF Write
  <2>4. file'[r] = kept[r] /\ kept[r] # "torn"
    BY <2>1, <2>2
  <2>5. \A q \in Jobs :
           q # r => file'[q] = file[q] /\ thread'[q] = thread[q]
    BY <2>2
  <2> QED
    BY <2>1, <2>2, <2>3, <2>4, <2>5
<1>4. CASE RunnerStops
  BY <1>4 DEF RunnerStops
<1>5. ASSUME NEW c \in Connections, ServeStart(c)
      PROVE  /\ Followed'
             /\ \A q \in Jobs : kept[q] = "over" => kept'[q] = "over"
  BY <1>5 DEF ServeStart
<1> QED
  BY <1>1, <1>2, <1>3, <1>4, <1>5, RunnerSteps

\* The file of a run follows its thread.
LEMMA FollowedHolds == LiveSpec => []Followed
<1>1. LiveInit => Followed
  BY DEF LiveInit, Followed, ThreadsFollow, FilesFollow, TornIsWritten
<1>2. LiveTyped /\ Followed /\ [LiveNext]_liveVars => Followed'
  BY RunnerKeeps
<1> QED
  BY <1>1, <1>2, LiveTypedHolds, PTL DEF LiveSpec

\* A run that is over is never running again, nor forgotten, while the runner
\* is up or after it stopped.
OverStays ==
    [][\A r \in Jobs : kept[r] = "over" => kept'[r] = "over"]_liveVars

\* No save of the runner, nor its end, takes the end of a run back.
THEOREM EndsStay == LiveSpec => OverStays
<1>1. LiveTyped /\ Followed /\ [LiveNext]_liveVars =>
        [\A r \in Jobs : kept[r] = "over" => kept'[r] = "over"]_liveVars
  BY RunnerKeeps
<1> QED
  BY <1>1, LiveTypedHolds, FollowedHolds, PTL DEF LiveSpec, OverStays

\* A record that cannot be read is being written by its thread, or the runner
\* has stopped; any other says what its run has come to.
RecordsAreSound ==
    \A r \in Jobs :
        \/ file[r] = kept[r]
        \/ file[r] = "torn" /\ (Writing(r) \/ ~up)

\* A reader of a record that can be read is told the truth (_save and
\* _load in offline_runner.py).
THEOREM RecordsFollowRuns == LiveSpec => []RecordsAreSound
<1>1. Followed => RecordsAreSound
  BY DEF Followed, FilesFollow, TornIsWritten, RecordsAreSound
<1> QED
  BY <1>1, FollowedHolds, PTL

-----------------------------------------------------------------------------
\* What an answer says is read from the file of the run it is about.
LEMMA AnswersAreRead ==
    ASSUME LiveTyped, Followed, EndsSeenHappened,
           [LiveNext]_liveVars,
           NEW c \in Connections, call'[c].got = "over"
    PROVE  /\ call'[c].run \in Jobs /\ kept'[call'[c].run] = "over"
           /\ call'[c].state \in {"read", "files"}
<1> DEFINE ReadThere ==
      /\ call'[c].run \in Jobs /\ kept'[call'[c].run] = "over"
      /\ call'[c].state \in {"read", "files"}
<1> USE DEF LiveTyped, LiveTypeOK, EndsSeenHappened
<1>0. ASSUME call[c].got = "over", call'[c].run = call[c].run,
             call'[c].state \in {call[c].state, "read", "files"}
      PROVE  ReadThere
  BY <1>0, RunnerKeeps
<1>a. NoCall.got # "over" /\ \A k, r : Sent(k, r).got # "over"
  BY DEF NoCall, Sent
<1>1. CASE UNCHANGED call
  BY <1>0, <1>1
<1>2. CASE RunnerStops
  <2>1. \/ call'[c] = call[c]
        \/ call'[c].got = "torn"
    BY <1>2 DEF RunnerStops, LiveCall
  <2> QED
    BY <1>0, <2>1
<1>3. ASSUME NEW d \in Connections, NEW k, NEW r,
             call' = [call EXCEPT ![d] = Sent(k, r)]
      PROVE  ReadThere
  BY <1>0, <1>3, <1>a
<1>4. ASSUME NEW d \in Connections, call' = [call EXCEPT ![d] = NoCall]
      PROVE  ReadThere
  BY <1>0, <1>4, <1>a
<1>5. ASSUME NEW d \in Connections, NEW a, RouteTo(a, d)
      PROVE  ReadThere
  BY <1>3, <1>4, <1>5 DEF RouteTo
<1>6. ASSUME NEW d \in Connections, NEW g, call' = ReadAnswer(d, g),
             g = "over" => /\ call[d].run \in Jobs
                           /\ kept'[call[d].run] = "over"
      PROVE  ReadThere
  <2>1. /\ call'[c].run = call[c].run
        /\ \/ call'[c].got = g /\ c = d /\ call'[c].state = "read"
           \/ call'[c] = call[c]
    BY <1>6 DEF ReadAnswer, LiveCall
  <2> QED
    BY <1>0, <1>6, <2>1
<1>7. ASSUME NEW d \in Connections, ServeStart(d)
      PROVE  ReadThere
  <2>1. call[d].got # "over"
    BY <1>7 DEF ServeStart
  <2>2. /\ call'[c].got = call[c].got
        /\ c # d => call'[c] = call[c]
    BY <1>7 DEF ServeStart, LiveCall
  <2> QED
    BY <1>0, <2>1, <2>2
<1>8. ASSUME NEW d \in Connections, ServeRead(d)
      PROVE  ReadThere
  <2>1. UNCHANGED runnerVars
    BY <1>8 DEF ServeRead
  <2>2. ASSUME call' = ReadAnswer(d, file[call[d].run]),
               call[d].run \in Jobs
        PROVE  ReadThere
    BY <1>6, <2>1, <2>2 DEF Followed, FilesFollow, runnerVars
  <2>3. CASE call' = ReadAnswer(d,
                              IF ListFails THEN "torn" ELSE "absent")
    BY <1>6, <2>3
  <2> QED
    BY <1>8, <2>2, <2>3 DEF ServeRead, SoundCalls
<1>9. ASSUME NEW d \in Connections, Unreached(d)
      PROVE  ReadThere
  BY <1>6, <1>9 DEF Unreached
<1>10. ASSUME NEW d \in Connections, AskFiles(d)
       PROVE  ReadThere
  <2>1. /\ call'[c].run = call[c].run /\ call'[c].got = call[c].got
        /\ call'[c].state \in {call[c].state, "files"}
    BY <1>10 DEF AskFiles, LiveCall
  <2> QED
    BY <1>0, <2>1
<1>11. ASSUME NEW d \in Connections, Resume(d)
       PROVE  ReadThere
  <2>1. \/ Done(d) \/ AskFiles(d) \/ RouteTo(call[d].run, d)
    <3>1. call[d].kind # "idle" /\ call[d] \in LiveCall
      BY <1>11 DEF Resume, SoundCalls
    <3>2. \/ ContinueStart(d) \/ ContinueList(d)
          \/ ContinueView(d) \/ ContinuePoll(d)
      BY <1>11, <3>1 DEF Resume, LiveCall
    <3> QED
      BY <3>2
         DEF ContinueStart, ContinueList, ContinueView,
             ContinuePoll
  <2> QED
    BY <1>4, <1>5, <1>10, <2>1 DEF Done
<1> QED
  BY <1>1, <1>2, <1>3, <1>5, <1>7, <1>8, <1>9, <1>11
     DEF LiveNext, liveVars, Save, Write, Visit, Submit,
         PollTick, Advance

\* What is painted of a run is what an answer says.
LEMMA PaintedIsAnswered ==
    ASSUME LiveTyped, [LiveNext]_liveVars,
           page'.status = "over"
    PROVE  \/ page' = page
           \/ \E c \in Connections :
                 page'.run = call[c].run /\ call[c].got = "over"
<1>1. \A k : Plain(k).status # "over"
  BY DEF Plain
<1>2. ASSUME NEW c \in Connections, NEW a, RouteTo(a, c) PROVE page' = page
  BY <1>1, <1>2 DEF RouteTo
<1>3. ASSUME NEW c \in Connections, Resume(c)
      PROVE  \/ page' = page
             \/ page'.run = call[c].run /\ call[c].got = "over"
  <2>1. ASSUME Render(call[c].run, call[c].got)
        PROVE  page'.run = call[c].run /\ call[c].got = "over"
    BY <2>1 DEF Render
  <2>2. \/ ContinueStart(c) \/ ContinueList(c)
        \/ ContinueView(c) \/ ContinuePoll(c)
    <3>1. call[c].kind # "idle" /\ call[c] \in LiveCall
      BY <1>3 DEF Resume, SoundCalls, LiveTyped, LiveTypeOK
    <3> QED
      BY <1>3, <3>1 DEF Resume, LiveCall
  <2> QED
    BY <1>1, <1>2, <2>1, <2>2
       DEF ContinueStart, ContinueList, ContinueView,
           ContinuePoll, pageVars
<1> QED
  BY <1>1, <1>2, <1>3
     DEF LiveNext, liveVars, pageVars, Save, Write,
         RunnerStops, Visit, Submit, PollTick,
         Advance, ServeStart, ServeRead, Unreached

\* No answer, however late, and no page shows an end that has not come.
THEOREM ShownEndsHappened == LiveSpec => []ShownEndHappened
<1>1. LiveInit => EndsSeenHappened
  BY DEF LiveInit, EndsSeenHappened, NoCall, Sent, Plain
<1>2. LiveTyped /\ Followed /\ EndsSeenHappened /\ [LiveNext]_liveVars
        => EndsSeenHappened'
  <2> SUFFICES ASSUME LiveTyped, Followed, EndsSeenHappened,
                      [LiveNext]_liveVars
               PROVE  EndsSeenHappened'
    OBVIOUS
  <2>1. ASSUME page'.status = "over"
        PROVE  page'.run \in Jobs /\ kept'[page'.run] = "over"
    BY <2>1, PaintedIsAnswered, RunnerKeeps DEF EndsSeenHappened
  <2> QED
    BY <2>1, AnswersAreRead DEF EndsSeenHappened
<1>3. EndsSeenHappened => ShownEndHappened
  BY DEF EndsSeenHappened, ShownEndHappened, ShowsEnd
<1> QED
  BY <1>1, <1>2, <1>3, LiveTypedHolds, FollowedHolds, PTL DEF LiveSpec
=============================================================================
