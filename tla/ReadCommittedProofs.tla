------------------------ MODULE ReadCommittedProofs ------------------------
(***************************************************************************)
(* Proofs about ReadCommitted for any number of threads and rows: what     *)
(* survives when handlers overtake each other between a read and a commit. *)
(***************************************************************************)
EXTENDS ReadCommitted, Integers, TLAPS

-----------------------------------------------------------------------------
(* Types.                                                                  *)

\* The operation of a handler tells what it has read.
LEMMA TxKinds ==
    ASSUME NEW x \in Tx
    PROVE  /\ x.op = "patch" => x \in PatchTx
           /\ x.op = "crp" => x \in CrpTx
           /\ x.op = "vcr" => x \in VcrTx
           /\ x.op = "mrp" => x \in MrpTx
           /\ x.op = "gate" => x \in GateTx
  BY DEF Tx, PatchTx, CrpTx, VcrTx, MrpTx, GateTx

\* What each handler keeps of what it read has the type of its operation.
LEMMA ReadTypes ==
    /\ Idle \in Tx
    /\ \A r \in Runs, ld \in RunStatuses, st \in RunStatuses \cup {None} :
          [op |-> "patch", run |-> r, loaded |-> ld, status |-> st] \in Tx
    /\ \A d \in Domains, c \in Crps, sev \in Severities, r \in Runs \cup {None} :
          [op |-> "crp", domain |-> d, crp |-> c, severity |-> sev, run |-> r] \in Tx
    /\ \A c \in Crps, res \in Resolutions, P \in SUBSET (Mrps \X SUBSET Crps) :
          [op |-> "vcr", crp |-> c, resolution |-> res, packs |-> P] \in Tx
    /\ \A m \in Mrps, S \in SUBSET Crps :
          [op |-> "mrp", mrp |-> m, open |-> S] \in Tx
    /\ \A m \in Mrps, ld \in MrpStatuses, st \in MrpStatuses :
          [op |-> "gate", mrp |-> m, loaded |-> ld, status |-> st] \in Tx
  BY DEF Tx, PatchTx, CrpTx, VcrTx, MrpTx, GateTx, Idle

\* A reading handler changes its own thread and no row.
LEMMA ReadStep ==
    ASSUME TypeOK, NEW t \in Threads, Read(t)
    PROVE  /\ tx[t] = Idle
           /\ tx'[t] \in Tx
           /\ tx' = [tx EXCEPT ![t] = tx'[t]]
           /\ UNCHANGED <<runs, counters, crps, vcrs, mrps>>
<1> USE DEF TypeOK
<1>a. ASSUME NEW x \in Tx, Begin(t, x)
      PROVE  /\ tx[t] = Idle
             /\ tx'[t] \in Tx
             /\ tx' = [tx EXCEPT ![t] = tx'[t]]
             /\ UNCHANGED <<runs, counters, crps, vcrs, mrps>>
  BY <1>a DEF Begin
<1>1. ASSUME NEW r \in Runs, NEW st \in RunStatuses \cup {None},
             PatchRead(t, r, st)
      PROVE  \E x \in Tx : Begin(t, x)
  <2>1. runs[r].status \in RunStatuses
    BY <1>1 DEF PatchRead, Run
  <2> QED
    BY <1>1, <2>1, ReadTypes DEF PatchRead
<1>2. ASSUME NEW d \in Domains, NEW sev \in Severities,
             NEW r \in Runs \cup {None}, CreateCrpRead(t, d, sev, r)
      PROVE  \E x \in Tx : Begin(t, x)
  <2>1. NextCrp(d) \in Crps
    BY <1>2, ThreadAssumption DEF CreateCrpRead, NextCrp, Crps
  <2> QED
    BY <1>2, <2>1, ReadTypes DEF CreateCrpRead
<1>3. ASSUME NEW c \in Crps, NEW res \in Resolutions, CreateVcrRead(t, c, res)
      PROVE  \E x \in Tx : Begin(t, x)
  <2>1. \A m \in Mrps : mrps[m].openCrps \in SUBSET Crps
    BY DEF Mrp
  <2>2. Detached(c) \in SUBSET (Mrps \X SUBSET Crps)
    BY <2>1 DEF Detached
  <2> QED
    BY <1>3, <2>2, ReadTypes DEF CreateVcrRead
<1>4. ASSUME NEW m \in Mrps, CreateMrpRead(t, m)
      PROVE  \E x \in Tx : Begin(t, x)
  <2>1. UnresolvedCrps \in SUBSET Crps
    BY DEF UnresolvedCrps
  <2> QED
    BY <1>4, <2>1, ReadTypes DEF CreateMrpRead
<1>5. ASSUME NEW m \in Mrps, NEW checks \in BOOLEAN, CheckReadyRead(t, m, checks)
      PROVE  \E x \in Tx : Begin(t, x)
  <2>1. mrps[m].status \in MrpStatuses
    BY <1>5 DEF CheckReadyRead, Mrp
  <2>2. "ready_for_human_review" \in MrpStatuses /\ "needs_revision" \in MrpStatuses
    BY DEF MrpStatuses, Decisions
  <2> QED
    BY <1>5, <2>1, <2>2, ReadTypes DEF CheckReadyRead
<1>6. ASSUME NEW m \in Mrps, NEW d \in Decisions, NEW checks \in BOOLEAN,
             HumanDecisionRead(t, m, d, checks)
      PROVE  \E x \in Tx : Begin(t, x)
  <2>1. mrps[m].status \in MrpStatuses
    BY <1>6 DEF HumanDecisionRead, Mrp
  <2>2. d \in MrpStatuses
    BY DEF MrpStatuses
  <2> QED
    BY <1>6, <2>1, <2>2, ReadTypes DEF HumanDecisionRead
<1> QED
  BY <1>a, <1>1, <1>2, <1>3, <1>4, <1>5, <1>6 DEF Read

\* What a handler has read tells which handler it is.
LEMMA ReadKinds ==
    ASSUME TypeOK, NEW t \in Threads, Read(t)
    PROVE  /\ tx'[t].op = "patch" =>
                \E r \in Runs, st \in RunStatuses \cup {None} : PatchRead(t, r, st)
           /\ tx'[t].op = "crp" =>
                \E d \in Domains, sev \in Severities, r \in Runs \cup {None} :
                   CreateCrpRead(t, d, sev, r)
           /\ tx'[t].op = "vcr" =>
                \E c \in Crps, res \in Resolutions : CreateVcrRead(t, c, res)
  BY DEF Read, PatchRead, CreateCrpRead, CreateVcrRead, CreateMrpRead,
         CheckReadyRead, HumanDecisionRead, Begin, TypeOK

\* A row of agent_runs after a PATCH: it is the same, or terminal, and no
\* status other than a terminal one comes in.
LEMMA PatchedColumns ==
    ASSUME NEW x \in Run, NEW p \in PatchTx
    PROVE  /\ PatchedRun(x, p) \in Run
           /\ p.status = None \/ p.loaded = "running"
                => PatchedRun(x, p).status \in {x.status} \cup TerminalStatuses
  BY DEF PatchedRun, Flushed, PatchTx, Run, RunStatuses, TerminalStatuses

\* A CRP that is being created has the next number of its spelling, and no
\* other handler holds the counter.
Reserved ==
    /\ \A t \in Threads : tx[t].op = "crp" =>
         tx[t].crp = NextCrp(tx[t].domain) /\ counters[tx[t].domain] < MaxSeq
    /\ \A t, u \in Threads :
         /\ tx[t].op = "crp"
         /\ tx[u].op = "crp"
         /\ tx[t].domain = tx[u].domain
         => t = u

\* A handler that takes no number and writes none leaves the reservations.
LEMMA ReservedStays ==
    ASSUME TypeOK, Reserved, NEW t \in Threads, counters' = counters,
           tx' = [tx EXCEPT ![t] = tx'[t]], tx'[t].op # "crp"
    PROVE  Reserved'
  BY DEF TypeOK, Reserved, NextCrp

\* Every step keeps the reservations: one handler holds the counter row.
LEMMA ReservedStep == TypeOK /\ Reserved /\ [Next]_vars => Reserved'
<1> SUFFICES ASSUME TypeOK, Reserved, [Next]_vars PROVE Reserved'
  OBVIOUS
<1> USE DEF TypeOK
<1>1. ASSUME NEW r \in Runs, StartAgentRun(r) PROVE Reserved'
  BY <1>1 DEF StartAgentRun, Reserved, NextCrp
<1>2. ASSUME NEW t \in Threads, NEW d \in Domains, NEW sev \in Severities,
             NEW r \in Runs \cup {None}, CreateCrpRead(t, d, sev, r)
      PROVE  Reserved'
  <2>1. /\ tx'[t].op = "crp" /\ tx'[t].domain = d /\ tx'[t].crp = NextCrp(d)
        /\ \A u \in Threads \ {t} : tx'[u] = tx[u]
        /\ counters' = counters
        /\ counters[d] < MaxSeq
    BY <1>2 DEF CreateCrpRead, Begin
  <2>2. \A u \in Threads : tx[u].op = "crp" => tx[u].domain # d
    BY <1>2 DEF CreateCrpRead, CounterLocked
  <2> QED
    BY <2>1, <2>2 DEF Reserved, NextCrp
<1>3. ASSUME NEW t \in Threads, Read(t), tx'[t].op # "crp" PROVE Reserved'
  BY <1>3, ReadStep, ReservedStays
<1>5. ASSUME NEW t \in Threads, End(t)
      PROVE  tx'[t].op # "crp" /\ tx' = [tx EXCEPT ![t] = tx'[t]]
  BY <1>5 DEF End, Idle
<1>6. ASSUME NEW t \in Threads, Commit(t), ~CreateCrpCommit(t) PROVE Reserved'
  BY <1>5, <1>6, ReservedStays
     DEF Commit, PatchCommit, CreateCrpFails, CreateVcrCommit, CreateVcrFails,
         CreateMrpCommit, CreateMrpFails, StatusCommit
<1>7. ASSUME NEW t \in Threads, CreateCrpCommit(t) PROVE Reserved'
  <2>1. tx'[t].op # "crp" /\ \A u \in Threads \ {t} : tx'[u] = tx[u]
    BY <1>7 DEF CreateCrpCommit, End, Idle
  <2>2. \A d \in Domains \ {tx[t].domain} : counters'[d] = counters[d]
    BY <1>7 DEF CreateCrpCommit
  <2>3. \A u \in Threads : tx'[u].op = "crp" =>
           tx'[u].domain \in Domains \ {tx[t].domain}
    BY <1>7, <2>1, TxKinds DEF CreateCrpCommit, Reserved, CrpTx
  <2> QED
    BY <2>1, <2>2, <2>3 DEF Reserved, NextCrp
<1>8. CASE UNCHANGED vars
  BY <1>8 DEF vars, Reserved, NextCrp
<1> QED
  BY <1>1, <1>2, <1>3, <1>6, <1>7, <1>8, ReadKinds DEF Next

\* Every variable has its type, and numbers are reserved.
THEOREM TypeCorrect == Spec => [](TypeOK /\ Reserved)
<1>1. Init => TypeOK /\ Reserved
  <2> SUFFICES ASSUME Init PROVE TypeOK /\ Reserved
    OBVIOUS
  <2>1. runs \in [Runs -> Run]
    BY DEF Init, Run, RunStatuses
  <2>2. counters \in [Domains -> 0 .. MaxSeq]
    BY ThreadAssumption DEF Init
  <2>3. crps \in [Crps -> Crp] /\ mrps \in [Mrps -> Mrp]
    BY DEF Init, Crp, Mrp, Severities
  <2>4. vcrs \in [Crps -> Resolutions \cup {None}]
    BY DEF Init
  <2>5. tx \in [Threads -> Tx] /\ \A t \in Threads : tx[t].op # "crp"
    BY ReadTypes DEF Init, Idle
  <2> QED
    BY <2>1, <2>2, <2>3, <2>4, <2>5 DEF TypeOK, Reserved
<1>2. TypeOK /\ Reserved /\ [Next]_vars => TypeOK'
  <2> SUFFICES ASSUME TypeOK, Reserved, [Next]_vars PROVE TypeOK'
    OBVIOUS
  <2> USE DEF TypeOK
  <2>1. ASSUME NEW r \in Runs, StartAgentRun(r) PROVE TypeOK'
    BY <2>1 DEF StartAgentRun, Run, RunStatuses
  <2>2. ASSUME NEW t \in Threads, Read(t) PROVE TypeOK'
    BY <2>2, ReadStep
  <2>3. ASSUME NEW t \in Threads, End(t) PROVE tx' \in [Threads -> Tx]
    BY <2>3, ReadTypes DEF End
  <2>4. ASSUME NEW t \in Threads, PatchCommit(t) PROVE TypeOK'
    <3>1. tx[t] \in PatchTx
      BY <2>4, TxKinds DEF PatchCommit
    <3>2. runs' \in [Runs -> Run]
      BY <2>4, <3>1, PatchedColumns DEF PatchCommit, PatchTx
    <3> QED
      BY <2>3, <2>4, <3>2 DEF PatchCommit
  <2>5. ASSUME NEW t \in Threads, CreateCrpCommit(t) PROVE TypeOK'
    <3>1. tx[t] \in CrpTx
      BY <2>5, TxKinds DEF CreateCrpCommit
    <3>2. crps' \in [Crps -> Crp]
      BY <2>5, <3>1 DEF CreateCrpCommit, CrpTx, Crp
    <3>3. runs' \in [Runs -> Run]
      BY <2>5, <3>1 DEF CreateCrpCommit, CrpTx, Run, RunStatuses
    <3>4. counters' \in [Domains -> 0 .. MaxSeq]
      <4>1. /\ tx[t].domain \in Domains
            /\ counters[tx[t].domain] < MaxSeq
            /\ counters' = [counters EXCEPT ![tx[t].domain] = @ + 1]
        BY <2>5, <3>1 DEF CreateCrpCommit, Reserved, CrpTx
      <4>2. counters[tx[t].domain] + 1 \in 0 .. MaxSeq
        BY <4>1, ThreadAssumption
      <4> QED
        BY <4>1, <4>2
    <3> QED
      BY <2>3, <2>5, <3>2, <3>3, <3>4 DEF CreateCrpCommit
  <2>6. ASSUME NEW t \in Threads, CreateCrpFails(t) PROVE TypeOK'
    BY <2>3, <2>6 DEF CreateCrpFails
  <2>7. ASSUME NEW t \in Threads, CreateVcrCommit(t) PROVE TypeOK'
    <3>1. tx[t] \in VcrTx
      BY <2>7, TxKinds DEF CreateVcrCommit
    <3>2. vcrs' \in [Crps -> Resolutions \cup {None}]
      BY <2>7, <3>1 DEF CreateVcrCommit, VcrTx
    <3>3. crps' \in [Crps -> Crp]
      BY <2>7, <3>1 DEF CreateVcrCommit, VcrTx, Crp
    <3>4. mrps' \in [Mrps -> Mrp]
      BY <2>7 DEF CreateVcrCommit, Mrp
    <3> QED
      BY <2>3, <2>7, <3>2, <3>3, <3>4 DEF CreateVcrCommit
  <2>8. ASSUME NEW t \in Threads, CreateVcrFails(t) \/ CreateMrpFails(t) PROVE TypeOK'
    BY <2>3, <2>8 DEF CreateVcrFails, CreateMrpFails
  <2>9. ASSUME NEW t \in Threads, CreateMrpCommit(t) PROVE TypeOK'
    <3>1. tx[t] \in MrpTx
      BY <2>9, TxKinds DEF CreateMrpCommit
    <3>2. mrps' \in [Mrps -> Mrp]
      BY <2>9, <3>1 DEF CreateMrpCommit, MrpTx, Mrp, MrpStatuses
    <3> QED
      BY <2>3, <2>9, <3>2 DEF CreateMrpCommit
  <2>10. ASSUME NEW t \in Threads, StatusCommit(t) PROVE TypeOK'
    <3>1. tx[t] \in GateTx
      BY <2>10, TxKinds DEF StatusCommit
    <3>2. mrps' \in [Mrps -> Mrp]
      BY <2>10, <3>1 DEF StatusCommit, GateTx, Mrp, Flushed
    <3> QED
      BY <2>3, <2>10, <3>2 DEF StatusCommit
  <2>11. CASE UNCHANGED vars
    BY <2>11 DEF vars
  <2> QED
    BY <2>1, <2>2, <2>4, <2>5, <2>6, <2>7, <2>8, <2>9, <2>10, <2>11 DEF Next, Commit
<1> QED
  BY <1>1, <1>2, ReservedStep, PTL DEF Spec
-----------------------------------------------------------------------------
(* CRPs, their numbers and their resolutions.                              *)

\* A step is a read, a commit of a CRP or a VCR, or leaves the counters and
\* the two tables alone.
LEMMA CrpSteps ==
    ASSUME [Next]_vars
    PROVE  \/ UNCHANGED <<counters, crps, vcrs>>
           \/ \E t \in Threads : CreateCrpCommit(t) \/ CreateVcrCommit(t)
  BY DEF Next, vars, StartAgentRun, Read, PatchRead, CreateCrpRead,
         CreateVcrRead, CreateMrpRead, CheckReadyRead, HumanDecisionRead, Begin,
         Commit, PatchCommit, CreateCrpFails, CreateVcrFails, CreateMrpCommit,
         CreateMrpFails, StatusCommit

\* A step has a thread read, or end, or leaves all threads alone.
LEMMA ThreadSteps ==
    ASSUME [Next]_vars
    PROVE  \/ UNCHANGED tx
           \/ \E t \in Threads : Read(t) \/ End(t)
  BY DEF Next, vars, StartAgentRun, Commit, PatchCommit, CreateCrpCommit,
         CreateCrpFails, CreateVcrCommit, CreateVcrFails, CreateMrpCommit,
         CreateMrpFails, StatusCommit

\* A CRP that exists keeps its severity and run, and is at most resolved.
LEMMA CrpsStay ==
    ASSUME TypeOK, [Next]_vars, NEW c \in Crps, crps[c].status # "absent"
    PROVE  /\ crps'[c].severity = crps[c].severity
           /\ crps'[c].run = crps[c].run
           /\ crps'[c].status \in {crps[c].status, "resolved"}
<1> USE DEF TypeOK
<1>1. ASSUME NEW t \in Threads, CreateCrpCommit(t) PROVE crps'[c] = crps[c]
  BY <1>1 DEF CreateCrpCommit, CrpKeyIsFree
<1>2. ASSUME NEW t \in Threads, CreateVcrCommit(t)
      PROVE  /\ crps'[c].severity = crps[c].severity
             /\ crps'[c].run = crps[c].run
             /\ crps'[c].status \in {crps[c].status, "resolved"}
  BY <1>2 DEF CreateVcrCommit, Crp
<1> QED
  BY <1>1, <1>2, CrpSteps

\* A resolution in progress is about a CRP that exists.
Asked ==
    \A t \in Threads : tx[t].op = "vcr" => crps[tx[t].crp].status # "absent"

\* A CRP exists when a spelling of its domain has come to its number.
Numbered ==
    \A c \in Crps : crps[c].status # "absent" <=>
        \E d \in Domains : Upper[d] = c[1] /\ counters[d] >= c[2]

\* No CRP disappears under a resolution in progress.
LEMMA AskedHolds == Spec => []Asked
<1>1. Init => Asked
  BY DEF Init, Asked, Idle
<1>2. TypeOK /\ Asked /\ [Next]_vars => Asked'
  <2> SUFFICES ASSUME TypeOK, Asked, [Next]_vars,
                      NEW t \in Threads, tx'[t].op = "vcr"
               PROVE  crps'[tx'[t].crp].status # "absent"
    BY DEF Asked
  <2> USE DEF TypeOK
  <2>1. CASE tx'[t] = tx[t]
    <3>1. tx[t].crp \in Crps /\ crps[tx[t].crp].status # "absent"
      BY <2>1, TxKinds DEF Asked, VcrTx
    <3> QED
      BY <2>1, <3>1, CrpsStay
  <2>2. CASE Read(t)
    BY <2>2, ReadKinds DEF CreateVcrRead, Begin
  <2>3. tx'[t] = tx[t] \/ Read(t)
    BY ThreadSteps, ReadStep DEF End, Idle
  <2> QED
    BY <2>1, <2>2, <2>3
<1> QED
  BY <1>1, <1>2, TypeCorrect, PTL DEF Spec

\* The counters number the CRPs.
LEMMA NumberedHolds == Spec => []Numbered
<1>1. Init => Numbered
  <2> SUFFICES ASSUME Init, NEW c \in Crps PROVE
        /\ crps[c].status = "absent"
        /\ \A d \in Domains : ~(counters[d] >= c[2])
    BY DEF Numbered
  <2>1. c[2] \in 1 .. MaxSeq
    BY DEF Crps
  <2> QED
    BY <2>1, ThreadAssumption DEF Init
<1>2. TypeOK /\ Reserved /\ Asked /\ Numbered /\ [Next]_vars => Numbered'
  <2> SUFFICES ASSUME TypeOK, Reserved, Asked, Numbered, [Next]_vars PROVE Numbered'
    OBVIOUS
  <2> USE DEF TypeOK
  <2>1. ASSUME NEW t \in Threads, CreateVcrCommit(t) PROVE Numbered'
    <3>1. \A c \in Crps : crps'[c].status = "absent" <=> crps[c].status = "absent"
      BY <2>1 DEF CreateVcrCommit, Asked, Crp
    <3>2. counters' = counters
      BY <2>1 DEF CreateVcrCommit
    <3> QED
      BY <3>1, <3>2 DEF Numbered
  <2>2. ASSUME NEW t \in Threads, CreateCrpCommit(t) PROVE Numbered'
    <3> DEFINE e == tx[t].domain
               n == counters[e] + 1
    <3>1. e \in Domains /\ tx[t].crp = <<Upper[e], n>>
      BY <2>2, TxKinds DEF CreateCrpCommit, CrpTx, Reserved, NextCrp
    <3>2. counters[e] \in Int /\ counters' = [counters EXCEPT ![e] = n]
      BY <2>2, <3>1, ThreadAssumption DEF CreateCrpCommit
    <3>3. SUFFICES ASSUME NEW c \in Crps
                   PROVE  crps'[c].status # "absent" <=>
                            \E d \in Domains :
                               Upper[d] = c[1] /\ counters'[d] >= c[2]
      BY DEF Numbered
    <3>4. c = <<c[1], c[2]>> /\ c[2] \in Int
      BY DEF Crps
    <3>5. crps'[c].status # "absent" <=>
             crps[c].status # "absent" \/ c = <<Upper[e], n>>
      BY <2>2, <3>1 DEF CreateCrpCommit
    <3>6. \A d \in Domains \ {e} : counters'[d] = counters[d]
      BY <3>2
    <3>7. counters'[e] = n
      BY <3>1, <3>2
    <3>8. n >= c[2] <=> counters[e] >= c[2] \/ c[2] = n
      BY <3>2, <3>4
    <3>9. c = <<Upper[e], n>> <=> c[1] = Upper[e] /\ c[2] = n
      BY <3>4
    <3>10. (\E d \in Domains : Upper[d] = c[1] /\ counters'[d] >= c[2])
             <=> \/ \E d \in Domains : Upper[d] = c[1] /\ counters[d] >= c[2]
                 \/ c[1] = Upper[e] /\ c[2] = n
      BY <3>1, <3>6, <3>7, <3>8
    <3> QED
      BY <3>5, <3>9, <3>10 DEF Numbered
  <2>3. CASE UNCHANGED <<counters, crps, vcrs>>
    BY <2>3 DEF Numbered
  <2> QED
    BY <2>1, <2>2, <2>3, CrpSteps
<1> QED
  BY <1>1, <1>2, TypeCorrect, AskedHolds, PTL DEF Spec

\* The insert of a CRP collides only with one of another spelling: the lock
\* on the counter row makes the numbers of one spelling unique.
THEOREM CollisionsAreSpellings == Spec => []CollisionIsSpelling
<1>1. TypeOK /\ Reserved /\ Numbered => CollisionIsSpelling
  <2> SUFFICES ASSUME TypeOK, Reserved, Numbered, NEW t \in Threads,
                      tx[t].op = "crp", ~CrpKeyIsFree(tx[t].crp)
               PROVE  \E d \in Domains :
                         /\ d # tx[t].domain
                         /\ Upper[d] = Upper[tx[t].domain]
                         /\ counters[d] >= tx[t].crp[2]
    BY DEF CollisionIsSpelling
  <2>1. tx[t].domain \in Domains /\ tx[t].crp \in Crps
    BY TxKinds DEF TypeOK, CrpTx
  <2>2. tx[t].crp = <<Upper[tx[t].domain], counters[tx[t].domain] + 1>>
    BY DEF Reserved, NextCrp
  <2>3. PICK d \in Domains : /\ Upper[d] = Upper[tx[t].domain]
                             /\ counters[d] >= counters[tx[t].domain] + 1
    BY <2>1, <2>2 DEF Numbered, CrpKeyIsFree
  <2>4. counters[tx[t].domain] \in Int
    BY <2>1, ThreadAssumption DEF TypeOK
  <2> QED
    BY <2>2, <2>3, <2>4
<1> QED
  BY <1>1, TypeCorrect, NumberedHolds, PTL

\* A CRP is resolved exactly when its VCR exists: both are written in one
\* commit, which the key of the VCR admits once.
THEOREM ResolutionsAgree == Spec => []ResolvedIffVcr
<1>1. Init => ResolvedIffVcr
  BY DEF Init, ResolvedIffVcr
<1>2. TypeOK /\ Asked /\ ResolvedIffVcr /\ [Next]_vars => ResolvedIffVcr'
  <2> SUFFICES ASSUME TypeOK, Asked, ResolvedIffVcr, [Next]_vars PROVE ResolvedIffVcr'
    OBVIOUS
  <2> USE DEF TypeOK
  <2>1. ASSUME NEW t \in Threads, CreateVcrCommit(t) PROVE ResolvedIffVcr'
    <3>1. tx[t].crp \in Crps /\ tx[t].resolution # None
      BY <2>1, TxKinds, ThreadAssumption DEF CreateVcrCommit, VcrTx
    <3> QED
      BY <2>1, <3>1 DEF CreateVcrCommit, ResolvedIffVcr, Crp
  <2>2. ASSUME NEW t \in Threads, CreateCrpCommit(t) PROVE ResolvedIffVcr'
    <3>1. tx[t].crp \in Crps
      BY <2>2, TxKinds DEF CreateCrpCommit, CrpTx
    <3> QED
      BY <2>2, <3>1 DEF CreateCrpCommit, CrpKeyIsFree, ResolvedIffVcr
  <2> QED
    BY <2>1, <2>2, CrpSteps DEF ResolvedIffVcr
<1> QED
  BY <1>1, <1>2, TypeCorrect, AskedHolds, PTL DEF Spec

\* No step replaces a resolution.
THEOREM ResolutionsStay == Spec => ResolutionIsFinal
<1>1. TypeOK /\ [Next]_vars =>
        \A c \in Crps : vcrs[c] # None => vcrs'[c] = vcrs[c]
  BY CrpSteps DEF TypeOK, CreateCrpCommit, CreateVcrCommit, KeyIsFree
<1>2. TypeOK /\ [Next]_vars =>
        [\A c \in Crps : vcrs[c] # None => vcrs'[c] = vcrs[c]]_vars
  BY <1>1
<1> QED
  BY <1>2, TypeCorrect, PTL DEF Spec, ResolutionIsFinal

-----------------------------------------------------------------------------
(* Runs.                                                                   *)

\* A step starts a run, commits a PATCH or a CRP, or leaves the runs alone.
LEMMA RunSteps ==
    ASSUME [Next]_vars
    PROVE  \/ UNCHANGED runs
           \/ \E r \in Runs : StartAgentRun(r)
           \/ \E t \in Threads : PatchCommit(t) \/ CreateCrpCommit(t)
  BY DEF Next, vars, Read, PatchRead, CreateCrpRead, CreateVcrRead,
         CreateMrpRead, CheckReadyRead, HumanDecisionRead, Begin, Commit,
         CreateCrpFails, CreateVcrCommit, CreateVcrFails, CreateMrpCommit,
         CreateMrpFails, StatusCommit

\* A PATCH in progress that says a status has read a running run.
Patched ==
    \A t \in Threads : tx[t].op = "patch" =>
        tx[t].status = None \/ tx[t].loaded = "running"

\* The guard on terminal runs was passed, whatever happened since.
LEMMA PatchedHolds == Spec => []Patched
<1>1. Init => Patched
  BY DEF Init, Patched, Idle
<1>2. TypeOK /\ Patched /\ [Next]_vars => Patched'
  <2> SUFFICES ASSUME TypeOK, Patched, [Next]_vars,
                      NEW t \in Threads, tx'[t].op = "patch"
               PROVE  tx'[t].status = None \/ tx'[t].loaded = "running"
    BY DEF Patched
  <2> USE DEF TypeOK
  <2>1. CASE tx'[t] = tx[t]
    BY <2>1 DEF Patched
  <2>2. CASE Read(t)
    <3>1. PICK r \in Runs, st \in RunStatuses \cup {None} : PatchRead(t, r, st)
      BY <2>2, ReadKinds
    <3>2. /\ tx'[t].loaded = runs[r].status
          /\ tx'[t].status = st
          /\ runs[r].status \in RunStatuses
          /\ st # None => runs[r].status \notin TerminalStatuses
      BY <3>1 DEF PatchRead, Begin, Run
    <3> QED
      BY <3>2 DEF RunStatuses, TerminalStatuses
  <2>3. tx'[t] = tx[t] \/ Read(t)
    BY ThreadSteps, ReadStep DEF End, Idle
  <2> QED
    BY <2>1, <2>2, <2>3
<1> QED
  BY <1>1, <1>2, TypeCorrect, PTL DEF Spec

\* A run that exists keeps its status or gets a terminal one.
LEMMA RunsEndOnly ==
    ASSUME TypeOK, Patched, [Next]_vars, NEW r \in Runs,
           runs[r].status # "absent"
    PROVE  runs'[r].status \in {runs[r].status} \cup TerminalStatuses
<1> USE DEF TypeOK
<1>1. ASSUME NEW q \in Runs, StartAgentRun(q) PROVE runs'[r] = runs[r]
  BY <1>1 DEF StartAgentRun
<1>2. ASSUME NEW t \in Threads, PatchCommit(t)
      PROVE  runs'[r].status \in {runs[r].status} \cup TerminalStatuses
  <2>1. /\ tx[t] \in PatchTx
        /\ tx[t].status = None \/ tx[t].loaded = "running"
    BY <1>2, TxKinds DEF PatchCommit, Patched
  <2>2. PatchedRun(runs[r], tx[t]).status \in {runs[r].status} \cup TerminalStatuses
    BY <2>1, PatchedColumns
  <2>3. runs'[r] = runs[r] \/ runs'[r] = PatchedRun(runs[r], tx[t])
    BY <1>2 DEF PatchCommit
  <2> QED
    BY <2>2, <2>3
<1>3. ASSUME NEW t \in Threads, CreateCrpCommit(t)
      PROVE  runs'[r].status \in {runs[r].status, "blocked"}
  BY <1>3 DEF CreateCrpCommit, Run
<1> QED
  BY <1>1, <1>2, <1>3, RunSteps DEF TerminalStatuses

\* No step takes a run back from a terminal status.
THEOREM TerminalRunsEnd == Spec => NeverRevived
<1>1. TypeOK /\ Patched /\ [Next]_vars =>
        \A r \in Runs : runs[r].status \in TerminalStatuses =>
          runs'[r].status \in TerminalStatuses
  BY RunsEndOnly DEF TerminalStatuses
<1>2. TypeOK /\ Patched /\ [Next]_vars =>
        [\A r \in Runs : runs[r].status \in TerminalStatuses =>
           runs'[r].status \in TerminalStatuses]_vars
  BY <1>1
<1> QED
  BY <1>2, TypeCorrect, PatchedHolds, PTL DEF Spec, NeverRevived

\* A run that a high CRP names is not running, whatever PATCH was under way
\* when the CRP was committed.
THEOREM CrpsStopRuns == Spec => []CrpStopsRun
<1>1. Init => CrpStopsRun
  BY DEF Init, CrpStopsRun
<1>2. TypeOK /\ Patched /\ Asked /\ CrpStopsRun /\ [Next]_vars => CrpStopsRun'
  <2> SUFFICES ASSUME TypeOK, Patched, Asked, CrpStopsRun, [Next]_vars,
                      NEW c \in Crps, crps'[c].status # "absent",
                      crps'[c].severity = "high", crps'[c].run # None
               PROVE  runs'[crps'[c].run].status \in TerminalStatuses
    BY DEF CrpStopsRun
  <2> USE DEF TypeOK
  <2>1. CASE crps[c].status # "absent"
    <3>1. /\ crps[c].severity = "high"
          /\ crps[c].run = crps'[c].run
          /\ crps[c].run \in Runs
      BY <2>1, CrpsStay DEF Crp
    <3>2. runs[crps[c].run].status \in TerminalStatuses
      BY <2>1, <3>1 DEF CrpStopsRun
    <3> QED
      BY <3>1, <3>2, RunsEndOnly DEF TerminalStatuses
  <2>2. CASE crps[c].status = "absent"
    <3>1. ASSUME NEW t \in Threads, CreateCrpCommit(t)
          PROVE  runs'[crps'[c].run].status = "blocked"
      <4>1. tx[t] \in CrpTx
        BY <3>1, TxKinds DEF CreateCrpCommit
      <4>2. crps'[c] = [status |-> "open", severity |-> tx[t].severity,
                        run |-> tx[t].run]
        BY <2>2, <3>1, <4>1 DEF CreateCrpCommit, CrpTx
      <4> QED
        BY <3>1, <4>1, <4>2 DEF CreateCrpCommit, CrpTx, Run
    <3>2. ASSUME NEW t \in Threads, CreateVcrCommit(t)
          PROVE  crps'[c].status = "absent"
      BY <2>2, <3>2 DEF CreateVcrCommit, Asked
    <3> QED
      BY <2>2, <3>1, <3>2, CrpSteps DEF TerminalStatuses
  <2> QED
    BY <2>1, <2>2
<1> QED
  BY <1>1, <1>2, TypeCorrect, PatchedHolds, AskedHolds, PTL DEF Spec

-----------------------------------------------------------------------------
(* What is attached to a pack.                                             *)

\* A step creates a pack, writes its status, detaches CRPs, or leaves the
\* packs alone.
LEMMA PackSteps ==
    ASSUME [Next]_vars
    PROVE  \/ UNCHANGED mrps
           \/ \E t \in Threads : \/ CreateMrpCommit(t) \/ StatusCommit(t)
                                 \/ CreateVcrCommit(t)
  BY DEF Next, vars, StartAgentRun, Read, PatchRead, CreateCrpRead,
         CreateVcrRead, CreateMrpRead, CheckReadyRead, HumanDecisionRead, Begin,
         Commit, PatchCommit, CreateCrpCommit, CreateCrpFails, CreateVcrFails,
         CreateMrpFails

\* The array that a resolution is about to write to a pack differs from what
\* the pack has by now only in its own CRP and in resolved ones; a pack that
\* does not exist has none attached.
Agree ==
    /\ \A m \in Mrps : mrps[m].status = "absent" => mrps[m].openCrps = {}
    /\ \A t \in Threads : tx[t].op = "vcr" =>
         \A m \in Mrps, S \in SUBSET Crps : <<m, S>> \in tx[t].packs =>
           /\ mrps[m].status # "absent"
           /\ \A c \in Crps : crps[c].status # "resolved" =>
                (c \in mrps[m].openCrps <=> c \in S \cup {tx[t].crp})

\* The pack after the commit of a resolution.
LEMMA DetachedPack ==
    ASSUME TypeOK, NEW t \in Threads, CreateVcrCommit(t), NEW m \in Mrps
    PROVE  /\ mrps'[m].status = mrps[m].status
           /\ \/ mrps'[m].openCrps = mrps[m].openCrps
              \/ <<m, mrps'[m].openCrps>> \in tx[t].packs
           /\ mrps'[m].openCrps \in SUBSET Crps
<1> DEFINE P(S) == <<m, S>> \in tx[t].packs
<1> USE DEF TypeOK
<1>1. CASE \E S \in SUBSET Crps : P(S)
  <2> DEFINE new == CHOOSE S \in SUBSET Crps : P(S)
  <2>1. new \in SUBSET Crps /\ P(new)
    BY <1>1
  <2>2. mrps'[m] = [mrps[m] EXCEPT !.openCrps = new]
    BY <1>1 DEF CreateVcrCommit
  <2>3. mrps'[m].openCrps = new /\ mrps'[m].status = mrps[m].status
    BY <2>2 DEF Mrp
  <2> QED
    BY <2>1, <2>3
<1>2. CASE ~ \E S \in SUBSET Crps : P(S)
  <2>1. mrps'[m] = mrps[m]
    BY <1>2 DEF CreateVcrCommit
  <2> QED
    BY <2>1 DEF Mrp
<1> QED
  BY <1>1, <1>2

\* Resolutions in progress agree on what is unresolved.
LEMMA AgreeHolds == Spec => []Agree
<1>1. Init => Agree
  BY DEF Init, Agree, Idle
<1>2. TypeOK /\ Asked /\ Agree /\ [Next]_vars => Agree'
  <2> SUFFICES ASSUME TypeOK, Asked, Agree, [Next]_vars PROVE Agree'
    OBVIOUS
  <2> USE DEF TypeOK
  <2>1. ASSUME NEW c \in Crps, crps'[c].status # "resolved"
        PROVE  crps[c].status # "resolved"
    BY <2>1, CrpsStay DEF Crp
  <2>2. ASSUME NEW m \in Mrps
        PROVE  /\ mrps[m].status # "absent" => mrps'[m].status # "absent"
               /\ mrps'[m].status = "absent" => mrps'[m].openCrps = {}
               /\ mrps[m].status # "absent" =>
                    \A c \in Crps : crps'[c].status # "resolved" =>
                      (c \in mrps'[m].openCrps <=> c \in mrps[m].openCrps)
    <3>1. ASSUME NEW t \in Threads, CreateMrpCommit(t)
          PROVE  \/ mrps'[m] = mrps[m]
                 \/ mrps[m].status = "absent" /\ mrps'[m].status = "draft"
      BY <3>1 DEF CreateMrpCommit
    <3>2. ASSUME NEW t \in Threads, StatusCommit(t)
          PROVE  /\ mrps'[m].openCrps = mrps[m].openCrps
                 /\ mrps[m].status # "absent" => mrps'[m].status # "absent"
                 /\ mrps'[m].status = "absent" => mrps[m].status = "absent"
      <4>1. tx[t] \in GateTx
        BY <3>2, TxKinds DEF StatusCommit
      <4> QED
        BY <3>2, <4>1 DEF StatusCommit, GateTx, Flushed, Mrp, MrpStatuses, Decisions
    <3>3. ASSUME NEW t \in Threads, CreateVcrCommit(t)
          PROVE  /\ mrps'[m].status = mrps[m].status
                 /\ mrps[m].status = "absent" => mrps'[m].openCrps = {}
                 /\ \A c \in Crps : crps'[c].status # "resolved" =>
                      (c \in mrps'[m].openCrps <=> c \in mrps[m].openCrps)
      <4>1. crps'[tx[t].crp].status = "resolved" /\ tx[t].op = "vcr"
        BY <3>3, TxKinds DEF CreateVcrCommit, VcrTx, Crp
      <4>2. CASE mrps'[m].openCrps = mrps[m].openCrps
        BY <3>3, <4>2, DetachedPack DEF Agree
      <4>3. CASE <<m, mrps'[m].openCrps>> \in tx[t].packs
        <5>1. /\ mrps[m].status # "absent"
              /\ \A c \in Crps : crps[c].status # "resolved" =>
                   (c \in mrps[m].openCrps <=>
                      c \in mrps'[m].openCrps \cup {tx[t].crp})
          BY <3>3, <4>1, <4>3, DetachedPack DEF Agree
        <5> QED
          BY <3>3, <4>1, <5>1, <2>1, DetachedPack
      <4> QED
        BY <3>3, <4>2, <4>3, DetachedPack
    <3>4. CASE UNCHANGED mrps
      BY <3>4 DEF Agree
    <3> QED
      BY <3>1, <3>2, <3>3, <3>4, PackSteps DEF Agree
  <2>3. ASSUME NEW t \in Threads, tx'[t].op = "vcr", NEW m \in Mrps,
               NEW S \in SUBSET Crps, <<m, S>> \in tx'[t].packs
        PROVE  /\ mrps'[m].status # "absent"
               /\ \A c \in Crps : crps'[c].status # "resolved" =>
                    (c \in mrps'[m].openCrps <=> c \in S \cup {tx'[t].crp})
    <3>1. CASE tx'[t] = tx[t]
      <4>1. /\ mrps[m].status # "absent"
            /\ \A c \in Crps : crps[c].status # "resolved" =>
                 (c \in mrps[m].openCrps <=> c \in S \cup {tx[t].crp})
        BY <2>3, <3>1 DEF Agree
      <4> QED
        BY <3>1, <4>1, <2>1, <2>2
    <3>2. CASE Read(t)
      <4>1. PICK c \in Crps, res \in Resolutions : CreateVcrRead(t, c, res)
        BY <2>3, <3>2, ReadKinds
      <4>2. /\ tx'[t].crp = c /\ tx'[t].packs = Detached(c)
            /\ mrps' = mrps /\ crps' = crps
        BY <4>1 DEF CreateVcrRead, Begin
      <4>3. S = mrps[m].openCrps \ {c} /\ c \in mrps[m].openCrps
        BY <2>3, <4>2 DEF Detached
      <4>4. mrps[m].status # "absent"
        BY <4>3 DEF Agree
      <4> QED
        BY <4>2, <4>3, <4>4
    <3>3. tx'[t] = tx[t] \/ Read(t)
      BY <2>3, ThreadSteps, ReadStep DEF End, Idle
    <3> QED
      BY <3>1, <3>2, <3>3
  <2> QED
    BY <2>2, <2>3 DEF Agree
<1> QED
  BY <1>1, <1>2, TypeCorrect, AskedHolds, PTL DEF Spec

\* The resolution of one CRP never detaches another that is unresolved, even
\* when both write the array of one pack.
THEOREM UnresolvedStay == Spec => UnresolvedStaysAttached
<1>1. TypeOK /\ Agree /\ [Next]_vars =>
        \A m \in Mrps : \A c \in mrps[m].openCrps :
          crps'[c].status # "resolved" => c \in mrps'[m].openCrps
  <2> SUFFICES ASSUME TypeOK, Agree, [Next]_vars, NEW m \in Mrps,
                      NEW c \in mrps[m].openCrps, crps'[c].status # "resolved"
               PROVE  c \in mrps'[m].openCrps
    OBVIOUS
  <2> USE DEF TypeOK
  <2>1. c \in Crps
    BY DEF Mrp
  <2>2. crps[c].status # "resolved"
    BY <2>1, CrpsStay DEF Crp
  <2>3. ASSUME NEW t \in Threads, CreateMrpCommit(t) PROVE c \in mrps'[m].openCrps
    BY <2>3 DEF CreateMrpCommit, Agree
  <2>4. ASSUME NEW t \in Threads, StatusCommit(t) PROVE c \in mrps'[m].openCrps
    BY <2>4 DEF StatusCommit, Mrp
  <2>5. ASSUME NEW t \in Threads, CreateVcrCommit(t) PROVE c \in mrps'[m].openCrps
    <3>1. crps'[tx[t].crp].status = "resolved" /\ tx[t].op = "vcr"
      BY <2>5, TxKinds DEF CreateVcrCommit, VcrTx, Crp
    <3>2. c # tx[t].crp
      BY <3>1
    <3>3. CASE <<m, mrps'[m].openCrps>> \in tx[t].packs
      <4>1. mrps'[m].openCrps \in SUBSET Crps
        BY <2>5, DetachedPack
      <4>2. c \in mrps[m].openCrps <=> c \in mrps'[m].openCrps \cup {tx[t].crp}
        BY <2>1, <2>2, <3>1, <3>3, <4>1 DEF Agree
      <4> QED
        BY <3>2, <4>2
    <3> QED
      BY <2>5, <3>3, DetachedPack
  <2> QED
    BY <2>3, <2>4, <2>5, PackSteps
<1>2. TypeOK /\ Agree /\ [Next]_vars =>
        [\A m \in Mrps : \A c \in mrps[m].openCrps :
           crps'[c].status # "resolved" => c \in mrps'[m].openCrps]_vars
  BY <1>1
<1> QED
  BY <1>2, TypeCorrect, AgreeHolds, PTL DEF Spec, UnresolvedStaysAttached
=============================================================================
