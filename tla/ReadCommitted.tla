---------------------------- MODULE ReadCommitted ----------------------------
(***************************************************************************)
(* The handlers of Consultation and MergeGate as the threads of the API    *)
(* process run them: each has a database session of its own at isolation   *)
(* level READ COMMITTED, reads rows without locks, decides, and writes in  *)
(* one commit.  Between the two, other handlers commit.                    *)
(*                                                                         *)
(* The object-relational mapper writes, for a row it loaded, the columns   *)
(* whose new value differs from the loaded one and no others; arrays are   *)
(* written whole; inserts fail on a primary key that is taken by then.     *)
(*                                                                         *)
(* All rows are about one specification.  What the readiness gate checks   *)
(* besides CRPs and the rejection is a choice.                             *)
(*                                                                         *)
(* The identifier of a CRP is a domain in upper case and a number.  The    *)
(* number comes from a counter row of the domain as the client spelled it, *)
(* which stays locked until the commit and is rolled back with it.         *)
(***************************************************************************)
EXTENDS Naturals

CONSTANTS
    Threads,      \* threads of the server, one handler each
    Runs, Mrps,
    Domains,      \* domains as clients spell them
    Upper,        \* the upper case of each
    MaxSeq,       \* bound on the CRPs of one spelling
    Resolutions,  \* what a VCR may decide
    None          \* SQL NULL, no row

VARIABLES
    runs,      \* runs[r]: status and finishing stamp
    counters,  \* counters[d]: the number of the last CRP of spelling d
    crps,      \* crps[c]: status, severity and agent run
    vcrs,      \* vcrs[c]: the decision in the row VCR-<c>, or None
    mrps,      \* mrps[m]: status and attached CRPs
    tx         \* tx[t]: what the thread read and is about to commit

vars == <<runs, counters, crps, vcrs, mrps, tx>>

-----------------------------------------------------------------------------
RunStatuses      == {"running", "completed", "failed", "blocked"}
TerminalStatuses == {"completed", "failed", "blocked"}
Severities       == {"medium", "high"}
Decisions        == {"approved", "rejected", "needs_revision"}
MrpStatuses      == Decisions \cup {"draft", "ready_for_human_review"}

Crps == {Upper[d] : d \in Domains} \X (1 .. MaxSeq)

ASSUME ThreadAssumption ==
    /\ None \notin Runs \cup Resolutions
    /\ Upper \in [Domains -> STRING]
    /\ MaxSeq \in Nat

Run == [status: {"absent"} \cup RunStatuses, finished: BOOLEAN]
Crp == [status: {"absent", "open", "resolved"}, severity: Severities,
        run: Runs \cup {None}]
Mrp == [status: {"absent"} \cup MrpStatuses, openCrps: SUBSET Crps]

\* What the handlers have read: a PATCH, the creation of a CRP, of a VCR (with
\* the arrays it will write to packs) and of an MRP, and the two writers of a
\* pack's status.
PatchTx == [op: {"patch"}, run: Runs, loaded: RunStatuses,
            status: RunStatuses \cup {None}]
CrpTx   == [op: {"crp"}, domain: Domains, crp: Crps, severity: Severities,
            run: Runs \cup {None}]
VcrTx   == [op: {"vcr"}, crp: Crps, resolution: Resolutions,
            packs: SUBSET (Mrps \X SUBSET Crps)]
MrpTx   == [op: {"mrp"}, mrp: Mrps, open: SUBSET Crps]
GateTx  == [op: {"gate"}, mrp: Mrps, loaded: MrpStatuses,
            status: MrpStatuses]

Tx == [op: {"idle"}] \cup PatchTx \cup CrpTx \cup VcrTx \cup MrpTx \cup GateTx

Idle == [op |-> "idle"]

TypeOK ==
    /\ runs \in [Runs -> Run]
    /\ counters \in [Domains -> 0 .. MaxSeq]
    /\ crps \in [Crps -> Crp]
    /\ vcrs \in [Crps -> Resolutions \cup {None}]
    /\ mrps \in [Mrps -> Mrp]
    /\ tx \in [Threads -> Tx]

Init ==
    /\ runs = [r \in Runs |-> [status |-> "absent", finished |-> FALSE]]
    /\ counters = [d \in Domains |-> 0]
    /\ crps = [c \in Crps |-> [status |-> "absent", severity |-> "medium",
                               run |-> None]]
    /\ vcrs = [c \in Crps |-> None]
    /\ mrps = [m \in Mrps |-> [status |-> "absent", openCrps |-> {}]]
    /\ tx = [t \in Threads |-> Idle]

\* A thread starts a handler and keeps what it read; it ends a handler, with
\* or without a commit.
Begin(t, read) ==
    /\ tx[t] = Idle
    /\ tx' = [tx EXCEPT ![t] = read]
    /\ UNCHANGED <<runs, counters, crps, vcrs, mrps>>

End(t) == tx' = [tx EXCEPT ![t] = Idle]

\* Faulty flush: every column is written back, changed or not.
Overwritten(loaded, new, current) == new

\* The column after a flush: an unchanged attribute is not in the UPDATE.
Flushed(loaded, new, current) == IF new = loaded THEN current ELSE new

-----------------------------------------------------------------------------
(* Agent runs and CRPs.                                                    *)

StartAgentRun(r) ==
    /\ runs[r].status = "absent"
    /\ runs' = [runs EXCEPT ![r].status = "running"]
    /\ UNCHANGED <<counters, crps, vcrs, mrps, tx>>

PatchRead(t, r, status) ==
    /\ runs[r].status # "absent"
    /\ status # None => runs[r].status \notin TerminalStatuses
    /\ Begin(t, [op |-> "patch", run |-> r, loaded |-> runs[r].status,
                 status |-> status])

PatchedRun(run, p) ==
    [status   |-> IF p.status = None THEN run.status
                  ELSE Flushed(p.loaded, p.status, run.status),
     finished |-> run.finished \/ p.status \in TerminalStatuses]

PatchCommit(t) ==
    /\ tx[t].op = "patch"
    /\ runs' = [runs EXCEPT ![tx[t].run] = PatchedRun(@, tx[t])]
    /\ End(t)
    /\ UNCHANGED <<counters, crps, vcrs, mrps>>

\* Faulty counter: its value is read and written without a lock.
NeverLocked(d) == FALSE

\* Another thread holds the counter row of the spelling.
CounterLocked(d) ==
    \E u \in Threads : tx[u].op = "crp" /\ tx[u].domain = d

NextCrp(d) == <<Upper[d], counters[d] + 1>>

CreateCrpRead(t, d, severity, r) ==
    /\ counters[d] < MaxSeq
    /\ ~CounterLocked(d)
    /\ r # None => /\ runs[r].status # "absent"
                   /\ severity = "high" =>
                        runs[r].status \notin TerminalStatuses
    /\ Begin(t, [op |-> "crp", domain |-> d, crp |-> NextCrp(d),
                 severity |-> severity, run |-> r])

\* Faulty table: the identifier is no key.
Upserted(c) == TRUE

\* The identifier is a primary key.
CrpKeyIsFree(c) == crps[c].status = "absent"

CreateCrpCommit(t) ==
    /\ tx[t].op = "crp"
    /\ CrpKeyIsFree(tx[t].crp)
    /\ counters' = [counters EXCEPT ![tx[t].domain] = @ + 1]
    /\ crps' = [crps EXCEPT ![tx[t].crp] =
         [status |-> "open", severity |-> tx[t].severity, run |-> tx[t].run]]
    /\ runs' = IF tx[t].run # None /\ tx[t].severity = "high"
               THEN [runs EXCEPT ![tx[t].run].status = "blocked"] ELSE runs
    /\ End(t)
    /\ UNCHANGED <<vcrs, mrps>>

\* The number goes back with the insert: the next CRP of this spelling will
\* be given the same one.
CreateCrpFails(t) ==
    /\ tx[t].op = "crp"
    /\ ~CrpKeyIsFree(tx[t].crp)
    /\ End(t)
    /\ UNCHANGED <<runs, counters, crps, vcrs, mrps>>

-----------------------------------------------------------------------------
(* VCRs.                                                                   *)

\* Faulty reading: the packs lose every CRP they name.
DetachedAll(c) == {<<m, {}>> : m \in {n \in Mrps : c \in mrps[n].openCrps}}

\* The packs that have the CRP attached, with the array to write to each.
Detached(c) == {<<m, mrps[m].openCrps \ {c}>> :
                  m \in {n \in Mrps : c \in mrps[n].openCrps}}

CreateVcrRead(t, c, resolution) ==
    /\ crps[c].status # "absent"
    /\ vcrs[c] = None
    /\ Begin(t, [op |-> "vcr", crp |-> c, resolution |-> resolution,
                 packs |-> Detached(c)])

\* Faulty table: the identifier is no key.
Replacing(c) == TRUE

\* The identifier VCR-<c> is a primary key.
KeyIsFree(c) == vcrs[c] = None

CreateVcrCommit(t) ==
    /\ tx[t].op = "vcr"
    /\ KeyIsFree(tx[t].crp)
    /\ vcrs' = [vcrs EXCEPT ![tx[t].crp] = tx[t].resolution]
    /\ crps' = [crps EXCEPT ![tx[t].crp].status = "resolved"]
    /\ mrps' = [m \in Mrps |->
         IF \E S \in SUBSET Crps : <<m, S>> \in tx[t].packs
         THEN [mrps[m] EXCEPT !.openCrps =
                 CHOOSE S \in SUBSET Crps : <<m, S>> \in tx[t].packs]
         ELSE mrps[m]]
    /\ End(t)
    /\ UNCHANGED <<runs, counters>>

CreateVcrFails(t) ==
    /\ tx[t].op = "vcr"
    /\ ~KeyIsFree(tx[t].crp)
    /\ End(t)
    /\ UNCHANGED <<runs, counters, crps, vcrs, mrps>>

-----------------------------------------------------------------------------
(* MRPs.                                                                   *)

UnresolvedCrps == {c \in Crps : crps[c].status = "open"}
BlockingCrps   == {c \in UnresolvedCrps : crps[c].severity = "high"}

CreateMrpRead(t, m) ==
    /\ mrps[m].status = "absent"
    /\ Begin(t, [op |-> "mrp", mrp |-> m, open |-> UnresolvedCrps])

CreateMrpCommit(t) ==
    /\ tx[t].op = "mrp"
    /\ mrps[tx[t].mrp].status = "absent"
    /\ mrps' = [mrps EXCEPT ![tx[t].mrp] =
                  [status |-> "draft", openCrps |-> tx[t].open]]
    /\ End(t)
    /\ UNCHANGED <<runs, counters, crps, vcrs>>

CreateMrpFails(t) ==
    /\ tx[t].op = "mrp"
    /\ mrps[tx[t].mrp].status # "absent"
    /\ End(t)
    /\ UNCHANGED <<runs, counters, crps, vcrs, mrps>>

ReadyForMerge(m, checks) ==
    checks /\ BlockingCrps = {} /\ mrps[m].status # "rejected"

CheckReadyRead(t, m, checks) ==
    /\ mrps[m].status # "absent"
    /\ Begin(t, [op |-> "gate", mrp |-> m, loaded |-> mrps[m].status,
                 status |-> IF ReadyForMerge(m, checks)
                            THEN "ready_for_human_review"
                            ELSE "needs_revision"])

HumanDecisionRead(t, m, decision, checks) ==
    /\ mrps[m].status # "absent"
    /\ decision = "approved" => ReadyForMerge(m, checks)
    /\ Begin(t, [op |-> "gate", mrp |-> m, loaded |-> mrps[m].status,
                 status |-> decision])

\* The commit of check-ready and of the human decision.
StatusCommit(t) ==
    /\ tx[t].op = "gate"
    /\ mrps' = [mrps EXCEPT ![tx[t].mrp].status =
                  Flushed(tx[t].loaded, tx[t].status, @)]
    /\ End(t)
    /\ UNCHANGED <<runs, counters, crps, vcrs>>

-----------------------------------------------------------------------------
Read(t) ==
    \/ \E r \in Runs, st \in RunStatuses \cup {None} : PatchRead(t, r, st)
    \/ \E d \in Domains, sev \in Severities, r \in Runs \cup {None} :
          CreateCrpRead(t, d, sev, r)
    \/ \E c \in Crps, res \in Resolutions : CreateVcrRead(t, c, res)
    \/ \E m \in Mrps : CreateMrpRead(t, m)
    \/ \E m \in Mrps, checks \in BOOLEAN : CheckReadyRead(t, m, checks)
    \/ \E m \in Mrps, d \in Decisions, checks \in BOOLEAN :
          HumanDecisionRead(t, m, d, checks)

Commit(t) ==
    \/ PatchCommit(t) \/ CreateCrpCommit(t) \/ CreateCrpFails(t)
    \/ CreateVcrCommit(t) \/ CreateVcrFails(t)
    \/ CreateMrpCommit(t) \/ CreateMrpFails(t)
    \/ StatusCommit(t)

Next ==
    \/ \E r \in Runs : StartAgentRun(r)
    \/ \E t \in Threads : Read(t) \/ Commit(t)

Spec == Init /\ [][Next]_vars

-----------------------------------------------------------------------------
(* Properties.                                                             *)

\* A CRP is refused for its identifier only when the domain has another
\* spelling, which took the number: the counter never gives a number twice.
CollisionIsSpelling ==
    \A t \in Threads : tx[t].op = "crp" /\ ~CrpKeyIsFree(tx[t].crp) =>
        \E d \in Domains : /\ d # tx[t].domain
                           /\ Upper[d] = Upper[tx[t].domain]
                           /\ counters[d] >= tx[t].crp[2]

\* A CRP is resolved exactly when its resolution is recorded, also when two
\* humans resolve it at once.
ResolvedIffVcr == \A c \in Crps : crps[c].status = "resolved" <=> vcrs[c] # None

\* The resolution that was recorded first is never replaced: the look-up in
\* create_vcr may be overtaken, the primary key may not.
ResolutionIsFinal ==
    [][\A c \in Crps : vcrs[c] # None => vcrs'[c] = vcrs[c]]_vars

\* No run comes back from a terminal status to running: a PATCH that read a
\* running run and says "running" has nothing to flush.
NeverRevived ==
    [][\A r \in Runs : runs[r].status \in TerminalStatuses =>
         runs'[r].status \in TerminalStatuses]_vars

\* A run that a high or critical CRP names is not running.
CrpStopsRun ==
    \A c \in Crps : /\ crps[c].status # "absent"
                    /\ crps[c].severity = "high"
                    /\ crps[c].run # None
                    => runs[crps[c].run].status \in TerminalStatuses

\* No CRP is detached from a pack by the resolution of another: the arrays
\* that two resolutions write over each other err on the blocking side.
UnresolvedStaysAttached ==
    [][\A m \in Mrps : \A c \in mrps[m].openCrps :
         crps'[c].status # "resolved" => c \in mrps'[m].openCrps]_vars

\* A pack is approved only while no high or critical CRP is open (README): it
\* does not survive the races.
ApprovedOverNoCrp ==
    [][\A m \in Mrps : /\ mrps'[m].status = "approved"
                       /\ mrps[m].status # "approved"
                       => BlockingCrps = {}]_vars
=============================================================================
