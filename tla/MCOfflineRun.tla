----------------------------- MODULE MCOfflineRun -----------------------------
(***************************************************************************)
(* Instance of OfflineRun for TLC: the names of all projects begin with    *)
(* the same word.  Its liveness rules out symmetry.                        *)
(***************************************************************************)
EXTENDS OfflineRun

OneDomain == [p \in Projects |-> "TASK"]
=============================================================================
