------------------------------ MODULE MCLiveRun ------------------------------
(***************************************************************************)
(* Instance of LiveRun for TLC; its liveness rules out symmetry.           *)
(***************************************************************************)
EXTENDS LiveRun
=============================================================================
