---------------------------- MODULE MCCodingPhase ----------------------------
(***************************************************************************)
(* Instance of CodingPhase for TLC; its liveness rules out symmetry.       *)
(***************************************************************************)
EXTENDS CodingPhase
=============================================================================
