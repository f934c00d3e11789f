------------------------ MODULE MCStrictVerification ------------------------
(***************************************************************************)
(* Instance of StrictVerification for TLC; its liveness rules out          *)
(* symmetry.                                                               *)
(***************************************************************************)
EXTENDS StrictVerification
=============================================================================
