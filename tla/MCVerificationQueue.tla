------------------------- MODULE MCVerificationQueue -------------------------
(***************************************************************************)
(* Instance of VerificationQueue for TLC; its liveness rules out symmetry. *)
(***************************************************************************)
EXTENDS VerificationQueue
=============================================================================
