--------------------------- MODULE MCConsultation ---------------------------
(***************************************************************************)
(* Instance of Consultation for TLC: the rows of a table are               *)
(* interchangeable, so their identifiers are symmetric.                    *)
(***************************************************************************)
EXTENDS Consultation, TLC

Symmetry == Permutations(Runs) \cup Permutations(Crps)
=============================================================================
