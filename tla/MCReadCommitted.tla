--------------------------- MODULE MCReadCommitted ---------------------------
(***************************************************************************)
(* Instance of ReadCommitted for TLC: a domain that clients spell in two   *)
(* ways, and another one.                                                  *)
(***************************************************************************)
EXTENDS ReadCommitted, TLC

CONSTANTS auth, Auth, billing

UpperCase == [d \in Domains |-> IF d = billing THEN "BILLING" ELSE "AUTH"]

Symmetry == Permutations(Threads) \cup Permutations(Resolutions)
              \cup Permutations({auth, Auth})
=============================================================================
