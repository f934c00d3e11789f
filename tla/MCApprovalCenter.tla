-------------------------- MODULE MCApprovalCenter --------------------------
(***************************************************************************)
(* Instance of ApprovalCenter for TLC.                                     *)
(***************************************************************************)
EXTENDS ApprovalCenter
=============================================================================
