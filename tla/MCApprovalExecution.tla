------------------------- MODULE MCApprovalExecution -------------------------
(* Instance of ApprovalExecution for TLC.                                   *)
EXTENDS ApprovalExecution

CONSTANTS p1, p2, r1, r2
=============================================================================
