------------------------- MODULE MCApprovalLifecycle -------------------------
(* ApprovalLifecycle with two requests. *)
EXTENDS ApprovalLifecycle
CONSTANTS p1, p2
=============================================================================
