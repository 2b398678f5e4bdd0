--------------------------- MODULE MCOwnerAccount ---------------------------
(***************************************************************************)
(* Small instances of OwnerAccount for TLC.                                *)
(***************************************************************************)
EXTENDS OwnerAccount, TLC

CONSTANTS reset_credit, send_invitation, q1, q2

RequestSymmetry == Permutations(Requests)
=============================================================================
