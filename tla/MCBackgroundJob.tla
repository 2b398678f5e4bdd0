--------------------------- MODULE MCBackgroundJob ---------------------------
(***************************************************************************)
(* A small instance of BackgroundJob for TLC.                               *)
(***************************************************************************)
EXTENDS BackgroundJob, TLC

CONSTANTS p1, p2, q1, q2

EachItsOwn == (q1 :> p1) @@ (q2 :> p2)
=============================================================================
