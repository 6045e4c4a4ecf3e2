----------------------------- MODULE MCRunService -----------------------------
(***************************************************************************)
(* Small instances of RunService for TLC.                                  *)
(***************************************************************************)
EXTENDS RunService

CONSTANTS p1, p2, c1, c2, w1
==============================================================================
