---------------------------- MODULE MCNewUserSetup ----------------------------
(* Values for checking NewUserSetup with TLC. *)
EXTENDS NewUserSetup, TLC

CONSTANTS r1, r2

RequestSymmetry == Permutations(Request)
=============================================================================
