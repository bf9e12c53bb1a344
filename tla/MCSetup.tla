------------------------------ MODULE MCSetup ------------------------------
(***************************************************************************)
(* Setup for TLC.                                                          *)
(***************************************************************************)
EXTENDS Setup, TLC

CONSTANTS r1, r2, r3

\* Requests are interchangeable.
RunSymmetry == Permutations(Runs)
=============================================================================
