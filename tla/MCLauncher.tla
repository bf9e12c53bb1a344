----------------------------- MODULE MCLauncher -----------------------------
(***************************************************************************)
(* Launcher for TLC.                                                       *)
(***************************************************************************)
EXTENDS Launcher, TLC

\* Runs of start.bat are interchangeable.
LaunchSymmetry == Permutations(Launches)
=============================================================================
