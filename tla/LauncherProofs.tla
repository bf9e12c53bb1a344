--------------------------- MODULE LauncherProofs ---------------------------
(***************************************************************************)
(* Proofs about Launcher, for any number of runs of start.bat.             *)
(***************************************************************************)
EXTENDS Launcher, TLAPS

\* The inductive invariant of the scripts.
LaunchInv == StepTypeOK /\ NoServerLeft

\* Every step of a script keeps the invariant.
LEMMA LaunchInvStep == LaunchInv /\ [LaunchNext]_launchVars => LaunchInv'
<1> SUFFICES ASSUME LaunchInv, [LaunchNext]_launchVars
             PROVE  LaunchInv'
  OBVIOUS
<1> USE DEF LaunchInv, StepTypeOK, NoServerLeft, Active
<1>1. ASSUME NEW l \in Launches, StartDb(l) PROVE LaunchInv'
  <2>1. StepTypeOK' /\ l \in Active'
    BY <1>1 DEF StartDb
  <2> QED
    BY <2>1
<1>2. ASSUME NEW l \in Launches, StartApp(l) PROVE LaunchInv'
  <2>1. StepTypeOK' /\ l \in Active'
    BY <1>2 DEF StartApp
  <2> QED
    BY <2>1
<1>3. ASSUME NEW l \in Launches, CloseApp(l) PROVE LaunchInv'
  <2>1. StepTypeOK' /\ l \in Active'
    BY <1>3 DEF CloseApp
  <2> QED
    BY <2>1
<1>4. ASSUME NEW l \in Launches, StopDb(l) PROVE LaunchInv'
  BY <1>4 DEF StopDb
<1>5. CASE Booted
  BY <1>5 DEF Booted
<1>6. CASE StartByHand \/ RestartStart
  BY <1>6 DEF StartByHand, RestartStart, Started
<1>7. CASE StopByHand \/ RestartKill
  BY <1>7 DEF StopByHand, RestartKill
<1>8. CASE UNCHANGED launchVars
  BY <1>8 DEF launchVars
<1> QED
  BY <1>1, <1>2, <1>3, <1>4, <1>5, <1>6, <1>7, <1>8 DEF LaunchNext

\* However many runs of start.bat overlap, and with whichever manual starts and
\* stops between them, the last one leaves no server behind that only start.bat
\* had started (start.bat:3 and 11-12).
THEOREM NoServerLeftHolds == LaunchSpec => []NoServerLeft
<1>1. LaunchInit => LaunchInv
  BY DEF LaunchInit, LaunchInv, StepTypeOK, NoServerLeft, Active
<1>2. LaunchInv => NoServerLeft
  BY DEF LaunchInv
<1> QED
  BY <1>1, <1>2, LaunchInvStep, PTL DEF LaunchSpec
-----------------------------------------------------------------------------
(***************************************************************************)
(* What holds in place of StopsAfterApp, which overlapping runs violate.   *)
(***************************************************************************)

\* A run that waits for the application owns the window, and only that one.
WindowOwned == \A l \in Launches : step[l] = "app" <=> app = l

\* A run of start.bat never stops the server under its own window: start /wait
\* has returned, and the run does not open another (start.bat:8-12).
StopsAfterOwnApp ==
  [][\A l \in Launches : step[l] = "stop" /\ step'[l] = "done" => app # l]_launchVars

WindowInv ==
  /\ StepTypeOK
  /\ app \in Launches \cup {NoLaunch}
  /\ WindowOwned

\* Only StartApp opens a window and only CloseApp closes it, each together with
\* the step of its run.
LEMMA WindowInvariant == LaunchSpec => []WindowInv
<1>1. LaunchInit => WindowInv
  BY LauncherAssumption DEF LaunchInit, WindowInv, StepTypeOK, WindowOwned
<1>2. WindowInv /\ [LaunchNext]_launchVars => WindowInv'
  <2> SUFFICES ASSUME WindowInv, [LaunchNext]_launchVars PROVE WindowInv'
    OBVIOUS
  <2> USE DEF WindowInv, StepTypeOK, WindowOwned
  <2>1. ASSUME NEW l \in Launches, StartDb(l) PROVE WindowInv'
    BY <2>1 DEF StartDb
  <2>2. ASSUME NEW l \in Launches, StartApp(l) PROVE WindowInv'
    <3>1. CASE app = NoLaunch
      BY <2>2, <3>1, LauncherAssumption DEF StartApp
    <3>2. CASE app # NoLaunch
      BY <2>2, <3>2 DEF StartApp
    <3> QED
      BY <3>1, <3>2
  <2>3. ASSUME NEW l \in Launches, CloseApp(l) PROVE WindowInv'
    BY <2>3, LauncherAssumption DEF CloseApp
  <2>4. ASSUME NEW l \in Launches, StopDb(l) PROVE WindowInv'
    BY <2>4 DEF StopDb
  <2>5. CASE UNCHANGED <<step, app>>
    BY <2>5
  <2> QED
    BY <2>1, <2>2, <2>3, <2>4, <2>5
    DEF LaunchNext, Booted, StartByHand, StopByHand, RestartKill, RestartStart, launchVars
<1> QED
  BY <1>1, <1>2, PTL DEF LaunchSpec

\* However the runs overlap, each one stops the server after its own window is
\* closed; a window left without a server belongs to another run.
THEOREM OwnWindowIsClosed == LaunchSpec => StopsAfterOwnApp
<1>1. WindowInv => \A l \in Launches : step[l] = "stop" /\ step'[l] = "done" => app # l
  BY DEF WindowInv, WindowOwned
<1> QED
  BY <1>1, WindowInvariant, PTL DEF StopsAfterOwnApp

\* The comment at start.bat:11 is true of a start.bat that is run once: the
\* violation of StopsAfterApp needs a second run.
THEOREM OneRunStopsAfterApp ==
  ASSUME \A k, l \in Launches : k = l
  PROVE  LaunchSpec => StopsAfterApp
<1>1. WindowInv => \A l \in Launches : step[l] = "stop" /\ step'[l] = "done" => app = NoLaunch
  BY DEF WindowInv, WindowOwned
<1> QED
  BY <1>1, WindowInvariant, PTL DEF StopsAfterApp
=============================================================================
