------------------------------ MODULE Launcher ------------------------------
(***************************************************************************)
(* The scripts that start and stop the database server on the PC that      *)
(* hosts it.  start.bat starts mysqld, waits, runs the application and     *)
(* kills mysqld when the application returns; it may be run several times. *)
(* The other scripts start, restart and stop the server by hand.           *)
(***************************************************************************)
EXTENDS Naturals, FiniteSets

CONSTANTS
  Launches,   \* runs of start.bat
  NoLaunch,   \* no run
  MaxByHand   \* bound: how often the other scripts are used

ASSUME LauncherAssumption == NoLaunch \notin Launches /\ MaxByHand \in Nat

VARIABLES
  step,       \* where each run of start.bat is
  app,        \* the run whose application window is open, or NoLaunch
  server,     \* "down", "booting" or "ready"
  restarting, \* restart_mariadb.bat is between its kill and its start
  byHand,     \* how often the other scripts were used
  kept        \* history: the server was started by hand and not killed since

launchVars == <<step, app, server, restarting, byHand, kept>>

\* Another mysqld on the same data directory and port gives up.
Started == IF server = "down" THEN "booting" ELSE server

-----------------------------------------------------------------------------
LaunchInit ==
  /\ step = [l \in Launches |-> "off"]
  /\ app = NoLaunch
  /\ server = "down"
  /\ restarting = FALSE
  /\ byHand = 0
  /\ kept = FALSE

\* start "" /B mysqld, then timeout /t 3: the server may or may not be ready.
StartDb(l) ==
  /\ step[l] = "off"
  /\ step' = [step EXCEPT ![l] = "wait"]
  /\ server' = Started
  /\ UNCHANGED <<app, restarting, byHand, kept>>

\* start /wait phpdesktop-chrome.exe: with single_instance_guid set, a second
\* instance hands over to the first and returns at once.
StartApp(l) ==
  /\ step[l] = "wait"
  /\ IF app = NoLaunch
     THEN app' = l /\ step' = [step EXCEPT ![l] = "app"]
     ELSE app' = app /\ step' = [step EXCEPT ![l] = "stop"]
  /\ UNCHANGED <<server, restarting, byHand, kept>>

\* The user closes the window.
CloseApp(l) ==
  /\ step[l] = "app"
  /\ app' = NoLaunch
  /\ step' = [step EXCEPT ![l] = "stop"]
  /\ UNCHANGED <<server, restarting, byHand, kept>>

\* Mutant of StopDb: a shutdown request, which a server that is still booting
\* does not hear.
ShutdownDb(l) ==
  /\ step[l] = "stop"
  /\ step' = [step EXCEPT ![l] = "done"]
  /\ server' = IF server = "ready" THEN "down" ELSE server
  /\ kept' = FALSE
  /\ UNCHANGED <<app, restarting, byHand>>

\* taskkill /f /im mysqld.exe, then exit.
StopDb(l) ==
  /\ step[l] = "stop"
  /\ step' = [step EXCEPT ![l] = "done"]
  /\ server' = "down"
  /\ kept' = FALSE
  /\ UNCHANGED <<app, restarting, byHand>>

\* mysqld accepts connections.
Booted ==
  /\ server = "booting"
  /\ server' = "ready"
  /\ UNCHANGED <<step, app, restarting, byHand, kept>>

\* start_mariadb.bat, or start_mariadb_and_connect.bat: the latter looks for a
\* running mysqld first, the former leaves it to mysqld to give up.
StartByHand ==
  /\ byHand < MaxByHand
  /\ byHand' = byHand + 1
  /\ server' = Started
  /\ kept' = (kept \/ server = "down")
  /\ UNCHANGED <<step, app, restarting>>

\* stop_mariadb.bat
StopByHand ==
  /\ byHand < MaxByHand
  /\ byHand' = byHand + 1
  /\ server' = "down"
  /\ kept' = FALSE
  /\ UNCHANGED <<step, app, restarting>>

\* restart_mariadb.bat: taskkill, two seconds ...
RestartKill ==
  /\ ~restarting /\ byHand < MaxByHand
  /\ byHand' = byHand + 1
  /\ restarting' = TRUE
  /\ server' = "down"
  /\ kept' = FALSE
  /\ UNCHANGED <<step, app>>

\* ... and start.
RestartStart ==
  /\ restarting
  /\ restarting' = FALSE
  /\ server' = Started
  /\ kept' = (kept \/ server = "down")
  /\ UNCHANGED <<step, app, byHand>>

LaunchNext ==
  \/ \E l \in Launches : StartDb(l) \/ StartApp(l) \/ CloseApp(l) \/ StopDb(l)
  \/ Booted
  \/ StartByHand
  \/ StopByHand
  \/ RestartKill
  \/ RestartStart

LaunchSpec == LaunchInit /\ [][LaunchNext]_launchVars
-----------------------------------------------------------------------------
\* Runs of start.bat that have started the server and not killed it yet.
Active == {l \in Launches : step[l] \in {"wait", "app", "stop"}}

\* The steps of a run of start.bat.
StepTypeOK == step \in [Launches -> {"off", "wait", "app", "stop", "done"}]

\* No server is left behind: once every run of start.bat has ended, however they
\* overlapped, mysqld runs only if a script other than start.bat started it
\* (start.bat:11-12).
NoServerLeft == Active = {} /\ server # "down" => kept

\* The comment at start.bat:11, "After PHP app exits, stop MariaDB": start.bat
\* does not stop the server while the application is open.
StopsAfterApp ==
  [][\A l \in Launches : step[l] = "stop" /\ step'[l] = "done" => app = NoLaunch]_launchVars
=============================================================================
