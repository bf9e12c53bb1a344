------------------------------- MODULE Setup -------------------------------
(***************************************************************************)
(* setup.php: two files of SQL statements, each sent to the server whole   *)
(* and answered statement by statement.  The page may be requested again   *)
(* while an earlier request runs or after it was cut off; PHP ends a       *)
(* request that takes more than 30 seconds (php.ini), and the connection   *)
(* may be lost.  In both cases the server may go on with the file it has.  *)
(* Any statement may also fail, for want of space on the disk for example. *)
(***************************************************************************)
EXTENDS Naturals

CONSTANTS
  Runs,       \* the requests of setup.php
  NumRows     \* the INSERT statements of assets.sql

ASSUME SetupAssumption == NumRows \in Nat

Row == 1..NumRows

VARIABLES
  table,       \* the table assets: "absent" or "present"
  copies,      \* how often each row of assets.sql is in it: it has no key
  usersDone,   \* the last statement of users.sql that took effect, or 0
  script,      \* where the script of each run is
  file,        \* the file the server works on for the run
  next,        \* the statement of it the server comes to
  said,        \* what the page has said
  cut          \* history: the runs that have lost their connection, or for
               \* which the server failed to insert a row of assets.sql

setupVars == <<table, copies, usersDone, script, file, next, said, cut>>

\* What the page may say.
Messages == {"connection failed", "assets imported", "assets error",
             "users imported", "users error", "complete"}

\* The statements of each file.  assets.sql: CREATE TABLE, then one INSERT for
\* each row.  users.sql: SET SQL_MODE, which stands for all that change no
\* table, CREATE TABLE, INSERT and twice ALTER TABLE.
Statements(f) == IF f = "assets" THEN NumRows + 1 ELSE 5

\* A statement that must fail: it creates a table that is there.
Fails(f, n) ==
  \/ f = "assets" /\ n = 1 /\ table = "present"
  \/ f = "users" /\ n = 2 /\ usersDone # 0

-----------------------------------------------------------------------------
\* A server without the tables.
SetupInit ==
  /\ table = "absent"
  /\ copies = [k \in Row |-> 0]
  /\ usersDone = 0
  /\ script = [r \in Runs |-> "start"]
  /\ file = [r \in Runs |-> "none"]
  /\ next = [r \in Runs |-> 1]
  /\ said = [r \in Runs |-> {}]
  /\ cut = {}

\* The server is reached, the database made, and assets.sql sent.
Connect(r) ==
  /\ script[r] = "start"
  /\ script' = [script EXCEPT ![r] = "assets"]
  /\ file' = [file EXCEPT ![r] = "assets"]
  /\ UNCHANGED <<table, copies, usersDone, next, said, cut>>

\* die("Connection failed: ").
CannotConnect(r) ==
  /\ script[r] = "start"
  /\ script' = [script EXCEPT ![r] = "done"]
  /\ said' = [said EXCEPT ![r] = {"connection failed"}]
  /\ UNCHANGED <<table, copies, usersDone, file, next, cut>>

\* Mutant of ExecAssets: create table if not exists.
ExecIfNotExists(r) ==
  /\ file[r] = "assets" /\ next[r] <= Statements("assets")
  /\ table' = "present"
  /\ copies' = IF next[r] = 1 THEN copies ELSE [copies EXCEPT ![next[r] - 1] = @ + 1]
  /\ next' = [next EXCEPT ![r] = @ + 1]
  /\ UNCHANGED <<usersDone, script, file, said, cut>>

\* The next statement of assets.sql takes effect.
ExecAssets(r) ==
  /\ file[r] = "assets" /\ next[r] <= Statements("assets")
  /\ ~Fails("assets", next[r])
  /\ table' = "present"
  /\ copies' = IF next[r] = 1 THEN copies ELSE [copies EXCEPT ![next[r] - 1] = @ + 1]
  /\ next' = [next EXCEPT ![r] = @ + 1]
  /\ UNCHANGED <<usersDone, script, file, said, cut>>

\* The next statement of users.sql takes effect.
ExecUsers(r) ==
  /\ file[r] = "users" /\ next[r] <= Statements("users")
  /\ ~Fails("users", next[r])
  /\ usersDone' = IF next[r] = 1 THEN usersDone ELSE next[r]
  /\ next' = [next EXCEPT ![r] = @ + 1]
  /\ UNCHANGED <<table, copies, script, file, said, cut>>

\* It fails, as it must or by mishap, and the server drops the rest of the file.
StatementFails(r) ==
  /\ file[r] # "none" /\ next[r] <= Statements(file[r])
  /\ file' = [file EXCEPT ![r] = "none"]
  /\ cut' = IF file[r] = "assets" /\ next[r] > 1 THEN cut \cup {r} ELSE cut
  /\ UNCHANGED <<table, copies, usersDone, script, next, said>>

\* The script has read every answer, or one that is an error.
Answers(r) == file[r] = "none" \/ next[r] > Statements(file[r])

\* Mutant of FirstSucceeded: multi_query's result is not looked at.
AlwaysSucceeded(r) == TRUE

\* multi_query is TRUE if the first statement succeeded; next_result ends the
\* loop at a later error as it does at the end.
FirstSucceeded(r) == next[r] > 1

\* What the script says of assets.sql; it sends users.sql in any case.
ReportAssets(r) ==
  /\ script[r] = "assets" /\ Answers(r)
  /\ said' = [said EXCEPT ![r] = {IF FirstSucceeded(r) THEN "assets imported" ELSE "assets error"}]
  /\ script' = [script EXCEPT ![r] = "users"]
  /\ file' = [file EXCEPT ![r] = "users"]
  /\ next' = [next EXCEPT ![r] = 1]
  /\ UNCHANGED <<table, copies, usersDone, cut>>

\* What it says of users.sql, and "Setup complete!".
ReportUsers(r) ==
  /\ script[r] = "users" /\ Answers(r)
  /\ said' = [said EXCEPT ![r] =
                @ \cup {IF FirstSucceeded(r) THEN "users imported" ELSE "users error", "complete"}]
  /\ script' = [script EXCEPT ![r] = "done"]
  /\ file' = [file EXCEPT ![r] = "none"]
  /\ UNCHANGED <<table, copies, usersDone, next, cut>>

\* The connection is lost: next_result is false as it is at the end.  If no
\* answer had come at all multi_query is false, and so it is for a file sent
\* later.
LoseConnection(r, any) ==
  /\ script[r] \in {"assets", "users"}
  /\ any => FirstSucceeded(r)
  /\ cut' = cut \cup {r}
  /\ said' = [said EXCEPT ![r] = @ \cup {"complete"} \cup
                IF script[r] = "assets"
                THEN {IF any THEN "assets imported" ELSE "assets error", "users error"}
                ELSE {IF any THEN "users imported" ELSE "users error"}]
  /\ script' = [script EXCEPT ![r] = "done"]
  /\ UNCHANGED <<table, copies, usersDone, file, next>>

\* max_execution_time: the script ends where it is.
Abort(r) ==
  /\ script[r] \in {"assets", "users"}
  /\ script' = [script EXCEPT ![r] = "done"]
  /\ UNCHANGED <<table, copies, usersDone, file, next, said, cut>>

\* The server notices that nobody reads its answers.
ServerStops(r) ==
  /\ script[r] = "done" /\ file[r] # "none"
  /\ file' = [file EXCEPT ![r] = "none"]
  /\ UNCHANGED <<table, copies, usersDone, script, next, said, cut>>

SetupNext ==
  \E r \in Runs :
    \/ Connect(r) \/ CannotConnect(r)
    \/ ExecAssets(r) \/ ExecUsers(r) \/ StatementFails(r)
    \/ ReportAssets(r) \/ ReportUsers(r)
    \/ \E any \in BOOLEAN : LoseConnection(r, any)
    \/ Abort(r) \/ ServerStops(r)

SetupSpec == SetupInit /\ [][SetupNext]_setupVars
-----------------------------------------------------------------------------
(***************************************************************************)
(* Properties                                                              *)
(***************************************************************************)

\* However often and however concurrently setup.php is requested, and wherever
\* requests are cut off, no asset of the file is there twice and none is
\* skipped before a later one: the table, which has no key, is a beginning of
\* assets.sql (assets.sql:1, setup.php:19).
EachAssetOnce ==
  \A k \in Row : copies[k] <= 1 /\ (copies[k] = 1 => \A j \in 1..(k - 1) : copies[j] = 1)

\* A request that says that assets.sql was imported (setup.php:24) has imported all
\* of it, though it looks at the result of one statement only and others may have
\* tried at the same time: what one statement tells is that the table is its own.
\* It cannot tell that the connection was lost or an INSERT failed later: in these
\* runs the page says the same of a part of the file.
ImportedIsComplete ==
  \A r \in Runs : "assets imported" \in said[r] /\ r \notin cut =>
    table = "present" /\ \A k \in Row : copies[k] = 1
-----------------------------------------------------------------------------
(***************************************************************************)
(* The inductive invariant behind the first two properties                 *)
(***************************************************************************)

SetupTypeOK ==
  /\ table \in {"absent", "present"}
  /\ copies \in [Row -> Nat]
  /\ script \in [Runs -> {"start", "assets", "users", "done"}]
  /\ file \in [Runs -> {"none", "assets", "users"}]
  /\ next \in [Runs -> Nat \ {0}]
  /\ said \in [Runs -> SUBSET Messages]
  /\ cut \subseteq Runs

\* The server is past the CREATE TABLE of assets.sql.
Importing(r) == file[r] = "assets" /\ next[r] > 1

\* Only the run that created the table inserts, and it is where the table is.
OneImporter ==
  /\ \A r \in Runs : Importing(r) =>
       /\ table = "present" /\ next[r] <= NumRows + 2
       /\ \A k \in Row : copies[k] = IF k + 1 < next[r] THEN 1 ELSE 0
  /\ table = "absent" => \A k \in Row : copies[k] = 0
  /\ \A r, s \in Runs : Importing(r) /\ Importing(s) => r = s

\* What the script may conclude from where the server stopped.
StagesAgree ==
  \A r \in Runs :
    /\ script[r] = "start" => file[r] = "none" /\ next[r] = 1 /\ said[r] = {}
    /\ script[r] = "assets" => said[r] = {} /\ file[r] # "users"
    /\ script[r] = "assets" /\ next[r] > 1 => file[r] = "assets" \/ r \in cut
    /\ script[r] = "users" => file[r] # "assets"

SetupInv ==
  SetupTypeOK /\ EachAssetOnce /\ OneImporter /\ StagesAgree /\ ImportedIsComplete
=============================================================================
