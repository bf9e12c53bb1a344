----------------------------- MODULE HistoryLog -----------------------------
(***************************************************************************)
(* The table history_log of inventory_db and the protocol by which the     *)
(* three handlers that change assets (new_entry.php, edit_asset.php,       *)
(* delete_selected.php) write to it: one INSERT, then one DELETE that      *)
(* trims the table to its LogLimit newest rows.  The two statements are    *)
(* separate autocommitted transactions on the handler's own connection, so *)
(* those of different requests interleave, and the value returned by       *)
(* $conn->query is ignored, so each of them may be lost.                   *)
(*                                                                         *)
(* A client has at most one request in flight: the PHP session file is     *)
(* locked until the response is complete.  Rows are ordered by a timestamp *)
(* with a resolution of one second, which many rows may share.             *)
(***************************************************************************)
EXTENDS Parameters

CONSTANTS
  Notes,      \* what the columns username and action can say
  LogLimit,   \* the LIMIT of the trimming DELETE (15 in the code)
  DashLimit,  \* the LIMIT of the dashboard's SELECT (5 in the code)
  MaxLogId,   \* bound: rows ever inserted
  MaxTime     \* bound: seconds that pass

ASSUME LogAssumption ==
  /\ LogLimit \in Nat /\ DashLimit \in 0..LogLimit
  /\ MaxLogId \in Nat /\ MaxTime \in Nat

VARIABLES
  log,        \* the rows of history_log
  nextLogId,  \* AUTO_INCREMENT of history_log.id
  clock,      \* the database server's clock, in seconds
  phase,      \* how far each writer is: "idle", "insert" or "trim"
  missed,     \* history: rows inserted whose writer's trim was lost, since
              \* the last trim that succeeded
  droppedTs   \* history: the latest timestamp of a row trimmed so far

logVars == <<log, nextLogId, clock, phase, missed, droppedTs>>

LogId == 1..MaxLogId
Time  == 0..MaxTime
Entry == [id : LogId, ts : Time, note : Notes]

\* Clients between their INSERT and their DELETE.
Trimming == {c \in Clients : phase[c] = "trim"}

\* The results SELECT ... ORDER BY timestamp DESC LIMIT n may return: n rows
\* such that no other row is newer than one of them.  Rows with the same
\* timestamp come in any order.
Newest(rows, n) ==
  {top \in SUBSET rows :
     /\ Cardinality(top) = IF Cardinality(rows) < n THEN Cardinality(rows) ELSE n
     /\ \A r \in rows \ top, t \in top : r.ts <= t.ts}

-----------------------------------------------------------------------------
LogInit ==
  /\ log = {}
  /\ nextLogId = 1
  /\ clock = 0
  /\ phase = [c \in Clients |-> "idle"]
  /\ missed = 0
  /\ droppedTs = 0

\* The asset statement of c succeeded: c goes on to write its note.
BeginLog(c) ==
  /\ phase[c] = "idle"
  /\ nextLogId + Cardinality({d \in Clients : phase[d] = "insert"}) <= MaxLogId
  /\ phase' = [phase EXCEPT ![c] = "insert"]
  /\ UNCHANGED <<log, nextLogId, clock, missed, droppedTs>>

\* INSERT INTO history_log (username, action): id and timestamp are defaults.
InsertLog(c, note) ==
  /\ phase[c] = "insert"
  /\ nextLogId \in LogId
  /\ log' = log \cup {[id |-> nextLogId, ts |-> clock, note |-> note]}
  /\ nextLogId' = nextLogId + 1
  /\ phase' = [phase EXCEPT ![c] = "trim"]
  /\ UNCHANGED <<clock, missed, droppedTs>>

\* The INSERT is lost with c's connection, and so is the DELETE after it.
InsertLost(c) ==
  /\ phase[c] = "insert"
  /\ phase' = [phase EXCEPT ![c] = "idle"]
  /\ UNCHANGED <<log, nextLogId, clock, missed, droppedTs>>

\* c's DELETE leaves one of the given sets of rows.
TrimKeeping(c, keeps) ==
  /\ phase[c] = "trim"
  /\ \E keep \in keeps :
       /\ log' = keep
       /\ droppedTs' \in {droppedTs} \cup {e.ts : e \in log \ keep}
       /\ \A e \in log \ keep : e.ts <= droppedTs'
       /\ droppedTs <= droppedTs'
  /\ missed' = 0
  /\ phase' = [phase EXCEPT ![c] = "idle"]
  /\ UNCHANGED <<nextLogId, clock>>

\* Mutant of TrimLog: the LIMIT is one too high.
TrimOneMore(c) == TrimKeeping(c, Newest(log, LogLimit + 1))

\* Mutant of TrimLog: ORDER BY timestamp without DESC.
TrimAscending(c) ==
  TrimKeeping(c, {keep \in SUBSET log :
                    /\ Cardinality(keep) = IF Cardinality(log) < LogLimit
                                           THEN Cardinality(log) ELSE LogLimit
                    /\ \A r \in log \ keep, t \in keep : t.ts <= r.ts})

\* DELETE FROM history_log WHERE id NOT IN (the LogLimit newest rows).  The
\* subquery and the deletion are one statement, hence one transaction.
TrimLog(c) == TrimKeeping(c, Newest(log, LogLimit))

\* The DELETE is lost: the connection is gone, or InnoDB chose it as the
\* victim of a deadlock with another writer's statement.
TrimLost(c) ==
  /\ phase[c] = "trim"
  /\ missed' = missed + 1
  /\ phase' = [phase EXCEPT ![c] = "idle"]
  /\ UNCHANGED <<log, nextLogId, clock, droppedTs>>

\* A second passes on the database server.
Tick ==
  /\ clock < MaxTime
  /\ clock' = clock + 1
  /\ UNCHANGED <<log, nextLogId, phase, missed, droppedTs>>

LogNext ==
  \/ \E c \in Clients :
       \/ BeginLog(c)
       \/ \E note \in Notes : InsertLog(c, note)
       \/ InsertLost(c)
       \/ TrimLog(c)
       \/ TrimLost(c)
  \/ Tick

LogSpec == LogInit /\ [][LogNext]_logVars
-----------------------------------------------------------------------------
(***************************************************************************)
(* Properties                                                              *)
(***************************************************************************)

\* The types of the table's rows, of its AUTO_INCREMENT and of the writers'
\* progress.
LogTypeOK ==
  /\ log \in SUBSET Entry
  /\ IsFiniteSet(log)
  /\ nextLogId \in 1..(MaxLogId + 1)
  /\ clock \in Time
  /\ phase \in [Clients -> {"idle", "insert", "trim"}]
  /\ missed \in Nat
  /\ droppedTs \in Time

\* The log never outgrows LogLimit ("Keep only the 15 most recent entries",
\* edit_asset.php:36) by more than the rows of requests that have not
\* trimmed yet and the rows whose trim was lost since the last successful
\* one: one successful trim repairs every earlier loss.
LogBound == Cardinality(log) <= LogLimit + Cardinality(Trimming) + missed

\* Whatever the interleaving of inserts and trims, no row still in the log is
\* older than a row that was ever trimmed.
DroppedAreOldest == \A e \in log : droppedTs <= e.ts

\* Rows carry timestamps of the past, and so does the newest row dropped: what
\* makes DroppedAreOldest inductive.
LogOfThePast ==
  /\ \A e \in log : e.ts <= clock
  /\ droppedTs <= clock

\* The inductive invariant of the log.
LogInv == LogTypeOK /\ LogBound /\ DroppedAreOldest /\ LogOfThePast

\* The rows the dashboard may list (dashboard.php:167).
DashboardViews == Newest(log, DashLimit)

\* Trimming never shows on the dashboard: what it may list after a trim it
\* might have listed before.
TrimInvisible ==
  [][(\E c \in Clients : TrimLog(c)) => DashboardViews' \subseteq DashboardViews]_logVars
=============================================================================
