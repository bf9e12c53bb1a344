---------------------------- MODULE SetupProofs ----------------------------
(***************************************************************************)
(* Proofs about Setup, for any number of requests and any number of rows.  *)
(*                                                                         *)
(* The table created by assets.sql has no key, so nothing in the database  *)
(* keeps a row from being inserted twice.  What does is that CREATE TABLE  *)
(* is the first statement of the file: at most one request gets past it    *)
(* (OneImporter), and it inserts the rows in their order.                  *)
(***************************************************************************)
EXTENDS Setup, TLAPS

\* The messages, one by one.
LEMMA MessageNames ==
  /\ "connection failed" \in Messages /\ "complete" \in Messages
  /\ "assets imported" \in Messages /\ "assets error" \in Messages
  /\ "users imported" \in Messages /\ "users error" \in Messages
  BY DEF Messages

\* The statement of assets.sql that takes effect creates the table for its run
\* alone, or adds the row after the last one.
LEMMA ExecAssetsKeeps ==
  ASSUME SetupInv, NEW r \in Runs, ExecAssets(r) PROVE SetupInv'
<1> USE SetupAssumption DEF SetupTypeOK, Importing, Row
<1>0. SetupTypeOK /\ EachAssetOnce /\ OneImporter /\ StagesAgree /\ ImportedIsComplete
  BY DEF SetupInv
<1>1. /\ file[r] = "assets" /\ next[r] <= NumRows + 1 /\ table' = "present"
      /\ next' = [next EXCEPT ![r] = @ + 1]
      /\ UNCHANGED <<usersDone, script, file, said, cut>>
  BY DEF ExecAssets, Statements
<1>2. SetupTypeOK'
  BY <1>0, <1>1 DEF ExecAssets
<1>3. StagesAgree'
  BY <1>0, <1>1 DEF StagesAgree
<1>4. \A s \in Runs : Importing(s)' => s = r
  <2>1. CASE next[r] = 1
    BY <2>1, <1>0, <1>1 DEF ExecAssets, Fails, OneImporter
  <2>2. CASE next[r] # 1
    BY <2>2, <1>0, <1>1 DEF OneImporter
  <2> QED
    BY <2>1, <2>2
<1>5. \A k \in Row : copies'[k] = IF k < next[r] THEN 1 ELSE 0
  <2>1. CASE next[r] = 1
    BY <2>1, <1>0 DEF ExecAssets, Fails, OneImporter
  <2>2. CASE next[r] # 1
    <3>1. \A k \in Row : copies[k] = IF k + 1 < next[r] THEN 1 ELSE 0
      BY <2>2, <1>0, <1>1 DEF OneImporter
    <3>2. copies' = [copies EXCEPT ![next[r] - 1] = @ + 1]
      BY <2>2 DEF ExecAssets
    <3> QED
      BY <3>1, <3>2, <2>2, <1>0, <1>1
  <2> QED
    BY <2>1, <2>2
<1>6. EachAssetOnce'
  BY <1>5, <1>0 DEF EachAssetOnce
<1>7. OneImporter'
  BY <1>0, <1>1, <1>4, <1>5 DEF OneImporter
<1>8. ImportedIsComplete'
  <2>1. ASSUME NEW s \in Runs, "assets imported" \in said[s], s \notin cut, NEW k \in Row
        PROVE  copies'[k] = 1
    <3>1. table = "present" /\ \A j \in Row : copies[j] = 1
      BY <2>1, <1>0 DEF ImportedIsComplete
    <3>2. next[r] # 1
      BY <3>1 DEF ExecAssets, Fails
    <3>3. copies[next[r] - 1] = 0 /\ next[r] - 1 \in Row
      BY <3>2, <1>0, <1>1 DEF OneImporter
    <3> QED
      BY <3>1, <3>3
  <2> QED
    BY <2>1, <1>1 DEF ImportedIsComplete
<1> QED
  BY <1>2, <1>3, <1>6, <1>7, <1>8 DEF SetupInv

\* The end of a file is reported for what it is: a run that was not cut short and is
\* past the first statement has come to the last.
LEMMA ReportAssetsKeeps ==
  ASSUME SetupInv, NEW r \in Runs, ReportAssets(r) PROVE SetupInv'
<1> USE SetupAssumption DEF SetupTypeOK, Importing, Row
<1>0. SetupTypeOK /\ EachAssetOnce /\ OneImporter /\ StagesAgree /\ ImportedIsComplete
  BY DEF SetupInv
<1>1. SetupTypeOK'
  <2>1. said' \in [Runs -> SUBSET Messages]
    BY <1>0, MessageNames DEF ReportAssets
  <2>2. next' \in [Runs -> Nat \ {0}]
    <3>1. next' = [next EXCEPT ![r] = 1]
      BY Zenon DEF ReportAssets
    <3>2. next \in [Runs -> Nat \ {0}]
      BY <1>0
    <3>3. 1 \in Nat \ {0}
      OBVIOUS
    <3> QED
      BY <3>1, <3>2, <3>3, Zenon
  <2>3. file' \in [Runs -> {"none", "assets", "users"}]
    BY <1>0 DEF ReportAssets
  <2>4. script' \in [Runs -> {"start", "assets", "users", "done"}]
    BY <1>0 DEF ReportAssets
  <2> QED
    BY <2>1, <2>2, <2>3, <2>4, <1>0 DEF ReportAssets
<1>2. EachAssetOnce'
  BY <1>0 DEF ReportAssets, EachAssetOnce
<1>3. OneImporter'
  BY <1>0 DEF ReportAssets, OneImporter
<1>4. StagesAgree'
  BY <1>0 DEF ReportAssets, StagesAgree
<1>5. ASSUME "assets imported" \in said'[r], r \notin cut
      PROVE  table = "present" /\ \A k \in Row : copies[k] = 1
  <2>1. FirstSucceeded(r)
    BY <1>0, <1>5 DEF ReportAssets
  <2>2. Importing(r)
    BY <2>1, <1>0, <1>5 DEF ReportAssets, StagesAgree, FirstSucceeded
  <2>3. next[r] > NumRows + 1
    BY <2>2, <1>0 DEF ReportAssets, Answers, Statements
  <2> QED
    BY <2>2, <2>3, <1>0 DEF OneImporter
<1>6. ImportedIsComplete'
  BY <1>0, <1>5 DEF ReportAssets, ImportedIsComplete
<1> QED
  BY <1>1, <1>2, <1>3, <1>4, <1>6 DEF SetupInv

\* The other steps leave the table assets alone, and no run comes to import.
LEMMA OthersKeep ==
  ASSUME SetupInv, NEW r \in Runs,
         \/ Connect(r) \/ CannotConnect(r) \/ ExecUsers(r) \/ StatementFails(r)
         \/ ReportUsers(r) \/ (\E any \in BOOLEAN : LoseConnection(r, any))
         \/ Abort(r) \/ ServerStops(r)
  PROVE  SetupInv'
<1> USE DEF SetupTypeOK, Importing
<1>0. SetupTypeOK /\ EachAssetOnce /\ OneImporter /\ StagesAgree /\ ImportedIsComplete
  BY DEF SetupInv
<1>1. CASE Connect(r)
  <2>1. SetupTypeOK'
    BY <1>1, <1>0 DEF Connect
  <2>2. EachAssetOnce'
    BY <1>1, <1>0 DEF Connect, EachAssetOnce
  <2>3. OneImporter'
    BY <1>1, <1>0 DEF Connect, OneImporter, StagesAgree
  <2>4. StagesAgree'
    BY <1>1, <1>0 DEF Connect, StagesAgree
  <2>5. ImportedIsComplete'
    BY <1>1, <1>0 DEF Connect, ImportedIsComplete
  <2> QED
    BY <2>1, <2>2, <2>3, <2>4, <2>5 DEF SetupInv
<1>2. CASE CannotConnect(r)
  <2>1. SetupTypeOK'
    BY <1>2, <1>0, MessageNames DEF CannotConnect
  <2>2. EachAssetOnce'
    BY <1>2, <1>0 DEF CannotConnect, EachAssetOnce
  <2>3. OneImporter'
    BY <1>2, <1>0 DEF CannotConnect, OneImporter
  <2>4. StagesAgree'
    BY <1>2, <1>0 DEF CannotConnect, StagesAgree
  <2>5. ImportedIsComplete'
    BY <1>2, <1>0 DEF CannotConnect, ImportedIsComplete
  <2> QED
    BY <2>1, <2>2, <2>3, <2>4, <2>5 DEF SetupInv
<1>3. CASE ExecUsers(r)
  <2>1. SetupTypeOK'
    BY <1>3, <1>0 DEF ExecUsers
  <2>2. EachAssetOnce'
    BY <1>3, <1>0 DEF ExecUsers, EachAssetOnce
  <2>3. OneImporter'
    BY <1>3, <1>0 DEF ExecUsers, OneImporter
  <2>4. StagesAgree'
    BY <1>3, <1>0 DEF ExecUsers, StagesAgree
  <2>5. ImportedIsComplete'
    BY <1>3, <1>0 DEF ExecUsers, ImportedIsComplete
  <2> QED
    BY <2>1, <2>2, <2>3, <2>4, <2>5 DEF SetupInv
<1>4. CASE StatementFails(r)
  <2>1. SetupTypeOK'
    BY <1>4, <1>0 DEF StatementFails
  <2>2. EachAssetOnce'
    BY <1>4, <1>0 DEF StatementFails, EachAssetOnce
  <2>3. OneImporter'
    BY <1>4, <1>0 DEF StatementFails, OneImporter
  <2>4. StagesAgree'
    BY <1>4, <1>0 DEF StatementFails, StagesAgree
  <2>5. ImportedIsComplete'
    BY <1>4, <1>0 DEF StatementFails, ImportedIsComplete
  <2> QED
    BY <2>1, <2>2, <2>3, <2>4, <2>5 DEF SetupInv
<1>5. CASE ReportUsers(r)
  <2>1. SetupTypeOK'
    BY <1>5, <1>0, MessageNames DEF ReportUsers
  <2>2. EachAssetOnce'
    BY <1>5, <1>0 DEF ReportUsers, EachAssetOnce
  <2>3. OneImporter'
    BY <1>5, <1>0 DEF ReportUsers, OneImporter
  <2>4. StagesAgree'
    BY <1>5, <1>0 DEF ReportUsers, StagesAgree
  <2>5. ImportedIsComplete'
    BY <1>5, <1>0 DEF ReportUsers, ImportedIsComplete
  <2> QED
    BY <2>1, <2>2, <2>3, <2>4, <2>5 DEF SetupInv
<1>6. ASSUME NEW any \in BOOLEAN, LoseConnection(r, any) PROVE SetupInv'
  <2>1. SetupTypeOK'
    BY <1>6, <1>0, MessageNames DEF LoseConnection
  <2>2. EachAssetOnce'
    BY <1>6, <1>0 DEF LoseConnection, EachAssetOnce
  <2>3. OneImporter'
    BY <1>6, <1>0 DEF LoseConnection, OneImporter
  <2>4. StagesAgree'
    BY <1>6, <1>0 DEF LoseConnection, StagesAgree
  <2>5. ImportedIsComplete'
    BY <1>6, <1>0 DEF LoseConnection, ImportedIsComplete
  <2> QED
    BY <2>1, <2>2, <2>3, <2>4, <2>5 DEF SetupInv
<1>7. CASE Abort(r)
  <2>1. SetupTypeOK'
    BY <1>7, <1>0 DEF Abort
  <2>2. EachAssetOnce'
    BY <1>7, <1>0 DEF Abort, EachAssetOnce
  <2>3. OneImporter'
    BY <1>7, <1>0 DEF Abort, OneImporter
  <2>4. StagesAgree'
    BY <1>7, <1>0 DEF Abort, StagesAgree
  <2>5. ImportedIsComplete'
    BY <1>7, <1>0 DEF Abort, ImportedIsComplete
  <2> QED
    BY <2>1, <2>2, <2>3, <2>4, <2>5 DEF SetupInv
<1>8. CASE ServerStops(r)
  <2>1. SetupTypeOK'
    BY <1>8, <1>0 DEF ServerStops
  <2>2. EachAssetOnce'
    BY <1>8, <1>0 DEF ServerStops, EachAssetOnce
  <2>3. OneImporter'
    BY <1>8, <1>0 DEF ServerStops, OneImporter
  <2>4. StagesAgree'
    BY <1>8, <1>0 DEF ServerStops, StagesAgree
  <2>5. ImportedIsComplete'
    BY <1>8, <1>0 DEF ServerStops, ImportedIsComplete
  <2> QED
    BY <2>1, <2>2, <2>3, <2>4, <2>5 DEF SetupInv
<1> QED
  BY <1>1, <1>2, <1>3, <1>4, <1>5, <1>6, <1>7, <1>8

\* The inductive invariant of the setup: types, a beginning of assets.sql in the
\* table, one importer, reports that agree with the state.
THEOREM SetupInvariant == SetupSpec => []SetupInv
<1>1. SetupInit => SetupInv
  BY SetupAssumption DEF SetupInit, SetupInv, SetupTypeOK, EachAssetOnce, OneImporter,
       Importing, StagesAgree, ImportedIsComplete, Row
<1>2. SetupInv /\ [SetupNext]_setupVars => SetupInv'
  <2>1. ASSUME SetupInv, SetupNext PROVE SetupInv'
    BY <2>1, ExecAssetsKeeps, ReportAssetsKeeps, OthersKeep DEF SetupNext
  <2>2. ASSUME SetupInv, UNCHANGED setupVars PROVE SetupInv'
    BY <2>2 DEF setupVars, SetupInv, SetupTypeOK, EachAssetOnce, OneImporter,
         Importing, StagesAgree, ImportedIsComplete
  <2> QED
    BY <2>1, <2>2
<1> QED
  BY <1>1, <1>2, PTL DEF SetupSpec

\* No asset of assets.sql is imported twice or out of order, however often and
\* however concurrently setup.php is requested (setup.php:18-24).
THEOREM EachAssetOnceHolds == SetupSpec => []EachAssetOnce
<1>1. SetupInv => EachAssetOnce
  BY DEF SetupInv
<1> QED
  BY <1>1, SetupInvariant, PTL

\* "assets.sql imported successfully" is true of a request whose connection was not
\* lost and for which no INSERT failed, though only the first result is looked at
\* and others may import at the same time (setup.php:19-24).
THEOREM ImportedIsCompleteHolds == SetupSpec => []ImportedIsComplete
<1>1. SetupInv => ImportedIsComplete
  BY DEF SetupInv
<1> QED
  BY <1>1, SetupInvariant, PTL
=============================================================================
