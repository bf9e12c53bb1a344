-------------------------- MODULE HistoryLogProofs --------------------------
(***************************************************************************)
(* Proofs about HistoryLog, for any number of clients, any limit and any   *)
(* bounds.                                                                 *)
(***************************************************************************)
EXTENDS HistoryLog, FiniteSetTheorems, WellFoundedInduction, TLAPS

\* What the trimming subquery returns: some of the rows, at most n, and none
\* of the other rows is newer.
LEMMA NewestFacts ==
  ASSUME NEW rows, IsFiniteSet(rows), NEW n \in Nat, NEW top \in Newest(rows, n)
  PROVE  /\ top \subseteq rows
         /\ IsFiniteSet(top)
         /\ Cardinality(top) \in Nat /\ Cardinality(rows) \in Nat
         /\ Cardinality(top) <= n
         /\ \A r \in rows \ top, t \in top : r.ts <= t.ts
<1>1. top \subseteq rows /\ \A r \in rows \ top, t \in top : r.ts <= t.ts
  BY DEF Newest
<1>2. IsFiniteSet(top)
  BY <1>1, FS_Subset
<1>3. Cardinality(top) \in Nat /\ Cardinality(rows) \in Nat
  BY <1>2, FS_CardinalityType
<1>4. Cardinality(top) = IF Cardinality(rows) < n THEN Cardinality(rows) ELSE n
  BY DEF Newest
<1> QED
  BY <1>1, <1>2, <1>3, <1>4

\* The clients between INSERT and DELETE are finitely many.
LEMMA TrimmingFinite == IsFiniteSet(Trimming) /\ Cardinality(Trimming) \in Nat
<1>1. Trimming \subseteq Clients
  BY DEF Trimming
<1> QED
  BY <1>1, ParameterAssumption, FS_Subset, FS_CardinalityType

\* Every step keeps the inductive invariant of the log.
LEMMA LogInvStep == LogInv /\ [LogNext]_logVars => LogInv'
<1> SUFFICES ASSUME LogInv, [LogNext]_logVars
             PROVE  LogInv'
  OBVIOUS
<1> USE LogAssumption, ParameterAssumption DEF LogInv, LogTypeOK, LogOfThePast, Entry, LogId, Time
<1>0. IsFiniteSet(Trimming) /\ Cardinality(Trimming) \in Nat /\ Cardinality(log) \in Nat
  BY TrimmingFinite, FS_CardinalityType
<1>1. ASSUME NEW c \in Clients, BeginLog(c)
      PROVE  LogInv'
  <2>1. Trimming' = Trimming
    BY <1>1 DEF BeginLog, Trimming
  <2> QED
    BY <1>1, <2>1 DEF BeginLog, LogBound, DroppedAreOldest
<1>2. ASSUME NEW c \in Clients, NEW note \in Notes, InsertLog(c, note)
      PROVE  LogInv'
  <2> DEFINE row == [id |-> nextLogId, ts |-> clock, note |-> note]
  <2>1. /\ log' = log \cup {row} /\ row \in Entry /\ row.ts = clock
        /\ nextLogId' = nextLogId + 1 /\ nextLogId \in 1..MaxLogId
        /\ phase' = [phase EXCEPT ![c] = "trim"] /\ phase[c] = "insert"
        /\ UNCHANGED <<clock, missed, droppedTs>>
    BY <1>2 DEF InsertLog
  <2> HIDE DEF row
  <2>2. IsFiniteSet(log') /\ Cardinality(log') <= Cardinality(log) + 1
    <3>1. /\ IsFiniteSet(log \cup {row})
          /\ Cardinality(log \cup {row}) = Cardinality(log)
               \/ Cardinality(log \cup {row}) = Cardinality(log) + 1
      BY FS_AddElement
    <3> QED
      BY <1>0, <2>1, <3>1
  <2>3. Trimming' = Trimming \cup {c} /\ c \notin Trimming
    BY <2>1 DEF Trimming
  <2>4. Cardinality(Trimming') = Cardinality(Trimming) + 1
    BY <2>3, <1>0, FS_AddElement
  <2>5. LogTypeOK'
    BY <2>1, <2>2
  <2>6. LogBound'
    <3>1. Cardinality(log') \in Nat
      BY <2>2, FS_CardinalityType
    <3> QED
      BY <1>0, <2>1, <2>2, <2>4, <3>1 DEF LogBound
  <2>7. DroppedAreOldest' /\ LogOfThePast'
    BY <2>1 DEF DroppedAreOldest
  <2> QED
    BY <2>5, <2>6, <2>7
<1>3. ASSUME NEW c \in Clients, InsertLost(c)
      PROVE  LogInv'
  <2>1. Trimming' = Trimming
    BY <1>3 DEF InsertLost, Trimming
  <2> QED
    BY <1>3, <2>1 DEF InsertLost, LogBound, DroppedAreOldest
<1>4. ASSUME NEW c \in Clients, TrimLog(c)
      PROVE  LogInv'
  <2>1. PICK keep \in Newest(log, LogLimit) :
          /\ log' = keep
          /\ droppedTs' \in {droppedTs} \cup {e.ts : e \in log \ keep}
          /\ \A e \in log \ keep : e.ts <= droppedTs'
          /\ droppedTs <= droppedTs'
    BY <1>4 DEF TrimLog, TrimKeeping
  <2>2. /\ keep \subseteq log /\ IsFiniteSet(keep) /\ Cardinality(keep) \in Nat
        /\ Cardinality(keep) <= LogLimit
        /\ \A r \in log \ keep, t \in keep : r.ts <= t.ts
    BY NewestFacts
  <2>3. /\ missed' = 0 /\ phase' = [phase EXCEPT ![c] = "idle"]
        /\ UNCHANGED <<nextLogId, clock>>
    BY <1>4 DEF TrimLog, TrimKeeping
  <2>4. Cardinality(Trimming') \in Nat
    <3>1. Trimming' \subseteq Clients
      BY DEF Trimming
    <3> QED
      BY <3>1, FS_Subset, FS_CardinalityType
  <2>5. LogBound'
    BY <2>1, <2>2, <2>3, <2>4 DEF LogBound
  <2>6. CASE droppedTs' = droppedTs
    <3>1. LogTypeOK' /\ DroppedAreOldest' /\ LogOfThePast'
      BY <2>1, <2>2, <2>3, <2>6 DEF DroppedAreOldest
    <3> QED
      BY <3>1, <2>5
  <2>7. CASE droppedTs' \in {e.ts : e \in log \ keep}
    <3>1. PICK e \in log \ keep : droppedTs' = e.ts
      BY <2>7
    <3>2. e.ts \in 0..MaxTime /\ e.ts <= clock
      OBVIOUS
    <3>3. LogTypeOK' /\ DroppedAreOldest' /\ LogOfThePast'
      BY <2>1, <2>2, <2>3, <3>1, <3>2 DEF DroppedAreOldest
    <3> QED
      BY <3>3, <2>5
  <2> QED
    BY <2>1, <2>6, <2>7
<1>5. ASSUME NEW c \in Clients, TrimLost(c)
      PROVE  LogInv'
  <2>1. Trimming' = Trimming \ {c} /\ c \in Trimming
    BY <1>5 DEF TrimLost, Trimming
  <2>2. Cardinality(Trimming') = Cardinality(Trimming) - 1
    BY <2>1, <1>0, FS_RemoveElement
  <2>3. LogTypeOK' /\ DroppedAreOldest' /\ LogOfThePast'
    BY <1>5 DEF TrimLost, DroppedAreOldest
  <2> QED
    BY <1>0, <1>5, <2>2, <2>3 DEF TrimLost, LogBound
<1>6. CASE Tick
  <2>1. Trimming' = Trimming
    BY <1>6 DEF Tick, Trimming
  <2> QED
    BY <1>6, <2>1 DEF Tick, LogBound, DroppedAreOldest
<1>7. CASE UNCHANGED logVars
  <2>1. Trimming' = Trimming
    BY <1>7 DEF logVars, Trimming
  <2> QED
    BY <1>7, <2>1 DEF logVars, LogBound, DroppedAreOldest
<1> QED
  BY <1>1, <1>2, <1>3, <1>4, <1>5, <1>6, <1>7 DEF LogNext

\* The empty log satisfies the invariant.
LEMMA LogInvInit == LogInit => LogInv
<1> SUFFICES ASSUME LogInit PROVE LogInv
  OBVIOUS
<1>1. IsFiniteSet(log) /\ Cardinality(log) = 0
  BY FS_EmptySet DEF LogInit
<1> QED
  BY <1>1, TrimmingFinite, LogAssumption
  DEF LogInit, LogInv, LogTypeOK, LogBound, DroppedAreOldest, LogOfThePast, Entry, LogId, Time

\* The log protocol keeps its invariant: types, the bound on the number of
\* rows, and that no row left is older than a row trimmed.
THEOREM LogInvariant == LogSpec => []LogInv
<1> QED
  BY LogInvInit, LogInvStep, PTL DEF LogSpec

\* The table history_log holds LogLimit rows and at most one more for each
\* request that has not trimmed yet and each trim lost since the last one that
\* succeeded (edit_asset.php:34-44, new_entry.php:51-52).
THEOREM LogBoundHolds == LogSpec => []LogBound
<1>1. LogInv => LogBound
  BY DEF LogInv
<1> QED
  BY <1>1, LogInvariant, PTL

\* However inserts and trims of different requests interleave, no row left in
\* history_log is older than a row that was ever trimmed.
THEOREM DroppedAreOldestHolds == LogSpec => []DroppedAreOldest
<1>1. LogInv => DroppedAreOldest
  BY DEF LogInv
<1> QED
  BY <1>1, LogInvariant, PTL

\* Trimming never shows on the dashboard: what dashboard.php:167 may list after
\* a trim it might have listed before.
THEOREM TrimInvisibleHolds == LogSpec => TrimInvisible
<1>1. ASSUME LogInv, NEW c \in Clients, TrimLog(c)
      PROVE  DashboardViews' \subseteq DashboardViews
  <2> USE LogAssumption
  <2>0. IsFiniteSet(log) /\ Cardinality(log) \in Nat /\ LogLimit \in Nat /\ DashLimit \in 0..LogLimit
    BY <1>1, FS_CardinalityType DEF LogInv, LogTypeOK
  <2>1. PICK keep \in Newest(log, LogLimit) : log' = keep
    BY <1>1 DEF TrimLog, TrimKeeping
  <2>2. /\ keep \subseteq log /\ Cardinality(keep) \in Nat
        /\ \A r \in log \ keep, t \in keep : r.ts <= t.ts
    BY <2>0, NewestFacts
  <2>3. Cardinality(keep) = IF Cardinality(log) < LogLimit THEN Cardinality(log) ELSE LogLimit
    BY DEF Newest
  <2>4. SUFFICES ASSUME NEW view \in Newest(keep, DashLimit)
                 PROVE  view \in Newest(log, DashLimit)
    BY <2>1 DEF DashboardViews, Newest
  <2>5. /\ view \in SUBSET keep
        /\ Cardinality(view) = IF Cardinality(keep) < DashLimit THEN Cardinality(keep) ELSE DashLimit
        /\ \A r \in keep \ view, t \in view : r.ts <= t.ts
    BY DEF Newest
  <2>6. Cardinality(view) = IF Cardinality(log) < DashLimit THEN Cardinality(log) ELSE DashLimit
    BY <2>0, <2>2, <2>3, <2>5
  <2>7. \A r \in log \ view, t \in view : r.ts <= t.ts
    BY <2>2, <2>5
  <2> QED
    BY <2>2, <2>5, <2>6, <2>7 DEF Newest
<1>2. LogInv => [(\E c \in Clients : TrimLog(c)) => DashboardViews' \subseteq DashboardViews]_logVars
  BY <1>1
<1> QED
  BY <1>2, LogInvariant, PTL DEF TrimInvisible

-----------------------------------------------------------------------------
\* The order of the natural numbers as a relation.
Below == {p \in Nat \X Nat : p[1] < p[2]}

\* A set of natural numbers that is not empty has a least member.  An argument by
\* induction takes the least number for which its claim fails.
LEMMA LeastMember ==
  ASSUME NEW T \in SUBSET Nat, T # {}
  PROVE  \E x \in T : \A y \in T : x <= y
<1>1. IsWellFoundedOn(Below, Nat)
  <2>1. Below = OpToRel(<, Nat)
    BY DEF Below, OpToRel
  <2> QED
    BY <2>1, NatLessThanWellFounded
<1>2. PICK x \in T : \A y \in T : ~(<<y, x>> \in Below)
  BY <1>1, WFMin
<1>3. ASSUME NEW y \in T PROVE x <= y
  <2>1. <<y, x>> \in Nat \X Nat /\ ~(<<y, x>>[1] < <<y, x>>[2])
    BY <1>2 DEF Below
  <2> QED
    BY <2>1
<1> QED
  BY <1>3

\* Among rows with bounded timestamps there is one that no other is newer than.
LEMMA LatestRow ==
  ASSUME NEW rows, rows # {}, NEW top \in Nat, \A r \in rows : r.ts \in 0..top
  PROVE  \E x \in rows : \A r \in rows : r.ts <= x.ts
<1> DEFINE gaps == {top - r.ts : r \in rows}
<1>1. gaps \in SUBSET Nat /\ gaps # {}
  OBVIOUS
<1>2. PICK g \in gaps : \A h \in gaps : g <= h
  <2> HIDE DEF gaps
  <2> QED
    BY <1>1, LeastMember
<1>3. PICK x \in rows : g = top - x.ts
  OBVIOUS
<1>4. \A r \in rows : top - x.ts <= top - r.ts
  BY <1>2, <1>3
<1> QED
  BY <1>4

\* SELECT ... ORDER BY timestamp DESC LIMIT n always has a result.  The rows are
\* taken one by one, each time a latest of those that are left.
LEMMA NewestExists ==
  ASSUME NEW rows, IsFiniteSet(rows), NEW last \in Nat, \A r \in rows : r.ts \in 0..last,
         NEW n \in Nat
  PROVE  Newest(rows, n) # {}
<1> DEFINE Tops(k) == {top \in SUBSET rows :
             Cardinality(top) = k /\ \A r \in rows \ top, t \in top : r.ts <= t.ts}
<1>0. Cardinality(rows) \in Nat
  BY FS_CardinalityType
<1>1. Tops(0) # {}
  <2>1. {} \in Tops(0)
    BY FS_EmptySet
  <2> QED
    BY <2>1
<1>2. ASSUME NEW k \in Nat, k < Cardinality(rows), Tops(k) # {} PROVE Tops(k + 1) # {}
  <2>1. PICK top \in SUBSET rows :
          Cardinality(top) = k /\ \A r \in rows \ top, t \in top : r.ts <= t.ts
    BY <1>2
  <2>2. IsFiniteSet(top) /\ top # rows
    BY <1>0, <1>2, <2>1, FS_Subset
  <2>3. PICK x \in rows \ top : \A r \in rows \ top : r.ts <= x.ts
    <3>1. rows \ top # {} /\ \A r \in rows \ top : r.ts \in 0..last
      BY <2>2
    <3> QED
      BY <3>1, LatestRow
  <2>4. Cardinality(top \cup {x}) = k + 1
    BY <2>1, <2>2, <2>3, FS_AddElement
  <2>5. \A r \in rows \ (top \cup {x}), t \in top \cup {x} : r.ts <= t.ts
    BY <2>1, <2>3
  <2>6. top \cup {x} \in Tops(k + 1)
    BY <2>4, <2>5
  <2> QED
    BY <2>6
<1>3. \A k \in 0..Cardinality(rows) : Tops(k) # {}
  <2> DEFINE bad == {k \in 0..Cardinality(rows) : Tops(k) = {}}
  <2> HIDE DEF Tops
  <2> SUFFICES ASSUME bad # {} PROVE FALSE
    OBVIOUS
  <2>1. bad \in SUBSET Nat
    BY <1>0
  <2>2. PICK k \in bad : \A j \in bad : k <= j
    <3> HIDE DEF bad
    <3> QED
      BY <2>1, LeastMember
  <2>3. k \in 0..Cardinality(rows) /\ Tops(k) = {} /\ k # 0
    BY <1>1, <2>2
  <2>4. k - 1 \in Nat /\ k - 1 < Cardinality(rows) /\ k - 1 \notin bad
    BY <1>0, <2>2, <2>3
  <2>5. Tops(k - 1) # {}
    BY <1>0, <2>3, <2>4
  <2>6. Tops((k - 1) + 1) # {}
    BY <1>2, <2>4, <2>5
  <2>7. (k - 1) + 1 = k
    BY <1>0, <2>3
  <2> QED
    BY <2>3, <2>6, <2>7
<1>4. PICK k \in 0..Cardinality(rows) : k = IF Cardinality(rows) < n THEN Cardinality(rows) ELSE n
  BY <1>0
<1>5. PICK top \in Tops(k) : TRUE
  BY <1>3
<1>6. top \in Newest(rows, n)
  BY <1>4, <1>5 DEF Newest
<1> QED
  BY <1>6

\* The trim has rows to keep, and the rows it drops have a latest timestamp.
TrimPossible ==
  \E keep \in Newest(log, LogLimit) :
    \E ts \in {droppedTs} \cup {e.ts : e \in log \ keep} :
      droppedTs <= ts /\ \A e \in log \ keep : e.ts <= ts

\* Neither statement with ORDER BY and LIMIT is ever without a result: the trim can
\* be carried out in every state (edit_asset.php:37-44), and the dashboard has rows
\* to list (dashboard.php:167), so that TrimInvisible never holds for want of views.
THEOREM SelectsHaveResults == LogSpec => [](TrimPossible /\ DashboardViews # {})
<1>1. ASSUME LogInv PROVE TrimPossible /\ DashboardViews # {}
  <2>0. /\ IsFiniteSet(log) /\ MaxTime \in Nat /\ \A e \in log : e.ts \in 0..MaxTime
        /\ droppedTs \in 0..MaxTime /\ LogLimit \in Nat /\ DashLimit \in Nat
    BY <1>1, LogAssumption DEF LogInv, LogTypeOK, Entry, Time
  <2>1. Newest(log, LogLimit) # {} /\ DashboardViews # {}
    BY <2>0, NewestExists DEF DashboardViews
  <2>2. PICK keep \in Newest(log, LogLimit) : TRUE
    BY <2>1
  <2>3. \E ts \in {droppedTs} \cup {e.ts : e \in log \ keep} :
          droppedTs <= ts /\ \A e \in log \ keep : e.ts <= ts
    <3>1. CASE log \ keep = {}
      BY <2>0, <3>1
    <3>2. CASE log \ keep # {}
      <4>1. \A r \in log \ keep : r.ts \in 0..MaxTime
        BY <2>0
      <4>2. PICK x \in log \ keep : \A r \in log \ keep : r.ts <= x.ts
        BY <2>0, <3>2, <4>1, LatestRow
      <4>3. x.ts \in {droppedTs} \cup {e.ts : e \in log \ keep} /\ droppedTs <= x.ts
        BY <1>1 DEF LogInv, DroppedAreOldest
      <4> QED
        BY <4>2, <4>3
    <3> QED
      BY <3>1, <3>2
  <2> QED
    BY <2>1, <2>3 DEF TrimPossible
<1> QED
  BY <1>1, LogInvariant, PTL
=============================================================================
