-------------------------- MODULE AssetTableProofs --------------------------
(***************************************************************************)
(* Proofs about AssetTable, for any largest id and any initial table.      *)
(***************************************************************************)
EXTENDS AssetTable, TLAPS

\* The inductive invariant of the table.
AssetInv == AssetTypeOK /\ FreshAbove

\* Every table the dump may hold satisfies the invariant.
LEMMA AssetInvInit == AssetInit => AssetInv
  BY ParameterAssumption, AssetAssumption
  DEF AssetInit, AssetInv, AssetTypeOK, FreshAbove, AssetId

\* Every statement keeps the invariant.
LEMMA AssetInvStep == AssetInv /\ [AssetNext]_assetVars => AssetInv'
<1> SUFFICES ASSUME AssetInv, [AssetNext]_assetVars
             PROVE  AssetInv'
  OBVIOUS
<1> USE ParameterAssumption, AssetAssumption DEF AssetInv, AssetTypeOK, FreshAbove, AssetId
<1>1. ASSUME NEW row \in Rows, InsertAsset(row)
      PROVE  AssetInv'
  BY <1>1 DEF InsertAsset
<1>2. ASSUME NEW id \in AssetId, NEW row \in Rows, UpdateAsset(id, row)
      PROVE  AssetInv'
  BY <1>2 DEF UpdateAsset
<1>3. ASSUME NEW ids \in SUBSET AssetId, DeleteAssets(ids)
      PROVE  AssetInv'
  BY <1>3 DEF DeleteAssets
<1>4. CASE UNCHANGED assetVars
  BY <1>4 DEF assetVars
<1> QED
  BY <1>1, <1>2, <1>3, <1>4 DEF AssetNext

\* The statements on assets keep the types and never store anything at or above
\* the AUTO_INCREMENT.
THEOREM AssetInvariant == AssetSpec => []AssetInv
  BY AssetInvInit, AssetInvStep, PTL DEF AssetSpec

\* A statement allocates one unused id, or retires some live ones, or leaves
\* every id where it is in its life.
LEMMA LifeStep ==
  ASSUME AssetInv, AssetInv', [AssetNext]_assetVars
  PROVE  [Lifecycle!LifeNext]_([i \in AssetId |-> StatusOf(i)])
<1> DEFINE now == [i \in AssetId |-> StatusOf(i)]
<1> USE ParameterAssumption, AssetAssumption DEF AssetInv, AssetTypeOK, FreshAbove, AssetId
<1>1. ASSUME NEW row \in Rows, InsertAsset(row)
      PROVE  \E i \in AssetId : Lifecycle!Allocate(i)
  <2>1. PICK k \in AssetId : k = nextAssetId
    BY <1>1 DEF InsertAsset
  <2>2. StatusOf(k) = "unused" /\ StatusOf(k)' = "live"
    BY <1>1, <2>1 DEF InsertAsset, StatusOf
  <2>3. \A i \in AssetId : i # k => StatusOf(i)' = StatusOf(i)
    BY <1>1, <2>1 DEF InsertAsset, StatusOf
  <2>4. now' = [now EXCEPT ![k] = "live"]
    BY <2>2, <2>3
  <2> QED
    BY <2>2, <2>4 DEF Lifecycle!Allocate
<1>2. ASSUME NEW id \in AssetId, NEW row \in Rows, UpdateAsset(id, row)
      PROVE  now' = now
  <2>1. \A i \in AssetId : StatusOf(i)' = StatusOf(i)
    BY <1>2 DEF UpdateAsset, StatusOf
  <2> QED
    BY <2>1
<1>3. ASSUME NEW ids \in SUBSET AssetId, DeleteAssets(ids)
      PROVE  \E gone \in SUBSET AssetId : Lifecycle!Retire(gone)
  <2> DEFINE gone == {i \in ids : assets[i] # NoRow}
  <2>1. \A i \in gone : StatusOf(i) = "live" /\ StatusOf(i)' = "gone"
    BY <1>3 DEF DeleteAssets, StatusOf
  <2>2. \A i \in AssetId : i \notin gone => StatusOf(i)' = StatusOf(i)
    BY <1>3 DEF DeleteAssets, StatusOf
  <2>3. now' = [i \in AssetId |-> IF i \in gone THEN "gone" ELSE now[i]]
    <3> HIDE DEF gone
    <3> QED BY <2>1, <2>2
  <2>4. \A i \in gone : now[i] = "live"
    BY <2>1
  <2>5. Lifecycle!Retire(gone)
    BY <2>3, <2>4 DEF Lifecycle!Retire
  <2> QED
    BY <2>5
<1>4. CASE UNCHANGED assetVars
  <2>1. \A i \in AssetId : StatusOf(i)' = StatusOf(i)
    BY <1>4 DEF assetVars, StatusOf
  <2> QED
    BY <2>1
<1> QED
  BY <1>1, <1>2, <1>3, <1>4 DEF AssetNext, Lifecycle!LifeNext

\* The table assets implements the life cycle of an id: unused, live, gone, and
\* never back (new_entry.php:47, edit_asset.php:28, delete_selected.php:24).
THEOREM TableImplementsLifecycle == AssetSpec => AssetLifecycleHolds
<1>1. AssetInit => Lifecycle!LifeInit
  BY DEF AssetInit, Lifecycle!LifeInit, StatusOf
<1> QED
  BY <1>1, LifeStep, AssetInvariant, PTL DEF AssetSpec, AssetLifecycleHolds, Lifecycle!LifeSpec
=============================================================================
