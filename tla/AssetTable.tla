----------------------------- MODULE AssetTable -----------------------------
(***************************************************************************)
(* The table assets of inventory_db and the statements the handlers issue  *)
(* on it.  Each statement is one autocommitted transaction.  A row is      *)
(* opaque: the columns are written all together, by the INSERT of          *)
(* new_entry.php and by the UPDATE of edit_asset.php, and no statement     *)
(* reads one column to decide on another.                                  *)
(***************************************************************************)
EXTENDS Parameters

CONSTANTS
  Loaded,      \* bound: the AUTO_INCREMENT the database starts from is at most one more
  Rows,        \* what the columns other than id can hold
  NoRow        \* no row with this id

ASSUME AssetAssumption ==
  /\ Loaded \in 0..MaxAssetId
  /\ NoRow \notin Rows

VARIABLES
  assets,      \* the row with each id, or NoRow
  nextAssetId  \* AUTO_INCREMENT of assets.id

assetVars == <<assets, nextAssetId>>

\* The ids SELECT id FROM assets returns.
LiveAssets == {i \in AssetId : assets[i] # NoRow}

-----------------------------------------------------------------------------
\* A new table, or the delivered dump: any of the ids below its AUTO_INCREMENT
\* may be there.
AssetInit ==
  /\ nextAssetId \in 1..(Loaded + 1)
  /\ assets \in {a \in [AssetId -> Rows \cup {NoRow}] :
                   \A i \in AssetId : i >= nextAssetId => a[i] = NoRow}

\* INSERT INTO assets (...) VALUES (...): the id is the AUTO_INCREMENT.
InsertAsset(row) ==
  /\ nextAssetId \in AssetId
  /\ assets' = [assets EXCEPT ![nextAssetId] = row]
  /\ nextAssetId' = nextAssetId + 1

\* Mutant of UpdateAsset: REPLACE INTO, which stores a row that is not there.
ReplaceAsset(id, row) ==
  /\ assets' = [assets EXCEPT ![id] = row]
  /\ UNCHANGED nextAssetId

\* UPDATE assets SET every column WHERE id = id: no row, no effect.
UpdateAsset(id, row) ==
  /\ assets' = [i \in AssetId |-> IF i = id /\ assets[i] # NoRow THEN row ELSE assets[i]]
  /\ UNCHANGED nextAssetId

\* DELETE FROM assets WHERE id IN (ids): the ids without a row are skipped.
DeleteAssets(ids) ==
  /\ assets' = [i \in AssetId |-> IF i \in ids THEN NoRow ELSE assets[i]]
  /\ UNCHANGED nextAssetId

AssetNext ==
  \/ \E row \in Rows : InsertAsset(row)
  \/ \E id \in AssetId, row \in Rows : UpdateAsset(id, row)
  \/ \E ids \in SUBSET AssetId : DeleteAssets(ids)

AssetSpec == AssetInit /\ [][AssetNext]_assetVars
-----------------------------------------------------------------------------
(***************************************************************************)
(* What the table promises, per id: AssetLifecycle.                        *)
(***************************************************************************)

\* The types of the rows and of the AUTO_INCREMENT.
AssetTypeOK ==
  /\ assets \in [AssetId -> Rows \cup {NoRow}]
  /\ nextAssetId \in 1..(MaxAssetId + 1)

\* Nothing is stored at or above the AUTO_INCREMENT: an INSERT never meets a
\* row that is already there.
FreshAbove == \A i \in AssetId : i >= nextAssetId => assets[i] = NoRow

\* Where each id is in its life.
StatusOf(i) ==
  CASE assets[i] # NoRow -> "live"
    [] assets[i] = NoRow /\ i < nextAssetId -> "gone"
    [] OTHER -> "unused"

Lifecycle == INSTANCE AssetLifecycle
               WITH Ids <- AssetId, status <- [i \in AssetId |-> StatusOf(i)]

\* The table implements the life cycle: an id is given out once, and the asset
\* that had it is never seen again once it is deleted, whatever sequence of
\* INSERT, UPDATE and DELETE the clients issue (new_entry.php:47,
\* edit_asset.php:28, delete_selected.php:24).
AssetLifecycleHolds == Lifecycle!LifeSpec
=============================================================================
