----------------------------- MODULE Parameters -----------------------------
(***************************************************************************)
(* The parameters the components share.                                    *)
(***************************************************************************)
EXTENDS Naturals, FiniteSets

CONSTANTS
  Clients,    \* PHP Desktop instances, each with one PHP session
  MaxAssetId  \* the largest value of the column assets.id

ASSUME ParameterAssumption == IsFiniteSet(Clients) /\ MaxAssetId \in Nat

AssetId == 1..MaxAssetId
=============================================================================
