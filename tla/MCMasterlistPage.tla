-------------------------- MODULE MCMasterlistPage --------------------------
(***************************************************************************)
(* MasterlistPage for TLC: assets that the filter and the search tell      *)
(* apart.  The first has nothing in the column of the filter.              *)
(***************************************************************************)
EXTENDS MasterlistPage, TLC

CONSTANTS bare, full

MCFilterOf == bare :> [f \in Filters |-> ""] @@ full :> [f \in Filters |-> "8 GB"]

MCFound == "" :> {bare, full} @@ "tag" :> {bare}
=============================================================================
