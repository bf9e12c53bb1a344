--------------------------- MODULE AssetLifecycle ---------------------------
(***************************************************************************)
(* What the asset table promises about the id that labels a machine and    *)
(* that the history log cites: it goes from unused to live to gone, in     *)
(* that order, and never back.  A note about asset 7 is therefore about    *)
(* one machine for ever.                                                   *)
(***************************************************************************)
CONSTANT Ids

VARIABLE status  \* status[i] is "unused", "live" or "gone"

LifeInit == status \in [Ids -> {"unused", "live", "gone"}]

\* An unused id is given to a new asset.
Allocate(i) ==
  /\ status[i] = "unused"
  /\ status' = [status EXCEPT ![i] = "live"]

\* Some live assets are deleted together.
Retire(gone) ==
  /\ \A i \in gone : status[i] = "live"
  /\ status' = [i \in Ids |-> IF i \in gone THEN "gone" ELSE status[i]]

LifeNext ==
  \/ \E i \in Ids : Allocate(i)
  \/ \E gone \in SUBSET Ids : Retire(gone)

LifeSpec == LifeInit /\ [][LifeNext]_status
=============================================================================
