---------------------------- MODULE MCInventory ----------------------------
(***************************************************************************)
(* Inventory for TLC.                                                      *)
(***************************************************************************)
EXTENDS Inventory

CONSTANTS c1, c2, u1, typed, spaced, nobody, p1, p2

\* An account, its name typed in other letter case, the same with spaces around
\* it, and a name that has no account.
MCNames == {u1, typed, spaced, nobody}
MCFold == [n \in MCNames |-> IF n = typed THEN u1 ELSE n]
MCTrimName == [n \in MCNames |-> IF n = spaced THEN typed ELSE n]
MCPasswordOf == [u \in Users |-> p1]

\* Both clients add and delete assets.
AddAndDelete == [c \in Clients |-> {"new", "delete"}]

\* One client edits assets, in batches or one by one, while the other deletes.
EditAndDelete == c1 :> {"batch", "manual", "edit"} @@ c2 :> {"delete"}

\* One client works through batches while the other deletes.
BatchAndDelete == c1 :> {"batch", "edit"} @@ c2 :> {"delete"}

\* Clients are interchangeable.
ClientSymmetry == Permutations(Clients)
=============================================================================
