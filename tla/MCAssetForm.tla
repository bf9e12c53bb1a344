---------------------------- MODULE MCAssetForm ----------------------------
(***************************************************************************)
(* AssetForm for TLC: one text column, one select column and the e-mail    *)
(* address.  " " stands for spaces and "0's" for a text with an            *)
(* apostrophe, which a form shows as "0".                                  *)
(***************************************************************************)
EXTENDS AssetForm

CONSTANTS c1, c2

MCTexts == {"", "0", " ", "n/a", "0's", "long"}

MCTrim == [t \in MCTexts |-> IF t = " " THEN "" ELSE t]

MCBeforeQuote == [t \in MCTexts |-> IF t = "0's" THEN "0" ELSE t]

\* The order of edit_asset.php's options.
MCOptions == [col \in SelectColumns |-> <<"4 GB", "8 GB">>]

\* FormRows, listed.
MCRows ==
  {("asset_tag" :> tag @@ "memory" :> memory @@ "email_address" :> email) :
     tag \in {"0", " ", "n/a", "0's"}, memory \in {"4 GB", "8 GB", Null}, email \in {" ", "n/a", "0's"}}

\* Clients are interchangeable.
ClientSymmetry == Permutations(Clients)
=============================================================================
