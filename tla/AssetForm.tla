----------------------------- MODULE AssetForm -----------------------------
(***************************************************************************)
(* The columns of an asset on their way from the table to the edit form,   *)
(* through the browser and back: what edit_asset.php puts into the form,   *)
(* what the user may leave alone or fill in, and what edit_asset.php and   *)
(* new_entry.php make of the fields they receive.                          *)
(*                                                                         *)
(* A form holds the row as it was when the form was loaded, and the UPDATE *)
(* writes every column of the form.  The statements of a request and their *)
(* interleaving are in Inventory; here a request is one step, and what     *)
(* matters is what happens between loading a form and sending it.          *)
(***************************************************************************)
EXTENDS AssetTable, SequencesExt

CONSTANTS
  TextColumns,    \* the columns with a required text input
  SelectColumns,  \* the columns with a select box
  Email,          \* the column email_address
  Texts,          \* what a text input can hold
  Empty,          \* the empty text
  Zero,           \* the text "0"
  NA,             \* the text "n/a"
  Null,           \* SQL NULL
  Unstorable,     \* texts too long for their column: the statement fails
  Trim,           \* a text without the spaces around it
  BeforeQuote,    \* a text up to its first apostrophe
  Options,        \* the options of each select box, in the order of edit_asset.php
  NoForm,
  MaxFilled       \* bound: how many fields a user changes before sending a form

Columns == TextColumns \cup SelectColumns \cup {Email}
Required == TextColumns \cup SelectColumns
Offered(col) == ToSet(Options[col])

\* What a field of a form can hold, and what a column of the table can.  A
\* select box never holds anything but one of its options; the delivered table
\* has NULL in some of these columns (memory).  The table has no empty texts.
FieldValues(col) == IF col \in SelectColumns THEN Offered(col) ELSE Texts
ColumnValues(col) ==
  CASE col \in SelectColumns -> Offered(col) \cup {Null}
    [] col \in TextColumns   -> Texts \ ({Empty} \cup Unstorable)
    [] col = Email           -> Texts \ ({Empty, Zero} \cup Unstorable)

Values == Texts \cup UNION {Offered(col) : col \in SelectColumns} \cup {Null}
Fields == {f \in [Columns -> Values] : \A col \in Columns : f[col] \in FieldValues(col)}
FormRows == {r \in [Columns -> Values] : \A col \in Columns : r[col] \in ColumnValues(col)}

ASSUME FormAssumption ==
  /\ MaxFilled \in Nat
  /\ Rows = FormRows
  /\ Email \notin Required /\ TextColumns \cap SelectColumns = {}
  /\ {Empty, Zero, NA} \subseteq Texts /\ NA \notin {Empty, Zero}
  /\ Null \notin Texts
  /\ Unstorable \subseteq Texts \ {Empty, NA}
  /\ Trim \in [Texts -> Texts] /\ \A t \in {Empty, Zero, NA} : Trim[t] = t
  /\ BeforeQuote \in [Texts -> Texts] /\ BeforeQuote[NA] = NA /\ BeforeQuote[Empty] = Empty
  /\ \A t \in Texts : BeforeQuote[BeforeQuote[t]] = BeforeQuote[t]
  /\ \A col \in SelectColumns :
       Options[col] \in Seq(Offered(col)) /\ Options[col] # <<>> /\ Null \notin Offered(col)

VARIABLES
  form,     \* the edit form each client has open: [id, shown, age]
  answer,   \* what the last request that changed nothing or something was told
  settled   \* history: the columns of each asset saved from a form in which
            \* they were left alone, since somebody last filled them in

formVars == <<assetVars, form, answer, settled>>

\* age is history: whether the asset was written since the form was loaded.
Form == [id : AssetId, shown : Fields, age : {"current", "outdated"}]

-----------------------------------------------------------------------------
(***************************************************************************)
(* Conversions                                                             *)
(***************************************************************************)

\* inputField: the value stands between apostrophes, and htmlspecialchars
\* leaves apostrophes alone, so the first one ends it.
ShownText(text) == BeforeQuote[text]

\* Mutant of ShownOption: the option after the stored one is marked.
ShownAfter(col, value) ==
  IF value \in Offered(col)
  THEN Options[col][1 + ((CHOOSE k \in DOMAIN Options[col] : Options[col][k] = value) % Len(Options[col]))]
  ELSE Head(Options[col])

\* selectField: the option equal to the stored value is marked; with none
\* marked the browser shows the first.
ShownOption(col, value) == IF value \in Offered(col) THEN value ELSE Head(Options[col])

\* The form of a row.
Shown(row) ==
  [col \in Columns |-> IF col \in SelectColumns THEN ShownOption(col, row[col])
                                                ELSE ShownText(row[col])]

\* PHP's empty() on a text.
PhpEmpty(text) == text \in {Empty, Zero}

\* Mutant of EmailOnEdit: what was sent is stored.
EmailAsSent(text) == text

\* empty(trim($_POST['email_address'])) ? 'n/a' : $_POST['email_address']
EmailOnEdit(text) == IF PhpEmpty(Trim[text]) THEN NA ELSE text

\* The same in new_entry.php, without trim.
EmailOnNew(text) == IF PhpEmpty(text) THEN NA ELSE text

\* The row that edit_asset.php and new_entry.php make of the fields.
SavedRow(fields) == [fields EXCEPT ![Email] = EmailOnEdit(@)]
EnteredRow(fields) == [fields EXCEPT ![Email] = EmailOnNew(@)]

\* The attribute "required": the browser does not send the form otherwise.
BrowserAccepts(fields) == \A col \in Required : fields[col] # Empty

\* The required fields that new_entry.php takes for missing.
MissingFields(fields) == {col \in Required : PhpEmpty(fields[col])}

\* The statement succeeds: every text fits its column.
Fits(row) == \A col \in Columns : row[col] \notin Unstorable

-----------------------------------------------------------------------------
FormInit ==
  /\ AssetInit
  /\ form = [c \in Clients |-> NoForm]
  /\ answer = "none"
  /\ settled = [id \in AssetId |-> {}]

\* edit_asset.php loads an asset and shows it.
LoadForm(c, id) ==
  /\ id \in LiveAssets
  /\ form' = [form EXCEPT ![c] = [id |-> id, shown |-> Shown(assets[id]), age |-> "current"]]
  /\ UNCHANGED <<assetVars, answer, settled>>

\* The forms after a row was written: those of the same asset are out of date.
Outdated(id) ==
  [d \in Clients |-> IF form[d] # NoForm /\ form[d].id = id
                     THEN [form[d] EXCEPT !.age = "outdated"] ELSE form[d]]

\* The fields the user of c changed.
Filled(c, fields) == {col \in Columns : fields[col] # form[c].shown[col]}

\* "Update & Continue".  The page says "successfully updated" in any case, and
\* the browser can come back to the form and send it again.
SendForm(c, fields) ==
  /\ form[c] # NoForm
  /\ Cardinality(Filled(c, fields)) <= MaxFilled
  /\ BrowserAccepts(fields)
  /\ answer' = "updated"
  /\ IF Fits(SavedRow(fields)) /\ form[c].id \in LiveAssets
     THEN /\ UpdateAsset(form[c].id, SavedRow(fields))
          /\ form' = Outdated(form[c].id)
          /\ settled' = [settled EXCEPT ![form[c].id] = Columns \ Filled(c, fields)]
     ELSE UNCHANGED <<assetVars, form, settled>>

\* new_entry.php finds fields missing and stores nothing.
RefuseEntry(fields) ==
  /\ BrowserAccepts(fields)
  /\ MissingFields(fields) # {}
  /\ answer' = "missing"
  /\ UNCHANGED <<assetVars, form, settled>>

\* new_entry.php stores the asset.
StoreEntry(fields) ==
  /\ BrowserAccepts(fields)
  /\ MissingFields(fields) = {}
  /\ Fits(EnteredRow(fields))
  /\ InsertAsset(EnteredRow(fields))
  /\ answer' = "stored"
  /\ UNCHANGED <<form, settled>>

\* The INSERT fails.
EntryFails(fields) ==
  /\ BrowserAccepts(fields)
  /\ MissingFields(fields) = {}
  /\ ~Fits(EnteredRow(fields))
  /\ answer' = "error"
  /\ UNCHANGED <<assetVars, form, settled>>

\* delete_selected.php, from any client.
DeleteFromList(ids) ==
  /\ DeleteAssets(ids)
  /\ UNCHANGED <<form, answer, settled>>

FormNext ==
  \/ \E c \in Clients, id \in AssetId : LoadForm(c, id)
  \/ \E c \in Clients, fields \in Fields : SendForm(c, fields)
  \/ \E fields \in Fields : RefuseEntry(fields) \/ StoreEntry(fields) \/ EntryFails(fields)
  \/ \E ids \in SUBSET AssetId : DeleteFromList(ids)

FormSpec == FormInit /\ [][FormNext]_formVars
-----------------------------------------------------------------------------
(***************************************************************************)
(* Properties                                                              *)
(***************************************************************************)

\* The forms issue statements of the asset table, with complete rows: every
\* required column has a value, the e-mail address is never empty, select
\* columns hold one of their options (or the NULL that was delivered).  The
\* server does not check this on an update (edit_asset.php:16-28); it rests on
\* the browser, on the default "n/a" and on what the form shows of a text cut
\* at an apostrophe.
WritesCompleteRows == AssetSpec

\* A column wears at most once: after one save that left a column alone, a
\* form that is not out of date would save it as it is, until somebody fills
\* it in (edit_asset.php:17, 141-159).  An edit is therefore lost only to an
\* edit of the same column or to a form loaded before it.
WearsOnce ==
  \A c \in Clients : form[c] # NoForm =>
    (form[c].age = "current" /\ form[c].id \in LiveAssets =>
       \A col \in settled[form[c].id] :
         SavedRow(form[c].shown)[col] = assets[form[c].id][col])

\* selectField's parameter "$selected" (edit_asset.php:141) and the name of the
\* page, "Edit Asset": a save from a form that is not out of date leaves the
\* columns alone that the user left alone.
UntouchedKept ==
  [][\A c \in Clients : (form[c] # NoForm /\ form[c].age = "current") =>
       \A fields \in Fields : SendForm(c, fields) =>
         \A col \in Columns \ Filled(c, fields) :
           assets[form[c].id] # NoRow => assets'[form[c].id][col] = assets[form[c].id][col]]_formVars
-----------------------------------------------------------------------------
(***************************************************************************)
(* The inductive invariant behind WearsOnce.  What a form shows, a form of *)
(* the saved row shows again; so a column saved once as it was shown is    *)
(* saved the same from then on.                                            *)
(***************************************************************************)

\* Shown and SavedRow, column by column.
ShownIn(col, value) == IF col \in SelectColumns THEN ShownOption(col, value) ELSE ShownText(value)
SavedIn(col, value) == IF col = Email THEN EmailOnEdit(value) ELSE value

\* A form shows what a form can show, and the row itself while it is current.
FormsOK ==
  /\ form \in [Clients -> Form \cup {NoForm}]
  /\ \A c \in Clients : form[c] # NoForm =>
       /\ form[c].id < nextAssetId
       /\ \A col \in Columns : ShownIn(col, form[c].shown[col]) = form[c].shown[col]
       /\ (form[c].age = "current" /\ form[c].id \in LiveAssets) =>
            form[c].shown = Shown(assets[form[c].id])

\* The settled columns do not change when they are shown and saved.
SettledOK ==
  /\ settled \in [AssetId -> SUBSET Columns]
  /\ \A id \in AssetId :
       /\ id >= nextAssetId => settled[id] = {}
       /\ id \in LiveAssets => \A col \in settled[id] :
            SavedIn(col, ShownIn(col, assets[id][col])) = assets[id][col]

FormInv == FormsOK /\ SettledOK
=============================================================================
