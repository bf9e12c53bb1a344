-------------------------- MODULE AssetFormProofs --------------------------
(***************************************************************************)
(* Proofs about AssetForm, for any columns, options and texts, any number  *)
(* of clients and any number of fields filled in.                          *)
(***************************************************************************)
EXTENDS AssetForm, AssetTableProofs

-----------------------------------------------------------------------------
(***************************************************************************)
(* The conversions                                                         *)
(***************************************************************************)

\* The first option of a select box is one of its options.
LEMMA FirstOffered ==
  ASSUME NEW col \in SelectColumns PROVE Head(Options[col]) \in Offered(col)
<1>1. Options[col] \in Seq(Offered(col)) /\ Options[col] # <<>>
  BY FormAssumption
<1> HIDE DEF Offered
<1> QED
  BY <1>1

\* Shown and SavedRow are ShownIn and SavedIn in each column.
LEMMA ByColumn ==
  ASSUME NEW row, NEW fields \in Fields, NEW col \in Columns
  PROVE  Shown(row)[col] = ShownIn(col, row[col]) /\ SavedRow(fields)[col] = SavedIn(col, fields[col])
<1>1. Shown(row)[col] = ShownIn(col, row[col])
  BY DEF Shown, ShownIn
<1>2. fields = [x \in Columns |-> fields[x]]
  BY DEF Fields
<1>3. SavedRow(fields)[col] = SavedIn(col, fields[col])
  BY <1>2 DEF SavedRow, SavedIn
<1> QED
  BY <1>1, <1>3

\* A form shows of a column of the table something its field can hold, and
\* showing that again changes nothing.
LEMMA ShownTwice ==
  ASSUME NEW col \in Columns, NEW value \in ColumnValues(col)
  PROVE  /\ ShownIn(col, value) \in FieldValues(col)
         /\ ShownIn(col, ShownIn(col, value)) = ShownIn(col, value)
<1>1. CASE col \in SelectColumns
  <2>1. ShownIn(col, value) \in Offered(col)
    BY <1>1, FirstOffered DEF ShownIn, ShownOption
  <2> QED
    BY <1>1, <2>1 DEF ShownIn, ShownOption, FieldValues
<1>2. CASE col \notin SelectColumns
  <2>1. value \in Texts
    BY <1>2 DEF ColumnValues, Columns
  <2>2. BeforeQuote[value] \in Texts /\ BeforeQuote[BeforeQuote[value]] = BeforeQuote[value]
    BY <2>1, FormAssumption
  <2> QED
    BY <1>2, <2>2 DEF ShownIn, ShownText, FieldValues
<1> QED
  BY <1>1, <1>2

\* What a form shows is saved as something that is shown and saved the same.
LEMMA SavedSettles ==
  ASSUME NEW col \in Columns, NEW value \in FieldValues(col), ShownIn(col, value) = value
  PROVE  SavedIn(col, ShownIn(col, SavedIn(col, value))) = SavedIn(col, value)
<1>1. CASE col # Email
  BY <1>1 DEF SavedIn
<1>2. CASE col = Email
  <2>1. col \notin SelectColumns
    BY <1>2, FormAssumption DEF Required
  <2>2. CASE PhpEmpty(Trim[value])
    <3>1. SavedIn(col, value) = NA
      BY <1>2, <2>2 DEF SavedIn, EmailOnEdit
    <3>2. ShownIn(col, NA) = NA
      BY <2>1, FormAssumption DEF ShownIn, ShownText
    <3>3. SavedIn(col, NA) = NA
      BY <1>2, FormAssumption DEF SavedIn, EmailOnEdit, PhpEmpty
    <3> QED
      BY <3>1, <3>2, <3>3
  <2>3. CASE ~PhpEmpty(Trim[value])
    <3>1. SavedIn(col, value) = value
      BY <1>2, <2>3 DEF SavedIn, EmailOnEdit
    <3> QED
      BY <3>1
  <2> QED
    BY <2>2, <2>3
<1> QED
  BY <1>1, <1>2

\* The default for the e-mail address, with trim and without: never empty.
LEMMA EmailComplete ==
  ASSUME NEW text \in Texts
  PROVE  /\ EmailOnEdit(text) \in Texts \ {Empty, Zero}
         /\ EmailOnNew(text) \in Texts \ {Empty, Zero}
  BY FormAssumption DEF EmailOnEdit, EmailOnNew, PhpEmpty

\* A row made of fields the browser accepted, with an e-mail address that is
\* not empty, is complete if it can be stored.
LEMMA CompleteRow ==
  ASSUME NEW fields \in Fields, BrowserAccepts(fields), NEW email \in Texts \ {Empty, Zero},
         NEW row, row = [fields EXCEPT ![Email] = email], Fits(row)
  PROVE  row \in Rows
<1>1. Email \in Columns /\ Email \notin Required
  BY FormAssumption DEF Columns
<1>2. fields \in [Columns -> Values] /\ \A col \in Columns : fields[col] \in FieldValues(col)
  BY DEF Fields
<1>3. row[Email] = email /\ \A col \in Columns : col # Email => row[col] = fields[col]
  BY <1>1, <1>2
<1>4. row \in [Columns -> Values]
  BY <1>1, <1>2 DEF Values
<1>5. ASSUME NEW col \in Columns PROVE row[col] \in ColumnValues(col)
  <2>1. CASE col = Email
    <3>1. col \notin SelectColumns /\ col \notin TextColumns
      BY <1>1, <2>1 DEF Required
    <3>2. ColumnValues(col) = Texts \ ({Empty, Zero} \cup Unstorable)
      BY <2>1, <3>1 DEF ColumnValues
    <3>3. row[col] \notin Unstorable
      BY DEF Fits
    <3> QED
      BY <1>3, <2>1, <3>2, <3>3
  <2>2. CASE col \in SelectColumns
    <3>1. col \notin TextColumns /\ col # Email
      BY <1>1, <2>2, FormAssumption DEF Required
    <3>2. ColumnValues(col) = Offered(col) \cup {Null}
      BY <2>2, <3>1 DEF ColumnValues
    <3>3. row[col] \in Offered(col)
      BY <1>2, <1>3, <2>2, <3>1 DEF FieldValues
    <3> QED
      BY <3>2, <3>3
  <2>3. CASE col \in TextColumns
    <3>1. col \notin SelectColumns /\ col # Email
      BY <1>1, <2>3, FormAssumption DEF Required
    <3>2. row[col] \in Texts /\ row[col] # Empty /\ row[col] \notin Unstorable
      BY <1>2, <1>3, <2>3, <3>1 DEF FieldValues, BrowserAccepts, Required, Fits
    <3> QED
      BY <2>3, <3>1, <3>2 DEF ColumnValues
  <2> QED
    BY <2>1, <2>2, <2>3 DEF Columns
<1>6. row \in FormRows
  BY <1>4, <1>5 DEF FormRows
<1> QED
  BY <1>6, FormAssumption

\* The text of the e-mail address in a form.
LEMMA EmailField == ASSUME NEW fields \in Fields PROVE fields[Email] \in Texts
  BY FormAssumption DEF Fields, FieldValues, Columns, Required

\* Both pages store complete rows.
LEMMA StoredRows ==
  ASSUME NEW fields \in Fields, BrowserAccepts(fields)
  PROVE  /\ Fits(SavedRow(fields)) => SavedRow(fields) \in Rows
         /\ Fits(EnteredRow(fields)) => EnteredRow(fields) \in Rows
  BY EmailField, EmailComplete, CompleteRow DEF SavedRow, EnteredRow

-----------------------------------------------------------------------------
(***************************************************************************)
(* The forms as clients of the asset table                                 *)
(***************************************************************************)

\* The form of a client, opened.
LEMMA OpenForm ==
  ASSUME FormsOK, NEW c \in Clients, form[c] # NoForm
  PROVE  /\ form[c] \in Form /\ form[c].id \in AssetId /\ form[c].shown \in Fields
         /\ form[c].age \in {"current", "outdated"}
<1>1. form[c] \in Form
  BY DEF FormsOK
<1> QED
  BY <1>1 DEF Form

\* Every request of a form is a statement on the table with a complete row, or
\* none.
LEMMA FormIssuesStatements ==
  ASSUME FormsOK, [FormNext]_formVars PROVE [AssetNext]_assetVars
<1>1. ASSUME NEW c \in Clients, NEW fields \in Fields, SendForm(c, fields)
      PROVE  [AssetNext]_assetVars
  <2>1. CASE Fits(SavedRow(fields)) /\ form[c].id \in LiveAssets
    <3>1. UpdateAsset(form[c].id, SavedRow(fields)) /\ SavedRow(fields) \in Rows
      BY <1>1, <2>1, StoredRows DEF SendForm
    <3>2. form[c].id \in AssetId
      BY <1>1, OpenForm DEF SendForm
    <3> QED
      BY <3>1, <3>2 DEF AssetNext
  <2>2. CASE ~(Fits(SavedRow(fields)) /\ form[c].id \in LiveAssets)
    BY <1>1, <2>2 DEF SendForm
  <2> QED
    BY <2>1, <2>2
<1>2. ASSUME NEW fields \in Fields, StoreEntry(fields) PROVE AssetNext
  <2>1. InsertAsset(EnteredRow(fields)) /\ EnteredRow(fields) \in Rows
    BY <1>2, StoredRows DEF StoreEntry
  <2> QED
    BY <2>1 DEF AssetNext
<1>3. ASSUME NEW fields \in Fields, RefuseEntry(fields) \/ EntryFails(fields)
      PROVE  UNCHANGED assetVars
  BY <1>3 DEF RefuseEntry, EntryFails
<1>4. ASSUME NEW c \in Clients, NEW id \in AssetId, LoadForm(c, id) PROVE UNCHANGED assetVars
  BY <1>4 DEF LoadForm
<1>5. ASSUME NEW ids \in SUBSET AssetId, DeleteFromList(ids) PROVE AssetNext
  BY <1>5 DEF DeleteFromList, AssetNext
<1>6. ASSUME UNCHANGED formVars PROVE UNCHANGED assetVars
  BY <1>6 DEF formVars
<1> QED
  BY <1>1, <1>2, <1>3, <1>4, <1>5, <1>6 DEF FormNext

\* The rows of the table, column by column.
LEMMA StoredColumns ==
  ASSUME AssetInv, NEW id \in LiveAssets, NEW col \in Columns
  PROVE  assets[id][col] \in ColumnValues(col)
<1>1. assets[id] \in Rows
  BY DEF LiveAssets, AssetInv, AssetTypeOK
<1> QED
  BY <1>1, FormAssumption DEF FormRows

\* The form of an asset is a form, and shows what it would show again.
LEMMA ShownRow ==
  ASSUME AssetInv, NEW id \in LiveAssets
  PROVE  /\ Shown(assets[id]) \in Fields
         /\ \A col \in Columns : ShownIn(col, Shown(assets[id])[col]) = Shown(assets[id])[col]
<1>1. ASSUME NEW col \in Columns
      PROVE  /\ Shown(assets[id])[col] = ShownIn(col, assets[id][col])
             /\ ShownIn(col, assets[id][col]) \in FieldValues(col)
             /\ ShownIn(col, ShownIn(col, assets[id][col])) = ShownIn(col, assets[id][col])
  BY StoredColumns, ShownTwice DEF Shown, ShownIn
<1>2. \A col \in Columns : FieldValues(col) \subseteq Values
  BY DEF FieldValues, Values
<1>3. Shown(assets[id]) \in [Columns -> Values]
  BY <1>1, <1>2 DEF Shown
<1> QED
  BY <1>1, <1>3 DEF Fields

\* An event that leaves the rows with an id below the AUTO_INCREMENT as they
\* are, or removes them, keeps the invariant.
LEMMA TableShrinksOrGrows ==
  ASSUME AssetInv, AssetInv', FormInv, UNCHANGED <<form, settled>>, nextAssetId <= nextAssetId',
         \A id \in AssetId : id < nextAssetId => assets'[id] \in {assets[id], NoRow},
         \A id \in AssetId : id > nextAssetId => assets'[id] = NoRow
  PROVE  FormInv'
<1> USE ParameterAssumption DEF AssetId
<1>0. nextAssetId \in Nat /\ nextAssetId' \in Nat
  BY DEF AssetInv, AssetTypeOK
<1>1. \A id \in AssetId : id < nextAssetId /\ id \in LiveAssets' =>
        id \in LiveAssets /\ assets'[id] = assets[id]
  BY DEF LiveAssets
<1>2. FormsOK'
  <2>1. ASSUME NEW c \in Clients, form'[c] # NoForm
        PROVE  /\ form'[c].id < nextAssetId'
               /\ \A col \in Columns : ShownIn(col, form'[c].shown[col]) = form'[c].shown[col]
               /\ (form'[c].age = "current" /\ form'[c].id \in LiveAssets') =>
                    form'[c].shown = Shown(assets'[form'[c].id])
    <3>1. FormsOK /\ form[c] # NoForm /\ form'[c] = form[c]
      BY <2>1 DEF FormInv
    <3>2. form[c].id \in AssetId /\ form[c].id < nextAssetId
      BY <3>1, OpenForm DEF FormsOK
    <3>3. form[c].id < nextAssetId'
      BY <1>0, <3>2
    <3>4. \A col \in Columns : ShownIn(col, form[c].shown[col]) = form[c].shown[col]
      BY <3>1 DEF FormsOK
    <3>5. ASSUME form[c].age = "current", form[c].id \in LiveAssets'
          PROVE  form[c].shown = Shown(assets'[form[c].id])
      <4>1. form[c].id \in LiveAssets /\ assets'[form[c].id] = assets[form[c].id]
        BY <1>1, <3>2, <3>5
      <4> QED
        BY <3>1, <3>5, <4>1 DEF FormsOK
    <3> QED
      BY <3>1, <3>3, <3>4, <3>5
  <2>2. form' \in [Clients -> Form \cup {NoForm}]
    BY DEF FormInv, FormsOK
  <2> QED
    BY <2>1, <2>2 DEF FormsOK
<1>3. SettledOK'
  <2>1. SettledOK /\ settled' = settled
    BY DEF FormInv
  <2>2. ASSUME NEW id \in AssetId, id >= nextAssetId' PROVE settled[id] = {}
    BY <1>0, <2>1, <2>2 DEF SettledOK
  <2>3. ASSUME NEW id \in AssetId, id \in LiveAssets', NEW col \in settled[id]
        PROVE  SavedIn(col, ShownIn(col, assets'[id][col])) = assets'[id][col]
    <3>1. id < nextAssetId
      BY <1>0, <2>1, <2>3 DEF SettledOK
    <3> QED
      BY <1>1, <2>1, <2>3, <3>1 DEF SettledOK
  <2> QED
    BY <2>1, <2>2, <2>3 DEF SettledOK
<1> QED
  BY <1>2, <1>3 DEF FormInv

\* A form that was just loaded is current and shows the row.
LEMMA LoadKeeps ==
  ASSUME AssetInv, FormInv, NEW c \in Clients, NEW id \in AssetId, LoadForm(c, id)
  PROVE  FormInv'
<1> DEFINE new == [id |-> id, shown |-> Shown(assets[id]), age |-> "current"]
<1>1. id \in LiveAssets /\ form' = [form EXCEPT ![c] = new]
  BY DEF LoadForm
<1>2. /\ new \in Form /\ new.id = id /\ new.shown = Shown(assets[id])
      /\ \A col \in Columns : ShownIn(col, new.shown[col]) = new.shown[col]
  BY <1>1, ShownRow DEF Form
<1>3. id < nextAssetId
  BY <1>1, ParameterAssumption DEF AssetInv, AssetTypeOK, FreshAbove, LiveAssets, AssetId
<1>4. UNCHANGED <<assets, nextAssetId, settled>>
  BY DEF LoadForm, assetVars
<1> HIDE DEF new
<1>5. FormsOK'
  <2>1. form' \in [Clients -> Form \cup {NoForm}]
    BY <1>1, <1>2 DEF FormInv, FormsOK
  <2>2. form'[c] = new /\ \A d \in Clients : d # c => form'[d] = form[d]
    BY <1>1 DEF FormInv, FormsOK
  <2> QED
    BY <1>2, <1>3, <1>4, <2>1, <2>2 DEF FormInv, FormsOK, LiveAssets
<1>6. SettledOK'
  BY <1>4 DEF FormInv, SettledOK, LiveAssets
<1> QED
  BY <1>5, <1>6 DEF FormInv

\* A save outdates the forms of the asset and settles the columns left alone.
LEMMA SaveKeeps ==
  ASSUME AssetInv, FormInv, NEW c \in Clients, NEW fields \in Fields, SendForm(c, fields),
         Fits(SavedRow(fields)), form[c].id \in LiveAssets
  PROVE  FormInv'
<1> DEFINE id == form[c].id
<1> DEFINE row == SavedRow(fields)
<1>0. FormsOK /\ SettledOK /\ form[c] # NoForm /\ id \in AssetId /\ id < nextAssetId
  BY OpenForm DEF FormInv, SendForm, FormsOK
<1>1. /\ nextAssetId' = nextAssetId /\ form' = Outdated(id)
      /\ settled' = [settled EXCEPT ![id] = Columns \ Filled(c, fields)]
      /\ assets' = [i \in AssetId |-> IF i = id /\ assets[i] # NoRow THEN row ELSE assets[i]]
  BY DEF SendForm, UpdateAsset
<1>2. \A col \in Columns : row[col] = SavedIn(col, fields[col])
  BY ByColumn
<1>3. \A col \in Columns : ShownIn(col, form[c].shown[col]) = form[c].shown[col]
  BY <1>0 DEF FormsOK
<1>4. ASSUME NEW col \in Columns \ Filled(c, fields)
      PROVE  SavedIn(col, ShownIn(col, row[col])) = row[col]
  <2>1. fields[col] = form[c].shown[col]
    BY <1>4 DEF Filled
  <2>2. fields[col] \in FieldValues(col)
    BY DEF Fields
  <2>3. ShownIn(col, fields[col]) = fields[col]
    BY <1>3, <2>1
  <2> QED
    BY <1>2, <2>2, <2>3, SavedSettles
<1> HIDE DEF id, row
<1>5. FormsOK'
  <2>1. ASSUME NEW d \in Clients, form[d] # NoForm, form[d].id = id
        PROVE  /\ form'[d] \in Form /\ form'[d].id = id /\ form'[d].shown = form[d].shown
               /\ form'[d].age = "outdated"
    <3>1. form[d] \in Form
      BY <1>0, <2>1, OpenForm
    <3>2. form'[d] = [form[d] EXCEPT !.age = "outdated"]
      BY <1>1, <2>1 DEF Outdated
    <3> QED
      BY <2>1, <3>1, <3>2 DEF Form
  <2>2. ASSUME NEW d \in Clients, ~(form[d] # NoForm /\ form[d].id = id)
        PROVE  form'[d] = form[d]
    BY <1>1, <2>2 DEF Outdated
  <2>3. form' \in [Clients -> Form \cup {NoForm}]
    <3>1. \A d \in Clients : form'[d] \in Form \cup {NoForm}
      BY <1>0, <2>1, <2>2 DEF FormsOK
    <3>2. form' = [d \in Clients |-> form'[d]]
      BY <1>1 DEF Outdated
    <3> QED
      BY <3>1, <3>2
  <2>4. ASSUME NEW d \in Clients, form'[d] # NoForm
        PROVE  /\ form'[d].id < nextAssetId'
               /\ \A col \in Columns : ShownIn(col, form'[d].shown[col]) = form'[d].shown[col]
               /\ (form'[d].age = "current" /\ form'[d].id \in LiveAssets') =>
                    form'[d].shown = Shown(assets'[form'[d].id])
    <3>1. CASE form[d] # NoForm /\ form[d].id = id
      <4>1. \A col \in Columns : ShownIn(col, form[d].shown[col]) = form[d].shown[col]
        BY <1>0, <3>1 DEF FormsOK
      <4> QED
        BY <1>0, <1>1, <2>1, <3>1, <4>1
    <3>2. CASE ~(form[d] # NoForm /\ form[d].id = id)
      <4>1. form[d] # NoForm /\ form'[d] = form[d] /\ form[d].id # id /\ form[d].id \in AssetId
        BY <1>0, <2>2, <2>4, <3>2, OpenForm
      <4>2. assets'[form[d].id] = assets[form[d].id]
        BY <1>1, <4>1
      <4>3. form[d].id \in LiveAssets' => form[d].id \in LiveAssets
        BY <4>2 DEF LiveAssets
      <4> QED
        BY <1>0, <1>1, <4>1, <4>2, <4>3 DEF FormsOK
    <3> QED
      BY <3>1, <3>2
  <2> QED
    BY <2>3, <2>4 DEF FormsOK
<1>6. SettledOK'
  <2>1. /\ settled'[id] = Columns \ Filled(c, fields)
        /\ \A i \in AssetId : i # id => settled'[i] = settled[i]
        /\ settled' \in [AssetId -> SUBSET Columns]
    BY <1>0, <1>1 DEF SettledOK
  <2>2. /\ \A i \in AssetId : i # id => assets'[i] = assets[i]
        /\ assets'[id] = row
    BY <1>0, <1>1 DEF LiveAssets, id
  <2>3. ASSUME NEW i \in AssetId, i >= nextAssetId' PROVE settled'[i] = {}
    <3>1. i # id
      BY <1>0, <1>1, <2>3, ParameterAssumption DEF AssetInv, AssetTypeOK, AssetId
    <3> QED
      BY <1>0, <1>1, <2>1, <2>3, <3>1 DEF SettledOK
  <2>4. ASSUME NEW i \in AssetId, i \in LiveAssets', NEW col \in settled'[i]
        PROVE  SavedIn(col, ShownIn(col, assets'[i][col])) = assets'[i][col]
    <3>1. CASE i = id
      BY <1>4, <2>1, <2>2, <2>4, <3>1
    <3>2. CASE i # id
      <4>1. i \in LiveAssets
        BY <2>2, <2>4, <3>2 DEF LiveAssets
      <4> QED
        BY <1>0, <2>1, <2>2, <2>4, <3>2, <4>1 DEF SettledOK
    <3> QED
      BY <3>1, <3>2
  <2> QED
    BY <2>1, <2>3, <2>4 DEF SettledOK
<1> QED
  BY <1>5, <1>6 DEF FormInv

\* Every request keeps the invariant.
LEMMA FormInvStep ==
  ASSUME AssetInv, AssetInv', FormInv, [FormNext]_formVars PROVE FormInv'
<1> USE ParameterAssumption
<1>0. nextAssetId \in Nat
  BY DEF AssetInv, AssetTypeOK
<1>1. ASSUME UNCHANGED <<assets, nextAssetId, form, settled>> PROVE FormInv'
  BY <1>1 DEF FormInv, FormsOK, SettledOK, LiveAssets
<1>2. ASSUME NEW c \in Clients, NEW fields \in Fields, SendForm(c, fields) PROVE FormInv'
  <2>1. CASE Fits(SavedRow(fields)) /\ form[c].id \in LiveAssets
    BY <1>2, <2>1, SaveKeeps
  <2>2. CASE ~(Fits(SavedRow(fields)) /\ form[c].id \in LiveAssets)
    BY <1>1, <1>2, <2>2 DEF SendForm, assetVars
  <2> QED
    BY <2>1, <2>2
<1>3. ASSUME NEW fields \in Fields, StoreEntry(fields) PROVE FormInv'
  <2>1. /\ assets' = [assets EXCEPT ![nextAssetId] = EnteredRow(fields)]
        /\ nextAssetId' = nextAssetId + 1 /\ UNCHANGED <<form, settled>>
    BY <1>3 DEF StoreEntry, InsertAsset
  <2>2. \A id \in AssetId : id < nextAssetId => assets'[id] \in {assets[id], NoRow}
    BY <1>0, <2>1 DEF AssetInv, AssetTypeOK, AssetId
  <2>3. \A id \in AssetId : id > nextAssetId => assets'[id] = NoRow
    BY <1>0, <2>1 DEF AssetInv, AssetTypeOK, FreshAbove, AssetId
  <2> QED
    BY <1>0, <2>1, <2>2, <2>3, TableShrinksOrGrows
<1>4. ASSUME NEW ids \in SUBSET AssetId, DeleteFromList(ids) PROVE FormInv'
  <2>1. /\ assets' = [i \in AssetId |-> IF i \in ids THEN NoRow ELSE assets[i]]
        /\ UNCHANGED <<nextAssetId, form, settled>>
    BY <1>4 DEF DeleteFromList, DeleteAssets
  <2>2. \A id \in AssetId : id < nextAssetId => assets'[id] \in {assets[id], NoRow}
    BY <2>1
  <2>3. \A id \in AssetId : id > nextAssetId => assets'[id] = NoRow
    BY <1>0, <2>1 DEF AssetInv, FreshAbove, AssetId
  <2> QED
    BY <1>0, <2>1, <2>2, <2>3, TableShrinksOrGrows
<1>5. ASSUME \/ \E fields \in Fields : RefuseEntry(fields) \/ EntryFails(fields)
             \/ UNCHANGED formVars
      PROVE  FormInv'
  BY <1>1, <1>5 DEF RefuseEntry, EntryFails, formVars, assetVars
<1> QED
  BY <1>2, <1>3, <1>4, <1>5, LoadKeeps DEF FormNext

\* No form is open and nothing is settled at the start.
LEMMA FormInvInit == FormInit => AssetInv /\ FormInv
<1> SUFFICES ASSUME FormInit PROVE AssetInv /\ FormInv
  OBVIOUS
<1>1. AssetInv
  BY AssetInvInit DEF FormInit
<1>2. FormsOK
  BY DEF FormInit, FormsOK
<1>3. SettledOK
  BY DEF FormInit, SettledOK
<1> QED
  BY <1>1, <1>2, <1>3 DEF FormInv

\* The table's invariant and the forms' hold together.
LEMMA FormInvariant == FormSpec => [](AssetInv /\ FormInv)
<1>1. AssetInv /\ FormInv /\ [FormNext]_formVars => (AssetInv /\ FormInv)'
  <2>1. AssetInv /\ FormInv /\ [FormNext]_formVars => AssetInv'
    BY AssetInvStep, FormIssuesStatements DEF FormInv
  <2> QED
    BY <2>1, FormInvStep
<1> QED
  BY <1>1, FormInvInit, PTL DEF FormSpec

\* The edit form and the new entry form store complete rows only and otherwise
\* behave as any client of the table, though the server checks nothing on an
\* update (edit_asset.php:16-28, new_entry.php:14-47).
THEOREM FormsWriteCompleteRows == FormSpec => WritesCompleteRows
<1>1. AssetInv /\ FormInv /\ [FormNext]_formVars => [AssetNext]_assetVars
  BY FormIssuesStatements DEF FormInv
<1>2. FormInit => AssetInit
  BY DEF FormInit
<1> QED
  BY <1>1, <1>2, FormInvariant, PTL DEF FormSpec, AssetSpec, WritesCompleteRows

\* After one save that left a column alone the column stays as it is through
\* all further saves of current forms (edit_asset.php:17, 141-159).
THEOREM WearsOnceHolds == FormSpec => []WearsOnce
<1>1. ASSUME AssetInv, FormInv PROVE WearsOnce
  <2>1. ASSUME NEW c \in Clients, form[c] # NoForm, form[c].age = "current",
               form[c].id \in LiveAssets, NEW col \in settled[form[c].id]
        PROVE  SavedRow(form[c].shown)[col] = assets[form[c].id][col]
    <3>1. /\ form[c].id \in AssetId /\ form[c].shown \in Fields
          /\ form[c].shown = Shown(assets[form[c].id])
      BY <1>1, <2>1, OpenForm DEF FormInv, FormsOK
    <3>2. col \in Columns
      BY <1>1, <2>1, <3>1 DEF FormInv, SettledOK
    <3>3. SavedRow(form[c].shown)[col] = SavedIn(col, ShownIn(col, assets[form[c].id][col]))
      BY <3>1, <3>2, ByColumn
    <3> QED
      BY <1>1, <2>1, <3>1, <3>3 DEF FormInv, SettledOK
  <2> QED
    BY <2>1 DEF WearsOnce
<1> QED
  BY <1>1, FormInvariant, PTL

\* What holds in place of UntouchedKept: a save from a form that is not out of
\* date leaves a column alone that the user left alone, once such a save has
\* settled it (edit_asset.php:17-28, 141-159).
SettledKept ==
  [][\A c \in Clients : (form[c] # NoForm /\ form[c].age = "current") =>
       \A fields \in Fields : SendForm(c, fields) =>
         \A col \in settled[form[c].id] \ Filled(c, fields) :
           assets[form[c].id] # NoRow => assets'[form[c].id][col] = assets[form[c].id][col]]_formVars

\* The violation of UntouchedKept is the first save of a delivered or newly
\* filled-in value only: no sequence of further saves changes the column again
\* (edit_asset.php:17-28, 141-159).
THEOREM SettledColumnsKept == FormSpec => SettledKept
<1>1. ASSUME AssetInv, FormInv, NEW c \in Clients, form[c] # NoForm, form[c].age = "current",
             NEW fields \in Fields, SendForm(c, fields),
             NEW col \in settled[form[c].id] \ Filled(c, fields), assets[form[c].id] # NoRow
      PROVE  assets'[form[c].id][col] = assets[form[c].id][col]
  <2> DEFINE id == form[c].id
  <2>1. id \in LiveAssets /\ form[c].shown \in Fields
    BY <1>1, OpenForm DEF FormInv, LiveAssets
  <2>2. id \in AssetId /\ col \in Columns
    BY <1>1, <2>1 DEF FormInv, SettledOK, LiveAssets
  <2>3. SavedIn(col, ShownIn(col, assets[id][col])) = assets[id][col]
    BY <1>1, <2>1, <2>2 DEF FormInv, SettledOK
  <2>4. fields[col] = ShownIn(col, assets[id][col])
    <3>1. fields[col] = form[c].shown[col]
      BY <1>1, <2>2 DEF Filled
    <3>2. form[c].shown = Shown(assets[id])
      BY <1>1, <2>1 DEF FormInv, FormsOK
    <3> QED
      BY <2>2, <3>1, <3>2, ByColumn
  <2>5. SavedRow(fields)[col] = assets[id][col]
    BY <2>2, <2>3, <2>4, ByColumn
  <2>6. CASE Fits(SavedRow(fields))
    <3>1. assets'[id] = SavedRow(fields)
      BY <1>1, <2>1, <2>2, <2>6 DEF SendForm, UpdateAsset
    <3> QED
      BY <2>5, <3>1
  <2>7. CASE ~Fits(SavedRow(fields))
    BY <1>1, <2>7 DEF SendForm, assetVars
  <2> QED
    BY <2>6, <2>7
<1>2. AssetInv /\ FormInv =>
        \A c \in Clients : (form[c] # NoForm /\ form[c].age = "current") =>
          \A fields \in Fields : SendForm(c, fields) =>
            \A col \in settled[form[c].id] \ Filled(c, fields) :
              assets[form[c].id] # NoRow => assets'[form[c].id][col] = assets[form[c].id][col]
  BY <1>1
<1> QED
  BY <1>2, FormInvariant, PTL DEF SettledKept
=============================================================================
