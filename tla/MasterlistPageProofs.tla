------------------------ MODULE MasterlistPageProofs ------------------------
(***************************************************************************)
(* Proofs about MasterlistPage, for any table, any number of deletions on  *)
(* their way and any use of the page.                                      *)
(***************************************************************************)
EXTENDS MasterlistPage, AssetTableProofs

\* The page sends statements of the asset table, or none.
LEMMA ListIssuesStatements ==
  ASSUME FetchesKnown, [ListNext]_listVars PROVE [AssetNext]_assetVars
<1>1. ASSUME NEW k \in Places, NEW state \in {"deleted", "failed"}, ServerDeletes(k, state)
      PROVE  AssetNext
  <2>1. DeleteAssets(fetches[k].ids)
    BY <1>1 DEF ServerDeletes
  <2>2. fetches[k].ids \in SUBSET AssetId
    BY DEF FetchesKnown, Given
  <2> QED
    BY <2>1, <2>2 DEF AssetNext
<1>2. ASSUME NEW i \in AssetId, ClickCheckbox(i) \/ ClickRow(i) PROVE UNCHANGED assetVars
  BY <1>2 DEF ClickCheckbox, ClickRow
<1>3. ASSUME NEW f, NEW value, ChangeFilter(f, value) PROVE UNCHANGED assetVars
  BY <1>3 DEF ChangeFilter
<1>4. ASSUME NEW t, Search(t) PROVE UNCHANGED assetVars
  BY <1>4 DEF Search
<1>5. ASSUME NEW k, PressDelete(k) \/ ServerRefuses(k) \/ Answered(k) PROVE UNCHANGED assetVars
  BY <1>5 DEF PressDelete, ServerRefuses, Answered
<1>6. ASSUME LoadList \/ PressEdit PROVE UNCHANGED assetVars
  BY <1>6 DEF LoadList, PressEdit
<1>7. ASSUME OthersChange PROVE AssetNext
  BY <1>7 DEF OthersChange
<1>8. ASSUME UNCHANGED listVars PROVE UNCHANGED assetVars
  BY <1>8 DEF listVars
<1> QED
  BY <1>1, <1>2, <1>3, <1>4, <1>5, <1>6, <1>7, <1>8 DEF ListNext

\* No statement brings an asset back, or takes an id back.
LEMMA GoneGrows ==
  ASSUME AssetInv, [AssetNext]_assetVars PROVE Gone \subseteq Gone' /\ Given \subseteq Given'
<1> USE ParameterAssumption, AssetAssumption DEF AssetInv, AssetTypeOK, AssetId, Gone, Given
<1>1. ASSUME NEW row \in Rows, InsertAsset(row) PROVE Gone \subseteq Gone' /\ Given \subseteq Given'
  BY <1>1 DEF InsertAsset
<1>2. ASSUME NEW id \in AssetId, NEW row \in Rows, UpdateAsset(id, row)
      PROVE  Gone \subseteq Gone' /\ Given \subseteq Given'
  BY <1>2 DEF UpdateAsset
<1>3. ASSUME NEW ids \in SUBSET AssetId, DeleteAssets(ids)
      PROVE  Gone \subseteq Gone' /\ Given \subseteq Given'
  BY <1>3 DEF DeleteAssets
<1>4. CASE UNCHANGED assetVars
  BY <1>4 DEF assetVars
<1> QED
  BY <1>1, <1>2, <1>3, <1>4 DEF AssetNext

\* What is in the table was given an id.
LEMMA LiveGiven == ASSUME AssetInv PROVE LiveAssets \subseteq Given
  BY ParameterAssumption DEF AssetInv, AssetTypeOK, FreshAbove, LiveAssets, Given, AssetId

\* The fetches keep what they know, however the table changes, if they are left
\* alone, forgotten by the page, or changed in one place to one that is known.
LEMMA FetchesKept ==
  ASSUME FetchesKnown, Gone \subseteq Gone', Given \subseteq Given',
         \/ fetches' = fetches
         \/ fetches' = Orphaned
         \/ \E k \in Places, f \in Fetch :
              /\ fetches' = [fetches EXCEPT ![k] = f]
              /\ f.ids \subseteq Given' /\ (f.state = "deleted" => f.ids \subseteq Gone')
  PROVE  FetchesKnown'
<1>1. CASE fetches' = fetches
  BY <1>1 DEF FetchesKnown
<1>2. CASE fetches' = Orphaned
  <2>1. \A k \in Places :
          /\ fetches'[k] \in Fetch
          /\ fetches'[k].ids = fetches[k].ids /\ fetches'[k].state = fetches[k].state
    BY <1>2 DEF Orphaned, FetchesKnown, Fetch
  <2>2. fetches' \in [Places -> Fetch]
    BY <1>2, <2>1 DEF Orphaned
  <2> QED
    BY <2>1, <2>2 DEF FetchesKnown
<1>3. ASSUME NEW k \in Places, NEW f \in Fetch, fetches' = [fetches EXCEPT ![k] = f],
             f.ids \subseteq Given', f.state = "deleted" => f.ids \subseteq Gone'
      PROVE  FetchesKnown'
  <2>1. fetches' \in [Places -> Fetch] /\ fetches'[k] = f
        /\ \A j \in Places : j # k => fetches'[j] = fetches[j]
    BY <1>3 DEF FetchesKnown
  <2> QED
    BY <1>3, <2>1 DEF FetchesKnown
<1> QED
  BY <1>1, <1>2, <1>3

\* Every event keeps what the page knows.
LEMMA ListInvStep ==
  ASSUME AssetInv, AssetInv', ListInv, [ListNext]_listVars PROVE ListInv'
<1>0. PageKnown /\ FetchesKnown /\ Listed \ dom \subseteq Gone
  BY DEF ListInv
<1>1. Gone \subseteq Gone' /\ Given \subseteq Given'
  BY <1>0, GoneGrows, ListIssuesStatements
<1>2. ASSUME LoadList PROVE ListInv'
  <2>1. FetchesKnown'
    BY <1>0, <1>1, <1>2, FetchesKept DEF LoadList
  <2>2. Listed' = LiveAssets /\ dom' = LiveAssets /\ checked' = {}
    BY <1>2 DEF LoadList, Listed, LiveAssets
  <2> QED
    BY <1>1, <2>1, <2>2, LiveGiven DEF ListInv, PageKnown
\* An event that removes no row and selects at most one that is there.
<1>3. ASSUME FetchesKnown', UNCHANGED <<page, dom>>, checked' \subseteq checked \cup dom PROVE ListInv'
  BY <1>0, <1>1, <1>3 DEF ListInv, PageKnown, Listed
<1>4. ASSUME NEW i \in AssetId, ClickCheckbox(i) \/ ClickRow(i) PROVE ListInv'
  <2>1. FetchesKnown'
    BY <1>0, <1>1, <1>4, FetchesKept DEF ClickCheckbox, ClickRow
  <2>2. UNCHANGED <<page, dom>> /\ checked' \subseteq checked \cup dom
    BY <1>4 DEF ClickCheckbox, ClickRow, Flip
  <2> QED
    BY <1>3, <2>1, <2>2
<1>5. ASSUME NEW k \in Places, PressDelete(k) PROVE ListInv'
  <2> DEFINE new == [ids |-> checked, state |-> "sent", live |-> TRUE]
  <2>1. new \in Fetch /\ new.ids \subseteq Given' /\ new.state # "deleted"
    BY <1>0, <1>1 DEF Fetch, PageKnown, Given
  <2>2. fetches' = [fetches EXCEPT ![k] = new] /\ UNCHANGED <<page, dom, checked>>
    BY <1>5 DEF PressDelete
  <2> HIDE DEF new
  <2>3. FetchesKnown'
    BY <1>0, <1>1, <2>1, <2>2, FetchesKept
  <2> QED
    BY <1>3, <2>2, <2>3
<1>6. ASSUME PressEdit PROVE ListInv'
  <2>1. FetchesKnown'
    BY <1>0, <1>1, <1>6, FetchesKept DEF PressEdit
  <2>2. Listed' = {} /\ dom' = {} /\ checked' = {}
    BY <1>6 DEF PressEdit, Listed
  <2> QED
    BY <2>1, <2>2 DEF ListInv, PageKnown
<1>7. ASSUME NEW k \in Places, NEW state \in {"deleted", "failed"},
             fetches' = [fetches EXCEPT ![k].state = state],
             state = "deleted" => fetches[k].ids \subseteq Gone',
             UNCHANGED <<page, dom, checked>>
      PROVE  ListInv'
  <2> DEFINE new == [fetches[k] EXCEPT !.state = state]
  <2>1. fetches[k] \in Fetch /\ fetches[k].ids \subseteq Given
    BY <1>0 DEF FetchesKnown
  <2>2. new \in Fetch /\ new.ids = fetches[k].ids /\ new.state = state
    BY <2>1 DEF Fetch
  <2>3. fetches' = [fetches EXCEPT ![k] = new]
    BY <1>7
  <2> HIDE DEF new
  <2>4. FetchesKnown'
    BY <1>0, <1>1, <1>7, <2>1, <2>2, <2>3, FetchesKept
  <2> QED
    BY <1>3, <1>7, <2>4
<1>8. ASSUME NEW k \in Places, NEW state \in {"deleted", "failed"}, ServerDeletes(k, state)
      PROVE  ListInv'
  <2>1. fetches[k].ids \subseteq Given
    BY <1>0 DEF FetchesKnown
  <2>2. fetches[k].ids \subseteq Gone'
    BY <1>8, <2>1 DEF ServerDeletes, DeleteAssets, Gone, Given
  <2> QED
    BY <1>7, <1>8, <2>2 DEF ServerDeletes
<1>9. ASSUME NEW k \in Places, ServerRefuses(k) PROVE ListInv'
  BY <1>7, <1>9 DEF ServerRefuses
<1>10. ASSUME NEW k \in Places, Answered(k) PROVE ListInv'
  <2>1. NoFetch \in Fetch /\ NoFetch.ids = {}
    BY DEF NoFetch, Fetch
  <2>2. FetchesKnown'
    BY <1>0, <1>1, <1>10, <2>1, FetchesKept DEF Answered
  <2>3. page' = page /\ checked' = checked
    BY <1>10 DEF Answered
  <2>4. dom' = dom \/ (fetches[k].state = "deleted" /\ dom' = dom \ fetches[k].ids)
    BY <1>10 DEF Answered
  <2>5. dom' = dom \/ (dom' = dom \ fetches[k].ids /\ fetches[k].ids \subseteq Gone)
    BY <1>0, <2>4 DEF FetchesKnown
  <2> QED
    BY <1>0, <1>1, <2>2, <2>3, <2>5 DEF ListInv, PageKnown, Listed
<1>11. ASSUME \/ \E f \in Filters, value \in FilterValues \cup {All} : ChangeFilter(f, value)
              \/ \E t \in Terms : Search(t)
              \/ OthersChange
              \/ UNCHANGED listVars
       PROVE  ListInv'
  <2>1. UNCHANGED <<page, dom, checked, fetches>>
    BY <1>11 DEF ChangeFilter, Search, OthersChange, listVars, pageVars
  <2>2. FetchesKnown'
    BY <1>0, <1>1, <2>1, FetchesKept
  <2> QED
    BY <1>3, <2>1, <2>2
<1> QED
  BY <1>2, <1>4, <1>5, <1>6, <1>8, <1>9, <1>10, <1>11 DEF ListNext

\* What the page knows is right at every moment.
LEMMA ListInvariant == ListSpec => [](AssetInv /\ ListInv)
<1>1. ListInit => ListInv
  <2>1. NoFetch \in Fetch /\ NoFetch.ids = {} /\ NoFetch.state = "none"
    BY DEF NoFetch, Fetch
  <2> QED
    BY <2>1 DEF ListInit, ListInv, PageKnown, FetchesKnown, Listed
<1>2. ListInit => AssetInv
  BY AssetInvInit DEF ListInit
<1>3. AssetInv /\ ListInv /\ [ListNext]_listVars => (AssetInv /\ ListInv)'
  <2>1. AssetInv /\ ListInv /\ [ListNext]_listVars => AssetInv'
    BY AssetInvStep, ListIssuesStatements DEF ListInv
  <2> QED
    BY <2>1, ListInvStep
<1> QED
  BY <1>1, <1>2, <1>3, PTL DEF ListSpec

\* A row the page has removed is an asset that is gone, whatever the user and
\* other clients do between a request and its answer, in whichever order the
\* answers come (masterlist.php:178-204).
THEOREM RemovedAreGoneHolds == ListSpec => []RemovedAreGone
<1>1. ListInv => RemovedAreGone
  BY DEF ListInv, RemovedAreGone, Gone, LiveAssets
<1> QED
  BY <1>1, ListInvariant, PTL

\* Selection and display stay as PageInv says.
LEMMA PageInvariant == ListSpec => []PageInv
<1>1. ListInit => PageInv
  BY DEF ListInit, PageInv
<1>2. ASSUME PageInv, [ListNext]_listVars PROVE PageInv'
  <2>1. ASSUME NEW i \in AssetId, ClickCheckbox(i) \/ ClickRow(i) PROVE PageInv'
    BY <1>2, <2>1 DEF ClickCheckbox, ClickRow, Flip, PageInv, Passes
  <2>2. ASSUME LoadList \/ PressEdit PROVE PageInv'
    BY <2>2 DEF LoadList, PressEdit, PageInv
  <2>3. ASSUME NEW f, NEW value, ChangeFilter(f, value) PROVE PageInv'
    BY <1>2, <2>3 DEF ChangeFilter, PageInv, Passes
  <2>4. ASSUME NEW t, Search(t) PROVE PageInv'
    BY <1>2, <2>4 DEF Search, PageInv, Passes
  <2>5. ASSUME NEW k, Answered(k) PROVE PageInv'
    <3>1. dom' \ shown' \subseteq dom \ shown /\ UNCHANGED <<page, checked, marked, filters, term>>
      BY <2>5 DEF Answered
    <3> QED
      BY <1>2, <3>1 DEF PageInv, Passes
  <2>6. ASSUME UNCHANGED <<page, dom, checked, marked, filters, term, shown>> PROVE PageInv'
    BY <1>2, <2>6 DEF PageInv, Passes
  <2> QED
    BY <1>2, <2>1, <2>2, <2>3, <2>4, <2>5, <2>6
    DEF ListNext, PressDelete, ServerDeletes, ServerRefuses, OthersChange, listVars, pageVars
<1> QED
  BY <1>1, <1>2, PTL DEF ListSpec

\* What is sent is what is checked.
LEMMA SendsChecked == Sends => sent' = checked
  BY DEF Sends, PressDelete, PressEdit

\* A request names the highlighted rows of the document, and beyond them only
\* assets that are gone: also while the page waits for its reload, when the boxes
\* of removed rows are still sent (masterlist.php:140-186, 196).
THEOREM SentIsHighlightedHolds == ListSpec => SentIsHighlighted
<1>1. ASSUME ListInv, PageInv, Sends
      PROVE  sent' \cap dom = marked \cap dom /\ (sent' \ dom) \cap LiveAssets = {}
  <2>1. sent' = checked
    BY <1>1, SendsChecked
  <2>2. (checked \ dom) \cap LiveAssets = {}
    BY <1>1 DEF ListInv, PageKnown, Gone, LiveAssets
  <2> QED
    BY <1>1, <2>1, <2>2 DEF PageInv
<1>2. ListInv /\ PageInv =>
        (Sends => sent' \cap dom = marked \cap dom /\ (sent' \ dom) \cap LiveAssets = {})
  BY <1>1
<1> QED
  BY <1>2, ListInvariant, PageInvariant, PTL DEF SentIsHighlighted

\* A row that is sent though it is hidden is excluded by what the heading or the
\* search box shows at that moment, in whatever order boxes were changed, texts
\* typed and rows selected (masterlist.php:206-234).
THEOREM SentIsSeenHolds == ListSpec => SentIsSeen
<1>1. PageInv => (Sends => \A i \in (sent' \cap dom) \ shown :
                             ~Passes(i, filters) \/ page[i] \notin Found[term])
  BY DEF PageInv
<1> QED
  BY <1>1, PageInvariant, PTL DEF SentIsSeen

\* With every box at "All" and an empty search box a request names, of the rows in
\* the document, only rows that are displayed.
THEOREM UnfilteredIsSeen ==
  ListSpec => [][Sends /\ (\A f \in Filters : filters[f] = All) /\ term = NoTerm
                   => sent' \cap dom \subseteq shown]_listVars
<1>1. ASSUME NEW i \in Listed, page \in [AssetId -> Rows \cup {NoRow}],
             \A f \in Filters : filters[f] = All, term = NoTerm
      PROVE  Passes(i, filters) /\ page[i] \in Found[term]
  BY <1>1, PageAssumption DEF Passes, Listed
<1>2. ASSUME ListInv, PageInv, page \in [AssetId -> Rows \cup {NoRow}], Sends,
             \A f \in Filters : filters[f] = All, term = NoTerm
      PROVE  sent' \cap dom \subseteq shown
  BY <1>1, <1>2 DEF ListInv, PageKnown, PageInv
<1>3. ListSpec => [](page \in [AssetId -> Rows \cup {NoRow}])
  <2>1. ListInit => page \in [AssetId -> Rows \cup {NoRow}]
    BY DEF ListInit
  <2>2. AssetInv /\ page \in [AssetId -> Rows \cup {NoRow}] /\ [ListNext]_listVars
          => (page \in [AssetId -> Rows \cup {NoRow}])'
    BY DEF AssetInv, AssetTypeOK, ListNext, LoadList, ClickCheckbox, ClickRow, ChangeFilter, Search,
           PressDelete, PressEdit, ServerDeletes, ServerRefuses, Answered, OthersChange, listVars, pageVars
  <2> QED
    BY <2>1, <2>2, ListInvariant, PTL DEF ListSpec
<1>4. ListInv /\ PageInv /\ page \in [AssetId -> Rows \cup {NoRow}] =>
        (Sends /\ (\A f \in Filters : filters[f] = All) /\ term = NoTerm => sent' \cap dom \subseteq shown)
  BY <1>2
<1> QED
  BY <1>3, <1>4, ListInvariant, PageInvariant, PTL

\* The page is a client of the asset table like any other: ids keep their life
\* cycle (delete_selected.php:24).
THEOREM PageImplementsTable == ListSpec => AssetSpec
<1>1. ListInit => AssetInit
  BY DEF ListInit
<1>2. AssetInv /\ ListInv /\ [ListNext]_listVars => [AssetNext]_assetVars
  BY ListIssuesStatements DEF ListInv
<1> QED
  BY <1>1, <1>2, ListInvariant, PTL DEF ListSpec, AssetSpec
=============================================================================
