--------------------------- MODULE MasterlistPage ---------------------------
(***************************************************************************)
(* The masterlist in the browser: rows that are checked, filtered, searched *)
(* for and removed, and the requests the page sends.  Its script runs to   *)
(* completion for each event, but a deletion is a fetch: between sending   *)
(* it and its answer the user goes on, and other clients change the table. *)
(* location.reload() does not replace the page at once either.             *)
(*                                                                         *)
(* Deletions on their way are served one at a time, for delete_selected.php *)
(* locks the session, but in any order, and answered in any order.  A row  *)
(* of the table is what the filters and the search tell apart of it.       *)
(***************************************************************************)
EXTENDS AssetTable

CONSTANTS
  Filters,     \* the select boxes of the heading
  All,         \* the empty text, which is the value of the option "All"
  FilterOf,    \* the value of each row in the column of each box
  Terms,       \* what is typed into the search box
  NoTerm,      \* the empty search box
  Found,       \* the rows with a cell that contains each term
  MaxFetches   \* bound: deletions on their way at the same time

FilterValues == {FilterOf[r][f] : r \in Rows, f \in Filters}

ASSUME PageAssumption ==
  /\ FilterOf \in [Rows -> [Filters -> FilterValues]]
  /\ Found \in [Terms -> SUBSET Rows] /\ NoTerm \in Terms /\ Found[NoTerm] = Rows
  /\ MaxFetches \in Nat

VARIABLES
  page,       \* the rows as they were when the page was loaded
  dom,        \* the ids whose row is still in the document
  checked,    \* the ids whose checkbox is checked, in the document or not
  marked,     \* the ids whose row has the class selected-row
  enabled,    \* the two buttons can be pressed
  filters,    \* the option of each select box
  term,       \* the text of the search box
  shown,      \* the ids whose row is displayed
  fetches,    \* the deletions on their way, in places that are used again
  reloading,  \* location.reload() was called and the new page is not there yet
  sent        \* the selected_ids last sent

pageVars == <<page, dom, checked, marked, enabled, filters, term, shown, fetches, reloading, sent>>
listVars == <<assetVars, pageVars>>

Listed == {i \in AssetId : page[i] # NoRow}

\* live: the page that waits for the answer is still there.
Places == 1..MaxFetches
Fetch == [ids : SUBSET AssetId, state : {"none", "sent", "deleted", "failed"}, live : BOOLEAN]
NoFetch == [ids |-> {}, state |-> "none", live |-> FALSE]

\* The fetches of a page that is replaced: nobody waits for their answers.
Orphaned == [k \in Places |-> [fetches[k] EXCEPT !.live = FALSE]]

-----------------------------------------------------------------------------
\* No page yet.
ListInit ==
  /\ AssetInit
  /\ page = [i \in AssetId |-> NoRow]
  /\ dom = {} /\ checked = {} /\ marked = {} /\ shown = {}
  /\ enabled = FALSE /\ reloading = FALSE
  /\ filters = [f \in Filters |-> All]
  /\ term = NoTerm
  /\ fetches = [k \in Places |-> NoFetch]
  /\ sent = {}

\* masterlist.php answers: a new page, which knows nothing of the fetches of
\* the page it replaces.
LoadList ==
  /\ page' = assets
  /\ dom' = LiveAssets /\ shown' = LiveAssets
  /\ checked' = {} /\ marked' = {}
  /\ enabled' = FALSE /\ reloading' = FALSE
  /\ filters' = [f \in Filters |-> All]
  /\ term' = NoTerm
  /\ fetches' = Orphaned
  /\ UNCHANGED <<assetVars, sent>>

\* toggleButton, over rowCheckboxes: a list made when the page was loaded,
\* which still holds the boxes of rows that were removed.
ToggleButton == enabled' = (checked' # {})

Flip(S, i) == IF i \in S THEN S \ {i} ELSE S \cup {i}

\* A click on a checkbox: the browser flips it, the row's click handler
\* returns, and the change handler marks the row.
ClickCheckbox(i) ==
  /\ i \in dom \cap shown
  /\ checked' = Flip(checked, i)
  /\ marked' = IF i \in checked' THEN marked \cup {i} ELSE marked \ {i}
  /\ ToggleButton
  /\ UNCHANGED <<assetVars, page, dom, filters, term, shown, fetches, reloading, sent>>

\* Mutant of ClickRow: the row is left to the change handler, which a script
\* that sets a checkbox does not call.
ClickRowUnmarked(i) ==
  /\ i \in dom \cap shown
  /\ checked' = Flip(checked, i)
  /\ ToggleButton
  /\ UNCHANGED <<assetVars, page, dom, marked, filters, term, shown, fetches, reloading, sent>>

\* A click elsewhere on the row: the script flips the checkbox.
ClickRow(i) ==
  /\ i \in dom \cap shown
  /\ checked' = Flip(checked, i)
  /\ marked' = IF i \in checked' THEN marked \cup {i} ELSE marked \ {i}
  /\ ToggleButton
  /\ UNCHANGED <<assetVars, page, dom, filters, term, shown, fetches, reloading, sent>>

\* filterTable: a row is displayed if it agrees with every box.  A box with the
\* empty text lets every row pass.
Passes(i, boxes) == \A f \in Filters : boxes[f] \in {All, FilterOf[page[i]][f]}

\* The options of memory are fixed, and those of the others come from queries
\* after the one for the rows: an option need not be the value of a row.
ChangeFilter(f, value) ==
  /\ filters' = [filters EXCEPT ![f] = value]
  /\ shown' = {i \in dom : Passes(i, filters')}
  /\ UNCHANGED <<assetVars, page, dom, checked, marked, enabled, term, fetches, reloading, sent>>

\* Mutant of Search: rows are only hidden, so that they stay hidden when the
\* search box is emptied.
SearchNarrows(t) ==
  /\ term' = t
  /\ shown' = {i \in shown : page[i] \in Found[t]}
  /\ UNCHANGED <<assetVars, page, dom, checked, marked, enabled, filters, fetches, reloading, sent>>

\* keyup in the search box: a row is displayed if a cell contains the term.
Search(t) ==
  /\ term' = t
  /\ shown' = {i \in dom : page[i] \in Found[t]}
  /\ UNCHANGED <<assetVars, page, dom, checked, marked, enabled, filters, fetches, reloading, sent>>

\* "Delete Selected", confirmed: k is a free place for the fetch.
PressDelete(k) ==
  /\ enabled /\ checked # {}
  /\ fetches[k].state = "none"
  /\ fetches' = [fetches EXCEPT ![k] = [ids |-> checked, state |-> "sent", live |-> TRUE]]
  /\ sent' = checked
  /\ UNCHANGED <<assetVars, page, dom, checked, marked, enabled, filters, term, shown, reloading>>

\* "Batch Edit Selected": the browser goes to edit_asset.php.
PressEdit ==
  /\ enabled /\ checked # {}
  /\ sent' = checked
  /\ page' = [i \in AssetId |-> NoRow]
  /\ dom' = {} /\ checked' = {} /\ marked' = {} /\ shown' = {}
  /\ enabled' = FALSE /\ reloading' = FALSE
  /\ filters' = [f \in Filters |-> All]
  /\ term' = NoTerm
  /\ fetches' = Orphaned
  /\ UNCHANGED assetVars

\* delete_selected.php deletes the assets; it says "success", unless the
\* server's answer to it, or its own, is lost.
ServerDeletes(k, state) ==
  /\ fetches[k].state = "sent"
  /\ state \in {"deleted", "failed"}
  /\ DeleteAssets(fetches[k].ids)
  /\ fetches' = [fetches EXCEPT ![k].state = state]
  /\ UNCHANGED <<page, dom, checked, marked, enabled, filters, term, shown, reloading, sent>>

\* It says something else (no session any more, an error), or nothing.
ServerRefuses(k) ==
  /\ fetches[k].state = "sent"
  /\ fetches' = [fetches EXCEPT ![k].state = "failed"]
  /\ UNCHANGED <<assetVars, page, dom, checked, marked, enabled, filters, term, shown, reloading, sent>>

\* Mutant of Answered: the rows that are selected when the answer comes.
AnsweredNow(k) ==
  /\ fetches[k].state \in {"deleted", "failed"}
  /\ fetches' = [fetches EXCEPT ![k] = NoFetch]
  /\ IF fetches[k].live /\ fetches[k].state = "deleted"
     THEN dom' = dom \ checked /\ shown' = shown \ checked /\ reloading' = TRUE
     ELSE UNCHANGED <<dom, shown, reloading>>
  /\ UNCHANGED <<assetVars, page, checked, marked, enabled, filters, term, sent>>

\* The answer reaches the page that sent the request, if it is still there: on
\* "success" the rows are removed, and the page is loaded again.
Answered(k) ==
  /\ fetches[k].state \in {"deleted", "failed"}
  /\ fetches' = [fetches EXCEPT ![k] = NoFetch]
  /\ IF fetches[k].live /\ fetches[k].state = "deleted"
     THEN /\ dom' = dom \ fetches[k].ids
          /\ shown' = shown \ fetches[k].ids
          /\ reloading' = TRUE
     ELSE UNCHANGED <<dom, shown, reloading>>
  /\ UNCHANGED <<assetVars, page, checked, marked, enabled, filters, term, sent>>

\* Other clients.
OthersChange ==
  /\ AssetNext
  /\ UNCHANGED pageVars

ListNext ==
  \/ LoadList
  \/ \E i \in AssetId : ClickCheckbox(i) \/ ClickRow(i)
  \/ \E f \in Filters, value \in FilterValues \cup {All} : ChangeFilter(f, value)
  \/ \E t \in Terms : Search(t)
  \/ PressEdit
  \/ \E k \in Places : PressDelete(k) \/ ServerRefuses(k) \/ Answered(k)
  \/ \E k \in Places, state \in {"deleted", "failed"} : ServerDeletes(k, state)
  \/ OthersChange

ListSpec == ListInit /\ [][ListNext]_listVars
-----------------------------------------------------------------------------
(***************************************************************************)
(* Properties                                                              *)
(***************************************************************************)

\* A row that the page has removed is an asset that does not exist any more,
\* whatever was selected between the request and its answer
\* (masterlist.php:179 against 191-197).
RemovedAreGone == (Listed \ dom) \cap LiveAssets = {}

\* The user sends the selection to be deleted or edited.
Sends == (\E k \in Places : PressDelete(k)) \/ PressEdit

\* Of the rows in the document a request names exactly the highlighted ones,
\* displayed or hidden.  It may name others, because rowCheckboxes still holds
\* the boxes of rows that the answer to a deletion has removed and the buttons
\* work until the new page is there (masterlist.php:140, 179, 196); but those are
\* assets that do not exist any more, so that a second press cannot delete or
\* edit anything that is not highlighted.
SentIsHighlighted ==
  [][Sends => /\ sent' \cap dom = marked \cap dom
              /\ (sent' \ dom) \cap LiveAssets = {}]_listVars

\* A highlighted row may be sent though it is hidden, for filter and search leave
\* the selection alone and each overrules the other (masterlist.php:220, 232).
\* But what hides it is in view: a select box of the heading stands at another
\* value, or the search box holds a text it does not contain.  With all boxes at
\* "All" and nothing to search for, what is sent is displayed.
SentIsSeen ==
  [][Sends => \A i \in (sent' \cap dom) \ shown :
                ~Passes(i, filters) \/ page[i] \notin Found[term]]_listVars
-----------------------------------------------------------------------------
(***************************************************************************)
(* The inductive invariants                                                *)
(***************************************************************************)

\* The assets that existed and do not any more.
Gone == {i \in AssetId : i < nextAssetId /\ assets[i] = NoRow}

Given == {i \in AssetId : i < nextAssetId}

\* The page and what is selected on it was in the table once, so that what is
\* gone of it stays gone.
PageKnown == Listed \subseteq Given /\ dom \subseteq Listed /\ checked \subseteq Listed

FetchesKnown ==
  /\ fetches \in [Places -> Fetch]
  /\ \A k \in Places :
       fetches[k].ids \subseteq Given /\ (fetches[k].state = "deleted" => fetches[k].ids \subseteq Gone)

ListInv == PageKnown /\ FetchesKnown /\ Listed \ dom \subseteq Gone

\* The two ways to select a row keep its checkbox and its colour together, and a
\* row is hidden only while a box or the search excludes it.
PageInv ==
  /\ marked = checked
  /\ \A i \in dom \ shown : ~Passes(i, filters) \/ page[i] \notin Found[term]
=============================================================================
