----------------------------- MODULE Inventory -----------------------------
(***************************************************************************)
(* The inventory system: PHP Desktop clients whose page handlers share one *)
(* MariaDB server.  A handler is a sequence of autocommitted statements on *)
(* a connection of its own, and the statements of different clients        *)
(* interleave.  The server is stopped with taskkill /F, which ends every   *)
(* connection and keeps what was committed; it is reached over the network *)
(* (config.php), so that a connection may also be lost by itself.          *)
(*                                                                         *)
(* pc[c] is where the request of client c is:                              *)
(*   "change"  before its INSERT, UPDATE or DELETE on assets;              *)
(*   "log"     in the log protocol (phase[c] of HistoryLog);               *)
(*   "load"    before edit_asset.php's SELECT of the next asset;           *)
(*   "idle"    no request.                                                 *)
(* A request that finds no user in the session or no server leaves no      *)
(* trace: it ends in a redirect or in die().                               *)
(***************************************************************************)
EXTENDS HistoryLog, AssetTable, EditSession

CONSTANTS
  MaxFaults, \* bound: how often the server is killed or a connection lost
  Duties     \* bound: the kinds of request the user of each client makes

VARIABLES
  up,         \* the server process runs
  faults,     \* history: how often it was killed or a connection was lost
  connected,  \* the connection of each client's request is alive
  pc,         \* where each client's request is
  job,        \* what the request is about
  listed,     \* the assets on the last masterlist page the client loaded
  forms,      \* the assets whose edit form the client was shown, and AskForId
  unlogged    \* history: changes made to assets and not written to the log

vars == <<logVars, assetVars, sessionVars,
          up, faults, connected, pc, job, listed, forms, unlogged>>

\* The request: which handler, on which assets, with which submitted columns.
Kinds == {"new", "edit", "delete", "batch", "manual"}
Job == [kind : Kinds, ids : SUBSET AssetId, row : Rows \cup {NoRow}]
NoJob == [kind |-> "batch", ids |-> {}, row |-> NoRow]

\* The form of edit_asset.php that asks for an id.
AskForId == 0

\* The notes: "Added new asset ID n", "Edited asset ID n", "Deleted asset ID: n, m".
NoteFor(kind) ==
  CASE kind = "new" -> "Added" [] kind = "edit" -> "Edited" [] kind = "delete" -> "Deleted"
Note == [who : Users \cup {NoUser}, what : {"Added", "Edited", "Deleted"}, ids : SUBSET AssetId]

ASSUME InventoryAssumption ==
  /\ MaxFaults \in Nat
  /\ Duties \in [Clients -> SUBSET Kinds]
  /\ Note \subseteq Notes

\* A change to an asset: by which client's request, what and which asset.
Change == [by : Clients, what : {"Added", "Edited", "Deleted"}, id : AssetId]
Changes(c, what, ids) == {[by |-> c, what |-> what, id |-> i] : i \in ids}

InFlight == {c \in Clients : pc[c] # "idle"}

-----------------------------------------------------------------------------
Init ==
  /\ LogInit /\ AssetInit /\ SessionInit
  /\ up = TRUE /\ faults = 0
  /\ connected = [c \in Clients |-> FALSE]
  /\ pc = [c \in Clients |-> "idle"]
  /\ job = [c \in Clients |-> NoJob]
  /\ listed = [c \in Clients |-> {}]
  /\ forms = [c \in Clients |-> {}]
  /\ unlogged = {}

(***************************************************************************)
(* Requests of the user.  A session handles one request at a time.         *)
(***************************************************************************)

\* config.php connects, and the request j of c goes on at step.
Open(c, step, j) ==
  /\ pc[c] = "idle" /\ up /\ j.kind \in Duties[c]
  /\ pc' = [pc EXCEPT ![c] = step]
  /\ job' = [job EXCEPT ![c] = j]
  /\ connected' = [connected EXCEPT ![c] = TRUE]
  /\ UNCHANGED <<up, faults, forms, unlogged>>

\* A request that may write a note; the bound keeps a log row for each.
OpenWrite(c, j) ==
  /\ user[c] # NoUser
  /\ nextLogId + Cardinality(InFlight) <= MaxLogId
  /\ Open(c, "change", j)
  /\ UNCHANGED <<logVars, assetVars, sessionVars, listed>>

\* login.php; a name or password it refuses changes nothing.
LoginPage(c, name, password) ==
  /\ pc[c] = "idle" /\ up
  /\ \E u \in Users : Accepts(name, password, u) /\ Login(c, u)
  /\ UNCHANGED <<logVars, assetVars, up, faults, connected, pc, job, listed, forms, unlogged>>

LogoutPage(c) ==
  /\ pc[c] = "idle" /\ user[c] # NoUser /\ Logout(c)
  /\ UNCHANGED <<logVars, assetVars, up, faults, connected, pc, job, listed, forms, unlogged>>

\* masterlist.php: the page keeps its rows until it is loaded again.
Masterlist(c) ==
  /\ pc[c] = "idle" /\ up /\ user[c] # NoUser
  /\ listed' = [listed EXCEPT ![c] = LiveAssets]
  /\ UNCHANGED <<logVars, assetVars, sessionVars, up, faults, connected, pc, job, forms, unlogged>>

\* new_entry.php with every required field filled in.
NewEntry(c, row) == OpenWrite(c, [kind |-> "new", ids |-> {}, row |-> row])

\* "Update & Continue" on a form the client was shown, perhaps long ago.
UpdateForm(c, id, row) ==
  /\ id \in forms[c]
  /\ OpenWrite(c, [kind |-> "edit", ids |-> {id}, row |-> row])

\* "Delete Selected" on the masterlist.
DeleteSelected(c, ids) ==
  /\ ids \in SUBSET listed[c] /\ ids # {}
  /\ OpenWrite(c, [kind |-> "delete", ids |-> ids, row |-> NoRow])

\* "Edit Selected" on the masterlist.
EditSelected(c, queue) ==
  /\ ToSet(queue) \subseteq listed[c]
  /\ Open(c, "load", [kind |-> "batch", ids |-> {}, row |-> NoRow])
  /\ SelectBatch(c, queue)
  /\ UNCHANGED <<logVars, assetVars, listed>>

\* "Load Asset" with an id typed by the user.
LoadManual(c, id) ==
  /\ user[c] # NoUser /\ AskForId \in forms[c]
  /\ Open(c, "load", [kind |-> "manual", ids |-> {id}, row |-> NoRow])
  /\ UNCHANGED <<logVars, assetVars, sessionVars, listed>>

\* The link to edit_asset.php, or Reload: go on with the queue.
OpenEdit(c) ==
  /\ user[c] # NoUser
  /\ Open(c, "load", NoJob)
  /\ UNCHANGED <<logVars, assetVars, sessionVars, listed>>

-----------------------------------------------------------------------------
(***************************************************************************)
(* Steps of the handlers                                                   *)
(***************************************************************************)

\* The request of c ends.
Close(c) ==
  /\ pc' = [pc EXCEPT ![c] = "idle"]
  /\ job' = [job EXCEPT ![c] = NoJob]
  /\ connected' = [connected EXCEPT ![c] = FALSE]

\* Mutant of Changed: the handler stays at its statement and would run it again.
ChangedStays(c, ids, j) ==
  /\ BeginLog(c)
  /\ job' = [job EXCEPT ![c] = j]
  /\ unlogged' = unlogged \cup Changes(c, NoteFor(j.kind), ids)
  /\ UNCHANGED <<sessionVars, up, faults, connected, pc, listed, forms>>

\* The change of c is done, on the assets in ids: its note comes next.
Changed(c, ids, j) ==
  /\ BeginLog(c)
  /\ pc' = [pc EXCEPT ![c] = "log"]
  /\ job' = [job EXCEPT ![c] = j]
  /\ unlogged' = unlogged \cup Changes(c, NoteFor(j.kind), ids)
  /\ UNCHANGED <<sessionVars, up, faults, connected, listed, forms>>

\* $stmt->execute() of the INSERT; $conn->insert_id is the connection's own.
ExecInsert(c) ==
  /\ pc[c] = "change" /\ job[c].kind = "new" /\ connected[c]
  /\ InsertAsset(job[c].row)
  /\ Changed(c, {nextAssetId}, [job[c] EXCEPT !.ids = {nextAssetId}])

\* $stmt->execute() of the UPDATE, which may match no row.
ExecUpdate(c) ==
  /\ pc[c] = "change" /\ job[c].kind = "edit" /\ connected[c]
  /\ \E id \in job[c].ids : UpdateAsset(id, job[c].row)
  /\ Changed(c, job[c].ids \cap LiveAssets, job[c])

\* The UPDATE fails (a value too long for its column, a connection lost after
\* prepare) and its result is ignored: the handler goes on.
UpdateFails(c) ==
  /\ pc[c] = "change" /\ job[c].kind = "edit"
  /\ Changed(c, {}, job[c])
  /\ UNCHANGED assetVars

\* $stmt->execute() of the DELETE, which may match fewer rows than ids.
ExecDelete(c) ==
  /\ pc[c] = "change" /\ job[c].kind = "delete" /\ connected[c]
  /\ DeleteAssets(job[c].ids)
  /\ Changed(c, job[c].ids \cap LiveAssets, job[c])

\* The request ends without a change: new_entry.php and delete_selected.php
\* report an error of their statement; with the connection lost, prepare
\* returns false, on which edit_asset.php and new_entry.php die.
GiveUp(c) ==
  /\ pc[c] = "change"
  /\ job[c].kind # "edit" \/ ~connected[c]
  /\ Close(c)
  /\ UNCHANGED <<logVars, assetVars, sessionVars, up, faults, listed, forms, unlogged>>

\* After the log, edit_asset.php takes the asset off the queue and goes on to
\* load the next one; the other handlers answer.
AfterLog(c) ==
  IF job[c].kind = "edit"
  THEN /\ \E id \in job[c].ids : Advance(c, id)
       /\ pc' = [pc EXCEPT ![c] = "load"]
       /\ UNCHANGED <<job, connected>>
  ELSE Close(c) /\ UNCHANGED sessionVars

\* Mutant of NoteOf: SELECT MAX(id) FROM assets for insert_id.
NoteOfLatest(c) ==
  [who |-> user[c], what |-> NoteFor(job[c].kind),
   ids |-> IF job[c].kind = "new" THEN {nextAssetId - 1} ELSE job[c].ids]

\* Mutant of NoteOf: one id of those deleted.
NoteOfOne(c) ==
  [who |-> user[c], what |-> NoteFor(job[c].kind), ids |-> {CHOOSE i \in job[c].ids : TRUE}]

\* Mutant of NoteOf: the head of the edit queue instead of the asset updated.
NoteOfHead(c) ==
  [who |-> user[c], what |-> NoteFor(job[c].kind),
   ids |-> IF editQueue[c] = <<>> THEN job[c].ids ELSE {Head(editQueue[c])}]

\* The note of c's request.
NoteOf(c) == [who |-> user[c], what |-> NoteFor(job[c].kind), ids |-> job[c].ids]

WriteNote(c) ==
  /\ connected[c]
  /\ InsertLog(c, NoteOf(c))
  /\ unlogged' = unlogged \ Changes(c, NoteOf(c).what, NoteOf(c).ids)
  /\ UNCHANGED <<assetVars, sessionVars, up, faults, connected, pc, job, listed, forms>>

\* Mutant of NoteLost: a lost note makes the handler start over with its change.
NoteRetried(c) ==
  /\ ~connected[c]
  /\ InsertLost(c)
  /\ pc' = [pc EXCEPT ![c] = "change"]
  /\ UNCHANGED <<assetVars, sessionVars, up, faults, connected, job, listed, forms, unlogged>>

\* With the connection lost neither the INSERT nor the DELETE has an effect.
NoteLost(c) ==
  /\ ~connected[c]
  /\ InsertLost(c) /\ AfterLog(c)
  /\ UNCHANGED <<assetVars, up, faults, listed, forms, unlogged>>

Trim(c) ==
  /\ connected[c]
  /\ TrimLog(c) /\ AfterLog(c)
  /\ UNCHANGED <<assetVars, up, faults, listed, forms, unlogged>>

\* Mutant of TrimFails: the handler waits for a lost connection to come back.
TrimDeadlocks(c) ==
  /\ Trimming # {c}
  /\ TrimLost(c) /\ AfterLog(c)
  /\ UNCHANGED <<assetVars, up, faults, listed, forms, unlogged>>

\* The trim is lost with the connection, or as the victim of a deadlock with
\* the trim of another request.
TrimFails(c) ==
  /\ ~connected[c] \/ Trimming # {c}
  /\ TrimLost(c) /\ AfterLog(c)
  /\ UNCHANGED <<assetVars, up, faults, listed, forms, unlogged>>

\* The asset edit_asset.php loads: the head of the queue, or else the id that
\* was typed in; none otherwise.
NextAsset(c) ==
  IF editQueue[c] # <<>> THEN {Head(editQueue[c])}
  ELSE IF job[c].kind = "manual" THEN job[c].ids ELSE {}

\* Mutant of LoadNext: the form is shown whether or not a row was found.
LoadUnchecked(c) ==
  /\ pc[c] = "load"
  /\ forms' = [forms EXCEPT ![c] =
       @ \cup (IF NextAsset(c) = {} THEN {AskForId} ELSE NextAsset(c))]
  /\ Close(c)
  /\ UNCHANGED <<logVars, assetVars, sessionVars, up, faults, listed, unlogged>>

\* SELECT * FROM assets WHERE id = next: the asset's form is shown if there is
\* a row, otherwise the form that asks for an id.  With the connection lost the
\* page dies, unless there is nothing to select, and the session is saved as
\* it is.
LoadNext(c) ==
  /\ pc[c] = "load"
  /\ forms' = [forms EXCEPT ![c] =
       CASE NextAsset(c) = {} -> @ \cup {AskForId}
         [] NextAsset(c) # {} /\ ~connected[c] -> @
         [] OTHER -> @ \cup (IF NextAsset(c) \subseteq LiveAssets
                             THEN NextAsset(c) ELSE {AskForId})]
  /\ Close(c)
  /\ UNCHANGED <<logVars, assetVars, sessionVars, up, faults, listed, unlogged>>

-----------------------------------------------------------------------------
(***************************************************************************)
(* The server                                                              *)
(***************************************************************************)

\* taskkill /F /IM mysqld.exe
KillServer ==
  /\ up /\ faults < MaxFaults
  /\ up' = FALSE
  /\ faults' = faults + 1
  /\ connected' = [c \in Clients |-> FALSE]
  /\ UNCHANGED <<logVars, assetVars, sessionVars, pc, job, listed, forms, unlogged>>

\* The network loses the connection of the request of c.
LoseConnection(c) ==
  /\ connected[c] /\ faults < MaxFaults
  /\ faults' = faults + 1
  /\ connected' = [connected EXCEPT ![c] = FALSE]
  /\ UNCHANGED <<logVars, assetVars, sessionVars, up, pc, job, listed, forms, unlogged>>

\* The server committed the change of c and is killed, or the connection lost,
\* before PHP read the answer: execute returns false.  new_entry.php and
\* delete_selected.php report an error, edit_asset.php goes on.
LoseAnswer(c, killed) ==
  /\ pc[c] = "change" /\ connected[c] /\ up /\ faults < MaxFaults
  /\ up' = ~killed
  /\ faults' = faults + 1
  /\ connected' = [d \in Clients |-> IF killed \/ d = c THEN FALSE ELSE connected[d]]
  /\ \/ /\ job[c].kind = "new"
        /\ InsertAsset(job[c].row)
        /\ unlogged' = unlogged \cup Changes(c, "Added", {nextAssetId})
     \/ /\ job[c].kind = "edit"
        /\ \E id \in job[c].ids : UpdateAsset(id, job[c].row)
        /\ unlogged' = unlogged \cup Changes(c, "Edited", job[c].ids \cap LiveAssets)
     \/ /\ job[c].kind = "delete"
        /\ DeleteAssets(job[c].ids)
        /\ unlogged' = unlogged \cup Changes(c, "Deleted", job[c].ids \cap LiveAssets)
  /\ IF job[c].kind = "edit"
     THEN BeginLog(c) /\ pc' = [pc EXCEPT ![c] = "log"] /\ UNCHANGED job
     ELSE /\ pc' = [pc EXCEPT ![c] = "idle"]
          /\ job' = [job EXCEPT ![c] = NoJob]
          /\ UNCHANGED logVars
  /\ UNCHANGED <<sessionVars, listed, forms>>

\* Mutant of StartServer: an AUTO_INCREMENT kept in memory only is set again
\* from the largest id in the table.
StartForgetful ==
  /\ ~up
  /\ up' = TRUE
  /\ nextAssetId' = 1 + Max(LiveAssets \cup {0})
  /\ UNCHANGED <<logVars, assets, sessionVars, faults, connected, pc, job, listed, forms, unlogged>>

\* mysqld.exe starts on the data directory: what was committed is there.
StartServer ==
  /\ ~up
  /\ up' = TRUE
  /\ UNCHANGED <<logVars, assetVars, sessionVars, faults, connected, pc, job, listed, forms, unlogged>>

SecondPasses ==
  /\ Tick
  /\ UNCHANGED <<assetVars, sessionVars, up, faults, connected, pc, job, listed, forms, unlogged>>

\* What a user does on client c.
UserStep(c) ==
  \/ \E name \in Names, password \in Passwords : LoginPage(c, name, password)
  \/ LogoutPage(c)
  \/ Masterlist(c)
  \/ \E row \in Rows : NewEntry(c, row)
  \/ \E id \in AssetId, row \in Rows : UpdateForm(c, id, row)
  \/ \E ids \in SUBSET AssetId : DeleteSelected(c, ids)
  \/ \E queue \in Selections : EditSelected(c, queue)
  \/ \E id \in AssetId : LoadManual(c, id)
  \/ OpenEdit(c)

\* What PHP does for the request of client c.
HandlerStep(c) ==
  \/ ExecInsert(c)
  \/ ExecUpdate(c)
  \/ UpdateFails(c)
  \/ ExecDelete(c)
  \/ GiveUp(c)
  \/ WriteNote(c)
  \/ NoteLost(c)
  \/ Trim(c)
  \/ TrimFails(c)
  \/ LoadNext(c)

Next ==
  \/ \E c \in Clients :
       \/ UserStep(c) \/ HandlerStep(c) \/ LoseConnection(c)
       \/ \E killed \in BOOLEAN : LoseAnswer(c, killed)
  \/ KillServer
  \/ StartServer
  \/ SecondPasses

Spec == Init /\ [][Next]_vars

\* PHP runs a request it has accepted to its end; users need not do anything.
FairSpec == Spec /\ \A c \in Clients : WF_vars(HandlerStep(c))
-----------------------------------------------------------------------------
(***************************************************************************)
(* Properties                                                              *)
(***************************************************************************)

\* The types of all variables, and how far a request is in two ways: its log
\* protocol runs exactly while its handler is at "log".
TypeOK ==
  /\ LogTypeOK /\ AssetTypeOK /\ SessionTypeOK
  /\ up \in BOOLEAN /\ faults \in 0..MaxFaults
  /\ connected \in [Clients -> BOOLEAN]
  /\ pc \in [Clients -> {"idle", "change", "log", "load"}]
  /\ job \in [Clients -> Job]
  /\ listed \in [Clients -> SUBSET AssetId]
  /\ forms \in [Clients -> SUBSET (AssetId \cup {AskForId})]
  /\ unlogged \in SUBSET Change
  /\ \A c \in Clients : pc[c] = "log" <=> phase[c] # "idle"

\* Changes whose request no longer has a note to write.
Untold == {u \in unlogged : phase[u.by] # "insert"}

\* The history log is complete up to faults: kills of the server and losses of a
\* connection.  Without one every change of an asset gets its note, the deletion of
\* several assets too (new_entry.php:51, edit_asset.php:34, delete_selected.php:28).
\* Each fault costs a client at most the note of one asset that it added or edited.
\* Deletions are not in this second part: the note a fault costs may be of many.
\* The INSERT of a note does not fail on a connection that is alive: its text fits
\* the column, the name is that of an account, and it holds no lock when it waits.
AuditComplete ==
  /\ faults = 0 => Untold = {}
  /\ \A c \in Clients :
       Cardinality({u \in Untold : u.by = c /\ u.what # "Deleted"}) <= faults

\* c writes its note in this step.
Writes(c) == phase[c] = "insert" /\ phase'[c] = "trim"

\* A note "Added new asset ID n" is written for the asset its own request
\* inserted, also when another client inserts between the INSERT and
\* $conn->insert_id or the note (new_entry.php:47-51).
AddedIsTrue ==
  [][\A e \in log' \ log : e.note.what = "Added" =>
       \E c \in Clients : Writes(c) /\ Changes(c, "Added", e.note.ids) \subseteq unlogged]_vars

\* The comment at edit_asset.php:30, "Log the update to history_log": a note
\* "Edited asset ID n" is written for an update that its own request made.
EditedIsTrue ==
  [][\A e \in log' \ log : e.note.what = "Edited" =>
       \E c \in Clients : Writes(c) /\ Changes(c, "Edited", e.note.ids) \subseteq unlogged]_vars

\* Once the log says that an asset was deleted there is no such asset, whatever
\* forms and selections other clients still hold (delete_selected.php:24-28
\* against edit_asset.php:28).
DeletedIsFinal ==
  \A e \in log : e.note.what = "Deleted" => e.note.ids \cap LiveAssets = {}

\* The history log is about the real inventory: every note names a user of the
\* system and only assets that exist or once existed, although ids are typed in by
\* hand, forms and selections outlive the assets they show, and the handlers log
\* the submitted id without looking whether its row was there
\* (edit_asset.php:31-34, delete_selected.php:26-28).
NotesAreReal ==
  \A e \in log : e.note.who \in Users /\ \A i \in e.note.ids : i < nextAssetId

\* "Enter Asset ID to Edit:" and "Load Asset" (edit_asset.php:129-132): an
\* asset that exists and is asked for is loaded, unless the page shows another
\* asset of the queue in its place.
ManualIdLoads ==
  [][\A c \in Clients :
       /\ pc[c] = "load" /\ pc'[c] = "idle"
       /\ job[c].kind = "manual" /\ connected[c]
       /\ job[c].ids \subseteq LiveAssets
       => \/ job[c].ids \subseteq forms'[c]
          \/ NextAsset(c) \subseteq LiveAssets]_vars

\* How many statements the request of c has left, at most: its change, its note,
\* the trim and the SELECT of the next asset.
Remaining(c) ==
  CASE pc[c] = "change" -> 4
    [] pc[c] = "log" /\ phase[c] = "insert" -> 3
    [] pc[c] = "log" /\ phase[c] # "insert" -> 2
    [] pc[c] = "load" -> 1
    [] pc[c] = "idle" -> 0

\* No request repeats a statement or goes back to an earlier one, after a lost
\* connection, a failed statement or a deadlock either: each step of its handler
\* brings it closer to its end, and nothing that another client or the server does
\* takes it further away (new_entry.php:47-53, edit_asset.php:28-67,
\* delete_selected.php:24-31).
StepsRunOut ==
  [][\A c \in Clients : pc[c] # "idle" =>
       /\ Remaining(c)' <= Remaining(c)
       /\ HandlerStep(c) => Remaining(c)' < Remaining(c)]_vars

\* Every request ends, whenever the server is killed or a connection lost, and
\* whether or not the server is started again.
RequestsEnd == \A c \in Clients : pc[c] # "idle" ~> pc[c] = "idle"
=============================================================================
