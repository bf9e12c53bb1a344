# Verification of the ShinDengen inventory system

A TLA+ model of the inventory application in `src/www`, model-checked with TLC
on small instances and proved with TLAPS where a theorem is within reach.

## 1. The system

Several PCs run PHP Desktop (Chromium and php-cgi) on a copy of `src/www`. All of
them connect to one MariaDB server, whose address is in `config.php`. The
application is a set of PHP pages; each request runs one page from top to bottom
and ends. The pages share two tables of `inventory_db` and, per PC, one PHP
session.

| Component | State | Operations | Interacts through |
|---|---|---|---|
| asset table (`inventory_db.sql`) | `assets`, its AUTO_INCREMENT | INSERT (`new_entry.php`), UPDATE (`edit_asset.php`), DELETE (`delete_selected.php`), SELECT (`masterlist.php`, `edit_asset.php`, `export_excel.php`) | SQL, one autocommitted transaction per statement |
| history log | `history_log`, its AUTO_INCREMENT, the server's clock | INSERT of a note and trim to 15 rows after each change; the dashboard lists 5 | SQL; results of both statements are ignored |
| sessions | `$_SESSION['user']`, `$_SESSION['edit_queue']` | login, logout, a new batch, removal of an updated asset | the session file, locked for the whole request |
| page handlers | the request in flight: its connection, its local variables | new entry, update, delete, batch, load by id, masterlist | all of the above; the browser may send any page it still has, also twice |
| database server | running or not | started by `start.bat` and `restart_mariadb.bat`, ended by `taskkill /F` | a kill ends every connection, committed data stay |
| asset form | the fields of the forms open in the browsers | load, fill in, send, send again; required fields, defaults, select boxes | POST variables, the asset table |
| masterlist page | checked, highlighted, filtered, found and removed rows; deletions on their way | filter, search, select, edit, delete, answer, reload | the DOM, `fetch` |
| login check | table `users`, which no page writes | `login.php`, `logout.php` | the session |
| setup | the tables `assets` and `users` being imported | two files of statements sent whole, answered one by one | SQL |
| export, index, undo, add_asset, test_db | none of their own | see section 7 | SQL |

What is hard in this code is not one request but several: statements of
different clients interleave and every page a client holds may be stale; the
results of several statements are ignored; the server is stopped by killing it;
the masterlist goes on while its deletions are on their way; a save writes every
column, touched or not; an import may be repeated, overlap another or be cut off.
The hazards, each at its line and with the properties that would catch it, are
in `PROJECT.json`.

What makes the components correct:

* asset table: an id names one machine for ever, also after a restart;
* history log: bounded, only its oldest rows are dropped, trimming does not show;
* sessions: the edit queue is exactly what is left of the selected batch;
* handlers: each change gets its note and each note tells the truth; a deleted
  asset does not come back; every request ends;
* asset form: rows stored are complete, and columns left alone stay as they are;
* masterlist page: what is deleted is what was highlighted, and rows disappear
  only with their assets;
* login check: the session holds the name of an account, however it was typed;
* setup: each asset is imported once, and what the page says is so.

## 2. Modules

| Module | Models | State |
|---|---|---|
| `Parameters` | clients, ids of assets | |
| `HistoryLog` | `history_log` and its writers | `log`, `nextLogId`, `clock`, `phase`; history: `missed`, `droppedTs` |
| `AssetTable` | `assets` | `assets`, `nextAssetId` |
| `AssetLifecycle` | what the asset table promises: unused, live, gone | `status` |
| `EditSession` | the PHP sessions and the login check | `user`, `editQueue`; history: `batch`, `submitted` |
| `Inventory` | the composition: handlers, clients, server | `up`, `connected`, `pc`, `job`, `listed`, `forms`; history: `faults`, `unlogged` |
| `Launcher` | `start.bat` and the manual scripts | `step`, `app`, `server`, `restarting`, `byHand`; history: `kept` |
| `AssetForm` | the columns of an asset through edit form and new entry form | `form`, `answer`, those of `AssetTable`; history: `settled` |
| `MasterlistPage` | the script of `masterlist.php` | `page`, `dom`, `checked`, `marked`, `enabled`, `filters`, `term`, `shown`, `fetches`, `reloading`, those of `AssetTable`; history: `sent` |
| `Setup` | `setup.php`, the server's side included | `table`, `copies`, `usersDone`, `script`, `file`, `next`, `said`; history: `cut` |
| `HistoryLogProofs`, `AssetTableProofs`, `EditSessionProofs`, `InventoryProofs`, `LauncherProofs`, `AssetFormProofs`, `MasterlistPageProofs`, `SetupProofs` | proofs | |
| `MCHistoryLog`, `MCInventory`, `MCLauncher`, `MCAssetForm`, `MCMasterlistPage`, `MCSetup` | instances for TLC | |

`Inventory` extends the three components: its actions conjoin their actions with
the handler's own state, so that a step of `Inventory` is, for each component, a
step of that component or leaves it alone.

**HistoryLog.** A client that changed an asset is at phase `insert`, then `trim`.
`InsertLog` and `TrimLog` are the two statements; `InsertLost` and `TrimLost` are
the same statements without effect. `Newest(rows, n)` is the *set* of results
that `ORDER BY timestamp DESC LIMIT n` may return: rows of the same second come
in any order. The subquery and the DELETE around it are one statement.

**AssetTable.** Rows are opaque because both statements that write a row write
all of its columns. The initial table is any one with nothing at or above its
AUTO_INCREMENT, which is at most `Loaded` + 1: the delivered dump has gaps (966 rows, AUTO_INCREMENT 1016).

**EditSession.** `edit_queue` is a sequence; `ArraySearch`, `Unset` and
`AfterUpdate` are `array_search`, `unset` with `array_values`, and lines 48-53 of
`edit_asset.php`. `Accepts` is the comparison of `login.php`: the collation finds
the row of `users` for the trimmed name, in any letter case, and the session takes
the name *of the row*. `Selections` are the increasing sequences, because the
masterlist is ordered by id.

**Inventory.** A request is opened by an action of the user (`NewEntry`,
`UpdateForm`, `DeleteSelected`, `EditSelected`, `LoadManual`, `OpenEdit`), then
PHP runs its statements: the change (`ExecInsert`, `ExecUpdate`, `ExecDelete`,
`UpdateFails`, `GiveUp`), the log (`WriteNote`, `NoteLost`, `Trim`, `TrimFails`)
and, in `edit_asset.php`, the removal from the queue and the SELECT of the next
asset (`AfterLog`, `LoadNext`). `listed` is the masterlist page the client has on
screen, `forms` every edit form it was ever shown: a user may go back to one and
send it again. `KillServer` ends all connections; `LoseConnection` is the loss of
one, for the server is reached over the network (`config.php`); `LoseAnswer` is
either of them between a commit and its answer, after which `new_entry.php` reports
an error for an asset that was stored. These are the faults, counted by `faults`.
The INSERT of a note fails only with its connection: its text fits the column, the
name in it is that of an account, and it holds no lock while it waits. A trim can also fail as a deadlock victim, which
needs a second client in its trim. A request without a user or without a server
ends in a redirect or in `die()` and changes nothing; so does a new entry with a
missing field, and a failed login. They are stuttering steps.

Where PHP goes on after an error, the model does: `$stmt->execute()` in
`edit_asset.php` is not looked at, and `$conn->query` of the log never is. Where
`prepare` returns false, `bind_param` on it is a fatal error: the request ends
and the session is saved as it is.

**Launcher.** A run of `start.bat` goes `off`, `wait` (server started), `app`,
`stop`, `done`. Another mysqld on the same data directory gives up by itself.
The application is single-instance (`settings.json:3`): a second one returns at
once. The server may still be booting when the application starts. In
`Inventory` all of this appears as a server that may be killed at any moment and
started again.

**AssetForm.** `Shown` is what the edit form makes of a row: a select box marks
the option equal to the stored value and otherwise shows the first
(`ShownOption`), a text input ends at the first apostrophe (`ShownText`), because
the value stands between apostrophes and `htmlspecialchars` leaves them alone.
`SavedRow` and `EnteredRow` are what the two pages make of the fields they
receive. The user sends a form with up to `MaxFilled` fields changed, as often as
wanted; `age` remembers whether the asset was written since the form was loaded.
A request is one step: its statements and the log are in `Inventory`, and so is
the loss of an UPDATE for reasons other than its values.

**MasterlistPage.** One action per event handler. `fetches` are the deletions
sent and not answered, each in one of `MaxFetches` places: the session lock makes
`delete_selected.php` handle them one after the other but does not say in which
order, and their answers come in any order. A request may be refused, or done and its answer
lost. `location.reload()` is not the end of the page at once, so a second answer
or a click may come before the new page. Rows removed from the document stay in
`rowCheckboxes`, which is why `checked` may hold ids that are not in `dom`.

**Setup.** The server works on the file of each request on its own (`file`,
`next`); the script waits for the answers, which end at the first error. PHP ends
the script after 30 seconds (`Abort`), a connection may be lost (`LoseConnection`),
and in both cases the server goes on for a while (`ServerStops` is when it
notices). Any statement may fail (`StatementFails`), and those that create a table
that is there must (`Fails`). `copies` counts each row of `assets.sql` in a table without a key.

## 3. Runs

| Run | Checks | Instance |
|---|---|---|
| `history_log` | `LogBound`, `DroppedAreOldest`, `TrimInvisible` | 3 clients, limit 2, 5 rows, 3 seconds |
| `audit` | `TypeOK`, `AuditComplete`, `AddedIsTrue`, `AssetLifecycleHolds` | 2 clients that add and delete, 2 ids, 3 notes, 2 seconds, 1 fault |
| `edit` | `AuditComplete`, `DeletedIsFinal`, `BatchAccounting` | 1 client with batches, 1 that deletes, 2 assets, 2 notes, 1 fault |
| `live` | `NotesAreReal`, `StepsRunOut`, `RequestsEnd` | 1 client that edits, 1 that deletes, 1 asset, 2 notes, 1 fault |
| `edited_is_true` | `EditedIsTrue` is violated | no fault |
| `manual_id` | `ManualIdLoads` is violated | no fault |
| `launcher` | `NoServerLeft` | 3 runs of start.bat, 2 uses of the other scripts |
| `launcher_stop` | `StopsAfterApp` is violated | the same |
| `form` | `WearsOnce`, `WritesCompleteRows` | 2 clients, 1 asset, delivered or newly entered, 3 columns (text, select, e-mail), 6 texts |
| `untouched_kept` | `UntouchedKept` is violated | the same as `form` |
| `masterlist` | `RemovedAreGone`, `SentIsHighlighted`, `SentIsSeen` | 2 assets, of which 1 may be there at first, 1 filter, 2 search terms, 2 deletions on their way |
| `setup` | `EachAssetOnce`, `ImportedIsComplete` | 3 requests, 2 rows |

* `LogBound`: the log has at most `LogLimit` rows, one more for every request
  between its INSERT and its DELETE, and one more for every trim lost since the
  last that succeeded. One successful trim repairs all losses.
* `DroppedAreOldest`: no row left is older than one that was trimmed.
* `TrimInvisible`: what the dashboard may list after a trim it might have
  listed before.
* `AuditComplete`: without a fault (a kill of the server, the loss of a connection)
  every change gets its note; a fault costs each client at most the note of one asset
  that it added or edited. The second part leaves deletions out: one note, and hence
  one that is lost, may be of many assets.
* `TypeOK`: among others, the session holds the name of an account, however the
  name was typed.
* `AddedIsTrue`: "Added new asset ID n" names the asset that the request which writes
  the note stored.
* `AssetLifecycleHolds`: refinement of `AssetLifecycle`, restarts included.
* `DeletedIsFinal`: an asset that the log calls deleted does not exist.
* `BatchAccounting`: the queue is the batch without the assets whose form was submitted
  since. Whether the UPDATE had an effect does not matter to the code, nor here.
* `NotesAreReal`: every note names a user of the system and only assets that exist
  or existed, although the id logged is the one submitted and may have been typed.
* `StepsRunOut`: each step of a handler leaves its request less to do, and nothing
  that other clients or the server do leaves it more.
* `RequestsEnd`: a request ends, whatever happens to the server.
* `NoServerLeft`: once all runs of `start.bat` have ended, a server still runs only
  if it was started by hand.
* `WritesCompleteRows`: the two forms are users of `AssetTable` whose rows are
  complete: no required column empty, never an empty address, select columns with
  one of their options or a NULL that was delivered. No code checks this on an
  update; it rests on the browser, on two defaults and on what is shown of a text.
* `WearsOnce`: a column that was saved once as it was shown is saved the same by
  every form that is not out of date, until somebody fills it in.
* `RemovedAreGone`: a row the page removed is an asset that does not exist.
* `SentIsHighlighted`: of the rows in the document a request names exactly the
  highlighted ones, displayed or hidden. Between an answer and the new page it also
  names rows that were removed, whose boxes are still in `rowCheckboxes`; the
  property says that these assets are gone, so that nothing is deleted or edited that
  is not highlighted.
* `SentIsSeen`: a highlighted row that is hidden is sent all the same, but only while
  a filter box or the search text, which the user has in view, excludes it. It would
  not hold if a search hid rows for good.
* `EachAssetOnce`: the imported table is a beginning of `assets.sql`, once.
* `ImportedIsComplete`: "assets.sql imported" is so, unless the connection was lost
  or an INSERT failed. In these two cases the page says it of a part of the file.

Four runs show where the code does not do what it says:

1. `EditedIsTrue`: "Log the update" (`edit_asset.php:30`) logs, and reports as
   successful, updates that failed or that found no row.
2. `ManualIdLoads`: with a queue whose head another client deleted, "Enter Asset
   ID to Edit" (`edit_asset.php:129`) never loads the asset that is entered.
3. `StopsAfterApp`: "After PHP app exits, stop MariaDB" (`start.bat:11`); a second
   `start.bat` kills the server while the first window is open.
4. `UntouchedKept`: a save stores what was shown, and `selectField` with its
   parameter `$selected` (`edit_asset.php:141`) shows the first option for a value
   it does not offer: memory, NULL in most rows, becomes 4 GB with the first save.

The models also contain the following, which no run states as a property: rows of
one second are trimmed in any order (`edit_asset.php:41`); a required field filled
in with 0 is refused as missing (`new_entry.php:21`); a search shows rows that the
filters, which keep their values, had hidden (`masterlist.php:232`); selected rows
that a filter or a search hides are deleted or edited with the others, unseen
(`masterlist.php:179`, 220, 232), which no line of the repository rules out; an
UPDATE from a form that is out of date undoes what others saved
(`edit_asset.php:20`); a new entry whose answer was lost is stored again when it is
sent again (`new_entry.php:47`); "users.sql
imported successfully" (`setup.php:35`) is said when only the first statement of the
file, SET SQL_MODE, succeeded. Three more are visible without a model: `assets.sql`
has columns of other names than the pages use and `setup.php` makes no
`history_log`; `export_excel.php` has no heading for Memory, so that the headings
after it stand one column off; `index.php` compares a hash with a password stored
as it is.

**Bounds.** `MaxLogId` bounds the notes ever written, `MaxTime` the seconds,
`MaxFaults` the faults, `MaxAssetId` the ids, `Duties` the kinds of request each
user makes. A request that may write a note is only opened while a log id is left
for it, so no bound stops a request half-way (this is proved: `NoRequestIsStuck`). Log limits of 1 and 2 stand for 15:
a trim then drops rows while other requests are in flight, which is all that
depends on the limit. Two clients suffice to interleave two handlers; three are
used for the log alone, where two trims can overlap with a third insert. Clients
are interchangeable where they have the same duties, hence the symmetry.
In `Inventory` `Rows` has one value: no property there looks at columns. Deadlock is not checked: at
the bounds, and when all users stop, nothing happens.

`MaxFilled` bounds the fields changed in one sending; more are changed by sending
again. The three columns are one of each kind the forms treat differently, and the
texts one of each kind the conversions tell apart: empty, 0, spaces, n/a, one with
an apostrophe that a form shows as 0, one too long for its column. `MaxFetches` is
2: one deletion is answered while another is on its way and a third is selected.
`NumRows` is 2 for 1000: a request may be cut off before, between and after the
INSERTs. With three requests one may import while a second fails and a third
begins later. A name as typed is that of the account, differs from it in letter
case or in spaces around it, or belongs to nobody.

**Fairness.** `FairSpec` assumes weak fairness of `HandlerStep(c)` for each
client: php-cgi runs a request it has accepted to its end. Nothing is assumed of
users, of the clock, or that a killed server is started again.

## 4. Proofs

For all clients, limits, ids and bounds, from the assumptions named in the
modules (`ParameterAssumption`, `LogAssumption`, `AssetAssumption`,
`SessionAssumption`, `InventoryAssumption`, `LauncherAssumption`, `FormAssumption`,
`PageAssumption`, `SetupAssumption`):

* `LogInvariant`, `LogBoundHolds`, `DroppedAreOldestHolds`: the inductive
  invariant `LogInv` adds `LogOfThePast` (timestamps and the newest dropped one
  are at most the clock), without which a new row could be older than a dropped
  one. The size argument counts: an INSERT adds one row and one trimming client,
  a lost trim turns a trimming client into a missed one, a trim leaves at most
  the limit.
* `TrimInvisibleHolds`: rows kept are at least as new as rows dropped and at
  least as many as the dashboard lists.
* `SelectsHaveResults`: the trim can be carried out in every state and the dashboard
  has something to list. `Newest` is a set of possible results, and a property of all
  of them would hold of none; `NewestExists` shows that there is one by taking the
  rows one at a time, each a latest of those left.
* `TableImplementsLifecycle`: an INSERT maps to `Allocate`, a DELETE to `Retire`
  of the ids that had rows, an UPDATE to a stutter. The invariant needed is
  `FreshAbove`: nothing is stored at or above the AUTO_INCREMENT.
* `BatchAccountingHolds`: the queue is increasing, hence without repetitions, so
  removing the first match removes the asset.
* `ImplementsComponents`: `Inventory` implements `LogSpec`, `AssetSpec` and
  `SessionSpec`. The invariant needed is `RequestInv`: what a request carries fits
  where it is (only new, edit and delete reach the log, so notes are well formed;
  an insert or update carries a row; an edit, and the note of an addition, is about
  one asset). `SystemLog`, `SystemLifecycle` and
  `SystemBatch` follow from it and the theorems about the components.
* `SystemDeletedIsFinal`: the inductive invariant `DeletionInv` says that pages
  and requests only name ids that were given out and that a deletion about to be
  logged has taken effect; `GoneForGood` says that no statement undoes it.
* `SystemAudit`, `SystemAddedIsTrue`: `AuditComplete` is not inductive, because it
  says nothing of a client at phase `insert`. `AuditInv` splits the changes not
  logged into those that are `Due`, whose request is connected and about to write
  the note, and the others, `Overdue`. It bounds what is overdue, for each client, by
  the number of faults; says that without a fault everything is due; and says that an
  addition about to be logged has taken place (`AddedDue`). Each step is then one of
  four: it makes a change, which becomes due (`MadeStep`); it writes the note of what
  was due (`NotedStep`); it is a fault, which makes what is due overdue, one change at
  most because a request adds or edits one asset (`FaultStep`, `OneDue`); or it
  touches neither (`QuietStep`). Deletions of several assets share a note and are
  counted only by the first part of `AuditComplete`.
* `SystemNotesAreReal`: `RealInv` follows an id from the page to the log: forms show
  only ids that were given out, hence so do edits; deletions come from listed rows;
  the user of a request stays logged in until it ends.
* `SystemStepsRunOut`, `NoRequestIsStuck`: the two safety halves of `RequestsEnd`. A
  request has at most four statements to go and each step of its handler is one
  less; and in every state its next statement has what it needs of the state, also
  of the model's bounds (`RoomInv`: a log row is left for each request that owes a
  note). What is missing to `RequestsEnd` is the step from these to `ENABLED` and
  fairness.
* `SystemTypes`: `OwnTypes` covers the variables that no component has; with the
  four invariants above and that of the sessions it gives `TypeOK`.
* `NoServerLeftHolds`: a server that only start.bat started has a run of
  start.bat that will still kill it.
* `OwnWindowIsClosed`, `OneRunStopsAfterApp`: what holds in place of
  `StopsAfterApp`. The run at `app` is the one that owns the window (`WindowInv`), so
  a run never stops the server under its own window, and a single run never under
  any; the violation needs a second run.
* `LoadsWithoutDeletes`: what holds in place of `ManualIdLoads`, for users whose
  duties do not include deleting. Pages and queues then only name assets that are
  there (`StandingInv`: assets stay, pages are copies of the table, queues parts of a
  page), so that an id that is entered is loaded and no batch is interrupted; the
  violation needs a deletion. TLC checked `StandingInv` with one client editing and
  the other adding and editing, and a kill.
* `FormsWriteCompleteRows`: for all columns, options and texts, `FormSpec`
  implements `AssetSpec` with complete rows. What is needed of a form is that it
  shows what forms can show, in particular a field for each column.
* `WearsOnceHolds`: the inductive invariant `FormInv` says that what a form shows
  a form of the saved row shows again (the cut at an apostrophe is idempotent and
  leaves n/a alone, an option shown is an option offered), that current forms show
  the row, and that settled columns do not change when shown and saved.
* `SettledColumnsKept`: what holds in place of `UntouchedKept`. A current form keeps
  every column that was left alone now and in an earlier save; only the first save of
  a value that a form cannot show changes it.
* `RemovedAreGoneHolds`: `ListInv` adds that the page and the requests only name
  ids that were given out (`Given`) and that requests answered with success name
  ids that are gone; ids that are gone stay gone.
* `SentIsHighlightedHolds`, `SentIsSeenHolds`: checkboxes and colours agree, and a
  row is hidden only while a box or the search excludes it (`PageInv`); what is checked
  and not in the document was listed and removed, hence gone (`ListInv`).
* `UnfilteredIsSeen`: with every box at "All" and nothing to search for, the rows of
  the document that are sent are displayed.
* `PageImplementsTable`: `ListSpec` implements `AssetSpec`.
* `EachAssetOnceHolds`, `ImportedIsCompleteHolds`: `SetupInv` says that at most one
  request is past the CREATE TABLE of `assets.sql` and that the table is exactly
  what it has inserted so far (`OneImporter`), and where server and script can be
  with respect to each other (`StagesAgree`).

Arguments by induction over numbers take a least counterexample (`LeastMember`, from
the well-foundedness of the natural numbers): the provers at hand cannot instantiate
an induction rule that has a predicate as its parameter.

Only model-checked: `RequestsEnd`, because `ENABLED` and liveness under fairness are
out of the provers' reach. `EditedIsTrue` is violated by what any user may do (a text
too long for its column), so no restriction of the constants makes it hold; what is
true of every note is `NotesAreReal`.

## 5. Plan

1. Done: `HistoryLog`, `AssetTable`, `EditSession`, `Inventory`, `Launcher`,
   `AssetForm`, `MasterlistPage`, `Setup`; every safety property that a passing run
   checks is also proved.
   For three of the four violated properties it is proved what holds in their place.
2. Left: when exactly a note of an edit is false, which needs a history variable for
   failed updates; and the safety half of termination for `Setup` and `Launcher`,
   which end by arguments like that of `SystemStepsRunOut`.

## 6. Abstractions

Notes are records of user, kind and ids, not texts. In `Inventory` rows are opaque
and a selection is any non-empty set of the rows listed; what a form does to the
columns is in `AssetForm`, what the page does to a selection in `MasterlistPage`.
The texts of fields are opaque too: what `trim` and the end of an attribute do to
them are functions, of which only what the proofs need is assumed. What filters
and search see of a row is given by `FilterOf` and `Found`. The pages that only read
(`dashboard.php`, `masterlist.php`) are one step each. A session that expires is a
logout. The log starts empty, whereas the dump delivers
15 rows and an AUTO_INCREMENT of 108: as many rows as the limit, older than all that
follow. php-cgi is not itself stopped in the middle of a request; for the log this
would be no different from the loss of its connection. In `Setup` the statements of `users.sql` that change no table are one, and the
server is the one `setup.php` connects to, on the same PC, with an empty database:
it may be another one than that of `config.php`.

## 7. Not modelled

`undo_delete.php` needs `$_SESSION['deleted_records']`, which no page sets, so it
never changes anything. `add_asset.php` inserts into columns that do not exist
and always fails. `test_db.php` only prints. `export_excel.php` is one SELECT and
changes nothing. `index.php`, an older login page that no page links to, sets a
session variable that no page reads. The other pages in `src/www` are the
examples delivered with PHP Desktop.

Everything else in the repository is third-party: `src/mariadb` (binaries, and the
headers that make up nearly all of the repository's C lines), `src/php`, Chromium,
locales. These headers declare the server's own classes without the code behind
them, and the application does not include or compile them; there is no behaviour
in them to model. The system's own code is the PHP, SQL, JavaScript and batch files
above, and all of it that changes state is modelled.
