-------------------------- MODULE InventoryProofs --------------------------
(***************************************************************************)
(* The composition implements its components, so that what is proved about *)
(* the log, the asset table and the sessions holds of the whole system,    *)
(* for any clients and bounds, however often the server is killed or a     *)
(* connection is lost.                                                     *)
(***************************************************************************)
EXTENDS Inventory, HistoryLogProofs, AssetTableProofs, EditSessionProofs

\* The kinds of request that change assets.
Writing == {"new", "edit", "delete"}

\* A request about one asset.
NamesOne(j) == \E i \in AssetId : j.ids = {i}

\* What a request in flight carries: only a writing request has a change to make
\* and a note to write, only a row to store goes into a statement, an edit is
\* about one asset, and so is the note of an addition.
RequestInv ==
  /\ user \in [Clients -> Users \cup {NoUser}]
  /\ phase \in [Clients -> {"idle", "insert", "trim"}]
  /\ pc \in [Clients -> {"idle", "change", "log", "load"}]
  /\ job \in [Clients -> Job]
  /\ \A c \in Clients :
       /\ pc[c] = "log" <=> phase[c] # "idle"
       /\ pc[c] \in {"change", "log"} => job[c].kind \in Writing
       /\ pc[c] = "change" /\ job[c].kind # "delete" => job[c].row \in Rows
       /\ pc[c] = "change" /\ job[c].kind = "edit" => NamesOne(job[c])
       /\ pc[c] = "log" /\ job[c].kind # "delete" => NamesOne(job[c])

requestVars == <<user, phase, pc, job>>

\* No request is in flight at the start.
LEMMA RequestInvInit == Init => RequestInv
  BY DEF Init, LogInit, SessionInit, RequestInv, Job, NoJob, Kinds

\* Opening a request keeps the invariant.
LEMMA OpenKeeps ==
  ASSUME RequestInv, NEW c \in Clients, NEW j \in Job, NEW step \in {"change", "load"},
         step = "change" => /\ j.kind \in Writing
                            /\ j.kind # "delete" => j.row \in Rows
                            /\ j.kind = "edit" => NamesOne(j),
         Open(c, step, j), UNCHANGED <<user, phase>>
  PROVE  RequestInv'
  BY DEF RequestInv, Open

\* Ending a request that is not in the log protocol any more keeps it.
LEMMA CloseKeeps ==
  ASSUME RequestInv, NEW c \in Clients, Close(c), UNCHANGED user,
         phase' = [phase EXCEPT ![c] = "idle"]
  PROVE  RequestInv'
<1>1. NoJob \in Job
  BY DEF NoJob, Job, Kinds
<1> QED
  BY <1>1 DEF RequestInv, Close

\* So does the step from the change to the log.
LEMMA ChangedKeeps ==
  ASSUME RequestInv, NEW c \in Clients, NEW ids, NEW j \in Job,
         j.kind \in Writing, j.kind # "delete" => NamesOne(j), Changed(c, ids, j)
  PROVE  RequestInv'
  BY DEF RequestInv, Changed, BeginLog, sessionVars

\* And the step from the log to the answer or to the next asset.
LEMMA AfterLogKeeps ==
  ASSUME RequestInv, NEW c \in Clients, AfterLog(c), phase' = [phase EXCEPT ![c] = "idle"]
  PROVE  RequestInv'
<1>1. CASE job[c].kind = "edit"
  <2>1. pc' = [pc EXCEPT ![c] = "load"] /\ UNCHANGED <<user, job>>
    BY <1>1 DEF AfterLog, Advance
  <2> QED
    BY <2>1 DEF RequestInv
<1>2. CASE job[c].kind # "edit"
  <2>1. Close(c) /\ UNCHANGED user
    BY <1>2 DEF AfterLog, sessionVars
  <2> QED
    BY <2>1, CloseKeeps
<1> QED
  BY <1>1, <1>2

\* Every step of the system keeps the invariant of the requests.
LEMMA RequestInvStep == RequestInv /\ [Next]_vars => RequestInv'
<1> SUFFICES ASSUME RequestInv, [Next]_vars
             PROVE  RequestInv'
  OBVIOUS
<1>0. ASSUME UNCHANGED requestVars PROVE RequestInv'
  BY <1>0 DEF RequestInv, requestVars
<1>1. ASSUME NEW c \in Clients, UserStep(c) PROVE RequestInv'
  <2>1. ASSUME NEW name \in Names, NEW password \in Passwords, LoginPage(c, name, password)
        PROVE  RequestInv'
    BY <2>1 DEF RequestInv, LoginPage, Login, logVars
  <2>2. ASSUME LogoutPage(c) PROVE RequestInv'
    BY <2>2 DEF RequestInv, LogoutPage, Logout, logVars
  <2>3. ASSUME Masterlist(c) PROVE RequestInv'
    BY <2>3, <1>0 DEF requestVars, Masterlist, logVars, sessionVars
  <2>4. ASSUME NEW row \in Rows, NewEntry(c, row) PROVE RequestInv'
    <3> DEFINE j == [kind |-> "new", ids |-> {}, row |-> row]
    <3>1. j \in Job /\ j.kind = "new" /\ j.kind \in Writing /\ j.row \in Rows
      BY DEF Job, Kinds, Writing
    <3>2. Open(c, "change", j) /\ UNCHANGED <<user, phase>>
      BY <2>4 DEF NewEntry, OpenWrite, logVars, sessionVars
    <3> QED
      BY <3>1, <3>2, OpenKeeps
  <2>5. ASSUME NEW id \in AssetId, NEW row \in Rows, UpdateForm(c, id, row) PROVE RequestInv'
    <3> DEFINE j == [kind |-> "edit", ids |-> {id}, row |-> row]
    <3>1. j \in Job /\ j.kind \in Writing /\ j.row \in Rows /\ NamesOne(j)
      BY DEF Job, Kinds, Writing, NamesOne
    <3>2. Open(c, "change", j) /\ UNCHANGED <<user, phase>>
      BY <2>5 DEF UpdateForm, OpenWrite, logVars, sessionVars
    <3> QED
      BY <3>1, <3>2, OpenKeeps
  <2>6. ASSUME NEW ids \in SUBSET AssetId, DeleteSelected(c, ids) PROVE RequestInv'
    <3> DEFINE j == [kind |-> "delete", ids |-> ids, row |-> NoRow]
    <3>1. j \in Job /\ j.kind \in Writing /\ j.kind = "delete"
      BY DEF Job, Kinds, Writing
    <3>2. Open(c, "change", j) /\ UNCHANGED <<user, phase>>
      BY <2>6 DEF DeleteSelected, OpenWrite, logVars, sessionVars
    <3> QED
      BY <3>1, <3>2, OpenKeeps
  <2>7. ASSUME NEW queue \in Selections, EditSelected(c, queue) PROVE RequestInv'
    <3> DEFINE j == [kind |-> "batch", ids |-> {}, row |-> NoRow]
    <3>1. j \in Job
      BY DEF Job, Kinds
    <3>2. Open(c, "load", j) /\ UNCHANGED <<user, phase>>
      BY <2>7 DEF EditSelected, SelectBatch, logVars
    <3> QED
      BY <3>1, <3>2, OpenKeeps
  <2>8. ASSUME NEW id \in AssetId, LoadManual(c, id) PROVE RequestInv'
    <3> DEFINE j == [kind |-> "manual", ids |-> {id}, row |-> NoRow]
    <3>1. j \in Job
      BY DEF Job, Kinds
    <3>2. Open(c, "load", j) /\ UNCHANGED <<user, phase>>
      BY <2>8 DEF LoadManual, logVars, sessionVars
    <3> QED
      BY <3>1, <3>2, OpenKeeps
  <2>9. ASSUME OpenEdit(c) PROVE RequestInv'
    <3>1. NoJob \in Job
      BY DEF Job, NoJob, Kinds
    <3>2. Open(c, "load", NoJob) /\ UNCHANGED <<user, phase>>
      BY <2>9 DEF OpenEdit, logVars, sessionVars
    <3> QED
      BY <3>1, <3>2, OpenKeeps
  <2> QED
    BY <1>1, <2>1, <2>2, <2>3, <2>4, <2>5, <2>6, <2>7, <2>8, <2>9 DEF UserStep
<1>2. ASSUME NEW c \in Clients, HandlerStep(c) PROVE RequestInv'
  <2>0. job[c] \in Job
    BY DEF RequestInv
  <2>1. ASSUME ExecInsert(c) PROVE RequestInv'
    <3> DEFINE j == [job[c] EXCEPT !.ids = {nextAssetId}]
    <3>1. j \in Job /\ j.kind \in Writing /\ NamesOne(j)
      BY <2>0, <2>1 DEF ExecInsert, InsertAsset, Job, Writing, NamesOne
    <3>2. Changed(c, {nextAssetId}, j)
      BY <2>1 DEF ExecInsert
    <3> QED
      BY <3>1, <3>2, ChangedKeeps
  <2>2. ASSUME ExecUpdate(c) \/ UpdateFails(c) \/ ExecDelete(c) PROVE RequestInv'
    <3>1. job[c].kind \in Writing /\ \E ids : Changed(c, ids, job[c])
      BY <2>2 DEF ExecUpdate, UpdateFails, ExecDelete, Writing
    <3>2. job[c].kind # "delete" => NamesOne(job[c])
      BY <2>2 DEF ExecUpdate, UpdateFails, ExecDelete, RequestInv
    <3> QED
      BY <2>0, <3>1, <3>2, ChangedKeeps
  <2>3. ASSUME GiveUp(c) \/ LoadNext(c) PROVE RequestInv'
    <3>1. Close(c) /\ UNCHANGED <<user, phase>> /\ phase[c] = "idle"
      BY <2>3 DEF GiveUp, LoadNext, RequestInv, logVars, sessionVars
    <3>2. phase' = [phase EXCEPT ![c] = "idle"]
      BY <3>1 DEF RequestInv
    <3> QED
      BY <3>1, <3>2, CloseKeeps
  <2>4. ASSUME WriteNote(c) PROVE RequestInv'
    BY <2>4 DEF RequestInv, WriteNote, InsertLog, sessionVars
  <2>5. ASSUME NoteLost(c) \/ Trim(c) \/ TrimFails(c) PROVE RequestInv'
    <3>1. AfterLog(c) /\ phase' = [phase EXCEPT ![c] = "idle"]
      BY <2>5 DEF NoteLost, Trim, TrimFails, InsertLost, TrimLog, TrimKeeping, TrimLost
    <3> QED
      BY <3>1, AfterLogKeeps
  <2> QED
    BY <1>2, <2>1, <2>2, <2>3, <2>4, <2>5 DEF HandlerStep
<1>3. ASSUME NEW c \in Clients, NEW killed \in BOOLEAN, LoseAnswer(c, killed) PROVE RequestInv'
  <2>1. CASE job[c].kind = "edit"
    <3>1. /\ phase' = [phase EXCEPT ![c] = "insert"] /\ pc[c] = "change"
          /\ pc' = [pc EXCEPT ![c] = "log"] /\ UNCHANGED <<user, job>>
      BY <1>3, <2>1 DEF LoseAnswer, BeginLog, sessionVars
    <3> QED
      BY <2>1, <3>1 DEF RequestInv, Writing
  <2>2. CASE job[c].kind # "edit"
    <3>1. /\ pc' = [pc EXCEPT ![c] = "idle"] /\ job' = [job EXCEPT ![c] = NoJob]
          /\ UNCHANGED <<user, phase>> /\ pc[c] = "change"
      BY <1>3, <2>2 DEF LoseAnswer, logVars, sessionVars
    <3>2. NoJob \in Job
      BY DEF NoJob, Job, Kinds
    <3> QED
      BY <3>1, <3>2 DEF RequestInv
  <2> QED
    BY <2>1, <2>2
<1>4. ASSUME (\E d \in Clients : LoseConnection(d)) \/ KillServer \/ StartServer \/ SecondPasses
      PROVE  RequestInv'
  BY <1>4, <1>0 DEF LoseConnection, KillServer, StartServer, SecondPasses, Tick, requestVars, logVars, sessionVars
<1>5. ASSUME UNCHANGED vars PROVE RequestInv'
  BY <1>5, <1>0 DEF vars, requestVars, logVars, sessionVars
<1> QED
  BY <1>1, <1>2, <1>3, <1>4, <1>5 DEF Next

\* What a request carries is right at every moment.
THEOREM RequestInvariant == Spec => []RequestInv
  BY RequestInvInit, RequestInvStep, PTL DEF Spec

-----------------------------------------------------------------------------
\* For the log, a step of the system is a step of the log protocol or nothing.
LEMMA LogRefinementStep == RequestInv /\ [Next]_vars => [LogNext]_logVars
<1> SUFFICES ASSUME RequestInv, [Next]_vars, ~UNCHANGED logVars
             PROVE  LogNext
  OBVIOUS
<1>1. ASSUME NEW c \in Clients, UserStep(c) PROVE LogNext
  <2>1. UNCHANGED logVars
    BY <1>1 DEF UserStep, LoginPage, LogoutPage, Masterlist, NewEntry, UpdateForm, DeleteSelected,
                OpenWrite, EditSelected, LoadManual, OpenEdit
  <2> QED
    BY <2>1
<1>2. ASSUME NEW c \in Clients, HandlerStep(c) PROVE LogNext
  <2>1. ASSUME ExecInsert(c) \/ ExecUpdate(c) \/ UpdateFails(c) \/ ExecDelete(c)
        PROVE  LogNext
    <3>1. BeginLog(c)
      BY <2>1 DEF ExecInsert, ExecUpdate, UpdateFails, ExecDelete, Changed
    <3> QED
      BY <3>1 DEF LogNext
  <2>2. ASSUME GiveUp(c) \/ LoadNext(c) PROVE LogNext
    BY <2>2 DEF GiveUp, LoadNext
  <2>3. ASSUME WriteNote(c) PROVE LogNext
    <3>1. InsertLog(c, NoteOf(c))
      BY <2>3 DEF WriteNote
    <3>2. pc[c] = "log" /\ job[c].kind \in Writing /\ job[c] \in Job
      BY <3>1 DEF InsertLog, RequestInv
    <3>3. NoteFor(job[c].kind) \in {"Added", "Edited", "Deleted"}
      BY <3>2 DEF NoteFor, Writing
    <3>4. NoteOf(c) \in Note
      BY <3>2, <3>3 DEF NoteOf, Note, Job, RequestInv
    <3> QED
      BY <3>1, <3>4, InventoryAssumption DEF LogNext
  <2>4. ASSUME NoteLost(c) \/ Trim(c) \/ TrimFails(c) PROVE LogNext
    <3>1. InsertLost(c) \/ TrimLog(c) \/ TrimLost(c)
      BY <2>4 DEF NoteLost, Trim, TrimFails
    <3> QED
      BY <3>1 DEF LogNext
  <2> QED
    BY <1>2, <2>1, <2>2, <2>3, <2>4 DEF HandlerStep
<1>3. ASSUME NEW c \in Clients, NEW killed \in BOOLEAN, LoseAnswer(c, killed) PROVE LogNext
  <2>1. BeginLog(c)
    BY <1>3 DEF LoseAnswer
  <2> QED
    BY <2>1 DEF LogNext
<1>4. ASSUME (\E d \in Clients : LoseConnection(d)) \/ KillServer \/ StartServer \/ SecondPasses
      PROVE  LogNext
  BY <1>4 DEF LoseConnection, KillServer, StartServer, SecondPasses, LogNext
<1>5. ASSUME UNCHANGED vars PROVE LogNext
  BY <1>5 DEF vars
<1> QED
  BY <1>1, <1>2, <1>3, <1>4, <1>5 DEF Next

\* For the asset table, a step of the system is one statement or nothing.
LEMMA AssetRefinementStep == RequestInv /\ [Next]_vars => [AssetNext]_assetVars
<1> SUFFICES ASSUME RequestInv, [Next]_vars, ~UNCHANGED assetVars
             PROVE  AssetNext
  OBVIOUS
<1>0. ASSUME NEW c \in Clients, pc[c] = "change"
      PROVE  /\ job[c].ids \in SUBSET AssetId
             /\ job[c].kind \in {"new", "edit"} => job[c].row \in Rows
  BY <1>0 DEF RequestInv, Job
<1>1. ASSUME NEW c \in Clients, UserStep(c) PROVE AssetNext
  <2>1. UNCHANGED assetVars
    BY <1>1 DEF UserStep, LoginPage, LogoutPage, Masterlist, NewEntry, UpdateForm, DeleteSelected,
                OpenWrite, EditSelected, LoadManual, OpenEdit
  <2> QED
    BY <2>1
<1>2. ASSUME NEW c \in Clients, HandlerStep(c) PROVE AssetNext
  <2>1. ASSUME ExecInsert(c) \/ ExecUpdate(c) \/ ExecDelete(c) PROVE AssetNext
    BY <1>0, <2>1 DEF ExecInsert, ExecUpdate, ExecDelete, AssetNext
  <2>2. ASSUME UpdateFails(c) \/ GiveUp(c) \/ LoadNext(c) \/ WriteNote(c)
                 \/ NoteLost(c) \/ Trim(c) \/ TrimFails(c)
        PROVE  AssetNext
    BY <2>2 DEF UpdateFails, GiveUp, LoadNext, WriteNote, NoteLost, Trim, TrimFails
  <2> QED
    BY <1>2, <2>1, <2>2 DEF HandlerStep
<1>3. ASSUME NEW c \in Clients, NEW killed \in BOOLEAN, LoseAnswer(c, killed) PROVE AssetNext
  BY <1>0, <1>3 DEF LoseAnswer, AssetNext
<1>4. ASSUME (\E d \in Clients : LoseConnection(d)) \/ KillServer \/ StartServer \/ SecondPasses
      PROVE  AssetNext
  BY <1>4 DEF LoseConnection, KillServer, StartServer, SecondPasses
<1>5. ASSUME UNCHANGED vars PROVE AssetNext
  BY <1>5 DEF vars
<1> QED
  BY <1>1, <1>2, <1>3, <1>4, <1>5 DEF Next

\* For the sessions, a step of the system is a login, a logout, a batch, the
\* removal of an updated asset, or nothing.
LEMMA SessionRefinementStep == RequestInv /\ [Next]_vars => [SessionNext]_sessionVars
<1> SUFFICES ASSUME RequestInv, [Next]_vars, ~UNCHANGED sessionVars
             PROVE  SessionNext
  OBVIOUS
<1>1. ASSUME NEW c \in Clients, UserStep(c) PROVE SessionNext
  <2>1. ASSUME NEW name \in Names, NEW password \in Passwords, LoginPage(c, name, password)
        PROVE  SessionNext
    BY <2>1 DEF LoginPage, SessionNext
  <2>2. ASSUME LogoutPage(c) PROVE SessionNext
    BY <2>2 DEF LogoutPage, SessionNext
  <2>3. ASSUME NEW queue \in Selections, EditSelected(c, queue) PROVE SessionNext
    BY <2>3 DEF EditSelected, SessionNext
  <2> QED
    BY <1>1, <2>1, <2>2, <2>3 DEF UserStep, Masterlist, NewEntry, UpdateForm, DeleteSelected,
                                  OpenWrite, LoadManual, OpenEdit
<1>2. ASSUME NEW c \in Clients, HandlerStep(c) PROVE SessionNext
  <2>1. ASSUME NoteLost(c) \/ Trim(c) \/ TrimFails(c) PROVE SessionNext
    <3>1. job[c].ids \in SUBSET AssetId
      BY DEF RequestInv, Job
    <3>2. AfterLog(c)
      BY <2>1 DEF NoteLost, Trim, TrimFails
    <3> QED
      BY <3>1, <3>2 DEF AfterLog, SessionNext
  <2> QED
    BY <1>2, <2>1 DEF HandlerStep, ExecInsert, ExecUpdate, ExecDelete, UpdateFails, Changed,
                      GiveUp, LoadNext, WriteNote
<1>3. ASSUME NEW c \in Clients, NEW killed \in BOOLEAN, LoseAnswer(c, killed) PROVE SessionNext
  BY <1>3 DEF LoseAnswer
<1>4. ASSUME (\E d \in Clients : LoseConnection(d)) \/ KillServer \/ StartServer \/ SecondPasses
      PROVE  SessionNext
  BY <1>4 DEF LoseConnection, KillServer, StartServer, SecondPasses
<1>5. ASSUME UNCHANGED vars PROVE SessionNext
  BY <1>5 DEF vars
<1> QED
  BY <1>1, <1>2, <1>3, <1>4, <1>5 DEF Next

\* The handlers of all clients together follow the log protocol, use the asset
\* table only through its statements and the sessions only through theirs.
THEOREM ImplementsComponents == Spec => LogSpec /\ AssetSpec /\ SessionSpec
<1>1. Init => LogInit /\ AssetInit /\ SessionInit
  BY DEF Init
<1> QED
  BY <1>1, RequestInvariant, LogRefinementStep, AssetRefinementStep, SessionRefinementStep, PTL
  DEF Spec, LogSpec, AssetSpec, SessionSpec

\* In the whole system, with requests cut off by kills and lost connections: the log
\* is bounded, only its oldest rows are dropped (edit_asset.php:36-44), and what is
\* dropped never shows on the dashboard (dashboard.php:167).
THEOREM SystemLog == Spec => [](LogBound /\ DroppedAreOldest) /\ TrimInvisible
  BY ImplementsComponents, LogBoundHolds, DroppedAreOldestHolds, TrimInvisibleHolds, PTL

\* In the whole system an id names one asset for ever, across kills and restarts
\* (new_entry.php:47, edit_asset.php:28, delete_selected.php:24).
THEOREM SystemLifecycle == Spec => AssetLifecycleHolds
  BY ImplementsComponents, TableImplementsLifecycle, PTL

\* In the whole system the edit queue is what is left of the batch, whatever
\* other clients delete and whenever the server dies (edit_asset.php:48-53).
THEOREM SystemBatch == Spec => []BatchAccounting
  BY ImplementsComponents, BatchAccountingHolds, PTL

-----------------------------------------------------------------------------
\* An id that was given out, and one whose asset is deleted.
Known(i) == i \in AssetId /\ i < nextAssetId
Gone(i) == Known(i) /\ assets[i] = NoRow

\* What makes DeletedIsFinal inductive: pages and requests only name ids that
\* were given out, and a deletion that is about to be logged has taken effect.
DeletionInv ==
  /\ listed \in [Clients -> SUBSET AssetId]
  /\ \A c \in Clients : \A i \in listed[c] : Known(i)
  /\ \A c \in Clients : pc[c] = "change" /\ job[c].kind = "delete" =>
       \A i \in job[c].ids : Known(i)
  /\ \A c \in Clients : phase[c] = "insert" /\ job[c].kind = "delete" =>
       \A i \in job[c].ids : Gone(i)
  /\ \A e \in log : e.note.what = "Deleted" => \A i \in e.note.ids : Gone(i)

\* Whatever statement is executed, ids stay given out and assets stay deleted.
LEMMA GoneForGood ==
  ASSUME AssetInv, [AssetNext]_assetVars
  PROVE  \A i : (Known(i) => Known(i)') /\ (Gone(i) => Gone(i)')
<1> SUFFICES ASSUME NEW i PROVE (Known(i) => Known(i)') /\ (Gone(i) => Gone(i)')
  OBVIOUS
<1> USE ParameterAssumption DEF AssetInv, AssetTypeOK, AssetId, Known, Gone
<1>1. ASSUME NEW row \in Rows, InsertAsset(row) PROVE (Known(i) => Known(i)') /\ (Gone(i) => Gone(i)')
  BY <1>1 DEF InsertAsset
<1>2. ASSUME NEW id \in AssetId, NEW row \in Rows, UpdateAsset(id, row)
      PROVE  (Known(i) => Known(i)') /\ (Gone(i) => Gone(i)')
  BY <1>2 DEF UpdateAsset
<1>3. ASSUME NEW ids \in SUBSET AssetId, DeleteAssets(ids)
      PROVE  (Known(i) => Known(i)') /\ (Gone(i) => Gone(i)')
  BY <1>3 DEF DeleteAssets
<1>4. CASE UNCHANGED assetVars
  BY <1>4 DEF assetVars
<1> QED
  BY <1>1, <1>2, <1>3, <1>4 DEF AssetNext

\* Nothing is listed, requested or logged at the start.
LEMMA DeletionInvInit == Init => DeletionInv
  BY DEF Init, LogInit, DeletionInv

\* Every step of the system keeps the invariant of deletions.
LEMMA DeletionInvStep ==
  RequestInv /\ AssetInv /\ DeletionInv /\ [Next]_vars => DeletionInv'
<1> SUFFICES ASSUME RequestInv, AssetInv, DeletionInv, [Next]_vars
             PROVE  DeletionInv'
  OBVIOUS
<1>0. \A i : (Known(i) => Known(i)') /\ (Gone(i) => Gone(i)')
  BY AssetRefinementStep, GoneForGood
\* The pages and the log keep naming such ids when they do not change.
<1>a. ASSUME UNCHANGED listed
      PROVE  listed' \in [Clients -> SUBSET AssetId] /\ \A c \in Clients : \A i \in listed'[c] : Known(i)'
  BY <1>0, <1>a DEF DeletionInv
<1>b. ASSUME log' \subseteq log
      PROVE  \A e \in log' : e.note.what = "Deleted" => \A i \in e.note.ids : Gone(i)'
  BY <1>0, <1>b DEF DeletionInv
\* A request of c may change, those of the other clients stay.
<1>c. ASSUME NEW c \in Clients,
             \A d \in Clients \ {c} : pc'[d] = pc[d] /\ phase'[d] = phase[d] /\ job'[d] = job[d],
             pc'[c] = "change" /\ job'[c].kind = "delete" => \A i \in job'[c].ids : Known(i)',
             phase'[c] = "insert" /\ job'[c].kind = "delete" => \A i \in job'[c].ids : Gone(i)'
      PROVE  /\ \A d \in Clients : pc'[d] = "change" /\ job'[d].kind = "delete" =>
                  \A i \in job'[d].ids : Known(i)'
             /\ \A d \in Clients : phase'[d] = "insert" /\ job'[d].kind = "delete" =>
                  \A i \in job'[d].ids : Gone(i)'
  BY <1>0, <1>c DEF DeletionInv
<1>1. ASSUME NEW c \in Clients, UserStep(c) PROVE DeletionInv'
  <2>0. log' = log /\ phase' = phase
    BY <1>1 DEF UserStep, LoginPage, LogoutPage, Masterlist, NewEntry, UpdateForm, DeleteSelected,
                OpenWrite, EditSelected, LoadManual, OpenEdit, logVars
  <2>1. ASSUME Masterlist(c) PROVE DeletionInv'
    <3>1. /\ listed' = [listed EXCEPT ![c] = LiveAssets]
          /\ UNCHANGED <<log, phase, pc, job, assets, nextAssetId>>
      BY <2>1 DEF Masterlist, logVars, assetVars
    <3>2. LiveAssets \subseteq AssetId /\ \A i \in LiveAssets : Known(i)
      BY ParameterAssumption DEF LiveAssets, Known, AssetInv, AssetTypeOK, FreshAbove, AssetId
    <3> QED
      BY <3>1, <3>2, <1>0 DEF DeletionInv
  <2>2. ASSUME NEW name \in Names, NEW password \in Passwords, LoginPage(c, name, password)
        PROVE  DeletionInv'
    BY <2>2, <2>0, <1>0 DEF DeletionInv, LoginPage
  <2>3. ASSUME LogoutPage(c) PROVE DeletionInv'
    BY <2>3, <2>0, <1>0 DEF DeletionInv, LogoutPage
  <2>4. ASSUME NEW step, NEW j, Open(c, step, j), UNCHANGED listed,
               step = "change" /\ j.kind = "delete" => j.ids \subseteq listed[c]
        PROVE  DeletionInv'
    <3>1. /\ pc' = [pc EXCEPT ![c] = step] /\ job' = [job EXCEPT ![c] = j]
          /\ pc[c] = "idle" /\ phase[c] = "idle"
      BY <2>4 DEF Open, RequestInv
    <3>2. pc'[c] = step /\ job'[c] = j /\ phase'[c] = "idle"
      BY <3>1, <2>0 DEF RequestInv
    <3>3. \A d \in Clients \ {c} : pc'[d] = pc[d] /\ phase'[d] = phase[d] /\ job'[d] = job[d]
      BY <3>1, <2>0 DEF RequestInv
    <3>4. pc'[c] = "change" /\ job'[c].kind = "delete" => \A i \in job'[c].ids : Known(i)'
      BY <2>4, <3>2, <1>0 DEF DeletionInv
    <3> QED
      BY <2>0, <2>4, <3>2, <3>3, <3>4, <1>a, <1>b, <1>c DEF DeletionInv
  <2>5. ASSUME NEW row \in Rows, NewEntry(c, row) PROVE DeletionInv'
    BY <2>5, <2>4 DEF NewEntry, OpenWrite
  <2>6. ASSUME NEW id \in AssetId, NEW row \in Rows, UpdateForm(c, id, row) PROVE DeletionInv'
    BY <2>6, <2>4 DEF UpdateForm, OpenWrite
  <2>7. ASSUME NEW ids \in SUBSET AssetId, DeleteSelected(c, ids) PROVE DeletionInv'
    BY <2>7, <2>4 DEF DeleteSelected, OpenWrite
  <2>8. ASSUME NEW queue \in Selections, EditSelected(c, queue) PROVE DeletionInv'
    BY <2>8, <2>4 DEF EditSelected
  <2>9. ASSUME NEW id \in AssetId, LoadManual(c, id) PROVE DeletionInv'
    BY <2>9, <2>4 DEF LoadManual
  <2>10. ASSUME OpenEdit(c) PROVE DeletionInv'
    BY <2>10, <2>4 DEF OpenEdit
  <2> QED
    BY <1>1, <2>1, <2>2, <2>3, <2>5, <2>6, <2>7, <2>8, <2>9, <2>10 DEF UserStep
<1>2. ASSUME NEW c \in Clients, HandlerStep(c) PROVE DeletionInv'
  <2>0. UNCHANGED listed
    BY <1>2 DEF HandlerStep, ExecInsert, ExecUpdate, UpdateFails, ExecDelete, Changed, GiveUp,
                WriteNote, NoteLost, Trim, TrimFails, LoadNext
  <2>1. ASSUME NEW ids, NEW j, Changed(c, ids, j),
               j.kind = "delete" => \A i \in j.ids : Gone(i)'
        PROVE  DeletionInv'
    <3>1. /\ phase' = [phase EXCEPT ![c] = "insert"] /\ pc' = [pc EXCEPT ![c] = "log"]
          /\ job' = [job EXCEPT ![c] = j] /\ log' = log
      BY <2>1 DEF Changed, BeginLog
    <3>2. pc'[c] = "log" /\ job'[c] = j
      BY <3>1 DEF RequestInv
    <3>3. \A d \in Clients \ {c} : pc'[d] = pc[d] /\ phase'[d] = phase[d] /\ job'[d] = job[d]
      BY <3>1 DEF RequestInv
    <3> QED
      BY <2>0, <2>1, <3>1, <3>2, <3>3, <1>a, <1>b, <1>c DEF DeletionInv
  <2>2. ASSUME ExecInsert(c) PROVE DeletionInv'
    <3>1. [job[c] EXCEPT !.ids = {nextAssetId}].kind = "new"
      BY <2>2 DEF ExecInsert, RequestInv, Job
    <3> QED
      BY <2>1, <2>2, <3>1 DEF ExecInsert
  <2>3. ASSUME ExecUpdate(c) \/ UpdateFails(c) PROVE DeletionInv'
    BY <2>1, <2>3 DEF ExecUpdate, UpdateFails
  <2>4. ASSUME ExecDelete(c) PROVE DeletionInv'
    <3>1. \A i \in job[c].ids : Known(i)
      BY <2>4 DEF ExecDelete, DeletionInv
    <3>2. \A i \in job[c].ids : Gone(i)'
      BY <2>4, <3>1, <1>0 DEF ExecDelete, DeleteAssets, Gone, Known
    <3> QED
      BY <2>1, <2>4, <3>2 DEF ExecDelete
  <2>5. ASSUME GiveUp(c) \/ LoadNext(c) PROVE DeletionInv'
    <3>1. Close(c) /\ log' = log /\ phase' = phase /\ phase[c] = "idle"
      BY <2>5 DEF GiveUp, LoadNext, logVars, RequestInv
    <3>2. pc'[c] = "idle"
      BY <3>1 DEF Close, RequestInv
    <3>3. \A d \in Clients \ {c} : pc'[d] = pc[d] /\ phase'[d] = phase[d] /\ job'[d] = job[d]
      BY <3>1 DEF Close, RequestInv
    <3> QED
      BY <2>0, <3>1, <3>2, <3>3, <1>a, <1>b, <1>c DEF DeletionInv
  <2>6. ASSUME WriteNote(c) PROVE DeletionInv'
    <3> DEFINE row == [id |-> nextLogId, ts |-> clock, note |-> NoteOf(c)]
    <3>1. /\ log' = log \cup {row} /\ phase[c] = "insert"
          /\ phase' = [phase EXCEPT ![c] = "trim"] /\ UNCHANGED <<pc, job>>
      BY <2>6 DEF WriteNote, InsertLog
    <3>2. row.note.what = "Deleted" => job[c].kind = "delete"
      <4>1. job[c].kind \in Writing
        BY <3>1 DEF RequestInv
      <4> QED
        BY <4>1 DEF NoteOf, NoteFor, Writing
    <3>3. row.note.ids = job[c].ids
      BY DEF NoteOf
    <3> HIDE DEF row
    <3>4. \A e \in log' : e.note.what = "Deleted" => \A i \in e.note.ids : Gone(i)'
      BY <3>1, <3>2, <3>3, <1>0 DEF DeletionInv
    <3>5. phase'[c] = "trim" /\ \A d \in Clients \ {c} : phase'[d] = phase[d]
      BY <3>1 DEF RequestInv
    <3> QED
      BY <2>0, <3>1, <3>4, <3>5, <1>a, <1>0 DEF DeletionInv
  <2>7. ASSUME NoteLost(c) \/ Trim(c) \/ TrimFails(c) PROVE DeletionInv'
    <3>1. AfterLog(c) /\ phase' = [phase EXCEPT ![c] = "idle"] /\ log' \subseteq log
      BY <2>7 DEF NoteLost, Trim, TrimFails, InsertLost, TrimLog, TrimKeeping, TrimLost, Newest
    <3>2. pc'[c] \in {"idle", "load"} /\ \A d \in Clients \ {c} : pc'[d] = pc[d] /\ job'[d] = job[d]
      BY <3>1 DEF AfterLog, Close, RequestInv
    <3>3. phase'[c] = "idle" /\ \A d \in Clients \ {c} : phase'[d] = phase[d]
      BY <3>1 DEF RequestInv
    <3> QED
      BY <2>0, <3>1, <3>2, <3>3, <1>a, <1>b, <1>c DEF DeletionInv
  <2> QED
    BY <1>2, <2>2, <2>3, <2>4, <2>5, <2>6, <2>7 DEF HandlerStep
<1>3. ASSUME NEW c \in Clients, NEW killed \in BOOLEAN, LoseAnswer(c, killed) PROVE DeletionInv'
  <2>1. UNCHANGED listed /\ log' = log
    BY <1>3 DEF LoseAnswer, BeginLog, logVars
  <2>2. /\ pc'[c] # "change" /\ (phase'[c] = "insert" => job'[c].kind # "delete")
        /\ \A d \in Clients \ {c} : pc'[d] = pc[d] /\ phase'[d] = phase[d] /\ job'[d] = job[d]
    BY <1>3 DEF LoseAnswer, BeginLog, logVars, RequestInv, NoJob
  <2> QED
    BY <2>1, <2>2, <1>a, <1>b, <1>c DEF DeletionInv
<1>4. ASSUME (\E d \in Clients : LoseConnection(d)) \/ KillServer \/ StartServer \/ SecondPasses
      PROVE  DeletionInv'
  BY <1>4, <1>0 DEF LoseConnection, KillServer, StartServer, SecondPasses, Tick, logVars, DeletionInv
<1>5. ASSUME UNCHANGED vars PROVE DeletionInv'
  BY <1>5, <1>0 DEF vars, logVars, DeletionInv
<1> QED
  BY <1>1, <1>2, <1>3, <1>4, <1>5 DEF Next

\* Once history_log says that an asset was deleted there is no such asset,
\* whatever forms and selections other clients still hold and whenever the server
\* dies (delete_selected.php:24-28 against edit_asset.php:28).
THEOREM SystemDeletedIsFinal == Spec => []DeletedIsFinal
<1>1. DeletionInv => DeletedIsFinal
  BY DEF DeletionInv, DeletedIsFinal, Gone, LiveAssets
<1>2. Spec => []AssetInv
  BY ImplementsComponents, AssetInvariant, PTL
<1> QED
  BY <1>1, <1>2, RequestInvariant, DeletionInvInit, DeletionInvStep, PTL DEF Spec

-----------------------------------------------------------------------------
\* The types of the variables that no component has.
OwnTypes ==
  /\ up \in BOOLEAN /\ faults \in 0..MaxFaults
  /\ connected \in [Clients -> BOOLEAN]
  /\ forms \in [Clients -> SUBSET (AssetId \cup {AskForId})]
  /\ unlogged \in SUBSET Change

ownVars == <<up, faults, connected, forms, unlogged>>

\* The changes recorded are changes.
LEMMA ChangesType ==
  ASSUME NEW c \in Clients, NEW what \in {"Added", "Edited", "Deleted"}, NEW ids \in SUBSET AssetId
  PROVE  Changes(c, what, ids) \subseteq Change
  BY DEF Changes, Change

\* The bound on the faults leaves room for the one that happens.
LEMMA OneFault ==
  ASSUME OwnTypes, faults < MaxFaults, faults' = faults + 1
  PROVE  faults' \in 0..MaxFaults
  BY InventoryAssumption DEF OwnTypes

\* Every step keeps those types.
LEMMA OwnTypesStep ==
  RequestInv /\ RequestInv' /\ SessionInv /\ OwnTypes /\ [Next]_vars => OwnTypes'
<1> SUFFICES ASSUME RequestInv, SessionInv, OwnTypes, [Next]_vars
             PROVE  OwnTypes'
  OBVIOUS
<1>0. ASSUME UNCHANGED ownVars PROVE OwnTypes'
  BY <1>0 DEF OwnTypes, ownVars
<1>1. ASSUME NEW c \in Clients, UserStep(c) PROVE OwnTypes'
  <2>1. ASSUME NEW s, NEW j, Open(c, s, j) PROVE OwnTypes'
    BY <2>1 DEF Open, OwnTypes
  <2>2. ASSUME \/ \E name \in Names, password \in Passwords : LoginPage(c, name, password)
               \/ LogoutPage(c) \/ Masterlist(c)
        PROVE  OwnTypes'
    BY <2>2, <1>0 DEF LoginPage, LogoutPage, Masterlist, ownVars
  <2> QED
    BY <1>1, <2>1, <2>2 DEF UserStep, NewEntry, UpdateForm, DeleteSelected, OpenWrite,
                            EditSelected, LoadManual, OpenEdit
<1>2. ASSUME NEW c \in Clients, HandlerStep(c) PROVE OwnTypes'
  <2>0. /\ job[c] \in Job /\ job[c].ids \in SUBSET AssetId
        /\ job[c].kind \in Writing => NoteFor(job[c].kind) \in {"Added", "Edited", "Deleted"}
    BY DEF RequestInv, Job, Writing, NoteFor
  <2>1. ASSUME ExecInsert(c) PROVE OwnTypes'
    <3> DEFINE j == [job[c] EXCEPT !.ids = {nextAssetId}]
    <3>1. j.kind = "new" /\ {nextAssetId} \in SUBSET AssetId
      BY <2>0, <2>1 DEF ExecInsert, InsertAsset, Job
    <3>2. Changes(c, NoteFor(j.kind), {nextAssetId}) \subseteq Change
      BY <3>1, ChangesType DEF NoteFor
    <3>3. Changed(c, {nextAssetId}, j)
      BY <2>1 DEF ExecInsert
    <3> QED
      BY <3>2, <3>3 DEF Changed, OwnTypes
  <2>2. ASSUME ExecUpdate(c) \/ UpdateFails(c) \/ ExecDelete(c) PROVE OwnTypes'
    <3>1. job[c].kind \in Writing /\ \E ids \in SUBSET AssetId : Changed(c, ids, job[c])
      BY <2>0, <2>2 DEF ExecUpdate, UpdateFails, ExecDelete, Writing
    <3> QED
      BY <2>0, <3>1, ChangesType DEF Changed, OwnTypes
  <2>3. ASSUME GiveUp(c) PROVE OwnTypes'
    BY <2>3 DEF GiveUp, Close, OwnTypes
  <2>4. ASSUME WriteNote(c) PROVE OwnTypes'
    BY <2>4 DEF WriteNote, OwnTypes
  <2>5. ASSUME NoteLost(c) \/ Trim(c) \/ TrimFails(c) PROVE OwnTypes'
    BY <2>5 DEF NoteLost, Trim, TrimFails, AfterLog, Close, OwnTypes
  <2>6. ASSUME LoadNext(c) PROVE OwnTypes'
    <3>1. NextAsset(c) \in SUBSET AssetId
      <4>1. editQueue[c] # <<>> => Head(editQueue[c]) \in AssetId
        BY DEF SessionInv, SessionTypeOK
      <4> QED
        BY <2>0, <4>1 DEF NextAsset
    <3> QED
      BY <2>6, <3>1 DEF LoadNext, Close, OwnTypes
  <2> QED
    BY <1>2, <2>1, <2>2, <2>3, <2>4, <2>5, <2>6 DEF HandlerStep
<1>3. ASSUME NEW c \in Clients, NEW killed \in BOOLEAN, LoseAnswer(c, killed) PROVE OwnTypes'
  <2>1. job[c].ids \cap LiveAssets \in SUBSET AssetId
    BY DEF RequestInv, Job
  <2>2. nextAssetId \in AssetId => {nextAssetId} \in SUBSET AssetId
    OBVIOUS
  <2>3. unlogged' \in SUBSET Change
    BY <1>3, <2>1, <2>2, ChangesType DEF LoseAnswer, InsertAsset, OwnTypes
  <2>4. faults' \in 0..MaxFaults
    BY <1>3, OneFault DEF LoseAnswer
  <2>5. up' \in BOOLEAN
    BY <1>3, Zenon DEF LoseAnswer
  <2>6. connected' \in [Clients -> BOOLEAN]
    BY <1>3, Zenon DEF LoseAnswer, OwnTypes
  <2>7. forms' = forms
    BY <1>3 DEF LoseAnswer
  <2> QED
    BY <2>3, <2>4, <2>5, <2>6, <2>7, Zenon DEF OwnTypes
<1>4. ASSUME KillServer \/ \E c \in Clients : LoseConnection(c) PROVE OwnTypes'
  <2>1. faults' \in 0..MaxFaults
    BY <1>4, OneFault DEF KillServer, LoseConnection
  <2>2. up' \in BOOLEAN
    BY <1>4, Zenon DEF KillServer, LoseConnection, OwnTypes
  <2>3. connected' \in [Clients -> BOOLEAN]
    BY <1>4 DEF KillServer, LoseConnection, OwnTypes
  <2>4. forms' = forms /\ unlogged' = unlogged
    BY <1>4 DEF KillServer, LoseConnection
  <2> QED
    BY <2>1, <2>2, <2>3, <2>4, Zenon DEF OwnTypes
<1>5. ASSUME StartServer PROVE OwnTypes'
  <2>1. up' = TRUE /\ UNCHANGED <<faults, connected, forms, unlogged>>
    BY <1>5 DEF StartServer
  <2> QED
    BY <2>1, Zenon DEF OwnTypes
<1>6. ASSUME SecondPasses PROVE OwnTypes'
  BY <1>6, <1>0 DEF SecondPasses, ownVars
<1>7. ASSUME UNCHANGED vars PROVE OwnTypes'
  BY <1>7, <1>0 DEF vars, ownVars
<1> QED
  BY <1>1, <1>2, <1>3, <1>4, <1>5, <1>6, <1>7 DEF Next

\* So they keep them for ever.
THEOREM OwnTypesInvariant == Spec => []OwnTypes
<1>1. Init => OwnTypes
  BY InventoryAssumption DEF Init, OwnTypes
<1>2. Spec => []SessionInv
  BY ImplementsComponents, SessionInvInit, SessionInvStep, PTL DEF SessionSpec
<1> QED
  BY <1>1, <1>2, RequestInvariant, OwnTypesStep, PTL DEF Spec

\* All variables of the system keep their types, and a request is in the log
\* protocol exactly while its handler is between the change and the answer.
THEOREM SystemTypes == Spec => []TypeOK
<1>1. Spec => [](LogInv /\ AssetInv)
  BY ImplementsComponents, LogInvariant, AssetInvariant, PTL
<1>2. Spec => []SessionInv
  BY ImplementsComponents, SessionInvInit, SessionInvStep, PTL DEF SessionSpec
<1>3. Spec => []DeletionInv
  BY <1>1, RequestInvariant, DeletionInvInit, DeletionInvStep, PTL DEF Spec
<1>4. LogInv /\ AssetInv /\ SessionInv /\ DeletionInv /\ OwnTypes /\ RequestInv => TypeOK
  BY DEF LogInv, AssetInv, SessionInv, DeletionInv, OwnTypes, RequestInv, TypeOK
<1> QED
  BY <1>1, <1>2, <1>3, <1>4, RequestInvariant, OwnTypesInvariant, PTL

-----------------------------------------------------------------------------
\* The changes whose note the request of c is about to write on a connection
\* that is alive, and the other changes by c, whose notes no request will write.
\* Deletions of several assets share one note and are counted apart.
Due(c) ==
  IF phase[c] = "insert" /\ connected[c]
  THEN Changes(c, NoteFor(job[c].kind), job[c].ids) ELSE {}
Overdue(c) == {u \in unlogged \ Due(c) : u.by = c /\ u.what # "Deleted"}

\* An addition whose note is about to be written has taken place.
AddedDue ==
  \A c \in Clients : phase[c] = "insert" /\ job[c].kind = "new" =>
    Changes(c, "Added", job[c].ids) \subseteq unlogged

\* What makes AuditComplete inductive.  A request that has made its change and is
\* still connected owes a note that it will write; the invariant counts what is
\* missing beyond these notes.  A fault turns the note that is due into a missing
\* one, and it is one at most because the request is about one asset.
AuditInv ==
  /\ AddedDue
  /\ faults = 0 => \A u \in unlogged : u \in Due(u.by)
  /\ \A c \in Clients : IsFiniteSet(Overdue(c)) /\ Cardinality(Overdue(c)) <= faults

\* No step touches what the request of d owes.
SameRequest(d) == phase'[d] = phase[d] /\ connected'[d] = connected[d] /\ job'[d] = job[d]

\* A bound on a finite set holds for its subsets, and one element costs one.
LEMMA SubsetBound ==
  ASSUME NEW S, IsFiniteSet(S), NEW k \in Nat, Cardinality(S) <= k, NEW T \in SUBSET S
  PROVE  IsFiniteSet(T) /\ Cardinality(T) <= k
<1>1. IsFiniteSet(T) /\ Cardinality(T) <= Cardinality(S)
  BY FS_Subset
<1>2. Cardinality(S) \in Nat /\ Cardinality(T) \in Nat
  BY <1>1, FS_CardinalityType
<1> QED
  BY <1>1, <1>2

LEMMA OneMoreBound ==
  ASSUME NEW S, IsFiniteSet(S), NEW k \in Nat, Cardinality(S) <= k,
         NEW x, NEW T \in SUBSET (S \cup {x})
  PROVE  IsFiniteSet(T) /\ Cardinality(T) <= k + 1
<1>1. IsFiniteSet(S \cup {x}) /\ Cardinality(S \cup {x}) <= k + 1
  <2>1. Cardinality(S) \in Nat
    BY FS_CardinalityType
  <2> QED
    BY <2>1, FS_AddElement
<1> QED
  BY <1>1, SubsetBound

\* Nothing is owed at the start.
LEMMA AuditInvInit == Init => AuditInv
<1> SUFFICES ASSUME Init PROVE AuditInv
  OBVIOUS
<1>1. AddedDue /\ faults = 0 /\ unlogged = {}
  BY DEF Init, LogInit, AddedDue
<1>2. \A c \in Clients : Overdue(c) = {}
  BY <1>1 DEF Overdue
<1> QED
  BY <1>1, <1>2, FS_EmptySet DEF AuditInv

\* A step that makes no change and writes no note keeps the invariant if the
\* requests it touches have no note to write on a connection.
LEMMA QuietStep ==
  ASSUME AuditInv, OwnTypes, UNCHANGED <<unlogged, faults>>,
         \A d \in Clients : \/ SameRequest(d)
                            \/ /\ Due(d) = {}
                               /\ phase'[d] = "insert" => job'[d].kind # "new"
  PROVE  AuditInv'
<1>1. \A d \in Clients : Due(d) \subseteq Due(d)'
  BY DEF SameRequest, Due
<1>2. AddedDue'
  BY DEF AuditInv, AddedDue, SameRequest
<1>3. ASSUME faults' = 0 PROVE \A u \in unlogged' : u \in Due(u.by)'
  <2>1. \A u \in unlogged : u.by \in Clients /\ u \in Due(u.by)
    BY <1>3 DEF AuditInv, OwnTypes, Change
  <2> QED
    BY <1>1, <2>1
<1>4. ASSUME NEW c \in Clients PROVE IsFiniteSet(Overdue(c)') /\ Cardinality(Overdue(c)') <= faults'
  <2>1. Overdue(c)' \in SUBSET Overdue(c)
    BY <1>1 DEF Overdue
  <2>2. faults \in Nat
    BY InventoryAssumption DEF OwnTypes
  <2> QED
    BY <2>1, <2>2, SubsetBound DEF AuditInv
<1> QED
  BY <1>2, <1>3, <1>4 DEF AuditInv

\* A change made on a connection that is alive becomes due, none is missing.
LEMMA MadeStep ==
  ASSUME RequestInv, AuditInv, OwnTypes, NEW c \in Clients, pc[c] = "change", connected[c],
         NEW j \in Job, NEW ids \in SUBSET j.ids, j.kind = "new" => ids = j.ids,
         Changed(c, ids, j)
  PROVE  AuditInv'
<1>0. /\ phase' = [phase EXCEPT ![c] = "insert"] /\ job' = [job EXCEPT ![c] = j]
      /\ unlogged' = unlogged \cup Changes(c, NoteFor(j.kind), ids)
      /\ UNCHANGED <<faults, connected>>
  BY DEF Changed, BeginLog
<1>1. phase'[c] = "insert" /\ job'[c] = j /\ connected'[c] /\ phase[c] = "idle"
  BY <1>0 DEF RequestInv
<1>2. \A d \in Clients \ {c} : SameRequest(d)
  BY <1>0 DEF SameRequest, RequestInv
<1>3. Due(c) = {} /\ Due(c)' = Changes(c, NoteFor(j.kind), j.ids)
  BY <1>1 DEF Due
<1>4. Changes(c, NoteFor(j.kind), ids) \subseteq Due(c)'
  BY <1>3 DEF Changes
<1>5. \A d \in Clients : Due(d) \subseteq Due(d)'
  BY <1>2, <1>3 DEF SameRequest, Due
<1>6. \A u \in Changes(c, NoteFor(j.kind), ids) : u.by = c
  BY DEF Changes
<1>7. AddedDue'
  BY <1>0, <1>1, <1>2 DEF AuditInv, AddedDue, SameRequest, NoteFor
<1>8. ASSUME faults' = 0 PROVE \A u \in unlogged' : u \in Due(u.by)'
  <2>1. \A u \in unlogged : u.by \in Clients /\ u \in Due(u.by)
    BY <1>0, <1>8 DEF AuditInv, OwnTypes, Change
  <2> QED
    BY <1>0, <1>4, <1>5, <1>6, <2>1
<1>9. ASSUME NEW d \in Clients PROVE IsFiniteSet(Overdue(d)') /\ Cardinality(Overdue(d)') <= faults'
  <2>1. Overdue(d)' \in SUBSET Overdue(d)
    BY <1>0, <1>4, <1>5, <1>6 DEF Overdue
  <2>2. faults \in Nat
    BY InventoryAssumption DEF OwnTypes
  <2> QED
    BY <1>0, <2>1, <2>2, SubsetBound DEF AuditInv
<1> QED
  BY <1>7, <1>8, <1>9 DEF AuditInv

\* The note of c is written for exactly the changes that c owed, and takes
\* nothing away from what other requests owe.
LEMMA NotedStep ==
  ASSUME RequestInv, AuditInv, OwnTypes, NEW c \in Clients, WriteNote(c)
  PROVE  AuditInv'
<1>0. /\ phase[c] = "insert" /\ connected[c] /\ phase' = [phase EXCEPT ![c] = "trim"]
      /\ unlogged' = unlogged \ Changes(c, NoteFor(job[c].kind), job[c].ids)
      /\ UNCHANGED <<faults, connected, job>>
  BY DEF WriteNote, InsertLog, NoteOf
<1>1. Due(c) = Changes(c, NoteFor(job[c].kind), job[c].ids)
  BY <1>0 DEF Due
<1>2. phase'[c] = "trim" /\ \A d \in Clients \ {c} : SameRequest(d) /\ Due(d)' = Due(d)
  BY <1>0 DEF RequestInv, SameRequest, Due
<1>3. unlogged' = unlogged \ Due(c) /\ \A u \in Due(c) : u.by = c
  BY <1>0, <1>1 DEF Changes
<1>4. AddedDue'
  <2>1. \A d \in Clients \ {c} : \A i : Changes(d, "Added", i) \cap Due(c) = {}
    BY <1>3 DEF Changes
  <2> QED
    BY <1>2, <1>3, <2>1 DEF AuditInv, AddedDue, SameRequest
<1>5. ASSUME faults' = 0 PROVE \A u \in unlogged' : u \in Due(u.by)'
  <2>1. \A u \in unlogged : u.by \in Clients /\ u \in Due(u.by)
    BY <1>0, <1>5 DEF AuditInv, OwnTypes, Change
  <2> QED
    BY <1>2, <1>3, <2>1
<1>6. ASSUME NEW d \in Clients PROVE IsFiniteSet(Overdue(d)') /\ Cardinality(Overdue(d)') <= faults'
  <2>1. Overdue(d)' \in SUBSET Overdue(d)
    BY <1>2, <1>3 DEF Overdue
  <2>2. faults \in Nat
    BY InventoryAssumption DEF OwnTypes
  <2> QED
    BY <1>0, <2>1, <2>2, SubsetBound DEF AuditInv
<1> QED
  BY <1>4, <1>5, <1>6 DEF AuditInv

\* At most one note that is not about deletions is due from a client.
LEMMA OneDue ==
  ASSUME RequestInv, NEW c \in Clients
  PROVE  \E x : \A u \in Due(c) : u.what # "Deleted" => u = x
<1>1. CASE phase[c] = "insert" /\ job[c].kind # "delete"
  <2>1. PICK i : job[c].ids = {i}
    BY <1>1 DEF RequestInv, NamesOne
  <2> WITNESS [by |-> c, what |-> NoteFor(job[c].kind), id |-> i]
  <2> QED
    BY <2>1 DEF Due, Changes
<1>2. CASE ~(phase[c] = "insert" /\ job[c].kind # "delete")
  BY <1>2 DEF Due, Changes, NoteFor
<1> QED
  BY <1>1, <1>2

\* A fault costs a client one note at most: the note it owed, or the note of the
\* change that the server committed without an answer.
LEMMA FaultStep ==
  ASSUME AuditInv, OwnTypes, faults' = faults + 1, AddedDue',
         \A c \in Clients : \E x : Overdue(c)' \subseteq Overdue(c) \cup {x}
  PROVE  AuditInv'
<1>1. faults \in Nat /\ faults' # 0
  BY InventoryAssumption DEF OwnTypes
<1>2. ASSUME NEW c \in Clients PROVE IsFiniteSet(Overdue(c)') /\ Cardinality(Overdue(c)') <= faults'
  <2>1. PICK x : Overdue(c)' \subseteq Overdue(c) \cup {x}
    OBVIOUS
  <2>2. Overdue(c)' \in SUBSET (Overdue(c) \cup {x})
    BY <2>1
  <2> QED
    BY <1>1, <2>2, OneMoreBound DEF AuditInv
<1> QED
  BY <1>1, <1>2 DEF AuditInv

\* Every step of the system keeps the invariant of the audit.
LEMMA AuditInvStep ==
  RequestInv /\ OwnTypes /\ AuditInv /\ [Next]_vars => AuditInv'
<1> SUFFICES ASSUME RequestInv, OwnTypes, AuditInv, [Next]_vars
             PROVE  AuditInv'
  OBVIOUS
\* A step that leaves the requests, the changes and the faults alone.
<1>0. ASSUME UNCHANGED <<phase, connected, job, unlogged, faults>> PROVE AuditInv'
  BY <1>0, QuietStep DEF SameRequest
<1>1. ASSUME NEW c \in Clients, UserStep(c) PROVE AuditInv'
  <2>0. phase' = phase
    BY <1>1 DEF UserStep, LoginPage, LogoutPage, Masterlist, NewEntry, UpdateForm, DeleteSelected,
                OpenWrite, EditSelected, LoadManual, OpenEdit, logVars
  <2>1. ASSUME NEW s, NEW j, Open(c, s, j) PROVE AuditInv'
    <3>1. /\ phase[c] = "idle" /\ job' = [job EXCEPT ![c] = j]
          /\ connected' = [connected EXCEPT ![c] = TRUE] /\ UNCHANGED <<unlogged, faults>>
      BY <2>1 DEF Open, RequestInv
    <3>2. Due(c) = {} /\ phase'[c] # "insert"
      BY <3>1, <2>0 DEF Due
    <3>3. \A d \in Clients \ {c} : SameRequest(d)
      BY <3>1, <2>0 DEF SameRequest, RequestInv, OwnTypes
    <3> QED
      BY <3>1, <3>2, <3>3, QuietStep
  <2>2. ASSUME \/ \E name \in Names, password \in Passwords : LoginPage(c, name, password)
               \/ LogoutPage(c) \/ Masterlist(c)
        PROVE  AuditInv'
    BY <2>0, <2>2, <1>0 DEF LoginPage, LogoutPage, Masterlist
  <2> QED
    BY <1>1, <2>1, <2>2 DEF UserStep, NewEntry, UpdateForm, DeleteSelected, OpenWrite,
                            EditSelected, LoadManual, OpenEdit
<1>2. ASSUME NEW c \in Clients, HandlerStep(c) PROVE AuditInv'
  <2>0. job[c] \in Job
    BY DEF RequestInv
  <2>1. ASSUME ExecInsert(c) PROVE AuditInv'
    <3> DEFINE j == [job[c] EXCEPT !.ids = {nextAssetId}]
    <3>1. j \in Job /\ j.ids = {nextAssetId}
      BY <2>0, <2>1 DEF ExecInsert, InsertAsset, Job
    <3>2. pc[c] = "change" /\ connected[c] /\ Changed(c, {nextAssetId}, j)
      BY <2>1 DEF ExecInsert
    <3> HIDE DEF j
    <3> QED
      BY <3>1, <3>2, MadeStep
  <2>2. ASSUME ExecUpdate(c) \/ ExecDelete(c) PROVE AuditInv'
    <3>1. /\ pc[c] = "change" /\ connected[c] /\ job[c].kind # "new"
          /\ Changed(c, job[c].ids \cap LiveAssets, job[c])
      BY <2>2 DEF ExecUpdate, ExecDelete
    <3> QED
      BY <2>0, <3>1, MadeStep
  <2>3. ASSUME UpdateFails(c) PROVE AuditInv'
    <3>1. /\ phase[c] = "idle" /\ job[c].kind = "edit" /\ job' = [job EXCEPT ![c] = job[c]]
          /\ phase' = [phase EXCEPT ![c] = "insert"] /\ UNCHANGED <<faults, connected>>
          /\ unlogged' = unlogged \cup Changes(c, NoteFor(job[c].kind), {})
      BY <2>3 DEF UpdateFails, Changed, BeginLog
    <3>2. job' = job /\ unlogged' = unlogged
      BY <3>1 DEF RequestInv, Changes
    <3>3. Due(c) = {} /\ job'[c].kind # "new"
      BY <3>1, <3>2 DEF Due
    <3>4. \A d \in Clients \ {c} : SameRequest(d)
      BY <3>1, <3>2 DEF SameRequest, RequestInv
    <3> QED
      BY <3>1, <3>2, <3>3, <3>4, QuietStep
  <2>4. ASSUME GiveUp(c) \/ LoadNext(c) PROVE AuditInv'
    <3>1. Close(c) /\ phase' = phase /\ phase[c] = "idle" /\ UNCHANGED <<unlogged, faults>>
      BY <2>4 DEF GiveUp, LoadNext, logVars, RequestInv
    <3>2. Due(c) = {} /\ phase'[c] # "insert"
      BY <3>1 DEF Due
    <3>3. \A d \in Clients \ {c} : SameRequest(d)
      BY <3>1 DEF Close, SameRequest, RequestInv, OwnTypes
    <3> QED
      BY <3>1, <3>2, <3>3, QuietStep
  <2>5. ASSUME WriteNote(c) PROVE AuditInv'
    BY <2>5, NotedStep
  <2>6. ASSUME NoteLost(c) \/ Trim(c) \/ TrimFails(c) PROVE AuditInv'
    <3>1. /\ AfterLog(c) /\ phase' = [phase EXCEPT ![c] = "idle"] /\ UNCHANGED <<unlogged, faults>>
          /\ phase[c] = "insert" => ~connected[c]
      BY <2>6 DEF NoteLost, Trim, TrimFails, InsertLost, TrimLog, TrimKeeping, TrimLost
    <3>2. Due(c) = {} /\ phase'[c] # "insert"
      BY <3>1 DEF Due, RequestInv
    <3>3. \A d \in Clients \ {c} : SameRequest(d)
      BY <3>1 DEF AfterLog, Close, SameRequest, RequestInv, OwnTypes
    <3> QED
      BY <3>1, <3>2, <3>3, QuietStep
  <2> QED
    BY <1>2, <2>1, <2>2, <2>3, <2>4, <2>5, <2>6 DEF HandlerStep
<1>3. ASSUME NEW c \in Clients, NEW killed \in BOOLEAN, LoseAnswer(c, killed) PROVE AuditInv'
  <2>1. pc[c] = "change" /\ faults' = faults + 1
    BY <1>3 DEF LoseAnswer
  <2>2. /\ \A d \in Clients \ {c} : phase'[d] = phase[d] /\ job'[d] = job[d]
        /\ phase'[c] = "insert" => job'[c].kind # "new"
    BY <1>3 DEF LoseAnswer, BeginLog, logVars, RequestInv
  \* The change that was committed, if it is an addition or an edit.
  <2>3. \E x : \A u \in unlogged' \ unlogged : u.by = c /\ (u.what # "Deleted" => u = x)
    <3>1. CASE job[c].kind = "new"
      <4>1. unlogged' = unlogged \cup Changes(c, "Added", {nextAssetId})
        BY <1>3, <3>1 DEF LoseAnswer
      <4> WITNESS [by |-> c, what |-> "Added", id |-> nextAssetId]
      <4> QED
        BY <4>1 DEF Changes
    <3>2. CASE job[c].kind = "edit"
      <4>1. unlogged' = unlogged \cup Changes(c, "Edited", job[c].ids \cap LiveAssets)
        BY <1>3, <3>2 DEF LoseAnswer
      <4>2. PICK i : job[c].ids = {i}
        BY <2>1, <3>2 DEF RequestInv, NamesOne
      <4> WITNESS [by |-> c, what |-> "Edited", id |-> i]
      <4> QED
        BY <4>1, <4>2 DEF Changes
    <3>3. CASE job[c].kind = "delete"
      <4>1. unlogged' = unlogged \cup Changes(c, "Deleted", job[c].ids \cap LiveAssets)
        BY <1>3, <3>3 DEF LoseAnswer
      <4> QED
        BY <4>1 DEF Changes
    <3> QED
      BY <2>1, <3>1, <3>2, <3>3 DEF RequestInv, Writing
  <2>4. unlogged \subseteq unlogged'
    BY <1>3 DEF LoseAnswer
  <2>5. ASSUME NEW d \in Clients PROVE \E x : Overdue(d)' \subseteq Overdue(d) \cup {x}
    <3>1. CASE d = c
      <4>1. Due(c) = {}
        BY <2>1 DEF Due, RequestInv
      <4> QED
        BY <3>1, <4>1, <2>3 DEF Overdue
    <3>2. CASE d # c
      <4>1. PICK x : \A u \in Due(d) : u.what # "Deleted" => u = x
        BY OneDue
      <4> QED
        BY <3>2, <4>1, <2>3 DEF Overdue
    <3> QED
      BY <3>1, <3>2
  <2>6. AddedDue'
    BY <2>2, <2>4 DEF AuditInv, AddedDue
  <2> QED
    BY <2>1, <2>5, <2>6, FaultStep
<1>4. ASSUME KillServer \/ \E c \in Clients : LoseConnection(c) PROVE AuditInv'
  <2>1. faults' = faults + 1 /\ UNCHANGED <<phase, job, unlogged>>
    BY <1>4 DEF KillServer, LoseConnection, logVars
  <2>2. AddedDue'
    BY <2>1 DEF AuditInv, AddedDue
  <2>3. ASSUME NEW d \in Clients PROVE \E x : Overdue(d)' \subseteq Overdue(d) \cup {x}
    <3>1. PICK x : \A u \in Due(d) : u.what # "Deleted" => u = x
      BY OneDue
    <3> QED
      BY <2>1, <3>1 DEF Overdue
  <2> QED
    BY <2>1, <2>2, <2>3, FaultStep
<1>5. ASSUME StartServer \/ SecondPasses PROVE AuditInv'
  BY <1>5, <1>0 DEF StartServer, SecondPasses, Tick, logVars
<1>6. ASSUME UNCHANGED vars PROVE AuditInv'
  BY <1>6, <1>0 DEF vars, logVars
<1> QED
  BY <1>1, <1>2, <1>3, <1>4, <1>5, <1>6 DEF Next

\* What requests owe is right at every moment.
THEOREM AuditInvariant == Spec => []AuditInv
  BY OwnTypesInvariant, RequestInvariant, AuditInvInit, AuditInvStep, PTL DEF Spec

\* The history log is complete up to faults, for any number of clients, assets
\* and faults: without a kill or a lost connection every change gets its note
\* (new_entry.php:51, edit_asset.php:34, delete_selected.php:28), and each of these
\* costs a client at most the note of one asset that it added or edited.
THEOREM SystemAudit == Spec => []AuditComplete
<1>1. ASSUME AuditInv, OwnTypes PROVE AuditComplete
  <2>1. ASSUME faults = 0 PROVE Untold = {}
    BY <1>1, <2>1 DEF AuditInv, Untold, Due
  <2>2. ASSUME NEW c \in Clients
        PROVE  Cardinality({u \in Untold : u.by = c /\ u.what # "Deleted"}) <= faults
    <3>1. faults \in Nat
      BY <1>1, InventoryAssumption DEF OwnTypes
    <3>2. {u \in Untold : u.by = c /\ u.what # "Deleted"} \in SUBSET Overdue(c)
      BY DEF Untold, Overdue, Due
    <3> QED
      BY <1>1, <3>1, <3>2, SubsetBound DEF AuditInv
  <2> QED
    BY <2>1, <2>2 DEF AuditComplete
<1> QED
  BY <1>1, AuditInvariant, OwnTypesInvariant, PTL

\* Only the INSERT of a note adds a row to history_log.
LEMMA OnlyNotesAreLogged ==
  ASSUME [Next]_vars, NEW e \in log' \ log
  PROVE  \E c \in Clients : WriteNote(c) /\ e.note = NoteOf(c)
<1>1. ASSUME NEW c \in Clients, UserStep(c) PROVE FALSE
  BY <1>1 DEF UserStep, LoginPage, LogoutPage, Masterlist, NewEntry, UpdateForm, DeleteSelected,
              OpenWrite, EditSelected, LoadManual, OpenEdit, logVars
<1>2. ASSUME NEW c \in Clients, HandlerStep(c) PROVE WriteNote(c) /\ e.note = NoteOf(c)
  <2>1. ASSUME ExecInsert(c) \/ ExecUpdate(c) \/ UpdateFails(c) \/ ExecDelete(c) PROVE FALSE
    BY <2>1 DEF ExecInsert, ExecUpdate, UpdateFails, ExecDelete, Changed, BeginLog
  <2>2. ASSUME GiveUp(c) \/ LoadNext(c) PROVE FALSE
    BY <2>2 DEF GiveUp, LoadNext, logVars
  <2>3. ASSUME NoteLost(c) \/ Trim(c) \/ TrimFails(c) PROVE FALSE
    BY <2>3 DEF NoteLost, Trim, TrimFails, InsertLost, TrimLog, TrimKeeping, TrimLost, Newest
  <2>4. ASSUME WriteNote(c) PROVE e.note = NoteOf(c)
    BY <2>4 DEF WriteNote, InsertLog
  <2> QED
    BY <1>2, <2>1, <2>2, <2>3, <2>4 DEF HandlerStep
<1>3. ASSUME NEW c \in Clients, NEW killed \in BOOLEAN, LoseAnswer(c, killed) PROVE FALSE
  BY <1>3 DEF LoseAnswer, BeginLog, logVars
<1>4. ASSUME (\E d \in Clients : LoseConnection(d)) \/ KillServer \/ StartServer \/ SecondPasses
      PROVE  FALSE
  BY <1>4 DEF LoseConnection, KillServer, StartServer, SecondPasses, Tick, logVars
<1>5. ASSUME UNCHANGED vars PROVE FALSE
  BY <1>5 DEF vars, logVars
<1> QED
  BY <1>1, <1>2, <1>3, <1>4, <1>5 DEF Next

\* A note "Added new asset ID n" is written for the asset its own request
\* inserted, whatever other clients insert, delete or log between the INSERT and
\* the note (new_entry.php:47-51).
THEOREM SystemAddedIsTrue == Spec => AddedIsTrue
<1> DEFINE Told(e) == e.note.what = "Added" =>
             \E c \in Clients : Writes(c) /\ Changes(c, "Added", e.note.ids) \subseteq unlogged
<1>1. ASSUME RequestInv, AuditInv, [Next]_vars, NEW e \in log' \ log PROVE Told(e)
  <2> SUFFICES ASSUME e.note.what = "Added"
               PROVE  \E c \in Clients :
                        Writes(c) /\ Changes(c, "Added", e.note.ids) \subseteq unlogged
    OBVIOUS
  <2>1. PICK c \in Clients : WriteNote(c) /\ e.note = NoteOf(c)
    BY <1>1, OnlyNotesAreLogged
  <2>2. Writes(c) /\ e.note.what = NoteFor(job[c].kind) /\ e.note.ids = job[c].ids
    BY <1>1, <2>1 DEF WriteNote, InsertLog, NoteOf, Writes, RequestInv
  <2>3. job[c].kind = "new"
    BY <1>1, <2>2 DEF RequestInv, Writing, NoteFor, Writes
  <2> QED
    BY <1>1, <2>2, <2>3 DEF AuditInv, AddedDue, Writes
<1>2. RequestInv /\ AuditInv /\ [Next]_vars => [\A e \in log' \ log : Told(e)]_vars
  BY <1>1
<1> QED
  BY <1>2, RequestInvariant, AuditInvariant, PTL DEF Spec, AddedIsTrue

-----------------------------------------------------------------------------
\* What makes NotesAreReal inductive: a request that writes was made by a user,
\* who stays logged in until it ends, and forms, requests and notes name only ids
\* that were given out.
RealInv ==
  /\ \A c \in Clients : pc[c] \in {"change", "log"} =>
       user[c] \in Users /\ \A i \in job[c].ids : Known(i)
  /\ \A c \in Clients : \A i \in forms[c] : i = AskForId \/ Known(i)
  /\ \A e \in log : e.note.who \in Users /\ \A i \in e.note.ids : Known(i)

\* No form is shown and nothing is logged at the start.
LEMMA RealInvInit == Init => RealInv
  BY DEF Init, LogInit, RealInv

\* Every step of the system keeps the invariant of the notes.
LEMMA RealInvStep ==
  RequestInv /\ AssetInv /\ DeletionInv /\ OwnTypes /\ RealInv /\ [Next]_vars => RealInv'
<1> SUFFICES ASSUME RequestInv, AssetInv, DeletionInv, OwnTypes, RealInv, [Next]_vars
             PROVE  RealInv'
  OBVIOUS
<1>0. \A i : Known(i) => Known(i)'
  BY AssetRefinementStep, GoneForGood
\* What is not touched stays about ids that were given out.
<1>a. ASSUME NEW c \in Clients, UNCHANGED forms, log' \subseteq log,
             \A d \in Clients \ {c} : pc'[d] = pc[d] /\ job'[d] = job[d] /\ user'[d] = user[d],
             pc'[c] \in {"change", "log"} => user'[c] \in Users /\ \A i \in job'[c].ids : Known(i)'
      PROVE  RealInv'
  BY <1>0, <1>a DEF RealInv
<1>b. ASSUME UNCHANGED <<forms, log, pc, job, user>> PROVE RealInv'
  BY <1>0, <1>b DEF RealInv
<1>1. ASSUME NEW c \in Clients, UserStep(c) PROVE RealInv'
  <2>0. log' = log
    BY <1>1 DEF UserStep, LoginPage, LogoutPage, Masterlist, NewEntry, UpdateForm, DeleteSelected,
                OpenWrite, EditSelected, LoadManual, OpenEdit, logVars
  <2>1. ASSUME NEW name \in Names, NEW password \in Passwords, LoginPage(c, name, password)
        PROVE  RealInv'
    BY <2>0, <2>1, <1>a DEF LoginPage, Login, RequestInv
  <2>2. ASSUME LogoutPage(c) PROVE RealInv'
    BY <2>0, <2>2, <1>a DEF LogoutPage, Logout, RequestInv
  <2>3. ASSUME Masterlist(c) PROVE RealInv'
    BY <2>0, <2>3, <1>b DEF Masterlist, sessionVars
  <2>4. ASSUME NEW s, NEW j, Open(c, s, j), UNCHANGED user,
               s = "change" => user[c] # NoUser /\ \A i \in j.ids : Known(i),
               s # "log"
        PROVE  RealInv'
    <3>1. pc' = [pc EXCEPT ![c] = s] /\ job' = [job EXCEPT ![c] = j] /\ UNCHANGED forms
      BY <2>4 DEF Open
    <3>2. pc'[c] = s /\ job'[c] = j /\ (user[c] # NoUser => user[c] \in Users)
      BY <3>1 DEF RequestInv
    <3>3. \A d \in Clients \ {c} : pc'[d] = pc[d] /\ job'[d] = job[d] /\ user'[d] = user[d]
      BY <2>4, <3>1 DEF RequestInv
    <3> QED
      BY <2>0, <2>4, <3>1, <3>2, <3>3, <1>0, <1>a
  <2>5. ASSUME NEW row \in Rows, NewEntry(c, row) PROVE RealInv'
    BY <2>5, <2>4 DEF NewEntry, OpenWrite, sessionVars
  <2>6. ASSUME NEW id \in AssetId, NEW row \in Rows, UpdateForm(c, id, row) PROVE RealInv'
    <3>1. id # AskForId
      BY ParameterAssumption DEF AssetId, AskForId
    <3>2. Known(id)
      BY <2>6, <3>1 DEF UpdateForm, RealInv
    <3> QED
      BY <2>6, <3>2, <2>4 DEF UpdateForm, OpenWrite, sessionVars
  <2>7. ASSUME NEW ids \in SUBSET AssetId, DeleteSelected(c, ids) PROVE RealInv'
    <3>1. \A i \in ids : Known(i)
      BY <2>7 DEF DeleteSelected, DeletionInv
    <3> QED
      BY <2>7, <3>1, <2>4 DEF DeleteSelected, OpenWrite, sessionVars
  <2>8. ASSUME NEW queue \in Selections, EditSelected(c, queue) PROVE RealInv'
    BY <2>8, <2>4 DEF EditSelected, SelectBatch
  <2>9. ASSUME NEW id \in AssetId, LoadManual(c, id) PROVE RealInv'
    BY <2>9, <2>4 DEF LoadManual, sessionVars
  <2>10. ASSUME OpenEdit(c) PROVE RealInv'
    BY <2>10, <2>4 DEF OpenEdit, sessionVars
  <2> QED
    BY <1>1, <2>1, <2>2, <2>3, <2>5, <2>6, <2>7, <2>8, <2>9, <2>10 DEF UserStep
<1>2. ASSUME NEW c \in Clients, HandlerStep(c) PROVE RealInv'
  <2>1. ASSUME NEW ids, NEW j, pc[c] = "change", Changed(c, ids, j), \A i \in j.ids : Known(i)'
        PROVE  RealInv'
    <3>1. /\ pc' = [pc EXCEPT ![c] = "log"] /\ job' = [job EXCEPT ![c] = j]
          /\ UNCHANGED <<forms, log, user>>
      BY <2>1 DEF Changed, BeginLog, sessionVars
    <3>2. job'[c] = j /\ user'[c] \in Users
      BY <2>1, <3>1 DEF RequestInv, RealInv
    <3>3. \A d \in Clients \ {c} : pc'[d] = pc[d] /\ job'[d] = job[d] /\ user'[d] = user[d]
      BY <3>1 DEF RequestInv
    <3> QED
      BY <2>1, <3>1, <3>2, <3>3, <1>a
  <2>2. ASSUME ExecInsert(c) PROVE RealInv'
    <3> DEFINE j == [job[c] EXCEPT !.ids = {nextAssetId}]
    <3>1. j.ids = {nextAssetId}
      BY DEF RequestInv, Job
    <3>2. \A i \in {nextAssetId} : Known(i)'
      BY <2>2, ParameterAssumption DEF ExecInsert, InsertAsset, Known, AssetId
    <3>3. pc[c] = "change" /\ Changed(c, {nextAssetId}, j)
      BY <2>2 DEF ExecInsert
    <3> HIDE DEF j
    <3> QED
      BY <2>1, <3>1, <3>2, <3>3
  <2>3. ASSUME ExecUpdate(c) \/ UpdateFails(c) \/ ExecDelete(c) PROVE RealInv'
    <3>1. pc[c] = "change" /\ \E ids : Changed(c, ids, job[c])
      BY <2>3 DEF ExecUpdate, UpdateFails, ExecDelete
    <3>2. \A i \in job[c].ids : Known(i)'
      BY <3>1, <1>0 DEF RealInv
    <3> QED
      BY <2>1, <3>1, <3>2
  <2>4. ASSUME GiveUp(c) PROVE RealInv'
    <3>1. Close(c) /\ UNCHANGED <<forms, log, user>>
      BY <2>4 DEF GiveUp, logVars, sessionVars
    <3> QED
      BY <3>1, <1>a DEF Close, RequestInv
  <2>5. ASSUME WriteNote(c) PROVE RealInv'
    <3> DEFINE row == [id |-> nextLogId, ts |-> clock, note |-> NoteOf(c)]
    <3>1. /\ log' = log \cup {row} /\ phase[c] = "insert" /\ UNCHANGED <<forms, pc, job, user>>
      BY <2>5 DEF WriteNote, InsertLog, sessionVars
    <3>2. row.note.who = user[c] /\ row.note.ids = job[c].ids /\ pc[c] = "log"
      BY <3>1 DEF NoteOf, RequestInv
    <3> HIDE DEF row
    <3> QED
      BY <3>1, <3>2, <1>0 DEF RealInv
  <2>6. ASSUME NoteLost(c) \/ Trim(c) \/ TrimFails(c) PROVE RealInv'
    <3>1. AfterLog(c) /\ log' \subseteq log /\ UNCHANGED forms
      BY <2>6 DEF NoteLost, Trim, TrimFails, InsertLost, TrimLog, TrimKeeping, TrimLost, Newest
    <3>2. pc'[c] \in {"idle", "load"} /\ \A d \in Clients \ {c} : pc'[d] = pc[d] /\ job'[d] = job[d]
      BY <3>1 DEF AfterLog, Close, RequestInv
    <3>3. user' = user
      BY <3>1 DEF AfterLog, Advance, sessionVars
    <3> QED
      BY <3>1, <3>2, <3>3, <1>a
  <2>7. ASSUME LoadNext(c) PROVE RealInv'
    <3>1. Close(c) /\ UNCHANGED <<log, user>>
      BY <2>7 DEF LoadNext, logVars, sessionVars
    <3>2. \A i \in LiveAssets : Known(i)
      BY ParameterAssumption DEF LiveAssets, Known, AssetInv, AssetTypeOK, FreshAbove, AssetId
    <3>3. \A i \in forms'[c] : i \in forms[c] \/ i = AskForId \/ i \in LiveAssets
      BY <2>7 DEF LoadNext, OwnTypes
    <3>4. \A d \in Clients \ {c} : forms'[d] = forms[d]
      BY <2>7 DEF LoadNext, OwnTypes
    <3>5. \A d \in Clients : \A i \in forms'[d] : i = AskForId \/ Known(i)'
      BY <3>2, <3>3, <3>4, <1>0 DEF RealInv
    <3>6. \A d \in Clients : pc'[d] \in {"change", "log"} => pc'[d] = pc[d] /\ job'[d] = job[d]
      BY <3>1 DEF Close, RequestInv
    <3> QED
      BY <3>1, <3>5, <3>6, <1>0 DEF RealInv
  <2> QED
    BY <1>2, <2>2, <2>3, <2>4, <2>5, <2>6, <2>7 DEF HandlerStep
<1>3. ASSUME NEW c \in Clients, NEW killed \in BOOLEAN, LoseAnswer(c, killed) PROVE RealInv'
  <2>1. pc[c] = "change" /\ UNCHANGED <<forms, log, user>>
    BY <1>3 DEF LoseAnswer, BeginLog, logVars, sessionVars
  <2>2. /\ pc'[c] \in {"change", "log"} => job'[c] = job[c]
        /\ \A d \in Clients \ {c} : pc'[d] = pc[d] /\ job'[d] = job[d]
    BY <1>3 DEF LoseAnswer, RequestInv
  <2>3. user'[c] \in Users /\ \A i \in job[c].ids : Known(i)'
    BY <2>1, <1>0 DEF RealInv
  <2> QED
    BY <2>1, <2>2, <2>3, <1>a
<1>4. ASSUME (\E d \in Clients : LoseConnection(d)) \/ KillServer \/ StartServer \/ SecondPasses
      PROVE  RealInv'
  BY <1>4, <1>b DEF LoseConnection, KillServer, StartServer, SecondPasses, Tick, logVars, sessionVars
<1>5. ASSUME UNCHANGED vars PROVE RealInv'
  BY <1>5, <1>b DEF vars, logVars, sessionVars
<1> QED
  BY <1>1, <1>2, <1>3, <1>4, <1>5 DEF Next

\* Requests and notes are real at every moment.
THEOREM RealInvariant == Spec => []RealInv
<1>1. Spec => []AssetInv
  BY ImplementsComponents, AssetInvariant, PTL
<1>2. Spec => []DeletionInv
  BY <1>1, RequestInvariant, DeletionInvInit, DeletionInvStep, PTL DEF Spec
<1> QED
  BY <1>1, <1>2, RequestInvariant, OwnTypesInvariant, RealInvInit, RealInvStep, PTL DEF Spec

\* Every note in history_log names a user of the system and assets that exist or
\* existed, whatever ids are typed in, however stale the forms and selections are
\* and whenever the server dies (edit_asset.php:31-34, delete_selected.php:26-28).
THEOREM SystemNotesAreReal == Spec => []NotesAreReal
<1>1. RealInv => NotesAreReal
  BY DEF RealInv, NotesAreReal, Known
<1> QED
  BY <1>1, RealInvariant, PTL

-----------------------------------------------------------------------------
\* What a client's request has left depends on where it is and on nothing else.
LEMMA RemainingSame ==
  ASSUME NEW c \in Clients, pc'[c] = pc[c], phase'[c] = phase[c]
  PROVE  Remaining(c)' = Remaining(c)
  BY DEF Remaining

\* It is a number.
LEMMA RemainingType ==
  ASSUME RequestInv, NEW c \in Clients
  PROVE  Remaining(c) \in 0..4
<1>1. pc[c] \in {"idle", "change", "log", "load"} /\ phase[c] \in {"idle", "insert", "trim"}
  BY DEF RequestInv
<1> QED
  BY <1>1 DEF Remaining

\* A step of the handler of c leaves less to do.
LEMMA HandlerStepProgress ==
  ASSUME RequestInv, NEW c \in Clients, HandlerStep(c)
  PROVE  Remaining(c)' < Remaining(c)
<1>1. ASSUME ExecInsert(c) \/ ExecUpdate(c) \/ UpdateFails(c) \/ ExecDelete(c)
      PROVE  Remaining(c)' < Remaining(c)
  <2>1. /\ pc[c] = "change" /\ pc' = [pc EXCEPT ![c] = "log"]
        /\ phase' = [phase EXCEPT ![c] = "insert"]
    BY <1>1 DEF ExecInsert, ExecUpdate, UpdateFails, ExecDelete, Changed, BeginLog
  <2>2. pc'[c] = "log" /\ phase'[c] = "insert"
    BY <2>1 DEF RequestInv
  <2> QED
    BY <2>1, <2>2 DEF Remaining
<1>2. ASSUME GiveUp(c) \/ LoadNext(c) PROVE Remaining(c)' < Remaining(c)
  <2>1. pc[c] \in {"change", "load"} /\ pc'[c] = "idle"
    BY <1>2 DEF GiveUp, LoadNext, Close, RequestInv
  <2> QED
    BY <2>1 DEF Remaining
<1>3. ASSUME WriteNote(c) PROVE Remaining(c)' < Remaining(c)
  <2>1. phase[c] = "insert" /\ phase'[c] = "trim" /\ pc[c] = "log" /\ pc'[c] = "log"
    BY <1>3 DEF WriteNote, InsertLog, RequestInv
  <2> QED
    BY <2>1 DEF Remaining
<1>4. ASSUME NoteLost(c) \/ Trim(c) \/ TrimFails(c) PROVE Remaining(c)' < Remaining(c)
  <2>1. AfterLog(c) /\ phase[c] # "idle"
    BY <1>4 DEF NoteLost, Trim, TrimFails, InsertLost, TrimLog, TrimKeeping, TrimLost
  <2>2. pc[c] = "log" /\ pc'[c] \in {"idle", "load"}
    BY <2>1 DEF AfterLog, Close, RequestInv
  <2> QED
    BY <2>2 DEF Remaining
<1> QED
  BY <1>1, <1>2, <1>3, <1>4 DEF HandlerStep

\* Every other step leaves a request in flight where it is, or closer to its end.
LEMMA OthersKeepProgress ==
  ASSUME RequestInv, [Next]_vars, NEW c \in Clients, pc[c] # "idle", ~HandlerStep(c)
  PROVE  Remaining(c)' <= Remaining(c)
<1>0. ASSUME pc'[c] = pc[c], phase'[c] = phase[c] PROVE Remaining(c)' <= Remaining(c)
  BY <1>0, RemainingSame, RemainingType
<1>1. ASSUME NEW d \in Clients, UserStep(d) PROVE Remaining(c)' <= Remaining(c)
  <2>1. phase' = phase
    BY <1>1 DEF UserStep, LoginPage, LogoutPage, Masterlist, NewEntry, UpdateForm, DeleteSelected,
                OpenWrite, EditSelected, LoadManual, OpenEdit, logVars
  <2>2. ASSUME NEW s, NEW j, Open(d, s, j) PROVE pc'[c] = pc[c]
    BY <2>2 DEF Open, RequestInv
  <2>3. pc'[c] = pc[c]
    BY <1>1, <2>2 DEF UserStep, LoginPage, LogoutPage, Masterlist, NewEntry, UpdateForm,
                      DeleteSelected, OpenWrite, EditSelected, LoadManual, OpenEdit
  <2> QED
    BY <2>1, <2>3, <1>0
<1>2. ASSUME NEW d \in Clients, d # c, HandlerStep(d) PROVE Remaining(c)' <= Remaining(c)
  <2>1. pc'[c] = pc[c]
    BY <1>2 DEF HandlerStep, ExecInsert, ExecUpdate, UpdateFails, ExecDelete, Changed, GiveUp,
                WriteNote, NoteLost, Trim, TrimFails, AfterLog, LoadNext, Close, RequestInv
  <2>2. phase'[c] = phase[c]
    BY <1>2 DEF HandlerStep, ExecInsert, ExecUpdate, UpdateFails, ExecDelete, Changed, BeginLog,
                GiveUp, WriteNote, InsertLog, NoteLost, InsertLost, Trim, TrimLog, TrimKeeping,
                TrimFails, TrimLost, LoadNext, logVars, RequestInv
  <2> QED
    BY <2>1, <2>2, <1>0
<1>3. ASSUME NEW d \in Clients, NEW killed \in BOOLEAN, LoseAnswer(d, killed) PROVE Remaining(c)' <= Remaining(c)
  <2>1. CASE d = c
    <3>1. pc[c] = "change"
      BY <1>3, <2>1 DEF LoseAnswer
    <3>2. pc'[c] = "idle" \/ (pc'[c] = "log" /\ phase'[c] = "insert")
      BY <1>3, <2>1 DEF LoseAnswer, BeginLog, RequestInv
    <3> QED
      BY <3>1, <3>2 DEF Remaining
  <2>2. CASE d # c
    <3>1. pc'[c] = pc[c] /\ phase'[c] = phase[c]
      BY <1>3, <2>2 DEF LoseAnswer, BeginLog, logVars, RequestInv
    <3> QED
      BY <3>1, <1>0
  <2> QED
    BY <2>1, <2>2
<1>4. ASSUME (\E d \in Clients : LoseConnection(d)) \/ KillServer \/ StartServer \/ SecondPasses
      PROVE  Remaining(c)' <= Remaining(c)
  BY <1>4, <1>0 DEF LoseConnection, KillServer, StartServer, SecondPasses, Tick, logVars
<1>5. ASSUME UNCHANGED vars PROVE Remaining(c)' <= Remaining(c)
  BY <1>5, <1>0 DEF vars, logVars
<1> QED
  BY <1>1, <1>2, <1>3, <1>4, <1>5 DEF Next

\* The safety half of RequestsEnd: a request has at most four statements to go and
\* every step of its handler is one less, whatever fails, whoever deadlocks and
\* whenever the server dies (new_entry.php:47-53, edit_asset.php:28-67,
\* delete_selected.php:24-31).
THEOREM SystemStepsRunOut == Spec => StepsRunOut
<1> DEFINE Progress(c) == pc[c] # "idle" =>
             /\ Remaining(c)' <= Remaining(c)
             /\ HandlerStep(c) => Remaining(c)' < Remaining(c)
<1>1. ASSUME RequestInv, RequestInv', [Next]_vars, NEW c \in Clients PROVE Progress(c)
  <2>1. Remaining(c) \in 0..4
    BY <1>1, RemainingType
  <2>2. Remaining(c)' \in 0..4
    <3>1. pc'[c] \in {"idle", "change", "log", "load"} /\ phase'[c] \in {"idle", "insert", "trim"}
      BY <1>1 DEF RequestInv
    <3> QED
      BY <3>1 DEF Remaining
  <2>3. CASE HandlerStep(c)
    <3>1. Remaining(c)' < Remaining(c)
      BY <1>1, <2>3, HandlerStepProgress
    <3> QED
      BY <2>1, <2>2, <3>1
  <2>4. CASE ~HandlerStep(c)
    BY <1>1, <2>4, OthersKeepProgress
  <2> QED
    BY <2>3, <2>4
<1>2. RequestInv /\ RequestInv' /\ [Next]_vars => [\A c \in Clients : Progress(c)]_vars
  BY <1>1
<1> QED
  BY <1>2, RequestInvariant, PTL DEF Spec, StepsRunOut

-----------------------------------------------------------------------------
\* The requests that have a note to write.
Owing == {c \in Clients : pc[c] = "change" \/ phase[c] = "insert"}

\* There is a row of the bounded log for each of them.
RoomInv == nextLogId + Cardinality(Owing) <= MaxLogId + 1

\* What the bound on log rows must not do: hold up a request in flight, at its
\* change (BeginLog) or at its note (InsertLog).
RoomForNotes ==
  \A c \in Clients :
    /\ pc[c] = "change" =>
         nextLogId + Cardinality({d \in Clients : phase[d] = "insert"}) <= MaxLogId
    /\ phase[c] = "insert" => nextLogId \in LogId

\* A set of clients has a number of members.
LEMMA ClientsFinite ==
  ASSUME NEW S \in SUBSET Clients
  PROVE  IsFiniteSet(S) /\ Cardinality(S) \in Nat
<1>1. IsFiniteSet(S)
  BY ParameterAssumption, FS_Subset
<1> QED
  BY <1>1, FS_CardinalityType

\* While no note is written and no request begins to owe one, there is room.
LEMMA RoomStays ==
  ASSUME RoomInv, LogInv, nextLogId' = nextLogId, Owing' \subseteq Owing
  PROVE  RoomInv'
<1>1. IsFiniteSet(Owing) /\ Cardinality(Owing) \in Nat /\ Cardinality(Owing') \in Nat
  BY ClientsFinite DEF Owing
<1>2. Cardinality(Owing') <= Cardinality(Owing)
  <2>1. Owing' \in SUBSET Owing
    OBVIOUS
  <2> QED
    BY <1>1, <2>1, FS_Subset
<1>3. nextLogId \in Nat /\ MaxLogId \in Nat
  BY LogAssumption DEF LogInv, LogTypeOK
<1> QED
  BY <1>1, <1>2, <1>3 DEF RoomInv

\* Every step of the system keeps room for the notes that are owed.
LEMMA RoomInvStep == RequestInv /\ LogInv /\ RoomInv /\ [Next]_vars => RoomInv'
<1> SUFFICES ASSUME RequestInv, LogInv, RoomInv, [Next]_vars
             PROVE  RoomInv'
  OBVIOUS
<1>0. ASSUME UNCHANGED <<nextLogId, pc, phase>> PROVE RoomInv'
  BY <1>0, RoomStays DEF Owing
<1>1. ASSUME NEW c \in Clients, UserStep(c) PROVE RoomInv'
  <2>0. UNCHANGED <<nextLogId, phase>>
    BY <1>1 DEF UserStep, LoginPage, LogoutPage, Masterlist, NewEntry, UpdateForm, DeleteSelected,
                OpenWrite, EditSelected, LoadManual, OpenEdit, logVars
  <2>1. ASSUME NEW j, OpenWrite(c, j) PROVE RoomInv'
    <3>1. pc' = [pc EXCEPT ![c] = "change"] /\ nextLogId + Cardinality(InFlight) <= MaxLogId
      BY <2>1 DEF OpenWrite, Open
    <3>2. Owing' \in SUBSET (InFlight \cup {c})
      BY <2>0, <3>1 DEF Owing, InFlight, RequestInv
    <3>3. IsFiniteSet(InFlight) /\ Cardinality(InFlight) \in Nat
      BY ClientsFinite DEF InFlight
    <3>4. /\ IsFiniteSet(InFlight \cup {c})
          /\ Cardinality(InFlight \cup {c}) <= Cardinality(InFlight) + 1
      BY <3>3, FS_AddElement
    <3>5. Cardinality(Owing') <= Cardinality(InFlight) + 1
      BY <3>2, <3>3, <3>4, SubsetBound
    <3>6. Cardinality(Owing') \in Nat
      BY ClientsFinite DEF Owing
    <3>7. nextLogId \in Nat /\ MaxLogId \in Nat
      BY LogAssumption DEF LogInv, LogTypeOK
    <3> QED
      BY <2>0, <3>1, <3>3, <3>5, <3>6, <3>7 DEF RoomInv
  <2>2. ASSUME NEW j, Open(c, "load", j) PROVE RoomInv'
    <3>1. Owing' \subseteq Owing
      BY <2>0, <2>2 DEF Open, Owing, RequestInv
    <3> QED
      BY <2>0, <3>1, RoomStays
  <2>3. ASSUME \/ \E name \in Names, password \in Passwords : LoginPage(c, name, password)
               \/ LogoutPage(c) \/ Masterlist(c)
        PROVE  RoomInv'
    BY <2>0, <2>3, <1>0 DEF LoginPage, LogoutPage, Masterlist
  <2> QED
    BY <1>1, <2>1, <2>2, <2>3 DEF UserStep, NewEntry, UpdateForm, DeleteSelected, EditSelected,
                                  LoadManual, OpenEdit
<1>2. ASSUME NEW c \in Clients, HandlerStep(c) PROVE RoomInv'
  <2>1. ASSUME ExecInsert(c) \/ ExecUpdate(c) \/ UpdateFails(c) \/ ExecDelete(c) PROVE RoomInv'
    <3>1. /\ pc[c] = "change" /\ pc' = [pc EXCEPT ![c] = "log"] /\ nextLogId' = nextLogId
          /\ phase' = [phase EXCEPT ![c] = "insert"]
      BY <2>1 DEF ExecInsert, ExecUpdate, UpdateFails, ExecDelete, Changed, BeginLog
    <3>2. Owing' \subseteq Owing
      BY <3>1 DEF Owing, RequestInv
    <3> QED
      BY <3>1, <3>2, RoomStays
  <2>2. ASSUME GiveUp(c) \/ LoadNext(c) PROVE RoomInv'
    <3>1. Close(c) /\ UNCHANGED <<nextLogId, phase>>
      BY <2>2 DEF GiveUp, LoadNext, logVars
    <3>2. Owing' \subseteq Owing
      BY <3>1 DEF Close, Owing, RequestInv
    <3> QED
      BY <3>1, <3>2, RoomStays
  <2>3. ASSUME WriteNote(c) PROVE RoomInv'
    <3>1. /\ phase[c] = "insert" /\ phase' = [phase EXCEPT ![c] = "trim"]
          /\ nextLogId' = nextLogId + 1 /\ pc' = pc
      BY <2>3 DEF WriteNote, InsertLog
    <3>2. c \in Owing /\ Owing' = Owing \ {c}
      BY <3>1 DEF Owing, RequestInv
    <3>3. IsFiniteSet(Owing) /\ Cardinality(Owing) \in Nat
      BY ClientsFinite DEF Owing
    <3>4. Cardinality(Owing') = Cardinality(Owing) - 1
      BY <3>2, <3>3, FS_RemoveElement
    <3>5. nextLogId \in Nat /\ MaxLogId \in Nat
      BY LogAssumption DEF LogInv, LogTypeOK
    <3> QED
      BY <3>1, <3>3, <3>4, <3>5 DEF RoomInv
  <2>4. ASSUME NoteLost(c) \/ Trim(c) \/ TrimFails(c) PROVE RoomInv'
    <3>1. AfterLog(c) /\ phase' = [phase EXCEPT ![c] = "idle"] /\ nextLogId' = nextLogId
      BY <2>4 DEF NoteLost, Trim, TrimFails, InsertLost, TrimLog, TrimKeeping, TrimLost
    <3>2. pc'[c] \in {"idle", "load"} /\ \A d \in Clients \ {c} : pc'[d] = pc[d]
      BY <3>1 DEF AfterLog, Close, RequestInv
    <3>3. Owing' \subseteq Owing
      BY <3>1, <3>2 DEF Owing, RequestInv
    <3> QED
      BY <3>1, <3>3, RoomStays
  <2> QED
    BY <1>2, <2>1, <2>2, <2>3, <2>4 DEF HandlerStep
<1>3. ASSUME NEW c \in Clients, NEW killed \in BOOLEAN, LoseAnswer(c, killed) PROVE RoomInv'
  <2>1. nextLogId' = nextLogId
    BY <1>3 DEF LoseAnswer, BeginLog, logVars
  <2>2. Owing' \subseteq Owing
    BY <1>3 DEF LoseAnswer, BeginLog, logVars, Owing, RequestInv
  <2> QED
    BY <2>1, <2>2, RoomStays
<1>4. ASSUME (\E d \in Clients : LoseConnection(d)) \/ KillServer \/ StartServer \/ SecondPasses
      PROVE  RoomInv'
  BY <1>4, <1>0 DEF LoseConnection, KillServer, StartServer, SecondPasses, Tick, logVars
<1>5. ASSUME UNCHANGED vars PROVE RoomInv'
  BY <1>5, <1>0 DEF vars, logVars
<1> QED
  BY <1>1, <1>2, <1>3, <1>4, <1>5 DEF Next

\* The bound MaxLogId stops no request in flight, whatever its value: neither
\* between a change of assets and its note (new_entry.php:47-51) nor at the note.
\* So no property holds of the model only because the bound cuts requests short.
THEOREM BoundStopsNoRequest == Spec => []RoomForNotes
<1>1. ASSUME Init PROVE RoomInv
  <2>1. Owing = {} /\ nextLogId = 1
    BY <1>1 DEF Init, LogInit, Owing
  <2> QED
    BY <2>1, FS_EmptySet, LogAssumption DEF RoomInv
<1>2. ASSUME RequestInv, LogInv, RoomInv PROVE RoomForNotes
  <2>0. /\ nextLogId \in Nat \ {0} /\ MaxLogId \in Nat
        /\ IsFiniteSet(Owing) /\ Cardinality(Owing) \in Nat
    BY <1>2, LogAssumption, ClientsFinite DEF LogInv, LogTypeOK, Owing
  <2>1. ASSUME NEW c \in Clients, pc[c] = "change"
        PROVE  nextLogId + Cardinality({d \in Clients : phase[d] = "insert"}) <= MaxLogId
    <3> DEFINE inserting == {d \in Clients : phase[d] = "insert"}
    <3>1. c \in Owing /\ inserting \in SUBSET (Owing \ {c})
      BY <1>2, <2>1 DEF Owing, RequestInv
    <3>2. IsFiniteSet(Owing \ {c}) /\ Cardinality(Owing \ {c}) = Cardinality(Owing) - 1
      BY <2>0, <3>1, FS_RemoveElement
    <3>3. Cardinality(inserting) \in Nat
      BY ClientsFinite
    <3>4. Cardinality(inserting) <= Cardinality(Owing) - 1
      BY <3>1, <3>2, FS_Subset
    <3> QED
      BY <1>2, <2>0, <3>3, <3>4 DEF RoomInv
  <2>2. ASSUME NEW c \in Clients, phase[c] = "insert" PROVE nextLogId \in LogId
    <3>1. Cardinality(Owing) # 0
      BY <2>0, <2>2, FS_EmptySet DEF Owing
    <3> QED
      BY <1>2, <2>0, <3>1 DEF RoomInv, LogId
  <2> QED
    BY <2>1, <2>2 DEF RoomForNotes
<1>3. Spec => []LogInv
  BY ImplementsComponents, LogInvariant, PTL
<1> QED
  BY <1>1, <1>2, <1>3, RequestInvariant, RoomInvStep, PTL DEF Spec

\* After its note, what the handler of c needs to go on: edit_asset.php has a user
\* and an asset to take off the queue.
CanFinish(c) == job[c].kind = "edit" => user[c] # NoUser /\ NamesOne(job[c])

\* What the next statement of c needs of the state: ExecInsert, ExecUpdate and
\* ExecDelete a place in the log protocol; WriteNote an id for its row; Trim rows
\* to keep; NoteLost, Trim and TrimFails what comes after the log.  GiveUp after a
\* lost connection and LoadNext need nothing.
StatementPossible(c) ==
  /\ pc[c] = "change" =>
       /\ phase[c] = "idle" /\ job[c].kind \in Writing
       /\ nextLogId + Cardinality({d \in Clients : phase[d] = "insert"}) <= MaxLogId
  /\ phase[c] = "insert" => nextLogId \in LogId /\ CanFinish(c)
  /\ phase[c] = "trim" => TrimPossible /\ CanFinish(c)

\* No request is ever stuck: whatever the others do and whenever the server dies,
\* the state has what its next statement needs.  With StepsRunOut this is what
\* RequestsEnd rests on, for every number of clients and every bound
\* (new_entry.php:47-53, edit_asset.php:28-67, delete_selected.php:24-31).
THEOREM NoRequestIsStuck == Spec => [](\A c \in Clients : StatementPossible(c))
<1>1. ASSUME RequestInv, RealInv, RoomForNotes, TrimPossible
      PROVE  \A c \in Clients : StatementPossible(c)
  <2> SUFFICES ASSUME NEW c \in Clients PROVE StatementPossible(c)
    OBVIOUS
  <2>1. phase[c] # "idle" => CanFinish(c)
    BY <1>1, SessionAssumption DEF RequestInv, RealInv, CanFinish
  <2> QED
    BY <1>1, <2>1 DEF RequestInv, RoomForNotes, StatementPossible
<1>2. Spec => []TrimPossible
  BY ImplementsComponents, SelectsHaveResults, PTL
<1> QED
  BY <1>1, <1>2, RequestInvariant, RealInvariant, BoundStopsNoRequest, PTL
-----------------------------------------------------------------------------
(***************************************************************************)
(* What holds in place of ManualIdLoads, which a deletion by another       *)
(* client violates.                                                        *)
(***************************************************************************)

\* Nobody deletes assets.
NoDeletes == \A c \in Clients : "delete" \notin Duties[c]

\* A batch is never interrupted: with a queue and a connection, edit_asset.php
\* shows the form of the head of the queue (edit_asset.php:56-67).
BatchLoads ==
  [][\A c \in Clients : LoadNext(c) /\ connected[c] /\ editQueue[c] # <<>> =>
       Head(editQueue[c]) \in forms'[c]]_vars

\* Every masterlist page and every queue is about assets that are still there.
StandingInv ==
  \A c \in Clients :
    /\ pc[c] # "idle" => job[c].kind # "delete"
    /\ listed[c] \cup ToSet(editQueue[c]) \subseteq LiveAssets

\* Without deletions a step of the system removes no asset.
LEMMA AssetsStay ==
  ASSUME RequestInv, AssetInv, StandingInv, [Next]_vars
  PROVE  LiveAssets \subseteq LiveAssets'
<1>1. ASSUME UNCHANGED assets PROVE LiveAssets \subseteq LiveAssets'
  BY <1>1 DEF LiveAssets
<1>2. ASSUME NEW row \in Rows, InsertAsset(row) PROVE LiveAssets \subseteq LiveAssets'
  BY <1>2, AssetAssumption DEF InsertAsset, LiveAssets, AssetInv, AssetTypeOK
<1>3. ASSUME NEW id, NEW row \in Rows, UpdateAsset(id, row) PROVE LiveAssets \subseteq LiveAssets'
  BY <1>3, AssetAssumption DEF UpdateAsset, LiveAssets
<1>4. ASSUME NEW c \in Clients, pc[c] = "change"
      PROVE  job[c].kind # "delete" /\ job[c].row \in Rows
  BY <1>4 DEF RequestInv, StandingInv
<1>5. ASSUME NEW c \in Clients, ExecInsert(c) \/ ExecUpdate(c) \/ ExecDelete(c)
               \/ \E killed \in BOOLEAN : LoseAnswer(c, killed)
      PROVE  LiveAssets \subseteq LiveAssets'
  BY <1>2, <1>3, <1>4, <1>5 DEF ExecInsert, ExecUpdate, ExecDelete, LoseAnswer
<1>6. ASSUME NEW c \in Clients, UserStep(c) PROVE UNCHANGED assets
  BY <1>6 DEF UserStep, LoginPage, LogoutPage, Masterlist, NewEntry, UpdateForm, DeleteSelected,
              OpenWrite, EditSelected, LoadManual, OpenEdit, assetVars
<1>7. ASSUME NEW c \in Clients, HandlerStep(c), ~(ExecInsert(c) \/ ExecUpdate(c) \/ ExecDelete(c))
      PROVE  UNCHANGED assets
  BY <1>7 DEF HandlerStep, UpdateFails, GiveUp, LoadNext, WriteNote, NoteLost, Trim, TrimFails, assetVars
<1>8. ASSUME (\E d \in Clients : LoseConnection(d)) \/ KillServer \/ StartServer \/ SecondPasses
               \/ UNCHANGED vars
      PROVE  UNCHANGED assets
  BY <1>8 DEF LoseConnection, KillServer, StartServer, SecondPasses, vars, assetVars
<1> QED
  BY <1>1, <1>5, <1>6, <1>7, <1>8 DEF Next

\* A masterlist page is what it was, or the assets there are.
LEMMA PagesFromTable ==
  ASSUME DeletionInv, [Next]_vars, NEW c \in Clients
  PROVE  listed'[c] = listed[c] \/ listed'[c] = LiveAssets
<1>1. CASE \E d \in Clients : Masterlist(d)
  BY <1>1 DEF Masterlist, DeletionInv
<1>2. ASSUME NEW d \in Clients, UserStep(d), ~Masterlist(d) PROVE UNCHANGED listed
  BY <1>2 DEF UserStep, LoginPage, LogoutPage, NewEntry, UpdateForm, DeleteSelected,
              OpenWrite, EditSelected, LoadManual, OpenEdit
<1>3. ASSUME NEW d \in Clients, HandlerStep(d) PROVE UNCHANGED listed
  BY <1>3 DEF HandlerStep, ExecInsert, ExecUpdate, UpdateFails, ExecDelete, Changed, GiveUp,
              LoadNext, WriteNote, NoteLost, Trim, TrimFails
<1>4. ASSUME (\E d \in Clients : LoseConnection(d) \/ \E killed \in BOOLEAN : LoseAnswer(d, killed))
               \/ KillServer \/ StartServer \/ SecondPasses \/ UNCHANGED vars
      PROVE  UNCHANGED listed
  BY <1>4 DEF LoseAnswer, LoseConnection, KillServer, StartServer, SecondPasses, vars
<1> QED
  BY <1>1, <1>2, <1>3, <1>4 DEF Next

\* A queue only shrinks, until a batch is selected on a masterlist page.
LEMMA QueuesFromPages ==
  ASSUME RequestInv, SessionInv, [Next]_vars, NEW c \in Clients
  PROVE  ToSet(editQueue'[c]) \subseteq ToSet(editQueue[c]) \cup listed[c]
<1>0. editQueue \in [Clients -> Seq(AssetId)] /\ \A d \in Clients : Increasing(editQueue[d])
  BY DEF SessionInv, SessionTypeOK, QueueSorted, Increasing
<1>1. ASSUME NEW d \in Clients, NEW queue, EditSelected(d, queue)
      PROVE  ToSet(editQueue'[c]) \subseteq ToSet(editQueue[c]) \cup listed[c]
  BY <1>0, <1>1 DEF EditSelected, SelectBatch
<1>2. ASSUME NEW d \in Clients, LogoutPage(d)
      PROVE  ToSet(editQueue'[c]) \subseteq ToSet(editQueue[c]) \cup listed[c]
  BY <1>0, <1>2 DEF LogoutPage, Logout, ToSet
<1>3. ASSUME NEW d \in Clients, NoteLost(d) \/ Trim(d) \/ TrimFails(d)
      PROVE  ToSet(editQueue'[c]) \subseteq ToSet(editQueue[c]) \cup listed[c]
  <2>1. AfterLog(d)
    BY <1>3 DEF NoteLost, Trim, TrimFails
  <2>2. ASSUME NEW id \in job[d].ids, Advance(d, id)
        PROVE  ToSet(editQueue'[c]) \subseteq ToSet(editQueue[c])
    <3>1. id \in AssetId
      BY DEF RequestInv, Job
    <3>2. editQueue'[c] = editQueue[c] \/ (d = c /\ editQueue'[c] = AfterUpdate(id, editQueue[c]))
      BY <1>0, <2>2 DEF Advance
    <3>3. ToSet(AfterUpdate(id, editQueue[c])) = ToSet(editQueue[c]) \ {id}
      BY <1>0, <3>1, AfterUpdateRemoves
    <3> QED
      BY <3>2, <3>3
  <2> QED
    BY <2>1, <2>2 DEF AfterLog, sessionVars
<1>4. ASSUME NEW d \in Clients, UserStep(d), ~LogoutPage(d),
             ~(\E queue \in Selections : EditSelected(d, queue))
      PROVE  UNCHANGED editQueue
  BY <1>4 DEF UserStep, LoginPage, Login, Masterlist, NewEntry, UpdateForm, DeleteSelected,
              OpenWrite, LoadManual, OpenEdit, sessionVars
<1>5. ASSUME NEW d \in Clients, HandlerStep(d), ~(NoteLost(d) \/ Trim(d) \/ TrimFails(d))
      PROVE  UNCHANGED editQueue
  BY <1>5 DEF HandlerStep, ExecInsert, ExecUpdate, UpdateFails, ExecDelete, Changed, GiveUp,
              LoadNext, WriteNote, sessionVars
<1>6. ASSUME (\E d \in Clients : LoseConnection(d) \/ \E killed \in BOOLEAN : LoseAnswer(d, killed))
               \/ KillServer \/ StartServer \/ SecondPasses \/ UNCHANGED vars
      PROVE  UNCHANGED editQueue
  BY <1>6 DEF LoseAnswer, LoseConnection, KillServer, StartServer, SecondPasses, vars, sessionVars
<1> QED
  BY <1>1, <1>2, <1>3, <1>4, <1>5, <1>6 DEF Next, UserStep, HandlerStep

\* Without the duty to delete nobody has a request to delete.
LEMMA NoDeleteRequests ==
  ASSUME NoDeletes, RequestInv, StandingInv, [Next]_vars, NEW c \in Clients, pc'[c] # "idle"
  PROVE  job'[c].kind # "delete"
<1>0. ASSUME pc'[c] = pc[c], job'[c] = job[c] PROVE job'[c].kind # "delete"
  BY <1>0 DEF StandingInv
<1>a. ASSUME pc[c] # "idle", job'[c].kind = job[c].kind PROVE job'[c].kind # "delete"
  BY <1>a DEF StandingInv
<1>1. ASSUME NEW d \in Clients, UserStep(d) PROVE job'[c].kind # "delete"
  <2>1. ASSUME NEW s, NEW j, Open(d, s, j) PROVE job'[c].kind # "delete"
    <3>1. CASE c = d
      BY <2>1, <3>1 DEF Open, NoDeletes, RequestInv
    <3>2. CASE c # d
      BY <2>1, <3>2, <1>0 DEF Open, RequestInv
    <3> QED
      BY <3>1, <3>2
  <2>2. ASSUME UNCHANGED <<pc, job>> PROVE job'[c].kind # "delete"
    BY <2>2, <1>0
  <2> QED
    BY <1>1, <2>1, <2>2 DEF UserStep, LoginPage, LogoutPage, Masterlist, NewEntry, UpdateForm,
                            DeleteSelected, OpenWrite, EditSelected, LoadManual, OpenEdit
<1>2. ASSUME NEW d \in Clients, HandlerStep(d) PROVE job'[c].kind # "delete"
  <2>1. CASE c # d
    BY <1>2, <2>1, <1>0 DEF HandlerStep, ExecInsert, ExecUpdate, UpdateFails, ExecDelete, Changed,
                            GiveUp, LoadNext, WriteNote, NoteLost, Trim, TrimFails, AfterLog, Close,
                            RequestInv
  <2>2. CASE c = d
    <3>1. pc[c] # "idle"
      BY <1>2, <2>2 DEF HandlerStep, ExecInsert, ExecUpdate, UpdateFails, ExecDelete, GiveUp,
                        LoadNext, WriteNote, NoteLost, Trim, TrimFails, InsertLog, InsertLost,
                        TrimLog, TrimKeeping, TrimLost, RequestInv
    <3>2. ASSUME ExecInsert(c) PROVE job'[c].kind = job[c].kind
      <4>1. job' = [job EXCEPT ![c] = [job[c] EXCEPT !.ids = {nextAssetId}]] /\ job[c] \in Job
        BY <3>2 DEF ExecInsert, Changed, RequestInv
      <4> QED
        BY <4>1 DEF Job, RequestInv
    <3>3. ASSUME ExecUpdate(c) \/ UpdateFails(c) \/ ExecDelete(c) \/ WriteNote(c)
          PROVE  job'[c] = job[c]
      BY <3>3 DEF ExecUpdate, UpdateFails, ExecDelete, Changed, WriteNote, RequestInv
    <3>4. ASSUME NoteLost(c) \/ Trim(c) \/ TrimFails(c) PROVE job'[c] = job[c]
      BY <3>4 DEF NoteLost, Trim, TrimFails, AfterLog, Close, RequestInv
    <3>5. ASSUME GiveUp(c) \/ LoadNext(c) PROVE FALSE
      BY <3>5 DEF GiveUp, LoadNext, Close, RequestInv
    <3> QED
      BY <1>2, <2>2, <3>1, <3>2, <3>3, <3>4, <3>5, <1>a DEF HandlerStep
  <2> QED
    BY <2>1, <2>2
<1>3. ASSUME NEW d \in Clients, NEW killed \in BOOLEAN, LoseAnswer(d, killed) PROVE job'[c].kind # "delete"
  <2>1. pc[d] = "change" /\ (pc'[c] = pc[c] \/ c = d) /\ job'[c] = job[c]
    BY <1>3 DEF LoseAnswer, RequestInv
  <2> QED
    BY <2>1, <1>0, <1>a
<1>4. ASSUME (\E d \in Clients : LoseConnection(d)) \/ KillServer \/ StartServer \/ SecondPasses \/ UNCHANGED vars
      PROVE  job'[c].kind # "delete"
  BY <1>4, <1>0 DEF LoseConnection, KillServer, StartServer, SecondPasses, vars
<1> QED
  BY <1>1, <1>2, <1>3, <1>4 DEF Next

\* What pages and queues name stays there.
LEMMA StandingInvariant == ASSUME NoDeletes PROVE Spec => []StandingInv
<1>1. Init => StandingInv
  BY DEF Init, SessionInit, StandingInv, ToSet
<1>2. ASSUME RequestInv, AssetInv, SessionInv, DeletionInv, StandingInv, [Next]_vars
      PROVE  StandingInv'
  <2>1. ASSUME NEW c \in Clients
        PROVE  listed'[c] \cup ToSet(editQueue'[c]) \subseteq LiveAssets'
    <3>1. listed[c] \cup ToSet(editQueue[c]) \subseteq LiveAssets
      BY <1>2 DEF StandingInv
    <3> QED
      BY <1>2, <3>1, AssetsStay, PagesFromTable, QueuesFromPages
  <2> QED
    BY <1>2, <2>1, NoDeleteRequests DEF StandingInv
<1>3. Spec => [](AssetInv /\ SessionInv)
  BY ImplementsComponents, AssetInvariant, SessionInvInit, SessionInvStep, PTL DEF SessionSpec
<1>4. Spec => []DeletionInv
  BY <1>3, RequestInvariant, DeletionInvInit, DeletionInvStep, PTL DEF Spec
<1> QED
  BY <1>1, <1>2, <1>3, <1>4, RequestInvariant, PTL DEF Spec

\* While nobody deletes assets, an id typed into "Load Asset" is loaded unless the
\* queue comes first, and a batch runs through without the page that asks for an
\* id, whatever the other clients add and edit and whenever the server is killed
\* (edit_asset.php:56-67, 129-132).  The violation of ManualIdLoads needs a deletion.
THEOREM LoadsWithoutDeletes ==
  ASSUME NoDeletes
  PROVE  Spec => ManualIdLoads /\ BatchLoads
<1>0. ASSUME StandingInv, NEW c \in Clients, editQueue[c] # <<>>, editQueue \in [Clients -> Seq(AssetId)]
      PROVE  Head(editQueue[c]) \in LiveAssets
  <2>1. Head(editQueue[c]) \in ToSet(editQueue[c])
    BY <1>0 DEF ToSet
  <2> QED
    BY <1>0, <2>1 DEF StandingInv
<1>1. ASSUME StandingInv, TypeOK
      PROVE  \A c \in Clients :
               /\ pc[c] = "load" /\ pc'[c] = "idle"
               /\ job[c].kind = "manual" /\ connected[c]
               /\ job[c].ids \subseteq LiveAssets
               => \/ job[c].ids \subseteq forms'[c]
                  \/ NextAsset(c) \subseteq LiveAssets
  BY <1>0, <1>1 DEF NextAsset, TypeOK, SessionTypeOK
<1>2. ASSUME StandingInv, TypeOK
      PROVE  \A c \in Clients : LoadNext(c) /\ connected[c] /\ editQueue[c] # <<>> =>
               Head(editQueue[c]) \in forms'[c]
  <2>1. ASSUME NEW c \in Clients, LoadNext(c), connected[c], editQueue[c] # <<>>
        PROVE  Head(editQueue[c]) \in forms'[c]
    <3>1. NextAsset(c) = {Head(editQueue[c])} /\ NextAsset(c) \subseteq LiveAssets
      BY <1>0, <1>2, <2>1 DEF NextAsset, TypeOK, SessionTypeOK
    <3> QED
      BY <1>2, <2>1, <3>1 DEF LoadNext, TypeOK
  <2> QED
    BY <2>1
<1> QED
  BY <1>1, <1>2, StandingInvariant, SystemTypes, PTL DEF ManualIdLoads, BatchLoads
=============================================================================
