---------------------------- MODULE EditSession ----------------------------
(***************************************************************************)
(* The PHP sessions: who is logged in on each client, and the assets that  *)
(* edit_asset.php still has to present to that client.                     *)
(*                                                                         *)
(* edit_queue is a PHP array of ids.  It is unset until the first batch;   *)
(* edit_asset.php treats an unset queue as it treats an empty one, so both *)
(* are the empty sequence.                                                 *)
(***************************************************************************)
EXTENDS Parameters, SequencesExt

CONSTANTS
  Users,       \* the names in the table users, which no page changes
  NoUser,      \* $_SESSION['user'] is not set
  Names,       \* what is typed as a name
  Passwords,   \* what is typed as a password, and what users holds
  TrimName,    \* a name without the spaces around it
  Fold,        \* a name as the collation compares it: letter case, final spaces
  PasswordOf   \* the column password of each row of users

ASSUME SessionAssumption ==
  /\ NoUser \notin Users /\ Users \subseteq Names
  /\ TrimName \in [Names -> Names] /\ Fold \in [Names -> Names]
  /\ PasswordOf \in [Users -> Passwords]

VARIABLES
  user,      \* $_SESSION['user'] of each client
  editQueue, \* $_SESSION['edit_queue'] of each client
  batch,     \* history: the assets selected for the client's current batch
  submitted  \* history: the assets whose form the client submitted since then

sessionVars == <<user, editQueue, batch, submitted>>

\* What the masterlist may send as selected_ids: at least one of its rows, in
\* the order it shows them (ORDER BY id).
Selections ==
  {q \in UNION {[1..n -> AssetId] : n \in AssetId} :
     \A i, j \in DOMAIN q : i < j => q[i] < q[j]}

\* array_search($id, $queue): the key of the first match, or 0 for FALSE (the
\* keys of a PHP array start at 0, those of a sequence at 1).
ArraySearch(id, queue) ==
  IF Contains(queue, id)
  THEN CHOOSE k \in DOMAIN queue : queue[k] = id /\ \A j \in 1..(k - 1) : queue[j] # id
  ELSE 0

\* unset($queue[$key]) and array_values: the later ids move up.
Unset(queue, key) ==
  [k \in 1..(Len(queue) - 1) |-> IF k < key THEN queue[k] ELSE queue[k + 1]]

\* Mutant of AfterUpdate: array_shift, whichever asset was updated.
ShiftQueue(id, queue) == IF queue = <<>> THEN queue ELSE Tail(queue)

\* The queue after an update of asset id.
AfterUpdate(id, queue) ==
  IF ArraySearch(id, queue) # 0 THEN Unset(queue, ArraySearch(id, queue)) ELSE queue

\* login.php finds one row for the name, u, and its password is the one typed.
Accepts(name, password, u) ==
  /\ {v \in Users : Fold[v] = Fold[TrimName[name]]} = {u}
  /\ PasswordOf[u] = password

-----------------------------------------------------------------------------
SessionInit ==
  /\ user = [c \in Clients |-> NoUser]
  /\ editQueue = [c \in Clients |-> <<>>]
  /\ batch = [c \in Clients |-> {}]
  /\ submitted = [c \in Clients |-> {}]

\* The session takes the name from the row of users, whose letter case may not
\* be the one typed.  The rest of the session is kept.
Login(c, u) ==
  /\ user' = [user EXCEPT ![c] = u]
  /\ UNCHANGED <<editQueue, batch, submitted>>

\* session_destroy: the queue goes with the user.
Logout(c) ==
  /\ user' = [user EXCEPT ![c] = NoUser]
  /\ editQueue' = [editQueue EXCEPT ![c] = <<>>]
  /\ batch' = [batch EXCEPT ![c] = {}]
  /\ submitted' = [submitted EXCEPT ![c] = {}]

\* "Edit Selected" on the masterlist: a new batch replaces the queue.
SelectBatch(c, queue) ==
  /\ user[c] # NoUser
  /\ editQueue' = [editQueue EXCEPT ![c] = queue]
  /\ batch' = [batch EXCEPT ![c] = ToSet(queue)]
  /\ submitted' = [submitted EXCEPT ![c] = {}]
  /\ UNCHANGED user

\* "Update & Continue": the asset leaves the queue, if it was in it.
Advance(c, id) ==
  /\ user[c] # NoUser
  /\ editQueue' = [editQueue EXCEPT ![c] = AfterUpdate(id, @)]
  /\ submitted' = [submitted EXCEPT ![c] = @ \cup {id}]
  /\ UNCHANGED <<user, batch>>

SessionNext ==
  \E c \in Clients :
    \/ \E u \in Users : Login(c, u)
    \/ Logout(c)
    \/ \E queue \in Selections : SelectBatch(c, queue)
    \/ \E id \in AssetId : Advance(c, id)

SessionSpec == SessionInit /\ [][SessionNext]_sessionVars
-----------------------------------------------------------------------------
\* The types of the session's variables.
SessionTypeOK ==
  /\ user \in [Clients -> Users \cup {NoUser}]
  /\ editQueue \in [Clients -> Seq(AssetId)]
  /\ batch \in [Clients -> SUBSET AssetId]
  /\ submitted \in [Clients -> SUBSET AssetId]

\* The queue is a list without repetitions, in the order of the masterlist.
QueueSorted ==
  \A c \in Clients : \A i, j \in DOMAIN editQueue[c] :
    i < j => editQueue[c][i] < editQueue[c][j]

\* The queue is exactly what is left of the batch: every asset of the batch
\* whose form was not submitted yet and no other, in whatever order forms are
\* sent, sent again (Reload, Back, a double click) or mixed with forms of assets
\* outside the batch (edit_asset.php:48-53).  An asset leaves the queue when its
\* form is submitted, whether or not the UPDATE had an effect.
BatchAccounting ==
  \A c \in Clients : ToSet(editQueue[c]) = batch[c] \ submitted[c]

\* The inductive invariant of the sessions: that the queue has no repetitions
\* is what makes removing the first match enough.
SessionInv == SessionTypeOK /\ QueueSorted /\ BatchAccounting
=============================================================================
