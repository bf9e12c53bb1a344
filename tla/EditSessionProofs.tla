------------------------- MODULE EditSessionProofs -------------------------
(***************************************************************************)
(* Proofs about EditSession, for any clients, users and assets.            *)
(***************************************************************************)
EXTENDS EditSession, SequenceTheorems, TLAPS

\* The ids increase along the queue.
Increasing(q) == \A i, j \in DOMAIN q : i < j => q[i] < q[j]

\* array_search finds the key of an id that is there, and FALSE otherwise.
LEMMA ArraySearchFinds ==
  ASSUME NEW q \in Seq(AssetId), Increasing(q), NEW id \in AssetId
  PROVE  \/ ArraySearch(id, q) \in DOMAIN q /\ q[ArraySearch(id, q)] = id
         \/ ArraySearch(id, q) = 0 /\ id \notin ToSet(q)
<1> DEFINE Found(k) == q[k] = id /\ \A j \in 1..(k - 1) : q[j] # id
<1>1. CASE Contains(q, id)
  <2>1. PICK k \in 1..Len(q) : q[k] = id
    BY <1>1 DEF Contains
  <2>2. \A j \in 1..(k - 1) : q[j] # id
    <3> SUFFICES ASSUME NEW j \in 1..(k - 1) PROVE q[j] # id
      OBVIOUS
    <3>1. j \in DOMAIN q /\ k \in DOMAIN q /\ j < k
      BY <2>1
    <3>2. q[j] < q[k]
      BY <3>1 DEF Increasing
    <3>3. q[j] \in AssetId
      BY <3>1
    <3> QED
      BY <2>1, <3>2, <3>3, ParameterAssumption DEF AssetId
  <2>3. k \in DOMAIN q /\ Found(k)
    BY <2>1, <2>2
  <2>4. ArraySearch(id, q) = CHOOSE m \in DOMAIN q : Found(m)
    BY <1>1 DEF ArraySearch
  <2> HIDE DEF Found
  <2>5. ArraySearch(id, q) \in DOMAIN q /\ Found(ArraySearch(id, q))
    BY <2>3, <2>4
  <2> QED
    BY <2>5 DEF Found
<1>2. CASE ~Contains(q, id)
  <2>1. ArraySearch(id, q) = 0
    BY <1>2 DEF ArraySearch
  <2>2. id \notin ToSet(q)
    BY <1>2 DEF Contains, ToSet
  <2> QED
    BY <2>1, <2>2
<1> QED
  BY <1>1, <1>2

\* Removing a key from an increasing queue removes its id and nothing else.
LEMMA UnsetRemoves ==
  ASSUME NEW q \in Seq(AssetId), Increasing(q), NEW k \in DOMAIN q
  PROVE  /\ Unset(q, k) \in Seq(AssetId)
         /\ Increasing(Unset(q, k))
         /\ ToSet(Unset(q, k)) = ToSet(q) \ {q[k]}
<1> DEFINE r == Unset(q, k)
           n == Len(q)
<1>1. n \in Nat /\ k \in 1..n /\ DOMAIN q = 1..n /\ \A i \in 1..n : q[i] \in AssetId
  OBVIOUS
<1>2. r \in [1..(n - 1) -> AssetId]
  BY <1>1 DEF Unset
<1>3. r \in Seq(AssetId) /\ DOMAIN r = 1..(n - 1)
  <2>1. n - 1 \in Nat
    BY <1>1
  <2> HIDE DEF r
  <2> QED
    BY <1>2, <2>1, IsASeq
<1>4. \A i \in 1..(n - 1) : r[i] = IF i < k THEN q[i] ELSE q[i + 1]
  BY DEF Unset
<1>5. \A i \in 1..n : q[i] \in Nat
  BY <1>1 DEF AssetId
<1> HIDE DEF r, n
<1>6. Increasing(r)
  <2> SUFFICES ASSUME NEW i \in 1..(n - 1), NEW j \in 1..(n - 1), i < j
               PROVE  r[i] < r[j]
    BY <1>3 DEF Increasing
  <2> DEFINE a == IF i < k THEN i ELSE i + 1
             b == IF j < k THEN j ELSE j + 1
  <2>1. a \in DOMAIN q /\ b \in DOMAIN q /\ a < b
    BY <1>1
  <2>2. r[i] = q[a] /\ r[j] = q[b]
    BY <1>4
  <2> HIDE DEF a, b
  <2> QED
    BY <2>1, <2>2 DEF Increasing
<1>7. \A i \in 1..n : i # k => q[i] # q[k]
  BY <1>1, <1>5 DEF Increasing
<1>8. ToSet(r) \subseteq ToSet(q) \ {q[k]}
  <2> SUFFICES ASSUME NEW i \in 1..(n - 1) PROVE r[i] \in ToSet(q) \ {q[k]}
    BY <1>3 DEF ToSet
  <2> DEFINE m == IF i < k THEN i ELSE i + 1
  <2>1. m \in 1..n /\ m # k /\ r[i] = q[m]
    BY <1>1, <1>4
  <2> QED
    BY <1>1, <1>7, <2>1 DEF ToSet
<1>9. ToSet(q) \ {q[k]} \subseteq ToSet(r)
  <2> SUFFICES ASSUME NEW i \in 1..n, q[i] # q[k] PROVE q[i] \in ToSet(r)
    BY <1>1 DEF ToSet
  <2> DEFINE m == IF i < k THEN i ELSE i - 1
  <2>1. m \in 1..(n - 1) /\ r[m] = q[i]
    BY <1>1, <1>4
  <2> QED
    BY <1>3, <2>1 DEF ToSet
<1> QED
  BY <1>3, <1>6, <1>8, <1>9 DEF r

\* What edit_asset.php:48-53 does to the queue.
LEMMA AfterUpdateRemoves ==
  ASSUME NEW q \in Seq(AssetId), Increasing(q), NEW id \in AssetId
  PROVE  /\ AfterUpdate(id, q) \in Seq(AssetId)
         /\ Increasing(AfterUpdate(id, q))
         /\ ToSet(AfterUpdate(id, q)) = ToSet(q) \ {id}
<1>1. CASE ArraySearch(id, q) \in DOMAIN q /\ q[ArraySearch(id, q)] = id
  <2>1. ArraySearch(id, q) # 0
    BY <1>1
  <2>2. AfterUpdate(id, q) = Unset(q, ArraySearch(id, q))
    BY <2>1 DEF AfterUpdate
  <2> QED
    BY <1>1, <2>2, UnsetRemoves
<1>2. CASE ArraySearch(id, q) = 0 /\ id \notin ToSet(q)
  BY <1>2 DEF AfterUpdate
<1> QED
  BY <1>1, <1>2, ArraySearchFinds

\* What the masterlist sends is an increasing sequence of ids.
LEMMA SelectionFacts ==
  ASSUME NEW q \in Selections
  PROVE  q \in Seq(AssetId) /\ Increasing(q) /\ ToSet(q) \in SUBSET AssetId
<1>1. PICK n \in AssetId : q \in [1..n -> AssetId]
  BY DEF Selections
<1>2. n \in Nat
  BY ParameterAssumption DEF AssetId
<1>3. q \in Seq(AssetId)
  BY <1>1, <1>2, IsASeq
<1> QED
  BY <1>1, <1>3 DEF Selections, Increasing, ToSet

\* Every step of a session keeps its invariant.
LEMMA SessionInvStep == SessionInv /\ [SessionNext]_sessionVars => SessionInv'
<1> SUFFICES ASSUME SessionInv, [SessionNext]_sessionVars
             PROVE  SessionInv'
  OBVIOUS
<1> USE DEF SessionInv, SessionTypeOK
<1>0. QueueSorted <=> \A c \in Clients : Increasing(editQueue[c])
  BY DEF QueueSorted, Increasing
<1>q. QueueSorted' <=> \A c \in Clients : Increasing(editQueue'[c])
  BY DEF QueueSorted, Increasing
<1>1. ASSUME NEW c \in Clients, NEW u \in Users, Login(c, u)
      PROVE  SessionInv'
  <2>1. SessionTypeOK'
    BY <1>1 DEF Login
  <2> QED
    BY <1>1, <2>1 DEF Login, QueueSorted, BatchAccounting
<1>2. ASSUME NEW c \in Clients, Logout(c)
      PROVE  SessionInv'
  <2>1. SessionTypeOK'
    BY <1>2 DEF Logout
  <2>2. Increasing(<<>>) /\ ToSet(<<>>) = {}
    BY DEF Increasing, ToSet
  <2>3. QueueSorted'
    BY <1>2, <1>0, <1>q, <2>2 DEF Logout
  <2>4. BatchAccounting'
    BY <1>2, <2>2 DEF Logout, BatchAccounting
  <2> QED
    BY <2>1, <2>3, <2>4
<1>3. ASSUME NEW c \in Clients, NEW queue \in Selections, SelectBatch(c, queue)
      PROVE  SessionInv'
  <2>1. queue \in Seq(AssetId) /\ Increasing(queue) /\ ToSet(queue) \in SUBSET AssetId
    BY SelectionFacts
  <2>2. SessionTypeOK'
    BY <1>3, <2>1 DEF SelectBatch
  <2>3. QueueSorted'
    BY <1>3, <1>0, <1>q, <2>1 DEF SelectBatch
  <2>4. BatchAccounting'
    BY <1>3 DEF SelectBatch, BatchAccounting
  <2> QED
    BY <2>2, <2>3, <2>4
<1>4. ASSUME NEW c \in Clients, NEW id \in AssetId, Advance(c, id)
      PROVE  SessionInv'
  <2> DEFINE q == AfterUpdate(id, editQueue[c])
  <2>1. q \in Seq(AssetId) /\ Increasing(q) /\ ToSet(q) = ToSet(editQueue[c]) \ {id}
    BY <1>0, AfterUpdateRemoves
  <2>2. /\ editQueue' = [editQueue EXCEPT ![c] = q]
        /\ submitted' = [submitted EXCEPT ![c] = submitted[c] \cup {id}]
        /\ UNCHANGED <<user, batch>>
    BY <1>4 DEF Advance
  <2> HIDE DEF q
  <2>3. SessionTypeOK'
    BY <2>1, <2>2
  <2>4. QueueSorted'
    BY <1>0, <1>q, <2>1, <2>2
  <2>5. BatchAccounting'
    BY <2>1, <2>2 DEF BatchAccounting
  <2> QED
    BY <2>3, <2>4, <2>5
<1>5. CASE UNCHANGED sessionVars
  BY <1>5 DEF sessionVars, QueueSorted, BatchAccounting
<1> QED
  BY <1>1, <1>2, <1>3, <1>4, <1>5 DEF SessionNext

\* Empty sessions satisfy the invariant.
LEMMA SessionInvInit == SessionInit => SessionInv
  BY DEF SessionInit, SessionInv, SessionTypeOK, QueueSorted, BatchAccounting, ToSet

\* The edit queue of every session is exactly what is left of its batch: each
\* selected asset not updated yet and no other, whatever forms are sent in
\* whatever order (edit_asset.php:12-14 and 48-53).
THEOREM BatchAccountingHolds == SessionSpec => []BatchAccounting
<1>1. SessionInv => BatchAccounting
  BY DEF SessionInv
<1> QED
  BY <1>1, SessionInvInit, SessionInvStep, PTL DEF SessionSpec
=============================================================================
