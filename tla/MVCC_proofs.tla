----------------------------- MODULE MVCC_proofs -----------------------------
(***************************************************************************)
(* For any number of transactions, rows and versions: a writer keeps its   *)
(* row from the lock check to the store, and a row's versions are stored   *)
(* in clock order.  The invariant has to say where clock readings and ids  *)
(* come from (Issued): a reading in flight is never ahead of the clock and *)
(* never behind the row, because only the holder of the row writes it.     *)
(* That order makes a read by position a read of the newest version, and a *)
(* read behind the clock repeatable.                                       *)
(***************************************************************************)
EXTENDS MVCC, WellFoundedInduction, TLAPS

(* A row has at most one holder. *)
Exclusive == \A r \in Rows, t, u \in MvccTxns : is_locked(r, t) /\ is_locked(r, u) => t = u

(* Stored versions and readings in flight are behind the two counters. *)
Issued ==
  /\ \A r \in Rows : \A i \in DOMAIN versions_[r] :
       /\ versions_[r][i].snapshot_version <= next_version_
       /\ versions_[r][i].version_id < next_version_id_
  /\ \A t \in MvccTxns : call[t].at = "loaded" => call[t].version <= next_version_

IInv == MvccTypeOK /\ Exclusive /\ WriterHoldsRow /\ Issued /\ VersionsInOrder

(* The three shapes of a call and the values of their fields. *)
LEMMA CallShapes ==
  ASSUME NEW c \in Calls
  PROVE  /\ c.at \in {"idle", "checked", "loaded"}
         /\ c.at \in {"checked", "loaded"} => c.row \in Rows /\ c.data \in Data
         /\ c.at = "loaded" => c.version \in Nat
BY DEF Calls

LEMMA NewCalls ==
  /\ Idle \in Calls /\ Idle.at = "idle"
  /\ \A r \in Rows, d \in Data :
       /\ Checked(r, d) \in Calls
       /\ Checked(r, d).at = "checked" /\ Checked(r, d).row = r
  /\ \A r \in Rows, d \in Data, sv \in Nat :
       /\ Loaded(r, d, sv) \in Calls
       /\ Loaded(r, d, sv).at = "loaded" /\ Loaded(r, d, sv).row = r
       /\ Loaded(r, d, sv).version = sv
BY DEF Calls, Idle, Checked, Loaded

(* A stored version has numbers for its clock reading and its id. *)
LEMMA StoredVersion ==
  ASSUME MvccTypeOK, NEW r \in Rows, NEW i \in DOMAIN versions_[r]
  PROVE  /\ versions_[r][i] \in Version
         /\ versions_[r][i].snapshot_version \in Nat
         /\ versions_[r][i].version_id \in Nat
         /\ i \in Nat
<1>1. versions_[r] \in Seq(Version)
  BY DEF MvccTypeOK
<1>2. versions_[r][i] \in Version /\ i \in Nat
  BY <1>1
<1> QED BY <1>2 DEF Version

-----------------------------------------------------------------------------
LEMMA InitIInv == MvccInit => IInv
<1> SUFFICES ASSUME MvccInit PROVE IInv
  OBVIOUS
<1>1. call \in [MvccTxns -> Calls] /\ \A t \in MvccTxns : call[t].at = "idle"
  BY NewCalls DEF MvccInit
<1>2. \A r \in Rows : DOMAIN versions_[r] = {} /\ row_locks_[r] = {}
  BY DEF MvccInit
<1>3. MvccTypeOK
  BY <1>1 DEF MvccInit, MvccTypeOK
<1>4. Exclusive /\ WriterHoldsRow /\ Issued /\ VersionsInOrder
  BY <1>1, <1>2 DEF Exclusive, is_locked, WriterHoldsRow, Writing, Issued, VersionsInOrder
<1> QED BY <1>3, <1>4 DEF IInv

(* The operations that touch neither versions, locks nor threads. *)
LEMMA SnapshotStep ==
  ASSUME IInv, UNCHANGED <<versionVars, row_locks_, next_version_, call>>,
         snapshots_' \in [DOMAIN snapshots_' -> Nat], next_snapshot_id_' \in Nat,
         lock_waiters_' \in [Rows -> Seq(MvccTxns)]
  PROVE  IInv'
BY DEF IInv, MvccTypeOK, Exclusive, is_locked, WriterHoldsRow, Writing, Issued, VersionsInOrder, versionVars

LEMMA IncrementStep ==
  ASSUME IInv, increment_version
  PROVE  IInv'
<1>1. MvccTypeOK
  BY DEF IInv
<1>2. /\ next_version_ \in Nat /\ next_version_' = next_version_ + 1
      /\ UNCHANGED <<snapshotVars, versionVars, lockVars, call>>
  BY <1>1 DEF increment_version, MvccTypeOK
<1>3. MvccTypeOK' /\ Exclusive' /\ WriterHoldsRow' /\ VersionsInOrder'
  BY <1>2 DEF IInv, MvccTypeOK, Exclusive, is_locked, WriterHoldsRow, Writing, VersionsInOrder,
              snapshotVars, versionVars, lockVars
<1>4. Issued'
  <2>1. \A r \in Rows : \A i \in DOMAIN versions_[r] :
          versions_[r][i].snapshot_version \in Nat
    BY <1>1, StoredVersion
  <2>2. \A t \in MvccTxns : call[t].at = "loaded" => call[t].version \in Nat
    BY <1>1, CallShapes DEF MvccTypeOK
  <2> QED BY <1>2, <2>1, <2>2 DEF IInv, Issued, versionVars
<1> QED BY <1>3, <1>4 DEF IInv

LEMMA AcquireStep ==
  ASSUME IInv, NEW r \in Rows, NEW t \in MvccTxns, NEW b \in BOOLEAN, acquire_lock(r, t, b)
  PROVE  IInv'
<1>1. CASE /\ row_locks_[r] = {}
           /\ row_locks_' = [row_locks_ EXCEPT ![r] = {t}]
           /\ UNCHANGED lock_waiters_
  <2>1. UNCHANGED <<snapshotVars, versionVars, next_version_, call, lock_waiters_>>
    BY <1>1 DEF acquire_lock
  <2>2. \A q \in Rows : row_locks_'[q] = IF q = r THEN {t} ELSE row_locks_[q]
    BY <1>1 DEF IInv, MvccTypeOK
  <2>3. MvccTypeOK'
    BY <1>1, <2>1 DEF IInv, MvccTypeOK, snapshotVars, versionVars
  <2>4. Exclusive'
    BY <2>2 DEF IInv, Exclusive, is_locked
  <2>5. WriterHoldsRow'
    <3>1. \A u \in MvccTxns : Writing(u) => call[u].row \in Rows /\ call[u].row # r
      BY <1>1, CallShapes DEF IInv, MvccTypeOK, WriterHoldsRow, Writing
    <3> QED BY <2>1, <2>2, <3>1 DEF IInv, WriterHoldsRow, Writing
  <2>6. Issued' /\ VersionsInOrder'
    BY <2>1 DEF IInv, Issued, VersionsInOrder, versionVars
  <2> QED BY <2>3, <2>4, <2>5, <2>6 DEF IInv
<1>2. CASE /\ lock_waiters_' = [lock_waiters_ EXCEPT ![r] = Append(@, t)]
           /\ UNCHANGED row_locks_
  <2>1. /\ lock_waiters_' \in [Rows -> Seq(MvccTxns)]
        /\ snapshots_' \in [DOMAIN snapshots_' -> Nat] /\ next_snapshot_id_' \in Nat
        /\ UNCHANGED <<versionVars, row_locks_, next_version_, call>>
    BY <1>2 DEF IInv, MvccTypeOK, acquire_lock, snapshotVars
  <2> QED BY <2>1, SnapshotStep
<1> QED BY <1>1, <1>2 DEF acquire_lock

LEMMA ReleaseStep ==
  ASSUME IInv, NEW r \in Rows, NEW t \in MvccTxns, release_lock(r, t)
  PROVE  IInv'
<1>1. /\ UNCHANGED <<snapshotVars, versionVars, next_version_, call, lock_waiters_>>
      /\ row_locks_' = [row_locks_ EXCEPT ![r] = @ \ {t}]
      /\ call[t].at = "idle"
  BY NewCalls DEF release_lock
<1>2. \A q \in Rows : row_locks_'[q] = IF q = r THEN row_locks_[q] \ {t} ELSE row_locks_[q]
  BY <1>1 DEF IInv, MvccTypeOK
<1>3. MvccTypeOK'
  BY <1>1 DEF IInv, MvccTypeOK, snapshotVars, versionVars
<1>4. Exclusive'
  BY <1>2 DEF IInv, Exclusive, is_locked
<1>5. WriterHoldsRow'
  <2> SUFFICES ASSUME NEW u \in MvccTxns, Writing(u) PROVE row_locks_'[call[u].row] = {u}
    BY <1>1 DEF WriterHoldsRow, Writing
  <2>1. call[u].row \in Rows /\ u # t /\ row_locks_[call[u].row] = {u}
    BY <1>1, CallShapes DEF IInv, MvccTypeOK, WriterHoldsRow, Writing
  <2> QED BY <1>2, <2>1
<1>6. Issued' /\ VersionsInOrder'
  BY <1>1 DEF IInv, Issued, VersionsInOrder, versionVars
<1> QED BY <1>3, <1>4, <1>5, <1>6 DEF IInv

LEMMA CheckStep ==
  ASSUME IInv, NEW r \in Rows, NEW t \in MvccTxns, NEW d \in Data, CheckLock(r, t, d)
  PROVE  IInv'
<1>1. /\ UNCHANGED <<snapshotVars, versionVars, lockVars, next_version_>>
      /\ call' = [call EXCEPT ![t] = Checked(r, d)]
      /\ t \in row_locks_[r]
  BY DEF CheckLock, is_locked
<1>2. /\ MvccTypeOK /\ call' \in [MvccTxns -> Calls]
      /\ call'[t].at = "checked" /\ call'[t].row = r
      /\ \A u \in MvccTxns : u # t => call'[u] = call[u]
  BY <1>1, NewCalls DEF IInv, MvccTypeOK
<1>3. MvccTypeOK'
  BY <1>1, <1>2 DEF MvccTypeOK, snapshotVars, versionVars, lockVars
<1>4. Exclusive'
  BY <1>1 DEF IInv, Exclusive, is_locked, lockVars
<1>5. WriterHoldsRow'
  <2>1. row_locks_[r] = {t}
    BY <1>1, <1>2 DEF IInv, MvccTypeOK, Exclusive, is_locked
  <2> QED BY <1>1, <1>2, <2>1 DEF IInv, WriterHoldsRow, Writing, lockVars
<1>6. Issued' /\ VersionsInOrder'
  BY <1>1, <1>2 DEF IInv, Issued, VersionsInOrder, versionVars
<1> QED BY <1>3, <1>4, <1>5, <1>6 DEF IInv

LEMMA LoadStep ==
  ASSUME IInv, NEW t \in MvccTxns, LoadClock(t)
  PROVE  IInv'
<1> DEFINE r == call[t].row
<1>1. /\ UNCHANGED <<snapshotVars, versionVars, lockVars, next_version_>>
      /\ call' = [call EXCEPT ![t] = Loaded(r, call[t].data, next_version_)]
      /\ call[t].at = "checked"
  BY DEF LoadClock
<1>2. MvccTypeOK /\ r \in Rows /\ call[t].data \in Data /\ next_version_ \in Nat
  BY <1>1, CallShapes DEF IInv, MvccTypeOK
<1>3. /\ call' \in [MvccTxns -> Calls]
      /\ call'[t].at = "loaded" /\ call'[t].row = r /\ call'[t].version = next_version_
      /\ \A u \in MvccTxns : u # t => call'[u] = call[u]
  BY <1>1, <1>2, NewCalls DEF MvccTypeOK
<1> HIDE DEF r
<1>4. MvccTypeOK'
  BY <1>1, <1>2, <1>3 DEF MvccTypeOK, snapshotVars, versionVars, lockVars
<1>5. Exclusive'
  BY <1>1 DEF IInv, Exclusive, is_locked, lockVars
<1>6. WriterHoldsRow'
  <2>1. row_locks_[r] = {t}
    BY <1>1 DEF IInv, WriterHoldsRow, Writing, r
  <2> QED BY <1>1, <1>3, <2>1 DEF IInv, WriterHoldsRow, Writing, lockVars
<1>7. Issued'
  BY <1>1, <1>2, <1>3 DEF IInv, Issued, versionVars
<1>8. VersionsInOrder'
  <2>1. \A i \in DOMAIN versions_[r] : versions_[r][i].snapshot_version <= next_version_
    BY <1>2 DEF IInv, Issued
  <2> QED BY <1>1, <1>3, <2>1 DEF IInv, VersionsInOrder, versionVars
<1> QED BY <1>4, <1>5, <1>6, <1>7, <1>8 DEF IInv

LEMMA StoreStep ==
  ASSUME IInv, NEW t \in MvccTxns, StoreVersion(t)
  PROVE  IInv'
<1> DEFINE r == call[t].row
           v == NewVersion(t, call[t].version, call[t].data)
           n == Len(versions_[r])
<1>1. /\ UNCHANGED <<snapshotVars, lockVars, next_version_>>
      /\ versions_' = [versions_ EXCEPT ![r] = Append(@, v)]
      /\ next_version_id_' = next_version_id_ + 1
      /\ call' = [call EXCEPT ![t] = Idle]
      /\ call[t].at = "loaded"
  BY DEF StoreVersion, create_version
<1>2. /\ MvccTypeOK /\ r \in Rows /\ call[t].data \in Data /\ call[t].version \in Nat
      /\ next_version_ \in Nat /\ next_version_id_ \in Nat
  BY <1>1, CallShapes DEF IInv, MvccTypeOK
<1>3. /\ call' \in [MvccTxns -> Calls]
      /\ call'[t].at = "idle"
      /\ \A u \in MvccTxns : u # t => call'[u] = call[u]
  BY <1>1, <1>2, NewCalls DEF MvccTypeOK
<1>4. /\ v \in Version
      /\ v.snapshot_version = call[t].version
      /\ v.version_id = next_version_id_
  BY <1>2 DEF NewVersion, Version
<1>5. versions_[r] \in Seq(Version) /\ versions_ \in [Rows -> Seq(Version)]
  BY <1>2 DEF MvccTypeOK
<1> HIDE DEF v, r
<1>6. /\ versions_'[r] = Append(versions_[r], v)
      /\ \A q \in Rows : q # r => versions_'[q] = versions_[q]
  BY <1>1, <1>2, <1>5
<1>7. /\ n \in Nat /\ DOMAIN versions_[r] = 1..n
      /\ DOMAIN versions_'[r] = 1..(n + 1)
      /\ \A i \in 1..n : versions_'[r][i] = versions_[r][i]
      /\ versions_'[r][n + 1] = v
      /\ versions_'[r] \in Seq(Version)
  BY <1>4, <1>5, <1>6
<1> HIDE DEF n
<1>8. /\ row_locks_[r] = {t}
      /\ call[t].version <= next_version_
      /\ \A i \in 1..n : /\ versions_[r][i].snapshot_version <= call[t].version
                         /\ versions_[r][i].version_id < next_version_id_
                         /\ versions_[r][i].version_id \in Nat
                         /\ versions_[r][i].snapshot_version \in Nat
                         /\ versions_[r][i].snapshot_version <= next_version_
  BY <1>1, <1>2, <1>7, StoredVersion DEF IInv, WriterHoldsRow, Writing, Issued, VersionsInOrder, r
<1>9. \A u \in MvccTxns : u # t /\ Writing(u) => call[u].row # r
  BY <1>8 DEF IInv, WriterHoldsRow
<1>10. MvccTypeOK'
  <2>1. versions_' \in [Rows -> Seq(Version)]
    BY <1>1, <1>2, <1>5, <1>6, <1>7
  <2> QED BY <1>1, <1>2, <1>3, <2>1 DEF MvccTypeOK, snapshotVars, lockVars
<1>11. Exclusive'
  BY <1>1 DEF IInv, Exclusive, is_locked, lockVars
<1>12. WriterHoldsRow'
  BY <1>1, <1>3 DEF IInv, WriterHoldsRow, Writing, lockVars
<1>13. Issued'
  <2>1. ASSUME NEW q \in Rows, NEW i \in DOMAIN versions_'[q]
        PROVE  /\ versions_'[q][i].snapshot_version <= next_version_'
               /\ versions_'[q][i].version_id < next_version_id_'
    <3>1. CASE q = r /\ i \in 1..n
      BY <1>1, <1>2, <1>7, <1>8, <3>1
    <3>2. CASE q = r /\ i = n + 1
      BY <1>1, <1>2, <1>4, <1>7, <1>8, <3>2
    <3>3. CASE q # r
      <4>1. i \in DOMAIN versions_[q] /\ versions_'[q][i] = versions_[q][i]
        BY <1>6, <3>3
      <4>2. /\ versions_[q][i].snapshot_version <= next_version_
            /\ versions_[q][i].version_id < next_version_id_
            /\ versions_[q][i].version_id \in Nat
        BY <1>2, <4>1, StoredVersion DEF IInv, Issued
      <4> QED BY <1>1, <1>2, <4>1, <4>2
    <3> QED BY <1>7, <3>1, <3>2, <3>3
  <2> QED BY <1>1, <1>3, <2>1 DEF IInv, Issued
<1>14. VersionsInOrder'
  <2>1. ASSUME NEW q \in Rows, NEW i \in DOMAIN versions_'[q], NEW j \in DOMAIN versions_'[q], i < j
        PROVE  /\ versions_'[q][i].snapshot_version <= versions_'[q][j].snapshot_version
               /\ versions_'[q][i].version_id < versions_'[q][j].version_id
    <3>1. CASE q = r /\ j \in 1..n
      <4>1. i \in 1..n
        BY <1>7, <2>1, <3>1
      <4> QED BY <1>2, <1>7, <2>1, <3>1, <4>1 DEF IInv, VersionsInOrder
    <3>2. CASE q = r /\ j = n + 1
      <4>1. i \in 1..n
        BY <1>7, <2>1, <3>2
      <4> QED BY <1>4, <1>7, <1>8, <3>2, <4>1
    <3>3. CASE q # r
      BY <1>6, <2>1, <3>3 DEF IInv, VersionsInOrder
    <3> QED BY <1>7, <3>1, <3>2, <3>3
  <2>2. ASSUME NEW u \in MvccTxns, call'[u].at = "loaded"
        PROVE  \A i \in DOMAIN versions_'[call'[u].row] :
                 versions_'[call'[u].row][i].snapshot_version <= call'[u].version
    <3>1. u # t /\ call'[u] = call[u]
      BY <1>3, <2>2
    <3>2. call[u].row \in Rows /\ call[u].row # r
      BY <1>2, <1>9, <2>2, <3>1, CallShapes DEF MvccTypeOK, Writing
    <3> QED BY <1>6, <2>2, <3>1, <3>2 DEF IInv, VersionsInOrder
  <2> QED BY <2>1, <2>2 DEF VersionsInOrder
<1> QED BY <1>10, <1>11, <1>12, <1>13, <1>14 DEF IInv

(* delete_version marks one version and leaves clock readings and ids alone. *)
LEMMA DeletedVersion ==
  ASSUME MvccTypeOK, NEW r \in Rows, NEW id, delete_version(r, id)
  PROVE  /\ versions_' \in [Rows -> Seq(Version)]
         /\ \A q \in Rows :
              /\ DOMAIN versions_'[q] = DOMAIN versions_[q]
              /\ \A i \in DOMAIN versions_[q] :
                   /\ versions_'[q][i].snapshot_version = versions_[q][i].snapshot_version
                   /\ versions_'[q][i].version_id = versions_[q][i].version_id
<1>1. PICK k \in DOMAIN versions_[r] : versions_' = [versions_ EXCEPT ![r][k].is_deleted = TRUE]
  BY DEF delete_version
<1>3. versions_ \in [Rows -> Seq(Version)] /\ versions_[r] \in Seq(Version)
  BY DEF MvccTypeOK
<1>4. /\ versions_'[r] = [versions_[r] EXCEPT ![k].is_deleted = TRUE]
      /\ \A q \in Rows : q # r => versions_'[q] = versions_[q]
  BY <1>1, <1>3
<1>5. [versions_[r][k] EXCEPT !.is_deleted = TRUE] \in Version
  BY <1>3, StoredVersion DEF Version
<1>6. versions_'[r] \in Seq(Version)
  BY <1>3, <1>4, <1>5
<1>7. versions_' \in [Rows -> Seq(Version)]
  BY <1>1, <1>3, <1>4, <1>6
<1>8. \A q \in Rows :
         /\ DOMAIN versions_'[q] = DOMAIN versions_[q]
         /\ \A i \in DOMAIN versions_[q] :
              /\ versions_'[q][i].snapshot_version = versions_[q][i].snapshot_version
              /\ versions_'[q][i].version_id = versions_[q][i].version_id
  <2>1. \A i \in DOMAIN versions_[r] :
           /\ versions_'[r][i].snapshot_version = versions_[r][i].snapshot_version
           /\ versions_'[r][i].version_id = versions_[r][i].version_id
    <3>1. ASSUME NEW i \in DOMAIN versions_[r], i = k
          PROVE  /\ versions_'[r][i].snapshot_version = versions_[r][i].snapshot_version
                 /\ versions_'[r][i].version_id = versions_[r][i].version_id
      <4>1. versions_'[r][i] = [versions_[r][k] EXCEPT !.is_deleted = TRUE] /\ versions_[r][k] \in Version
        BY <1>3, <1>4, <3>1, StoredVersion
      <4> QED BY <3>1, <4>1 DEF Version
    <3>2. \A i \in DOMAIN versions_[r] : i # k => versions_'[r][i] = versions_[r][i]
      BY <1>3, <1>4
    <3> QED BY <3>1, <3>2
  <2> QED BY <1>4, <2>1
<1> QED BY <1>7, <1>8

LEMMA DeleteVersionStep ==
  ASSUME IInv, NEW r \in Rows, NEW id, delete_version(r, id)
  PROVE  IInv'
<1>2. UNCHANGED <<snapshotVars, next_version_id_, lockVars, next_version_, call>>
  BY DEF delete_version
<1>3. MvccTypeOK
  BY DEF IInv
<1>7. versions_' \in [Rows -> Seq(Version)]
  BY <1>3, DeletedVersion
<1>8. \A q \in Rows :
         /\ DOMAIN versions_'[q] = DOMAIN versions_[q]
         /\ \A i \in DOMAIN versions_[q] :
              /\ versions_'[q][i].snapshot_version = versions_[q][i].snapshot_version
              /\ versions_'[q][i].version_id = versions_[q][i].version_id
  BY <1>3, DeletedVersion
<1>9. MvccTypeOK'
  BY <1>2, <1>3, <1>7 DEF MvccTypeOK, snapshotVars, lockVars
<1>10. Exclusive' /\ WriterHoldsRow'
  BY <1>2 DEF IInv, Exclusive, is_locked, WriterHoldsRow, Writing, lockVars
<1>11. Issued'
  BY <1>2, <1>8 DEF IInv, Issued
<1>12. VersionsInOrder'
  <2>1. \A u \in MvccTxns : call[u].at = "loaded" => call[u].row \in Rows
    BY <1>3, CallShapes DEF MvccTypeOK
  <2>2. \A q \in Rows : \A i, j \in DOMAIN versions_'[q] :
           i < j => /\ versions_'[q][i].snapshot_version <= versions_'[q][j].snapshot_version
                    /\ versions_'[q][i].version_id < versions_'[q][j].version_id
    BY <1>8 DEF IInv, VersionsInOrder
  <2>3. \A u \in MvccTxns : call[u].at = "loaded" =>
           \A i \in DOMAIN versions_'[call[u].row] :
              versions_'[call[u].row][i].snapshot_version <= call[u].version
    BY <1>8, <2>1 DEF IInv, VersionsInOrder
  <2> QED BY <1>2, <2>2, <2>3 DEF VersionsInOrder
<1> QED BY <1>9, <1>10, <1>11, <1>12 DEF IInv

LEMMA NextIInv == IInv /\ [MvccNext]_mvccVars => IInv'
<1> SUFFICES ASSUME IInv, [MvccNext]_mvccVars PROVE IInv'
  OBVIOUS
<1>1. CASE increment_version
  BY <1>1, IncrementStep
<1>2. ASSUME NEW t \in MvccTxns, LoadClock(t) PROVE IInv'
  BY <1>2, LoadStep
<1>3. ASSUME NEW t \in MvccTxns, StoreVersion(t) PROVE IInv'
  BY <1>3, StoreStep
<1>4. ASSUME NEW t \in MvccTxns, NEW r \in Rows, NEW b \in BOOLEAN, acquire_lock(r, t, b) PROVE IInv'
  BY <1>4, AcquireStep
<1>5. ASSUME NEW t \in MvccTxns, NEW r \in Rows, release_lock(r, t) PROVE IInv'
  BY <1>5, ReleaseStep
<1>6. ASSUME NEW t \in MvccTxns, NEW r \in Rows, mvcc_delete_row(r, t) PROVE IInv'
  BY <1>6, CheckStep DEF mvcc_delete_row, Data
<1>7. ASSUME NEW t \in MvccTxns, NEW r \in Rows, NEW d \in RowValues, write_row(r, t, d) PROVE IInv'
  BY <1>7, CheckStep DEF write_row, Data
<1>8. CASE create_snapshot(next_version_)
  <2>1. /\ snapshots_' \in [DOMAIN snapshots_' -> Nat] /\ next_snapshot_id_' \in Nat
        /\ lock_waiters_' \in [Rows -> Seq(MvccTxns)]
        /\ UNCHANGED <<versionVars, row_locks_, next_version_, call>>
    BY <1>8 DEF create_snapshot, IInv, MvccTypeOK, lockVars
  <2> QED BY <2>1, SnapshotStep
<1>9. ASSUME NEW id, remove_snapshot(id) PROVE IInv'
  <2>1. /\ snapshots_' \in [DOMAIN snapshots_' -> Nat] /\ next_snapshot_id_' \in Nat
        /\ lock_waiters_' \in [Rows -> Seq(MvccTxns)]
        /\ UNCHANGED <<versionVars, row_locks_, next_version_, call>>
    BY <1>9 DEF remove_snapshot, IInv, MvccTypeOK, lockVars
  <2> QED BY <2>1, SnapshotStep
<1>10. ASSUME NEW r \in Rows, NEW id, delete_version(r, id) PROVE IInv'
  BY <1>10, DeleteVersionStep
<1>11. CASE UNCHANGED mvccVars
  BY <1>11 DEF mvccVars, IInv, MvccTypeOK, Exclusive, is_locked, WriterHoldsRow, Writing, Issued, VersionsInOrder
<1> QED BY <1>1, <1>2, <1>3, <1>4, <1>5, <1>6, <1>7, <1>8, <1>9, <1>10, <1>11
        DEF MvccNext, CoordinatorNext, ManagerNext

LEMMA IInvAlways == MvccSpec => []IInv
BY InitIInv, NextIInv, PTL DEF MvccSpec

(* The members of the three managers and the coordinator keep their types. *)
THEOREM TypeCorrect == MvccSpec => []MvccTypeOK
<1>1. IInv => MvccTypeOK
  BY DEF IInv
<1> QED BY <1>1, IInvAlways, PTL

(* From the lock check of write_row to its store, the writer alone holds the *)
(* row, whatever the other threads do meanwhile.                             *)
THEOREM WritersExclude == MvccSpec => []WriterHoldsRow
<1>1. IInv => WriterHoldsRow
  BY DEF IInv
<1> QED BY <1>1, IInvAlways, PTL

(* The versions of a row are in clock order although the clock is read       *)
(* before the version store is locked.                                       *)
THEOREM OrderedVersions == MvccSpec => []VersionsInOrder
<1>1. IInv => VersionsInOrder
  BY DEF IInv
<1> QED BY <1>1, IInvAlways, PTL

-----------------------------------------------------------------------------
(* A set of numbers that stop at n has a greatest one. *)
LEMMA GreatestBelow ==
  ASSUME NEW n \in Nat, NEW T \in SUBSET (1..n), T # {}
  PROVE  \E m \in T : \A j \in T : j <= m
<1> DEFINE V == {n - j : j \in T}
<1>0. \A j \in T : j \in Nat /\ j <= n
  OBVIOUS
<1>1. V \subseteq Nat /\ V # {}
  <2>1. \A j \in T : n - j \in Nat
    BY <1>0
  <2> QED BY <2>1
<1>2. PICK x \in V : \A y \in V : <<y, x>> \notin OpToRel(<, Nat)
  BY <1>1, WFMin, NatLessThanWellFounded
<1>3. \A y \in V : ~(y < x)
  BY <1>1, <1>2 DEF OpToRel
<1>4. PICK m \in T : x = n - m
  OBVIOUS
<1>5. ASSUME NEW j \in T PROVE j <= m
  <2>1. n - j \in V
    OBVIOUS
  <2> QED BY <1>0, <1>3, <1>4, <2>1
<1> QED BY <1>5

(* get_version returns the last of its candidates, if there is one. *)
LEMMA LastCandidate ==
  ASSUME MvccTypeOK, NEW r \in Rows, NEW sv \in Nat, Candidates(r, sv) # {}
  PROVE  \E l \in Candidates(r, sv) : /\ \A j \in Candidates(r, sv) : j <= l
                                      /\ versions_[r][l] \in get_version(r, sv)
<1>1. versions_[r] \in Seq(Version)
  BY DEF MvccTypeOK
<1>2. Len(versions_[r]) \in Nat /\ Candidates(r, sv) \in SUBSET (1..Len(versions_[r]))
  BY <1>1 DEF Candidates
<1>3. \E m \in Candidates(r, sv) : \A j \in Candidates(r, sv) : j <= m
  BY <1>2, GreatestBelow
<1> QED BY <1>3 DEF LastOf, get_version

LEMMA NewestInOrder == IInv => ReadsNewest
<1> DEFINE Newer(v, got) == \/ v.snapshot_version < got.snapshot_version
                            \/ v.snapshot_version = got.snapshot_version /\ v.version_id <= got.version_id
<1> SUFFICES ASSUME IInv, NEW r \in Rows, NEW sv \in 0..MaxClock, NEW i \in Candidates(r, sv)
             PROVE  \E got \in get_version(r, sv) : Newer(versions_[r][i], got)
  BY DEF ReadsNewest
<1>1. MvccTypeOK /\ VersionsInOrder /\ sv \in Nat
  BY DEF IInv
<1>2. PICK l \in Candidates(r, sv) : i <= l /\ versions_[r][l] \in get_version(r, sv)
  BY <1>1, LastCandidate
<1>3. i \in DOMAIN versions_[r] /\ l \in DOMAIN versions_[r]
  BY <1>2 DEF Candidates
<1>4. /\ versions_[r][i].snapshot_version \in Nat /\ versions_[r][l].snapshot_version \in Nat
      /\ versions_[r][i].version_id \in Nat /\ versions_[r][l].version_id \in Nat
      /\ i \in Nat /\ l \in Nat
  BY <1>1, <1>3, StoredVersion
<1>5. CASE i = l
  BY <1>2, <1>4, <1>5
<1>6. CASE i < l
  <2>1. /\ versions_[r][i].snapshot_version <= versions_[r][l].snapshot_version
        /\ versions_[r][i].version_id < versions_[r][l].version_id
    BY <1>1, <1>3, <1>6 DEF VersionsInOrder
  <2> QED BY <1>2, <1>4, <2>1
<1> QED BY <1>2, <1>4, <1>5, <1>6

(* What a read at sv finds depends on the last version it can see, and on    *)
(* nothing else in the row.                                                  *)
LEMMA SameFinding ==
  ASSUME NEW r \in Rows, NEW sv \in Nat,
         Candidates(r, sv)' = Candidates(r, sv),
         \A i \in LastOf(Candidates(r, sv)) : versions_'[r][i] = versions_[r][i]
  PROVE  Found(r, sv)' = Found(r, sv)
<1>1. LastOf(Candidates(r, sv))' = LastOf(Candidates(r, sv))
  BY DEF LastOf
<1>2. get_version(r, sv)' = get_version(r, sv)
  BY <1>1 DEF get_version
<1> QED BY <1>2 DEF Found

LEMMA SettledNext == IInv /\ [MvccNext]_mvccVars => SettledStep
<1> SUFFICES ASSUME IInv, [MvccNext]_mvccVars, NEW r \in Rows, NEW sv \in 0..MaxClock, Settled(r, sv)
             PROVE  \/ Found(r, sv)' = Found(r, sv)
                    \/ Found(r, sv)' = {} /\ \E v \in Found(r, sv) : delete_version(r, v.version_id)
  BY DEF SettledStep
<1>1. IInv' /\ MvccTypeOK /\ sv \in Nat /\ versions_[r] \in Seq(Version)
  BY NextIInv DEF IInv, MvccTypeOK
<1>2. ASSUME versions_'[r] = versions_[r] PROVE Found(r, sv)' = Found(r, sv)
  <2>1. Candidates(r, sv)' = Candidates(r, sv)
    BY <1>2 DEF Candidates
  <2> QED BY <1>1, <1>2, <2>1, SameFinding
<1>3. ASSUME NEW t \in MvccTxns, StoreVersion(t) PROVE Found(r, sv)' = Found(r, sv)
  <2> DEFINE v == NewVersion(t, call[t].version, call[t].data)
             n == Len(versions_[r])
  <2>1. versions_' = [versions_ EXCEPT ![call[t].row] = Append(@, v)] /\ call[t].at = "loaded"
    BY <1>3 DEF StoreVersion, create_version
  <2>2. call[t].row \in Rows /\ call[t].data \in Data /\ call[t].version \in Nat /\ next_version_id_ \in Nat
    BY <1>1, <2>1, CallShapes DEF MvccTypeOK
  <2>3. v \in Version /\ v.snapshot_version = call[t].version
    BY <2>2 DEF NewVersion, Version
  <2>4. CASE call[t].row # r
    <3>1. versions_'[r] = versions_[r]
      BY <1>1, <2>1, <2>4 DEF MvccTypeOK
    <3> QED BY <1>2, <3>1
  <2>5. CASE call[t].row = r
    <3>1. versions_'[r] = Append(versions_[r], v)
      BY <1>1, <2>1, <2>5 DEF MvccTypeOK
    <3> HIDE DEF v
    <3>2. /\ DOMAIN versions_[r] = 1..n /\ DOMAIN versions_'[r] = 1..(n + 1) /\ n \in Nat
          /\ \A i \in 1..n : versions_'[r][i] = versions_[r][i]
          /\ versions_'[r][n + 1] = v
      BY <1>1, <2>3, <3>1
    <3>3. ~(versions_'[r][n + 1].snapshot_version <= sv)
      BY <1>1, <2>1, <2>2, <2>3, <2>5, <3>2 DEF Settled
    <3>4. Candidates(r, sv)' = Candidates(r, sv)
      BY <3>2, <3>3 DEF Candidates
    <3>5. \A i \in LastOf(Candidates(r, sv)) : versions_'[r][i] = versions_[r][i]
      BY <3>2 DEF Candidates, LastOf
    <3> QED BY <1>1, <3>4, <3>5, SameFinding
  <2> QED BY <2>4, <2>5
<1>4. ASSUME NEW q \in Rows, NEW id, delete_version(q, id)
      PROVE  \/ Found(r, sv)' = Found(r, sv)
             \/ Found(r, sv)' = {} /\ \E v \in Found(r, sv) : delete_version(r, v.version_id)
  <2>1. PICK i \in DOMAIN versions_[q] : /\ versions_[q][i].version_id = id
                                         /\ versions_' = [versions_ EXCEPT ![q][i].is_deleted = TRUE]
    BY <1>4 DEF delete_version
  <2>2. CASE q # r
    <3>1. versions_'[r] = versions_[r]
      BY <1>1, <2>1, <2>2 DEF MvccTypeOK
    <3> QED BY <1>2, <3>1
  <2>3. CASE q = r
    <3> DEFINE C == Candidates(r, sv)
               w == versions_[r][i]
    <3>1. /\ DOMAIN versions_'[r] = DOMAIN versions_[r]
          /\ \A j \in DOMAIN versions_[r] :
               versions_'[r][j].snapshot_version = versions_[r][j].snapshot_version
      BY <1>1, <1>4, DeletedVersion
    <3>2. Candidates(r, sv)' = C
      BY <3>1 DEF Candidates
    <3>3. /\ DOMAIN versions_[r] \subseteq Nat /\ i \in DOMAIN versions_[r]
          /\ w \in Version /\ w.version_id = id
      BY <1>1, <2>1, <2>3, StoredVersion DEF MvccTypeOK
    <3>4. versions_'[r] = [versions_[r] EXCEPT ![i] = [w EXCEPT !.is_deleted = TRUE]]
      BY <1>1, <2>1, <2>3 DEF MvccTypeOK
    <3>5. /\ \A j \in DOMAIN versions_[r] : j # i => versions_'[r][j] = versions_[r][j]
          /\ versions_'[r][i].is_deleted
          /\ w.is_deleted => versions_'[r][i] = w
      <4> DEFINE u == [w EXCEPT !.is_deleted = TRUE]
      <4>1. u.is_deleted /\ (w.is_deleted => u = w)
        <5>1. w.is_deleted => w.is_deleted = TRUE
          BY <3>3, Zenon DEF Version
        <5>2. u.is_deleted
          BY <3>3 DEF Version
        <5>3. ASSUME w.is_deleted = TRUE PROVE u = w
          BY <3>3, <5>3 DEF Version
        <5> QED BY <5>1, <5>2, <5>3, Zenon
      <4>2. versions_'[r] = [versions_[r] EXCEPT ![i] = u]
        BY <3>4
      <4> HIDE DEF u
      <4>3. versions_'[r][i] = u /\ \A j \in DOMAIN versions_[r] : j # i => versions_'[r][j] = versions_[r][j]
        BY <3>3, <4>2
      <4> QED BY <4>1, <4>3, Zenon
    <3>6. LastOf(C) \subseteq DOMAIN versions_[r] /\ \A j, k \in LastOf(C) : j = k
      <4>1. C \subseteq DOMAIN versions_[r]
        BY DEF Candidates
      <4> HIDE DEF C
      <4> QED BY <3>3, <4>1 DEF LastOf
    <3>7. CASE i \notin LastOf(C) \/ w.is_deleted
      <4>1. \A j \in LastOf(C) : versions_'[r][j] = versions_[r][j]
        BY <3>5, <3>6, <3>7
      <4> QED BY <1>1, <3>2, <4>1, SameFinding
    <3>8. CASE i \in LastOf(C) /\ ~w.is_deleted
      <4>1. LastOf(Candidates(r, sv))' = LastOf(C)
        BY <3>2 DEF LastOf
      <4>2. \A v \in get_version(r, sv)' : v.is_deleted
        BY <3>5, <3>6, <3>8, <4>1 DEF get_version
      <4>3. Found(r, sv)' = {}
        BY <4>2 DEF Found
      <4>4. w \in Found(r, sv)
        BY <3>8 DEF Found, get_version
      <4> QED BY <1>4, <2>3, <3>3, <4>3, <4>4
    <3> QED BY <3>7, <3>8
  <2> QED BY <2>2, <2>3
<1> QED BY <1>2, <1>3, <1>4 DEF MvccNext, CoordinatorNext, ManagerNext, increment_version, LoadClock,
             acquire_lock, release_lock, mvcc_delete_row, write_row, CheckLock, create_snapshot,
             remove_snapshot, versionVars, mvccVars

(* A read finds the version with the highest clock reading, and the highest  *)
(* id among those, although get_version looks at positions only.             *)
THEOREM NewestRead == MvccSpec => []ReadsNewest
BY NewestInOrder, IInvAlways, PTL

(* Once the clock has passed sv and the writers that had read it before have *)
(* stored, no operation of any manager changes what a read at sv returns but *)
(* a delete_version of the version it returns.                               *)
THEOREM StableReads == MvccSpec => SettledReadsAreStable
BY SettledNext, IInvAlways, PTL DEF MvccSpec, SettledReadsAreStable
=============================================================================
