-------------------------------- MODULE MVCC --------------------------------
(***************************************************************************)
(* src/src/mvcc_locks.cpp: SnapshotManager, VersionManager, LockManager    *)
(* and the MVCCCoordinator that combines them.  Each manager guards its    *)
(* map with its own mutex and the version clock is an atomic, so a call of *)
(* the coordinator is several steps: write_row checks the row lock, then   *)
(* reads the clock, then stores the version, and other threads run in      *)
(* between.  Each transaction is driven by one thread, which makes one     *)
(* call at a time.                                                         *)
(***************************************************************************)
EXTENDS Integers, Sequences, FiniteSets

CONSTANTS MvccTxns, Rows, RowValues,
          EmptyData,      \* the empty byte vector that mvcc_delete_row stores
          MaxClock,       \* bound on next_version_
          MaxVersions,    \* bound on the versions of one row
          MaxSnapshots,   \* bound on the snapshots ever created
          MaxWaiters      \* bound on the queue of one row

ASSUME BoundsAssumption == /\ MaxClock \in Nat /\ MaxVersions \in Nat
                           /\ MaxSnapshots \in Nat /\ MaxWaiters \in Nat

VARIABLES snapshots_, next_snapshot_id_,   \* SnapshotManager: id -> snapshot_version
          versions_, next_version_id_,     \* VersionManager: row -> its versions, oldest first
          row_locks_, lock_waiters_,       \* LockManager: row -> holders, row -> queue
          next_version_,                   \* MVCCCoordinator: the version clock
          call                             \* what each transaction's thread is in the middle of

mvccVars == <<snapshots_, next_snapshot_id_, versions_, next_version_id_, row_locks_, lock_waiters_,
          next_version_, call>>

snapshotVars == <<snapshots_, next_snapshot_id_>>
versionVars == <<versions_, next_version_id_>>
lockVars == <<row_locks_, lock_waiters_>>

Data == RowValues \cup {EmptyData}

Version == [version_id : Nat, txn_id : MvccTxns, snapshot_version : Nat, data : Data, is_deleted : BOOLEAN]

(* A thread is idle, or inside write_row or mvcc_delete_row: past the lock check, *)
(* or past the reading of the clock as well.                                 *)
Idle == [at |-> "idle"]
Checked(r, d) == [at |-> "checked", row |-> r, data |-> d]
Loaded(r, d, sv) == [at |-> "loaded", row |-> r, data |-> d, version |-> sv]

Calls == [at : {"idle"}] \cup [at : {"checked"}, row : Rows, data : Data]
           \cup [at : {"loaded"}, row : Rows, data : Data, version : Nat]

-----------------------------------------------------------------------------
MvccInit == /\ snapshots_ = <<>> /\ next_snapshot_id_ = 0
            /\ versions_ = [r \in Rows |-> <<>>] /\ next_version_id_ = 0
            /\ row_locks_ = [r \in Rows |-> {}] /\ lock_waiters_ = [r \in Rows |-> <<>>]
            /\ next_version_ = 0
            /\ call = [t \in MvccTxns |-> Idle]

(* SnapshotManager *)
create_snapshot(sv) ==
  /\ next_snapshot_id_ < MaxSnapshots
  /\ snapshots_' = [i \in DOMAIN snapshots_ \cup {next_snapshot_id_} |->
                      IF i = next_snapshot_id_ THEN sv ELSE snapshots_[i]]
  /\ next_snapshot_id_' = next_snapshot_id_ + 1
  /\ UNCHANGED <<versionVars, lockVars, next_version_, call>>

remove_snapshot(id) ==
  /\ id \in DOMAIN snapshots_
  /\ snapshots_' = [i \in DOMAIN snapshots_ \ {id} |-> snapshots_[i]]
  /\ UNCHANGED <<next_snapshot_id_, versionVars, lockVars, next_version_, call>>

(* VersionManager *)
NewVersion(t, sv, d) == [version_id |-> next_version_id_, txn_id |-> t, snapshot_version |-> sv,
                         data |-> d, is_deleted |-> FALSE]

create_version(r, t, sv, d) ==
  /\ Len(versions_[r]) < MaxVersions
  /\ versions_' = [versions_ EXCEPT ![r] = Append(@, NewVersion(t, sv, d))]
  /\ next_version_id_' = next_version_id_ + 1

delete_version(r, id) ==
  /\ \E i \in DOMAIN versions_[r] :
       /\ versions_[r][i].version_id = id
       /\ versions_' = [versions_ EXCEPT ![r][i].is_deleted = TRUE]
  /\ UNCHANGED <<snapshotVars, next_version_id_, lockVars, next_version_, call>>

(* get_version: the last stored version that is not newer than sv. *)
Candidates(r, sv) == {i \in DOMAIN versions_[r] : versions_[r][i].snapshot_version <= sv}

(* The search that stops at its first hit. *)
LastOf_First(S) == {i \in S : \A j \in S : i <= j}

LastOf(S) == {i \in S : \A j \in S : j <= i}

(* An optional is the set of what it holds. *)
get_version(r, sv) == {versions_[r][i] : i \in LastOf(Candidates(r, sv))}

(* LockManager *)

(* The lock check that asks only whether somebody holds the row. *)
is_locked_ByAnyone(r, t) == row_locks_[r] # {}

is_locked(r, t) == t \in row_locks_[r]

(* Letting a second transaction in beside the holder. *)
acquire_lock_Shared(r, t, blocking) ==
  /\ call[t] = Idle
  /\ row_locks_' = [row_locks_ EXCEPT ![r] = @ \cup {t}]
  /\ UNCHANGED <<lock_waiters_, snapshotVars, versionVars, next_version_, call>>

acquire_lock(r, t, blocking) ==
  /\ call[t] = Idle
  /\ \/ /\ row_locks_[r] = {}
        /\ row_locks_' = [row_locks_ EXCEPT ![r] = {t}]
        /\ UNCHANGED lock_waiters_
     \/ /\ row_locks_[r] # {} /\ blocking
        /\ Len(lock_waiters_[r]) < MaxWaiters
        /\ lock_waiters_' = [lock_waiters_ EXCEPT ![r] = Append(@, t)]
        /\ UNCHANGED row_locks_
  /\ UNCHANGED <<snapshotVars, versionVars, next_version_, call>>

release_lock(r, t) ==
  /\ call[t] = Idle
  /\ row_locks_' = [row_locks_ EXCEPT ![r] = @ \ {t}]
  /\ UNCHANGED <<lock_waiters_, snapshotVars, versionVars, next_version_, call>>

(* MVCCCoordinator.  write_row and mvcc_delete_row differ in the data they store. *)
increment_version ==
  /\ next_version_ < MaxClock
  /\ next_version_' = next_version_ + 1
  /\ UNCHANGED <<snapshotVars, versionVars, lockVars, call>>

CheckLock(r, t, d) ==
  /\ call[t] = Idle
  /\ is_locked(r, t)
  /\ call' = [call EXCEPT ![t] = Checked(r, d)]
  /\ UNCHANGED <<snapshotVars, versionVars, lockVars, next_version_>>

LoadClock(t) ==
  /\ call[t].at = "checked"
  /\ call' = [call EXCEPT ![t] = Loaded(call[t].row, call[t].data, next_version_)]
  /\ UNCHANGED <<snapshotVars, versionVars, lockVars, next_version_>>

(* A version stored without its clock reading. *)
StoreVersion_Unstamped(t) ==
  /\ call[t].at = "loaded"
  /\ create_version(call[t].row, t, 0, call[t].data)
  /\ call' = [call EXCEPT ![t] = Idle]
  /\ UNCHANGED <<snapshotVars, lockVars, next_version_>>

StoreVersion(t) ==
  /\ call[t].at = "loaded"
  /\ create_version(call[t].row, t, call[t].version, call[t].data)
  /\ call' = [call EXCEPT ![t] = Idle]
  /\ UNCHANGED <<snapshotVars, lockVars, next_version_>>

(* What a read of row r at sv finds: the version, unless it is deleted. *)
Found(r, sv) == {v \in get_version(r, sv) : ~v.is_deleted}

(* read_row uses the transaction id as the id of its snapshot. *)
read_row(r, t) == IF t \in DOMAIN snapshots_ THEN {v.data : v \in Found(r, snapshots_[t])} ELSE {}

write_row(r, t, d) == CheckLock(r, t, d)
mvcc_delete_row(r, t) == CheckLock(r, t, EmptyData)

(* What the coordinator's own methods can do. *)
CoordinatorNext ==
  \/ increment_version
  \/ \E t \in MvccTxns :
       \/ LoadClock(t)
       \/ StoreVersion(t)
       \/ \E r \in Rows : \/ acquire_lock(r, t, FALSE)
                          \/ release_lock(r, t)
                          \/ mvcc_delete_row(r, t)
                          \/ \E d \in RowValues : write_row(r, t, d)

(* The managers' other public operations, which no method of the coordinator *)
(* calls.  A snapshot is taken at the version get_snapshot_version returns.  *)
ManagerNext ==
  \/ create_snapshot(next_version_)
  \/ \E id \in 0..MaxSnapshots : remove_snapshot(id)
  \/ \E r \in Rows : \/ \E t \in MvccTxns : acquire_lock(r, t, TRUE)
                     \/ \E id \in 0..next_version_id_ : delete_version(r, id)

MvccNext == CoordinatorNext \/ ManagerNext

MvccSpec == MvccInit /\ [][MvccNext]_mvccVars

CoordinatorSpec == MvccInit /\ [][CoordinatorNext]_mvccVars

-----------------------------------------------------------------------------
(* Every variable has the shape of the member it stands for. *)
MvccTypeOK == /\ snapshots_ \in [DOMAIN snapshots_ -> Nat] /\ next_snapshot_id_ \in Nat
              /\ versions_ \in [Rows -> Seq(Version)] /\ next_version_id_ \in Nat
              /\ row_locks_ \in [Rows -> SUBSET MvccTxns] /\ lock_waiters_ \in [Rows -> Seq(MvccTxns)]
              /\ next_version_ \in Nat
              /\ call \in [MvccTxns -> Calls]

Writing(t) == call[t].at \in {"checked", "loaded"}

(* Between the lock check of write_row and the storing of the version the    *)
(* lock stays where it was: the writer, and nobody else, holds the row.      *)
WriterHoldsRow ==
  \A t \in MvccTxns : Writing(t) => row_locks_[call[t].row] = {t}

(* The versions of a row are stored in the order of the clock and of their   *)
(* ids, although the clock is read before the version store is locked: no    *)
(* writer in flight carries a clock reading older than the row's last        *)
(* version.                                                                  *)
VersionsInOrder ==
  /\ \A r \in Rows : \A i, j \in DOMAIN versions_[r] :
       i < j => /\ versions_[r][i].snapshot_version <= versions_[r][j].snapshot_version
                /\ versions_[r][i].version_id < versions_[r][j].version_id
  /\ \A t \in MvccTxns : call[t].at = "loaded" =>
       \A i \in DOMAIN versions_[call[t].row] :
          versions_[call[t].row][i].snapshot_version <= call[t].version

(* get_version picks by position; the row's newest version visible at sv is  *)
(* the one with the highest clock reading, and the highest id among those.   *)
ReadsNewest ==
  \A r \in Rows, sv \in 0..MaxClock : \A i \in Candidates(r, sv) : \E got \in get_version(r, sv) :
    LET v == versions_[r][i] IN
      \/ v.snapshot_version < got.snapshot_version
      \/ v.snapshot_version = got.snapshot_version /\ v.version_id <= got.version_id

(* The clock has passed sv, and no writer of the row still carries a reading *)
(* of sv or less.                                                            *)
Settled(r, sv) ==
  /\ sv < next_version_
  /\ \A t \in MvccTxns : call[t].at = "loaded" /\ call[t].row = r => sv < call[t].version

SettledStep ==
  \A r \in Rows, sv \in 0..MaxClock : Settled(r, sv) =>
    \/ Found(r, sv)' = Found(r, sv)
    \/ Found(r, sv)' = {} /\ \E v \in Found(r, sv) : delete_version(r, v.version_id)

(* Once the clock has passed sv and the writers that had read it before have *)
(* stored, only one thing changes what read_row returns for a row at sv: a   *)
(* delete_version of the very version it returned, after which it returns    *)
(* nothing for ever.  No later write, commit order or snapshot does.         *)
SettledReadsAreStable == [][SettledStep]_mvccVars

(* "Read-your-own-writes visibility": a transaction that has written a row,  *)
(* and still holds it, reads its own data back.                              *)
ReadYourOwnWrites ==
  \A r \in Rows, t \in MvccTxns :
    (/\ is_locked(r, t) /\ call[t] = Idle /\ versions_[r] # <<>>
     /\ versions_[r][Len(versions_[r])].txn_id = t
     /\ versions_[r][Len(versions_[r])].data # EmptyData)
      => read_row(r, t) = {versions_[r][Len(versions_[r])].data}
=============================================================================
