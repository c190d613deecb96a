------------------------ MODULE TransactionCorrectness ------------------------
(***************************************************************************)
(* The transactional row store of src/src/transaction_correctness.cpp and  *)
(* src/include/dbx4/transaction_state.h.  Every row is a list of versions, *)
(* each stamped with its creator and the creator's outcome; COMMIT and     *)
(* ROLLBACK find the versions to restamp through the transaction's write   *)
(* set.  The functions share unlocked globals, so one call is one step.    *)
(***************************************************************************)
EXTENDS Integers, Sequences, FiniteSets

CONSTANTS TableNames, RowKeys, RowData,
          MaxTx,         \* bound on the transactions begun
          MaxRowVersions    \* bound on the versions of one row

ASSUME MaxTxAssumption == MaxTx \in Nat
ASSUME MaxRowVersionsAssumption == MaxRowVersions \in Nat

VARIABLES tables,       \* tables[t][k]: the versions of row k of table t, oldest first
          created,      \* the tables that exist (keys of the map `tables`)
          active,       \* keys of active_transactions
          write_set,    \* write_set[x][t]: row keys transaction x wrote in table t
          next_tx_id

storeVars == <<tables, created, active, write_set, next_tx_id>>

TxIds == 1..MaxTx

TxState == {"ACTIVE", "COMMITTED", "ABORTED"}

VersionedRowWithTx == [data : RowData, creator_tx_id : TxIds, tx_state : TxState, deleted_at : {-1}]

(* The visibility test without the check that an ACTIVE version is the reader's own. *)
is_visible_to_AnyActive(v, reader) == v.tx_state = "COMMITTED" \/ v.tx_state = "ACTIVE"

(* VersionedRowWithTx::is_visible_to *)
is_visible_to(v, reader) ==
  \/ v.tx_state = "COMMITTED"
  \/ v.creator_tx_id = reader /\ v.tx_state = "ACTIVE"

is_deleted(v) == v.deleted_at >= 0

(* The keys of table t that count_visible_rows counts for this reader. *)
VisibleRows(reader, t) ==
  {k \in RowKeys : \E i \in DOMAIN tables[t][k] :
                   is_visible_to(tables[t][k][i], reader) /\ ~is_deleted(tables[t][k][i])}

count_visible_rows(reader, t) == IF t \in created THEN Cardinality(VisibleRows(reader, t)) ELSE 0

-----------------------------------------------------------------------------
StoreInit == /\ tables = [t \in TableNames |-> [k \in RowKeys |-> <<>>]]
             /\ created = {}
             /\ active = {}
             /\ write_set = [x \in TxIds |-> [t \in TableNames |-> {}]]
             /\ next_tx_id = 1

begin_transaction ==
  /\ next_tx_id <= MaxTx
  /\ next_tx_id' = next_tx_id + 1
  /\ active' = active \cup {next_tx_id}
  /\ write_set' = [write_set EXCEPT ![next_tx_id] = [t \in TableNames |-> {}]]
  /\ UNCHANGED <<tables, created>>

NewRowVersion(x, d) == [data |-> d, creator_tx_id |-> x, tx_state |-> "ACTIVE", deleted_at |-> -1]

(* The insert that forgets to record the row in the write set once it has one. *)
insert_in_tx_Untracked(x, t, k, d) ==
  /\ x \in active
  /\ Len(tables[t][k]) < MaxRowVersions
  /\ created' = created \cup {t}
  /\ tables' = [tables EXCEPT ![t][k] = Append(@, NewRowVersion(x, d))]
  /\ write_set' = [write_set EXCEPT ![x][t] = IF @ = {} THEN {k} ELSE @]
  /\ UNCHANGED <<active, next_tx_id>>

(* The insert that does not make sure the table exists. *)
insert_in_tx_NoTable(x, t, k, d) ==
  /\ x \in active
  /\ Len(tables[t][k]) < MaxRowVersions
  /\ tables' = [tables EXCEPT ![t][k] = Append(@, NewRowVersion(x, d))]
  /\ write_set' = [write_set EXCEPT ![x][t] = @ \cup {k}]
  /\ UNCHANGED <<created, active, next_tx_id>>

insert_in_tx(x, t, k, d) ==
  /\ x \in active
  /\ Len(tables[t][k]) < MaxRowVersions
  /\ created' = created \cup {t}
  /\ tables' = [tables EXCEPT ![t][k] = Append(@, NewRowVersion(x, d))]
  /\ write_set' = [write_set EXCEPT ![x][t] = @ \cup {k}]
  /\ UNCHANGED <<active, next_tx_id>>

(* Restamping every version of a written row, whoever made it. *)
Restamp_WholeRow(x, s, v) == [v EXCEPT !.tx_state = s]

(* The state change both ends of a transaction make: every version that x  *)
(* created, is still ACTIVE and sits under a key of x's write set gets the *)
(* outcome s.                                                              *)
Restamp(x, s, v) ==
  IF v.creator_tx_id = x /\ v.tx_state = "ACTIVE" THEN [v EXCEPT !.tx_state = s] ELSE v

(* Restamping that stops at the first matching version of a row. *)
RestampRow_FirstOnly(x, s, row) ==
  [i \in DOMAIN row |->
     IF \E j \in 1..(i - 1) : row[j].creator_tx_id = x THEN row[i] ELSE Restamp(x, s, row[i])]

RestampRow(x, s, row) == [i \in DOMAIN row |-> Restamp(x, s, row[i])]

Restamped(x, s) ==
  [t \in TableNames |-> [k \in RowKeys |->
     IF t \in created /\ k \in write_set[x][t] THEN RestampRow(x, s, tables[t][k])
                                               ELSE tables[t][k]]]

(* active_transactions.erase takes the write set with it. *)
EraseTransaction(x) == /\ active' = active \ {x}
                       /\ write_set' = [write_set EXCEPT ![x] = [t \in TableNames |-> {}]]

(* Phase 1 of commit: every table of the write set still exists. *)
Validated(x) == \A t \in TableNames : write_set[x][t] # {} => t \in created

commit_transaction(x) ==
  /\ x \in active
  /\ Validated(x)
  /\ tables' = Restamped(x, "COMMITTED")
  /\ EraseTransaction(x)
  /\ UNCHANGED <<created, next_tx_id>>

(* A rollback that stamps the outcome of a commit. *)
rollback_transaction_Publishes(x) ==
  /\ x \in active
  /\ tables' = Restamped(x, "COMMITTED")
  /\ EraseTransaction(x)
  /\ UNCHANGED <<created, next_tx_id>>

rollback_transaction(x) ==
  /\ x \in active
  /\ tables' = Restamped(x, "ABORTED")
  /\ EraseTransaction(x)
  /\ UNCHANGED <<created, next_tx_id>>

StoreNext == \/ begin_transaction
             \/ \E x \in TxIds :
                  \/ \E t \in TableNames, k \in RowKeys, d \in RowData : insert_in_tx(x, t, k, d)
                  \/ commit_transaction(x)
                  \/ rollback_transaction(x)

StoreSpec == StoreInit /\ [][StoreNext]_storeVars

-----------------------------------------------------------------------------
(* Every variable has the shape of the C++ global it stands for. *)
StoreTypeOK == /\ tables \in [TableNames -> [RowKeys -> Seq(VersionedRowWithTx)]]
               /\ created \in SUBSET TableNames
               /\ active \in SUBSET TxIds
               /\ write_set \in [TxIds -> [TableNames -> SUBSET RowKeys]]
               /\ next_tx_id \in 1..(MaxTx + 1)

(* The versions stored under row k of table t, as a set of positions. *)
Versions(t, k) == DOMAIN tables[t][k]

(* Transaction ids are handed out once: nothing names an id that            *)
(* begin_transaction has not returned yet, so a new transaction can never   *)
(* adopt an old one's versions or write set.                                *)
IdsIssued == /\ \A x \in active : x < next_tx_id
             /\ \A t \in TableNames, k \in RowKeys : \A i \in Versions(t, k) :
                  tables[t][k][i].creator_tx_id < next_tx_id

(* No orphan: a version is ACTIVE exactly while its creator is running, and *)
(* then commit and rollback can find it, because its table exists and its   *)
(* key is in the creator's write set.  An orphan would stay invisible, or   *)
(* be restamped by nobody, for ever.                                        *)
NoOrphanVersion ==
  \A t \in TableNames, k \in RowKeys : \A i \in Versions(t, k) :
    LET v == tables[t][k][i] IN
      /\ v.tx_state = "ACTIVE" <=> v.creator_tx_id \in active
      /\ v.tx_state = "ACTIVE" => t \in created /\ k \in write_set[v.creator_tx_id][t]

(* Phase 1 of commit_transaction never refuses a running transaction: every *)
(* table of a write set exists.                                             *)
CommitNeverRefused == \A x \in active : Validated(x)

(* Atomicity over rows and tables: all versions one transaction ever made   *)
(* carry the same state, so no reader finds half of a commit or the remains *)
(* of a rollback.                                                           *)
AllOrNothing ==
  \A t1, t2 \in TableNames, k1, k2 \in RowKeys :
    \A i \in Versions(t1, k1), j \in Versions(t2, k2) :
      tables[t1][k1][i].creator_tx_id = tables[t2][k2][j].creator_tx_id
        => tables[t1][k1][i].tx_state = tables[t2][k2][j].tx_state

(* What a step may do to one stored version. *)
KeptVersion(old, new) ==
  /\ new.data = old.data /\ new.creator_tx_id = old.creator_tx_id
  /\ old.tx_state # "ACTIVE" => new.tx_state = old.tx_state

OutcomeStep ==
  \A t \in TableNames, k \in RowKeys :
    /\ Len(tables[t][k]) <= Len(tables'[t][k])
    /\ \A i \in Versions(t, k) : KeptVersion(tables[t][k][i], tables'[t][k][i])

(* COMMITTED and ABORTED are final, and no step drops, reorders or rewrites *)
(* a stored version: rows only grow and only ACTIVE versions are restamped. *)
OutcomeIsFinal == [][OutcomeStep]_storeVars

ReaderStep ==
  \A r \in TxIds \cup {0}, t \in TableNames :
    /\ VisibleRows(r, t) \subseteq VisibleRows(r, t)' \/ r \in active \ active'
    /\ \/ VisibleRows(r, t)' \subseteq VisibleRows(r, t)
       \/ r \in active /\ write_set[r] # write_set'[r]
       \/ active \ active' # {}

(* READ COMMITTED with read-your-own-writes, as count_visible_rows gives it:*)
(* what reader r sees of a table shrinks only when r itself ends, and grows *)
(* only by r's own insert or by the end of another transaction.  Reader 0   *)
(* is one that runs outside any transaction.                                *)
ReadCommitted == [][ReaderStep]_storeVars

(* The refinement: a row is published once some version of it is COMMITTED, *)
(* and pending for x while x's version of it is ACTIVE.                     *)
RowVersions == TableNames \X RowKeys \X RowData

PendingOf(x) ==
  {r \in RowVersions : \E i \in Versions(r[1], r[2]) :
     LET v == tables[r[1]][r[2]][i]
     IN  v.data = r[3] /\ v.creator_tx_id = x /\ v.tx_state = "ACTIVE"}

Published ==
  {r \in RowVersions : \E i \in Versions(r[1], r[2]) :
     LET v == tables[r[1]][r[2]][i] IN v.data = r[3] /\ v.tx_state = "COMMITTED"}

Store == INSTANCE AtomicStore
           WITH Rows <- RowVersions,
                open <- active,
                ended <- (1..(next_tx_id - 1)) \ active,
                pending <- [x \in TxIds |-> PendingOf(x)],
                published <- Published

(* What each call is in the atomic store. *)
CallsMatch ==
  /\ begin_transaction => Store!ABegin(next_tx_id)
  /\ \A x \in TxIds :
       /\ \A t \in TableNames, k \in RowKeys, d \in RowData :
            insert_in_tx(x, t, k, d) => Store!AInsert(x, <<t, k, d>>)
       /\ commit_transaction(x) => Store!ACommit(x)
       /\ rollback_transaction(x) => Store!ARollback(x)

(* Marking versions one by one implements the atomic store, call by call:   *)
(* begin, insert, commit and rollback are each the abstract step of the     *)
(* same name, so no commit drops a row and no rollback publishes one.       *)
ImplementsAtomicStore == Store!ASpec /\ [][CallsMatch]_storeVars
=============================================================================
