-------------------------- MODULE TransactionManager --------------------------
(***************************************************************************)
(* TransactionManager of src/src/transaction_manager.cpp: transactions     *)
(* with a private write buffer and an undo log.  txn_lock is held for the  *)
(* whole of every call, so one call is one step.  No call but begin looks  *)
(* at whether the transaction is still active; none ever removes it.       *)
(*                                                                         *)
(* The callers pass the version they replace.  It is modelled as the one   *)
(* they see: their own latest write, or else the stored row, which this    *)
(* code never touches.                                                     *)
(***************************************************************************)
EXTENDS Integers, Sequences, SequencesExt, FiniteSets

CONSTANTS TxnIds,
          Tables, RowIds,   \* names, as the sequences of the parts between their colons
          Values,
          Stored,           \* the rows outside, as a function from keys to rows or NoRow
          NoRow,
          MaxUndo           \* bound on the length of an undo log

VARIABLES transactions   \* the map from transaction id to Transaction

txnVars == transactions

(* table + ":" + row_id *)
Key(table, row) == table \o row

Keys == {Key(t, r) : t \in Tables, r \in RowIds}

VersionedRow == [data : Values, is_deleted : BOOLEAN]

ASSUME StoredAssumption == Stored \in [Keys -> VersionedRow \cup {NoRow}]

(* The default-constructed old_version of an INSERT, marked as deleted. *)
Nothing == [data |-> NoRow, is_deleted |-> TRUE]

UndoLogEntry == [key : Keys, old_version : VersionedRow \cup {Nothing},
                 operation : {"INSERT", "UPDATE", "DELETE"}]

NewTransaction == [active |-> TRUE, committed |-> FALSE, local_writes |-> <<>>,
                   undo_log |-> <<>>, read_set |-> {}, write_set |-> {}]

(* Assignment to one key of a map, and erase. *)
Put(map, k, v) == [x \in DOMAIN map \cup {k} |-> IF x = k THEN v ELSE map[x]]
Erase(map, k) == [x \in DOMAIN map \ {k} |-> map[x]]

-----------------------------------------------------------------------------
TxnInit == transactions = <<>>

begin(t) == /\ t \notin DOMAIN transactions
            /\ transactions' = Put(transactions, t, NewTransaction)

(* A write that records an undo entry only for the first change of a row. *)
Record_UndoOnce(t, k, operation, old, new) ==
  /\ t \in DOMAIN transactions
  /\ Len(transactions[t].undo_log) < MaxUndo
  /\ transactions' =
       [transactions EXCEPT
          ![t].undo_log = IF k \in transactions[t].write_set THEN @
                          ELSE Append(@, [key |-> k, old_version |-> old, operation |-> operation]),
          ![t].local_writes = Put(@, k, new),
          ![t].write_set = @ \cup {k}]

(* What every write does: undo entry, local version, write set. *)
Record(t, k, operation, old, new) ==
  /\ t \in DOMAIN transactions
  /\ Len(transactions[t].undo_log) < MaxUndo
  /\ transactions' =
       [transactions EXCEPT
          ![t].undo_log = Append(@, [key |-> k, old_version |-> old, operation |-> operation]),
          ![t].local_writes = Put(@, k, new),
          ![t].write_set = @ \cup {k}]

(* The version a caller has in hand when it replaces row k. *)
Seen(t, k) == IF k \in DOMAIN transactions[t].local_writes
                THEN transactions[t].local_writes[k] ELSE Stored[k]

insert(t, table, row, v) ==
  Record(t, Key(table, row), "INSERT", Nothing, [data |-> v, is_deleted |-> FALSE])

update(t, table, row, v) ==
  LET k == Key(table, row) IN
    /\ t \in DOMAIN transactions
    /\ Seen(t, k) # NoRow
    /\ Record(t, k, "UPDATE", Seen(t, k), [data |-> v, is_deleted |-> FALSE])

delete_row(t, table, row) ==
  LET k == Key(table, row) IN
    /\ t \in DOMAIN transactions
    /\ Seen(t, k) # NoRow
    /\ Record(t, k, "DELETE", Seen(t, k), [Seen(t, k) EXCEPT !.is_deleted = TRUE])

(* The read set grows whether or not the row is found. *)
read(t, table, row) ==
  /\ t \in DOMAIN transactions
  /\ transactions' = [transactions EXCEPT ![t].read_set = @ \cup {Key(table, row)}]

commit(t) ==
  /\ t \in DOMAIN transactions
  /\ transactions' = [transactions EXCEPT ![t].active = FALSE, ![t].committed = TRUE]

(* One round of the loop in rollback. *)
UndoOne(map, entry) == IF entry.operation = "INSERT" THEN Erase(map, entry.key)
                                                     ELSE Put(map, entry.key, entry.old_version)

(* The loop run from the oldest entry on. *)
Undone_Forward(txn) == FoldLeft(UndoOne, txn.local_writes, txn.undo_log)

(* The loop, round by round: the undo log played from its newest entry to  *)
(* its oldest.                                                             *)
Undone(txn) ==
  LET n == Len(txn.undo_log)
      back[i \in 0..n] == IF i = 0 THEN txn.local_writes
                          ELSE UndoOne(back[i - 1], txn.undo_log[n + 1 - i])
  IN  back[n]

(* The local writes are cleared after the loop has restored them. *)
rollback(t) ==
  /\ t \in DOMAIN transactions
  /\ transactions' = [transactions EXCEPT ![t].active = FALSE, ![t].committed = FALSE,
                                          ![t].local_writes = <<>>, ![t].undo_log = <<>>]

TxnNext == \E t \in TxnIds :
             \/ begin(t)
             \/ \E table \in Tables, row \in RowIds :
                  \/ \E v \in Values : insert(t, table, row, v) \/ update(t, table, row, v)
                  \/ delete_row(t, table, row)
                  \/ read(t, table, row)
             \/ commit(t)
             \/ rollback(t)

TxnSpec == TxnInit /\ [][TxnNext]_txnVars

-----------------------------------------------------------------------------
(* Every transaction record has the fields of struct Transaction, and is     *)
(* never active and committed at once.                                       *)
TxnTypeOK ==
  /\ DOMAIN transactions \subseteq TxnIds
  /\ \A t \in DOMAIN transactions :
       LET txn == transactions[t] IN
         /\ txn.active \in BOOLEAN /\ txn.committed \in BOOLEAN
         /\ ~(txn.active /\ txn.committed)
         /\ DOMAIN txn.local_writes \subseteq Keys
         /\ \A k \in DOMAIN txn.local_writes : txn.local_writes[k] \in VersionedRow
         /\ txn.undo_log \in Seq(UndoLogEntry)
         /\ txn.read_set \subseteq Keys /\ txn.write_set \subseteq Keys

(* The buffer, the undo log and the write set never drift apart: exactly the *)
(* rows in the buffer have an undo entry, and all of them are in the write   *)
(* set, through any mixture of writes, commits and rollbacks.                *)
EveryWriteUndoable ==
  \A t \in DOMAIN transactions :
    LET txn == transactions[t] IN
      /\ DOMAIN txn.local_writes = {txn.undo_log[i].key : i \in DOMAIN txn.undo_log}
      /\ DOMAIN txn.local_writes \subseteq txn.write_set

(* "Rollback via undo log reversal": at any moment, playing the undo log     *)
(* backwards takes the transaction back to the rows as they are stored,      *)
(* for every order of inserts, updates, deletes and re-inserts of a row.     *)
UndoRestoresStored ==
  \A t \in DOMAIN transactions :
    LET back == Undone(transactions[t]) IN
      \A k \in DOMAIN back : back[k] = Stored[k]

CommitStep ==
  \A t \in DOMAIN transactions :
    transactions[t].committed =>
      /\ transactions'[t].committed
      /\ DOMAIN transactions[t].local_writes \subseteq DOMAIN transactions'[t].local_writes

(* "Commit: make all local changes permanent": no later call takes the       *)
(* commit or its rows back.                                                  *)
CommitIsFinal == [][CommitStep]_txnVars
=============================================================================
