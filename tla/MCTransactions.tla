--------------------------- MODULE MCTransactions ---------------------------
(***************************************************************************)
(* The four implementations of transactions and their log: the versioned   *)
(* row store, the manager with its undo log, the MVCC coordinator and the  *)
(* write-ahead log.  They share no state, so each behaviour exercises one  *)
(* of them: part says which.                                               *)
(*                                                                         *)
(* The row store: two transactions over two tables, so that one of them    *)
(* can end while the other has half of its writes in each table, and two   *)
(* versions per row, so that a transaction can write a row twice.  MVCC:   *)
(* three transactions compete for one row while the clock advances; their  *)
(* ids are numbers because read_row looks a snapshot up by the id of the   *)
(* transaction.                                                            *)
(***************************************************************************)
EXTENDS TransactionCorrectness, MCTransactionManager, MVCC, MCWAL

VARIABLE part

vars == <<storeVars, txnVars, mvccVars, walVars, part>>

Init == /\ StoreInit /\ TxnInit /\ MvccInit /\ WalInit
        /\ part \in {"store", "manager", "mvcc", "wal"}

Next == \/ part = "store" /\ StoreNext /\ UNCHANGED <<txnVars, mvccVars, walVars, part>>
        \/ part = "manager" /\ TxnNext /\ UNCHANGED <<storeVars, mvccVars, walVars, part>>
        \/ part = "mvcc" /\ MvccNext /\ UNCHANGED <<storeVars, txnVars, walVars, part>>
        \/ part = "wal" /\ WalNext /\ UNCHANGED <<storeVars, txnVars, mvccVars, part>>

Spec == Init /\ [][Next]_vars
=============================================================================
