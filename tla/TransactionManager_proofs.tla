---------------------- MODULE TransactionManager_proofs ----------------------
(***************************************************************************)
(* For any transactions, tables, rows and values, and undo logs of any     *)
(* length: every buffered write can be undone, and the undo log played     *)
(* backwards restores the stored rows.                                     *)
(***************************************************************************)
EXTENDS TransactionManager, SequenceTheorems, WellFoundedInduction, TLAPS

Buffers == UNION {[D -> VersionedRow] : D \in SUBSET Keys}

Transaction == [active : BOOLEAN, committed : BOOLEAN, local_writes : Buffers,
                undo_log : Seq(UndoLogEntry), read_set : SUBSET Keys, write_set : SUBSET Keys]

Logged(log) == {log[i].key : i \in 1..Len(log)}

(* The oldest entry of a row, unless it is of an insert, holds the stored  *)
(* version: there was nothing in the buffer to replace.                    *)
OldestIsStored(log) ==
  \A i \in 1..Len(log) :
    /\ log[i].operation # "INSERT"
    /\ \A j \in 1..(i - 1) : log[j].key # log[i].key
    => log[i].old_version = Stored[log[i].key]

Good(txn) == /\ txn \in Transaction /\ ~(txn.active /\ txn.committed)
             /\ DOMAIN txn.local_writes = Logged(txn.undo_log)
             /\ DOMAIN txn.local_writes \subseteq txn.write_set
             /\ OldestIsStored(txn.undo_log)

(* The inductive invariant. *)
IInv == /\ DOMAIN transactions \subseteq TxnIds
        /\ transactions = [t \in DOMAIN transactions |-> transactions[t]]
        /\ \A t \in DOMAIN transactions : Good(transactions[t])

-----------------------------------------------------------------------------
(* Assignment and erase on a buffer. *)
LEMMA PutBuffer ==
  ASSUME NEW map \in Buffers, NEW k \in Keys, NEW v \in VersionedRow
  PROVE  Put(map, k, v) \in Buffers /\ DOMAIN Put(map, k, v) = DOMAIN map \cup {k}
<1>1. PICK D \in SUBSET Keys : map \in [D -> VersionedRow]
  BY DEF Buffers
<1>2. D \cup {k} \in SUBSET Keys
  OBVIOUS
<1>3. Put(map, k, v) \in [D \cup {k} -> VersionedRow]
  BY <1>1 DEF Put
<1> QED BY <1>1, <1>2, <1>3 DEF Buffers, Put

(* An undo log with one more entry. *)
LEMMA LogGrows ==
  ASSUME NEW log \in Seq(UndoLogEntry), OldestIsStored(log), NEW e \in UndoLogEntry,
         e.operation # "INSERT" /\ e.key \notin Logged(log) => e.old_version = Stored[e.key]
  PROVE  /\ Append(log, e) \in Seq(UndoLogEntry)
         /\ Logged(Append(log, e)) = Logged(log) \cup {e.key}
         /\ OldestIsStored(Append(log, e))
<1> DEFINE now == Append(log, e)
           n == Len(log)
<1>1. /\ now \in Seq(UndoLogEntry) /\ Len(now) = n + 1 /\ n \in Nat
      /\ now[n + 1] = e /\ \A i \in 1..n : now[i] = log[i]
  OBVIOUS
<1> HIDE DEF now, n
<1>2. Logged(now) = Logged(log) \cup {e.key}
  <2>1. \A i \in 1..(n + 1) : i \in 1..n \/ i = n + 1
    BY <1>1
  <2>2. n + 1 \in 1..(n + 1) /\ \A i \in 1..n : i \in 1..(n + 1)
    BY <1>1
  <2> QED BY <1>1, <2>1, <2>2 DEF Logged, n
<1>3. ASSUME NEW i \in 1..Len(now), now[i].operation # "INSERT",
             \A j \in 1..(i - 1) : now[j].key # now[i].key
      PROVE  now[i].old_version = Stored[now[i].key]
  <2>1. CASE i = n + 1
    <3>1. \A j \in 1..n : j \in 1..(i - 1)
      BY <1>1, <2>1
    <3>2. e.key \notin Logged(log)
      BY <1>1, <1>3, <2>1, <3>1 DEF Logged, n
    <3> QED BY <1>1, <1>3, <2>1, <3>2
  <2>2. CASE i # n + 1
    <3>1. i \in 1..n /\ \A j \in 1..(i - 1) : j \in 1..n
      BY <1>1, <2>2
    <3> QED BY <1>1, <1>3, <3>1 DEF OldestIsStored, n
  <2> QED BY <2>1, <2>2
<1>4. OldestIsStored(now)
  BY <1>3 DEF OldestIsStored
<1> QED BY <1>1, <1>2, <1>4 DEF now

(* The record after a commit. *)
LEMMA RecordCommit ==
  ASSUME NEW txn \in Transaction, NEW x \in BOOLEAN, NEW y \in BOOLEAN
  PROVE  LET r == [txn EXCEPT !.active = x, !.committed = y]
         IN  /\ r \in Transaction /\ r.active = x /\ r.committed = y /\ r.write_set = txn.write_set
             /\ r.undo_log = txn.undo_log /\ r.local_writes = txn.local_writes
  BY DEF Transaction

(* A call that changes the record of one transaction. *)
LEMMA OneChanges ==
  ASSUME IInv, NEW t \in DOMAIN transactions, NEW r, Good(r),
         transactions' = [transactions EXCEPT ![t] = r]
  PROVE  IInv'
<1>1. /\ DOMAIN transactions' = DOMAIN transactions /\ transactions'[t] = r
      /\ \A u \in DOMAIN transactions : u # t => transactions'[u] = transactions[u]
      /\ transactions' = [u \in DOMAIN transactions' |-> transactions'[u]]
  BY DEF IInv
<1>2. \A u \in DOMAIN transactions' : Good(transactions'[u])
  BY <1>1 DEF IInv
<1> QED BY <1>1, <1>2 DEF IInv

(* insert, update and delete_row. *)
LEMMA RecordInv ==
  ASSUME IInv, NEW t, NEW k \in Keys, NEW operation \in {"INSERT", "UPDATE", "DELETE"},
         NEW old \in VersionedRow \cup {Nothing}, NEW new \in VersionedRow,
         Record(t, k, operation, old, new),
         operation # "INSERT" /\ k \notin DOMAIN transactions[t].local_writes => old = Stored[k]
  PROVE  IInv'
<1> DEFINE txn == transactions[t]
           e == [key |-> k, old_version |-> old, operation |-> operation]
           log == Append(txn.undo_log, e)
           writes == Put(txn.local_writes, k, new)
           set == txn.write_set \cup {k}
           r == [txn EXCEPT !.undo_log = log, !.local_writes = writes, !.write_set = set]
<1>1. t \in DOMAIN transactions /\ Good(txn) /\ txn \in Transaction
  BY DEF Record, IInv, Good
<1>2. e \in UndoLogEntry /\ e.key = k /\ e.operation = operation /\ e.old_version = old
  BY DEF UndoLogEntry
<1>3. /\ txn.undo_log \in Seq(UndoLogEntry) /\ txn.local_writes \in Buffers
      /\ txn.read_set \in SUBSET Keys /\ txn.write_set \in SUBSET Keys
      /\ txn.active \in BOOLEAN /\ txn.committed \in BOOLEAN
  BY <1>1 DEF Transaction
<1>4. /\ log \in Seq(UndoLogEntry) /\ Logged(log) = Logged(txn.undo_log) \cup {k} /\ OldestIsStored(log)
  <2>1. OldestIsStored(txn.undo_log) /\ DOMAIN txn.local_writes = Logged(txn.undo_log)
    BY <1>1 DEF Good
  <2>2. e.operation # "INSERT" /\ e.key \notin Logged(txn.undo_log) => e.old_version = Stored[e.key]
    BY <1>2, <2>1
  <2> HIDE DEF e, txn
  <2> QED BY <1>2, <1>3, <2>1, <2>2, LogGrows
<1>5. writes \in Buffers /\ DOMAIN writes = DOMAIN txn.local_writes \cup {k}
  BY <1>3, PutBuffer
<1>6. transactions' = [transactions EXCEPT ![t] = r]
  BY DEF Record
<1>7. /\ r \in Transaction /\ r.undo_log = log /\ r.local_writes = writes
      /\ r.write_set = set
      /\ r.active = txn.active /\ r.committed = txn.committed
  <2>1. set \in SUBSET Keys
    BY <1>3
  <2>2. log \in Seq(UndoLogEntry) /\ writes \in Buffers /\ txn \in Transaction
    BY <1>1, <1>4, <1>5
  <2> HIDE DEF txn, log, writes, set
  <2> QED BY <2>1, <2>2 DEF Transaction
<1>8. Good(r)
  <2>1. /\ DOMAIN txn.local_writes = Logged(txn.undo_log) /\ DOMAIN txn.local_writes \subseteq txn.write_set
        /\ ~(txn.active /\ txn.committed)
    BY <1>1 DEF Good
  <2> HIDE DEF txn, log, writes, r
  <2> QED BY <1>4, <1>5, <1>7, <2>1 DEF Good
<1> HIDE DEF r
<1> QED BY <1>1, <1>6, <1>8, OneChanges

(* What a caller sees of a row is a version of it, or NoRow. *)
LEMMA SeenType ==
  ASSUME IInv, NEW t \in DOMAIN transactions, NEW k \in Keys
  PROVE  /\ Seen(t, k) \in VersionedRow \cup {NoRow}
         /\ k \notin DOMAIN transactions[t].local_writes => Seen(t, k) = Stored[k]
<1>1. transactions[t].local_writes \in Buffers
  BY DEF IInv, Good, Transaction
<1>2. PICK D \in SUBSET Keys : transactions[t].local_writes \in [D -> VersionedRow]
  BY <1>1 DEF Buffers
<1> QED BY <1>2, StoredAssumption DEF Seen

(* begin. *)
LEMMA BeginInv == ASSUME IInv, NEW t \in TxnIds, begin(t) PROVE IInv'
<1>1. t \notin DOMAIN transactions /\ transactions' = Put(transactions, t, NewTransaction)
  BY DEF begin
<1> DEFINE new == NewTransaction
<1>2. Good(new)
  <2> DEFINE empty == <<>>
  <2>1. empty \in Seq(UndoLogEntry) /\ Len(empty) = 0 /\ DOMAIN empty = {}
    BY EmptySeq
  <2>2. empty \in Buffers
    <3>1. empty \in [{} -> VersionedRow] /\ {} \in SUBSET Keys
      BY <2>1
    <3> QED BY <3>1 DEF Buffers
  <2>3. new = [active |-> TRUE, committed |-> FALSE, local_writes |-> empty,
               undo_log |-> empty, read_set |-> {}, write_set |-> {}]
    BY DEF NewTransaction
  <2> HIDE DEF empty, new
  <2>4. new \in Transaction
    BY <2>1, <2>2, <2>3 DEF Transaction
  <2>5. /\ new.local_writes = empty /\ new.undo_log = empty /\ new.write_set = {}
    BY <2>3
  <2>6. ~(new.active /\ new.committed)
    BY <2>3
  <2>7. Logged(empty) = {} /\ OldestIsStored(empty)
    BY <2>1 DEF Logged, OldestIsStored
  <2> QED BY <2>1, <2>4, <2>5, <2>6, <2>7 DEF Good
<1> HIDE DEF new
<1>3. /\ DOMAIN transactions' = DOMAIN transactions \cup {t} /\ transactions'[t] = new
      /\ \A u \in DOMAIN transactions : transactions'[u] = transactions[u]
      /\ transactions' = [u \in DOMAIN transactions' |-> transactions'[u]]
  BY <1>1 DEF Put, new
<1>4. \A u \in DOMAIN transactions' : Good(transactions'[u])
  BY <1>2, <1>3 DEF IInv
<1> QED BY <1>3, <1>4 DEF IInv

(* read, commit and rollback. *)
LEMMA OtherInv ==
  ASSUME IInv, NEW t,
         \/ \E table \in Tables, row \in RowIds : read(t, table, row)
         \/ commit(t)
         \/ rollback(t)
  PROVE  IInv'
<1> DEFINE txn == transactions[t]
<1>1. t \in DOMAIN transactions /\ Good(txn) /\ txn \in Transaction
  BY DEF read, commit, rollback, IInv, Good
<1>2. /\ txn.undo_log \in Seq(UndoLogEntry) /\ txn.local_writes \in Buffers
      /\ txn.read_set \in SUBSET Keys /\ txn.write_set \in SUBSET Keys
      /\ txn.active \in BOOLEAN /\ txn.committed \in BOOLEAN
  BY <1>1 DEF Transaction
<1>3. /\ DOMAIN txn.local_writes = Logged(txn.undo_log)
      /\ DOMAIN txn.local_writes \subseteq txn.write_set
      /\ OldestIsStored(txn.undo_log) /\ ~(txn.active /\ txn.committed)
  BY <1>1 DEF Good
<1>5. ASSUME NEW table \in Tables, NEW row \in RowIds, read(t, table, row) PROVE IInv'
  <2> DEFINE k == Key(table, row)
             set == txn.read_set \cup {k}
             r == [txn EXCEPT !.read_set = set]
  <2>1. transactions' = [transactions EXCEPT ![t] = r]
    BY <1>5 DEF read
  <2>2. set \in SUBSET Keys
    BY <1>2 DEF Keys
  <2> HIDE DEF k, set, txn
  <2>3. /\ r \in Transaction /\ r.active = txn.active /\ r.committed = txn.committed
        /\ r.local_writes = txn.local_writes /\ r.undo_log = txn.undo_log /\ r.write_set = txn.write_set
    BY <1>1, <2>2 DEF Transaction
  <2> HIDE DEF r
  <2>4. Good(r)
    BY <1>3, <2>3 DEF Good
  <2> QED BY <1>1, <2>1, <2>4, OneChanges
<1>6. CASE commit(t)
  <2> DEFINE r == [txn EXCEPT !.active = FALSE, !.committed = TRUE]
  <2>1. transactions' = [transactions EXCEPT ![t] = r]
    BY <1>6 DEF commit
  <2>2. /\ r \in Transaction /\ r.active = FALSE /\ r.write_set = txn.write_set
        /\ r.undo_log = txn.undo_log /\ r.local_writes = txn.local_writes
    <3> HIDE DEF txn
    <3> QED BY <1>1, RecordCommit, Zenon
  <2> HIDE DEF r, txn
  <2>3. Good(r)
    BY <1>3, <2>2 DEF Good
  <2> QED BY <1>1, <2>1, <2>3, OneChanges
<1>7. CASE rollback(t)
  <2> DEFINE empty == <<>>
             r == [txn EXCEPT !.active = FALSE, !.committed = FALSE, !.local_writes = empty,
                              !.undo_log = empty]
  <2>1. transactions' = [transactions EXCEPT ![t] = r]
    BY <1>7 DEF rollback
  <2>2. empty \in Seq(UndoLogEntry) /\ Len(empty) = 0 /\ DOMAIN empty = {}
    BY EmptySeq
  <2>3. empty \in Buffers
    <3>1. empty \in [{} -> VersionedRow] /\ {} \in SUBSET Keys
      BY <2>2
    <3> QED BY <3>1 DEF Buffers
  <2> HIDE DEF empty
  <2>4. /\ r \in Transaction /\ r.active = FALSE /\ r.write_set = txn.write_set
        /\ r.undo_log = empty /\ r.local_writes = empty
    <3>1. txn \in Transaction /\ empty \in Seq(UndoLogEntry) /\ empty \in Buffers
      BY <1>1, <2>2, <2>3
    <3> DEFINE no == FALSE
               q == [txn EXCEPT !.active = no, !.committed = no, !.local_writes = empty,
                                !.undo_log = empty]
    <3>2. no \in BOOLEAN
      OBVIOUS
    <3>3. r = q
      BY Zenon
    <3> HIDE DEF txn, no
    <3>4. /\ q \in Transaction /\ q.active = no /\ q.write_set = txn.write_set
          /\ q.undo_log = empty /\ q.local_writes = empty
      BY <3>1, <3>2 DEF Transaction
    <3>5. no = FALSE
      BY DEF no
    <3> HIDE DEF q, r
    <3> QED BY <3>3, <3>4, <3>5, Zenon
  <2>5. Logged(empty) = {} /\ OldestIsStored(empty)
    BY <2>2 DEF Logged, OldestIsStored
  <2> HIDE DEF r, txn
  <2>6. Good(r)
    BY <2>2, <2>4, <2>5 DEF Good
  <2> QED BY <1>1, <2>1, <2>6, OneChanges
<1> QED BY <1>5, <1>6, <1>7

(* Every call keeps the invariant. *)
LEMMA NextInv == IInv /\ [TxnNext]_txnVars => IInv'
<1> SUFFICES ASSUME IInv, [TxnNext]_txnVars PROVE IInv'
  OBVIOUS
<1>1. ASSUME NEW table \in Tables, NEW row \in RowIds PROVE Key(table, row) \in Keys
  BY DEF Keys
<1>2. ASSUME NEW v \in Values, NEW b \in BOOLEAN PROVE [data |-> v, is_deleted |-> b] \in VersionedRow
  BY DEF VersionedRow
<1>3. ASSUME NEW t \in TxnIds, NEW table \in Tables, NEW row \in RowIds, NEW v \in Values,
             insert(t, table, row, v)
      PROVE  IInv'
  <2>1. [data |-> v, is_deleted |-> FALSE] \in VersionedRow
    BY <1>2, Zenon
  <2>2. Nothing \in VersionedRow \cup {Nothing}
    BY Zenon
  <2>3. "INSERT" \in {"INSERT", "UPDATE", "DELETE"}
    BY Zenon
  <2> DEFINE new == [data |-> v, is_deleted |-> FALSE]
             k == Key(table, row)
  <2>4. Record(t, k, "INSERT", Nothing, new)
    BY <1>3 DEF insert
  <2>5. k \in Keys
    BY <1>1
  <2> HIDE DEF new, k
  <2> QED BY <2>1, <2>2, <2>3, <2>4, <2>5, RecordInv DEF new
<1>4. ASSUME NEW t \in TxnIds, NEW table \in Tables, NEW row \in RowIds, NEW v \in Values,
             update(t, table, row, v)
      PROVE  IInv'
  <2> DEFINE new == [data |-> v, is_deleted |-> FALSE]
             k == Key(table, row)
  <2>1. new \in VersionedRow
    BY <1>2, Zenon
  <2>2. k \in Keys
    BY <1>1
  <2>3. t \in DOMAIN transactions /\ Seen(t, k) # NoRow /\ Record(t, k, "UPDATE", Seen(t, k), new)
    BY <1>4 DEF update
  <2> HIDE DEF new, k
  <2>4. /\ Seen(t, k) \in VersionedRow \cup {Nothing}
        /\ k \notin DOMAIN transactions[t].local_writes => Seen(t, k) = Stored[k]
    BY <2>2, <2>3, SeenType
  <2> QED BY <2>1, <2>2, <2>3, <2>4, RecordInv
<1>5. ASSUME NEW t \in TxnIds, NEW table \in Tables, NEW row \in RowIds, delete_row(t, table, row)
      PROVE  IInv'
  <2> DEFINE k == Key(table, row)
             old == Seen(t, k)
             new == [old EXCEPT !.is_deleted = TRUE]
  <2>1. k \in Keys
    BY <1>1
  <2>2. t \in DOMAIN transactions /\ old # NoRow /\ Record(t, k, "DELETE", old, new)
    BY <1>5 DEF delete_row
  <2>3. old \in VersionedRow /\ (k \notin DOMAIN transactions[t].local_writes => old = Stored[k])
    <3> HIDE DEF k
    <3> QED BY <2>1, <2>2, SeenType
  <2>4. new \in VersionedRow
    <3> HIDE DEF old
    <3>1. \A b \in BOOLEAN : [old EXCEPT !.is_deleted = b] \in VersionedRow
      BY <2>3 DEF VersionedRow
    <3> QED BY <3>1, Zenon
  <2> HIDE DEF new, k, old
  <2> QED BY <2>1, <2>2, <2>3, <2>4, RecordInv
<1>6. CASE UNCHANGED txnVars
  BY <1>6 DEF txnVars, IInv
<1> QED BY <1>3, <1>4, <1>5, <1>6, BeginInv, OtherInv DEF TxnNext

(* The initial state. *)
LEMMA InitInv == TxnInit => IInv
  BY DEF TxnInit, IInv

(* TxnTypeOK is an invariant. *)
THEOREM TypeCorrect == TxnSpec => []TxnTypeOK
<1>1. IInv => TxnTypeOK
  <2> SUFFICES ASSUME IInv, NEW t \in DOMAIN transactions
               PROVE  LET txn == transactions[t] IN
                        /\ txn.active \in BOOLEAN /\ txn.committed \in BOOLEAN
                        /\ ~(txn.active /\ txn.committed)
                        /\ DOMAIN txn.local_writes \subseteq Keys
                        /\ \A k \in DOMAIN txn.local_writes : txn.local_writes[k] \in VersionedRow
                        /\ txn.undo_log \in Seq(UndoLogEntry)
                        /\ txn.read_set \subseteq Keys /\ txn.write_set \subseteq Keys
    BY DEF TxnTypeOK, IInv
  <2>1. transactions[t] \in Transaction /\ ~(transactions[t].active /\ transactions[t].committed)
    BY DEF IInv, Good
  <2>2. transactions[t].local_writes \in Buffers
    BY <2>1 DEF Transaction
  <2>3. PICK D \in SUBSET Keys : transactions[t].local_writes \in [D -> VersionedRow]
    BY <2>2 DEF Buffers
  <2> QED BY <2>1, <2>3 DEF Transaction
<1> QED BY InitInv, NextInv, <1>1, PTL DEF TxnSpec

(* EveryWriteUndoable: buffer, undo log and write set never drift apart.   *)
THEOREM WritesUndoable == TxnSpec => []EveryWriteUndoable
<1>1. IInv => EveryWriteUndoable
  <2> SUFFICES ASSUME IInv, NEW t \in DOMAIN transactions
               PROVE  LET txn == transactions[t] IN
                        /\ DOMAIN txn.local_writes = {txn.undo_log[i].key : i \in DOMAIN txn.undo_log}
                        /\ DOMAIN txn.local_writes \subseteq txn.write_set
    BY DEF EveryWriteUndoable
  <2>1. transactions[t].undo_log \in Seq(UndoLogEntry)
    BY DEF IInv, Good, Transaction
  <2>2. DOMAIN transactions[t].undo_log = 1..Len(transactions[t].undo_log)
    BY <2>1
  <2> QED BY <2>2 DEF IInv, Good, Logged
<1> QED BY InitInv, NextInv, <1>1, PTL DEF TxnSpec

-----------------------------------------------------------------------------
(* f holds the buffer after each of the first m rounds of the loop of      *)
(* rollback.                                                               *)
Rounds(f, m, txn) ==
  f = [i \in 0..m |-> IF i = 0 THEN txn.local_writes
                      ELSE UndoOne(f[i - 1], txn.undo_log[Len(txn.undo_log) + 1 - i])]

(* The loop has a run of every length. *)
LEMMA RoundsExist == ASSUME NEW txn, NEW n \in Nat PROVE \E f : Rounds(f, n, txn)
<1> DEFINE E(m) == \E f : Rounds(f, m, txn)
           V == {m \in 0..n : ~E(m)}
           entry(i) == txn.undo_log[Len(txn.undo_log) + 1 - i]
<1> SUFFICES ASSUME V # {} PROVE FALSE
  OBVIOUS
<1>1. V \in SUBSET Nat
  OBVIOUS
<1>2. PICK m \in V : \A y \in V : <<y, m>> \notin OpToRel(<, Nat)
  <2> HIDE DEF V
  <2> QED BY <1>1, WFMin, NatLessThanWellFounded
<1>3. \A y \in V : ~(y < m)
  <2> HIDE DEF V
  <2> QED BY <1>1, <1>2 DEF OpToRel
<1>4. m \in 0..n /\ ~E(m)
  OBVIOUS
<1>5. m # 0
  <2> DEFINE f == [i \in 0..0 |-> txn.local_writes]
  <2>1. Rounds(f, 0, txn)
    BY DEF Rounds
  <2>2. E(0)
    <3> HIDE DEF f
    <3> QED BY <2>1
  <2> QED BY <1>4, <2>2
<1>6. m - 1 \in 0..n /\ m - 1 < m /\ m \in Nat
  BY <1>4, <1>5
<1>7. E(m - 1)
  <2> HIDE DEF E
  <2> QED BY <1>3, <1>6
<1>8. PICK g : Rounds(g, m - 1, txn)
  BY <1>7
<1> DEFINE f == [i \in 0..m |-> IF i = m THEN UndoOne(g[m - 1], entry(m)) ELSE g[i]]
<1>9. \A i \in 0..(m - 1) : g[i] = IF i = 0 THEN txn.local_writes ELSE UndoOne(g[i - 1], entry(i))
  BY <1>8 DEF Rounds
<1>10. \A i \in 0..m : f[i] = IF i = m THEN UndoOne(g[m - 1], entry(m)) ELSE g[i]
  OBVIOUS
<1>11. f = [i \in 0..m |-> f[i]]
  OBVIOUS
<1> HIDE DEF f, V, E
<1>12. ASSUME NEW i \in 0..m
       PROVE  f[i] = IF i = 0 THEN txn.local_writes ELSE UndoOne(f[i - 1], entry(i))
  <2> HIDE DEF entry
  <2>1. CASE i = m
    <3>1. m - 1 \in 0..m /\ m - 1 # m
      BY <1>6
    <3> QED BY <1>5, <1>10, <2>1, <3>1
  <2>2. CASE i # m
    <3>1. i \in 0..(m - 1) /\ (i # 0 => i - 1 \in 0..m /\ i - 1 # m)
      BY <1>6, <2>2
    <3> QED BY <1>9, <1>10, <2>2, <3>1
  <2> QED BY <2>1, <2>2
<1>13. Rounds(f, m, txn)
  BY <1>11, <1>12 DEF Rounds
<1> QED BY <1>4, <1>13 DEF E

(* Undone is the buffer at the end of such a run. *)
LEMMA UndoneIsRounds ==
  ASSUME NEW txn, Len(txn.undo_log) \in Nat
  PROVE  \E f : Rounds(f, Len(txn.undo_log), txn) /\ Undone(txn) = f[Len(txn.undo_log)]
<1> DEFINE n == Len(txn.undo_log)
           back == CHOOSE f : Rounds(f, n, txn)
<1>1. Rounds(back, n, txn)
  BY RoundsExist
<1>2. Undone(txn) = back[n]
  BY DEF Undone, Rounds
<1> QED BY <1>1, <1>2

(* A buffer in which the entries of log from the p-th on are undone: a row *)
(* that has one of them holds what the oldest of them replaced, and that   *)
(* one is not of an insert.                                                *)
UndoneFrom(map, log, p) ==
  /\ DOMAIN map \subseteq Logged(log)
  /\ \A k \in DOMAIN map :
       \/ \A j \in p..Len(log) : log[j].key # k
       \/ \E j \in p..Len(log) :
            /\ log[j].key = k /\ log[j].operation # "INSERT" /\ map[k] = log[j].old_version
            /\ \A i \in p..(j - 1) : log[i].key # k

(* One round undoes one more. *)
LEMMA OneRound ==
  ASSUME NEW log \in Seq(UndoLogEntry), NEW p \in 1..Len(log), NEW map, UndoneFrom(map, log, p + 1)
  PROVE  UndoneFrom(UndoOne(map, log[p]), log, p)
<1> DEFINE e == log[p]
           now == UndoOne(map, e)
           n == Len(log)
<1>1. n \in Nat /\ p \in 1..n /\ p \in p..n /\ p \in Nat
  OBVIOUS
<1>2. e.key \in Logged(log)
  BY DEF Logged
<1>3. ASSUME NEW k \in DOMAIN now, k # e.key PROVE k \in DOMAIN map /\ now[k] = map[k]
  BY <1>3 DEF UndoOne, Put, Erase
<1>4. e.key \in DOMAIN now => e.operation # "INSERT" /\ now[e.key] = e.old_version
  BY DEF UndoOne, Put, Erase
<1> HIDE DEF now
<1>5. DOMAIN now \subseteq Logged(log)
  BY <1>2, <1>3 DEF UndoneFrom
<1>6. ASSUME NEW k \in DOMAIN now
      PROVE  \/ \A j \in p..n : log[j].key # k
             \/ \E j \in p..n :
                  /\ log[j].key = k /\ log[j].operation # "INSERT" /\ now[k] = log[j].old_version
                  /\ \A i \in p..(j - 1) : log[i].key # k
  <2>1. CASE k = e.key
    <3>1. \A i \in p..(p - 1) : FALSE
      BY <1>1
    <3> QED BY <1>1, <1>4, <2>1, <3>1
  <2>2. CASE k # e.key
    <3>1. k \in DOMAIN map /\ now[k] = map[k]
      BY <1>3, <2>2
    <3>2. \A j \in p..n : j = p \/ j \in (p + 1)..n
      BY <1>1
    <3>3. CASE \A j \in (p + 1)..n : log[j].key # k
      BY <2>2, <3>2, <3>3
    <3>4. CASE ~\A j \in (p + 1)..n : log[j].key # k
      <4>1. PICK j \in (p + 1)..n :
              /\ log[j].key = k /\ log[j].operation # "INSERT" /\ map[k] = log[j].old_version
              /\ \A i \in (p + 1)..(j - 1) : log[i].key # k
        BY <3>1, <3>4 DEF UndoneFrom
      <4>2. j \in p..n /\ \A i \in p..(j - 1) : i = p \/ i \in (p + 1)..(j - 1)
        BY <1>1
      <4>3. \A i \in p..(j - 1) : log[i].key # k
        BY <2>2, <4>1, <4>2
      <4> QED BY <3>1, <4>1, <4>2, <4>3
    <3> QED BY <3>3, <3>4
  <2> QED BY <2>1, <2>2
<1> QED BY <1>5, <1>6 DEF UndoneFrom, now

(* All rounds undo the whole log. *)
LEMMA AllRounds ==
  ASSUME NEW txn, Good(txn)
  PROVE  UndoneFrom(Undone(txn), txn.undo_log, 1)
<1> DEFINE log == txn.undo_log
           n == Len(log)
<1>1. log \in Seq(UndoLogEntry) /\ n \in Nat /\ DOMAIN txn.local_writes = Logged(log)
  BY DEF Good, Transaction
<1>2. PICK f : Rounds(f, n, txn) /\ Undone(txn) = f[n]
  BY <1>1, UndoneIsRounds
<1>3. \A i \in 0..n : f[i] = IF i = 0 THEN txn.local_writes ELSE UndoOne(f[i - 1], log[n + 1 - i])
  BY <1>2 DEF Rounds
<1> DEFINE P(i) == UndoneFrom(f[i], log, n + 1 - i)
           V == {i \in 0..n : ~P(i)}
<1>4. V = {}
  <2> SUFFICES ASSUME V # {} PROVE FALSE
    OBVIOUS
  <2>1. V \in SUBSET Nat
    BY <1>1
  <2>2. PICK m \in V : \A y \in V : <<y, m>> \notin OpToRel(<, Nat)
    <3> HIDE DEF V
    <3> QED BY <2>1, WFMin, NatLessThanWellFounded
  <2>3. \A y \in V : ~(y < m)
    <3> HIDE DEF V
    <3> QED BY <2>1, <2>2 DEF OpToRel
  <2>4. m \in 0..n /\ ~P(m)
    OBVIOUS
  <2>5. P(0)
    <3>1. f[0] = txn.local_writes
      BY <1>1, <1>3
    <3>2. \A j \in (n + 1 - 0)..n : FALSE
      BY <1>1
    <3> HIDE DEF log, n
    <3> QED BY <1>1, <3>1, <3>2 DEF UndoneFrom, n
  <2>6. m # 0
    BY <2>4, <2>5
  <2>7. /\ m - 1 \in 0..n /\ m - 1 < m /\ n + 1 - m \in 1..n /\ n + 1 - (m - 1) = (n + 1 - m) + 1
    BY <1>1, <2>4, <2>6
  <2>8. P(m - 1)
    <3> HIDE DEF P
    <3> QED BY <2>3, <2>7
  <2>9. f[m] = UndoOne(f[m - 1], log[n + 1 - m])
    BY <1>3, <2>4, <2>6
  <2>10. UndoneFrom(f[m - 1], log, (n + 1 - m) + 1)
    BY <2>7, <2>8
  <2>11. UndoneFrom(UndoOne(f[m - 1], log[n + 1 - m]), log, n + 1 - m)
    <3> DEFINE p == n + 1 - m
               map == f[m - 1]
    <3> HIDE DEF p, map
    <3>1. UndoneFrom(map, log, p + 1) /\ p \in 1..n
      BY <2>7, <2>10 DEF p, map
    <3>2. UndoneFrom(UndoOne(map, log[p]), log, p)
      BY <1>1, <3>1, OneRound
    <3> QED BY <3>2 DEF p, map
  <2> QED BY <2>4, <2>9, <2>11
<1>5. P(n)
  <2>1. n \in 0..n
    BY <1>1
  <2> HIDE DEF P
  <2> QED BY <1>4, <2>1
<1>6. n + 1 - n = 1
  BY <1>1
<1> QED BY <1>2, <1>5, <1>6

(* UndoRestoresStored: whatever a transaction has inserted, updated,       *)
(* deleted and inserted again, its undo log played backwards leaves in the *)
(* buffer only rows as they are stored.                                    *)
THEOREM UndoExact == TxnSpec => []UndoRestoresStored
<1>1. IInv => UndoRestoresStored
  <2> SUFFICES ASSUME IInv, NEW t \in DOMAIN transactions, NEW k \in DOMAIN Undone(transactions[t])
               PROVE  Undone(transactions[t])[k] = Stored[k]
    BY DEF UndoRestoresStored
  <2> DEFINE txn == transactions[t]
             log == txn.undo_log
             back == Undone(txn)
  <2>1. Good(txn)
    BY DEF IInv
  <2>2. UndoneFrom(back, log, 1) /\ OldestIsStored(log)
    <3> HIDE DEF txn
    <3> QED BY <2>1, AllRounds DEF Good
  <2> HIDE DEF txn, log, back
  <2>3. k \in DOMAIN back
    BY DEF back, txn
  <2>4. ~\A j \in 1..Len(log) : log[j].key # k
    BY <2>2, <2>3 DEF UndoneFrom, Logged
  <2>5. PICK j \in 1..Len(log) :
          /\ log[j].key = k /\ log[j].operation # "INSERT" /\ back[k] = log[j].old_version
          /\ \A i \in 1..(j - 1) : log[i].key # k
    BY <2>2, <2>3, <2>4 DEF UndoneFrom
  <2>6. back[k] = Stored[k]
    BY <2>2, <2>5 DEF OldestIsStored
  <2> QED BY <2>6 DEF back, txn
<1> QED BY InitInv, NextInv, <1>1, PTL DEF TxnSpec
=============================================================================
