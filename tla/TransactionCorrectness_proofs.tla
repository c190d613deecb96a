--------------------- MODULE TransactionCorrectness_proofs ---------------------
(***************************************************************************)
(* Proofs about the transactional row store, for every set of tables, keys *)
(* and data and every bound.  The inductive invariant is IInv: knowing     *)
(* that an ACTIVE version is reachable through the write set of a running  *)
(* creator is what makes restamping complete, and knowing that ids are     *)
(* issued once is what keeps a new transaction from reviving old versions. *)
(***************************************************************************)
EXTENDS TransactionCorrectness, TLAPS

(* The strengthening that StoreNext preserves. *)
IInv == StoreTypeOK /\ IdsIssued /\ NoOrphanVersion /\ CommitNeverRefused

(* Restamping a row keeps its length, and is well typed for any outcome. *)
LEMMA RestampedRow ==
  ASSUME NEW row \in Seq(VersionedRowWithTx), NEW x \in TxIds, NEW s \in TxState
  PROVE  /\ RestampRow(x, s, row) \in Seq(VersionedRowWithTx)
         /\ DOMAIN RestampRow(x, s, row) = DOMAIN row
         /\ Len(RestampRow(x, s, row)) = Len(row)
         /\ \A i \in DOMAIN row : RestampRow(x, s, row)[i] = Restamp(x, s, row[i])
<1> DEFINE new == RestampRow(x, s, row)
<1>1. /\ DOMAIN new = 1..Len(row)
      /\ DOMAIN row = 1..Len(row)
      /\ Len(row) \in Nat
      /\ \A i \in DOMAIN row : row[i] \in VersionedRowWithTx
  BY DEF RestampRow
<1>2. \A i \in DOMAIN row : new[i] = Restamp(x, s, row[i])
  BY DEF RestampRow
<1>3. \A v \in VersionedRowWithTx : Restamp(x, s, v) \in VersionedRowWithTx
  BY DEF Restamp, VersionedRowWithTx
<1>4. new \in [1..Len(row) -> VersionedRowWithTx]
  BY <1>1, <1>2, <1>3 DEF RestampRow
<1>5. new \in Seq(VersionedRowWithTx) /\ Len(new) = Len(row)
  BY <1>1, <1>4
<1> QED BY <1>1, <1>2, <1>5

(* What restamping does to a version of a row, found by its position. *)
LEMMA RestampedVersion ==
  ASSUME StoreTypeOK, NEW x \in TxIds, NEW s \in TxState, tables' = Restamped(x, s),
         NEW t \in TableNames, NEW k \in RowKeys
  PROVE  /\ tables' \in [TableNames -> [RowKeys -> Seq(VersionedRowWithTx)]]
         /\ DOMAIN tables'[t][k] = DOMAIN tables[t][k]
         /\ Len(tables'[t][k]) = Len(tables[t][k])
         /\ \A i \in DOMAIN tables[t][k] :
              tables'[t][k][i] = IF t \in created /\ k \in write_set[x][t]
                                   THEN Restamp(x, s, tables[t][k][i]) ELSE tables[t][k][i]
<1>1. \A u \in TableNames, w \in RowKeys : tables[u][w] \in Seq(VersionedRowWithTx)
  BY DEF StoreTypeOK
<1>2. \A u \in TableNames, w \in RowKeys :
         tables'[u][w] = IF u \in created /\ w \in write_set[x][u]
                           THEN RestampRow(x, s, tables[u][w]) ELSE tables[u][w]
  BY DEF Restamped
<1>3. \A u \in TableNames, w \in RowKeys : tables'[u][w] \in Seq(VersionedRowWithTx)
  BY <1>1, <1>2, RestampedRow
<1>4. tables' \in [TableNames -> [RowKeys -> Seq(VersionedRowWithTx)]]
  BY <1>3 DEF Restamped
<1>5. CASE t \in created /\ k \in write_set[x][t]
  BY <1>1, <1>2, <1>4, <1>5, RestampedRow
<1>6. CASE ~(t \in created /\ k \in write_set[x][t])
  BY <1>2, <1>4, <1>6
<1> QED BY <1>5, <1>6

(* Append adds its element behind the ones that are there. *)
LEMMA AppendedRow ==
  ASSUME NEW S, NEW row \in Seq(S), NEW v \in S
  PROVE  /\ Append(row, v) \in Seq(S)
         /\ DOMAIN row \subseteq DOMAIN Append(row, v)
         /\ Len(row) <= Len(Append(row, v))
         /\ \A i \in DOMAIN row : Append(row, v)[i] = row[i]
         /\ \A i \in DOMAIN Append(row, v) : i \in DOMAIN row \/ Append(row, v)[i] = v
         /\ \E i \in DOMAIN Append(row, v) : Append(row, v)[i] = v
<1>1. /\ Append(row, v) \in Seq(S)
      /\ Len(Append(row, v)) = Len(row) + 1
      /\ Len(row) \in Nat
      /\ DOMAIN row = 1..Len(row)
      /\ DOMAIN Append(row, v) = 1..(Len(row) + 1)
      /\ \A i \in 1..Len(row) : Append(row, v)[i] = row[i]
      /\ Append(row, v)[Len(row) + 1] = v
  OBVIOUS
<1> QED BY <1>1

(* An insert adds one version at the end of one row. *)
LEMMA InsertedVersion ==
  ASSUME StoreTypeOK, NEW x \in TxIds, NEW t \in TableNames, NEW k \in RowKeys, NEW d \in RowData,
         tables' = [tables EXCEPT ![t][k] = Append(@, NewRowVersion(x, d))],
         NEW u \in TableNames, NEW w \in RowKeys
  PROVE  /\ tables' \in [TableNames -> [RowKeys -> Seq(VersionedRowWithTx)]]
         /\ DOMAIN tables[u][w] \subseteq DOMAIN tables'[u][w]
         /\ Len(tables[u][w]) <= Len(tables'[u][w])
         /\ \A i \in DOMAIN tables[u][w] : tables'[u][w][i] = tables[u][w][i]
         /\ \A i \in DOMAIN tables'[u][w] :
              \/ i \in DOMAIN tables[u][w]
              \/ u = t /\ w = k /\ tables'[u][w][i] = NewRowVersion(x, d)
<1>1. NewRowVersion(x, d) \in VersionedRowWithTx
  BY DEF NewRowVersion, VersionedRowWithTx, TxState
<1>2. tables \in [TableNames -> [RowKeys -> Seq(VersionedRowWithTx)]]
  BY DEF StoreTypeOK
<1>3. tables'[t][k] = Append(tables[t][k], NewRowVersion(x, d))
  BY <1>2
<1>4. ~(u = t /\ w = k) => tables'[u][w] = tables[u][w]
  BY <1>2
<1>5. /\ tables[t][k] \in Seq(VersionedRowWithTx)
      /\ Append(tables[t][k], NewRowVersion(x, d)) \in Seq(VersionedRowWithTx)
      /\ Len(tables[u][w]) \in Nat
  BY <1>1, <1>2
<1>6. tables' \in [TableNames -> [RowKeys -> Seq(VersionedRowWithTx)]]
  BY <1>2, <1>5
<1>7. /\ DOMAIN tables[t][k] \subseteq DOMAIN tables'[t][k]
      /\ Len(tables[t][k]) <= Len(tables'[t][k])
      /\ \A i \in DOMAIN tables[t][k] : tables'[t][k][i] = tables[t][k][i]
      /\ \A i \in DOMAIN tables'[t][k] :
           i \in DOMAIN tables[t][k] \/ tables'[t][k][i] = NewRowVersion(x, d)
  BY ONLY <1>1, <1>3, <1>5, AppendedRow
<1> QED BY ONLY <1>4, <1>5, <1>6, <1>7

(* A stored version has the type of a version, so its fields have theirs. *)
LEMMA StoredVersion ==
  ASSUME StoreTypeOK, NEW t \in TableNames, NEW k \in RowKeys, NEW i \in DOMAIN tables[t][k]
  PROVE  /\ tables[t][k][i] \in VersionedRowWithTx
         /\ tables[t][k][i].creator_tx_id \in TxIds
         /\ tables[t][k][i].tx_state \in TxState
         /\ tables[t][k][i].data \in RowData
<1>1. tables[t][k] \in Seq(VersionedRowWithTx)
  BY DEF StoreTypeOK
<1>2. tables[t][k][i] \in VersionedRowWithTx
  BY <1>1
<1> QED BY <1>2 DEF VersionedRowWithTx

-----------------------------------------------------------------------------
(* The invariant, action by action. *)
LEMMA InitIInv == StoreInit => IInv
BY MaxTxAssumption
   DEF StoreInit, IInv, StoreTypeOK, IdsIssued, NoOrphanVersion, CommitNeverRefused, Validated, Versions, TxIds

LEMMA BeginIInv ==
  ASSUME IInv, begin_transaction
  PROVE  IInv'
<1> USE DEF IInv
<1>1. StoreTypeOK'
  BY MaxTxAssumption DEF StoreTypeOK, begin_transaction, TxIds
<1>2. /\ next_tx_id \in Nat /\ next_tx_id' = next_tx_id + 1
      /\ active' = active \cup {next_tx_id}
      /\ UNCHANGED <<tables, created>>
      /\ \A x \in active : x \in TxIds /\ x < next_tx_id /\ write_set'[x] = write_set[x]
  <2>1. /\ next_tx_id \in Nat /\ next_tx_id \in TxIds
        /\ next_tx_id' = next_tx_id + 1
        /\ active' = active \cup {next_tx_id}
        /\ write_set' = [write_set EXCEPT ![next_tx_id] = [t \in TableNames |-> {}]]
        /\ UNCHANGED <<tables, created>>
    BY MaxTxAssumption DEF StoreTypeOK, begin_transaction, TxIds
  <2>2. \A x \in active : x \in TxIds /\ x < next_tx_id /\ x # next_tx_id
    BY <2>1, MaxTxAssumption DEF StoreTypeOK, IdsIssued, TxIds
  <2>3. \A x \in active : write_set'[x] = write_set[x]
    BY <2>1, <2>2 DEF StoreTypeOK
  <2> QED BY <2>1, <2>2, <2>3
<1>3. \A t \in TableNames, k \in RowKeys : \A i \in Versions(t, k) :
         tables[t][k][i].creator_tx_id \in TxIds /\ tables[t][k][i].creator_tx_id < next_tx_id
  BY StoredVersion DEF IdsIssued, Versions
<1>4. IdsIssued'
  BY <1>2, <1>3, MaxTxAssumption DEF IdsIssued, Versions, TxIds
<1>5. NoOrphanVersion'
  BY <1>2, <1>3, MaxTxAssumption DEF NoOrphanVersion, Versions, TxIds
<1>6. CommitNeverRefused'
  <2>1. \A t \in TableNames : write_set'[next_tx_id][t] = {}
    BY MaxTxAssumption DEF begin_transaction, StoreTypeOK, TxIds
  <2> QED BY <1>2, <2>1 DEF CommitNeverRefused, Validated
<1> QED BY <1>1, <1>4, <1>5, <1>6

LEMMA InsertIInv ==
  ASSUME IInv, NEW x \in TxIds, NEW t \in TableNames, NEW k \in RowKeys, NEW d \in RowData,
         insert_in_tx(x, t, k, d)
  PROVE  IInv'
<1> USE DEF IInv
<1>1. tables' = [tables EXCEPT ![t][k] = Append(@, NewRowVersion(x, d))]
  BY DEF insert_in_tx
<1>2. StoreTypeOK'
  <2>1. tables' \in [TableNames -> [RowKeys -> Seq(VersionedRowWithTx)]]
    BY <1>1, InsertedVersion
  <2> QED BY <2>1 DEF StoreTypeOK, insert_in_tx
<1>3. /\ x \in active /\ x < next_tx_id
      /\ created' = created \cup {t}
      /\ UNCHANGED <<active, next_tx_id>>
      /\ k \in write_set'[x][t]
      /\ \A y \in TxIds, u \in TableNames : write_set[y][u] \subseteq write_set'[y][u]
      /\ \A y \in TxIds, u \in TableNames : write_set'[y][u] # {} => write_set[y][u] # {} \/ u = t
  BY DEF insert_in_tx, StoreTypeOK, IdsIssued
<1>4. \A u \in TableNames, w \in RowKeys : \A i \in DOMAIN tables'[u][w] :
         \/ i \in DOMAIN tables[u][w] /\ tables'[u][w][i] = tables[u][w][i]
         \/ u = t /\ w = k /\ tables'[u][w][i] = NewRowVersion(x, d)
  BY <1>1, InsertedVersion
<1>5. /\ NewRowVersion(x, d).creator_tx_id = x
      /\ NewRowVersion(x, d).tx_state = "ACTIVE"
  BY DEF NewRowVersion
<1>6. \A u \in TableNames, w \in RowKeys : \A i \in DOMAIN tables[u][w] :
         tables[u][w][i].creator_tx_id \in TxIds
  BY StoredVersion
<1>7. IdsIssued'
  BY <1>3, <1>4, <1>5 DEF IdsIssued, Versions
<1>8. NoOrphanVersion'
  BY <1>3, <1>4, <1>5, <1>6 DEF NoOrphanVersion, Versions
<1>9. CommitNeverRefused'
  BY <1>3 DEF CommitNeverRefused, Validated, StoreTypeOK
<1> QED BY <1>2, <1>7, <1>8, <1>9

(* Both ways to end a transaction, with the outcome as a parameter. *)
LEMMA EndIInv ==
  ASSUME IInv, NEW x \in TxIds, NEW s \in {"COMMITTED", "ABORTED"},
         x \in active, tables' = Restamped(x, s), EraseTransaction(x), UNCHANGED <<created, next_tx_id>>
  PROVE  IInv'
<1> USE DEF IInv
<1>1. s \in TxState
  BY DEF TxState
<1>2. StoreTypeOK'
  <2>1. /\ active' \in SUBSET TxIds
        /\ write_set' \in [TxIds -> [TableNames -> SUBSET RowKeys]]
        /\ created' \in SUBSET TableNames
        /\ next_tx_id' \in 1..(MaxTx + 1)
    BY DEF StoreTypeOK, EraseTransaction
  <2>2. tables' \in [TableNames -> [RowKeys -> Seq(VersionedRowWithTx)]]
    <3>1. CASE \E t \in TableNames, k \in RowKeys : TRUE
      BY <1>1, <3>1, RestampedVersion
    <3>2. CASE ~\E t \in TableNames, k \in RowKeys : TRUE
      BY <3>2 DEF Restamped
    <3> QED BY <3>1, <3>2
  <2> QED BY <2>1, <2>2 DEF StoreTypeOK
<1>3. /\ active' = active \ {x}
      /\ \A y \in active' : write_set'[y] = write_set[y]
      /\ active \subseteq TxIds
  BY DEF EraseTransaction, StoreTypeOK
<1>4. \A t \in TableNames, k \in RowKeys :
         /\ DOMAIN tables'[t][k] = DOMAIN tables[t][k]
         /\ \A i \in DOMAIN tables[t][k] :
              /\ tables[t][k][i] \in VersionedRowWithTx
              /\ tables'[t][k][i] = IF t \in created /\ k \in write_set[x][t]
                                   THEN Restamp(x, s, tables[t][k][i]) ELSE tables[t][k][i]
  BY <1>1, RestampedVersion DEF StoreTypeOK
<1>5. \A v \in VersionedRowWithTx :
         /\ Restamp(x, s, v).creator_tx_id = v.creator_tx_id
         /\ v.creator_tx_id = x /\ v.tx_state = "ACTIVE" => Restamp(x, s, v).tx_state = s
         /\ ~(v.creator_tx_id = x /\ v.tx_state = "ACTIVE") => Restamp(x, s, v) = v
  BY DEF Restamp, VersionedRowWithTx
<1>6. IdsIssued'
  BY <1>3, <1>4, <1>5 DEF IdsIssued, Versions
<1>7. NoOrphanVersion'
  <2> SUFFICES ASSUME NEW t \in TableNames, NEW k \in RowKeys, NEW i \in DOMAIN tables'[t][k]
               PROVE  LET v == tables'[t][k][i] IN
                        /\ v.tx_state = "ACTIVE" <=> v.creator_tx_id \in active'
                        /\ v.tx_state = "ACTIVE" =>
                             t \in created' /\ k \in write_set'[v.creator_tx_id][t]
    BY DEF NoOrphanVersion, Versions
  <2> DEFINE v == tables[t][k][i]
  <2>1. /\ v \in VersionedRowWithTx
        /\ v.tx_state = "ACTIVE" <=> v.creator_tx_id \in active
        /\ v.tx_state = "ACTIVE" => t \in created /\ k \in write_set[v.creator_tx_id][t]
    BY <1>4 DEF NoOrphanVersion, Versions
  <2>2. CASE v.creator_tx_id = x /\ v.tx_state = "ACTIVE"
    <3>1. tables'[t][k][i].tx_state = s /\ tables'[t][k][i].creator_tx_id = x
      BY <1>4, <1>5, <2>1, <2>2
    <3> QED BY <1>3, <3>1
  <2>3. CASE ~(v.creator_tx_id = x /\ v.tx_state = "ACTIVE")
    <3>1. tables'[t][k][i] = v
      BY <1>4, <1>5, <2>1, <2>3
    <3> QED BY <1>3, <2>1, <2>3, <3>1
  <2> QED BY <2>2, <2>3
<1>8. CommitNeverRefused'
  BY <1>3 DEF CommitNeverRefused, Validated
<1> QED BY <1>2, <1>6, <1>7, <1>8

LEMMA NextIInv == IInv /\ [StoreNext]_storeVars => IInv'
<1> SUFFICES ASSUME IInv, [StoreNext]_storeVars PROVE IInv'
  OBVIOUS
<1>1. CASE begin_transaction
  BY <1>1, BeginIInv
<1>2. ASSUME NEW x \in TxIds, NEW t \in TableNames, NEW k \in RowKeys, NEW d \in RowData,
             insert_in_tx(x, t, k, d)
      PROVE  IInv'
  BY <1>2, InsertIInv
<1>3. ASSUME NEW x \in TxIds, commit_transaction(x) PROVE IInv'
  BY <1>3, EndIInv DEF commit_transaction
<1>4. ASSUME NEW x \in TxIds, rollback_transaction(x) PROVE IInv'
  BY <1>4, EndIInv DEF rollback_transaction
<1>5. CASE UNCHANGED storeVars
  BY <1>5 DEF storeVars, IInv, StoreTypeOK, IdsIssued, NoOrphanVersion, CommitNeverRefused, Validated, Versions
<1> QED BY <1>1, <1>2, <1>3, <1>4, <1>5 DEF StoreNext

LEMMA IInvAlways == StoreSpec => []IInv
BY InitIInv, NextIInv, PTL DEF StoreSpec

(* The globals of transaction_correctness.cpp keep their types. *)
THEOREM TypeCorrect == StoreSpec => []StoreTypeOK
<1>1. IInv => StoreTypeOK
  BY DEF IInv
<1> QED BY <1>1, IInvAlways, PTL

(* commit_transaction and rollback_transaction leave no version behind: an   *)
(* ACTIVE version always has a running creator that can still reach it.      *)
THEOREM NoOrphans == StoreSpec => []NoOrphanVersion
<1>1. IInv => NoOrphanVersion
  BY DEF IInv
<1> QED BY <1>1, IInvAlways, PTL

(* The validation phase of commit_transaction never fails. *)
THEOREM CommitAlwaysPossible == StoreSpec => []CommitNeverRefused
<1>1. IInv => CommitNeverRefused
  BY DEF IInv
<1> QED BY <1>1, IInvAlways, PTL

-----------------------------------------------------------------------------
(* What ending a transaction does to one version: x's ACTIVE versions take   *)
(* the outcome, all others stay as they are.                                 *)
LEMMA EndedVersion ==
  ASSUME IInv, NEW x \in TxIds, NEW s \in {"COMMITTED", "ABORTED"},
         x \in active, tables' = Restamped(x, s),
         NEW t \in TableNames, NEW k \in RowKeys
  PROVE  /\ DOMAIN tables'[t][k] = DOMAIN tables[t][k]
         /\ Len(tables'[t][k]) = Len(tables[t][k])
         /\ \A i \in DOMAIN tables[t][k] :
              LET old == tables[t][k][i]  new == tables'[t][k][i] IN
                /\ new.creator_tx_id = old.creator_tx_id
                /\ new.data = old.data
                /\ old.creator_tx_id = x <=> old.creator_tx_id = x /\ old.tx_state = "ACTIVE"
                /\ new.tx_state = IF old.creator_tx_id = x THEN s ELSE old.tx_state
<1>0. StoreTypeOK /\ NoOrphanVersion
  BY DEF IInv
<1>1. /\ DOMAIN tables'[t][k] = DOMAIN tables[t][k]
      /\ Len(tables'[t][k]) = Len(tables[t][k])
      /\ \A i \in DOMAIN tables[t][k] :
           tables'[t][k][i] = IF t \in created /\ k \in write_set[x][t]
                                THEN Restamp(x, s, tables[t][k][i]) ELSE tables[t][k][i]
  BY <1>0, RestampedVersion DEF TxState
<1>2. ASSUME NEW i \in DOMAIN tables[t][k]
      PROVE  LET old == tables[t][k][i]  new == tables'[t][k][i] IN
               /\ new.creator_tx_id = old.creator_tx_id
               /\ new.data = old.data
               /\ old.creator_tx_id = x <=> old.creator_tx_id = x /\ old.tx_state = "ACTIVE"
               /\ new.tx_state = IF old.creator_tx_id = x THEN s ELSE old.tx_state
  <2> DEFINE old == tables[t][k][i]
  <2>1. old \in VersionedRowWithTx
    BY <1>0, StoredVersion
  <2>2. /\ old.tx_state = "ACTIVE" <=> old.creator_tx_id \in active
        /\ old.tx_state = "ACTIVE" => t \in created /\ k \in write_set[old.creator_tx_id][t]
    BY <1>0 DEF NoOrphanVersion, Versions
  <2>3. CASE old.creator_tx_id = x
    <3>1. tables'[t][k][i] = [old EXCEPT !.tx_state = s]
      BY <1>1, <2>2, <2>3 DEF Restamp
    <3> QED BY <2>1, <2>2, <2>3, <3>1 DEF VersionedRowWithTx
  <2>4. CASE old.creator_tx_id # x
    <3>1. tables'[t][k][i] = old
      BY <1>1, <2>4 DEF Restamp
    <3> QED BY <2>4, <3>1
  <2> QED BY <2>3, <2>4
<1> QED BY <1>1, <1>2

(* All versions of one transaction carry one state: AllOrNothing is          *)
(* inductive on top of IInv, because a running transaction's versions are    *)
(* all ACTIVE and ending it restamps every one of them.                      *)
LEMMA NextAllOrNothing == IInv /\ AllOrNothing /\ [StoreNext]_storeVars => AllOrNothing'
<1> SUFFICES ASSUME IInv, AllOrNothing, [StoreNext]_storeVars PROVE AllOrNothing'
  OBVIOUS
<1>1. CASE begin_transaction
  BY <1>1 DEF begin_transaction, AllOrNothing, Versions
<1>2. ASSUME NEW x \in TxIds, NEW t \in TableNames, NEW k \in RowKeys, NEW d \in RowData,
             insert_in_tx(x, t, k, d)
      PROVE  AllOrNothing'
  <2>1. x \in active /\ StoreTypeOK /\ NoOrphanVersion
    BY <1>2 DEF insert_in_tx, IInv
  <2>2. \A u \in TableNames, w \in RowKeys : \A i \in DOMAIN tables'[u][w] :
           \/ i \in DOMAIN tables[u][w] /\ tables'[u][w][i] = tables[u][w][i]
           \/ tables'[u][w][i] = NewRowVersion(x, d)
    BY <1>2, <2>1, InsertedVersion DEF insert_in_tx
  <2>3. NewRowVersion(x, d).creator_tx_id = x /\ NewRowVersion(x, d).tx_state = "ACTIVE"
    BY DEF NewRowVersion
  <2>4. \A u \in TableNames, w \in RowKeys : \A i \in DOMAIN tables[u][w] :
           tables[u][w][i].creator_tx_id = x => tables[u][w][i].tx_state = "ACTIVE"
    BY <2>1 DEF NoOrphanVersion, Versions
  <2>5. \A u \in TableNames, w \in RowKeys : \A i \in DOMAIN tables'[u][w] :
           \/ tables'[u][w][i].creator_tx_id = x /\ tables'[u][w][i].tx_state = "ACTIVE"
           \/ /\ tables'[u][w][i].creator_tx_id # x
              /\ i \in DOMAIN tables[u][w] /\ tables'[u][w][i] = tables[u][w][i]
    BY <2>2, <2>3, <2>4
  <2> QED BY <2>5, SMTT(30) DEF AllOrNothing, Versions
<1>3. ASSUME NEW x \in TxIds, NEW s \in {"COMMITTED", "ABORTED"}, x \in active,
             tables' = Restamped(x, s)
      PROVE  AllOrNothing'
  <2>1. \A t \in TableNames, k \in RowKeys :
           /\ DOMAIN tables'[t][k] = DOMAIN tables[t][k]
           /\ \A i \in DOMAIN tables[t][k] :
                /\ tables'[t][k][i].creator_tx_id = tables[t][k][i].creator_tx_id
                /\ tables'[t][k][i].tx_state =
                     IF tables[t][k][i].creator_tx_id = x THEN s ELSE tables[t][k][i].tx_state
    BY <1>3, EndedVersion
  <2> QED BY <2>1 DEF AllOrNothing, Versions
<1>4. ASSUME NEW x \in TxIds, commit_transaction(x) PROVE AllOrNothing'
  BY <1>3, <1>4 DEF commit_transaction
<1>5. ASSUME NEW x \in TxIds, rollback_transaction(x) PROVE AllOrNothing'
  BY <1>3, <1>5 DEF rollback_transaction
<1>6. CASE UNCHANGED storeVars
  BY <1>6 DEF storeVars, AllOrNothing, Versions
<1> QED BY <1>1, <1>2, <1>4, <1>5, <1>6 DEF StoreNext

(* Atomic COMMIT and ROLLBACK over any number of rows and tables. *)
THEOREM Atomicity == StoreSpec => []AllOrNothing
<1>1. StoreInit => AllOrNothing
  BY DEF StoreInit, AllOrNothing, Versions
<1> QED BY <1>1, IInvAlways, NextAllOrNothing, PTL DEF StoreSpec

(* No later call rewrites, drops or revives what a transaction left behind. *)
THEOREM FinalOutcomes == StoreSpec => OutcomeIsFinal
<1>1. IInv /\ [StoreNext]_storeVars => [OutcomeStep]_storeVars
  <2> SUFFICES ASSUME IInv, StoreNext PROVE OutcomeStep
    OBVIOUS
  <2>0. StoreTypeOK
    BY DEF IInv
  <2>1. ASSUME UNCHANGED tables PROVE OutcomeStep
    <3>1. \A t \in TableNames, k \in RowKeys : Len(tables[t][k]) \in Nat
      BY <2>0 DEF StoreTypeOK
    <3> QED BY <2>1, <3>1 DEF OutcomeStep, KeptVersion, Versions
  <2>2. CASE begin_transaction
    BY <2>1, <2>2 DEF begin_transaction
  <2>3. ASSUME NEW x \in TxIds, NEW t \in TableNames, NEW k \in RowKeys, NEW d \in RowData,
               insert_in_tx(x, t, k, d)
        PROVE  OutcomeStep
    <3>1. \A u \in TableNames, w \in RowKeys :
             /\ Len(tables[u][w]) <= Len(tables'[u][w])
             /\ \A i \in DOMAIN tables[u][w] : tables'[u][w][i] = tables[u][w][i]
      BY <2>0, <2>3, InsertedVersion DEF insert_in_tx
    <3> QED BY <3>1 DEF OutcomeStep, KeptVersion, Versions
  <2>4. ASSUME NEW x \in TxIds, NEW s \in {"COMMITTED", "ABORTED"}, x \in active,
               tables' = Restamped(x, s)
        PROVE  OutcomeStep
    <3> SUFFICES ASSUME NEW t \in TableNames, NEW k \in RowKeys
                 PROVE  /\ Len(tables[t][k]) <= Len(tables'[t][k])
                        /\ \A i \in DOMAIN tables[t][k] :
                             KeptVersion(tables[t][k][i], tables'[t][k][i])
      BY DEF OutcomeStep, Versions
    <3>1. Len(tables[t][k]) \in Nat
      BY <2>0 DEF StoreTypeOK
    <3> QED BY <2>4, <3>1, EndedVersion DEF KeptVersion
  <2>5. ASSUME NEW x \in TxIds, commit_transaction(x) PROVE OutcomeStep
    BY <2>4, <2>5 DEF commit_transaction
  <2>6. ASSUME NEW x \in TxIds, rollback_transaction(x) PROVE OutcomeStep
    BY <2>4, <2>6 DEF rollback_transaction
  <2> QED BY <2>2, <2>3, <2>5, <2>6 DEF StoreNext
<1> QED BY <1>1, IInvAlways, PTL DEF StoreSpec, OutcomeIsFinal

-----------------------------------------------------------------------------
(* Every row in the write set of a running transaction holds a version it    *)
(* made: an insert into a row that is already in the write set adds nothing  *)
(* to what its own reader sees.                                              *)
WriteSetBacked ==
  \A x \in active, t \in TableNames : \A k \in write_set[x][t] :
    \E i \in DOMAIN tables[t][k] :
      tables[t][k][i].creator_tx_id = x /\ tables[t][k][i].tx_state = "ACTIVE"

LEMMA NextBacked == IInv /\ WriteSetBacked /\ [StoreNext]_storeVars => WriteSetBacked'
<1> SUFFICES ASSUME IInv, WriteSetBacked, [StoreNext]_storeVars PROVE WriteSetBacked'
  OBVIOUS
<1>0. StoreTypeOK /\ active \subseteq TxIds /\ write_set \in [TxIds -> [TableNames -> SUBSET RowKeys]]
  BY DEF IInv, StoreTypeOK
<1>1. CASE begin_transaction
  <2>1. /\ tables' = tables /\ next_tx_id \in TxIds
        /\ active' = active \cup {next_tx_id}
        /\ \A x \in active : x # next_tx_id
        /\ write_set' = [write_set EXCEPT ![next_tx_id] = [t \in TableNames |-> {}]]
    BY <1>0, <1>1, MaxTxAssumption DEF begin_transaction, StoreTypeOK, TxIds, IInv, IdsIssued
  <2> QED BY <1>0, <2>1 DEF WriteSetBacked
<1>2. ASSUME NEW x \in TxIds, NEW t \in TableNames, NEW k \in RowKeys, NEW d \in RowData, insert_in_tx(x, t, k, d)
      PROVE  WriteSetBacked'
  <2>1. /\ NewRowVersion(x, d).creator_tx_id = x /\ NewRowVersion(x, d).tx_state = "ACTIVE"
        /\ NewRowVersion(x, d) \in VersionedRowWithTx
    BY DEF NewRowVersion, VersionedRowWithTx, TxState
  <2>2. \A u \in TableNames, w \in RowKeys :
           /\ DOMAIN tables[u][w] \subseteq DOMAIN tables'[u][w]
           /\ \A i \in DOMAIN tables[u][w] : tables'[u][w][i] = tables[u][w][i]
    BY <1>0, <1>2, InsertedVersion DEF insert_in_tx
  <2>3. \E i \in DOMAIN tables'[t][k] : tables'[t][k][i] = NewRowVersion(x, d)
    <3>1. /\ tables[t][k] \in Seq(VersionedRowWithTx)
          /\ tables'[t][k] = Append(tables[t][k], NewRowVersion(x, d))
      BY <1>0, <1>2 DEF StoreTypeOK, insert_in_tx
    <3> QED BY ONLY <2>1, <3>1, AppendedRow
  <2>4. ASSUME NEW y \in active', NEW u \in TableNames, NEW w \in write_set'[y][u]
        PROVE  \E i \in DOMAIN tables'[u][w] :
                 tables'[u][w][i].creator_tx_id = y /\ tables'[u][w][i].tx_state = "ACTIVE"
    <3>1. y \in active /\ y \in TxIds /\ (w \in write_set[y][u] \/ (y = x /\ u = t /\ w = k))
      BY <1>0, <1>2 DEF insert_in_tx
    <3>2. CASE w \in write_set[y][u]
      <4>1. w \in RowKeys
        BY <1>0, <3>1, <3>2
      <4> QED BY <2>2, <3>1, <3>2, <4>1 DEF WriteSetBacked
    <3>3. CASE y = x /\ u = t /\ w = k
      BY <2>1, <2>3, <3>3
    <3> QED BY <3>1, <3>2, <3>3
  <2> QED BY <2>4 DEF WriteSetBacked
<1>3. ASSUME NEW x \in TxIds, NEW s \in {"COMMITTED", "ABORTED"}, x \in active,
             tables' = Restamped(x, s), EraseTransaction(x)
      PROVE  WriteSetBacked'
  <2>1. ASSUME NEW y \in active', NEW u \in TableNames, NEW w \in write_set'[y][u]
        PROVE  \E i \in DOMAIN tables'[u][w] :
                 tables'[u][w][i].creator_tx_id = y /\ tables'[u][w][i].tx_state = "ACTIVE"
    <3>1. y \in active /\ y # x /\ w \in write_set[y][u] /\ w \in RowKeys
      BY <1>0, <1>3 DEF EraseTransaction
    <3>2. PICK i \in DOMAIN tables[u][w] :
             tables[u][w][i].creator_tx_id = y /\ tables[u][w][i].tx_state = "ACTIVE"
      BY <3>1 DEF WriteSetBacked
    <3>3. /\ i \in DOMAIN tables'[u][w]
          /\ tables'[u][w][i].creator_tx_id = y /\ tables'[u][w][i].tx_state = "ACTIVE"
      BY <1>3, <3>1, <3>2, EndedVersion
    <3> QED BY <3>3
  <2> QED BY <2>1 DEF WriteSetBacked
<1>4. CASE UNCHANGED storeVars
  BY <1>4 DEF storeVars, WriteSetBacked
<1> QED BY <1>1, <1>2, <1>3, <1>4 DEF StoreNext, commit_transaction, rollback_transaction

(* The rows a reader sees, in terms of the stored versions. *)
Shows(r, t, k) ==
  \E i \in DOMAIN tables[t][k] :
    \/ tables[t][k][i].tx_state = "COMMITTED"
    \/ tables[t][k][i].creator_tx_id = r /\ tables[t][k][i].tx_state = "ACTIVE"

LEMMA VisibleRow ==
  ASSUME StoreTypeOK, NEW r, NEW t \in TableNames, NEW k \in RowKeys
  PROVE  k \in VisibleRows(r, t) <=> Shows(r, t, k)
<1>1. \A i \in DOMAIN tables[t][k] : ~is_deleted(tables[t][k][i])
  BY StoredVersion DEF is_deleted, VersionedRowWithTx
<1> QED BY <1>1 DEF VisibleRows, is_visible_to, Shows

LEMMA ReaderNext == IInv /\ WriteSetBacked /\ [StoreNext]_storeVars => [ReaderStep]_storeVars
<1> SUFFICES ASSUME IInv, WriteSetBacked, StoreNext, NEW r \in TxIds \cup {0}, NEW t \in TableNames
             PROVE  /\ VisibleRows(r, t) \subseteq VisibleRows(r, t)' \/ r \in active \ active'
                    /\ \/ VisibleRows(r, t)' \subseteq VisibleRows(r, t)
                       \/ r \in active /\ write_set[r] # write_set'[r]
                       \/ active \ active' # {}
  BY DEF ReaderStep
<1>0. StoreTypeOK /\ StoreTypeOK' /\ write_set \in [TxIds -> [TableNames -> SUBSET RowKeys]]
  BY NextIInv DEF IInv, StoreTypeOK
<1>1. \A k \in RowKeys : /\ k \in VisibleRows(r, t) <=> Shows(r, t, k)
                         /\ k \in VisibleRows(r, t)' <=> Shows(r, t, k)'
  <2>1. \A k \in RowKeys : k \in VisibleRows(r, t) <=> Shows(r, t, k)
    BY <1>0, VisibleRow
  <2>2. ASSUME NEW k \in RowKeys PROVE (k \in VisibleRows(r, t))' <=> Shows(r, t, k)'
    <3>1. \A i \in DOMAIN tables'[t][k] : ~is_deleted(tables'[t][k][i])
      <4>1. tables'[t][k] \in Seq(VersionedRowWithTx)
        BY <1>0 DEF StoreTypeOK, TxIds, VersionedRowWithTx
      <4>2. \A i \in DOMAIN tables'[t][k] : tables'[t][k][i] \in VersionedRowWithTx
        BY <4>1
      <4> QED BY <4>2 DEF is_deleted, VersionedRowWithTx
    <3> QED BY <3>1 DEF VisibleRows, is_visible_to, Shows
  <2> QED BY <2>1, <2>2
<1>2. VisibleRows(r, t) \subseteq RowKeys /\ VisibleRows(r, t)' \subseteq RowKeys
  BY DEF VisibleRows
<1>3. CASE begin_transaction
  BY <1>3 DEF begin_transaction, VisibleRows
<1>4. ASSUME NEW x \in TxIds, NEW u \in TableNames, NEW w \in RowKeys, NEW d \in RowData, insert_in_tx(x, u, w, d)
      PROVE  /\ VisibleRows(r, t) \subseteq VisibleRows(r, t)'
             /\ \/ VisibleRows(r, t)' \subseteq VisibleRows(r, t)
                \/ r \in active /\ write_set[r] # write_set'[r]
  <2>1. /\ NewRowVersion(x, d).creator_tx_id = x /\ NewRowVersion(x, d).tx_state = "ACTIVE"
    BY DEF NewRowVersion
  <2>2. x \in active /\ tables' = [tables EXCEPT ![u][w] = Append(@, NewRowVersion(x, d))]
    BY <1>4 DEF insert_in_tx
  <2>3. /\ \A k \in RowKeys : DOMAIN tables[t][k] \subseteq DOMAIN tables'[t][k]
        /\ \A k \in RowKeys : \A i \in DOMAIN tables[t][k] : tables'[t][k][i] = tables[t][k][i]
        /\ \A k \in RowKeys : \A i \in DOMAIN tables'[t][k] :
             \/ i \in DOMAIN tables[t][k]
             \/ t = u /\ k = w /\ tables'[t][k][i] = NewRowVersion(x, d)
    <3>1. StoreTypeOK
      BY <1>0
    <3>2. \A k \in RowKeys : DOMAIN tables[t][k] \subseteq DOMAIN tables'[t][k]
      BY <2>2, <3>1, InsertedVersion
    <3>3. \A k \in RowKeys : \A i \in DOMAIN tables[t][k] : tables'[t][k][i] = tables[t][k][i]
      BY <2>2, <3>1, InsertedVersion
    <3>4. \A k \in RowKeys : \A i \in DOMAIN tables'[t][k] :
             \/ i \in DOMAIN tables[t][k]
             \/ t = u /\ k = w /\ tables'[t][k][i] = NewRowVersion(x, d)
      BY <2>2, <3>1, InsertedVersion
    <3> QED BY ONLY <3>2, <3>3, <3>4
  <2>4. \A k \in RowKeys : Shows(r, t, k) => Shows(r, t, k)'
    BY <2>3 DEF Shows
  <2>5. ASSUME NEW k \in RowKeys, Shows(r, t, k)'
        PROVE  Shows(r, t, k) \/ (r = x /\ t = u /\ k = w)
    BY <2>1, <2>3, <2>5 DEF Shows
  <2>6. CASE r = x /\ t = u /\ w \in write_set[x][u]
    <3>1. Shows(r, t, w)
      BY <2>2, <2>6 DEF WriteSetBacked, Shows
    <3> QED BY <1>1, <1>2, <2>4, <2>5, <3>1
  <2>7. CASE r = x /\ w \notin write_set[x][u]
    <3>1. write_set'[x][u] = write_set[x][u] \cup {w}
      BY <1>0, <1>4 DEF insert_in_tx
    <3>2. write_set[r] # write_set'[r]
      BY <2>7, <3>1
    <3> QED BY <1>1, <1>2, <2>2, <2>4, <2>7, <3>2
  <2>8. CASE r # x \/ t # u
    BY <1>1, <1>2, <2>4, <2>5, <2>8
  <2> QED BY <2>6, <2>7, <2>8
<1>5. ASSUME NEW x \in TxIds, NEW s \in {"COMMITTED", "ABORTED"}, x \in active,
             tables' = Restamped(x, s), EraseTransaction(x)
      PROVE  /\ VisibleRows(r, t) \subseteq VisibleRows(r, t)' \/ r \in active \ active'
             /\ active \ active' # {}
  <2>1. x \in active \ active'
    BY <1>5 DEF EraseTransaction
  <2>2. ASSUME r # x, NEW k \in RowKeys, Shows(r, t, k) PROVE Shows(r, t, k)'
    <3>1. PICK i \in DOMAIN tables[t][k] :
             \/ tables[t][k][i].tx_state = "COMMITTED"
             \/ tables[t][k][i].creator_tx_id = r /\ tables[t][k][i].tx_state = "ACTIVE"
      BY <2>2 DEF Shows
    <3>2. /\ i \in DOMAIN tables'[t][k]
          /\ tables'[t][k][i].creator_tx_id = tables[t][k][i].creator_tx_id
          /\ tables[t][k][i].creator_tx_id = x <=>
               tables[t][k][i].creator_tx_id = x /\ tables[t][k][i].tx_state = "ACTIVE"
          /\ tables'[t][k][i].tx_state =
               IF tables[t][k][i].creator_tx_id = x THEN s ELSE tables[t][k][i].tx_state
      BY <1>5, EndedVersion
    <3>3. tables'[t][k][i].tx_state = tables[t][k][i].tx_state
      BY <2>2, <3>1, <3>2
    <3> QED BY <3>1, <3>2, <3>3 DEF Shows
  <2> QED BY <1>1, <1>2, <2>1, <2>2
<1> QED BY <1>3, <1>4, <1>5 DEF StoreNext, commit_transaction, rollback_transaction

(* READ COMMITTED with read-your-own-writes: what count_visible_rows counts  *)
(* for a reader shrinks only when the reader ends, and grows only by its own *)
(* insert or by the end of another transaction.                              *)
THEOREM ReadersSeeCommitted == StoreSpec => ReadCommitted
<1>1. StoreInit => WriteSetBacked
  BY DEF StoreInit, WriteSetBacked
<1> QED BY <1>1, NextBacked, ReaderNext, IInvAlways, PTL DEF StoreSpec, ReadCommitted

-----------------------------------------------------------------------------
(* Two sets of rows are equal when they agree on every row. *)
LEMMA SameRows ==
  ASSUME NEW A \in SUBSET RowVersions, NEW B \in SUBSET RowVersions,
         \A u \in TableNames, w \in RowKeys, e \in RowData : <<u, w, e>> \in A <=> <<u, w, e>> \in B
  PROVE  A = B
<1>1. ASSUME NEW r \in RowVersions PROVE r \in A <=> r \in B
  <2>1. PICK u \in TableNames, w \in RowKeys, e \in RowData : r = <<u, w, e>>
    BY DEF RowVersions
  <2> QED BY <2>1
<1> QED BY <1>1

(* The refinement mapping, step by step. *)
LEMMA InsertMaps ==
  ASSUME IInv, NEW x \in TxIds, NEW t \in TableNames, NEW k \in RowKeys, NEW d \in RowData,
         insert_in_tx(x, t, k, d)
  PROVE  /\ \A y \in TxIds : PendingOf(y)' = IF y = x THEN PendingOf(y) \cup {<<t, k, d>>}
                                                     ELSE PendingOf(y)
         /\ Published' = Published
<1>1. /\ NewRowVersion(x, d).creator_tx_id = x
      /\ NewRowVersion(x, d).tx_state = "ACTIVE"
      /\ NewRowVersion(x, d).data = d
  BY DEF NewRowVersion
<1>2. \A u \in TableNames, w \in RowKeys :
         /\ \A i \in DOMAIN tables[u][w] :
              i \in DOMAIN tables'[u][w] /\ tables'[u][w][i] = tables[u][w][i]
         /\ \A i \in DOMAIN tables'[u][w] :
              \/ i \in DOMAIN tables[u][w]
              \/ u = t /\ w = k /\ tables'[u][w][i] = NewRowVersion(x, d)
         /\ \E i \in DOMAIN tables'[t][k] : tables'[t][k][i] = NewRowVersion(x, d)
  <2>1. StoreTypeOK /\ tables' = [tables EXCEPT ![t][k] = Append(@, NewRowVersion(x, d))]
    BY DEF insert_in_tx, IInv
  <2>2. \A u \in TableNames, w \in RowKeys : DOMAIN tables[u][w] \subseteq DOMAIN tables'[u][w]
    BY <2>1, InsertedVersion
  <2>3. \A u \in TableNames, w \in RowKeys : \A i \in DOMAIN tables[u][w] :
           tables'[u][w][i] = tables[u][w][i]
    BY <2>1, InsertedVersion
  <2>4. \A u \in TableNames, w \in RowKeys : \A i \in DOMAIN tables'[u][w] :
           \/ i \in DOMAIN tables[u][w]
           \/ u = t /\ w = k /\ tables'[u][w][i] = NewRowVersion(x, d)
    BY <2>1, InsertedVersion
  <2>5. \E i \in DOMAIN tables'[t][k] : tables'[t][k][i] = NewRowVersion(x, d)
    <3>1. NewRowVersion(x, d) \in VersionedRowWithTx
      BY DEF NewRowVersion, VersionedRowWithTx, TxState
    <3>2. /\ tables[t][k] \in Seq(VersionedRowWithTx)
          /\ tables'[t][k] = Append(tables[t][k], NewRowVersion(x, d))
      BY <2>1 DEF StoreTypeOK
    <3> QED BY ONLY <3>1, <3>2, AppendedRow
  <2> QED BY ONLY <2>2, <2>3, <2>4, <2>5
<1>3. ASSUME NEW y \in TxIds, NEW u \in TableNames, NEW w \in RowKeys, NEW e \in RowData
      PROVE  /\ <<u, w, e>> \in PendingOf(y)' <=>
                  <<u, w, e>> \in PendingOf(y) \/ (y = x /\ u = t /\ w = k /\ e = d)
             /\ <<u, w, e>> \in Published' <=> <<u, w, e>> \in Published
  <2>1. <<u, w, e>> \in RowVersions
    BY DEF RowVersions
  <2>2. <<u, w, e>> \in PendingOf(y) <=>
          \E i \in DOMAIN tables[u][w] :
            tables[u][w][i].data = e /\ tables[u][w][i].creator_tx_id = y
            /\ tables[u][w][i].tx_state = "ACTIVE"
    BY <2>1 DEF PendingOf, Versions
  <2>3. <<u, w, e>> \in PendingOf(y)' <=>
          \E i \in DOMAIN tables'[u][w] :
            tables'[u][w][i].data = e /\ tables'[u][w][i].creator_tx_id = y
            /\ tables'[u][w][i].tx_state = "ACTIVE"
    BY <2>1 DEF PendingOf, Versions, RowVersions
  <2>4. <<u, w, e>> \in Published <=>
          \E i \in DOMAIN tables[u][w] :
            tables[u][w][i].data = e /\ tables[u][w][i].tx_state = "COMMITTED"
    BY <2>1 DEF Published, Versions
  <2>5. <<u, w, e>> \in Published' <=>
          \E i \in DOMAIN tables'[u][w] :
            tables'[u][w][i].data = e /\ tables'[u][w][i].tx_state = "COMMITTED"
    BY <2>1 DEF Published, Versions, RowVersions
  <2> QED BY <1>1, <1>2, <2>2, <2>3, <2>4, <2>5
<1>4. /\ Published \in SUBSET RowVersions /\ Published' \in SUBSET RowVersions
      /\ \A y \in TxIds : PendingOf(y) \in SUBSET RowVersions /\ PendingOf(y)' \in SUBSET RowVersions
  BY DEF PendingOf, Published, RowVersions
<1>5. ASSUME NEW y \in TxIds
      PROVE  PendingOf(y)' = IF y = x THEN PendingOf(y) \cup {<<t, k, d>>} ELSE PendingOf(y)
  <2> DEFINE B == IF y = x THEN PendingOf(y) \cup {<<t, k, d>>} ELSE PendingOf(y)
  <2>1. B \in SUBSET RowVersions
    BY <1>4 DEF RowVersions
  <2>2. \A u \in TableNames, w \in RowKeys, e \in RowData : <<u, w, e>> \in PendingOf(y)' <=> <<u, w, e>> \in B
    BY <1>3
  <2> HIDE DEF B
  <2>3. PendingOf(y)' = B
    BY <1>4, <2>1, <2>2, SameRows
  <2> QED BY <2>3 DEF B
<1>6. Published' = Published
  BY <1>3, <1>4, SameRows
<1> QED BY <1>5, <1>6

LEMMA EndMaps ==
  ASSUME IInv, NEW x \in TxIds, NEW s \in {"COMMITTED", "ABORTED"},
         x \in active, tables' = Restamped(x, s)
  PROVE  /\ \A y \in TxIds : PendingOf(y)' = IF y = x THEN {} ELSE PendingOf(y)
         /\ Published' = IF s = "COMMITTED" THEN Published \cup PendingOf(x) ELSE Published
<1>1. \A u \in TableNames, w \in RowKeys :
         /\ DOMAIN tables'[u][w] = DOMAIN tables[u][w]
         /\ \A i \in DOMAIN tables[u][w] :
              /\ tables'[u][w][i].creator_tx_id = tables[u][w][i].creator_tx_id
              /\ tables'[u][w][i].data = tables[u][w][i].data
              /\ tables[u][w][i].creator_tx_id = x => tables[u][w][i].tx_state = "ACTIVE"
              /\ tables'[u][w][i].tx_state =
                   IF tables[u][w][i].creator_tx_id = x THEN s ELSE tables[u][w][i].tx_state
  BY EndedVersion
<1>2. ASSUME NEW y \in TxIds, NEW u \in TableNames, NEW w \in RowKeys, NEW e \in RowData
      PROVE  /\ <<u, w, e>> \in PendingOf(y)' <=> y # x /\ <<u, w, e>> \in PendingOf(y)
             /\ <<u, w, e>> \in Published' <=>
                  \/ <<u, w, e>> \in Published
                  \/ s = "COMMITTED" /\ <<u, w, e>> \in PendingOf(x)
  <2>1. <<u, w, e>> \in RowVersions
    BY DEF RowVersions
  <2>2. \A z \in TxIds : <<u, w, e>> \in PendingOf(z) <=>
          \E i \in DOMAIN tables[u][w] :
            tables[u][w][i].data = e /\ tables[u][w][i].creator_tx_id = z
            /\ tables[u][w][i].tx_state = "ACTIVE"
    BY <2>1 DEF PendingOf, Versions
  <2>3. <<u, w, e>> \in PendingOf(y)' <=>
          \E i \in DOMAIN tables'[u][w] :
            tables'[u][w][i].data = e /\ tables'[u][w][i].creator_tx_id = y
            /\ tables'[u][w][i].tx_state = "ACTIVE"
    BY <2>1 DEF PendingOf, Versions, RowVersions
  <2>4. <<u, w, e>> \in Published <=>
          \E i \in DOMAIN tables[u][w] :
            tables[u][w][i].data = e /\ tables[u][w][i].tx_state = "COMMITTED"
    BY <2>1 DEF Published, Versions
  <2>5. <<u, w, e>> \in Published' <=>
          \E i \in DOMAIN tables'[u][w] :
            tables'[u][w][i].data = e /\ tables'[u][w][i].tx_state = "COMMITTED"
    BY <2>1 DEF Published, Versions, RowVersions
  <2> QED BY <1>1, <2>2, <2>3, <2>4, <2>5
<1>3. /\ Published \in SUBSET RowVersions /\ Published' \in SUBSET RowVersions
      /\ \A y \in TxIds : PendingOf(y) \in SUBSET RowVersions /\ PendingOf(y)' \in SUBSET RowVersions
  BY DEF PendingOf, Published, RowVersions
<1>4. ASSUME NEW y \in TxIds PROVE PendingOf(y)' = IF y = x THEN {} ELSE PendingOf(y)
  <2> DEFINE B == IF y = x THEN {} ELSE PendingOf(y)
  <2>1. B \in SUBSET RowVersions
    BY <1>3
  <2>2. \A u \in TableNames, w \in RowKeys, e \in RowData : <<u, w, e>> \in PendingOf(y)' <=> <<u, w, e>> \in B
    BY <1>2
  <2> HIDE DEF B
  <2>3. PendingOf(y)' = B
    BY <1>3, <2>1, <2>2, SameRows
  <2> QED BY <2>3 DEF B
<1>5. Published' = IF s = "COMMITTED" THEN Published \cup PendingOf(x) ELSE Published
  <2> DEFINE B == IF s = "COMMITTED" THEN Published \cup PendingOf(x) ELSE Published
  <2>1. B \in SUBSET RowVersions
    BY <1>3
  <2>2. \A u \in TableNames, w \in RowKeys, e \in RowData : <<u, w, e>> \in Published' <=> <<u, w, e>> \in B
    BY <1>2
  <2> HIDE DEF B
  <2>3. Published' = B
    BY <1>3, <2>1, <2>2, SameRows
  <2> QED BY <2>3 DEF B
<1> QED BY <1>4, <1>5

(* Marking the versions of a write set one after the other implements the    *)
(* atomic store, call by call: begin_transaction, insert_in_tx,              *)
(* commit_transaction and rollback_transaction are each the abstract step of *)
(* the same name.                                                            *)
THEOREM Refinement == StoreSpec => ImplementsAtomicStore
<1>1. StoreInit => Store!AInit
  <2> SUFFICES ASSUME StoreInit PROVE Store!AInit
    OBVIOUS
  <2>1. \A t \in TableNames, k \in RowKeys : DOMAIN tables[t][k] = {}
    BY DEF StoreInit
  <2>2. \A r \in RowVersions : r[1] \in TableNames /\ r[2] \in RowKeys
    BY DEF RowVersions
  <2>3. Published = {} /\ \A x \in TxIds : PendingOf(x) = {}
    BY <2>1, <2>2 DEF Published, PendingOf, Versions
  <2>4. active = {} /\ 1..(next_tx_id - 1) = {}
    BY DEF StoreInit
  <2> QED BY <2>3, <2>4 DEF Store!AInit
<1>2. IInv => CallsMatch
  <2> SUFFICES ASSUME IInv PROVE CallsMatch
    OBVIOUS
  <2> DEFINE pend == [x \in TxIds |-> PendingOf(x)]
             done == (1..(next_tx_id - 1)) \ active
  <2>0. /\ StoreTypeOK /\ next_tx_id \in 1..(MaxTx + 1) /\ active \subseteq TxIds
        /\ \A x \in active : x < next_tx_id
    BY DEF IInv, StoreTypeOK, IdsIssued
  <2>1. ASSUME begin_transaction PROVE Store!ABegin(next_tx_id)
    <3>1. /\ next_tx_id \notin active \cup done
          /\ active' = active \cup {next_tx_id}
          /\ done' = done
      BY <2>0, <2>1, MaxTxAssumption DEF begin_transaction, TxIds
    <3>2. /\ Published' = Published
          /\ pend' = pend
      BY <2>1 DEF begin_transaction, Published, PendingOf, Versions, TxIds, RowVersions
    <3> QED BY <3>1, <3>2 DEF Store!ABegin
  <2>2. ASSUME NEW x \in TxIds, NEW t \in TableNames, NEW k \in RowKeys, NEW d \in RowData,
               insert_in_tx(x, t, k, d)
        PROVE  Store!AInsert(x, <<t, k, d>>)
    <3>1. /\ x \in active /\ active' = active /\ done' = done
      BY <2>2 DEF insert_in_tx
    <3>2. /\ Published' = Published
          /\ pend' = [pend EXCEPT ![x] = @ \cup {<<t, k, d>>}]
      BY <2>2, InsertMaps DEF TxIds
    <3> QED BY <3>1, <3>2 DEF Store!AInsert
  <2>3. ASSUME NEW x \in TxIds, NEW s \in {"COMMITTED", "ABORTED"}, x \in active,
               tables' = Restamped(x, s), EraseTransaction(x), next_tx_id' = next_tx_id
        PROVE  /\ Store!AEnd(x)
               /\ Published' = IF s = "COMMITTED" THEN Published \cup pend[x] ELSE Published
    <3>1. active' = active \ {x} /\ done' = done \cup {x}
      BY <2>0, <2>3, MaxTxAssumption DEF EraseTransaction, TxIds
    <3>2. /\ pend' = [pend EXCEPT ![x] = {}]
          /\ Published' = IF s = "COMMITTED" THEN Published \cup pend[x] ELSE Published
      BY <2>3, EndMaps DEF TxIds
    <3> QED BY <2>3, <3>1, <3>2 DEF Store!AEnd
  <2>4. ASSUME NEW x \in TxIds, commit_transaction(x) PROVE Store!ACommit(x)
    <3>1. Store!AEnd(x) /\ Published' = Published \cup pend[x]
      BY <2>3, <2>4 DEF commit_transaction
    <3> QED BY <3>1 DEF Store!ACommit
  <2>5. ASSUME NEW x \in TxIds, rollback_transaction(x) PROVE Store!ARollback(x)
    <3>1. Store!AEnd(x) /\ Published' = Published
      BY <2>3, <2>5 DEF rollback_transaction
    <3> QED BY <3>1 DEF Store!ARollback
  <2> HIDE DEF pend, done
  <2> QED BY <2>1, <2>2, <2>4, <2>5, Zenon DEF CallsMatch
<1>3. IInv /\ [StoreNext]_storeVars => [Store!ANext]_(Store!avars)
  <2> SUFFICES ASSUME IInv, [StoreNext]_storeVars PROVE Store!ANext \/ UNCHANGED Store!avars
    OBVIOUS
  <2>0. CallsMatch
    BY <1>2
  <2>1. CASE begin_transaction
    <3>1. next_tx_id \in TxIds
      BY <2>1, MaxTxAssumption DEF IInv, StoreTypeOK, begin_transaction, TxIds
    <3>2. Store!ABegin(next_tx_id)
      BY <2>0, <2>1, Zenon DEF CallsMatch
    <3> QED BY <3>1, <3>2, Zenon DEF Store!ANext
  <2>2. ASSUME NEW x \in TxIds, NEW t \in TableNames, NEW k \in RowKeys, NEW d \in RowData,
               insert_in_tx(x, t, k, d)
        PROVE  Store!ANext
    <3>1. <<t, k, d>> \in RowVersions
      BY DEF RowVersions
    <3>2. Store!AInsert(x, <<t, k, d>>)
      BY <2>0, <2>2, Zenon DEF CallsMatch
    <3> QED BY <3>1, <3>2, Zenon DEF Store!ANext
  <2>3. ASSUME NEW x \in TxIds, commit_transaction(x) \/ rollback_transaction(x)
        PROVE  Store!ANext
    <3>1. Store!ACommit(x) \/ Store!ARollback(x)
      BY <2>0, <2>3, Zenon DEF CallsMatch
    <3> QED BY <3>1, Zenon DEF Store!ANext
  <2>4. CASE UNCHANGED storeVars
    BY <2>4 DEF storeVars, Store!avars, Published, PendingOf, Versions, TxIds, RowVersions
  <2> QED BY <2>1, <2>2, <2>3, <2>4 DEF StoreNext
<1>4. IInv => [CallsMatch]_storeVars
  BY <1>2
<1> QED BY <1>1, <1>3, <1>4, IInvAlways, PTL DEF StoreSpec, Store!ASpec, ImplementsAtomicStore
=============================================================================
