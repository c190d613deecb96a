-------------------------- MODULE SqlEngine_proofs --------------------------
(***************************************************************************)
(* For any tables, schemas, statements and conditions, and for any meaning *)
(* of the expressions: what the statements of the SQL engine keep true of  *)
(* the stored rows.                                                        *)
(***************************************************************************)
EXTENDS SqlEngine, SequenceTheorems, FiniteSetTheorems, WellFoundedInduction, TLAPS

(* A sequence, of whatever elements. *)
IsList(s) == Len(s) \in Nat /\ s = [i \in 1..Len(s) |-> s[i]]

(* The stored tables have their shape. *)
Stored ==
  /\ DOMAIN tables_ \subseteq Tables
  /\ tables_ = [t \in DOMAIN tables_ |-> tables_[t]]
  /\ \A t \in DOMAIN tables_ :
       /\ tables_[t] = [columns |-> tables_[t].columns, rows |-> tables_[t].rows]
       /\ IsList(tables_[t].rows)
  /\ refused \in [Tables -> SUBSET {"insert", "update", "delete"}]

(* NOT NULL and UNIQUE, of any rows. *)
Valid(columns, rows) ==
  /\ \A c \in not_null_columns(columns), i \in 1..Len(rows) :
       c \in DOMAIN rows[i] => ~is_null(rows[i][c])
  /\ \A c \in unique_columns(columns), i, j \in 1..Len(rows) :
       i # j /\ Has(rows[i], c) /\ Has(rows[j], c) =>
         to_string(rows[i][c]) # to_string(rows[j][c])

(* A function on 1..n is a sequence of length n. *)
LEMMA ListOf ==
  ASSUME NEW n \in Nat, NEW f, f = [i \in 1..n |-> f[i]]
  PROVE  IsList(f) /\ Len(f) = n
<1> DEFINE S == {f[i] : i \in 1..n}
<1>1. f \in [1..n -> S]
  <2>1. \A i \in 1..n : f[i] \in S
    OBVIOUS
  <2> HIDE DEF S
  <2> QED BY <2>1
<1> HIDE DEF S
<1>2. f \in Seq(S)
  BY <1>1
<1>3. DOMAIN f = 1..n /\ DOMAIN f = 1..Len(f) /\ Len(f) \in Nat
  BY <1>1, <1>2
<1>4. Len(f) = n
  BY <1>3
<1> QED BY <1>4 DEF IsList

(* So is any element of a set of sequences. *)
LEMMA SeqIsList == ASSUME NEW S, NEW s \in Seq(S) PROVE IsList(s)
  BY DEF IsList

(* The length and the elements of a concatenation. *)
LEMMA ConcatLists ==
  ASSUME NEW s, NEW r, IsList(s), IsList(r)
  PROVE  /\ IsList(s \o r) /\ Len(s \o r) = Len(s) + Len(r)
         /\ \A i \in 1..Len(s) : (s \o r)[i] = s[i]
         /\ \A i \in 1..Len(r) : (s \o r)[Len(s) + i] = r[i]
<1> DEFINE S == {s[i] : i \in 1..Len(s)} \cup {r[i] : i \in 1..Len(r)}
<1>1. (\A i \in 1..Len(s) : s[i] \in S) /\ (\A i \in 1..Len(r) : r[i] \in S)
  OBVIOUS
<1> HIDE DEF S
<1>2. s \in [1..Len(s) -> S] /\ r \in [1..Len(r) -> S] /\ Len(s) \in Nat /\ Len(r) \in Nat
  BY <1>1 DEF IsList
<1>3. s \in Seq(S) /\ r \in Seq(S)
  BY <1>2
<1>4. /\ s \o r \in Seq(S) /\ Len(s \o r) = Len(s) + Len(r)
      /\ \A i \in 1..(Len(s) + Len(r)) : (s \o r)[i] = IF i <= Len(s) THEN s[i] ELSE r[i - Len(s)]
  BY <1>3, ConcatProperties
<1>5. \A i \in 1..Len(r) : /\ Len(s) + i \in 1..(Len(s) + Len(r)) /\ ~(Len(s) + i <= Len(s))
                           /\ Len(s) + i - Len(s) = i
  BY <1>2
<1>6. IsList(s \o r)
  BY <1>4, SeqIsList
<1> QED BY <1>2, <1>4, <1>5, <1>6

-----------------------------------------------------------------------------
(* execute_insert: each new row is checked against the rows before it. *)
LEMMA InsertValid ==
  ASSUME NEW columns, NEW rows, IsList(rows), Valid(columns, rows), NEW n \in Nat, NEW new,
         \A i \in 1..n : validate_row(new[i], columns, rows \o [j \in 1..(i - 1) |-> new[j]])
  PROVE  Valid(columns, rows \o [i \in 1..n |-> new[i]])
<1> DEFINE with(k) == rows \o [i \in 1..k |-> new[i]]
           L == Len(rows)
<1>0. L \in Nat
  BY DEF IsList
<1>1. ASSUME NEW k \in 0..n
      PROVE  /\ Len(with(k)) = L + k
             /\ \A i \in 1..L : with(k)[i] = rows[i]
             /\ \A i \in 1..k : with(k)[L + i] = new[i]
  <2> DEFINE f == [i \in 1..k |-> new[i]]
  <2>1. IsList(f) /\ Len(f) = k
    <3>1. k \in Nat /\ f = [i \in 1..k |-> f[i]]
      OBVIOUS
    <3> HIDE DEF f
    <3> QED BY <3>1, ListOf
  <2>2. \A i \in 1..k : f[i] = new[i]
    OBVIOUS
  <2> HIDE DEF f
  <2>3. /\ Len(rows \o f) = L + k
        /\ \A i \in 1..L : (rows \o f)[i] = rows[i]
        /\ \A i \in 1..k : (rows \o f)[L + i] = new[i]
    BY <2>1, <2>2, ConcatLists
  <2> QED BY <2>3 DEF f
<1>2. \A p \in 1..(L + n) : p \in 1..L \/ \E k \in 1..n : p = L + k
  <2> SUFFICES ASSUME NEW p \in 1..(L + n), p \notin 1..L PROVE \E k \in 1..n : p = L + k
    OBVIOUS
  <2>1. p - L \in 1..n /\ p = L + (p - L)
    BY <1>0
  <2> QED BY <2>1
<1>3. n \in 0..n /\ \A k \in 1..n : k - 1 \in 0..n /\ k \in Nat
  OBVIOUS
<1>4. \A k \in 1..n : validate_row(new[k], columns, with(k - 1))
  OBVIOUS
<1> HIDE DEF with
<1>5. /\ Len(with(n)) = L + n
      /\ \A i \in 1..L : with(n)[i] = rows[i]
      /\ \A i \in 1..n : with(n)[L + i] = new[i]
  BY <1>1, <1>3
(* Row k of the statement against any row before it. *)
<1>6. ASSUME NEW k \in 1..n, NEW q \in 1..(L + k - 1)
      PROVE  q \in 1..Len(with(k - 1)) /\ with(k - 1)[q] = with(n)[q]
  <2>1. Len(with(k - 1)) = L + (k - 1) /\ (\A i \in 1..L : with(k - 1)[i] = rows[i])
        /\ \A i \in 1..(k - 1) : with(k - 1)[L + i] = new[i]
    BY <1>1, <1>3
  <2>2. q \in 1..Len(with(k - 1))
    BY <1>0, <2>1
  <2>3. CASE q \in 1..L
    BY <1>5, <2>1, <2>2, <2>3
  <2>4. CASE q \notin 1..L
    <3>1. q - L \in 1..(k - 1) /\ q - L \in 1..n /\ q = L + (q - L)
      BY <1>0, <2>4
    <3> QED BY <1>5, <2>1, <2>2, <3>1
  <2> QED BY <2>3, <2>4
<1>7. ASSUME NEW c \in unique_columns(columns), NEW p \in 1..(L + n), NEW q \in 1..(L + n), q < p,
             Has(with(n)[p], c), Has(with(n)[q], c)
      PROVE  to_string(with(n)[p][c]) # to_string(with(n)[q][c])
  <2>1. CASE p \in 1..L
    <3>1. q \in 1..L /\ p # q
      BY <1>0, <1>7, <2>1
    <3> QED BY <1>5, <1>7, <2>1, <3>1 DEF Valid
  <2>2. ASSUME NEW k \in 1..n, p = L + k
        PROVE  to_string(with(n)[p][c]) # to_string(with(n)[q][c])
    <3>1. q \in 1..(L + k - 1)
      BY <1>0, <1>7, <2>2
    <3>2. validate_row(new[k], columns, with(k - 1)) /\ with(n)[p] = new[k]
      BY <1>4, <1>5, <2>2
    <3> QED BY <1>6, <1>7, <3>1, <3>2 DEF validate_row
  <2> QED BY <1>2, <2>1, <2>2
<1>8. ASSUME NEW c \in unique_columns(columns), NEW p \in 1..(L + n), NEW q \in 1..(L + n), p # q,
             Has(with(n)[p], c), Has(with(n)[q], c)
      PROVE  to_string(with(n)[p][c]) # to_string(with(n)[q][c])
  <2>1. p < q \/ q < p
    BY <1>0, <1>8
  <2> QED BY <1>7, <1>8, <2>1
<1>9. ASSUME NEW c \in not_null_columns(columns), NEW p \in 1..(L + n), c \in DOMAIN with(n)[p]
      PROVE  ~is_null(with(n)[p][c])
  <2>1. CASE p \in 1..L
    BY <1>5, <1>9, <2>1 DEF Valid
  <2>2. ASSUME NEW k \in 1..n, p = L + k PROVE ~is_null(with(n)[p][c])
    <3>1. validate_row(new[k], columns, with(k - 1)) /\ with(n)[p] = new[k]
      BY <1>4, <1>5, <2>2
    <3> QED BY <1>9, <3>1 DEF validate_row
  <2> QED BY <1>2, <2>1, <2>2
<1>10. Valid(columns, with(n))
  BY <1>5, <1>8, <1>9 DEF Valid
<1> QED BY <1>10 DEF with

(* execute_update: each changed row is checked against the whole table,    *)
(* itself included, so it has no value in a UNIQUE column.                 *)
LEMMA UpdateValid ==
  ASSUME NEW columns, NEW rows, Valid(columns, rows), NEW now, Len(now) = Len(rows),
         \A i \in 1..Len(rows) :
           \/ now[i] = rows[i]
           \/ \E table : /\ Len(table) = Len(rows) /\ table[i] = now[i]
                         /\ validate_row(now[i], columns, table)
  PROVE  Valid(columns, now)
<1>1. ASSUME NEW i \in 1..Len(rows), now[i] # rows[i]
      PROVE  /\ \A c \in not_null_columns(columns) : c \in DOMAIN now[i] => ~is_null(now[i][c])
             /\ \A c \in unique_columns(columns) : ~Has(now[i], c)
  <2>1. PICK table : /\ Len(table) = Len(rows) /\ table[i] = now[i]
                     /\ validate_row(now[i], columns, table)
    BY <1>1
  <2> QED BY <2>1 DEF validate_row
<1>2. ASSUME NEW c \in not_null_columns(columns), NEW i \in 1..Len(now), c \in DOMAIN now[i]
      PROVE  ~is_null(now[i][c])
  BY <1>1, <1>2 DEF Valid
<1>3. ASSUME NEW c \in unique_columns(columns), NEW i \in 1..Len(now), NEW j \in 1..Len(now), i # j,
             Has(now[i], c), Has(now[j], c)
      PROVE  to_string(now[i][c]) # to_string(now[j][c])
  BY <1>1, <1>3 DEF Valid
<1> QED BY <1>2, <1>3 DEF Valid

(* The rows of now are rows of before that stand at different positions,   *)
(* given by src, or empty ones.                                            *)
Moved(before, now, src) ==
  /\ \A i \in 1..Len(now) :
       \/ now[i] = EmptyRow
       \/ src[i] \in 1..Len(before) /\ now[i] = before[src[i]]
  /\ \A i, j \in 1..Len(now) :
       i # j /\ now[i] # EmptyRow /\ now[j] # EmptyRow => src[i] # src[j]

(* execute_delete: rows that are only moved stay valid. *)
LEMMA MovedValid ==
  ASSUME NEW columns, NEW rows, Valid(columns, rows), NEW now, NEW src, Moved(rows, now, src)
  PROVE  Valid(columns, now)
<1>1. \A c : c \notin DOMAIN EmptyRow /\ ~Has(EmptyRow, c)
  BY DEF EmptyRow, Has
<1>2. ASSUME NEW c \in not_null_columns(columns), NEW i \in 1..Len(now), c \in DOMAIN now[i]
      PROVE  ~is_null(now[i][c])
  BY <1>1, <1>2 DEF Valid, Moved
<1>3. ASSUME NEW c \in unique_columns(columns), NEW i \in 1..Len(now), NEW j \in 1..Len(now), i # j,
             Has(now[i], c), Has(now[j], c)
      PROVE  to_string(now[i][c]) # to_string(now[j][c])
  <2>1. now[i] # EmptyRow /\ now[j] # EmptyRow
    BY <1>1, <1>3
  <2>2. /\ src[i] \in 1..Len(rows) /\ now[i] = rows[src[i]]
        /\ src[j] \in 1..Len(rows) /\ now[j] = rows[src[j]] /\ src[i] # src[j]
    BY <1>3, <2>1 DEF Moved
  <2> QED BY <1>3, <2>2 DEF Valid
<1> QED BY <1>2, <1>3 DEF Valid

-----------------------------------------------------------------------------
(* A statement that changes one table at most. *)
LEMMA StoreStep ==
  ASSUME Stored, NEW t \in DOMAIN tables_, NEW now, IsList(now), Store(t, now),
         NEW kind \in {"insert", "update", "delete"}, UNCHANGED refused \/ Refusing(t, kind)
  PROVE  /\ Stored'
         /\ DOMAIN tables_' = DOMAIN tables_
         /\ tables_'[t].rows = now /\ tables_'[t].columns = tables_[t].columns
         /\ \A u \in DOMAIN tables_ : u # t => tables_'[u] = tables_[u] /\ refused'[u] = refused[u]
         /\ refused'[t] = refused[t] \/ refused'[t] = refused[t] \cup {kind}
<1>1. /\ tables_' = [u \in DOMAIN tables_ |->
                       IF u = t THEN [columns |-> tables_[t].columns, rows |-> now] ELSE tables_[u]]
  <2>1. tables_' = [tables_ EXCEPT ![t].rows = now]
    BY DEF Store
  <2>2. tables_[t] = [columns |-> tables_[t].columns, rows |-> tables_[t].rows]
    BY DEF Stored
  <2>3. [tables_[t] EXCEPT !.rows = now] = [columns |-> tables_[t].columns, rows |-> now]
    BY <2>2
  <2>4. tables_ = [u \in DOMAIN tables_ |-> tables_[u]]
    BY DEF Stored
  <2> QED BY <2>1, <2>3, <2>4
<1>2. /\ DOMAIN tables_' = DOMAIN tables_
      /\ tables_'[t] = [columns |-> tables_[t].columns, rows |-> now]
      /\ \A u \in DOMAIN tables_ : u # t => tables_'[u] = tables_[u]
      /\ tables_' = [u \in DOMAIN tables_' |-> tables_'[u]]
  BY <1>1
<1>3. tables_'[t].rows = now /\ tables_'[t].columns = tables_[t].columns
  BY <1>2
<1>4. t \in Tables /\ \A u \in DOMAIN tables_ : u \in Tables
  BY DEF Stored
<1>5. /\ refused' \in [Tables -> SUBSET {"insert", "update", "delete"}]
      /\ \A u \in Tables : u # t => refused'[u] = refused[u]
      /\ refused'[t] = refused[t] \/ refused'[t] = refused[t] \cup {kind}
  <2>1. refused \in [Tables -> SUBSET {"insert", "update", "delete"}]
    BY DEF Stored
  <2>2. CASE UNCHANGED refused
    BY <2>1, <2>2
  <2>3. CASE refused' = [refused EXCEPT ![t] = @ \cup {kind}]
    BY <1>4, <2>1, <2>3
  <2> QED BY <2>2, <2>3 DEF Refusing
<1>6. \A u \in DOMAIN tables_' : /\ tables_'[u] = [columns |-> tables_'[u].columns, rows |-> tables_'[u].rows]
                                 /\ IsList(tables_'[u].rows)
  <2> SUFFICES ASSUME NEW u \in DOMAIN tables_
               PROVE  /\ tables_'[u] = [columns |-> tables_'[u].columns, rows |-> tables_'[u].rows]
                      /\ IsList(tables_'[u].rows)
    BY <1>2
  <2>1. CASE u = t
    BY <1>2, <1>3, <2>1
  <2>2. CASE u # t
    BY <1>2, <2>2 DEF Stored
  <2> QED BY <2>1, <2>2
<1>7. Stored'
  BY <1>2, <1>4, <1>5, <1>6 DEF Stored, IsList
<1> QED BY <1>2, <1>3, <1>4, <1>5, <1>7

(* new holds n rows that an INSERT has built and checked, one after the    *)
(* other.                                                                  *)
Accepted(s, columns, rows, new, n) ==
  \A i \in 1..n :
    /\ validate_row(new[i], columns, rows \o [j \in 1..(i - 1) |-> new[j]])
    /\ \E values : Buildable(s, columns, values) /\ new[i] = NewRow(s, columns, values)

(* What an INSERT leaves in its table. *)
LEMMA InsertStep ==
  ASSUME Stored, NEW s \in InsertStmts, Exists(s.table_name), InsertInto(s.table_name, s)
  PROVE  \E new : \E n \in Nat :
           LET now == tables_[s.table_name].rows \o [i \in 1..n |-> new[i]] IN
           /\ IsList(now) /\ Store(s.table_name, now)
           /\ UNCHANGED refused \/ Refusing(s.table_name, "insert")
           /\ Accepted(s, tables_[s.table_name].columns, tables_[s.table_name].rows, new, n)
<1> DEFINE t == s.table_name
           columns == tables_[t].columns
           rows == tables_[t].rows
           made(i) == NewRow(s, columns, s.values[i])
           with(k) == rows \o [i \in 1..k |-> made(i)]
           accepts(i) == /\ Buildable(s, columns, s.values[i])
                         /\ validate_row(made(i), columns, with(i - 1))
<1>1. PICK n \in 0..Len(s.values) :
        /\ \A i \in 1..n : accepts(i)
        /\ Store(t, with(n))
        /\ UNCHANGED refused \/ Refusing(t, "insert")
  BY DEF InsertInto
<1> DEFINE new == [i \in 1..n |-> made(i)]
<1>2. n \in Nat /\ \A i \in 1..n : i - 1 \in 0..n
  OBVIOUS
<1>3. ASSUME NEW k \in 0..n PROVE [i \in 1..k |-> made(i)] = [i \in 1..k |-> new[i]]
  <2>1. \A i \in 1..k : i \in 1..n
    BY <1>2
  <2>2. \A i \in 1..k : new[i] = made(i)
    BY <2>1
  <2> HIDE DEF made, new
  <2> QED BY <2>2
<1>4. n \in 0..n
  BY <1>2
<1>5. with(n) = rows \o [i \in 1..n |-> new[i]]
  <2> HIDE DEF made, new, rows
  <2> QED BY <1>3, <1>4
<1>6. ASSUME NEW i \in 1..n
      PROVE  validate_row(new[i], columns, rows \o [j \in 1..(i - 1) |-> new[j]])
  <2>1. [j \in 1..(i - 1) |-> made(j)] = [j \in 1..(i - 1) |-> new[j]]
    <3> HIDE DEF made, new
    <3> QED BY <1>2, <1>3
  <2>2. new[i] = made(i)
    OBVIOUS
  <2>3. validate_row(made(i), columns, with(i - 1))
    BY <1>1
  <2>4. with(i - 1) = rows \o [j \in 1..(i - 1) |-> made(j)]
    OBVIOUS
  <2> HIDE DEF made, new, rows, columns, with
  <2> QED BY <2>1, <2>2, <2>3, <2>4
<1>7. IsList(with(n))
  <2> DEFINE f == [i \in 1..n |-> made(i)]
  <2>1. f = [i \in 1..n |-> f[i]]
    OBVIOUS
  <2>2. IsList(f)
    <3> HIDE DEF f
    <3> QED BY <1>2, <2>1, ListOf
  <2>3. IsList(rows)
    BY DEF Stored, Exists
  <2>4. with(n) = rows \o f
    OBVIOUS
  <2> HIDE DEF f, with
  <2> QED BY <2>2, <2>3, <2>4, ConcatLists
<1>8. \A i \in 1..n : Buildable(s, columns, s.values[i]) /\ new[i] = NewRow(s, columns, s.values[i])
  BY <1>1
<1> HIDE DEF new
<1>9. Accepted(s, columns, rows, new, n)
  <2>1. \A i \in 1..n : \E values : Buildable(s, columns, values) /\ new[i] = NewRow(s, columns, values)
    BY <1>8, Zenon
  <2> HIDE DEF columns, rows
  <2> QED BY <1>6, <2>1, Zenon DEF Accepted
<1>10. IsList(rows \o [i \in 1..n |-> new[i]]) /\ Store(t, rows \o [i \in 1..n |-> new[i]])
  <2>1. Store(t, with(n))
    BY <1>1
  <2> HIDE DEF with
  <2> QED BY <1>5, <1>7, <2>1
<1> HIDE DEF with, made, accepts
<1> QED BY <1>1, <1>2, <1>9, <1>10, Zenon

(* What an UPDATE that ends leaves in its table. *)
LEMMA UpdateStep ==
  ASSUME Stored, NEW s \in UpdateStmts, Exists(s.table_name), UpdateRows(s.table_name, s)
  PROVE  LET t == s.table_name
             columns == tables_[t].columns
             rows == tables_[t].rows
         IN  \E now :
               /\ IsList(now) /\ Len(now) = Len(rows) /\ Store(t, now)
               /\ \A i \in 1..Len(rows) : now[i] = rows[i] \/ now[i] = Assigned(s, columns, rows[i]).row
               /\ \/ Refusing(t, "update")
                  \/ /\ UNCHANGED refused
                     /\ \A i \in 1..Len(rows) :
                          \/ now[i] = rows[i]
                          \/ \E table : /\ Len(table) = Len(rows) /\ table[i] = now[i]
                                        /\ validate_row(now[i], columns, table)
<1> DEFINE t == s.table_name
           columns == tables_[t].columns
           rows == tables_[t].rows
           hit(i) == Matches(s.where, rows[i])
           change(i) == Assigned(s, columns, rows[i])
           after(n) == [i \in 1..Len(rows) |->
                          IF i <= n /\ hit(i) = "true" THEN change(i).row ELSE rows[i]]
           passes(i) == \/ hit(i) = "false"
                        \/ hit(i) = "true" /\ change(i).ok /\ validate_row(change(i).row, columns, after(i))
<1>1. PICK at \in 1..(Len(rows) + 1) :
        /\ \A i \in 1..(at - 1) : passes(i)
        /\ Store(t, after(at))
        /\ \/ at > Len(rows) /\ UNCHANGED refused
           \/ ~(at > Len(rows)) /\ Refusing(t, "update")
  BY DEF UpdateRows
<1>2. Len(rows) \in Nat
  BY DEF Stored, IsList, Exists
<1>3. ASSUME NEW n PROVE IsList(after(n)) /\ Len(after(n)) = Len(rows)
  <2>1. after(n) = [i \in 1..Len(rows) |-> after(n)[i]]
    OBVIOUS
  <2> HIDE DEF after
  <2> QED BY <1>2, <2>1, ListOf
<1>4. \A n : \A i \in 1..Len(rows) :
        after(n)[i] = IF i <= n /\ hit(i) = "true" THEN change(i).row ELSE rows[i]
  OBVIOUS
<1> HIDE DEF after
<1>5. \A i \in 1..Len(rows) : after(at)[i] = rows[i] \/ after(at)[i] = change(i).row
  BY <1>4
<1>6. ASSUME at > Len(rows), NEW i \in 1..Len(rows), after(at)[i] # rows[i]
      PROVE  \E table : /\ Len(table) = Len(rows) /\ table[i] = after(at)[i]
                        /\ validate_row(after(at)[i], columns, table)
  <2>1. hit(i) = "true" /\ after(at)[i] = change(i).row
    BY <1>4, <1>6
  <2>2. after(i)[i] = change(i).row
    <3>1. i <= i
      BY <1>2
    <3> HIDE DEF rows, hit, change, passes
    <3> QED BY <1>4, <2>1, <3>1
  <2>3. i \in 1..(at - 1)
    BY <1>2, <1>6
  <2>4. passes(i)
    BY <1>1, <2>3
  <2>5. validate_row(change(i).row, columns, after(i))
    BY <2>1, <2>4
  <2> HIDE DEF rows, columns, hit, change, passes
  <2> QED BY <1>3, <2>1, <2>2, <2>5
<1> HIDE DEF hit, change, passes
<1>7. \/ Refusing(t, "update")
      \/ /\ UNCHANGED refused
         /\ \A i \in 1..Len(rows) :
              \/ after(at)[i] = rows[i]
              \/ \E table : /\ Len(table) = Len(rows) /\ table[i] = after(at)[i]
                            /\ validate_row(after(at)[i], columns, table)
  BY <1>1, <1>6, Zenon
<1>8. IsList(after(at)) /\ Len(after(at)) = Len(rows) /\ Store(t, after(at))
  BY <1>1, <1>3
<1>9. \A i \in 1..Len(rows) : after(at)[i] = rows[i] \/ after(at)[i] = Assigned(s, columns, rows[i]).row
  BY <1>5 DEF change
<1> QED BY <1>7, <1>8, <1>9, Zenon

(* A list of positions that grows has as many entries as it has values. *)
LEMMA KeepAll ==
  ASSUME NEW m \in Nat, NEW S \in SUBSET (1..m), NEW keep \in [1..Cardinality(S) -> S],
         \A i, j \in 1..Cardinality(S) : i < j => keep[i] < keep[j]
  PROVE  /\ Cardinality(S) \in Nat /\ Cardinality(S) <= m
         /\ IsList(keep) /\ Len(keep) = Cardinality(S)
         /\ \A i, j \in 1..Cardinality(S) : i # j => keep[i] # keep[j]
         /\ \A p \in S : \E i \in 1..Cardinality(S) : keep[i] = p
<1> DEFINE n == Cardinality(S)
<1>1. IsFiniteSet(1..m) /\ Cardinality(1..m) = m
  BY FS_Interval
<1>2. IsFiniteSet(S) /\ n \in Nat /\ n <= m
  <2>1. IsFiniteSet(S) /\ Cardinality(S) <= Cardinality(1..m)
    BY <1>1, FS_Subset
  <2>2. n \in Nat
    BY <2>1, FS_CardinalityType
  <2> QED BY <1>1, <2>1, <2>2
<1>3. \A i \in 1..n : keep[i] \in Nat
  <2>1. \A p \in S : p \in Nat
    OBVIOUS
  <2>2. \A i \in 1..n : keep[i] \in S
    OBVIOUS
  <2> QED BY <2>1, <2>2
<1>4. \A i, j \in 1..n : i # j => keep[i] # keep[j]
  <2> SUFFICES ASSUME NEW i \in 1..n, NEW j \in 1..n, i # j PROVE keep[i] # keep[j]
    OBVIOUS
  <2>1. i < j \/ j < i
    BY <1>2
  <2>2. keep[i] < keep[j] \/ keep[j] < keep[i]
    BY <2>1
  <2> QED BY <1>3, <2>2
<1>5. keep \in Injection(1..n, S)
  BY <1>4 DEF Injection, IsInjective
<1>6. Cardinality(1..n) = n
  BY <1>2, FS_Interval
<1>7. keep \in Surjection(1..n, S)
  BY <1>2, <1>5, <1>6, FS_Injection
<1>8. \A p \in S : \E i \in 1..n : keep[i] = p
  BY <1>7 DEF Surjection
<1>9. keep = [i \in 1..n |-> keep[i]]
  OBVIOUS
<1>10. IsList(keep) /\ Len(keep) = n
  <2> HIDE DEF n
  <2> QED BY <1>2, <1>9, ListOf
<1> QED BY <1>2, <1>4, <1>8, <1>10

(* What a DELETE leaves in its table: rows that it moves, and among them   *)
(* every one that it has to spare.                                         *)
Deleted(s, t, rows, now, src) ==
  /\ IsList(now) /\ Len(now) <= Len(rows) /\ Store(t, now) /\ Moved(rows, now, src)
  /\ \A p \in 1..Len(rows) : Matches(s.where, rows[p]) # "true" =>
       \E i \in 1..Len(now) : src[i] = p /\ now[i] = rows[p]
  /\ \/ Refusing(t, "delete")
     \/ /\ UNCHANGED refused
        /\ \A i \in 1..Len(now) : \E p \in 1..Len(rows) : now[i] = rows[p]

(* DeleteRows does that. *)
LEMMA DeleteStep ==
  ASSUME Stored, NEW s, Exists(s.table_name), DeleteRows(s.table_name, s)
  PROVE  \E now, src : Deleted(s, s.table_name, tables_[s.table_name].rows, now, src)
<1> DEFINE t == s.table_name
           rows == tables_[t].rows
           hit(i) == Matches(s.where, rows[i])
           spared(at) == {i \in 1..(at - 1) : hit(i) # "true"}
<1>1. PICK at \in 1..(Len(rows) + 1) :
        \E keep \in Ascending(spared(at)) :
          IF at > Len(rows)
          THEN /\ Store(t, [i \in 1..Cardinality(spared(at)) |-> rows[keep[i]]])
               /\ UNCHANGED refused
          ELSE /\ Store(t, HalfRemoved(rows, s.where, keep, at))
               /\ Refusing(t, "delete")
  BY DEF DeleteRows
<1> DEFINE S == spared(at)
           n == Cardinality(S)
<1>11. PICK keep \in Ascending(S) :
         IF at > Len(rows)
         THEN /\ Store(t, [i \in 1..n |-> rows[keep[i]]])
              /\ UNCHANGED refused
         ELSE /\ Store(t, HalfRemoved(rows, s.where, keep, at))
              /\ Refusing(t, "delete")
  BY <1>1
<1>2. /\ keep \in [1..n -> S]
      /\ \A i, j \in 1..n : i < j => keep[i] < keep[j]
      /\ IF at > Len(rows)
         THEN /\ Store(t, [i \in 1..n |-> rows[keep[i]]])
              /\ UNCHANGED refused
         ELSE /\ Store(t, HalfRemoved(rows, s.where, keep, at))
              /\ Refusing(t, "delete")
  BY <1>11 DEF Ascending
<1>3. Len(rows) \in Nat
  BY DEF Stored, IsList, Exists
<1>4. at - 1 \in Nat /\ at - 1 <= Len(rows)
  BY <1>3
<1>5. S \in SUBSET (1..(at - 1))
  OBVIOUS
<1>6. \A p : p \in S <=> p \in 1..(at - 1) /\ hit(p) # "true"
  OBVIOUS
<1>65. \A p \in S : p \in 1..Len(rows)
  <2>1. \A p \in 1..(at - 1) : p \in 1..Len(rows)
    BY <1>3, <1>4
  <2> QED BY <1>6, <2>1
<1> HIDE DEF spared, hit, S
<1>7. /\ n \in Nat /\ n <= at - 1 /\ IsList(keep) /\ Len(keep) = n
      /\ \A i, j \in 1..n : i # j => keep[i] # keep[j]
      /\ \A p \in S : \E i \in 1..n : keep[i] = p
  <2>1. \A i, j \in 1..Cardinality(S) : i < j => keep[i] < keep[j]
    BY <1>2
  <2> DEFINE m == at - 1
  <2>2. m \in Nat /\ S \in SUBSET (1..m) /\ keep \in [1..Cardinality(S) -> S]
    BY <1>2, <1>4, <1>5
  <2> HIDE DEF m
  <2>3. /\ Cardinality(S) \in Nat /\ Cardinality(S) <= m
        /\ IsList(keep) /\ Len(keep) = Cardinality(S)
        /\ \A i, j \in 1..Cardinality(S) : i # j => keep[i] # keep[j]
        /\ \A p \in S : \E i \in 1..Cardinality(S) : keep[i] = p
    BY ONLY <2>1, <2>2, KeepAll, Zenon
  <2> QED BY <2>3 DEF m
<1>8. \A i \in 1..n : keep[i] \in S
  BY <1>2
<1> HIDE DEF n
<1>9. CASE at > Len(rows)
  <2> DEFINE now == [i \in 1..n |-> rows[keep[i]]]
  <2>1. IsList(now) /\ Len(now) = n
    <3>1. now = [i \in 1..n |-> now[i]]
      OBVIOUS
    <3> HIDE DEF now
    <3> QED BY <1>7, <3>1, ListOf
  <2>2. \A i \in 1..n : now[i] = rows[keep[i]] /\ keep[i] \in 1..Len(rows)
    BY <1>65, <1>8
  <2>3. Store(t, now) /\ UNCHANGED refused
    BY <1>2, <1>9
  <2> HIDE DEF now
  <2>4. Moved(rows, now, keep)
    BY <1>7, <2>1, <2>2 DEF Moved
  <2>5. ASSUME NEW p \in 1..Len(rows), Matches(s.where, rows[p]) # "true"
        PROVE  \E i \in 1..Len(now) : keep[i] = p /\ now[i] = rows[p]
    <3>1. p \in S
      BY <1>3, <1>6, <1>9, <2>5 DEF hit
    <3> QED BY <1>7, <2>1, <2>2, <3>1
  <2>6. \A i \in 1..Len(now) : \E p \in 1..Len(rows) : now[i] = rows[p]
    BY <2>1, <2>2
  <2>65. Len(now) <= Len(rows)
    BY <1>3, <1>4, <1>7, <2>1
  <2>7. Deleted(s, t, rows, now, keep)
    BY <2>65, <2>1, <2>3, <2>4, <2>5, <2>6 DEF Deleted
  <2> QED BY <2>7
<1>10. CASE ~(at > Len(rows))
  <2> DEFINE now == HalfRemoved(rows, s.where, keep, at)
             src == [i \in 1..Len(rows) |-> IF i <= n THEN keep[i] ELSE i]
  <2>1. IsList(now) /\ Len(now) = Len(rows)
    <3>1. now = [i \in 1..Len(rows) |-> now[i]]
      BY DEF HalfRemoved
    <3> HIDE DEF now
    <3> QED BY <1>3, <3>1, ListOf
  <2>2. \A i \in 1..Len(rows) :
          /\ i <= n => now[i] = rows[keep[i]] /\ src[i] = keep[i]
          /\ ~(i <= n) /\ i \in S => now[i] = EmptyRow
          /\ ~(i <= n) /\ i \notin S => now[i] = rows[i]
          /\ ~(i <= n) => src[i] = i
    <3> SUFFICES ASSUME NEW i \in 1..Len(rows)
                 PROVE  /\ i <= n => now[i] = rows[keep[i]] /\ src[i] = keep[i]
                        /\ ~(i <= n) /\ i \in S => now[i] = EmptyRow
                        /\ ~(i <= n) /\ i \notin S => now[i] = rows[i]
                        /\ ~(i <= n) => src[i] = i
      OBVIOUS
    <3>1. now[i] = IF i <= Len(keep) THEN rows[keep[i]]
                   ELSE IF i < at /\ Matches(s.where, rows[i]) # "true" THEN EmptyRow
                   ELSE rows[i]
      BY DEF HalfRemoved
    <3>2. i \in S <=> i < at /\ Matches(s.where, rows[i]) # "true"
      BY <1>3, <1>6 DEF hit
    <3>3. src[i] = IF i <= n THEN keep[i] ELSE i
      OBVIOUS
    <3> HIDE DEF now, src
    <3> QED BY <1>7, <3>1, <3>2, <3>3
  <2>3. Store(t, now) /\ Refusing(t, "delete")
    BY <1>2, <1>10
  <2> HIDE DEF now, src
  <2>4. \A i \in 1..Len(rows) : i <= n => i \in 1..n /\ keep[i] \in S /\ keep[i] \in 1..Len(rows)
    BY <1>3, <1>65, <1>7, <1>8
  <2>5. Moved(rows, now, src)
    <3>1. ASSUME NEW i \in 1..Len(now), now[i] # EmptyRow
          PROVE  src[i] \in 1..Len(rows) /\ now[i] = rows[src[i]]
      BY <2>1, <2>2, <2>4, <3>1
    <3>2. ASSUME NEW i \in 1..Len(now), NEW j \in 1..Len(now), i # j,
                 now[i] # EmptyRow, now[j] # EmptyRow
          PROVE  src[i] # src[j]
      <4>1. CASE i <= n /\ j <= n
        BY <1>7, <2>1, <2>2, <2>4, <3>2, <4>1
      <4>2. CASE i <= n /\ ~(j <= n)
        BY <2>1, <2>2, <2>4, <3>2, <4>2
      <4>3. CASE ~(i <= n) /\ j <= n
        BY <2>1, <2>2, <2>4, <3>2, <4>3
      <4>4. CASE ~(i <= n) /\ ~(j <= n)
        BY <2>1, <2>2, <3>2, <4>4
      <4> QED BY <4>1, <4>2, <4>3, <4>4
    <3> QED BY <3>1, <3>2 DEF Moved
  <2>6. ASSUME NEW p \in 1..Len(rows), Matches(s.where, rows[p]) # "true"
        PROVE  \E i \in 1..Len(now) : src[i] = p /\ now[i] = rows[p]
    <3>1. CASE p \in S
      <4>1. PICK i \in 1..n : keep[i] = p
        BY <1>7, <3>1
      <4>2. i \in 1..Len(rows) /\ i <= n
        BY <1>3, <1>4, <1>7
      <4> QED BY <2>1, <2>2, <4>1, <4>2
    <3>2. CASE p \notin S
      <4>1. ~(p < at)
        BY <1>3, <1>6, <2>6, <3>2 DEF hit
      <4>2. ~(p <= n)
        BY <1>3, <1>4, <1>7, <4>1
      <4> QED BY <2>1, <2>2, <3>2, <4>2
    <3> QED BY <3>1, <3>2
  <2>65. Len(now) <= Len(rows)
    BY <1>3, <2>1
  <2>7. Deleted(s, t, rows, now, src)
    BY <2>65, <2>1, <2>3, <2>5, <2>6 DEF Deleted
  <2> QED BY <2>7
<1> QED BY <1>9, <1>10

-----------------------------------------------------------------------------
(* The invariant, and what it says of the constraints. *)
Inv == Stored /\ ConstraintsUnlessRefused

(* Constraints says that the rows are valid. *)
LEMMA ConstraintsAreValid ==
  ASSUME NEW t PROVE Constraints(t) <=> Valid(tables_[t].columns, tables_[t].rows)
  BY DEF Constraints, Valid

(* A statement on one table keeps the constraints if its rows stay valid,  *)
(* or if it is a refused UPDATE.                                           *)
LEMMA KeepsConstraints ==
  ASSUME Inv, NEW t \in DOMAIN tables_, NEW now, IsList(now), Store(t, now),
         NEW kind \in {"insert", "update", "delete"}, UNCHANGED refused \/ Refusing(t, kind),
         \/ Valid(tables_[t].columns, tables_[t].rows) => Valid(tables_[t].columns, now)
         \/ kind = "update" /\ Refusing(t, kind)
  PROVE  Inv'
<1>1. /\ Stored'
      /\ DOMAIN tables_' = DOMAIN tables_
      /\ tables_'[t].rows = now /\ tables_'[t].columns = tables_[t].columns
      /\ \A u \in DOMAIN tables_ : u # t => tables_'[u] = tables_[u] /\ refused'[u] = refused[u]
      /\ refused'[t] = refused[t] \/ refused'[t] = refused[t] \cup {kind}
  BY StoreStep DEF Inv
<1>2. t \in Tables /\ refused \in [Tables -> SUBSET {"insert", "update", "delete"}]
  BY DEF Inv, Stored
<1>3. ASSUME NEW u \in DOMAIN tables_, "update" \notin refused'[u]
      PROVE  Valid(tables_'[u].columns, tables_'[u].rows)
  <2>1. CASE u # t
    <3>1. Constraints(u)
      BY <1>1, <1>3, <2>1 DEF Inv, ConstraintsUnlessRefused
    <3> QED BY <1>1, <2>1, <3>1, ConstraintsAreValid
  <2>2. CASE u = t
    <3>1. "update" \notin refused[t]
      BY <1>1, <1>3, <2>2
    <3>2. Valid(tables_[t].columns, tables_[t].rows)
      BY <3>1, ConstraintsAreValid DEF Inv, ConstraintsUnlessRefused
    <3>3. ~(kind = "update" /\ Refusing(t, kind))
      BY <1>2, <1>3, <2>2 DEF Refusing
    <3> QED BY <1>1, <2>2, <3>2, <3>3
  <2> QED BY <2>1, <2>2
<1>4. ConstraintsUnlessRefused'
  BY <1>1, <1>3 DEF ConstraintsUnlessRefused, Constraints, Valid
<1> QED BY <1>1, <1>4 DEF Inv

(* Steps that change no table and refuse nothing. *)
LEMMA IdleStep == ASSUME Inv, UNCHANGED <<tables_, refused>> PROVE Inv'
  BY DEF Inv, Stored, IsList, ConstraintsUnlessRefused, Constraints

(* The empty sequence. *)
LEMMA EmptyList == IsList(<<>>) /\ Len(<<>>) = 0
<1>1. <<>> \in Seq({}) /\ Len(<<>>) = 0
  BY EmptySeq
<1> QED BY <1>1, SeqIsList

(* No row violates a constraint. *)
LEMMA EmptyValid == ASSUME NEW columns, NEW rows, Len(rows) = 0 PROVE Valid(columns, rows)
  BY DEF Valid

(* A new table has no rows and a clean history. *)
LEMMA CreateStep ==
  ASSUME Stored, NEW t \in Tables \cup {""}, NEW columns, execute_create_table(t, columns),
         ~UNCHANGED <<tables_, refused>>
  PROVE  /\ Stored' /\ DOMAIN tables_' = DOMAIN tables_ \cup {t}
         /\ tables_'[t].columns = columns /\ tables_'[t].rows = <<>> /\ refused'[t] = {}
         /\ \A u \in DOMAIN tables_ : tables_'[u] = tables_[u] /\ refused'[u] = refused[u]
<1> DEFINE empty == <<>>
<1>1. /\ ~Exists(t) /\ t # "" /\ refused' = [refused EXCEPT ![t] = {}]
      /\ tables_' = [u \in DOMAIN tables_ \cup {t} |->
                       IF u = t THEN [columns |-> columns, rows |-> empty] ELSE tables_[u]]
  BY DEF execute_create_table, create_table
<1>2. t \in Tables /\ t \notin DOMAIN tables_
  BY <1>1 DEF Exists
<1>3. IsList(empty)
  BY EmptyList
<1> HIDE DEF empty
<1>4. /\ DOMAIN tables_' = DOMAIN tables_ \cup {t}
      /\ tables_'[t] = [columns |-> columns, rows |-> empty]
      /\ \A u \in DOMAIN tables_ : tables_'[u] = tables_[u]
      /\ tables_' = [u \in DOMAIN tables_' |-> tables_'[u]]
  BY <1>1, <1>2
<1>5. tables_'[t].columns = columns /\ tables_'[t].rows = empty
  <2> DEFINE r == [columns |-> columns, rows |-> empty]
  <2>1. r.columns = columns /\ r.rows = empty
    OBVIOUS
  <2>2. tables_'[t] = r
    BY <1>4
  <2> HIDE DEF r
  <2> QED BY <2>1, <2>2
<1>6. DOMAIN tables_ \subseteq Tables /\ refused \in [Tables -> SUBSET {"insert", "update", "delete"}]
  BY DEF Stored
<1>7. /\ refused'[t] = {} /\ \A u \in DOMAIN tables_ : refused'[u] = refused[u]
      /\ refused' \in [Tables -> SUBSET {"insert", "update", "delete"}]
  BY <1>1, <1>2, <1>6
<1>8. \A u \in DOMAIN tables_' : /\ tables_'[u] = [columns |-> tables_'[u].columns, rows |-> tables_'[u].rows]
                                 /\ IsList(tables_'[u].rows)
  <2> SUFFICES ASSUME NEW u \in DOMAIN tables_ \cup {t}
               PROVE  /\ tables_'[u] = [columns |-> tables_'[u].columns, rows |-> tables_'[u].rows]
                      /\ IsList(tables_'[u].rows)
    BY <1>4
  <2>1. CASE u = t
    BY <1>3, <1>4, <1>5, <2>1
  <2>2. CASE u \in DOMAIN tables_
    BY <1>4, <2>2 DEF Stored
  <2> QED BY <2>1, <2>2
<1>9. Stored'
  BY <1>2, <1>4, <1>6, <1>7, <1>8 DEF Stored, IsList
<1> QED BY <1>4, <1>5, <1>7, <1>9 DEF empty

(* drop_table takes one table away. *)
LEMMA DropStep ==
  ASSUME Stored, NEW t, drop_table(t)
  PROVE  /\ Stored' /\ DOMAIN tables_' \subseteq DOMAIN tables_ /\ refused' = refused
         /\ \A u \in DOMAIN tables_' : tables_'[u] = tables_[u]
<1>1. refused' = refused /\ tables_' = [u \in DOMAIN tables_ \ {t} |-> tables_[u]]
  BY DEF drop_table
<1>2. /\ DOMAIN tables_' \subseteq DOMAIN tables_
      /\ \A u \in DOMAIN tables_' : tables_'[u] = tables_[u]
      /\ tables_' = [u \in DOMAIN tables_' |-> tables_'[u]]
  BY <1>1
<1>3. Stored'
  BY <1>1, <1>2 DEF Stored, IsList
<1> QED BY <1>1, <1>2, <1>3

(* Every statement keeps the constraints, unless it is a refused UPDATE. *)
LEMMA NextInv == Inv /\ [Next]_vars => Inv'
<1> SUFFICES ASSUME Inv, [Next]_vars PROVE Inv'
  OBVIOUS
<1>0. Stored
  BY DEF Inv
<1>1. ASSUME NEW t \in Tables \cup {""}, NEW columns \in Schemas, execute_create_table(t, columns)
      PROVE  Inv'
  <2>1. CASE UNCHANGED <<tables_, refused>>
    BY <2>1, IdleStep
  <2>2. CASE ~UNCHANGED <<tables_, refused>>
    <3>1. /\ Stored' /\ DOMAIN tables_' = DOMAIN tables_ \cup {t}
          /\ tables_'[t].rows = <<>>
          /\ \A u \in DOMAIN tables_ : tables_'[u] = tables_[u] /\ refused'[u] = refused[u]
      BY <1>0, <1>1, <2>2, CreateStep
    <3>2. ASSUME NEW u \in DOMAIN tables_', "update" \notin refused'[u]
          PROVE  Valid(tables_'[u].columns, tables_'[u].rows)
      <4>1. CASE u \in DOMAIN tables_
        <5>1. Constraints(u)
          BY <3>1, <3>2, <4>1 DEF Inv, ConstraintsUnlessRefused
        <5> QED BY <3>1, <4>1, <5>1, ConstraintsAreValid
      <4>2. CASE u = t
        <5>1. Len(tables_'[u].rows) = 0
          BY <3>1, <4>2, EmptyList, Zenon
        <5> QED BY <5>1, EmptyValid, Zenon
      <4> QED BY <3>1, <4>1, <4>2
    <3>3. ConstraintsUnlessRefused'
      BY <3>2 DEF ConstraintsUnlessRefused, Constraints, Valid
    <3> QED BY <3>1, <3>3 DEF Inv
  <2> QED BY <2>1, <2>2
<1>2. ASSUME NEW t \in Tables, drop_table(t) PROVE Inv'
  <2>1. /\ Stored' /\ DOMAIN tables_' \subseteq DOMAIN tables_ /\ refused' = refused
        /\ \A u \in DOMAIN tables_' : tables_'[u] = tables_[u]
    BY <1>0, <1>2, DropStep
  <2>2. ASSUME NEW u \in DOMAIN tables_', "update" \notin refused'[u]
        PROVE  Valid(tables_'[u].columns, tables_'[u].rows)
    <3>1. Constraints(u)
      BY <2>1, <2>2 DEF Inv, ConstraintsUnlessRefused
    <3> QED BY <2>1, <3>1, ConstraintsAreValid
  <2>3. ConstraintsUnlessRefused'
    BY <2>2 DEF ConstraintsUnlessRefused, Constraints, Valid
  <2> QED BY <2>1, <2>3 DEF Inv
<1>3. ASSUME NEW s \in InsertStmts, execute_insert(s) PROVE Inv'
  <2>1. CASE Exists(s.table_name)
    <3> DEFINE t == s.table_name
               columns == tables_[t].columns
               rows == tables_[t].rows
    <3>1. InsertInto(t, s) /\ t \in DOMAIN tables_
      BY <1>3, <2>1 DEF execute_insert, Exists
    <3>2. PICK new : \E n \in Nat :
            LET now == rows \o [i \in 1..n |-> new[i]] IN
            /\ IsList(now) /\ Store(t, now)
            /\ UNCHANGED refused \/ Refusing(t, "insert")
            /\ Accepted(s, columns, rows, new, n)
      BY <1>0, <2>1, <3>1, InsertStep
    <3>3. PICK n \in Nat :
            LET now == rows \o [i \in 1..n |-> new[i]] IN
            /\ IsList(now) /\ Store(t, now)
            /\ UNCHANGED refused \/ Refusing(t, "insert")
            /\ Accepted(s, columns, rows, new, n)
      BY <3>2
    <3> DEFINE now == rows \o [i \in 1..n |-> new[i]]
    <3>4. IsList(rows)
      BY <1>0, <3>1 DEF Stored
    <3>5. Valid(columns, rows) => Valid(columns, now)
      BY <3>3, <3>4, InsertValid DEF Accepted
    <3>6. IsList(now) /\ Store(t, now) /\ (UNCHANGED refused \/ Refusing(t, "insert"))
      BY <3>3
    <3> HIDE DEF now, t
    <3> QED BY <3>1, <3>5, <3>6, KeepsConstraints
  <2>2. CASE ~Exists(s.table_name)
    BY <1>3, <2>2, IdleStep DEF execute_insert
  <2> QED BY <2>1, <2>2
<1>4. ASSUME NEW s \in UpdateStmts, execute_update(s) PROVE Inv'
  <2>1. CASE Exists(s.table_name)
    <3> DEFINE t == s.table_name
               columns == tables_[t].columns
               rows == tables_[t].rows
    <3>1. UpdateRows(t, s) /\ t \in DOMAIN tables_
      BY <1>4, <2>1 DEF execute_update, Exists
    <3>2. PICK now :
               /\ IsList(now) /\ Len(now) = Len(rows) /\ Store(t, now)
               /\ \/ Refusing(t, "update")
                  \/ /\ UNCHANGED refused
                     /\ \A i \in 1..Len(rows) :
                          \/ now[i] = rows[i]
                          \/ \E table : /\ Len(table) = Len(rows) /\ table[i] = now[i]
                                        /\ validate_row(now[i], columns, table)
      BY <1>0, <2>1, <3>1, UpdateStep
    <3>3. CASE Refusing(t, "update")
      <4> HIDE DEF t
      <4> QED BY <3>1, <3>2, <3>3, KeepsConstraints
    <3>4. CASE ~Refusing(t, "update")
      <4>1. Valid(columns, rows) => Valid(columns, now)
        <5> HIDE DEF columns, rows
        <5> QED BY <3>2, <3>4, UpdateValid
      <4>2. UNCHANGED refused /\ IsList(now) /\ Store(t, now)
        BY <3>2, <3>4
      <4> HIDE DEF t
      <4> QED BY <3>1, <4>1, <4>2, KeepsConstraints
    <3> QED BY <3>3, <3>4
  <2>2. CASE ~Exists(s.table_name)
    BY <1>4, <2>2, IdleStep DEF execute_update
  <2> QED BY <2>1, <2>2
<1>5. ASSUME NEW s \in DeleteStmts, execute_delete(s) PROVE Inv'
  <2>1. CASE Exists(s.table_name)
    <3> DEFINE t == s.table_name
    <3>1. DeleteRows(t, s) /\ t \in DOMAIN tables_
      BY <1>5, <2>1 DEF execute_delete, Exists
    <3>2. PICK now, src : Deleted(s, t, tables_[t].rows, now, src)
      BY <1>0, <2>1, <3>1, DeleteStep
    <3>3. Valid(tables_[t].columns, tables_[t].rows) => Valid(tables_[t].columns, now)
      BY <3>2, MovedValid DEF Deleted
    <3>4. IsList(now) /\ Store(t, now) /\ (UNCHANGED refused \/ Refusing(t, "delete"))
      BY <3>2 DEF Deleted
    <3> HIDE DEF t
    <3> QED BY <3>1, <3>3, <3>4, KeepsConstraints
  <2>2. CASE ~Exists(s.table_name)
    BY <1>5, <2>2, IdleStep DEF execute_delete
  <2> QED BY <2>1, <2>2
<1>6. ASSUME NEW s \in SelectStmts, execute_select(s) PROVE Inv'
  BY <1>6, IdleStep DEF execute_select
<1>7. CASE UNCHANGED vars
  BY <1>7, IdleStep DEF vars
<1> QED BY <1>1, <1>2, <1>3, <1>4, <1>5, <1>6, <1>7 DEF Next

(* The initial state. *)
LEMMA InitInv == Init => Inv
<1> SUFFICES ASSUME Init PROVE Inv
  OBVIOUS
<1>1. DOMAIN tables_ = {} /\ tables_ = [t \in DOMAIN tables_ |-> tables_[t]]
      /\ refused \in [Tables -> SUBSET {"insert", "update", "delete"}]
  BY DEF Init
<1> QED BY <1>1 DEF Inv, Stored, ConstraintsUnlessRefused

(* ConstraintsUnlessRefused: for any schemas and statements, NOT NULL and  *)
(* UNIQUE hold in every table on which no UPDATE was refused.              *)
THEOREM ConstraintsKept == Spec => []ConstraintsUnlessRefused
<1>1. Inv => ConstraintsUnlessRefused
  BY DEF Inv
<1> QED BY InitInv, NextInv, <1>1, PTL DEF Spec

-----------------------------------------------------------------------------
(* As many positions of now hold the row as of before, or fewer. *)
LEMMA MovedCount ==
  ASSUME NEW before, NEW now, NEW src, IsList(before), IsList(now), Moved(before, now, src),
         NEW row, row # EmptyRow
  PROVE  /\ Count(now, row) <= Count(before, row)
         /\ (\A p \in 1..Len(before) : before[p] = row =>
               \E i \in 1..Len(now) : src[i] = p /\ now[i] = row) => Count(now, row) = Count(before, row)
<1> DEFINE A == {i \in 1..Len(now) : now[i] = row}
           B == {i \in 1..Len(before) : before[i] = row}
           f == [i \in A |-> src[i]]
<1>1. Len(before) \in Nat /\ Len(now) \in Nat
  BY DEF IsList
<1>2. IsFiniteSet(B)
  <2>1. IsFiniteSet(1..Len(before))
    BY <1>1, FS_Interval
  <2>2. B \in SUBSET (1..Len(before))
    OBVIOUS
  <2> HIDE DEF B
  <2> QED BY <2>1, <2>2, FS_Subset
<1>3. f \in Injection(A, B)
  <2>1. \A i \in A : src[i] \in B
    BY DEF Moved
  <2>2. \A i, j \in A : i # j => src[i] # src[j]
    BY DEF Moved
  <2>3. f \in [A -> B] /\ \A i \in A : f[i] = src[i]
    BY <2>1
  <2> HIDE DEF f, A, B
  <2> QED BY <2>2, <2>3 DEF Injection, IsInjective
<1>4. /\ Cardinality(A) <= Cardinality(B)
      /\ Cardinality(A) = Cardinality(B) <=> f \in Surjection(A, B)
  <2> HIDE DEF f, A, B
  <2> QED BY <1>2, <1>3, FS_Injection
<1>5. ASSUME \A p \in 1..Len(before) : before[p] = row =>
               \E i \in 1..Len(now) : src[i] = p /\ now[i] = row
      PROVE  f \in Surjection(A, B)
  <2>1. \A p \in B : \E i \in A : f[i] = p
    BY <1>5
  <2>2. f \in [A -> B]
    BY <1>3 DEF Injection
  <2> HIDE DEF f, A, B
  <2> QED BY <2>1, <2>2 DEF Surjection
<1>6. Count(now, row) = Cardinality(A) /\ Count(before, row) = Cardinality(B)
  BY DEF Count
<1> HIDE DEF A, B, f
<1> QED BY <1>4, <1>5, <1>6

(* DeleteSparesTheRest: for any condition and any table, also when the     *)
(* condition throws half-way through std::remove_if.                       *)
THEOREM DeleteExact == Spec => DeleteSparesTheRest
<1> DEFINE Spares(s) ==
       execute_delete(s) /\ Exists(s.table_name) =>
       LET before == tables_[s.table_name].rows
           now == tables_'[s.table_name].rows
       IN  \A i \in 1..Len(before) : before[i] # EmptyRow =>
             IF Matches(s.where, before[i]) = "true"
             THEN Count(now, before[i]) <= Count(before, before[i])
             ELSE Count(now, before[i]) = Count(before, before[i])
<1>1. ASSUME Inv, NEW s \in DeleteStmts PROVE Spares(s)
  <2> DEFINE t == s.table_name
             before == tables_[t].rows
             now == tables_'[t].rows
  <2> SUFFICES ASSUME execute_delete(s), Exists(t), NEW k \in 1..Len(before), before[k] # EmptyRow
               PROVE  IF Matches(s.where, before[k]) = "true"
                      THEN Count(now, before[k]) <= Count(before, before[k])
                      ELSE Count(now, before[k]) = Count(before, before[k])
    OBVIOUS
  <2>1. Stored /\ DeleteRows(t, s) /\ t \in DOMAIN tables_
    BY <1>1 DEF execute_delete, Exists, Inv
  <2>2. PICK left, src : Deleted(s, t, before, left, src)
    BY <2>1, DeleteStep
  <2>3. IsList(left) /\ Store(t, left) /\ (UNCHANGED refused \/ Refusing(t, "delete"))
    BY <2>2 DEF Deleted
  <2>4. now = left
    <3> HIDE DEF t
    <3> QED BY <2>1, <2>3, StoreStep
  <2>5. IsList(before)
    BY <2>1 DEF Stored
  <2>6. Moved(before, left, src)
    BY <2>2 DEF Deleted
  <2>7. Matches(s.where, before[k]) # "true" =>
          \A p \in 1..Len(before) : before[p] = before[k] =>
            \E i \in 1..Len(left) : src[i] = p /\ left[i] = before[k]
    <3> SUFFICES ASSUME Matches(s.where, before[k]) # "true",
                        NEW p \in 1..Len(before), before[p] = before[k]
                 PROVE  \E i \in 1..Len(left) : src[i] = p /\ left[i] = before[k]
      OBVIOUS
    <3> QED BY <2>2 DEF Deleted
  <2> HIDE DEF before, now, t
  <2> QED BY <2>3, <2>4, <2>5, <2>6, <2>7, MovedCount
<1>2. Inv /\ [Next]_vars => [\A s \in DeleteStmts : Spares(s)]_vars
  BY <1>1
<1> QED BY InitInv, NextInv, <1>2, PTL DEF Spec, DeleteSparesTheRest

-----------------------------------------------------------------------------
(* The loop over the assignments of an UPDATE, n of them.                  *)
Loop(f, n, stmt, columns, row) ==
  f = [k \in 0..n |-> IF k = 0 THEN [row |-> row, ok |-> TRUE]
                      ELSE Assign(f[k - 1], stmt.assignments[k], columns)]

(* The function that Assigned defines by recursion exists. *)
LEMMA LoopExists ==
  ASSUME NEW stmt, NEW columns, NEW row, NEW n \in Nat
  PROVE  \E f : Loop(f, n, stmt, columns, row)
<1> DEFINE E(m) == \E f : Loop(f, m, stmt, columns, row)
           V == {m \in 0..n : ~E(m)}
<1> SUFFICES V = {}
  OBVIOUS
<1> SUFFICES ASSUME V # {} PROVE FALSE
  OBVIOUS
<1>1. V \in SUBSET Nat
  OBVIOUS
<1>2. PICK m \in V : \A y \in V : <<y, m>> \notin OpToRel(<, Nat)
  <2> HIDE DEF V
  <2> QED BY <1>1, WFMin, NatLessThanWellFounded
<1>3. \A y \in V : ~(y < m)
  <2> HIDE DEF V
  <2> QED BY <1>1, <1>2 DEF OpToRel
<1>4. m \in 0..n /\ ~E(m)
  OBVIOUS
<1>5. m # 0
  <2> DEFINE f == [k \in 0..0 |-> [row |-> row, ok |-> TRUE]]
  <2>1. f = [k \in 0..0 |-> IF k = 0 THEN [row |-> row, ok |-> TRUE]
                            ELSE Assign(f[k - 1], stmt.assignments[k], columns)]
    OBVIOUS
  <2>2. Loop(f, 0, stmt, columns, row)
    BY <2>1 DEF Loop
  <2>3. E(0)
    <3> HIDE DEF f
    <3> QED BY <2>2
  <2> QED BY <1>4, <2>3
<1>6. m - 1 \in 0..n /\ m - 1 < m /\ m \in Nat
  BY <1>4, <1>5
<1>7. E(m - 1)
  <2> HIDE DEF E
  <2> QED BY <1>3, <1>6
<1>8. PICK g : Loop(g, m - 1, stmt, columns, row)
  BY <1>7
<1> DEFINE f == [k \in 0..m |-> IF k = m THEN Assign(g[m - 1], stmt.assignments[m], columns) ELSE g[k]]
<1>9. \A k \in 0..(m - 1) : g[k] = IF k = 0 THEN [row |-> row, ok |-> TRUE]
                                   ELSE Assign(g[k - 1], stmt.assignments[k], columns)
  BY <1>8 DEF Loop
<1>10. \A k \in 0..m : f[k] = IF k = m THEN Assign(g[m - 1], stmt.assignments[m], columns) ELSE g[k]
  OBVIOUS
<1>11. f = [k \in 0..m |-> f[k]]
  OBVIOUS
<1> HIDE DEF f, V, E
<1>12. ASSUME NEW k \in 0..m
       PROVE  f[k] = IF k = 0 THEN [row |-> row, ok |-> TRUE]
                     ELSE Assign(f[k - 1], stmt.assignments[k], columns)
  <2>1. CASE k = m
    <3>1. k - 1 \in 0..m /\ k - 1 # m /\ k # 0
      BY <1>5, <1>6, <2>1
    <3>2. f[k - 1] = g[m - 1]
      BY <1>10, <2>1, <3>1
    <3> QED BY <1>10, <2>1, <3>1, <3>2
  <2>2. CASE k # m
    <3>1. k \in 0..(m - 1)
      BY <1>6, <2>2
    <3>2. k # 0 => k - 1 \in 0..m /\ k - 1 # m
      BY <1>6
    <3> QED BY <1>9, <1>10, <2>2, <3>1, <3>2
  <2> QED BY <2>1, <2>2
<1>13. Loop(f, m, stmt, columns, row)
  BY <1>11, <1>12 DEF Loop
<1> QED BY <1>4, <1>13 DEF E

(* Assigned is where that loop ends. *)
LEMMA AssignedIsLoop ==
  ASSUME NEW stmt, NEW columns, NEW row, Len(stmt.assignments) \in Nat
  PROVE  \E f : /\ Loop(f, Len(stmt.assignments), stmt, columns, row)
                /\ Assigned(stmt, columns, row) = f[Len(stmt.assignments)]
<1> DEFINE n == Len(stmt.assignments)
           done == CHOOSE f : Loop(f, n, stmt, columns, row)
<1>1. Loop(done, n, stmt, columns, row)
  BY LoopExists
<1>2. Assigned(stmt, columns, row) = done[n]
  BY DEF Assigned, Loop
<1> QED BY <1>1, <1>2

(* A record of the loop whose row has the columns of the table. *)
Whole(d, columns) == d = [row |-> d.row, ok |-> d.ok] /\ DOMAIN d.row = Names(columns)

(* One assignment adds no column. *)
LEMMA AssignWhole ==
  ASSUME NEW d, NEW a, NEW columns, Whole(d, columns)
  PROVE  Whole(Assign(d, a, columns), columns)
<1> DEFINE v == Eval(a.value, d.row)
<1>1. CASE ~d.ok \/ a.column \notin Names(columns) \/ v = Throw
  <2>1. Assign(d, a, columns) = [d EXCEPT !.ok = FALSE]
    BY <1>1 DEF Assign
  <2>2. [d EXCEPT !.ok = FALSE] = [row |-> d.row, ok |-> FALSE]
    <3>1. \A x : [d EXCEPT !.ok = x] = [row |-> d.row, ok |-> x]
      BY DEF Whole
    <3> QED BY <3>1, Zenon
  <2> QED BY <2>1, <2>2 DEF Whole
<1>2. CASE ~(~d.ok \/ a.column \notin Names(columns) \/ v = Throw)
  <2>1. Assign(d, a, columns) = [d EXCEPT !.row = Set(d.row, a.column, v)]
    BY <1>2 DEF Assign
  <2> DEFINE r == Set(d.row, a.column, v)
  <2>2. DOMAIN r = Names(columns)
    BY <1>2 DEF Set, Whole
  <2> HIDE DEF r
  <2>3. [d EXCEPT !.row = r] = [row |-> r, ok |-> d.ok]
    BY DEF Whole
  <2>4. Assign(d, a, columns) = [row |-> r, ok |-> d.ok]
    BY <2>1, <2>3 DEF r
  <2> QED BY <2>2, <2>4 DEF Whole
<1> QED BY <1>1, <1>2

(* So an UPDATE leaves every row the columns it had. *)
LEMMA AssignedWhole ==
  ASSUME NEW stmt, NEW columns, NEW row, Len(stmt.assignments) \in Nat, DOMAIN row = Names(columns)
  PROVE  DOMAIN Assigned(stmt, columns, row).row = Names(columns)
<1> DEFINE n == Len(stmt.assignments)
<1>1. PICK f : Loop(f, n, stmt, columns, row) /\ Assigned(stmt, columns, row) = f[n]
  BY AssignedIsLoop
<1>2. \A k \in 0..n : f[k] = IF k = 0 THEN [row |-> row, ok |-> TRUE]
                             ELSE Assign(f[k - 1], stmt.assignments[k], columns)
  BY <1>1 DEF Loop
<1> DEFINE V == {k \in 0..n : ~Whole(f[k], columns)}
<1>3. V = {}
  <2> SUFFICES ASSUME V # {} PROVE FALSE
    OBVIOUS
  <2>1. V \in SUBSET Nat
    OBVIOUS
  <2>2. PICK m \in V : \A y \in V : <<y, m>> \notin OpToRel(<, Nat)
    <3> HIDE DEF V
    <3> QED BY <2>1, WFMin, NatLessThanWellFounded
  <2>3. \A y \in V : ~(y < m)
    <3> HIDE DEF V
    <3> QED BY <2>1, <2>2 DEF OpToRel
  <2>4. m \in 0..n /\ ~Whole(f[m], columns)
    OBVIOUS
  <2>5. Whole([row |-> row, ok |-> TRUE], columns)
    BY DEF Whole
  <2>6. m # 0
    BY <1>2, <2>4, <2>5
  <2>7. m - 1 \in 0..n /\ m - 1 < m
    BY <2>4, <2>6
  <2>8. Whole(f[m - 1], columns)
    BY <2>3, <2>7
  <2> QED BY <1>2, <2>4, <2>6, <2>8, AssignWhole
<1>4. n \in 0..n
  OBVIOUS
<1>5. Whole(f[n], columns)
  BY <1>3, <1>4
<1> QED BY <1>1, <1>5 DEF Whole

(* RowsComplete, of one table. *)
Complete(columns, rows) == \A i \in 1..Len(rows) : DOMAIN rows[i] = Names(columns)

(* No row lacks a column. *)
LEMMA EmptyComplete == ASSUME NEW columns, NEW rows, Len(rows) = 0 PROVE Complete(columns, rows)
  BY DEF Complete

(* Neither does a row that an INSERT appends. *)
LEMMA InsertComplete ==
  ASSUME NEW columns, NEW rows, IsList(rows), NEW n \in Nat, NEW new,
         \A i \in 1..n : DOMAIN new[i] = Names(columns), Complete(columns, rows)
  PROVE  Complete(columns, rows \o [i \in 1..n |-> new[i]])
<1> DEFINE f == [i \in 1..n |-> new[i]]
<1>1. f = [i \in 1..n |-> f[i]] /\ \A i \in 1..n : f[i] = new[i]
  OBVIOUS
<1> HIDE DEF f
<1>2. IsList(f) /\ Len(f) = n
  BY <1>1, ListOf
<1>3. /\ Len(rows \o f) = Len(rows) + n /\ Len(rows) \in Nat
      /\ \A i \in 1..Len(rows) : (rows \o f)[i] = rows[i]
      /\ \A i \in 1..n : (rows \o f)[Len(rows) + i] = f[i]
  BY <1>2, ConcatLists DEF IsList
<1>4. ASSUME NEW p \in 1..(Len(rows) + n) PROVE DOMAIN (rows \o f)[p] = Names(columns)
  <2>1. CASE p \in 1..Len(rows)
    BY <1>3, <2>1 DEF Complete
  <2>2. CASE p \notin 1..Len(rows)
    <3>1. p - Len(rows) \in 1..n /\ p = Len(rows) + (p - Len(rows))
      BY <1>3, <2>2
    <3>2. (rows \o f)[p] = new[p - Len(rows)]
      BY <1>1, <1>3, <3>1
    <3> QED BY <3>1, <3>2
  <2> QED BY <2>1, <2>2
<1> QED BY <1>3, <1>4 DEF Complete, f

(* A statement on one table keeps RowsComplete if its rows keep their      *)
(* columns, or if it is a refused DELETE.                                  *)
LEMMA KeepsComplete ==
  ASSUME Stored, RowsComplete, NEW t \in DOMAIN tables_, NEW now, IsList(now), Store(t, now),
         NEW kind \in {"insert", "update", "delete"}, UNCHANGED refused \/ Refusing(t, kind),
         \/ Complete(tables_[t].columns, tables_[t].rows) => Complete(tables_[t].columns, now)
         \/ kind = "delete" /\ Refusing(t, kind)
  PROVE  RowsComplete'
<1>1. /\ DOMAIN tables_' = DOMAIN tables_
      /\ tables_'[t].rows = now /\ tables_'[t].columns = tables_[t].columns
      /\ \A u \in DOMAIN tables_ : u # t => tables_'[u] = tables_[u] /\ refused'[u] = refused[u]
      /\ refused'[t] = refused[t] \/ refused'[t] = refused[t] \cup {kind}
  BY StoreStep
<1>2. t \in Tables /\ refused \in [Tables -> SUBSET {"insert", "update", "delete"}]
  BY DEF Stored
<1>3. ASSUME NEW u \in DOMAIN tables_, "delete" \notin refused'[u]
      PROVE  Complete(tables_'[u].columns, tables_'[u].rows)
  <2>1. CASE u # t
    BY <1>1, <1>3, <2>1 DEF RowsComplete, Complete
  <2>2. CASE u = t
    <3>1. "delete" \notin refused[t]
      BY <1>1, <1>3, <2>2
    <3>2. Complete(tables_[t].columns, tables_[t].rows)
      BY <3>1 DEF RowsComplete, Complete
    <3>3. ~(kind = "delete" /\ Refusing(t, kind))
      BY <1>2, <1>3, <2>2 DEF Refusing
    <3> QED BY <1>1, <2>2, <3>2, <3>3
  <2> QED BY <2>1, <2>2
<1> QED BY <1>1, <1>3 DEF RowsComplete, Complete

(* Every step keeps RowsComplete. *)
LEMMA NextComplete == Inv /\ RowsComplete /\ [Next]_vars => RowsComplete'
<1> SUFFICES ASSUME Inv, RowsComplete, [Next]_vars PROVE RowsComplete'
  OBVIOUS
<1>0. Stored
  BY DEF Inv
<1>00. ASSUME UNCHANGED <<tables_, refused>> PROVE RowsComplete'
  BY <1>00 DEF RowsComplete
<1>1. ASSUME NEW t \in Tables \cup {""}, NEW columns \in Schemas, execute_create_table(t, columns)
      PROVE  RowsComplete'
  <2>1. CASE ~UNCHANGED <<tables_, refused>>
    <3>1. /\ DOMAIN tables_' = DOMAIN tables_ \cup {t} /\ tables_'[t].rows = <<>>
          /\ \A u \in DOMAIN tables_ : tables_'[u] = tables_[u] /\ refused'[u] = refused[u]
      BY <1>0, <1>1, <2>1, CreateStep
    <3>2. ASSUME NEW u \in DOMAIN tables_', "delete" \notin refused'[u]
          PROVE  Complete(tables_'[u].columns, tables_'[u].rows)
      <4>1. CASE u \in DOMAIN tables_
        BY <3>1, <3>2, <4>1 DEF RowsComplete, Complete
      <4>2. CASE u = t
        <5>1. Len(tables_'[u].rows) = 0
          BY <3>1, <4>2, EmptyList, Zenon
        <5> QED BY <5>1, EmptyComplete, Zenon
      <4> QED BY <3>1, <4>1, <4>2
    <3> QED BY <3>2 DEF RowsComplete, Complete
  <2> QED BY <1>00, <2>1
<1>2. ASSUME NEW t \in Tables, drop_table(t) PROVE RowsComplete'
  <2>1. /\ DOMAIN tables_' \subseteq DOMAIN tables_ /\ refused' = refused
        /\ \A u \in DOMAIN tables_' : tables_'[u] = tables_[u]
    BY <1>0, <1>2, DropStep
  <2> QED BY <2>1 DEF RowsComplete
<1>3. ASSUME NEW s \in InsertStmts, execute_insert(s) PROVE RowsComplete'
  <2>1. CASE Exists(s.table_name)
    <3> DEFINE t == s.table_name
               columns == tables_[t].columns
               rows == tables_[t].rows
    <3>1. InsertInto(t, s) /\ t \in DOMAIN tables_
      BY <1>3, <2>1 DEF execute_insert, Exists
    <3>2. PICK new : \E n \in Nat :
            LET now == rows \o [i \in 1..n |-> new[i]] IN
            /\ IsList(now) /\ Store(t, now)
            /\ UNCHANGED refused \/ Refusing(t, "insert")
            /\ Accepted(s, columns, rows, new, n)
      BY <1>0, <2>1, <3>1, InsertStep
    <3>3. PICK n \in Nat :
            LET now == rows \o [i \in 1..n |-> new[i]] IN
            /\ IsList(now) /\ Store(t, now)
            /\ UNCHANGED refused \/ Refusing(t, "insert")
            /\ Accepted(s, columns, rows, new, n)
      BY <3>2
    <3> DEFINE now == rows \o [i \in 1..n |-> new[i]]
    <3>4. IsList(rows)
      BY <1>0, <3>1 DEF Stored
    <3>5. \A i \in 1..n : DOMAIN new[i] = Names(columns)
      BY <3>3 DEF Accepted, NewRow
    <3>6. Complete(columns, rows) => Complete(columns, now)
      BY <3>4, <3>5, InsertComplete
    <3>7. IsList(now) /\ Store(t, now) /\ (UNCHANGED refused \/ Refusing(t, "insert"))
      BY <3>3
    <3> HIDE DEF now, t
    <3> QED BY <1>0, <3>1, <3>6, <3>7, KeepsComplete
  <2> QED BY <1>3, <2>1, <1>00 DEF execute_insert
<1>4. ASSUME NEW s \in UpdateStmts, execute_update(s) PROVE RowsComplete'
  <2>1. CASE Exists(s.table_name)
    <3> DEFINE t == s.table_name
               columns == tables_[t].columns
               rows == tables_[t].rows
    <3>1. UpdateRows(t, s) /\ t \in DOMAIN tables_
      BY <1>4, <2>1 DEF execute_update, Exists
    <3>2. PICK now :
            /\ IsList(now) /\ Len(now) = Len(rows) /\ Store(t, now)
            /\ UNCHANGED refused \/ Refusing(t, "update")
            /\ \A i \in 1..Len(rows) : now[i] = rows[i] \/ now[i] = Assigned(s, columns, rows[i]).row
      BY <1>0, <2>1, <3>1, UpdateStep
    <3>3. Complete(columns, rows) => Complete(columns, now)
      <4> SUFFICES ASSUME Complete(columns, rows), NEW i \in 1..Len(now)
                   PROVE  DOMAIN now[i] = Names(columns)
        BY DEF Complete
      <4>1. DOMAIN rows[i] = Names(columns)
        BY <3>2 DEF Complete
      <4>2. Len(s.assignments) \in Nat
        BY StatementsAssumption
      <4> HIDE DEF columns, rows
      <4> QED BY <3>2, <4>1, <4>2, AssignedWhole
    <3> HIDE DEF t
    <3> QED BY <1>0, <3>1, <3>2, <3>3, KeepsComplete
  <2> QED BY <1>4, <2>1, <1>00 DEF execute_update
<1>5. ASSUME NEW s \in DeleteStmts, execute_delete(s) PROVE RowsComplete'
  <2>1. CASE Exists(s.table_name)
    <3> DEFINE t == s.table_name
    <3>1. DeleteRows(t, s) /\ t \in DOMAIN tables_
      BY <1>5, <2>1 DEF execute_delete, Exists
    <3>2. PICK now, src : Deleted(s, t, tables_[t].rows, now, src)
      BY <1>0, <2>1, <3>1, DeleteStep
    <3>3. IsList(now) /\ Store(t, now)
      BY <3>2 DEF Deleted
    <3>4. CASE Refusing(t, "delete")
      <4> HIDE DEF t
      <4> QED BY <1>0, <3>1, <3>3, <3>4, KeepsComplete
    <3>5. CASE ~Refusing(t, "delete")
      <4>1. UNCHANGED refused /\ \A i \in 1..Len(now) : \E p \in 1..Len(tables_[t].rows) : now[i] = tables_[t].rows[p]
        BY <3>2, <3>5 DEF Deleted
      <4>2. Complete(tables_[t].columns, tables_[t].rows) => Complete(tables_[t].columns, now)
        BY <4>1 DEF Complete
      <4> HIDE DEF t
      <4> QED BY <1>0, <3>1, <3>3, <4>1, <4>2, KeepsComplete
    <3> QED BY <3>4, <3>5
  <2> QED BY <1>5, <2>1, <1>00 DEF execute_delete
<1>6. ASSUME NEW s \in SelectStmts, execute_select(s) PROVE RowsComplete'
  BY <1>6, <1>00 DEF execute_select
<1>7. CASE UNCHANGED vars
  BY <1>7, <1>00 DEF vars
<1> QED BY <1>1, <1>2, <1>3, <1>4, <1>5, <1>6, <1>7 DEF Next

(* RowsComplete: whatever the schemas, statements and expressions, every   *)
(* row has the columns of its table until a DELETE is refused half-way.    *)
THEOREM RowsKeepColumns == Spec => []RowsComplete
<1>1. Init => RowsComplete
  BY DEF Init, RowsComplete
<1> QED BY InitInv, NextInv, NextComplete, <1>1, PTL DEF Spec

-----------------------------------------------------------------------------
(* Induction up to n: S is the set of the numbers for which the claim holds. *)
LEMMA Forward ==
  ASSUME NEW n \in Nat, NEW S, 0 \in S, \A m \in 0..n : m < n /\ m \in S => m + 1 \in S
  PROVE  \A m \in 0..n : m \in S
<1> DEFINE V == {m \in 0..n : m \notin S}
<1> SUFFICES ASSUME V # {} PROVE FALSE
  OBVIOUS
<1>1. V \in SUBSET Nat
  OBVIOUS
<1>2. PICK m \in V : \A y \in V : <<y, m>> \notin OpToRel(<, Nat)
  <2> HIDE DEF V
  <2> QED BY <1>1, WFMin, NatLessThanWellFounded
<1>3. \A y \in V : ~(y < m)
  <2> HIDE DEF V
  <2> QED BY <1>1, <1>2 DEF OpToRel
<1>4. m \in 0..n /\ m \notin S /\ m # 0
  OBVIOUS
<1>5. m - 1 \in 0..n /\ m - 1 < m /\ m - 1 < n /\ m - 1 + 1 = m
  BY <1>4
<1>6. m - 1 \in S
  BY <1>3, <1>5
<1> QED BY <1>4, <1>5, <1>6

(* Lists with the same elements are equal. *)
LEMMA ListEqual ==
  ASSUME NEW s, NEW r, IsList(s), IsList(r), Len(s) = Len(r), \A i \in 1..Len(s) : s[i] = r[i]
  PROVE  s = r
<1>1. s = [i \in 1..Len(s) |-> s[i]] /\ r = [i \in 1..Len(s) |-> r[i]]
  BY DEF IsList
<1>2. [i \in 1..Len(s) |-> s[i]] = [i \in 1..Len(s) |-> r[i]]
  OBVIOUS
<1> QED BY <1>1, <1>2

(* The elements a + 1 to b of a list. *)
IsPart(p, s, a, b) == /\ IsList(p) /\ Len(p) = IF a <= b THEN b - a ELSE 0
                      /\ \A i \in 1..Len(p) : p[i] = s[a + i]

(* SubSeq cuts such a part out. *)
LEMMA PartOf ==
  ASSUME NEW s, IsList(s), NEW a \in Nat, NEW b \in Nat, b <= Len(s)
  PROVE  IsPart(SubSeq(s, a + 1, b), s, a, b)
<1> DEFINE S == {s[i] : i \in 1..Len(s)}
           p == SubSeq(s, a + 1, b)
<1>1. Len(s) \in Nat /\ \A i \in 1..Len(s) : s[i] \in S
  BY DEF IsList
<1> HIDE DEF S
<1>2. \A i \in (a + 1)..b : s[i] \in S
  BY <1>1
<1>3. /\ p \in Seq(S) /\ Len(p) = IF a + 1 <= b THEN b - (a + 1) + 1 ELSE 0
      /\ \A i \in 1..(b - (a + 1) + 1) : p[i] = s[(a + 1) + i - 1]
  BY <1>2, SubSeqProperties
<1> HIDE DEF p
<1>4. Len(p) = IF a <= b THEN b - a ELSE 0
  BY <1>3
<1>5. \A i \in 1..Len(p) : i \in 1..(b - (a + 1) + 1) /\ (a + 1) + i - 1 = a + i
  BY <1>4
<1> QED BY <1>3, <1>4, <1>5, SeqIsList DEF IsPart, p

(* Where a page ends. *)
Cut(n, s) == IF n <= Len(s) THEN n ELSE Len(s)

(* What a page holds. *)
LEMMA PageIs ==
  ASSUME NEW s, IsList(s), NEW limit \in Nat, NEW offset \in Nat
  PROVE  IsPart(Page(s, limit, offset), s, offset, Cut(offset + limit, s))
<1>1. Len(s) \in Nat
  BY DEF IsList
<1> DEFINE x == offset + limit
           y == Len(s)
<1>2. Min({x, y}) = Cut(x, s)
  <2>1. x \in Nat /\ y \in Nat
    BY <1>1
  <2>2. Cut(x, s) \in {x, y} /\ \A z \in {x, y} : Cut(x, s) <= z
    BY <2>1 DEF Cut
  <2> HIDE DEF x, y
  <2>3. Cut(x, s) \in {x, y} /\ Cut(x, s) \in Nat
    BY <2>1, <2>2
  <2>4. Min({x, y}) \in {x, y} /\ \A z \in {x, y} : Min({x, y}) <= z
    BY <2>2 DEF Min
  <2> QED BY <2>1, <2>2, <2>3, <2>4
<1>3. ~(limit < 0)
  OBVIOUS
<1>4. Page(s, limit, offset) = SubSeq(s, offset + 1, Cut(x, s))
  BY <1>2, <1>3 DEF Page
<1>5. Cut(x, s) \in Nat /\ Cut(x, s) <= Len(s)
  BY <1>1 DEF Cut
<1> QED BY <1>4, <1>5, PartOf

(* The first rows. *)
First(s, n) == SubSeq(s, 1, Cut(n, s))

(* A page behind the first a rows makes them the first a + size. *)
LEMMA PageContinues ==
  ASSUME NEW s, IsList(s), NEW a \in Nat, NEW size \in Nat
  PROVE  First(s, a) \o Page(s, size, a) = First(s, a + size)
<1> DEFINE n == Len(s)
           f == First(s, a)
           g == First(s, a + size)
           p == Page(s, size, a)
<1>1. n \in Nat
  BY DEF IsList
<1>2. ASSUME NEW k \in Nat PROVE IsPart(First(s, k), s, 0, Cut(k, s))
  <2>1. Cut(k, s) \in Nat /\ Cut(k, s) <= Len(s) /\ 0 \in Nat /\ 0 + 1 = 1
    BY <1>1 DEF Cut
  <2> QED BY <2>1, PartOf DEF First
<1>3. a + size \in Nat
  OBVIOUS
<1>4. IsPart(f, s, 0, Cut(a, s)) /\ IsPart(g, s, 0, Cut(a + size, s)) /\ IsPart(p, s, a, Cut(a + size, s))
  BY <1>2, <1>3, PageIs
<1> HIDE DEF f, g, p
<1>5. /\ IsList(f) /\ Len(f) = IF a <= n THEN a ELSE n
      /\ IsList(g) /\ Len(g) = IF a + size <= n THEN a + size ELSE n
      /\ IsList(p) /\ Len(p) = IF a + size <= n THEN size ELSE IF a <= n THEN n - a ELSE 0
  BY <1>1, <1>4 DEF IsPart, Cut
<1>6. /\ \A i \in 1..Len(f) : f[i] = s[0 + i] /\ 0 + i = i
      /\ \A i \in 1..Len(g) : g[i] = s[0 + i] /\ 0 + i = i
      /\ \A i \in 1..Len(p) : p[i] = s[a + i]
  BY <1>4 DEF IsPart
<1>7. /\ IsList(f \o p) /\ Len(f \o p) = Len(f) + Len(p)
      /\ \A i \in 1..Len(f) : (f \o p)[i] = f[i]
      /\ \A i \in 1..Len(p) : (f \o p)[Len(f) + i] = p[i]
  BY <1>5, ConcatLists
<1> DEFINE h == f \o p
           lf == Len(f)
           lp == Len(p)
<1>8. IsList(h) /\ Len(h) = lf + lp /\ (\A i \in 1..lf : h[i] = f[i]) /\ \A i \in 1..lp : h[lf + i] = p[i]
  BY <1>7
<1> HIDE DEF h, n
<1>9. lf \in Nat /\ lp \in Nat /\ lf + lp = Len(g) /\ (lp > 0 => lf = a)
  BY <1>1, <1>5
<1>10. ASSUME NEW i \in 1..Len(h) PROVE h[i] = g[i]
  <2>1. g[i] = s[i]
    BY <1>6, <1>8, <1>9
  <2>2. CASE i \in 1..lf
    BY <1>6, <1>8, <2>1, <2>2
  <2>3. CASE i \notin 1..lf
    <3>1. i - lf \in 1..lp /\ lf + (i - lf) = i /\ lf = a
      BY <1>8, <1>9, <2>3
    <3>2. h[i] = p[i - lf]
      BY <1>8, <3>1
    <3>3. p[i - lf] = s[i]
      BY <1>6, <3>1
    <3> QED BY <2>1, <3>2, <3>3
  <2> QED BY <2>2, <2>3
<1>11. h = g
  BY <1>5, <1>8, <1>9, <1>10, ListEqual
<1> QED BY <1>11 DEF h, f, g, p

(* Pages that follow one another, joined. *)
LEMMA PagesJoin ==
  ASSUME NEW s, IsList(s), NEW n \in Nat, n > 0, NEW size \in Nat, Len(s) <= n * size
  PROVE  FlattenSeq([k \in 1..n |-> Page(s, size, (k - 1) * size)]) = s
<1> DEFINE pages == [k \in 1..n |-> Page(s, size, (k - 1) * size)]
           Body(f, i) == IF i = 1 THEN pages[i] ELSE f[i - 1] \o pages[i]
           flatten == CHOOSE f : f = [i \in 1..n |-> Body(f, i)]
           front(i) == First(s, i * size)
           g == [i \in 1..n |-> front(i)]
<1>1. Len(pages) = n
  <2>1. pages = [k \in 1..n |-> pages[k]]
    OBVIOUS
  <2> HIDE DEF pages
  <2> QED BY <2>1, ListOf
<1>2. FlattenSeq(pages) = flatten[n]
  <2> HIDE DEF pages
  <2> QED BY <1>1 DEF FlattenSeq
<1>3. ASSUME NEW i \in 1..n PROVE front(i - 1) \o pages[i] = front(i)
  <2> DEFINE a == (i - 1) * size
  <2>1. a \in Nat /\ a + size = i * size
    BY SMT
  <2>2. pages[i] = Page(s, size, a)
    OBVIOUS
  <2> HIDE DEF a, pages
  <2>3. First(s, a) \o Page(s, size, a) = First(s, a + size)
    BY <2>1, PageContinues
  <2> QED BY <2>1, <2>2, <2>3 DEF a
<1>4. front(1) = pages[1]
  <2>1. 0 * size = 0 /\ 1 - 1 = 0 /\ 1 * size = size
    BY SMT
  <2>3. IsPart(pages[1], s, 0, Cut(0 + size, s))
    <3>1. pages[1] = Page(s, size, (1 - 1) * size)
      OBVIOUS
    <3>2. pages[1] = Page(s, size, 0)
      BY <2>1, <3>1
    <3> QED BY <3>2, PageIs
  <2>4. front(1) = First(s, size)
    BY <2>1
  <2>5. 0 + size = size /\ Cut(size, s) \in Nat /\ Cut(size, s) <= Len(s) /\ 0 + 1 = 1
    BY DEF Cut, IsList
  <2>6. IsPart(SubSeq(s, 0 + 1, Cut(size, s)), s, 0, Cut(size, s))
    BY <2>5, PartOf
  <2>7. IsPart(front(1), s, 0, Cut(size, s))
    BY <2>4, <2>5, <2>6 DEF First
  <2> HIDE DEF pages, front
  <2> QED BY <2>3, <2>5, <2>7, ListEqual DEF IsPart
<1>5. g = [i \in 1..n |-> Body(g, i)]
  <2>1. ASSUME NEW i \in 1..n PROVE front(i) = Body(g, i)
    <3>1. CASE i = 1
      <4> HIDE DEF g, pages, front
      <4> QED BY <1>4, <3>1
    <3>2. CASE i # 1
      <4>1. i - 1 \in 1..n
        BY <3>2
      <4>2. g[i - 1] = front(i - 1)
        BY <4>1
      <4> HIDE DEF g, pages, front
      <4> QED BY <1>3, <3>2, <4>2
    <3> QED BY <3>1, <3>2
  <2> HIDE DEF Body, front
  <2> QED BY <2>1 DEF g
<1>6. flatten = [i \in 1..n |-> Body(flatten, i)]
  <2> HIDE DEF g, Body
  <2> QED BY <1>5
<1> HIDE DEF flatten, g
<1>7. \A i \in 1..n : flatten[i] = Body(flatten, i)
  BY <1>6
<1> DEFINE S == {0} \cup {i \in 1..n : flatten[i] = front(i)}
<1> HIDE DEF pages, front
<1>8. ASSUME NEW m \in 0..n, m < n, m \in S PROVE m + 1 \in S
  <2> DEFINE k == m + 1
  <2>1. k \in 1..n /\ k - 1 = m
    BY <1>8
  <2> HIDE DEF k
  <2>2. flatten[k] = front(k)
    <3>1. CASE k = 1
      BY <1>4, <1>7, <2>1, <3>1
    <3>2. CASE k # 1
      <4>1. flatten[m] = front(m)
        BY <1>8, <2>1, <3>2
      <4>2. flatten[k] = flatten[k - 1] \o pages[k]
        BY <1>7, <2>1, <3>2
      <4>3. front(k - 1) \o pages[k] = front(k)
        BY <1>3, <2>1
      <4> QED BY <2>1, <4>1, <4>2, <4>3
    <3> QED BY <3>1, <3>2
  <2>3. k \in S
    BY <2>1, <2>2
  <2> QED BY <2>3 DEF k
<1>9. n \in S
  <2>1. 0 \in S /\ n \in 0..n
    OBVIOUS
  <2> HIDE DEF S
  <2> QED BY <1>8, <2>1, Forward
<1>10. flatten[n] = front(n)
  BY <1>9
<1>11. front(n) = s
  <2> DEFINE m == n * size
  <2>1. m \in Nat /\ Len(s) <= m
    BY SMT
  <2>2. front(n) = First(s, m)
    BY DEF front
  <2> HIDE DEF m
  <2>3. Len(s) \in Nat /\ Cut(m, s) = Len(s) /\ 0 + 1 = 1 /\ 0 \in Nat
    BY <2>1 DEF Cut, IsList
  <2>4. IsPart(SubSeq(s, 0 + 1, Len(s)), s, 0, Len(s))
    BY <2>3, PartOf
  <2>5. IsPart(front(n), s, 0, Len(s))
    BY <2>2, <2>3, <2>4 DEF First
  <2>6. Len(front(n)) = Len(s) /\ \A i \in 1..Len(s) : front(n)[i] = s[0 + i] /\ 0 + i = i
    BY <2>3, <2>5 DEF IsPart
  <2>7. IsList(front(n))
    BY <2>5 DEF IsPart
  <2> QED BY <2>6, <2>7, ListEqual
<1> QED BY <1>2, <1>10, <1>11 DEF pages

-----------------------------------------------------------------------------
(* No table outgrows the bound of execute_insert. *)
Bounded == \A t \in DOMAIN tables_ : Len(tables_[t].rows) <= MaxRows

(* A statement on one table. *)
LEMMA KeepsBounded ==
  ASSUME Stored, Bounded, NEW t \in DOMAIN tables_, NEW now, IsList(now), Store(t, now),
         NEW kind \in {"insert", "update", "delete"}, UNCHANGED refused \/ Refusing(t, kind),
         Len(now) <= MaxRows
  PROVE  Bounded'
<1>1. /\ DOMAIN tables_' = DOMAIN tables_ /\ tables_'[t].rows = now
      /\ \A u \in DOMAIN tables_ : u # t => tables_'[u] = tables_[u]
  BY StoreStep
<1> QED BY <1>1 DEF Bounded

(* Every step keeps the bound. *)
LEMMA NextBounded == Inv /\ Bounded /\ [Next]_vars => Bounded'
<1> SUFFICES ASSUME Inv, Bounded, [Next]_vars PROVE Bounded'
  OBVIOUS
<1>1. Stored
  BY DEF Inv
<1>2. ASSUME UNCHANGED tables_ PROVE Bounded'
  BY <1>2 DEF Bounded
<1>3. \A t \in DOMAIN tables_ : Len(tables_[t].rows) \in Nat /\ Len(tables_[t].rows) <= MaxRows
  BY <1>1 DEF Stored, IsList, Bounded
<1>4. 0 <= MaxRows
  BY MaxRowsAssumption
<1>5. ASSUME NEW t \in Tables \cup {""}, NEW columns \in Schemas, execute_create_table(t, columns)
      PROVE  Bounded'
  <2>1. CASE ~UNCHANGED <<tables_, refused>>
    <3>1. /\ DOMAIN tables_' = DOMAIN tables_ \cup {t} /\ tables_'[t].rows = <<>>
          /\ \A u \in DOMAIN tables_ : tables_'[u] = tables_[u]
      BY <1>1, <1>5, <2>1, CreateStep
    <3>2. Len(tables_'[t].rows) = 0
      BY <3>1, EmptyList, Zenon
    <3> QED BY <1>4, <3>1, <3>2 DEF Bounded
  <2> QED BY <1>2, <2>1
<1>6. ASSUME NEW t \in Tables, drop_table(t) PROVE Bounded'
  <2>1. /\ DOMAIN tables_' \subseteq DOMAIN tables_
        /\ \A u \in DOMAIN tables_' : tables_'[u] = tables_[u]
    BY <1>1, <1>6, DropStep
  <2> QED BY <2>1 DEF Bounded
<1>7. ASSUME NEW s \in InsertStmts, execute_insert(s) PROVE Bounded'
  <2>1. CASE Exists(s.table_name)
    <3> DEFINE t == s.table_name
    <3>1. InsertInto(t, s) /\ t \in DOMAIN tables_ /\ Len(tables_'[t].rows) <= MaxRows
      BY <1>7, <2>1 DEF execute_insert, Exists
    <3>2. \E now : IsList(now) /\ Store(t, now) /\ (UNCHANGED refused \/ Refusing(t, "insert"))
      BY <1>1, <2>1, <3>1, InsertStep
    <3>3. PICK now : IsList(now) /\ Store(t, now) /\ (UNCHANGED refused \/ Refusing(t, "insert"))
      BY <3>2
    <3> HIDE DEF t
    <3>4. tables_'[t].rows = now
      BY <1>1, <3>1, <3>3, StoreStep
    <3> QED BY <1>1, <3>1, <3>3, <3>4, KeepsBounded
  <2> QED BY <1>7, <2>1, <1>2 DEF execute_insert
<1>8. ASSUME NEW s \in UpdateStmts, execute_update(s) PROVE Bounded'
  <2>1. CASE Exists(s.table_name)
    <3> DEFINE t == s.table_name
    <3>1. UpdateRows(t, s) /\ t \in DOMAIN tables_
      BY <1>8, <2>1 DEF execute_update, Exists
    <3>2. PICK now : /\ IsList(now) /\ Len(now) = Len(tables_[t].rows) /\ Store(t, now)
                     /\ UNCHANGED refused \/ Refusing(t, "update")
      BY <1>1, <2>1, <3>1, UpdateStep
    <3> HIDE DEF t
    <3> QED BY <1>1, <1>3, <3>1, <3>2, KeepsBounded
  <2> QED BY <1>8, <2>1, <1>2 DEF execute_update
<1>9. ASSUME NEW s \in DeleteStmts, execute_delete(s) PROVE Bounded'
  <2>1. CASE Exists(s.table_name)
    <3> DEFINE t == s.table_name
    <3>1. DeleteRows(t, s) /\ t \in DOMAIN tables_
      BY <1>9, <2>1 DEF execute_delete, Exists
    <3>2. PICK now, src : Deleted(s, t, tables_[t].rows, now, src)
      BY <1>1, <2>1, <3>1, DeleteStep
    <3>3. /\ IsList(now) /\ Store(t, now) /\ Len(now) <= Len(tables_[t].rows)
          /\ UNCHANGED refused \/ Refusing(t, "delete")
      BY <3>2 DEF Deleted
    <3> HIDE DEF t
    <3>4. Len(now) <= MaxRows
      BY <1>3, <3>1, <3>3, MaxRowsAssumption DEF IsList
    <3> QED BY <1>1, <3>1, <3>3, <3>4, KeepsBounded
  <2> QED BY <1>9, <2>1, <1>2 DEF execute_delete
<1>10. ASSUME NEW s \in SelectStmts, execute_select(s) PROVE Bounded'
  BY <1>10, <1>2 DEF execute_select
<1>11. CASE UNCHANGED vars
  BY <1>11, <1>2 DEF vars
<1> QED BY <1>5, <1>6, <1>7, <1>8, <1>9, <1>10, <1>11 DEF Next

(* No LIMIT gives the rest, LIMIT 0 nothing. *)
LEMMA PageLimits ==
  ASSUME NEW s, IsList(s), NEW offset \in Nat
  PROVE  Page(s, 0, offset) = <<>> /\ Page(s, -1, offset) = SubSeq(s, offset + 1, Len(s))
<1>1. -1 < 0
  OBVIOUS
<1>2. Page(s, -1, offset) = SubSeq(s, offset + 1, Len(s))
  BY <1>1 DEF Page
<1> DEFINE p == Page(s, 0, offset)
           empty == <<>>
<1>3. IsPart(p, s, offset, Cut(offset + 0, s)) /\ IsList(empty) /\ Len(empty) = 0
  BY PageIs, EmptyList
<1>4. offset + 0 = offset /\ Len(s) \in Nat
  BY DEF IsList
<1>5. Cut(offset, s) \in Nat /\ Cut(offset, s) <= offset
  BY <1>4 DEF Cut
<1> HIDE DEF p, empty
<1>6. IsList(p) /\ Len(p) = 0
  BY <1>3, <1>4, <1>5 DEF IsPart
<1>7. p = empty
  BY <1>3, <1>6, ListEqual
<1> QED BY <1>2, <1>7 DEF p, empty

(* PagesPartition: whatever the statements have left in a table, LIMIT and *)
(* OFFSET cut it into pages that give every row once and in order.         *)
THEOREM PagesAreWhole == Spec => []PagesPartition
<1>1. ASSUME Inv, Bounded PROVE PagesPartition
  <2> SUFFICES ASSUME NEW t \in DOMAIN tables_
               PROVE  LET rows == tables_[t].rows
                      IN  /\ \A size \in 1..MaxRows :
                               FlattenSeq([k \in 1..MaxRows |-> Page(rows, size, (k - 1) * size)]) = rows
                          /\ \A offset \in 0..MaxRows :
                               /\ Page(rows, 0, offset) = <<>>
                               /\ Page(rows, -1, offset) = SubSeq(rows, offset + 1, Len(rows))
    BY DEF PagesPartition
  <2> DEFINE rows == tables_[t].rows
  <2>1. IsList(rows) /\ Len(rows) \in Nat /\ Len(rows) <= MaxRows /\ MaxRows \in Nat
    BY <1>1, MaxRowsAssumption DEF Inv, Stored, Bounded, IsList
  <2> HIDE DEF rows
  <2>2. ASSUME NEW size \in 1..MaxRows
        PROVE  FlattenSeq([k \in 1..MaxRows |-> Page(rows, size, (k - 1) * size)]) = rows
    <3>1. size \in Nat /\ size >= 1 /\ MaxRows > 0
      BY <2>1
    <3>2. MaxRows <= MaxRows * size /\ MaxRows * size \in Nat
      BY <2>1, <3>1, SMT
    <3>3. Len(rows) <= MaxRows * size
      BY <2>1, <3>2
    <3> QED BY <2>1, <3>1, <3>3, PagesJoin
  <2>3. \A offset \in 0..MaxRows : /\ Page(rows, 0, offset) = <<>>
                                    /\ Page(rows, -1, offset) = SubSeq(rows, offset + 1, Len(rows))
    BY <2>1, PageLimits
  <2> QED BY <2>2, <2>3 DEF rows
<1>2. Init => Bounded
  BY DEF Init, Bounded
<1> QED BY InitInv, NextInv, NextBounded, <1>1, <1>2, PTL DEF Spec

-----------------------------------------------------------------------------
(* The least of some positions. *)
LEMMA MinOf ==
  ASSUME NEW n \in Nat, NEW S, S \subseteq 1..n, S # {}
  PROVE  Min(S) \in S /\ \A y \in S : Min(S) <= y
<1>1. S \in SUBSET Nat
  OBVIOUS
<1>2. PICK m \in S : \A y \in S : <<y, m>> \notin OpToRel(<, Nat)
  BY <1>1, WFMin, NatLessThanWellFounded
<1>3. \A y \in S : ~(y < m)
  BY <1>1, <1>2 DEF OpToRel
<1>4. m \in S /\ \A y \in S : m <= y
  BY <1>1, <1>3
<1> QED BY <1>4 DEF Min

(* Likewise the greatest. *)
LEMMA MaxOf ==
  ASSUME NEW n \in Nat, NEW S, S \subseteq 1..n, S # {}
  PROVE  Max(S) \in S
<1> DEFINE T == {k \in 0..n : \A y \in S : y <= k}
<1>1. T \in SUBSET Nat /\ n \in T
  OBVIOUS
<1>2. PICK m \in T : \A y \in T : <<y, m>> \notin OpToRel(<, Nat)
  <2> HIDE DEF T
  <2> QED BY <1>1, WFMin, NatLessThanWellFounded
<1>3. \A y \in T : ~(y < m)
  <2> HIDE DEF T
  <2> QED BY <1>1, <1>2 DEF OpToRel
<1>4. m \in 0..n /\ \A y \in S : y <= m
  OBVIOUS
<1>5. m \in S
  <2> SUFFICES ASSUME m \notin S PROVE FALSE
    OBVIOUS
  <2>1. m - 1 \in 0..n /\ \A y \in S : y <= m - 1
    <3>1. \A y \in S : y <= m /\ y # m /\ y \in 1..n
      BY <1>4
    <3>2. \A y \in S : y <= m - 1 /\ 1 <= m
      BY <1>4, <3>1
    <3>3. 1 <= m
      BY <3>2
    <3>4. m - 1 \in 0..n
      BY <1>4, <3>3
    <3> QED BY <3>2, <3>4
  <2>2. m - 1 \in T /\ m - 1 < m
    BY <1>4, <2>1
  <2> QED BY <1>3, <2>2
<1> QED BY <1>4, <1>5 DEF Max

(* A literal or a default converts to a value or throws. *)
LEMMA ConvertedIsValue ==
  ASSUME NEW text, NEW target PROVE LET v == convert_to_type(String(text), target)
                                    IN  v = Throw \/ IsValue(v)
<1> DEFINE v == convert_to_type(String(text), target)
<1>1. /\ String(text).type = "STRING_VAL" /\ String(text).text = text
      /\ String(text).num = <<0, 1>> /\ String(text) = Typed("STRING_VAL", <<0, 1>>, text)
  BY DEF String, Typed
<1>2. ASSUME NEW type \in ValueTypes, NEW a \in Int, NEW b \in Nat \ {0}, NEW x
      PROVE  IsValue(Typed(type, <<a, b>>, x))
  BY DEF IsValue, Typed
<1>3. \A x : IsValue(String(x))
  <2>1. "STRING_VAL" \in ValueTypes /\ 0 \in Int /\ 1 \in Nat \ {0}
    BY DEF ValueTypes
  <2> QED BY <1>2, <2>1 DEF String
<1>4. \A b : IsValue(Bool(b))
  <2>1. "BOOL_VAL" \in ValueTypes /\ 0 \in Int /\ 1 \in Int /\ 1 \in Nat \ {0}
    BY DEF ValueTypes
  <2> QED BY <1>2, <2>1 DEF Bool
<1>5. \A n \in Int : IsValue(Int64(n))
  <2>1. "INT_VAL" \in ValueTypes /\ 1 \in Nat \ {0}
    BY DEF ValueTypes
  <2> QED BY <1>2, <2>1 DEF Int64
<1>6. \A n \in Int : IsValue(Double(<<n, 1>>))
  <2> SUFFICES ASSUME NEW n \in Int PROVE IsValue(Double(<<n, 1>>))
    OBVIOUS
  <2> DEFINE D == {k \in 1..1 : n % k = 0 /\ 1 % k = 0}
             d == Max(D)
  <2>1. n % 1 = 0 /\ 1 % 1 = 0
    BY SMT
  <2>2. 1 \in D /\ \A y \in D : y <= 1
    BY <2>1
  <2>3. d = 1
    <3>1. D = {1}
      BY <2>1
    <3>2. \E m \in {1} : \A y \in {1} : y <= m
      OBVIOUS
    <3>3. Max({1}) \in {1}
      BY <3>2 DEF Max
    <3> QED BY <3>1, <3>3
  <2>4. Reduced(<<n, 1>>) = <<n \div d, 1 \div d>>
    BY DEF Reduced
  <2> HIDE DEF d
  <2>5. n \div d \in Int /\ 1 \div d = 1
    BY <2>3, SMT
  <2>6. "DOUBLE_VAL" \in ValueTypes /\ n \div d \in Int /\ 1 \div d \in Nat \ {0}
    BY <2>5 DEF ValueTypes
  <2>7. IsValue(Typed("DOUBLE_VAL", Reduced(<<n, 1>>), ""))
    BY <1>2, <2>4, <2>6
  <2> QED BY <2>7 DEF Double
<1>7. ASSUME Parsed(text) # {} PROVE (CHOOSE n \in Parsed(text) : TRUE) \in Int
  BY <1>7, ValueAssumption DEF Parsed
<1> DEFINE num == CHOOSE n \in Parsed(text) : TRUE
<1>8. /\ ~is_null(String(text)) /\ String(text).type # "DOUBLE_VAL" /\ String(text).type # "INT_VAL"
  BY <1>1 DEF is_null
<1> HIDE DEF num
<1>9. \/ v = Throw
      \/ Parsed(text) # {} /\ v = Int64(num)
      \/ Parsed(text) # {} /\ v = Double(<<num, 1>>)
      \/ \E x : v = String(x)
      \/ \E b : v = Bool(b)
      \/ v = String(text)
  <2>1. CASE target \in {"INT", "BIGINT"}
    BY <1>1, <1>8, <2>1 DEF convert_to_type, num
  <2>2. CASE target \in {"DOUBLE", "FLOAT"}
    BY <1>1, <1>8, <2>2 DEF convert_to_type, num
  <2>3. CASE target \in {"VARCHAR", "TEXT", "CHAR"}
    BY <1>1, <1>8, <2>3 DEF convert_to_type
  <2>4. CASE target = "BOOLEAN"
    BY <1>1, <1>8, <2>4 DEF convert_to_type
  <2>5. CASE target \notin {"INT", "BIGINT", "DOUBLE", "FLOAT", "VARCHAR", "TEXT", "CHAR", "BOOLEAN"}
    BY <1>1, <1>8, <2>5 DEF convert_to_type
  <2> QED BY <2>1, <2>2, <2>3, <2>4, <2>5
<1> HIDE DEF v
<1>10. v = Throw \/ IsValue(v)
  BY <1>3, <1>4, <1>5, <1>6, <1>7, <1>9 DEF num
<1> QED BY <1>10 DEF v

-----------------------------------------------------------------------------
(* The rows an INSERT builds hold values under known columns. *)
LEMMA NewRowOK ==
  ASSUME NEW s \in InsertStmts, NEW columns \in Schemas, NEW values, Buildable(s, columns, values)
  PROVE  RowOK(NewRow(s, columns, values))
<1> DEFINE target == Target(s, columns)
           row == NewRow(s, columns, values)
<1>1. Len(columns) \in Nat /\ Names(columns) \subseteq Columns
  BY SchemasAssumption
<1>2. DOMAIN target = 1..Len(target) /\ Len(target) \in Nat
  <2>1. CASE s.columns # <<>>
    BY <2>1, StatementsAssumption DEF Target
  <2>2. CASE s.columns = <<>>
    <3> DEFINE f == [i \in 1..Len(columns) |-> columns[i].name]
    <3>1. target = f /\ f = [i \in 1..Len(columns) |-> f[i]]
      BY <2>2 DEF Target
    <3> HIDE DEF f
    <3>2. Len(f) = Len(columns)
      BY <1>1, <3>1, ListOf
    <3> QED BY <1>1, <3>1, <3>2
  <2> QED BY <2>1, <2>2
<1>3. /\ Len(values) = Len(target)
      /\ \A i \in 1..Len(values) : InsertedValue(values[i]) # Throw
      /\ \A i \in 1..Len(columns) : columns[i].name \in Range(target) \/ Missing(columns[i]) # Throw
  BY DEF Buildable
<1>4. \A e : InsertedValue(e) = Throw \/ IsValue(InsertedValue(e))
  BY ConvertedIsValue DEF InsertedValue
<1>5. \A col : Missing(col) = Throw \/ IsValue(Missing(col))
  <2>1. IsValue(Null)
    BY DEF IsValue, Null, Typed, ValueTypes
  <2> QED BY <2>1, ConvertedIsValue DEF Missing
<1>6. DOMAIN row = Names(columns)
  BY DEF NewRow
<1>7. ASSUME NEW c \in Names(columns) PROVE IsValue(row[c])
  <2>1. row[c] = IF c \in Range(target)
                 THEN InsertedValue(values[SelectLastInSeq(target, LAMBDA n : n = c)])
                 ELSE Missing(columns[SelectInSeq(columns, LAMBDA col : col.name = c)])
    BY DEF NewRow
  <2> HIDE DEF target, row
  <2>2. CASE c \in Range(target)
    <3> DEFINE S == {i \in 1..Len(target) : target[i] = c}
    <3>1. S \subseteq 1..Len(target) /\ S # {}
      BY <1>2, <2>2 DEF Range
    <3>2. SelectLastInSeq(target, LAMBDA n : n = c) = Max(S)
      BY <3>1 DEF SelectLastInSeq
    <3>3. Max(S) \in S
      <4> HIDE DEF S
      <4> QED BY <1>2, <3>1, MaxOf
    <3>4. Max(S) \in 1..Len(values)
      BY <1>3, <3>3
    <3> HIDE DEF S
    <3> QED BY <1>3, <1>4, <2>1, <2>2, <3>2, <3>4
  <2>3. CASE c \notin Range(target)
    <3> DEFINE S == {i \in 1..Len(columns) : columns[i].name = c}
    <3>1. S \subseteq 1..Len(columns) /\ S # {}
      BY DEF Names
    <3>2. SelectInSeq(columns, LAMBDA col : col.name = c) = Min(S)
      BY <3>1 DEF SelectInSeq
    <3>3. Min(S) \in S
      <4> HIDE DEF S
      <4> QED BY <1>1, <3>1, MinOf
    <3>4. Min(S) \in 1..Len(columns) /\ columns[Min(S)].name = c
      BY <3>3
    <3> HIDE DEF S
    <3> QED BY <1>3, <1>5, <2>1, <2>3, <3>2, <3>4
  <2> QED BY <2>2, <2>3
<1> QED BY <1>1, <1>6, <1>7 DEF RowOK

(* What the expressions of the UPDATEs have to do: throw or give a value,  *)
(* on every row of values.                                                 *)
EvalTyped ==
  \A s \in UpdateStmts : \A k \in 1..Len(s.assignments) : \A row :
    RowOK(row) => LET v == Eval(s.assignments[k].value, row) IN v = Throw \/ IsValue(v)

(* A record of the loop over the assignments, with a row of values. *)
Sound(d) == d = [row |-> d.row, ok |-> d.ok] /\ RowOK(d.row)

(* One assignment stores a value or nothing. *)
LEMMA AssignSound ==
  ASSUME NEW d, NEW a, NEW columns \in Schemas, Sound(d),
         Eval(a.value, d.row) = Throw \/ IsValue(Eval(a.value, d.row))
  PROVE  Sound(Assign(d, a, columns))
<1> DEFINE v == Eval(a.value, d.row)
<1>1. CASE ~d.ok \/ a.column \notin Names(columns) \/ v = Throw
  <2>1. Assign(d, a, columns) = [d EXCEPT !.ok = FALSE]
    BY <1>1 DEF Assign
  <2>2. [d EXCEPT !.ok = FALSE] = [row |-> d.row, ok |-> FALSE]
    <3>1. \A x : [d EXCEPT !.ok = x] = [row |-> d.row, ok |-> x]
      BY DEF Sound
    <3> QED BY <3>1, Zenon
  <2> QED BY <2>1, <2>2 DEF Sound
<1>2. CASE ~(~d.ok \/ a.column \notin Names(columns) \/ v = Throw)
  <2>1. Assign(d, a, columns) = [d EXCEPT !.row = Set(d.row, a.column, v)]
    BY <1>2 DEF Assign
  <2> DEFINE r == Set(d.row, a.column, v)
  <2>2. RowOK(r)
    <3>1. IsValue(v) /\ a.column \in Columns
      BY <1>2, SchemasAssumption
    <3>2. DOMAIN d.row \subseteq Columns /\ \A c \in DOMAIN d.row : IsValue(d.row[c])
      BY DEF Sound, RowOK
    <3>3. /\ DOMAIN r = DOMAIN d.row \cup {a.column}
          /\ \A c \in DOMAIN d.row \cup {a.column} : r[c] = IF c = a.column THEN v ELSE d.row[c]
      BY DEF Set
    <3> HIDE DEF r, v
    <3> QED BY <3>1, <3>2, <3>3 DEF RowOK
  <2> HIDE DEF r
  <2>3. [d EXCEPT !.row = r] = [row |-> r, ok |-> d.ok]
    BY DEF Sound
  <2>4. Assign(d, a, columns) = [row |-> r, ok |-> d.ok]
    BY <2>1, <2>3 DEF r
  <2> QED BY <2>2, <2>4 DEF Sound
<1> QED BY <1>1, <1>2

(* So a row of values stays one under the assignments of an UPDATE. *)
LEMMA AssignedOK ==
  ASSUME EvalTyped, NEW s \in UpdateStmts, NEW columns \in Schemas, NEW row, RowOK(row)
  PROVE  RowOK(Assigned(s, columns, row).row)
<1> DEFINE n == Len(s.assignments)
<1>1. n \in Nat
  BY StatementsAssumption
<1>2. PICK f : Loop(f, n, s, columns, row) /\ Assigned(s, columns, row) = f[n]
  BY <1>1, AssignedIsLoop
<1>3. \A k \in 0..n : f[k] = IF k = 0 THEN [row |-> row, ok |-> TRUE]
                             ELSE Assign(f[k - 1], s.assignments[k], columns)
  BY <1>2 DEF Loop
<1> DEFINE S == {k \in 0..n : Sound(f[k])}
<1>4. 0 \in S
  <2>1. Sound([row |-> row, ok |-> TRUE])
    BY DEF Sound
  <2> QED BY <1>1, <1>3, <2>1
<1>5. ASSUME NEW m \in 0..n, m < n, m \in S PROVE m + 1 \in S
  <2> DEFINE k == m + 1
  <2>1. k \in 0..n /\ k # 0 /\ k - 1 = m /\ k \in 1..n
    BY <1>1, <1>5
  <2> HIDE DEF k
  <2>2. f[k] = Assign(f[m], s.assignments[k], columns)
    BY <1>3, <2>1
  <2>3. Sound(f[m])
    BY <1>5
  <2>4. RowOK(f[m].row)
    BY <2>3 DEF Sound
  <2>5. Eval(s.assignments[k].value, f[m].row) = Throw \/ IsValue(Eval(s.assignments[k].value, f[m].row))
    BY <2>1, <2>4 DEF EvalTyped
  <2>6. Sound(f[k])
    BY <2>2, <2>3, <2>5, AssignSound
  <2> QED BY <2>1, <2>6 DEF k
<1>6. n \in S
  <2>1. n \in 0..n
    BY <1>1
  <2> HIDE DEF S, n
  <2> QED BY <1>1, <1>4, <1>5, <2>1, Forward
<1> QED BY <1>2, <1>6 DEF Sound

-----------------------------------------------------------------------------
(* A page lists consecutive rows. *)
LEMMA PageIn ==
  ASSUME NEW s, IsList(s), NEW limit \in Int, NEW offset \in Nat
  PROVE  \E b \in 0..Len(s) : IsPart(Page(s, limit, offset), s, offset, b)
<1>1. Len(s) \in Nat
  BY DEF IsList
<1>2. CASE limit < 0
  <2>1. Page(s, limit, offset) = SubSeq(s, offset + 1, Len(s))
    BY <1>2 DEF Page
  <2>2. Len(s) <= Len(s) /\ Len(s) \in 0..Len(s)
    BY <1>1
  <2> QED BY <1>1, <2>1, <2>2, PartOf
<1>3. CASE ~(limit < 0)
  <2>1. limit \in Nat
    BY <1>3
  <2>2. Cut(offset + limit, s) \in 0..Len(s)
    BY <1>1, <2>1 DEF Cut
  <2> QED BY <2>1, <2>2, PageIs
<1> QED BY <1>2, <1>3

(* What ORDER BY does to the rows that a condition lets through, all of    *)
(* them rows of the table.                                                 *)
Arranged(order_by, table, rows, sorted) ==
  /\ IsList(rows) /\ IsList(sorted) /\ Len(sorted) = Len(rows)
  /\ \A i \in 1..Len(rows) : \E k \in 1..Len(table) : rows[i] = table[k]
  /\ \A i \in 1..Len(sorted) : \E k \in 1..Len(rows) : sorted[i] = rows[k]
  /\ order_by # <<>> /\ Len(rows) >= 2 =>
       /\ \A i \in 1..Len(rows) : order_by[1].column \in DOMAIN rows[i]
       /\ StrictWeakOrder(order_by[1], rows) =>
            \A i, j \in 1..Len(sorted) : i < j => ~Before(order_by[1], sorted[j], sorted[i])

(* What SELECT answers: some columns of a page of them. *)
Shown(s, picked, sorted, res) ==
  LET page == Page(sorted, s.limit, s.offset)
  IN  res = [success |-> TRUE, rows_affected |-> Len(page),
             rows |-> [i \in 1..Len(page) |-> [c \in picked \cap DOMAIN page[i] |-> page[i][c]]]]

(* std::sort moves the rows around. *)
LEMMA SortedRows ==
  ASSUME NEW order, NEW rows, IsList(rows), NEW sorted \in Sorted(order, rows)
  PROVE  /\ IsList(sorted) /\ Len(sorted) = Len(rows)
         /\ \A i \in 1..Len(sorted) : \E k \in 1..Len(rows) : sorted[i] = rows[k]
         /\ StrictWeakOrder(order, rows) =>
              \A i, j \in 1..Len(sorted) : i < j => ~Before(order, sorted[j], sorted[i])
<1> DEFINE n == Len(rows)
<1>1. PICK p \in [1..n -> 1..n] :
        /\ sorted = [i \in 1..n |-> rows[p[i]]]
        /\ StrictWeakOrder(order, rows) =>
             \A i, j \in 1..n : i < j => ~Before(order, rows[p[j]], rows[p[i]])
  <2> HIDE DEF StrictWeakOrder, Before
  <2> QED BY DEF Sorted
<1>2. n \in Nat
  BY DEF IsList
<1>3. sorted = [i \in 1..n |-> sorted[i]] /\ \A i \in 1..n : sorted[i] = rows[p[i]] /\ p[i] \in 1..n
  BY <1>1
<1>4. IsList(sorted) /\ Len(sorted) = n
  BY <1>2, <1>3, ListOf
<1>5. ASSUME StrictWeakOrder(order, rows), NEW i \in 1..n, NEW j \in 1..n, i < j
      PROVE  ~Before(order, sorted[j], sorted[i])
  BY <1>1, <1>3, <1>5
<1> QED BY <1>3, <1>4, <1>5

(* SelectFrom refuses or does that. *)
LEMMA SelectStep ==
  ASSUME Stored, NEW s \in SelectStmts, Exists(s.table_name), SelectFrom(s.table_name, s)
  PROVE  \/ Refuse
         \/ \E rows, sorted, picked : /\ Arranged(s.order_by, tables_[s.table_name].rows, rows, sorted)
                                      /\ Shown(s, picked, sorted, result')
<1> DEFINE t == s.table_name
           columns == tables_[t].columns
           table == tables_[t].rows
           picked == SelectColumns(s, columns)
           hits == {i \in 1..Len(table) : Matches(s.where, table[i]) = "true"}
           n == Cardinality(hits)
           comparable(row) == \A k \in 1..Len(s.order_by) :
                                s.order_by[k].column \in Names(columns) \cap DOMAIN row
           refuses == \/ ~(picked \subseteq Names(columns))
                      \/ \E i \in 1..Len(table) : Matches(s.where, table[i]) = "throw"
                      \/ n >= 2 /\ \E i \in hits : ~comparable(table[i])
           listed(keep) == [i \in 1..n |-> table[keep[i]]]
<1>1. IsList(table) /\ Len(table) \in Nat
  BY DEF Stored, IsList, Exists
<1>2. \/ Refuse
      \/ /\ ~refuses
         /\ \E keep \in Ascending(hits) :
              IF s.order_by = <<>> \/ n < 2 THEN Shown(s, picked, listed(keep), result')
              ELSE \E sorted \in Sorted(s.order_by[1], listed(keep)) : Shown(s, picked, sorted, result')
  BY DEF SelectFrom, Shown, Answer
<1> SUFFICES ASSUME ~Refuse
             PROVE  \E rows, sorted, columns_ : /\ Arranged(s.order_by, table, rows, sorted)
                                               /\ Shown(s, columns_, sorted, result')
  BY <1>1
<1>3. PICK keep \in Ascending(hits) :
        IF s.order_by = <<>> \/ n < 2 THEN Shown(s, picked, listed(keep), result')
        ELSE \E sorted \in Sorted(s.order_by[1], listed(keep)) : Shown(s, picked, sorted, result')
  BY <1>2
<1>4. n >= 2 => \A i \in hits : comparable(table[i])
  BY <1>2
<1>5. n \in Nat
  <2>1. IsFiniteSet(1..Len(table)) /\ hits \subseteq 1..Len(table)
    BY <1>1, FS_Interval
  <2> HIDE DEF hits
  <2> QED BY <2>1, FS_Subset, FS_CardinalityType
<1>6. \A i \in 1..n : keep[i] \in hits /\ keep[i] \in 1..Len(table)
  BY DEF Ascending
<1> DEFINE rows == listed(keep)
<1>7. /\ rows = [i \in 1..n |-> rows[i]]
      /\ \A i \in 1..n : rows[i] = table[keep[i]]
  OBVIOUS
<1>8. 1 \in 1..Len(s.order_by) \/ s.order_by = <<>>
  <2>1. s.order_by \in Seq([column : STRING, desc : BOOLEAN])
    BY StatementsAssumption
  <2> QED BY <2>1
<1>9. n >= 2 /\ s.order_by # <<>> => \A i \in 1..n : s.order_by[1].column \in DOMAIN rows[i]
  <2> HIDE DEF rows, hits
  <2> QED BY <1>4, <1>6, <1>7, <1>8
<1> HIDE DEF rows, hits, n, table, picked, comparable
<1>10. IsList(rows) /\ Len(rows) = n
  BY <1>5, <1>7, ListOf
<1>11. \A i \in 1..Len(rows) : \E k \in 1..Len(table) : rows[i] = table[k]
  BY <1>6, <1>7, <1>10
<1>12. CASE s.order_by = <<>> \/ n < 2
  <2>1. ~(s.order_by # <<>> /\ Len(rows) >= 2)
    BY <1>5, <1>10, <1>12
  <2>2. Arranged(s.order_by, table, rows, rows)
    BY <1>10, <1>11, <2>1 DEF Arranged
  <2>3. Shown(s, picked, rows, result')
    BY <1>3, <1>12 DEF rows
  <2> QED BY <2>2, <2>3
<1>13. CASE ~(s.order_by = <<>> \/ n < 2)
  <2>1. PICK sorted \in Sorted(s.order_by[1], rows) : Shown(s, picked, sorted, result')
    BY <1>3, <1>13 DEF rows
  <2>2. /\ IsList(sorted) /\ Len(sorted) = Len(rows)
        /\ \A i \in 1..Len(sorted) : \E k \in 1..Len(rows) : sorted[i] = rows[k]
        /\ StrictWeakOrder(s.order_by[1], rows) =>
             \A i, j \in 1..Len(sorted) : i < j => ~Before(s.order_by[1], sorted[j], sorted[i])
    BY <1>10, SortedRows
  <2>3. Arranged(s.order_by, table, rows, sorted)
    BY <1>9, <1>10, <1>11, <2>2 DEF Arranged
  <2> QED BY <2>1, <2>3
<1> QED BY <1>12, <1>13

-----------------------------------------------------------------------------
(* A result as its callers may read it. *)
ResultOK == result.success \in BOOLEAN /\ result.rows_affected \in Nat

(* execute answers with a row count, or refuses with none. *)
LEMMA AnswerOK ==
  ASSUME NEW n \in Nat, NEW shown, Answer(n, shown) PROVE ResultOK'
  BY DEF Answer, ResultOK

(* A refusal is a result as well. *)
LEMMA RefuseOK == ASSUME Refuse PROVE ResultOK'
  BY DEF Refuse, ResultOK

(* Every step leaves a result: no row count is negative. *)
LEMMA NextResult == Stored /\ ResultOK /\ [Next]_vars => ResultOK'
<1> SUFFICES ASSUME Stored, ResultOK, [Next]_vars PROVE ResultOK'
  OBVIOUS
<1>1. ASSUME NEW t \in Tables \cup {""}, NEW columns \in Schemas, execute_create_table(t, columns)
      PROVE  ResultOK'
  <2>1. Refuse \/ Answer(0, <<>>)
    BY <1>1 DEF execute_create_table
  <2> QED BY <2>1, AnswerOK, RefuseOK
<1>2. ASSUME NEW t \in Tables, drop_table(t) PROVE ResultOK'
  BY <1>2 DEF drop_table, ResultOK
<1>3. ASSUME NEW s \in InsertStmts, execute_insert(s) PROVE ResultOK'
  <2>1. Refuse \/ \E n \in 0..Len(s.values) : Answer(n, <<>>)
    BY <1>3 DEF execute_insert, InsertInto
  <2>2. \A n \in 0..Len(s.values) : n \in Nat
    OBVIOUS
  <2> QED BY <2>1, <2>2, AnswerOK, RefuseOK
<1>4. ASSUME NEW s \in UpdateStmts, execute_update(s) PROVE ResultOK'
  <2> DEFINE rows == tables_[s.table_name].rows
             hits == {i \in 1..Len(rows) : Matches(s.where, rows[i]) = "true"}
  <2>1. Refuse \/ (Exists(s.table_name) /\ Answer(Cardinality(hits), <<>>))
    BY <1>4 DEF execute_update, UpdateRows
  <2>2. ASSUME Exists(s.table_name) PROVE Cardinality(hits) \in Nat
    <3>0. Len(rows) \in Nat
      BY <2>2 DEF Stored, IsList, Exists
    <3>1. IsFiniteSet(1..Len(rows)) /\ hits \subseteq 1..Len(rows)
      BY <3>0, FS_Interval
    <3> HIDE DEF hits
    <3> QED BY <3>1, FS_Subset, FS_CardinalityType
  <2> HIDE DEF hits
  <2> QED BY <2>1, <2>2, AnswerOK, RefuseOK
<1>5. ASSUME NEW s \in DeleteStmts, execute_delete(s) PROVE ResultOK'
  <2> DEFINE rows == tables_[s.table_name].rows
             spared(at) == {i \in 1..(at - 1) : Matches(s.where, rows[i]) # "true"}
  <2>1. \/ Refuse
        \/ /\ Exists(s.table_name)
           /\ \E at \in 1..(Len(rows) + 1) : Answer(Len(rows) - Cardinality(spared(at)), <<>>)
    BY <1>5 DEF execute_delete, DeleteRows
  <2>2. ASSUME Exists(s.table_name), NEW at \in 1..(Len(rows) + 1)
        PROVE  Len(rows) - Cardinality(spared(at)) \in Nat
    <3>1. Len(rows) \in Nat
      BY <2>2 DEF Stored, IsList, Exists
    <3> DEFINE m == at - 1
               S == spared(at)
    <3>2. m \in Nat /\ m <= Len(rows) /\ S \subseteq 1..m
      BY <3>1
    <3> HIDE DEF m, S
    <3>3. IsFiniteSet(1..m) /\ Cardinality(1..m) = m
      BY <3>2, FS_Interval
    <3>4. Cardinality(S) \in Nat /\ Cardinality(S) <= m
      BY <3>2, <3>3, FS_Subset, FS_CardinalityType
    <3> DEFINE c == Cardinality(S)
               l == Len(rows)
    <3>45. c \in Nat /\ c <= m /\ l \in Nat /\ m \in Nat /\ m <= l
      BY <3>1, <3>2, <3>4
    <3> HIDE DEF c, l
    <3>5. l - c \in Nat
      BY <3>45
    <3> QED BY <3>5 DEF S, c, l
  <2> HIDE DEF spared
  <2> QED BY <2>1, <2>2, AnswerOK, RefuseOK
<1>6. ASSUME NEW s \in SelectStmts, execute_select(s) PROVE ResultOK'
  <2>1. CASE Exists(s.table_name)
    <3>1. SelectFrom(s.table_name, s)
      BY <1>6, <2>1 DEF execute_select
    <3>2. \/ Refuse
          \/ \E rows, sorted, picked : /\ Arranged(s.order_by, tables_[s.table_name].rows, rows, sorted)
                                       /\ Shown(s, picked, sorted, result')
      BY <2>1, <3>1, SelectStep
    <3>3. ASSUME NEW rows, NEW sorted, NEW picked,
                 Arranged(s.order_by, tables_[s.table_name].rows, rows, sorted),
                 Shown(s, picked, sorted, result')
          PROVE  ResultOK'
      <4> DEFINE page == Page(sorted, s.limit, s.offset)
      <4>1. IsList(sorted) /\ s.limit \in Int /\ s.offset \in Nat
        BY <3>3, StatementsAssumption DEF Arranged
      <4>2. PICK b \in 0..Len(sorted) : IsPart(page, sorted, s.offset, b)
        BY <4>1, PageIn
      <4>3. Len(page) \in Nat
        BY <4>2 DEF IsPart, IsList
      <4>4. result'.success = TRUE /\ result'.rows_affected = Len(page)
        BY <3>3 DEF Shown
      <4> QED BY <4>3, <4>4 DEF ResultOK
    <3> QED BY <3>2, <3>3, RefuseOK
  <2>2. CASE ~Exists(s.table_name)
    BY <1>6, <2>2, RefuseOK DEF execute_select
  <2> QED BY <2>1, <2>2
<1>7. CASE UNCHANGED vars
  BY <1>7 DEF vars, ResultOK
<1> QED BY <1>1, <1>2, <1>3, <1>4, <1>5, <1>6, <1>7 DEF Next

-----------------------------------------------------------------------------
(* The rows of every table hold values, under a declared schema. *)
RowsOK == \A t \in DOMAIN tables_ :
            /\ tables_[t].columns \in Schemas
            /\ \A i \in 1..Len(tables_[t].rows) : RowOK(tables_[t].rows[i])

(* No row is no wrong row. *)
LEMMA EmptyRowsOK == ASSUME NEW rows, Len(rows) = 0 PROVE \A i \in 1..Len(rows) : RowOK(rows[i])
  OBVIOUS

(* A statement on one table keeps that if its new rows hold values. *)
LEMMA KeepsRowsOK ==
  ASSUME Stored, RowsOK, NEW t \in DOMAIN tables_, NEW now, IsList(now), Store(t, now),
         NEW kind \in {"insert", "update", "delete"}, UNCHANGED refused \/ Refusing(t, kind),
         \A i \in 1..Len(now) : RowOK(now[i])
  PROVE  RowsOK'
<1>1. /\ DOMAIN tables_' = DOMAIN tables_
      /\ tables_'[t].rows = now /\ tables_'[t].columns = tables_[t].columns
      /\ \A u \in DOMAIN tables_ : u # t => tables_'[u] = tables_[u]
  BY StoreStep
<1>2. ASSUME NEW u \in DOMAIN tables_
      PROVE  /\ tables_'[u].columns \in Schemas
             /\ \A i \in 1..Len(tables_'[u].rows) : RowOK(tables_'[u].rows[i])
  <2>1. CASE u = t
    BY <1>1, <2>1 DEF RowsOK
  <2>2. CASE u # t
    BY <1>1, <2>2 DEF RowsOK
  <2> QED BY <2>1, <2>2
<1> QED BY <1>1, <1>2 DEF RowsOK, RowOK

(* The rows an INSERT leaves. *)
LEMMA InsertRowsOK ==
  ASSUME NEW s \in InsertStmts, NEW columns \in Schemas, NEW rows, IsList(rows), NEW n \in Nat, NEW new,
         Accepted(s, columns, rows, new, n), \A i \in 1..Len(rows) : RowOK(rows[i])
  PROVE  LET now == rows \o [i \in 1..n |-> new[i]] IN \A i \in 1..Len(now) : RowOK(now[i])
<1> DEFINE f == [i \in 1..n |-> new[i]]
<1>1. f = [i \in 1..n |-> f[i]] /\ \A i \in 1..n : f[i] = new[i]
  OBVIOUS
<1> HIDE DEF f
<1>2. IsList(f) /\ Len(f) = n
  BY <1>1, ListOf
<1>3. /\ Len(rows \o f) = Len(rows) + n /\ Len(rows) \in Nat
      /\ \A i \in 1..Len(rows) : (rows \o f)[i] = rows[i]
      /\ \A i \in 1..n : (rows \o f)[Len(rows) + i] = f[i]
  BY <1>2, ConcatLists DEF IsList
<1>4. ASSUME NEW i \in 1..n PROVE RowOK(new[i])
  <2>1. PICK values : Buildable(s, columns, values) /\ new[i] = NewRow(s, columns, values)
    BY DEF Accepted
  <2> QED BY <2>1, NewRowOK
<1>5. ASSUME NEW p \in 1..(Len(rows) + n) PROVE RowOK((rows \o f)[p])
  <2>1. CASE p \in 1..Len(rows)
    BY <1>3, <2>1
  <2>2. CASE p \notin 1..Len(rows)
    <3>1. p - Len(rows) \in 1..n /\ p = Len(rows) + (p - Len(rows))
      BY <1>3, <2>2
    <3>2. (rows \o f)[p] = new[p - Len(rows)]
      BY <1>1, <1>3, <3>1
    <3> QED BY <1>4, <3>1, <3>2
  <2> QED BY <2>1, <2>2
<1> QED BY <1>3, <1>5 DEF f

(* Every step keeps the rows proper, also one that ends in an exception. *)
LEMMA NextRowsOK ==
  ASSUME EvalTyped, Stored, RowsOK, [Next]_vars PROVE RowsOK'
<1>1. ASSUME UNCHANGED tables_ PROVE RowsOK'
  BY <1>1 DEF RowsOK, RowOK
<1>2. ASSUME NEW t \in Tables \cup {""}, NEW columns \in Schemas, execute_create_table(t, columns)
      PROVE  RowsOK'
  <2>1. CASE ~UNCHANGED <<tables_, refused>>
    <3>1. /\ DOMAIN tables_' = DOMAIN tables_ \cup {t}
          /\ tables_'[t].columns = columns /\ tables_'[t].rows = <<>>
          /\ \A u \in DOMAIN tables_ : tables_'[u] = tables_[u]
      BY <1>2, <2>1, CreateStep
    <3>2. Len(tables_'[t].rows) = 0
      BY <3>1, EmptyList, Zenon
    <3>3. ASSUME NEW u \in DOMAIN tables_'
          PROVE  /\ tables_'[u].columns \in Schemas
                 /\ \A i \in 1..Len(tables_'[u].rows) : RowOK(tables_'[u].rows[i])
      <4>1. CASE u = t
        <5>1. tables_'[u].columns \in Schemas /\ Len(tables_'[u].rows) = 0
          BY <3>1, <3>2, <4>1, Zenon
        <5> QED BY <5>1, EmptyRowsOK, Zenon
      <4>2. CASE u \in DOMAIN tables_
        BY <3>1, <4>2 DEF RowsOK
      <4> QED BY <3>1, <4>1, <4>2
    <3> QED BY <3>3 DEF RowsOK, RowOK
  <2> QED BY <1>1, <2>1
<1>3. ASSUME NEW t \in Tables, drop_table(t) PROVE RowsOK'
  <2>1. /\ DOMAIN tables_' \subseteq DOMAIN tables_
        /\ \A u \in DOMAIN tables_' : tables_'[u] = tables_[u]
    BY <1>3, DropStep
  <2> QED BY <2>1 DEF RowsOK, RowOK
<1>4. ASSUME NEW s \in InsertStmts, execute_insert(s) PROVE RowsOK'
  <2>1. CASE Exists(s.table_name)
    <3> DEFINE t == s.table_name
               columns == tables_[t].columns
               rows == tables_[t].rows
    <3>1. InsertInto(t, s) /\ t \in DOMAIN tables_
      BY <1>4, <2>1 DEF execute_insert, Exists
    <3>2. PICK new : \E n \in Nat :
            LET now == rows \o [i \in 1..n |-> new[i]] IN
            /\ IsList(now) /\ Store(t, now)
            /\ UNCHANGED refused \/ Refusing(t, "insert")
            /\ Accepted(s, columns, rows, new, n)
      BY <2>1, <3>1, InsertStep
    <3>3. PICK n \in Nat :
            LET now == rows \o [i \in 1..n |-> new[i]] IN
            /\ IsList(now) /\ Store(t, now)
            /\ UNCHANGED refused \/ Refusing(t, "insert")
            /\ Accepted(s, columns, rows, new, n)
      BY <3>2
    <3> DEFINE now == rows \o [i \in 1..n |-> new[i]]
    <3>4. IsList(rows) /\ columns \in Schemas /\ \A i \in 1..Len(rows) : RowOK(rows[i])
      BY <3>1 DEF Stored, RowsOK
    <3>5. \A i \in 1..Len(now) : RowOK(now[i])
      BY <3>3, <3>4, InsertRowsOK
    <3>6. IsList(now) /\ Store(t, now) /\ (UNCHANGED refused \/ Refusing(t, "insert"))
      BY <3>3
    <3> HIDE DEF now, t
    <3> QED BY <3>1, <3>5, <3>6, KeepsRowsOK
  <2> QED BY <1>1, <1>4, <2>1 DEF execute_insert
<1>5. ASSUME NEW s \in UpdateStmts, execute_update(s) PROVE RowsOK'
  <2>1. CASE Exists(s.table_name)
    <3> DEFINE t == s.table_name
               columns == tables_[t].columns
               rows == tables_[t].rows
    <3>1. UpdateRows(t, s) /\ t \in DOMAIN tables_
      BY <1>5, <2>1 DEF execute_update, Exists
    <3>2. PICK now :
            /\ IsList(now) /\ Len(now) = Len(rows) /\ Store(t, now)
            /\ UNCHANGED refused \/ Refusing(t, "update")
            /\ \A i \in 1..Len(rows) : now[i] = rows[i] \/ now[i] = Assigned(s, columns, rows[i]).row
      BY <2>1, <3>1, UpdateStep
    <3>3. columns \in Schemas /\ \A i \in 1..Len(rows) : RowOK(rows[i])
      BY <3>1 DEF RowsOK
    <3> HIDE DEF t, columns, rows
    <3>4. ASSUME NEW i \in 1..Len(now) PROVE RowOK(now[i])
      <4>1. RowOK(rows[i]) /\ (now[i] = rows[i] \/ now[i] = Assigned(s, columns, rows[i]).row)
        BY <3>2, <3>3
      <4>2. RowOK(Assigned(s, columns, rows[i]).row)
        BY <3>3, <4>1, AssignedOK
      <4> QED BY <4>1, <4>2
    <3> QED BY <3>1, <3>2, <3>4, KeepsRowsOK
  <2> QED BY <1>1, <1>5, <2>1 DEF execute_update
<1>6. ASSUME NEW s \in DeleteStmts, execute_delete(s) PROVE RowsOK'
  <2>1. CASE Exists(s.table_name)
    <3> DEFINE t == s.table_name
               rows == tables_[t].rows
    <3>1. DeleteRows(t, s) /\ t \in DOMAIN tables_
      BY <1>6, <2>1 DEF execute_delete, Exists
    <3>2. PICK now, src : Deleted(s, t, rows, now, src)
      BY <2>1, <3>1, DeleteStep
    <3>3. /\ IsList(now) /\ Store(t, now) /\ Moved(rows, now, src)
          /\ UNCHANGED refused \/ Refusing(t, "delete")
      BY <3>2 DEF Deleted
    <3>4. RowOK(EmptyRow)
      BY DEF RowOK, EmptyRow
    <3>5. \A i \in 1..Len(rows) : RowOK(rows[i])
      BY <3>1 DEF RowsOK
    <3> HIDE DEF t, rows
    <3>6. \A i \in 1..Len(now) : RowOK(now[i])
      BY <3>3, <3>4, <3>5 DEF Moved
    <3> QED BY <3>1, <3>3, <3>6, KeepsRowsOK
  <2> QED BY <1>1, <1>6, <2>1 DEF execute_delete
<1>7. ASSUME NEW s \in SelectStmts, execute_select(s) PROVE RowsOK'
  BY <1>1, <1>7 DEF execute_select
<1>8. CASE UNCHANGED vars
  BY <1>1, <1>8 DEF vars
<1> QED BY <1>2, <1>3, <1>4, <1>5, <1>6, <1>7, <1>8 DEF Next

(* TypeOK: if the expressions throw or give values, every row of every     *)
(* table holds values under known columns, whatever statement stopped      *)
(* half-way.                                                               *)
THEOREM TypeCorrect == EvalTyped => (Spec => []TypeOK)
<1> SUFFICES ASSUME EvalTyped PROVE Spec => []TypeOK
  OBVIOUS
<1>1. Init => RowsOK /\ ResultOK
  BY DEF Init, RowsOK, ResultOK
<1>2. RowsOK /\ Inv /\ [Next]_vars => RowsOK'
  BY NextRowsOK DEF Inv
<1>3. ResultOK /\ Inv /\ [Next]_vars => ResultOK'
  BY NextResult DEF Inv
<1>4. RowsOK /\ ResultOK /\ Inv => TypeOK
  BY DEF RowsOK, ResultOK, Inv, Stored, TypeOK
<1> QED BY InitInv, NextInv, <1>1, <1>2, <1>3, <1>4, PTL DEF Spec

-----------------------------------------------------------------------------
(* Fractions with positive denominators: x/u, y/v and z/w. *)
LEMMA FractionsLess ==
  ASSUME NEW x \in Int, NEW y \in Int, NEW z \in Int,
         NEW u \in Nat \ {0}, NEW v \in Nat \ {0}, NEW w \in Nat \ {0},
         x * v < y * u, y * w < z * v
  PROVE  x * w < z * u
<1> DEFINE a == x * v  b == y * u  c == y * w  d == z * v
           e == x * w  f == z * u
<1>1. a \in Int /\ b \in Int /\ c \in Int /\ d \in Int /\ e \in Int /\ f \in Int
  BY SMT
<1>2. a * w = e * v /\ b * w = c * u /\ d * u = f * v
  BY SMT
<1>3. u > 0 /\ v > 0 /\ w > 0 /\ a < b /\ c < d
  OBVIOUS
<1> HIDE DEF a, b, c, d, e, f
<1>4. ASSUME NEW k \in Int, k > 0, NEW p \in Int, NEW q \in Int, p < q PROVE p * k < q * k
  BY <1>4, SMT
<1>5. ASSUME NEW k \in Int, k > 0, NEW p \in Int, NEW q \in Int, p * k < q * k PROVE p < q
  BY <1>5, SMT
<1>6. a * w < b * w /\ c * u < d * u
  BY <1>1, <1>3, <1>4
<1>7. e * v < f * v
  <2> DEFINE g == c * u  h == e * v  l == f * v
  <2>1. g \in Int /\ h \in Int /\ l \in Int
    BY <1>1, SMT
  <2>2. h < g /\ g < l
    BY <1>2, <1>6
  <2> HIDE DEF g, h, l
  <2>3. h < l
    BY <2>1, <2>2
  <2> QED BY <2>3 DEF h, l
<1>8. e < f
  BY <1>1, <1>3, <1>5, <1>7
<1> QED BY <1>8 DEF e, f

(* The same for not less than. *)
LEMMA FractionsNotLess ==
  ASSUME NEW x \in Int, NEW y \in Int, NEW z \in Int,
         NEW u \in Nat \ {0}, NEW v \in Nat \ {0}, NEW w \in Nat \ {0},
         ~(x * v < y * u), ~(y * w < z * v)
  PROVE  ~(x * w < z * u)
<1> DEFINE a == x * v  b == y * u  c == y * w  d == z * v
           e == x * w  f == z * u
<1>1. a \in Int /\ b \in Int /\ c \in Int /\ d \in Int /\ e \in Int /\ f \in Int
  BY SMT
<1>2. a * w = e * v /\ b * w = c * u /\ d * u = f * v
  BY SMT
<1>3. u > 0 /\ v > 0 /\ w > 0 /\ ~(a < b) /\ ~(c < d)
  OBVIOUS
<1> HIDE DEF a, b, c, d, e, f
<1>4. ASSUME NEW k \in Int, k > 0, NEW p \in Int, NEW q \in Int, ~(p < q) PROVE ~(p * k < q * k)
  BY <1>4, SMT
<1>5. ASSUME NEW k \in Int, k > 0, NEW p \in Int, NEW q \in Int, ~(p * k < q * k) PROVE ~(p < q)
  BY <1>5, SMT
<1>6. ~(a * w < b * w) /\ ~(c * u < d * u)
  BY <1>1, <1>3, <1>4
<1>7. ~(e * v < f * v)
  <2> DEFINE g == c * u  h == e * v  l == f * v
  <2>1. g \in Int /\ h \in Int /\ l \in Int
    BY <1>1, SMT
  <2>2. ~(h < g) /\ ~(g < l)
    BY <1>2, <1>6
  <2> HIDE DEF g, h, l
  <2>3. ~(h < l)
    BY <2>1, <2>2
  <2> QED BY <2>3 DEF h, l
<1>8. ~(e < f)
  BY <1>1, <1>3, <1>5, <1>7
<1> QED BY <1>8 DEF e, f

(* Values of one type are ordered. *)
LEMMA BelowOrders ==
  ASSUME NEW v, NEW w, NEW x, IsValue(v), IsValue(w), IsValue(x), v.type = w.type, w.type = x.type
  PROVE  /\ ~Below(v, v)
         /\ Below(v, w) /\ Below(w, x) => Below(v, x)
         /\ ~Below(v, w) /\ ~Below(w, x) => ~Below(v, x)
<1> DEFINE rank(y) == SelectInSeq(Collation, LAMBDA s : s = y.text)
<1>1. ASSUME NEW y PROVE rank(y) \in Nat
  <2> DEFINE S == {i \in 1..Len(Collation) : Collation[i] = y.text}
  <2>1. S \subseteq 1..Len(Collation) /\ Len(Collation) \in Nat
    BY ValueAssumption
  <2>2. rank(y) = IF S # {} THEN Min(S) ELSE 0
    BY DEF SelectInSeq
  <2> HIDE DEF S, rank
  <2>3. S # {} => Min(S) \in 1..Len(Collation)
    BY <2>1, MinOf
  <2>4. \A k \in 1..Len(Collation) : k \in Nat
    BY <2>1
  <2>5. CASE S # {}
    BY <2>2, <2>3, <2>4, <2>5
  <2>6. CASE S = {}
    BY <2>2, <2>6
  <2> QED BY <2>5, <2>6
<1>2. \A y, z : Below(y, z) <=> /\ y.type = z.type
                              /\ \/ Numeric(y) /\ Less(y.num, z.num)
                                 \/ y.type = "STRING_VAL" /\ rank(y) < rank(z)
  BY DEF Below
<1>3. \A y \in {v, w, x} : y.num \in Int \X (Nat \ {0}) /\ rank(y) \in Nat /\ y.type = v.type
  BY <1>1 DEF IsValue
<1>4. \A y, z \in {v, w, x} : Numeric(y) <=> Numeric(z)
  BY <1>3 DEF Numeric
<1>5. ~(Numeric(v) /\ v.type = "STRING_VAL")
  BY DEF Numeric
<1> HIDE DEF rank
<1>6. \A y \in {v, w, x} : y.num[1] \in Int /\ y.num[2] \in Nat \ {0}
  BY <1>3
<1>7. ~Less(v.num, v.num)
  <2> DEFINE a == v.num[1] * v.num[2]
  <2>1. a \in Int
    BY <1>6, SMT
  <2> HIDE DEF a
  <2>2. ~(a < a)
    BY <2>1
  <2> QED BY <2>2 DEF Less, a
<1> DEFINE v1 == v.num[1]  v2 == v.num[2]  w1 == w.num[1]  w2 == w.num[2]
           x1 == x.num[1]  x2 == x.num[2]
<1>75. /\ Less(v.num, w.num) <=> v1 * w2 < w1 * v2
       /\ Less(w.num, x.num) <=> w1 * x2 < x1 * w2
       /\ Less(v.num, x.num) <=> v1 * x2 < x1 * v2
  BY DEF Less
<1>76. /\ v1 \in Int /\ w1 \in Int /\ x1 \in Int
       /\ v2 \in Nat \ {0} /\ w2 \in Nat \ {0} /\ x2 \in Nat \ {0}
  BY <1>6
<1>8. Less(v.num, w.num) /\ Less(w.num, x.num) => Less(v.num, x.num)
  <2> HIDE DEF v1, v2, w1, w2, x1, x2
  <2> QED BY <1>75, <1>76, FractionsLess
<1>9. ~Less(v.num, w.num) /\ ~Less(w.num, x.num) => ~Less(v.num, x.num)
  <2> HIDE DEF v1, v2, w1, w2, x1, x2
  <2>1. ~(v1 * w2 < w1 * v2) /\ ~(w1 * x2 < x1 * w2) => ~(v1 * x2 < x1 * v2)
    BY <1>76, FractionsNotLess, Zenon
  <2> QED BY <1>75, <2>1, Zenon
<1>10. CASE Numeric(v)
  <2>1. \A y, z \in {v, w, x} : Below(y, z) <=> Less(y.num, z.num)
    BY <1>2, <1>3, <1>4, <1>5, <1>10
  <2> QED BY <1>7, <1>8, <1>9, <2>1
<1>11. CASE v.type = "STRING_VAL"
  <2>1. \A y, z \in {v, w, x} : Below(y, z) <=> rank(y) < rank(z)
    BY <1>2, <1>3, <1>4, <1>5, <1>11
  <2>2. \A a, b, c \in Nat : /\ ~(a < a) /\ (a < b /\ b < c => a < c)
                             /\ ~(a < b) /\ ~(b < c) => ~(a < c)
    OBVIOUS
  <2>3. rank(v) \in Nat /\ rank(w) \in Nat /\ rank(x) \in Nat
    BY <1>3
  <2> QED BY <2>1, <2>2, <2>3
<1>12. CASE ~Numeric(v) /\ v.type # "STRING_VAL"
  <2>1. \A y, z \in {v, w, x} : ~Below(y, z)
    BY <1>2, <1>3, <1>4, <1>12
  <2> QED BY <2>1
<1> QED BY <1>10, <1>11, <1>12

(* An element of an ORDER BY clause. *)
Directed(order) == order.desc \in BOOLEAN

(* A NULL, or a value of one type. *)
Uniform(v, type) == IsValue(v) /\ (is_null(v) \/ v.type = type)

(* The comparison of execute_select is then a strict weak order. *)
LEMMA BeforeOrders ==
  ASSUME NEW order, Directed(order), NEW rows, NEW type,
         \A i \in 1..Len(rows) : Uniform(rows[i][order.column], type)
  PROVE  StrictWeakOrder(order, rows)
<1> DEFINE val(i) == rows[i][order.column]
           lt(i, j) == Before(order, rows[i], rows[j])
<1>1. \A i, j \in 1..Len(rows) :
        lt(i, j) <=> IF is_null(val(i)) /\ is_null(val(j)) THEN FALSE
                     ELSE IF is_null(val(i)) THEN ~order.desc
                     ELSE IF is_null(val(j)) THEN order.desc
                     ELSE IF order.desc THEN Below(val(j), val(i)) ELSE Below(val(i), val(j))
  BY DEF Before
<1>2. \A i, j, k \in 1..Len(rows) : ~is_null(val(i)) /\ ~is_null(val(j)) /\ ~is_null(val(k)) =>
        /\ ~Below(val(i), val(i))
        /\ Below(val(i), val(j)) /\ Below(val(j), val(k)) => Below(val(i), val(k))
        /\ ~Below(val(i), val(j)) /\ ~Below(val(j), val(k)) => ~Below(val(i), val(k))
  <2> SUFFICES ASSUME NEW i \in 1..Len(rows), NEW j \in 1..Len(rows), NEW k \in 1..Len(rows),
                      ~is_null(val(i)), ~is_null(val(j)), ~is_null(val(k))
               PROVE  /\ ~Below(val(i), val(i))
                      /\ Below(val(i), val(j)) /\ Below(val(j), val(k)) => Below(val(i), val(k))
                      /\ ~Below(val(i), val(j)) /\ ~Below(val(j), val(k)) => ~Below(val(i), val(k))
    OBVIOUS
  <2>1. /\ IsValue(val(i)) /\ IsValue(val(j)) /\ IsValue(val(k))
        /\ val(i).type = val(j).type /\ val(j).type = val(k).type
    BY DEF Uniform
  <2> HIDE DEF val
  <2> QED BY <2>1, BelowOrders
<1> HIDE DEF val
<1>3. ASSUME NEW i \in 1..Len(rows), NEW j \in 1..Len(rows), NEW k \in 1..Len(rows)
      PROVE  /\ ~lt(i, i)
             /\ lt(i, j) /\ lt(j, k) => lt(i, k)
             /\ ~lt(i, j) /\ ~lt(j, i) /\ ~lt(j, k) /\ ~lt(k, j) => ~lt(i, k)
  <2> HIDE DEF lt
  <2>1. CASE order.desc
    <3>1. \A a, b \in 1..Len(rows) :
            lt(a, b) <=> /\ ~is_null(val(a))
                         /\ is_null(val(b)) \/ Below(val(b), val(a))
      BY <1>1, <2>1
    <3> QED BY <1>2, <3>1
  <2>2. CASE ~order.desc
    <3>1. \A a, b \in 1..Len(rows) :
            lt(a, b) <=> /\ ~is_null(val(b))
                         /\ is_null(val(a)) \/ Below(val(a), val(b))
      BY <1>1, <2>2
    <3> QED BY <1>2, <3>1
  <2> QED BY <2>1, <2>2
<1> QED BY <1>3 DEF StrictWeakOrder

(* Two rows, the way OrderedResult wants them. *)
InPlace(order, a, b) ==
  LET v == a[order.column]
      w == b[order.column]
  IN  IF order.desc THEN NotAfter(w, v) ELSE NotAfter(v, w)

(* They are, unless the comparison says the opposite. *)
LEMMA InOrder ==
  ASSUME NEW order, Directed(order), NEW a, NEW b, ~Before(order, b, a)
  PROVE  InPlace(order, a, b)
<1> DEFINE v == a[order.column]
           w == b[order.column]
<1>1. ~(IF is_null(w) /\ is_null(v) THEN FALSE
        ELSE IF is_null(w) THEN ~order.desc
        ELSE IF is_null(v) THEN order.desc
        ELSE IF order.desc THEN Below(v, w) ELSE Below(w, v))
  BY DEF Before
<1> HIDE DEF v, w
<1>2. IF order.desc THEN NotAfter(w, v) ELSE NotAfter(v, w)
  BY <1>1 DEF NotAfter
<1> QED BY <1>2 DEF v, w, InPlace

(* OrderedResult: a SELECT that orders by a column of NULLs and values of  *)
(* one type gives std::sort a strict weak order and answers in that order, *)
(* for any statements and any collation, if the expressions throw or give  *)
(* values.                                                                 *)
THEOREM SelectOrders == EvalTyped => (Spec => OrderedResult)
<1> SUFFICES ASSUME EvalTyped PROVE Spec => OrderedResult
  OBVIOUS
<1> DEFINE Ordered(s) ==
       /\ s.order_by # <<>> /\ result'.success /\ Exists(s.table_name)
       /\ \E type \in ValueTypes : \A i \in 1..Len(tables_[s.table_name].rows) :
            LET row == tables_[s.table_name].rows[i]
            IN  Has(row, s.order_by[1].column) => row[s.order_by[1].column].type = type
       /\ execute_select(s)
       => \A i, j \in 1..Len(result'.rows) :
            LET c == s.order_by[1].column
                v == result'.rows[i]
                w == result'.rows[j]
            IN  i < j /\ c \in DOMAIN v /\ c \in DOMAIN w =>
                  IF s.order_by[1].desc THEN NotAfter(w[c], v[c]) ELSE NotAfter(v[c], w[c])
<1>1. ASSUME Inv, RowsOK, NEW s \in SelectStmts PROVE Ordered(s)
  <2> DEFINE t == s.table_name
             table == tables_[t].rows
             order == s.order_by[1]
             c == order.column
             r == result'.rows
  <2> SUFFICES ASSUME s.order_by # <<>>, result'.success, Exists(t), NEW type \in ValueTypes,
                      \A i \in 1..Len(table) : Has(table[i], c) => table[i][c].type = type,
                      execute_select(s),
                      NEW i \in 1..Len(r), NEW j \in 1..Len(r), i < j, c \in DOMAIN r[i], c \in DOMAIN r[j]
               PROVE  IF order.desc THEN NotAfter(r[j][c], r[i][c]) ELSE NotAfter(r[i][c], r[j][c])
    OBVIOUS
  <2>1. Stored /\ SelectFrom(t, s) /\ t \in DOMAIN tables_
    BY <1>1 DEF execute_select, Exists, Inv
  <2>2. ~Refuse
    BY DEF Refuse
  <2>3. PICK rows, sorted, picked : Arranged(s.order_by, table, rows, sorted) /\ Shown(s, picked, sorted, result')
    BY <2>1, <2>2, SelectStep
  <2>4. /\ s.limit \in Int /\ s.offset \in Nat /\ Directed(order)
    <3>1. s.limit \in Int /\ s.offset \in Nat /\ s.order_by \in Seq([column : STRING, desc : BOOLEAN])
      BY StatementsAssumption
    <3>2. 1 \in 1..Len(s.order_by)
      BY <3>1
    <3> DEFINE Orders == [column : STRING, desc : BOOLEAN]
    <3>3. \A o \in Orders : Directed(o)
      BY DEF Directed
    <3>35. s.order_by \in Seq(Orders)
      BY <3>1
    <3> HIDE DEF Orders
    <3>4. order \in Orders
      BY <3>2, <3>35
    <3> QED BY <3>1, <3>3, <3>4
  <2> DEFINE page == Page(sorted, s.limit, s.offset)
  <2>5. IsList(rows) /\ IsList(sorted) /\ Len(sorted) = Len(rows)
    BY <2>3 DEF Arranged
  <2>6. PICK b \in 0..Len(sorted) : IsPart(page, sorted, s.offset, b)
    BY <2>4, <2>5, PageIn
  <2>7. Len(page) \in Nat
    BY <2>6 DEF IsPart, IsList
  <2>8. r = [k \in 1..Len(page) |-> [x \in picked \cap DOMAIN page[k] |-> page[k][x]]]
    BY <2>3 DEF Shown
  <2>9. Len(r) = Len(page)
    <3> HIDE DEF page, r
    <3>1. r = [k \in 1..Len(page) |-> r[k]]
      BY <2>8
    <3> QED BY <2>7, <3>1, ListOf
  <2>10. r[i][c] = page[i][c] /\ r[j][c] = page[j][c]
    <3> HIDE DEF page, c
    <3>1. \A k \in 1..Len(page) : r[k] = [x \in picked \cap DOMAIN page[k] |-> page[k][x]]
      BY <2>8
    <3> HIDE DEF r
    <3> QED BY <2>9, <3>1
  <2> DEFINE x == s.offset + i
             y == s.offset + j
  <2>11. /\ page[i] = sorted[x] /\ page[j] = sorted[y]
         /\ x \in 1..Len(sorted) /\ y \in 1..Len(sorted) /\ x < y
    <3> HIDE DEF page, r
    <3>1. page[i] = sorted[x] /\ page[j] = sorted[y]
      BY <2>6, <2>9 DEF IsPart
    <3>2. Len(sorted) \in Nat /\ Len(page) = IF s.offset <= b THEN b - s.offset ELSE 0
      BY <2>5, <2>6 DEF IsPart, IsList
    <3> DEFINE n == Len(sorted)
               m == Len(page)
               o == s.offset
    <3>3. n \in Nat /\ m = (IF o <= b THEN b - o ELSE 0) /\ i \in 1..m /\ j \in 1..m /\ b \in 0..n /\ o \in Nat
      BY <2>4, <2>9, <3>2
    <3>4. x = o + i /\ y = o + j
      OBVIOUS
    <3> HIDE DEF n, m, o, x, y
    <3>5. x \in 1..n /\ y \in 1..n /\ x < y
      BY <3>3, <3>4
    <3> QED BY <3>1, <3>5 DEF n
  <2> HIDE DEF x, y
  <2>12. Len(rows) >= 2
    BY <2>5, <2>11 DEF IsList
  <2>13. /\ \A k \in 1..Len(rows) : c \in DOMAIN rows[k]
         /\ \A k \in 1..Len(rows) : \E l \in 1..Len(table) : rows[k] = table[l]
         /\ StrictWeakOrder(order, rows) =>
              \A k, l \in 1..Len(sorted) : k < l => ~Before(order, sorted[l], sorted[k])
    BY <2>3, <2>12 DEF Arranged
  <2>14. ASSUME NEW k \in 1..Len(rows) PROVE Uniform(rows[k][c], type)
    <3>1. PICK l \in 1..Len(table) : rows[k] = table[l]
      BY <2>13
    <3>2. RowOK(table[l]) /\ c \in DOMAIN table[l]
      BY <1>1, <2>1, <2>13, <3>1 DEF RowsOK
    <3>3. IsValue(table[l][c])
      BY <3>2 DEF RowOK
    <3>4. ~is_null(table[l][c]) => table[l][c].type = type
      BY <3>2 DEF Has
    <3> QED BY <3>1, <3>3, <3>4 DEF Uniform
  <2>15. StrictWeakOrder(order, rows)
    <3> HIDE DEF order
    <3> QED BY <2>4, <2>14, BeforeOrders
  <2>16. ~Before(order, sorted[y], sorted[x])
    BY <2>11, <2>13, <2>15
  <2>17. InPlace(order, sorted[x], sorted[y])
    <3> HIDE DEF order
    <3> QED BY <2>4, <2>16, InOrder
  <2>18. InPlace(order, r[i], r[j])
    BY <2>10, <2>11, <2>17 DEF InPlace
  <2> QED BY <2>18 DEF InPlace
<1>2. Init => RowsOK
  BY DEF Init, RowsOK
<1>3. RowsOK /\ Inv /\ [Next]_vars => RowsOK'
  BY NextRowsOK DEF Inv
<1>4. RowsOK /\ Inv /\ [Next]_vars => [\A s \in SelectStmts : Ordered(s)]_vars
  BY <1>1
<1> QED BY InitInv, NextInv, <1>2, <1>3, <1>4, PTL DEF Spec, OrderedResult
-----------------------------------------------------------------------------
(* How long a page is depends on how many rows there are. *)
LEMMA PageLength ==
  ASSUME NEW s, IsList(s), NEW u, IsList(u), Len(u) = Len(s), NEW limit \in Int, NEW offset \in Nat
  PROVE  Len(Page(u, limit, offset)) = Len(Page(s, limit, offset))
<1>1. Len(s) \in Nat
  BY DEF IsList
<1>2. CASE limit < 0
  <2>1. /\ Page(s, limit, offset) = SubSeq(s, offset + 1, Len(s))
        /\ Page(u, limit, offset) = SubSeq(u, offset + 1, Len(s))
    BY <1>2 DEF Page
  <2>2. IsPart(SubSeq(s, offset + 1, Len(s)), s, offset, Len(s))
    <3>1. Len(s) <= Len(s)
      BY <1>1
    <3> QED BY <1>1, <3>1, PartOf
  <2>3. IsPart(SubSeq(u, offset + 1, Len(s)), u, offset, Len(s))
    <3>1. Len(s) <= Len(u)
      BY <1>1
    <3> QED BY <1>1, <3>1, PartOf
  <2> QED BY <2>1, <2>2, <2>3 DEF IsPart
<1>3. CASE ~(limit < 0)
  <2>1. limit \in Nat
    BY <1>3
  <2>2. Cut(offset + limit, s) = Cut(offset + limit, u)
    BY DEF Cut
  <2>3. /\ IsPart(Page(s, limit, offset), s, offset, Cut(offset + limit, s))
        /\ IsPart(Page(u, limit, offset), u, offset, Cut(offset + limit, s))
    BY <2>1, <2>2, PageIs
  <2> QED BY <2>3 DEF IsPart
<1> QED BY <1>2, <1>3

(* OrderByAnswered: for any statements, schemas and expressions, a SELECT   *)
(* without a condition, of columns and ordered by columns the table has, is *)
(* answered with its page of all the rows unless a DELETE threw before.     *)
THEOREM SelectAnswers == Spec => OrderByAnswered
<1> DEFINE Asked(s) ==
       /\ execute_select(s) /\ Exists(s.table_name) /\ s.where = <<>>
       /\ "delete" \notin refused[s.table_name]
       /\ LET names == Names(tables_[s.table_name].columns)
          IN  /\ SelectColumns(s, tables_[s.table_name].columns) \subseteq names
              /\ \A k \in 1..Len(s.order_by) : s.order_by[k].column \in names
           Answered(s) ==
       /\ result'.success
       /\ result'.rows_affected = Len(Page(tables_[s.table_name].rows, s.limit, s.offset))
<1>1. ASSUME Inv, RowsComplete, NEW s \in SelectStmts, Asked(s) PROVE Answered(s)
  <2> DEFINE t == s.table_name
             columns == tables_[t].columns
             table == tables_[t].rows
             picked == SelectColumns(s, columns)
             hits == {i \in 1..Len(table) : Matches(s.where, table[i]) = "true"}
             n == Cardinality(hits)
             comparable(row) == \A k \in 1..Len(s.order_by) :
                                  s.order_by[k].column \in Names(columns) \cap DOMAIN row
             listed(keep) == [i \in 1..n |-> table[keep[i]]]
  <2>1. SelectFrom(t, s) /\ t \in DOMAIN tables_ /\ "delete" \notin refused[t] /\ s.where = <<>>
    BY <1>1 DEF execute_select, Exists
  <2>2. IsList(table) /\ Len(table) \in Nat
    BY <1>1, <2>1 DEF Inv, Stored, IsList
  <2>3. \A i \in 1..Len(table) : Matches(s.where, table[i]) = "true"
    BY <2>1 DEF Matches
  <2>4. n = Len(table)
    <3>1. hits = 1..Len(table)
      BY <2>3
    <3> HIDE DEF hits, table
    <3>2. Cardinality(1..Len(table)) = Len(table)
      <4> DEFINE m == Len(table)
      <4>1. m \in Nat
        BY <2>2
      <4> HIDE DEF m
      <4>2. Cardinality(1..m) = IF 1 > m THEN 0 ELSE m - 1 + 1
        BY <4>1, FS_Interval
      <4>3. Cardinality(1..m) = m
        BY <4>1, <4>2
      <4> QED BY <4>3 DEF m
    <3> QED BY <3>1, <3>2
  <2>5. \A i \in 1..Len(table) : comparable(table[i])
    <3>1. \A i \in 1..Len(table) : DOMAIN table[i] = Names(columns)
      BY <1>1, <2>1 DEF RowsComplete
    <3>2. \A k \in 1..Len(s.order_by) : s.order_by[k].column \in Names(columns)
      BY <1>1
    <3> HIDE DEF table, columns
    <3> QED BY <3>1, <3>2
  <2>6. picked \subseteq Names(columns)
    BY <1>1
  <2>7. ~(\/ ~(picked \subseteq Names(columns))
          \/ \E i \in 1..Len(table) : Matches(s.where, table[i]) = "throw"
          \/ n >= 2 /\ \E i \in hits : ~comparable(table[i]))
    <3>1. hits \subseteq 1..Len(table)
      OBVIOUS
    <3>2. "true" # "throw"
      OBVIOUS
    <3> HIDE DEF picked, table, comparable, hits, n
    <3> QED BY <2>3, <2>5, <2>6, <3>1, <3>2
  <2>8. \E keep \in Ascending(hits) :
          IF s.order_by = <<>> \/ n < 2 THEN Shown(s, picked, listed(keep), result')
          ELSE \E sorted \in Sorted(s.order_by[1], listed(keep)) : Shown(s, picked, sorted, result')
    BY <2>1, <2>7 DEF SelectFrom, Shown, Answer
  <2>9. PICK keep \in Ascending(hits) :
          IF s.order_by = <<>> \/ n < 2 THEN Shown(s, picked, listed(keep), result')
          ELSE \E sorted \in Sorted(s.order_by[1], listed(keep)) : Shown(s, picked, sorted, result')
    BY <2>8
  <2> DEFINE rows == listed(keep)
  <2>10. IsList(rows) /\ Len(rows) = Len(table)
    <3>1. rows = [i \in 1..n |-> rows[i]]
      OBVIOUS
    <3> HIDE DEF rows, n
    <3> QED BY <2>2, <2>4, <3>1, ListOf
  <2>11. PICK sorted : IsList(sorted) /\ Len(sorted) = Len(table) /\ Shown(s, picked, sorted, result')
    <3> HIDE DEF n, picked, table
    <3>1. CASE s.order_by = <<>> \/ n < 2
      BY <2>9, <2>10, <3>1
    <3>2. CASE ~(s.order_by = <<>> \/ n < 2)
      <4>1. PICK sorted \in Sorted(s.order_by[1], rows) : Shown(s, picked, sorted, result')
        BY <2>9, <3>2
      <4> HIDE DEF rows
      <4> QED BY <2>10, <4>1, SortedRows
    <3> QED BY <3>1, <3>2
  <2>12. result'.success = TRUE /\ result'.rows_affected = Len(Page(sorted, s.limit, s.offset))
    BY <2>11 DEF Shown
  <2>13. s.limit \in Int /\ s.offset \in Nat
    BY StatementsAssumption
  <2>14. Len(Page(sorted, s.limit, s.offset)) = Len(Page(table, s.limit, s.offset))
    <3> HIDE DEF table
    <3> QED BY <2>2, <2>11, <2>13, PageLength
  <2> QED BY <2>12, <2>14
<1>2. Init => RowsComplete
  BY DEF Init, RowsComplete
<1>3. Inv /\ RowsComplete => [\A s \in SelectStmts : Asked(s) => Answered(s)]_vars
  BY <1>1
<1> QED BY InitInv, NextInv, NextComplete, <1>2, <1>3, PTL DEF Spec, OrderByAnswered
=============================================================================
