----------------------------- MODULE SqlEngine -----------------------------
(***************************************************************************)
(* Database and QueryExecutor of src/src/query_executor_engine.cpp: tables *)
(* of rows with NOT NULL and UNIQUE columns.  Nothing takes a lock, so one *)
(* statement is one step; but a statement works row by row, and an         *)
(* exception in the middle leaves what it has done so far.  execute turns  *)
(* the exception into a result without success, rows or a row count.       *)
(*                                                                         *)
(* Conditions and expressions come in through Where and Eval.              *)
(***************************************************************************)
EXTENDS SqlValue, FiniteSets

CONSTANTS Tables,       \* table names
          Columns,      \* column names
          Schemas, InsertStmts, UpdateStmts, DeleteStmts, SelectStmts,
          Eval(_, _),   \* an expression on a row: a value or Throw
          Where(_, _),  \* a condition on a row: "true", "false" or "throw"
          MaxRows       \* bound on the rows of a table

ASSUME MaxRowsAssumption == MaxRows \in Nat
ASSUME StatementsAssumption ==
  /\ \A s \in InsertStmts : s.columns \in Seq(STRING)
  /\ \A s \in UpdateStmts : Len(s.assignments) \in Nat
  /\ \A s \in SelectStmts : /\ s.limit \in Int /\ s.offset \in Nat
                             /\ s.order_by \in Seq([column : STRING, desc : BOOLEAN])
                             /\ Len(s.order_by) <= 1

VARIABLES tables_,   \* the tables that exist: [columns, rows]
          result,    \* the last QueryResult
          refused    \* history: the kinds of statement refused on each table

vars == <<tables_, result, refused>>

Names(columns) == {columns[i].name : i \in 1..Len(columns)}

ASSUME SchemasAssumption == \A s \in Schemas : Len(s) \in Nat /\ Names(s) \subseteq Columns

not_null_columns(columns) == {columns[i].name : i \in {j \in 1..Len(columns) : columns[j].not_null}}
unique_columns(columns) == {columns[i].name : i \in {j \in 1..Len(columns) : columns[j].unique}}

(* row[column] = v *)
Set(row, column, v) == [c \in DOMAIN row \cup {column} |-> IF c = column THEN v ELSE row[c]]

Has(row, c) == c \in DOMAIN row /\ ~is_null(row[c])

(* A moved-from std::map. *)
EmptyRow == [c \in {} |-> Null]

(* Uniqueness by value, not by text. *)
validate_row_ByValue(row, columns, rows) ==
  /\ \A c \in not_null_columns(columns) : c \in DOMAIN row => ~is_null(row[c])
  /\ \A c \in unique_columns(columns), i \in 1..Len(rows) :
       Has(row, c) /\ Has(rows[i], c) => rows[i][c] # row[c]

(* TRUE when validate_row returns, FALSE when it throws. *)
validate_row(row, columns, rows) ==
  /\ \A c \in not_null_columns(columns) : c \in DOMAIN row => ~is_null(row[c])
  /\ \A c \in unique_columns(columns), i \in 1..Len(rows) :
       Has(row, c) /\ Has(rows[i], c) => to_string(rows[i][c]) # to_string(row[c])

(* A condition that is absent holds for every row. *)
Matches(where, row) == IF where = <<>> THEN "true" ELSE Where(where[1], row)

Answer(n, rows) == result' = [success |-> TRUE, rows_affected |-> n, rows |-> rows]
Refuse == result' = [success |-> FALSE, rows_affected |-> 0, rows |-> <<>>]

Refusing(t, kind) == refused' = [refused EXCEPT ![t] = @ \cup {kind}]

Exists(t) == t \in DOMAIN tables_
Store(t, rows) == tables_' = [tables_ EXCEPT ![t].rows = rows]

(* The ways to list a set of positions in ascending order: there is one. *)
Ascending(S) == {list \in [1..Cardinality(S) -> S] :
                   \A i, j \in 1..Cardinality(S) : i < j => list[i] < list[j]}

-----------------------------------------------------------------------------
Init == /\ tables_ = [t \in {} |-> <<>>]
        /\ result = [success |-> FALSE, rows_affected |-> 0, rows |-> <<>>]
        /\ refused = [t \in Tables |-> {}]

(* The Database's part, which throws for a table that is there. *)
create_table(t, columns) ==
  /\ ~Exists(t)
  /\ tables_' = [u \in DOMAIN tables_ \cup {t} |->
                   IF u = t THEN [columns |-> columns, rows |-> <<>>] ELSE tables_[u]]

execute_create_table(t, columns) ==
  IF t = "" \/ columns = <<>> \/ Exists(t)
  THEN Refuse /\ UNCHANGED <<tables_, refused>>
  ELSE /\ create_table(t, columns)
       /\ refused' = [refused EXCEPT ![t] = {}]
       /\ Answer(0, <<>>)

(* Called on the Database: an exception would reach the caller. *)
drop_table(t) == /\ Exists(t)
                 /\ tables_' = [u \in DOMAIN tables_ \ {t} |-> tables_[u]]
                 /\ UNCHANGED <<result, refused>>

-----------------------------------------------------------------------------
(* What a literal of an INSERT is stored as: a number or NULL stays text. *)
InsertedValue(e) ==
  convert_to_type(String(e.text), IF e.token = "STRING" THEN "VARCHAR" ELSE e.token)

(* The columns the values of an INSERT go to. *)
Target(stmt, columns) ==
  IF stmt.columns # <<>> THEN stmt.columns ELSE [i \in 1..Len(columns) |-> columns[i].name]

(* The value of a column that the INSERT does not name. *)
Missing(col) == IF col.default_value # "" THEN convert_to_type(String(col.default_value), col.type)
                ELSE IF ~col.not_null THEN Null
                ELSE Throw

Buildable(stmt, columns, values) ==
  LET target == Target(stmt, columns)
  IN  /\ Len(values) = Len(target)
      /\ \A i \in 1..Len(values) : /\ target[i] \in Names(columns)
                                   /\ values[i].kind = "literal"
                                   /\ InsertedValue(values[i]) # Throw
      /\ \A i \in 1..Len(columns) : columns[i].name \in Range(target) \/ Missing(columns[i]) # Throw

(* A row without the columns that the statement does not name. *)
NewRow_NoDefaults(stmt, columns, values) ==
  LET target == Target(stmt, columns)
  IN  [c \in Range(target) |-> InsertedValue(values[SelectLastInSeq(target, LAMBDA n : n = c)])]

NewRow(stmt, columns, values) ==
  LET target == Target(stmt, columns)
  IN  [c \in Names(columns) |->
         IF c \in Range(target)
         THEN InsertedValue(values[SelectLastInSeq(target, LAMBDA n : n = c)])
         ELSE Missing(columns[SelectInSeq(columns, LAMBDA col : col.name = c)])]

(* The first n rows of the statement go in, row n + 1 is the first that    *)
(* cannot be built or violates a constraint.                               *)
InsertInto(t, stmt) ==
  LET columns == tables_[t].columns
      new(i) == NewRow(stmt, columns, stmt.values[i])
      with(n) == tables_[t].rows \o [i \in 1..n |-> new(i)]
      accepts(i) == /\ Buildable(stmt, columns, stmt.values[i])
                    /\ validate_row(new(i), columns, with(i - 1))
  IN  \E n \in 0..Len(stmt.values) :
        /\ \A i \in 1..n : accepts(i)
        /\ Store(t, with(n))
        /\ IF n = Len(stmt.values)
           THEN Answer(n, <<>>) /\ UNCHANGED refused
           ELSE ~accepts(n + 1) /\ Refuse /\ Refusing(t, "insert")

(* execute for a statement on a table; get_table throws when there is none. *)
execute_insert(stmt) ==
  IF Exists(stmt.table_name)
  THEN /\ InsertInto(stmt.table_name, stmt)
       /\ Len(tables_'[stmt.table_name].rows) <= MaxRows
  ELSE Refuse /\ UNCHANGED <<tables_, refused>>

-----------------------------------------------------------------------------
(* One assignment, unless an earlier one has thrown. *)
Assign(done, a, columns) ==
  LET v == Eval(a.value, done.row)
  IN  IF ~done.ok \/ a.column \notin Names(columns) \/ v = Throw
      THEN [done EXCEPT !.ok = FALSE]
      ELSE [done EXCEPT !.row = Set(@, a.column, v)]

(* A row after the assignments, each of which sees the ones before it; ok  *)
(* is FALSE when one of them throws, which ends the loop there.            *)
Assigned(stmt, columns, row) ==
  LET done[k \in 0..Len(stmt.assignments)] ==
        IF k = 0 THEN [row |-> row, ok |-> TRUE]
        ELSE Assign(done[k - 1], stmt.assignments[k], columns)
  IN  done[Len(stmt.assignments)]

(* The rows are assigned in place and validated one at a time, each        *)
(* against the whole table, the row itself included; at is the first row   *)
(* that throws, or one past the end.                                       *)
UpdateRows(t, stmt) ==
  LET columns == tables_[t].columns
      rows == tables_[t].rows
      hit(i) == Matches(stmt.where, rows[i])
      change(i) == Assigned(stmt, columns, rows[i])
      after(n) == [i \in 1..Len(rows) |-> IF i <= n /\ hit(i) = "true" THEN change(i).row ELSE rows[i]]
      passes(i) == \/ hit(i) = "false"
                   \/ hit(i) = "true" /\ change(i).ok /\ validate_row(change(i).row, columns, after(i))
  IN  \E at \in 1..(Len(rows) + 1) :
        /\ \A i \in 1..(at - 1) : passes(i)
        /\ Store(t, after(at))
        /\ IF at > Len(rows)
           THEN Answer(Cardinality({i \in 1..Len(rows) : hit(i) = "true"}), <<>>) /\ UNCHANGED refused
           ELSE ~passes(at) /\ Refuse /\ Refusing(t, "update")

execute_update(stmt) ==
  IF Exists(stmt.table_name)
  THEN UpdateRows(stmt.table_name, stmt)
  ELSE Refuse /\ UNCHANGED <<tables_, refused>>

-----------------------------------------------------------------------------
(* Everything behind the rows kept so far is erased. *)
HalfRemoved_Erased(rows, where, keep, at) == [i \in 1..Len(keep) |-> rows[keep[i]]]

(* std::remove_if when the condition throws at row at: the rows kept so    *)
(* far (keep lists their positions) have been moved to the front, and a    *)
(* row that was moved away and not overwritten is an empty map.            *)
HalfRemoved(rows, where, keep, at) ==
  [i \in 1..Len(rows) |-> IF i <= Len(keep) THEN rows[keep[i]]
                          ELSE IF i < at /\ Matches(where, rows[i]) # "true" THEN EmptyRow
                          ELSE rows[i]]

(* spared holds the positions of the rows before at that stay, and keep    *)
(* lists them in order.                                                    *)
DeleteRows(t, stmt) ==
  LET rows == tables_[t].rows
      hit(i) == Matches(stmt.where, rows[i])
  IN  \E at \in 1..(Len(rows) + 1) :
        LET spared == {i \in 1..(at - 1) : hit(i) # "true"}
            n == Cardinality(spared)
        IN  /\ \A i \in 1..(at - 1) : hit(i) # "throw"
            /\ at <= Len(rows) => hit(at) = "throw"
            /\ \E keep \in Ascending(spared) :
                 IF at > Len(rows)
                 THEN /\ Store(t, [i \in 1..n |-> rows[keep[i]]])
                      /\ Answer(Len(rows) - n, <<>>)
                      /\ UNCHANGED refused
                 ELSE /\ Store(t, HalfRemoved(rows, stmt.where, keep, at))
                      /\ Refuse
                      /\ Refusing(t, "delete")

execute_delete(stmt) ==
  IF Exists(stmt.table_name)
  THEN DeleteRows(stmt.table_name, stmt)
  ELSE Refuse /\ UNCHANGED <<tables_, refused>>

-----------------------------------------------------------------------------
(* * alone selects every column; else the identifiers of the list. *)
SelectColumns(stmt, columns) ==
  IF Len(stmt.columns) = 1 /\ stmt.columns[1].kind = "id" /\ stmt.columns[1].name = "*"
  THEN Names(columns)
  ELSE {stmt.columns[i].name : i \in {j \in 1..Len(stmt.columns) : stmt.columns[j].kind = "id"}}

(* The comparison without the case of two NULLs. *)
Before_NullFirst(order, a, b) ==
  LET v == a[order.column]  w == b[order.column]
  IN  IF is_null(v) THEN ~order.desc
      ELSE IF is_null(w) THEN order.desc
      ELSE IF order.desc THEN Below(w, v) ELSE Below(v, w)

(* The comparison that execute_select gives to std::sort. *)
Before(order, a, b) ==
  LET v == a[order.column]  w == b[order.column]
  IN  IF is_null(v) /\ is_null(w) THEN FALSE
      ELSE IF is_null(v) THEN ~order.desc
      ELSE IF is_null(w) THEN order.desc
      ELSE IF order.desc THEN Below(w, v) ELSE Below(v, w)

StrictWeakOrder(order, rows) ==
  \A i, j, k \in 1..Len(rows) :
    LET lt(x, y) == Before(order, rows[x], rows[y])
    IN  /\ ~lt(i, i)
        /\ lt(i, j) /\ lt(j, k) => lt(i, k)
        /\ ~lt(i, j) /\ ~lt(j, i) /\ ~lt(j, k) /\ ~lt(k, j) => ~lt(i, k)

(* What std::sort may leave: rows in order, in any order where they tie.   *)
(* With a comparison that is no strict weak order the outcome is           *)
(* undefined: any permutation.                                             *)
Sorted(order, rows) ==
  LET positions == 1..Len(rows)
      defined == StrictWeakOrder(order, rows)
      orders == {p \in [positions -> positions] :
                   /\ \A i, j \in positions : i # j => p[i] # p[j]
                   /\ defined => \A i, j \in positions : i < j => ~Before(order, rows[p[j]], rows[p[i]])}
  IN  {[i \in positions |-> rows[p[i]]] : p \in orders}

(* A page that ends at the limit, wherever it starts. *)
Page_EndsAtLimit(rows, limit, offset) ==
  SubSeq(rows, offset + 1, IF limit < 0 THEN Len(rows) ELSE Min({limit, Len(rows)}))

(* LIMIT and OFFSET; a negative limit is none. *)
Page(rows, limit, offset) ==
  SubSeq(rows, offset + 1, IF limit < 0 THEN Len(rows) ELSE Min({offset + limit, Len(rows)}))

(* Columns, then WHERE, then ORDER BY (of one column at most), then LIMIT. *)
(* The comparison throws when it meets a column or a row without the       *)
(* column; with fewer than two rows it never runs.                         *)
SelectFrom(t, stmt) ==
  LET columns == tables_[t].columns
      table == tables_[t].rows
      picked == SelectColumns(stmt, columns)
      hits == {i \in 1..Len(table) : Matches(stmt.where, table[i]) = "true"}
      n == Cardinality(hits)
      comparable(row) == \A k \in 1..Len(stmt.order_by) :
                           stmt.order_by[k].column \in Names(columns) \cap DOMAIN row
      shown(row) == [c \in picked \cap DOMAIN row |-> row[c]]
      show(sorted) == LET page == Page(sorted, stmt.limit, stmt.offset)
                      IN  Answer(Len(page), [i \in 1..Len(page) |-> shown(page[i])])
  IN  IF \/ ~(picked \subseteq Names(columns))
         \/ \E i \in 1..Len(table) : Matches(stmt.where, table[i]) = "throw"
         \/ n >= 2 /\ \E i \in hits : ~comparable(table[i])
      THEN Refuse
      ELSE \E keep \in Ascending(hits) :
             LET rows == [i \in 1..n |-> table[keep[i]]]
             IN  IF stmt.order_by = <<>> \/ n < 2 THEN show(rows)
                 ELSE \E sorted \in Sorted(stmt.order_by[1], rows) : show(sorted)

execute_select(stmt) ==
  /\ IF Exists(stmt.table_name) THEN SelectFrom(stmt.table_name, stmt) ELSE Refuse
  /\ UNCHANGED <<tables_, refused>>

-----------------------------------------------------------------------------
Next == \/ \E t \in Tables \cup {""}, s \in Schemas : execute_create_table(t, s)
        \/ \E t \in Tables : drop_table(t)
        \/ \E s \in InsertStmts : execute_insert(s)
        \/ \E s \in UpdateStmts : execute_update(s)
        \/ \E s \in DeleteStmts : execute_delete(s)
        \/ \E s \in SelectStmts : execute_select(s)

Spec == Init /\ [][Next]_vars

-----------------------------------------------------------------------------
RowOK(row) == /\ DOMAIN row \subseteq Columns
              /\ \A c \in DOMAIN row : IsValue(row[c])

(* The types: schemas, rows of values under known columns, row counts.     *)
TypeOK ==
  /\ DOMAIN tables_ \subseteq Tables
  /\ \A t \in DOMAIN tables_ :
       /\ tables_[t].columns \in Schemas
       /\ \A i \in 1..Len(tables_[t].rows) : RowOK(tables_[t].rows[i])
  /\ result.success \in BOOLEAN /\ result.rows_affected \in Nat
  /\ refused \in [Tables -> SUBSET {"insert", "update", "delete"}]

Constraints(t) ==
  LET rows == tables_[t].rows
  IN  /\ \A c \in not_null_columns(tables_[t].columns), i \in 1..Len(rows) :
           c \in DOMAIN rows[i] => ~is_null(rows[i][c])
      /\ \A c \in unique_columns(tables_[t].columns), i, j \in 1..Len(rows) :
           i # j /\ Has(rows[i], c) /\ Has(rows[j], c) =>
             to_string(rows[i][c]) # to_string(rows[j][c])

(* validate_row keeps NOT NULL and UNIQUE in every table on which no       *)
(* UPDATE was refused: an INSERT that stops half-way, a DELETE that throws *)
(* in the middle of std::remove_if and an UPDATE of several rows that are  *)
(* checked one after the other all leave the constraints intact.           *)
ConstraintsUnlessRefused ==
  \A t \in DOMAIN tables_ : "update" \notin refused[t] => Constraints(t)

(* What the documentation says of execute_insert and execute_update: the   *)
(* NOT NULL and UNIQUE constraints of a table hold.                        *)
ConstraintsHold == \A t \in DOMAIN tables_ : Constraints(t)

(* execute_insert fills the columns a statement leaves out and             *)
(* execute_update assigns to existing columns only, so every row has       *)
(* exactly the columns of its table until a DELETE throws half-way.        *)
RowsComplete ==
  \A t \in DOMAIN tables_ : "delete" \notin refused[t] =>
    \A i \in 1..Len(tables_[t].rows) :
      DOMAIN tables_[t].rows[i] = Names(tables_[t].columns)

(* A SELECT of columns the table has, without a condition and ordered by   *)
(* columns it has, is answered with its page of all the rows, whatever     *)
(* INSERTs and UPDATEs were refused before.  Only a DELETE that threw      *)
(* leaves rows without columns, on which the at() of ORDER BY throws.      *)
OrderByAnswered ==
  [][\A s \in SelectStmts :
       /\ execute_select(s) /\ Exists(s.table_name) /\ s.where = <<>>
       /\ "delete" \notin refused[s.table_name]
       /\ LET names == Names(tables_[s.table_name].columns)
          IN  /\ SelectColumns(s, tables_[s.table_name].columns) \subseteq names
              /\ \A k \in 1..Len(s.order_by) : s.order_by[k].column \in names
       => /\ result'.success
          /\ result'.rows_affected = Len(Page(tables_[s.table_name].rows, s.limit, s.offset))]_vars

Count(rows, row) == Cardinality({i \in 1..Len(rows) : rows[i] = row})

(* execute_delete, also when its condition throws half-way through         *)
(* std::remove_if, loses no row that does not meet the condition and       *)
(* duplicates none that does: each is there as often as before, up to the  *)
(* empty rows that a half-way move leaves behind.                          *)
DeleteSparesTheRest ==
  [][\A s \in DeleteStmts : execute_delete(s) /\ Exists(s.table_name) =>
       LET before == tables_[s.table_name].rows
           now == tables_'[s.table_name].rows
       IN  \A i \in 1..Len(before) : before[i] # EmptyRow =>
             IF Matches(s.where, before[i]) = "true"
             THEN Count(now, before[i]) <= Count(before, before[i])
             ELSE Count(now, before[i]) = Count(before, before[i])]_vars

(* LIMIT and OFFSET cut a result into pages: read one after the other,     *)
(* the pages of any size give every row once and in order; LIMIT 0 gives   *)
(* none and no LIMIT all the rest.                                         *)
PagesPartition ==
  \A t \in DOMAIN tables_ :
    LET rows == tables_[t].rows
    IN  /\ \A size \in 1..MaxRows :
             FlattenSeq([k \in 1..MaxRows |-> Page(rows, size, (k - 1) * size)]) = rows
        /\ \A offset \in 0..MaxRows : /\ Page(rows, 0, offset) = <<>>
                                      /\ Page(rows, -1, offset) = SubSeq(rows, offset + 1, Len(rows))

NotAfter(v, w) == is_null(v) \/ (~is_null(w) /\ ~Below(w, v))

(* A SELECT that orders by a column whose values are NULL or of one type   *)
(* returns its rows in that order, NULLs first when ascending and last     *)
(* when descending: the comparison it gives to std::sort is then a strict  *)
(* weak order, so that the sort is defined.                                *)
OrderedResult ==
  [][\A s \in SelectStmts :
       /\ s.order_by # <<>> /\ result'.success /\ Exists(s.table_name)
       /\ \E type \in ValueTypes : \A i \in 1..Len(tables_[s.table_name].rows) :
            LET row == tables_[s.table_name].rows[i]
            IN  Has(row, s.order_by[1].column) => row[s.order_by[1].column].type = type
       /\ execute_select(s)
       => \A i, j \in 1..Len(result'.rows) :
            LET c == s.order_by[1].column
                v == result'.rows[i]
                w == result'.rows[j]
            IN  i < j /\ c \in DOMAIN v /\ c \in DOMAIN w =>
                  IF s.order_by[1].desc THEN NotAfter(w[c], v[c]) ELSE NotAfter(v[c], w[c])]_vars
=============================================================================
