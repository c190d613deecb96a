---------------------------- MODULE MCSqlEngine ----------------------------
(***************************************************************************)
(* One table of at most three rows and two columns.  Texts come from the   *)
(* literals, integers from the default of qty and a double from a          *)
(* division, so that conditions hold, fail and throw within one table.     *)
(***************************************************************************)
EXTENDS SqlEngine, SqlExpr

MCCollation == <<"1", "2", "5", "NULL", "a">>

Column(name, not_null, unique, default_value) ==
  [name |-> name, type |-> "INT", not_null |-> not_null, unique |-> unique,
   default_value |-> default_value]

id == Identifier("id")
qty == Identifier("qty")
Number(text) == Literal("NUMBER", text)

MCSchemas == {<<>>,
              <<Column("id", TRUE, TRUE, ""), Column("qty", TRUE, FALSE, "5")>>,
              <<Column("id", FALSE, TRUE, ""), Column("qty", FALSE, FALSE, "")>>}

Insert(columns, values) == [table_name |-> "t", columns |-> columns, values |-> values]

MCInsertStmts ==
  {Insert(<<"id">>, << <<Number("1")>>, <<Literal("INT", "1")>> >>),
   Insert(<<>>, << <<Number("2"), Literal("STRING", "a")>>, <<Number("2"), Number("1")>> >>),
   Insert(<<"qty">>, << <<Literal("INT", "1")>> >>),
   Insert(<<"qty", "qty">>, << <<Number("1"), Literal("INT", "1")>>, <<Number("1"), Literal("INT", "2")>> >>),
   Insert(<<"nope">>, << <<Number("1")>> >>),
   Insert(<<"id", "qty">>, << <<Literal("NULL_KEYWORD", "NULL"), Literal("INT", "a")>> >>)}

Update(column, value, where) ==
  [table_name |-> "t", assignments |-> << [column |-> column, value |-> value] >>, where |-> where]

MCUpdateStmts ==
  {Update("qty", BinaryOp("DIVIDE", qty, qty), <<>>),
   Update("qty", Literal("NULL_KEYWORD", "NULL"), <<BinaryOp("EQUALS", id, Number("1"))>>),
   Update("id", Number("1"), <<BinaryOp("NOT_EQUALS", qty, Number("a"))>>),
   Update("nope", Number("1"), <<BinaryOp("LESS", qty, qty)>>),
   Update("nope", qty, <<>>)}

Delete(where) == [table_name |-> "t", where |-> where]

MCDeleteStmts ==
  {Delete(<<>>),
   Delete(<<BinaryOp("GREATER", BinaryOp("PLUS", qty, qty), qty)>>),
   Delete(<<BinaryOp("OR", BinaryOp("EQUALS", id, Number("2")), BinaryOp("GREATER_EQUAL", qty, UnaryOp("MINUS", qty)))>>)}

Select(columns, where, order_by, limit, offset) ==
  [table_name |-> "t", columns |-> columns, where |-> where, order_by |-> order_by,
   limit |-> limit, offset |-> offset]

MCSelectStmts ==
  {Select(<<Identifier("*")>>, <<>>, << [column |-> "qty", desc |-> desc] >>, -1, 0) : desc \in BOOLEAN}
  \cup {Select(<<qty, Number("1")>>, <<BinaryOp("AND", BinaryOp("NOT_EQUALS", id, Number("2")),
                                                        BinaryOp("LESS_EQUAL", qty, qty))>>, <<>>, 1, 1),
        Select(<<id>>, <<>>, << [column |-> "nope", desc |-> FALSE] >>, -1, 0)}
=============================================================================
