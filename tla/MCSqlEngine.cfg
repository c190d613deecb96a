CONSTANTS
  Tables = {"t"}
  Columns = {"id", "qty"}
  Numerals = {1, 2, 5}
  Collation <- MCCollation
  Schemas <- MCSchemas
  InsertStmts <- MCInsertStmts
  UpdateStmts <- MCUpdateStmts
  DeleteStmts <- MCDeleteStmts
  SelectStmts <- MCSelectStmts
  Eval <- evaluate_expression
  Where <- evaluate_where_clause
  MaxRows = 3
SPECIFICATION Spec
INVARIANTS
  ConstraintsUnlessRefused
  RowsComplete
  PagesPartition
PROPERTIES
  DeleteSparesTheRest
  OrderedResult
  OrderByAnswered
