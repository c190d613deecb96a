CONSTANTS
  TxnIds = {1}
  Tables <- MCTables
  RowIds <- MCRowIds
  Values = {0}
  Stored <- MCStored
  NoRow = NoRow
  MaxUndo = 2
SPECIFICATION TxnSpec
PROPERTY CommitIsFinal
