CONSTANTS
  TableNames = {orders, items}
  RowKeys = {k1, k2}
  RowData = {d1}
  MaxTx = 2
  MaxRowVersions = 2
  TxnIds = {1}
  Tables <- MCTables
  RowIds <- MCRowIds
  Values = {0, 1}
  Stored <- MCStored
  NoRow = NoRow
  MaxUndo = 3
  MvccTxns = {0, 1, 2}
  Rows = {r1}
  RowValues = {"a"}
  EmptyData = ""
  MaxClock = 2
  MaxVersions = 2
  MaxSnapshots = 1
  MaxWaiters = 1
  WalTxns = {1, 258}
  Payloads <- MCPayloads
  MaxEntries = 4
  MaxCrashes = 1
SPECIFICATION Spec
CHECK_DEADLOCK FALSE
INVARIANTS
  NoOrphanVersion
  CommitNeverRefused
  AllOrNothing
  EveryWriteUndoable
  UndoRestoresStored
  WriterHoldsRow
  VersionsInOrder
  ReadsNewest
  RecoverExact
  MemoryAgreesWithFile
PROPERTIES
  OutcomeIsFinal
  ReadCommitted
  ImplementsAtomicStore
  SettledReadsAreStable
  NothingLost
