CONSTANTS
  WalTxns = {1, 258}
  Payloads <- MCPayloads
  MaxEntries = 4
  MaxCrashes = 1
SPECIFICATION WalSpec
CHECK_DEADLOCK FALSE
INVARIANT AckedCommitSurvives
