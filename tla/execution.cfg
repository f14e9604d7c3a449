SPECIFICATION FairSpec
CONSTANTS
  M1 = M1  M2 = M2
  Root = Root
  None = None
  Member = {M1, M2}
  Version = {v1, v2}
  Ledger = {Root}
  LedgerOf <- RootLedger
  BudgetLedger = Root
  Workers = 1
  Limit = 1
  MaxGit = 1
  MaxRounds = 3
INVARIANTS LaunchedAtMostOnce RunningWithinLimit NoFabricatedSuccess
PROPERTIES LedgerLifecycle GroupTerminates
CHECK_DEADLOCK FALSE
