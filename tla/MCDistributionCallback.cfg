SPECIFICATION Spec
CHECK_DEADLOCK FALSE
CONSTANTS
  Address <- Spellings
  Name <- Names
  ToLower <- Lower
  Fold <- Folded
  CallbackMethodPrefix <- Prefixes
  Receipts <- SampleReceipts
  Body = {"x"}
  ContractsName <- Configured
  Middlewares = 0
  MaxLogs = 2
INVARIANT CallbackInvoked
