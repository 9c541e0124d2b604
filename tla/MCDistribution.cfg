SPECIFICATION Spec
CHECK_DEADLOCK FALSE
CONSTANTS
  Address <- Spellings
  Name <- Names
  ToLower <- Lower
  Fold <- Folded
  CallbackMethodPrefix <- Prefixes
  Receipts <- SampleReceipts
  Body = {"x", "y"}
  ContractsName <- Configured
  Middlewares = 1
  MaxLogs = 3
INVARIANT DedupKeepsEvents
INVARIANT DispatchOnce
INVARIANT DispatchComplete
