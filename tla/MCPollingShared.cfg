SPECIFICATION FairSpec
CHECK_DEADLOCK FALSE
CONSTANTS
  eth = eth
  tron = tron
  t1 = t1
  t2 = t2
  t3 = t3
  Tx = {t1, t3}
  NoTx = NoTx
  Chains <- TwoChains
  ChainOf <- Split
  BlockOf <- AllOne
  Status <- Reverted
  ReceiptBlock <- Parsed
  InitBlock = 0
  ChanCap = 1
  MaxBlock = 1
  MaxRuns = 1
PROPERTY EverySettles
PROPERTY CancelReturns
