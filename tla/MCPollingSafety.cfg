SPECIFICATION Spec
CHECK_DEADLOCK FALSE
CONSTANTS
  eth = eth
  tron = tron
  t1 = t1
  t2 = t2
  t3 = t3
  Tx = {t1, t2, t3}
  NoTx = NoTx
  Chains <- OneChain
  ChainOf <- AllEth
  BlockOf <- Blocks223
  Status <- Plain
  ReceiptBlock <- Unparsed
  InitBlock = 1
  ChanCap = 2
  MaxBlock = 3
  MaxRuns = 2
INVARIANT NoSilentLoss
INVARIANT OncePerRun
PROPERTY OnlyRetriesMoveBack
PROPERTY Delivers
