SPECIFICATION FairSpec
CHECK_DEADLOCK FALSE
CONSTANTS
  t1 = t1
  t2 = t2
  NoTx = NoTx
  Tx = {t1, t2}
  LogsIn <- LogsTwice
  MaxBlock = 3
  HasCallback = {}
  ReceiptBlock <- BlocksTwice
  InitBlock = 0
  Window = 2
  MaxFaults = 1
  MaxDrops = 0
INVARIANT DuplicatesAtEdges
PROPERTY EverySettles
PROPERTY CancelEndsSelect
