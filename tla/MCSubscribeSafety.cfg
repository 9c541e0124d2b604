SPECIFICATION Spec
CHECK_DEADLOCK FALSE
CONSTANTS
  t1 = t1
  t2 = t2
  NoTx = NoTx
  Tx = {t1, t2}
  LogsIn <- LogsApart
  MaxBlock = 4
  HasCallback = {t2}
  ReceiptBlock <- BlocksApart
  InitBlock = 0
  Window = 2
  MaxFaults = 2
  MaxDrops = 1
INVARIANT LossesExplained
