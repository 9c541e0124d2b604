SPECIFICATION FairSpec
CHECK_DEADLOCK FALSE
CONSTANTS
  NoOp = NoOp
  Ops = {call1, sub1}
  Subs = {sub1}
  Reconnects = TRUE
  MaxConns = 3
INVARIANT PendingOpen
INVARIANT WriterIsLastOp
INVARIANT AnswerFindsCaller
INVARIANT WaitersKnown
INVARIANT SubsOwned
PROPERTY ExpiredReturns
PROPERTY CloseEnds
