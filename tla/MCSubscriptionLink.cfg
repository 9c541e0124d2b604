SPECIFICATION LinkSpec
CHECK_DEADLOCK FALSE
CONSTANTS
  Callers = {u1, u2}
  MaxBuffer = 1
  MaxNotes = 3
  Bad = {3}
INVARIANT EndToEnd
INVARIANT UnsubscribeFinds
INVARIANT UnsubscribeReaches
INVARIANT ErrSendSafe
PROPERTY QuietAfterUnsubscribe
PROPERTY DispatchFreed
PROPERTY UnsubscribeEnds
PROPERTY PublisherTold
