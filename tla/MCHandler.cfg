SPECIFICATION HandlerSpec
CHECK_DEADLOCK FALSE
CONSTANTS
  Methods <- Service
  Values <- AllValues
  Messages <- AllMessages
  Sessions <- AllSessions
  MaxFrames = 3
  MaxInt64 = 7
  Hashes = {1}
INVARIANT RepliesMatch
INVARIANT RunsOnlyExposed
INVARIANT ArgumentsArrive
PROPERTY AllAnswered
