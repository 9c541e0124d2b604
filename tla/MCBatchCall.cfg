SPECIFICATION FairSpec
CHECK_DEADLOCK FALSE
CONSTANTS
  N = 3
  Responses <- AnyAnswers
INVARIANT ElementsOwn
PROPERTY WaitBounded
