SPECIFICATION FairSpec
CHECK_DEADLOCK FALSE
CONSTANTS
  Codecs = {c1, c2}
INVARIANT NoCallOutlivesServe
INVARIANT StopCloses
PROPERTY ServeEnds
