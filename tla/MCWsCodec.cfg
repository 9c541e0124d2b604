SPECIFICATION WsSpec
CONSTANTS
  Settings <- ShortAndLong
  Latency = 1
  SocketBuffer = 2
PROPERTY LiveNotTimedOut
PROPERTY GonePeerTimesOut
PROPERTY CloseEnds
