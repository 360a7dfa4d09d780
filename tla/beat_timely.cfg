CONSTANTS
  HeartbeatInterval = 5
  HeartbeatTimeout = 15
  ConnectTime = 5
  MaxGap = 4
  MaxLatency = 5
SPECIFICATION TimingSpec
CHECK_DEADLOCK FALSE
INVARIANTS LossMeansNoAnswer DetectionBound
