SPECIFICATION RttSpec
CONSTANTS
  IKCP_RTO_NDL = 3
  IKCP_RTO_MIN = 10
  IKCP_RTO_DEF = 20
  IKCP_RTO_MAX = 90
  IntervalMin = 10
  IntervalMax = 20
  Uint32 = 140
  Intervals = {0, 1, 12, 30}
  MaxRtt = 40
INVARIANTS EstimatesInRange SettledTimeoutSuffices
