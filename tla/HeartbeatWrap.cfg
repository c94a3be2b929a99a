SPECIFICATION Spec
CONSTANTS
  Peers = {f1}
  f1 = f1
  Roles = {"server"}
  Timeout = 4
  PING_INTERVAL = 2
  Linger = 1
  MaxRetransmits = 3
  Rto = 1
  Backoff = 1
  Interval = 1
  SndWnd = 2
  IKCP_WND_RCV = 2
  RmtWnd = 2
  ClockSize = 8
  MaxGap = 1
  Horizon = 16
INVARIANT TimeoutOnlyWhenLost
CHECK_DEADLOCK FALSE
