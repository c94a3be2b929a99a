SPECIFICATION Spec
CONSTANTS
  Peers = {f1, f2, f3}
  f1 = f1
  Roles = {"server"}
  Timeout = 5
  PING_INTERVAL = 2
  Linger = 2
  MaxRetransmits = 3
  Rto = 1
  Backoff = 1
  Interval = 1
  SndWnd = 2
  IKCP_WND_RCV = 2
  RmtWnd = 1
  ClockSize = 64
  MaxGap = 1
  Horizon = 6
  f2 = f2
  f3 = f3
INVARIANT TimeoutOnlyWhenLost
CHECK_DEADLOCK FALSE
