SPECIFICATION Spec
CONSTANTS
  Peers = {f1}
  f1 = f1
  Roles = {"server"}
  Timeout = 3
  PING_INTERVAL = 2
  Linger = 1
  MaxRetransmits = 2
  Rto = 1
  Backoff = 1
  Interval = 1
  SndWnd = 2
  IKCP_WND_RCV = 2
  RmtWnd = 1
  ClockSize = 64
  MaxGap = 2
  Horizon = 11
INVARIANT SilenceIsAlwaysFound
CHECK_DEADLOCK FALSE
