SPECIFICATION Spec
CONSTANTS
  Peers = {f1}
  f1 = f1
  Roles = {"client"}
  Timeout = 4
  PING_INTERVAL = 2
  Linger = 1
  MaxRetransmits = 3
  Rto = 1
  Backoff = 1
  Interval = 1
  SndWnd = 2
  IKCP_WND_RCV = 2
  RmtWnd = 2
  ClockSize = 64
  MaxGap = 2
  Horizon = 16
PROPERTY PingIsAnswered
CHECK_DEADLOCK FALSE
