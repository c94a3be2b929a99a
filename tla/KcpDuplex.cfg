CONSTANTS
  A = A
  B = B
  c1 = c1
  c2 = c2
  Payload = {c1, c2}
  Messages <- OneMessage
  Nil = Nil
  SndWnd <- Both2
  RcvWnd <- Both3
  IKCP_WND_RCV = 3
  FastResend = 1
  NoCwnd = TRUE
  DeadLink = 2
  Mss = 1
  UMod = 16
  SegsPerDatagram = 2
  NetCap = 2
  MaxSent <- Both1
SPECIFICATION Spec
INVARIANTS TypeOK InOrderDelivery
PROPERTIES NoStepBack ImplementsChannel
CHECK_DEADLOCK FALSE
