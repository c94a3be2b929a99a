CONSTANTS
  A = A
  B = B
  c1 = c1
  c2 = c2
  Payload = {c1}
  Messages <- OneMessage
  Nil = Nil
  SndWnd <- Both3
  RcvWnd <- Both2
  IKCP_WND_RCV = 3
  FastResend = 0
  NoCwnd = FALSE
  DeadLink = 2
  Mss = 2
  UMod = 16
  SegsPerDatagram = 2
  NetCap = 1
  MaxSent <- Only3
SPECIFICATION FairSpec
PROPERTIES
  EventuallyDelivered
