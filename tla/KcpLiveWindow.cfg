CONSTANTS
  A = A
  B = B
  c1 = c1
  c2 = c2
  Payload = {c1}
  Messages <- OneMessage
  Nil = Nil
  SndWnd <- Both3
  RcvWnd <- Both1
  IKCP_WND_RCV = 3
  FastResend = 0
  NoCwnd = FALSE
  DeadLink = 2
  Mss = 2
  UMod = 16
  SegsPerDatagram = 1
  NetCap = 2
  MaxSent <- Only2
SPECIFICATION FairSpec
PROPERTIES
  EventuallyDelivered
