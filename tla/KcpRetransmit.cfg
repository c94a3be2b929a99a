CONSTANTS
  A = A
  B = B
  c1 = c1
  c2 = c2
  Payload = {c1, c2}
  Messages <- OneDouble
  Nil = Nil
  SndWnd <- Both2
  RcvWnd <- Both3
  IKCP_WND_RCV = 3
  FastResend = 0
  NoCwnd = TRUE
  DeadLink = 2
  Mss = 1
  UMod = 16
  SegsPerDatagram = 1
  NetCap = 2
  MaxSent <- Only2
SPECIFICATION Spec
INVARIANTS
  TypeOK
  InOrderDelivery
  WireMatchesStream
  NothingFreedEarly
  NothingHeldBack
  WindowsBounded
PROPERTIES
  NoStepBack
  ImplementsChannel
