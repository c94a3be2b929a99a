CONSTANTS
  a1 = a1
  a2 = a2
  Addr = {a1}
  Endpoint <- Neighbours
  Cookies = {1, 2}
  NoAddr = NoAddr
  MaxOut = 2
  MaxPings = 0
  NetCap = 2
SPECIFICATION Spec
INVARIANTS DisconnectObeyed
