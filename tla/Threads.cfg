SPECIFICATION FairSpec
CONSTANTS
  Ticker = Ticker
  Nobody = Nobody
  main = main
  worker = worker
  Users = {main, worker}
  Id = {i1}
  i1 = i1
  UserCalls <- Shared
  Calls <- Polite
  MaxConns = 2
  MaxStarts = 1
INVARIANTS TypeOK NoWaitCycle RemovedAreDisconnected
PROPERTIES DisconnectedIsRemoved EveryCallReturns
