SPECIFICATION Spec
CONSTANTS
  Ticker = Ticker
  Nobody = Nobody
  main = main
  worker = worker
  Users = {main, worker}
  Id = {i1}
  i1 = i1
  UserCalls <- Everything
  Calls <- Strict
  MaxConns = 2
  MaxStarts = 1
INVARIANT NoWaitCycle
