SPECIFICATION Spec
CONSTANTS
  Ticker = Ticker
  Nobody = Nobody
  main = main
  worker = worker
  Users = {main, worker}
  Id = {i1}
  i1 = i1
  UserCalls <- Everything
  Calls <- Echo
  MaxConns = 2
  MaxStarts = 2
INVARIANT RemovedAreDisconnected
