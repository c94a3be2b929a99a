SPECIFICATION Spec
CONSTANTS
  Ticker = Ticker
  Nobody = Nobody
  main = main
  worker = worker
  Users = {main}
  Id = {i1}
  i1 = i1
  UserCalls <- StartAndStop
  Calls <- Echo
  MaxConns = 2
  MaxStarts = 1
PROPERTY NoMapRace
