SPECIFICATION LiveSpec
CONSTANTS
  a1 = a1
  a2 = a2
  t1 = t1
  t2 = t2
  t3 = t3
  Accounts = {a1, a2}
  Txs = {}
  Owner <- MCOwner2
  Clients = {}
  Scheduler = scheduler
  Interval = 1
  Faults = {"cut"}
  LongErrors = TRUE
  MaxTime = 1
  MaxFetches = 2
PROPERTY
  EveryAccountServed
