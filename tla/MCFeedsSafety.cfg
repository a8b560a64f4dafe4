SPECIFICATION Spec
CONSTANTS
  a1 = a1
  a2 = a2
  t1 = t1
  t2 = t2
  t3 = t3
  Accounts = {a1}
  Txs = {t1, t2}
  Owner <- MCOwner1
  Clients = {c1}
  Scheduler = scheduler
  Interval = 2
  Faults = {"cut", "unread", "restart"}
  LongErrors = TRUE
  MaxTime = 2
  MaxFetches = 2
INVARIANT
  StoredOnce
  LinksComplete
  ScheduledSpaced
