SPECIFICATION FairSpec
CONSTANTS
  t1 = t1  t2 = t2  t3 = t3  r1 = r1  r2 = r2  noone = noone
  NoOne = noone
  Tenants = {t1, t2, t3}
  Requests = {r1, r2}
  MaxPools = 2
  IdleTtl = 0
  MaxOpened = 4
  MaxTime = 1
INVARIANTS TypeOK LimitHeld NothingLeaked LruOrder
PROPERTIES GetsAnswered IdlePoolsClosed
CHECK_DEADLOCK FALSE
