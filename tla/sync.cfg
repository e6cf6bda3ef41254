SPECIFICATION FairSpec
CONSTANTS
  t1 = t1  t2 = t2  n1 = n1  n2 = n2  c1 = c1  c2 = c2  u1 = u1  u2 = u2
  e1 = e1  e2 = e2  q1 = q1  q2 = q2  q3 = q3  body = body  noone = noone
  NoOne = noone
  Tabs = {t1, t2}
  Tenants = {n1, n2}
  Creates = {c1}
  Portable = {c1}
  Updates = {u1, u2}
  Edits = {e1, e2}
  Plans <- EachKind
  Bodies = {body}
  Requests = {q1, q2}
  Keys <- KeysOfCreates
  MaxFaults = 2
INVARIANTS TypeOK ExecutedOnce QueuedNotLost 
 
CHECK_DEADLOCK FALSE
