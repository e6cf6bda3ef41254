SPECIFICATION FairSpec
CONSTANTS
  alarm = alarm  serial = serial  w1 = w1  w2 = w2  noone = noone
  NoOne = noone
  Alarms = {alarm}
  Series = {serial}
  Workers = {w1, w2}
  MaxTime = 3
  Plans <- AllPlans
INVARIANTS ToldOnceInTime
 
CHECK_DEADLOCK FALSE
