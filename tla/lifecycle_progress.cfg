SPECIFICATION FairSpec
CONSTANTS
  c1 = c1  c2 = c2  w1 = w1  w2 = w2  noone = noone
  NoOne = noone
  Calls = {c1}
  Workers = {w1, w2}
  Operations = {"create", "retry", "schedule", "cancel", "migrate"}
  Attempts = 3
  MaxJobs = 2
  MaxStops = 0
  MaxCrashes = 0
  MaxExpiries = 1
  LongGrace = TRUE
 
PROPERTIES  LostOnlyByExpiry
CHECK_DEADLOCK FALSE
