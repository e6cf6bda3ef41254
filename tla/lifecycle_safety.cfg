SPECIFICATION Spec
CONSTANTS
  c1 = c1  c2 = c2  w1 = w1  w2 = w2  noone = noone
  NoOne = noone
  Calls = {c1}
  Workers = {w1, w2}
  Operations = {"create", "retry", "suspend", "activate", "schedule", "migrate", "migrateAll"}
  Attempts = 2
  MaxJobs = 2
  MaxStops = 1
  MaxCrashes = 1
  MaxExpiries = 0
  LongGrace = TRUE
SYMMETRY Symmetry
INVARIANTS TypeOK OneRunAtATime ReachableIsComplete GoneIsGone
CHECK_DEADLOCK FALSE
