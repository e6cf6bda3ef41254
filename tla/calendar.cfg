SPECIFICATION Spec
CONSTANTS
  r1 = r1  r2 = r2
  Requests = {r1, r2}
  Offset <- Zones
  MaxSteps = 12
  MaxCount = 4
  MaxReminders = 5
  Widen = 48
  Ahead = 240
  Plans <- AllPlans
  Windows <- SomeWindows
  Leads <- SomeLeads
SYMMETRY Symmetry
INVARIANTS ExpandsAsDefined  ExceptionsBelong 
CHECK_DEADLOCK FALSE
