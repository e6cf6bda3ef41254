SPECIFICATION Spec
CONSTANTS
  u1 = u1  u2 = u2  r1 = r1  r2 = r2  r3 = r3
  cash = cash  sales = sales  noone = noone
  NoOne = noone
  Users = {u1}
  Requests = {r1, r2}
  MaxEntry = 3
  MaxDaybook = 1
  Dates = {1}
  Accounts <- AcctAll
  Switchable <- NoAccts
  LineChoices <- OneUnbalanced
  Policies <- AnyApproval
SYMMETRY Symmetry
INVARIANTS LocksProtect NumberingGapless DaybookAgrees
PROPERTIES TriggersNeverFire ImplementsBook
