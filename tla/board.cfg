SPECIFICATION Spec
CONSTANTS
  a = a  b = b  c = c  d = d  e = e  r1 = r1  r2 = r2  noone = noone
  NoOne = noone
  Tasks = {a, b, c, d, e}
  Requests = {r1, r2}
  STEP = 8
  MinGap = 4
  Plans <- AllPlans
SYMMETRY Symmetry
INVARIANTS BoardInOrder
PROPERTIES LandsWhereAsked
CHECK_DEADLOCK FALSE
