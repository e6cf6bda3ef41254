SPECIFICATION Spec
CONSTANTS
  f1 = f1  f2 = f2  f3 = f3  x1 = x1  x2 = x2  v1 = v1  v2 = v2  v3 = v3
  r1 = r1  r2 = r2  top = top  noone = noone
  Top = top
  NoOne = noone
  Folders = {f1, f2, f3}
  Files = {x1, x2}
  Versions = {v1, v2, v3}
  Requests = {r1, r2}
  Plans <- AllPlans
SYMMETRY Symmetry
INVARIANTS TreeSound StoreAgrees
CHECK_DEADLOCK FALSE
