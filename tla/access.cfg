SPECIFICATION FairSpec
CONSTANTS
  ann = ann  bob = bob  cas = cas  ka = ka  kb = kb  kc = kc  r1 = r1  r2 = r2  r3 = r3  noone = noone
  NoOne = noone
  People = {ann, bob, cas}
  Tokens = {ka, kb, kc}
  Slots = {r1, r2}
  Plans <- AllPlans
INVARIANTS OwnerKept NotLockedOut StaleOnlyIfOvertaken
PROPERTIES CachesConverge
CHECK_DEADLOCK FALSE
