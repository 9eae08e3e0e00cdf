\* Two program threads, no commands.
SPECIFICATION Spec
CONSTANTS
  t1 = t1  t2 = t2
  Thread = {t1, t2}
  S_TO_NS = 4
  Resolution = 1
  Increments <- NoIncrements
  Horizon = 56
INVARIANTS
  ReadingsIncrease
CHECK_DEADLOCK FALSE
