\* One program thread and the thread that takes the router's commands.
SPECIFICATION Spec
CONSTANTS
  t1 = t1  t2 = t2
  Thread = {t1}
  S_TO_NS = 4
  Resolution = 1
  Increments <- SomeIncrements
  Horizon = 56
INVARIANTS
  TypeOK
  NeverBackwards
PROPERTIES
  ImplementsClock
CHECK_DEADLOCK FALSE
