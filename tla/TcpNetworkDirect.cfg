\* The DIRECT strategy, all kinds of traffic; descriptors are reused.
SPECIFICATION FairSpec
CONSTANTS
  c1 = c1  c2 = c2  a = a  b = b
  Conn = {c1, c2}
  Node = {a, b}
  Route <- RouteCrossed
  Fd = {0, 1}
  is_direct = TRUE
  Kinds = {"msg", "empty", "raw", "cut", "stub"}
  Budget <- TwoAndOne
  ConnectFaults = {"refused"}
INVARIANTS
  DirectKeepsOrder
PROPERTIES
  ImplementsLink
  
  
CHECK_DEADLOCK FALSE
