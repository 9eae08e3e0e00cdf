\* Two connections one after the other on the same descriptors, or side by side.
SPECIFICATION ThreadsSpec
CONSTANTS
  c1 = c1  c2 = c2  a = a  b = b
  Conn = {c1, c2}
  Node = {a, b}
  Route <- RouteParallel
  Fd = {1, 2, 3, 4}
  is_direct = FALSE
  Kinds = {"msg", "empty"}
  Budget <- TwoFrames
  ConnectFaults = {}
INVARIANTS
  ThreadsTypeOK
  TablesSettle
  OwnFramesInOrder
  StrayFromClosed
CHECK_DEADLOCK FALSE
