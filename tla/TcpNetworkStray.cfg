\* A frame of a closed connection on its successor.
SPECIFICATION ThreadsSpec
CONSTANTS
  c1 = c1  c2 = c2  a = a  b = b
  Conn = {c1, c2}
  Node = {a, b}
  Route <- RouteParallel
  Fd = {1, 2}
  is_direct = FALSE
  Kinds = {"msg"}
  Budget <- TwoFrames
  ConnectFaults = {}
INVARIANTS
  NoCrossTalk
CHECK_DEADLOCK FALSE
