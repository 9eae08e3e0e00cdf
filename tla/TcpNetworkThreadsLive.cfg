\* The same with one frame, for the liveness of both threads.
SPECIFICATION ThreadsFairSpec
CONSTANTS
  c1 = c1  c2 = c2  a = a  b = b
  Conn = {c1, c2}
  Node = {a, b}
  Route <- RouteParallel
  Fd = {1, 2, 3, 4}
  is_direct = FALSE
  Kinds = {"msg"}
  Budget <- OneFrame
  ConnectFaults = {}
PROPERTIES
  CommandEnds
  RecoverCloses
  EofStillCloses
CHECK_DEADLOCK FALSE
