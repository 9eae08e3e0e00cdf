\* Two connections that arrive before the epoll loop wakes are one event.
SPECIFICATION FairSpec
CONSTANTS
  c1 = c1  c2 = c2  a = a  b = b
  Conn = {c1, c2}
  Node = {a, b}
  Route <- RouteParallel
  Fd = {0, 1, 2, 3}
  is_direct = FALSE
  Kinds = {"msg", "raw"}
  Budget <- OneEach
  ConnectFaults = {}
PROPERTIES
  EveryClientAccepted
CHECK_DEADLOCK FALSE
