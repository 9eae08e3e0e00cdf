\* Two connections whose frames share the buffers of a channel, under commands:
\* side by side, or the second on the descriptors of the first.
SPECIFICATION Spec
CONSTANTS
  c1 = c1  c2 = c2  a = a  b = b
  Conn = {c1, c2}
  Node = {a, b}
  Route <- RouteParallel
  Fd = {0, 1, 2, 3}
  is_direct = FALSE
  Kinds = {"msg", "raw", "cut"}
  Budget <- TwoAndOne
  ConnectFaults = {"bind"}
INVARIANTS
  TypeOK
  DescriptorsConsistent
  BothEndsTogether
  NoCrossTalk
  RawOnlyAfterBadFrame
PROPERTIES
  ImplementsLink
CHECK_DEADLOCK FALSE
