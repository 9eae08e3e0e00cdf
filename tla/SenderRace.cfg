\* A descriptor closed by one thread and opened by another.
SPECIFICATION SenderSpec
CONSTANTS
  t1 = t1  t2 = t2  s1 = s1  s2 = s2
  Unopened = Unopened  Closed = Closed
  Thread = {t1, t2}
  Fd = {3}
  Sock = {s1, s2}
  Incoming = {s2}
  Concerned = {s1, s2}
  NonBlocking = {}
  Lens = {1}
  MaxSends <- Once
INVARIANTS
  HeadersFirst
CHECK_DEADLOCK FALSE
