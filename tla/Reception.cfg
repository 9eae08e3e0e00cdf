\* Two threads, three sockets on two descriptors, one peer of no concern.
SPECIFICATION ReceptionSpec
CONSTANTS
  t1 = t1  t2 = t2  s1 = s1  s2 = s2  s3 = s3
  Unopened = Unopened  Closed = Closed
  Thread = {t1, t2}
  Fd = {3, 4}
  Sock = {s1, s2, s3}
  Incoming = {s2}
  Concerned = {s1, s2}
  NonBlocking = {s1}
  Lens = {0, 2}
  MaxSends <- Messages
INVARIANTS
  SenderTypeOK
  Traced
  PlainUntouched
  StaleEntriesGo
  Transparent
SYMMETRY Threads
CHECK_DEADLOCK FALSE
