\* Both readers of every file of three lines.
CONSTANTS
  OctetBits = 2
  Ports = {1, 2, 3, 9}
  Line <- SomeLines
  File <- Files
  inet_aton <- Dotted
SPECIFICATION ConfigSpec
INVARIANTS MasqueradedAreFramed FramedAreMasqueraded WidestPrefix NamesResolve
CHECK_DEADLOCK FALSE
