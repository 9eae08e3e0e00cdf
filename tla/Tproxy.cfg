\* The process with each strategy.
CONSTANTS
  Script <- Scripts
  Node = {"n1", "n2"}
  Proc = {"p1", "p2", "p3"}
  NodeOf <- TwoOnOne
  Fd = {1, 2}
  Client = {"c1", "c2"}
  Routed = {"c1"}
  MaxPieces = 2
SPECIFICATION TproxySpec
INVARIANTS TproxyTypeOK RunsWhatWasEntered OwnCommandsInOrder TablesAgree NobodyCutOff NothingLeaks
PROPERTIES GoneAreClosed EveryoneServed ExitEnds
CHECK_DEADLOCK FALSE
