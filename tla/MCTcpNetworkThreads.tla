------------------------- MODULE MCTcpNetworkThreads -------------------------
(* Instances of TcpNetworkThreads for TLC.                                   *)
EXTENDS TcpNetworkThreads, TLC

CONSTANTS c1, c2, a, b

RouteParallel == c1 :> <<a, b>> @@ c2 :> <<a, b>>

\* Bounds on what the programs write, EOFs apart, all on one connection.
Frames(n) == [e \in Conn \X {"client", "peer"} |->
  IF e = <<c1, "client">> THEN n ELSE 0]
OneFrame == Frames(1)
TwoFrames == Frames(2)
=============================================================================
