---------------------------- MODULE MCTcpNetwork ----------------------------
(* Instances of TcpNetwork for TLC, and the properties its runs check.       *)
EXTENDS TcpNetworkProps, TLC

CONSTANTS c1, c2, a, b

\* Both connections on the same channels, opened from the same node ...
RouteParallel == c1 :> <<a, b>> @@ c2 :> <<a, b>>
\* ... or from the two nodes of the channel.
RouteCrossed == c1 :> <<a, b>> @@ c2 :> <<b, a>>

\* Bounds on what the programs write, EOFs apart.
Frames(first, second) ==
  [e \in Conn \X {"client", "peer"} |->
     IF e = <<c1, "client">> THEN first
     ELSE IF e = <<c2, "client">> THEN second ELSE 0]
OneEach == Frames(1, 1)
TwoAndOne == Frames(2, 1)
=============================================================================
