------------------------------ MODULE Endpoints ------------------------------
(* The two ends of every TCP connection that tproxy splits.                  *)
(*                                                                           *)
(* A client connects to a masqueraded address; tproxy accepts the connection *)
(* and opens a second one to the real peer.  Such a pair is one element of   *)
(* Conn; its "client" end is the socket accepted, its "peer" end the socket  *)
(* that connect_peer opened.  A channel is a pair of node addresses with the *)
(* port erased, so that connections with the same two nodes share it.        *)
CONSTANTS
  Conn,     \* the connection attempts of the clients
  Node,     \* the node addresses (ports erased)
  Route     \* Route[c]: the client's node and the node c is masqueraded to

ASSUME RouteAssumption ==
  /\ Route \in [Conn -> Node \X Node]
  /\ \A c \in Conn : Route[c][1] # Route[c][2]

Side == {"client", "peer"}
End == Conn \X Side

\* The other end: what is read at e is written at Peer(e).
Peer(e) == <<e[1], IF e[2] = "client" THEN "peer" ELSE "client">>

Channel == Node \X Node

\* The channel of what is read at end e.
Chan(e) == IF e[2] = "client" THEN Route[e[1]]
                              ELSE <<Route[e[1]][2], Route[e[1]][1]>>
=============================================================================
