--------------------------- MODULE TcpNetworkProps ---------------------------
(* What makes the router correct.                                            *)
EXTENDS TcpNetwork

-----------------------------------------------------------------------------
(* Safety.                                                                   *)

\* The kernel's descriptors, the shared integers behind self_fd and fd, and
\* the map fd_to_channel_status agree: an entry's descriptor is open on the end
\* the entry describes and its shared integer holds that descriptor, a shared
\* integer is -1 or the key of its end's entry, and every descriptor open on a
\* connection has an entry, so that none is lost (do_close, add_fd_to_channel).
DescriptorsConsistent ==
  /\ \A f \in Fd : HasEntry(f) => sock[f] = EndOf(f) /\ fd_cell[EndOf(f)] = f
  /\ \A e \in End : fd_cell[e] # NoFd =>
        HasEntry(fd_cell[e]) /\ EndOf(fd_cell[e]) = e
  /\ \A f \in Fd : sock[f] \in End => HasEntry(f)

\* The two ends of a connection are opened, marked disconnected and closed
\* together, whichever of them the event or the command names
\* (close_connection, partition, recover).
BothEndsTogether ==
  \A f \in Fd : HasEntry(f) =>
    \E g \in Fd : /\ HasEntry(g)
                  /\ EndOf(g) = Peer(EndOf(f))
                  /\ Disconnected(g) = Disconnected(f)

\* What a program receives was sent by the program at the other end of the
\* same connection: a message buffered for a connection that has been closed
\* is never written to a later connection that got the same descriptor
\* (the comment on self_fd and fd, TcpNetwork.h:90).
NoCrossTalk ==
  \A e \in End : \A i \in DOMAIN out[e] : out[e][i].from = Peer(e)

\* Bytes are passed on without their framing being looked at only after their
\* own connection has sent something that fails validation: a connection does
\* not inherit that from an earlier one with its descriptor (unintercepted_fd).
RawOnlyAfterBadFrame ==
  \A e \in End : \A i \in DOMAIN out[e] :
    out[e][i].raw => \E j \in 1 .. out[e][i].n : sent[out[e][i].from][j] = "raw"

\* With DIRECT, an end receives something of each of the first items its peer
\* wrote, in order, framed and unframed ones together: what cannot be written at
\* all ends the connection, and nothing comes behind it (deliver_msg,
\* transfer_unintercepted).  What a send takes only part of is the next section's.
DirectKeepsOrder ==
  is_direct => \A e \in End : \A i \in DOMAIN out[e] : out[e][i].n = i

-----------------------------------------------------------------------------
(* What the safety invariants rest on.                                       *)

\* A connection waits in the backlog at most once, and has no descriptors
\* before it is accepted (ClientConnect, do_accept_connect).
ConnectedOnce ==
  /\ \A i, j \in DOMAIN backlog : backlog[i] = backlog[j] => i = j
  /\ \A c \in Conn : Waits(c) => c \in asked
  /\ \A e \in End : fd_cell[e] # NoFd => e[1] \in asked /\ ~Waits(e[1])

\* A buffered message is addressed to the other end of the connection it was
\* read from, whether that is still open or not (do_receive, enqueue_msg).
MessagesAddressed ==
  \A ch \in Channel : \A i \in DOMAIN network[ch] :
    network[ch][i].from = Peer(network[ch][i].fd)

\* The inductive invariant.
Inv ==
  /\ TypeOK
  /\ DescriptorsConsistent
  /\ BothEndsTogether
  /\ ConnectedOnce
  /\ MessagesAddressed
  /\ NoCrossTalk

-----------------------------------------------------------------------------
(* Refinement.                                                               *)

LinkState(c) ==
  LET f == fd_cell[<<c, "client">>]
  IN  IF f # NoFd THEN IF Disconnected(f) THEN "cut" ELSE "up"
      ELSE IF c \notin asked \/ Waits(c) THEN "new" ELSE "cut"

TheLink == INSTANCE Link WITH
  state <- [c \in Conn |-> LinkState(c)],
  written <- [e \in End |-> Len(sent[e])],
  received <- out

\* Frames are delivered once, in order, without gaps and never after their
\* connection has been cut, and unframed bytes once, in order and from behind
\* them, through every mixture of buffering, deliver commands, partition,
\* recover, closed and reused descriptors.
ImplementsLink == TheLink!Spec

-----------------------------------------------------------------------------
(* Liveness.                                                                 *)

Stalled(e) == \E i \in DOMAIN sent[e] : sent[e][i] = "stub"



-----------------------------------------------------------------------------
(* What the documentation says and the code does not do.                     *)

\* README.md:29 says that tproxy intercepts the network traffic and masquerades
\* as peers: a connection a client opens is taken up.
EveryClientAccepted == \A c \in Conn : Waits(c) ~> ~Waits(c) \/ ~up
=============================================================================
