----------------------------- MODULE TcpNetwork -----------------------------
(* The message router of tproxy (src/tproxy/TcpNetwork.cpp): the epoll loop  *)
(* that accepts connections and reads the frames the intercepted programs    *)
(* send, the per-channel buffers, and the commands that deliver a buffered   *)
(* frame, partition a node and recover it.                                   *)
(*                                                                           *)
(* Grain.  One iteration of a receive loop, one accept, one command is one   *)
(* step; a deliver command that waits on an empty buffer is two or more.     *)
(* With the DIRECT strategy the program is single-threaded and this is       *)
(* exact; with CMD and FILE it is what happens as long as the epoll thread   *)
(* and the command thread are not inside a handler at the same moment.       *)
(* TcpNetworkThreads has the overlaps.                                       *)
EXTENDS Endpoints, Integers, Sequences

CONSTANTS
  Fd,             \* the descriptors the process may still open
  is_direct,      \* strategy DIRECT: forward at once, no commands
  Kinds,          \* what the programs may put on the wire, see AppSend
  Budget,         \* bound: how many items each end writes, EOF apart
  ConnectFaults   \* how connect_peer may fail, beyond want of descriptors

NoFd == -1
Free == <<"free">>
Leaked == <<"leaked">>
NoEntry == [self_fd |-> Free, disconnected |-> FALSE]
Idle == <<"idle">>

FrameKinds == {"msg", "empty"}
AllKinds == FrameKinds \cup {"raw", "cut", "stub"}

ASSUME ConstantsAssumption ==
  /\ Fd \subseteq Nat
  /\ is_direct \in BOOLEAN
  /\ Kinds \subseteq AllKinds
  /\ Budget \in [End -> Nat]
  /\ ConnectFaults \subseteq {"refused", "bind"}

VARIABLES
  \* -- the programs and the kernel
  asked,                \* connections the clients have opened
  backlog,              \* connections the kernel holds for accept
  listen_event,         \* the edge-triggered readiness of the listening socket
  sent,                 \* sent[e]: the items the program at e has written
  read,                 \* read[e]: how many of them the proxy has read
  sock,                 \* sock[f]: the connection end the descriptor f is open on
  out,                  \* out[e]: the items the program at e has been written
  \* -- the proxy
  up,                   \* the process has not been terminated by an exception
  fd_cell,              \* fd_cell[e]: the shared integer the pointers to e's descriptor share
  fd_to_channel_status,
  unintercepted_fd,
  network,              \* network[ch]: the buffered messages
  channels,             \* the keys of the map network
  waiting               \* the channel a deliver command waits on, or Idle

kernel == <<asked, backlog, listen_event>>
tables == <<sock, fd_cell, fd_to_channel_status, unintercepted_fd>>
buffers == <<network, channels, waiting>>
vars == <<kernel, sent, read, out, up, tables, buffers>>

\* A message: the end whose descriptor cell it is to be written to, and which
\* item of which end it is.
Msg == [fd : End, from : End, n : Nat]

\* An item as its receiver got it: from whom, which one, whether it was passed
\* on unintercepted (with whatever framing it had), and if so whether whole.
Item == [from : End, n : Nat, raw : BOOLEAN, whole : BOOLEAN]

TypeOK ==
  /\ asked \subseteq Conn
  /\ backlog \in Seq(Conn)
  /\ listen_event \in BOOLEAN
  /\ sent \in [End -> Seq(AllKinds \cup {"eof"})]
  /\ read \in [End -> Nat]
  /\ sock \in [Fd -> End \cup {Free, Leaked}]
  /\ out \in [End -> Seq(Item)]
  /\ up \in BOOLEAN
  /\ fd_cell \in [End -> Fd \cup {NoFd}]
  /\ fd_to_channel_status \in
       [Fd -> [self_fd : End, disconnected : BOOLEAN] \cup {NoEntry}]
  /\ unintercepted_fd \subseteq Fd
  /\ network \in [Channel -> Seq(Msg)]
  /\ channels \subseteq Channel
  /\ waiting \in Channel \cup {Idle}

Init ==
  /\ asked = {} /\ backlog = <<>> /\ listen_event = FALSE
  /\ sent = [e \in End |-> <<>>] /\ read = [e \in End |-> 0]
  /\ sock = [f \in Fd |-> Free]
  /\ out = [e \in End |-> <<>>]
  /\ up = TRUE
  /\ fd_cell = [e \in End |-> NoFd]
  /\ fd_to_channel_status = [f \in Fd |-> NoEntry]
  /\ unintercepted_fd = {}
  /\ network = [ch \in Channel |-> <<>>] /\ channels = {}
  /\ waiting = Idle

-----------------------------------------------------------------------------
(* The programs and the kernel.                                              *)

Waits(c) == \E i \in DOMAIN backlog : backlog[i] = c

\* The program at e has a connection it can write to.
Reachable(e) == fd_cell[e] # NoFd \/ (e[2] = "client" /\ Waits(e[1]))

Finished(e) == \E i \in DOMAIN sent[e] : sent[e][i] \in {"eof", "cut", "stub"}
HasClosed(e) == \E i \in DOMAIN sent[e] : sent[e][i] = "eof"

ClientConnect(c) ==
  /\ c \notin asked
  /\ asked' = asked \cup {c}
  /\ backlog' = Append(backlog, c)
  /\ listen_event' = TRUE
  /\ UNCHANGED <<sent, read, out, up, tables, buffers>>

\* What a program writes: "msg", a frame (header and body); "empty", a header
\* announcing no body; "raw", bytes that packet_validation rejects; "cut", a
\* header whose body never comes complete; "stub", 4 to 7 bytes of a header
\* and no more.
AppSend(e, k) ==
  /\ Reachable(e) /\ ~Finished(e)
  /\ Len(sent[e]) < Budget[e]
  /\ sent' = [sent EXCEPT ![e] = Append(@, k)]
  /\ UNCHANGED <<kernel, read, out, up, tables, buffers>>

AppClose(e) ==
  /\ Reachable(e) /\ ~HasClosed(e)
  /\ sent' = [sent EXCEPT ![e] = Append(@, "eof")]
  /\ UNCHANGED <<kernel, read, out, up, tables, buffers>>

-----------------------------------------------------------------------------
(* Descriptors and the table of connections.                                 *)

FreeFd == {f \in Fd : sock[f] = Free}

\* The kernel hands out the lowest free descriptor.
IsLowest(f, F) == f \in F /\ \A g \in F : f <= g

HasEntry(f) == fd_to_channel_status[f] # NoEntry
EndOf(f) == fd_to_channel_status[f].self_fd
Disconnected(f) == fd_to_channel_status[f].disconnected

PairAlone(f) == {f}                     \* mutant: close_peer left out

\* The entries close_connection reaches from f: f's and the one its fd points to.
Pair(f) ==
  {f} \cup {g \in Fd : HasEntry(g) /\ fd_cell[Peer(EndOf(f))] = g}

(* do_close, for the fds of F; each part is preceded by its mutant, which    *)
(* leaves the assignment out.                                                *)

KeepFds(F) == UNCHANGED sock
CloseFds(F) == sock' = [f \in Fd |-> IF f \in F THEN Free ELSE sock[f]]

KeepCells(F) == UNCHANGED fd_cell
NegateCells(F) ==                       \* mutant: dead is the negated descriptor
  fd_cell' = [e \in End |->
    IF \E f \in F : EndOf(f) = e THEN 0 - fd_cell[e] ELSE fd_cell[e]]
ClearCells(F) ==
  fd_cell' = [e \in End |->
    IF \E f \in F : EndOf(f) = e THEN NoFd ELSE fd_cell[e]]

KeepUnintercepted(F) == UNCHANGED unintercepted_fd
EraseUnintercepted(F) == unintercepted_fd' = unintercepted_fd \ F

EraseEntries(F) ==
  fd_to_channel_status' = [f \in Fd |->
    IF f \in F THEN NoEntry ELSE fd_to_channel_status[f]]

\* close_connection(fd, false) for the connections whose entries are F.
Close(F) ==
  EraseUnintercepted(F) /\ CloseFds(F) /\ ClearCells(F) /\ EraseEntries(F)

\* close_connection(fd, true): the entries stay and are only marked.
Tag(F) ==
  /\ fd_to_channel_status' = [f \in Fd |->
        IF f \in F THEN [self_fd |-> EndOf(f), disconnected |-> TRUE]
                   ELSE fd_to_channel_status[f]]
  /\ UNCHANGED <<sock, fd_cell, unintercepted_fd>>

-----------------------------------------------------------------------------
(* The epoll loop: accepting.  The listening socket is edge-triggered and    *)
(* one event leads to one accept.                                            *)

Accepting(c) ==
  /\ up /\ listen_event
  /\ backlog # <<>> /\ c = Head(backlog)
  /\ listen_event' = FALSE
  /\ UNCHANGED <<asked, sent, read, out, buffers>>

Taken == backlog' = Tail(backlog) /\ up' = up

add_fd_to_channel(c, f, g) ==
  LET client == <<c, "client">>
      peer == <<c, "peer">>
      entry(e) == [self_fd |-> e, disconnected |-> FALSE]
  IN  /\ sock' = [sock EXCEPT ![f] = client, ![g] = peer]
      /\ fd_cell' = [fd_cell EXCEPT ![client] = f, ![peer] = g]
      /\ fd_to_channel_status' =
           [fd_to_channel_status EXCEPT ![f] = entry(client), ![g] = entry(peer)]
      /\ UNCHANGED unintercepted_fd

AcceptConnect(c) ==
  /\ Accepting(c) /\ Taken
  /\ \E f, g \in FreeFd :
       /\ IsLowest(f, FreeFd) /\ IsLowest(g, FreeFd \ {f})
       /\ add_fd_to_channel(c, f, g)

\* socket() or connect() fails: what was opened is closed again.
AcceptRefused(c) ==
  /\ Accepting(c) /\ Taken
  /\ FreeFd # {}
  /\ "refused" \in ConnectFaults \/ \A f, g \in FreeFd : f = g
  /\ UNCHANGED tables

\* setsockopt() or bind() fails: connect_peer returns without closing its socket.
AcceptLeaks(c) ==
  /\ Accepting(c) /\ Taken
  /\ "bind" \in ConnectFaults
  /\ \E f, g \in FreeFd :
       /\ IsLowest(f, FreeFd) /\ IsLowest(g, FreeFd \ {f})
       /\ sock' = [sock EXCEPT ![g] = Leaked]
  /\ UNCHANGED <<fd_cell, fd_to_channel_status, unintercepted_fd>>

\* accept() finds no descriptor; TcpSocket::accept tests the listening socket
\* instead of the result, and getsockname(-1) throws in the epoll thread.
AcceptDies(c) ==
  /\ Accepting(c)
  /\ FreeFd = {}
  /\ up' = FALSE
  /\ UNCHANGED <<backlog, tables>>

Accept == \E c \in Conn :
  AcceptConnect(c) \/ AcceptRefused(c) \/ AcceptLeaks(c) \/ AcceptDies(c)

-----------------------------------------------------------------------------
(* The epoll loop: receiving at descriptor f, one iteration of do_receive or *)
(* of transfer_unintercepted.                                                *)

\* The item at the head of what the proxy has still to read at f.
Next_n(f) == read[EndOf(f)] + 1
HeadKind(f) == sent[EndOf(f)][Next_n(f)]

Readable(f, kinds) ==
  /\ up /\ HasEntry(f)
  /\ Next_n(f) <= Len(sent[EndOf(f)])
  /\ HeadKind(f) \in kinds

Consume(f) == read' = [read EXCEPT ![EndOf(f)] = @ + 1]

\* A write at descriptor f reaches whatever end f is open on.
WriteItem(f, item) == out' = [out EXCEPT ![sock[f]] = Append(@, item)]

\* A write needs a descriptor that is open on a connection, whichever it is ...
OnConnection(f) == f \in Fd /\ sock[f] \in End

\* ... a blocking one may fail once the program at the other end is gone, ...
WriteMayFail(f) == HasClosed(sock[f])

\* ... and deliver_msg tests an uninitialised variable after an empty body.
BodyMayFail(f, m) == WriteMayFail(f) \/ sent[m.from][m.n] = "empty"

\* Mutant: the message is written although its connection is disconnected.
DeliverableAnyway(m) == fd_cell[m.fd] \in Fd /\ HasEntry(fd_cell[m.fd])

Deliverable(m) ==
  LET f == fd_cell[m.fd] IN f \in Fd /\ HasEntry(f) /\ ~Disconnected(f)

DeliverBody(m) ==
  /\ Deliverable(m)
  /\ WriteItem(fd_cell[m.fd], [from |-> m.from, n |-> m.n, raw |-> FALSE, whole |-> TRUE])
  /\ UNCHANGED tables

DeliverDrop(m) == ~Deliverable(m) /\ UNCHANGED <<out, tables>>

\* Mutant: a failed write does not end the connection.
DeliverFailsQuietly(m) ==
  /\ Deliverable(m) /\ BodyMayFail(fd_cell[m.fd], m)
  /\ UNCHANGED <<out, tables>>

DeliverFails(m) ==
  LET f == fd_cell[m.fd]
  IN  /\ Deliverable(m) /\ BodyMayFail(f, m)
      /\ IF is_direct THEN Close(Pair(f)) ELSE Tag(Pair(f))
      /\ UNCHANGED out

\* deliver_msg with a message in hand.
deliver(m) == DeliverBody(m) \/ DeliverDrop(m) \/ DeliverFails(m)

BufferLast(ch, m) ==
  /\ network' = [network EXCEPT ![ch] = Append(@, m)]
  /\ channels' = channels \cup {ch}
  /\ UNCHANGED <<out, tables, waiting>>


enqueue_msg(f, m) ==
  \/ Disconnected(f) /\ UNCHANGED <<out, tables, buffers>>
  \/ ~Disconnected(f) /\ is_direct /\ deliver(m) /\ UNCHANGED buffers
  \/ ~Disconnected(f) /\ ~is_direct /\ BufferLast(Chan(EndOf(f)), m)

\* Mutant: the message is given self_fd instead of fd.
NewMsgSelf(f) == [fd |-> EndOf(f), from |-> EndOf(f), n |-> Next_n(f)]

NewMsg(f) == [fd |-> Peer(EndOf(f)), from |-> EndOf(f), n |-> Next_n(f)]

\* A complete frame on an intercepted connection.
ReceiveFrame(f) ==
  /\ f \notin unintercepted_fd /\ Readable(f, FrameKinds)
  /\ Consume(f)
  /\ enqueue_msg(f, NewMsg(f))
  /\ UNCHANGED <<kernel, sent, up>>

\* EOF, or a body that does not come complete within the receive timeout.
EndsConnection(f) ==
  \/ Readable(f, {"eof"})
  \/ f \notin unintercepted_fd /\ Readable(f, {"cut"})

\* Mutant: the connection is only marked.
ReceiveEndTags(f) ==
  /\ EndsConnection(f) /\ Consume(f)
  /\ Tag(Pair(f))
  /\ UNCHANGED <<kernel, sent, out, up, buffers>>

ReceiveEnd(f) ==
  /\ EndsConnection(f) /\ Consume(f)
  /\ Close(Pair(f))
  /\ UNCHANGED <<kernel, sent, out, up, buffers>>

\* send without waiting: the kernel may take only part, and the rest is gone ...
PassOn(f, g) ==
  /\ OnConnection(g)
  /\ \E whole \in BOOLEAN :
       WriteItem(g, [from |-> EndOf(f), n |-> Next_n(f), raw |-> TRUE, whole |-> whole])
  /\ unintercepted_fd' = unintercepted_fd \cup {f}
  /\ UNCHANGED <<sock, fd_cell, fd_to_channel_status>>

\* Mutant: the test that is commented out at TcpNetwork.cpp:353, for any error.
PassOnFailsQuietly(f, g) == UNCHANGED <<tables, out>>

\* ... or nothing: the receiver is gone, or has not read for a while.
PassOnFails(f, g) == Close(Pair(f)) /\ UNCHANGED out

\* transfer_unintercepted, after set_unintercepted if validation just failed.
ReceiveRaw(f) ==
  LET g == fd_cell[Peer(EndOf(f))]
  IN  /\ Readable(f, IF f \in unintercepted_fd THEN AllKinds ELSE {"raw"})
      /\ Consume(f)
      /\ PassOn(f, g) \/ PassOnFails(f, g)
      /\ UNCHANGED <<kernel, sent, up, buffers>>

do_receive(f) == ReceiveFrame(f) \/ ReceiveEnd(f) \/ ReceiveRaw(f)

-----------------------------------------------------------------------------
(* The commands (strategies FILE and CMD), one at a time.                    *)

Commanding == up /\ ~is_direct /\ waiting = Idle

\* deliver_msg without a message; without a key it returns, which is no step.
DeliverCmd(ch) ==
  /\ Commanding /\ ch \in channels
  /\ waiting' = ch
  /\ UNCHANGED <<kernel, sent, read, out, up, tables, network, channels>>

HeadMsg == Head(network[waiting])

Dequeue ==
  /\ up /\ waiting # Idle
  /\ network[waiting] # <<>>
  /\ network' = [network EXCEPT ![waiting] = Tail(@)]
  /\ UNCHANGED <<kernel, sent, read, up, channels>>

\* The message belongs to a closed connection: the loop takes the next one.
DequeueDead ==
  /\ Dequeue /\ fd_cell[HeadMsg.fd] = NoFd
  /\ UNCHANGED <<out, tables, waiting>>

DequeueDeliver ==
  /\ Dequeue /\ fd_cell[HeadMsg.fd] # NoFd
  /\ deliver(HeadMsg)
  /\ waiting' = Idle

DeliverTimeout ==
  /\ up /\ waiting # Idle
  /\ network[waiting] = <<>>
  /\ waiting' = Idle
  /\ UNCHANGED <<kernel, sent, read, out, up, tables, network, channels>>

Delivery == DequeueDead \/ DequeueDeliver \/ DeliverTimeout

\* The entries whose messages come from node.
EntriesOf(node) == {f \in Fd : HasEntry(f) /\ Chan(EndOf(f))[1] = node}
PairsOf(node) == UNION {Pair(f) : f \in EntriesOf(node)}

partition(node) ==
  /\ Commanding
  /\ EntriesOf(node) # {}
  /\ Tag(PairsOf(node))
  /\ UNCHANGED <<kernel, sent, read, out, up, buffers>>

recover(node) ==
  LET cleared == {Chan(EndOf(f)) : f \in EntriesOf(node)}
  IN  /\ Commanding
      /\ EntriesOf(node) # {}
      /\ Close(PairsOf(node))
      /\ network' = [ch \in Channel |->
                        IF ch \in cleared THEN <<>> ELSE network[ch]]
      /\ UNCHANGED <<kernel, sent, read, out, up, channels, waiting>>

\* Printing the size of a buffer creates the buffer.
print_status ==
  /\ Commanding
  /\ channels' = channels \cup {Chan(EndOf(f)) : f \in {g \in Fd : HasEntry(g)}}
  /\ UNCHANGED <<kernel, sent, read, out, up, tables, network, waiting>>

-----------------------------------------------------------------------------
Environment ==
  \/ \E c \in Conn : ClientConnect(c)
  \/ \E e \in End : AppClose(e) \/ \E k \in Kinds : AppSend(e, k)

Epoll == Accept \/ \E f \in Fd : do_receive(f)

Commands ==
  \/ \E ch \in Channel : DeliverCmd(ch)
  \/ Delivery
  \/ \E node \in Node : partition(node) \/ recover(node)
  \/ print_status

Next == Environment \/ Epoll \/ Commands

Spec == Init /\ [][Next]_vars

\* The epoll loop keeps serving every descriptor and a deliver command under
\* way ends; nobody is obliged to connect, write, close or type a command.
Fairness ==
  /\ WF_vars(Accept)
  /\ \A f \in Fd : WF_vars(do_receive(f))
  /\ WF_vars(Delivery)

FairSpec == Spec /\ Fairness
=============================================================================
