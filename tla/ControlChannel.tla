---------------------------- MODULE ControlChannel ----------------------------
(* The connections on which tproxy gives commands to the programs: accepted  *)
(* at the router's address, kept in client_to_fd (by node) and fd_to_client  *)
(* (by descriptor), written by send_cmd in the command thread and closed by  *)
(* either thread.  The other end is do_router_cmd in each program.           *)
(*                                                                           *)
(* A step is what lies between two calls or map operations that the other    *)
(* thread can tell apart.  Where a thread uses an iterator whose entry has   *)
(* been erased the behaviour is undefined; up becomes FALSE.                 *)
EXTENDS Integers, Sequences, Functions

CONSTANTS
  Node,       \* the nodes, that is their addresses
  Proc,       \* the programs started on them, restarts included
  NodeOf,     \* the node of each program
  Fd          \* tproxy's descriptors left for control connections

NoOne == "-"

ASSUME ControlAssumption ==
  /\ NodeOf \in [Proc -> Node] /\ Fd \subseteq Nat \ {0}
  /\ NoOne \notin Node \cup Proc

Texts == {"inc", "warn", "throw", "long"}
Cmd == [to : Node, id : Nat, text : Texts]

NoFd == -1
Listen == 0       \* stands for the listening socket
NotSending == [at |-> "idle"]
Waiting == [at |-> "wait"]

VARIABLES
  proc,           \* what has become of each program
  moved,          \* programs whose cmd_buffer has been moved by resize
  got,            \* history: the commands a program has taken from the wire
  wire,           \* what tproxy has written to a program
  backlog,        \* connections that wait for accept
  listen_event,   \* the edge of the listening socket
  sock,           \* whose connection a descriptor is
  client_to_fd, fd_to_client,
  events,         \* what epoll_wait has returned and is not handled yet
  ctl,            \* where the epoll thread is
  sending,        \* where send_cmd is
  up,             \* FALSE once the process has ended or is undefined
  overlapped      \* history: nodes connected over something left in the tables

programVars == <<proc, moved, got>>
tableVars == <<client_to_fd, fd_to_client>>
epollVars == <<events, ctl>>
controlVars == <<programVars, wire, backlog, listen_event, sock, tableVars,
                 epollVars, sending, up, overlapped>>

ControlTypeOK ==
  /\ proc \in [Proc -> {"absent", "off", "on", "deaf", "dead"}]
  /\ moved \subseteq Proc
  /\ got \in [Proc -> Seq(Cmd)] /\ wire \in [Proc -> Seq(Cmd)]
  /\ backlog \in Seq(Proc) /\ listen_event \in BOOLEAN
  /\ sock \in [Fd -> Proc \cup {NoOne}]
  /\ client_to_fd \in [Node -> Fd \cup {NoFd}]
  /\ fd_to_client \in [Fd -> Node \cup {NoOne}]
  /\ events \subseteq Fd \cup {Listen}
  /\ ctl \in {Waiting} \cup [at : {"accepted", "inactive", "closed"}, fd : Fd, node : Node]
  /\ sending \in {NotSending} \cup
                 [at : {"found", "failed", "closed"}, cmd : Cmd, dangling : BOOLEAN]
  /\ up \in BOOLEAN /\ overlapped \subseteq Node

\* The programs in P are started at some time, the others not.
ControlInit(P) ==
  /\ proc = [p \in Proc |-> IF p \in P THEN "off" ELSE "absent"] /\ moved = {}
  /\ got = [p \in Proc |-> <<>>] /\ wire = [p \in Proc |-> <<>>]
  /\ backlog = <<>> /\ listen_event = FALSE
  /\ sock = [f \in Fd |-> NoOne]
  /\ client_to_fd = [n \in Node |-> NoFd] /\ fd_to_client = [f \in Fd |-> NoOne]
  /\ events = {} /\ ctl = Waiting /\ sending = NotSending
  /\ up = TRUE /\ overlapped = {}

Gone(p) == proc[p] \in {"deaf", "dead"}
Free == {f \in Fd : sock[f] = NoOne}
IsLowest(f) == \A g \in Free : f <= g
Closing(f) == sock' = [sock EXCEPT ![f] = NoOne]

-----------------------------------------------------------------------------
(* The programs.                                                             *)

\* connect_router, once in the life of a program.
connect_router(p) ==
  /\ up /\ proc[p] = "off"
  /\ proc' = [proc EXCEPT ![p] = "on"]
  /\ backlog' = Append(backlog, p) /\ listen_event' = TRUE
  /\ UNCHANGED <<moved, got, wire, sock, tableVars, epollVars, sending, up, overlapped>>

Die(p) ==
  /\ proc[p] = "on"
  /\ proc' = [proc EXCEPT ![p] = "dead"]
  /\ UNCHANGED <<moved, got, wire, backlog, listen_event, sock, tableVars,
                 epollVars, sending, up, overlapped>>

\* What becomes of a program that has taken a command: stoi throws in a thread
\* without a handler, and after a command of 1024 bytes or more header points
\* into the buffer that resize has given back.
After(p, cmd) ==
  CASE p \in moved          -> {"dead", "deaf"}
    [] cmd.text = "throw"   -> {"dead"}
    [] OTHER                -> {"on"}

\* One turn of do_router_cmd.
do_router_cmd(p) ==
  /\ proc[p] = "on" /\ wire[p] # <<>>
  /\ LET cmd == Head(wire[p]) IN
       /\ \E s \in After(p, cmd) : proc' = [proc EXCEPT ![p] = s]
       /\ got' = [got EXCEPT ![p] = IF p \in moved THEN @ ELSE Append(@, cmd)]
       /\ moved' = IF cmd.text = "long" THEN moved \cup {p} ELSE moved
  /\ wire' = [wire EXCEPT ![p] = Tail(@)]
  /\ UNCHANGED <<backlog, listen_event, sock, tableVars, epollVars, sending, up, overlapped>>

\* recv returns 0: tproxy has closed the connection.
RouterClosed(p) ==
  /\ proc[p] = "on" /\ wire[p] = <<>>
  /\ p \notin Range(backlog) \cup Range(sock)
  /\ proc' = [proc EXCEPT ![p] = "deaf"]
  /\ UNCHANGED <<moved, got, wire, backlog, listen_event, sock, tableVars,
                 epollVars, sending, up, overlapped>>

Programs == \E p \in Proc : connect_router(p) \/ Die(p) \/ do_router_cmd(p) \/ RouterClosed(p)

-----------------------------------------------------------------------------
(* The epoll thread.                                                         *)

Ready == {f \in Fd : sock[f] # NoOne /\ Gone(sock[f])}
           \cup (IF listen_event THEN {Listen} ELSE {})

epoll_wait ==
  /\ up /\ ctl = Waiting /\ events = {} /\ Ready # {}
  /\ events' = Ready
  /\ listen_event' = FALSE
  /\ UNCHANGED <<programVars, wire, backlog, sock, tableVars, ctl, sending, up, overlapped>>

\* The connection overlaps an earlier one: its node or its descriptor has not
\* gone from both tables yet.
Overlaps(n, f) ==
  \/ client_to_fd[n] # NoFd \/ n \in Range(fd_to_client)
  \/ fd_to_client[f] # NoOne \/ f \in Range(client_to_fd)

\* do_accept_connect up to client_to_fd[...] = ...
CtlAccept ==
  /\ up /\ ctl = Waiting /\ Listen \in events
  /\ \E f \in Free : LET p == Head(backlog)  n == NodeOf[p] IN
       /\ IsLowest(f)
       /\ sock' = [sock EXCEPT ![f] = p]
       /\ client_to_fd' = [client_to_fd EXCEPT ![n] = f]
       /\ ctl' = [at |-> "accepted", fd |-> f, node |-> n]
       /\ overlapped' = IF Overlaps(n, f) THEN overlapped \cup {n} ELSE overlapped
  /\ backlog' = Tail(backlog)
  /\ events' = events \ {Listen}
  /\ UNCHANGED <<programVars, wire, listen_event, fd_to_client, sending, up>>

\* No descriptor is left: getsockname throws.
CtlAcceptDies ==
  /\ up /\ ctl = Waiting /\ Listen \in events /\ Free = {}
  /\ up' = FALSE
  /\ UNCHANGED <<programVars, wire, backlog, listen_event, sock, tableVars,
                 epollVars, sending, overlapped>>

\* The rest of it; add_monitor_fd throws if send_cmd has closed the descriptor.
CtlRecord ==
  /\ up /\ ctl.at = "accepted"
  /\ fd_to_client' = [fd_to_client EXCEPT ![ctl.fd] = ctl.node]
  /\ up' = (sock[ctl.fd] # NoOne)
  /\ ctl' = Waiting
  /\ UNCHANGED <<programVars, wire, backlog, listen_event, sock, client_to_fd,
                 events, sending, overlapped>>

IsActive(f) == sock[f] # NoOne /\ ~Gone(sock[f])

\* Mutant: an event without an entry is ignored.
CtlEventIgnored(f) ==
  /\ up /\ ctl = Waiting /\ f \in events \ {Listen}
  /\ events' = events \ {f}
  /\ ctl' = IF fd_to_client[f] # NoOne /\ ~IsActive(f)
              THEN [at |-> "inactive", fd |-> f, node |-> fd_to_client[f]] ELSE ctl
  /\ UNCHANGED <<programVars, wire, backlog, listen_event, sock, tableVars, sending, up,
                 overlapped>>

\* find and check_connection_is_active; without an entry do_receive closes.
CtlEvent(f) ==
  /\ up /\ ctl = Waiting /\ f \in events \ {Listen}
  /\ events' = events \ {f}
  /\ \/ fd_to_client[f] # NoOne /\ ~IsActive(f)
        /\ ctl' = [at |-> "inactive", fd |-> f, node |-> fd_to_client[f]]
        /\ sock' = sock
     \/ fd_to_client[f] # NoOne /\ IsActive(f) /\ UNCHANGED <<ctl, sock>>
     \/ fd_to_client[f] = NoOne /\ Closing(f) /\ ctl' = ctl
  /\ UNCHANGED <<programVars, wire, backlog, listen_event, tableVars, sending, up,
                 overlapped>>

\* close(it->first), unless send_cmd has erased the entry of it.
CtlClose ==
  /\ up /\ ctl.at = "inactive"
  /\ IF fd_to_client[ctl.fd] = NoOne
       THEN up' = FALSE /\ UNCHANGED <<sock, ctl>>
       ELSE Closing(ctl.fd) /\ ctl' = [ctl EXCEPT !.at = "closed"] /\ up' = up
  /\ UNCHANGED <<programVars, wire, backlog, listen_event, tableVars, events,
                 sending, overlapped>>

Holds(n) == sending.at # "idle" /\ sending.cmd.to = n

\* Mutant: client_to_fd is not cleared.
ForgetNode(n) == client_to_fd' = client_to_fd

\* Mutant: another table's empty value.
EraseNodeBadly(n) == client_to_fd' = [client_to_fd EXCEPT ![n] = Listen]

\* client_to_fd.erase(it->second), whichever descriptor it holds by now.
EraseNode(n) == client_to_fd' = [client_to_fd EXCEPT ![n] = NoFd]

CtlErase ==
  /\ up /\ ctl.at = "closed"
  /\ IF fd_to_client[ctl.fd] = NoOne
       THEN up' = FALSE /\ UNCHANGED <<tableVars, sending, ctl>>
       ELSE /\ EraseNode(ctl.node)
            /\ fd_to_client' = [fd_to_client EXCEPT ![ctl.fd] = NoOne]
            /\ sending' = IF Holds(ctl.node) /\ client_to_fd[ctl.node] # NoFd
                            THEN [sending EXCEPT !.dangling = TRUE] ELSE sending
            /\ ctl' = Waiting /\ up' = up
  /\ UNCHANGED <<programVars, wire, backlog, listen_event, sock, events, overlapped>>

CtlEpoll == \/ epoll_wait \/ CtlAccept \/ CtlAcceptDies \/ CtlRecord
            \/ (\E f \in Fd : CtlEvent(f)) \/ CtlClose \/ CtlErase

-----------------------------------------------------------------------------
(* The command thread.                                                       *)

\* send_cmd finds the node, or gives up.
send_cmd(cmd) ==
  /\ up /\ sending = NotSending
  /\ sending' = IF client_to_fd[cmd.to] = NoFd THEN NotSending
                ELSE [at |-> "found", cmd |-> cmd, dangling |-> FALSE]
  /\ UNCHANGED <<programVars, wire, backlog, listen_event, sock, tableVars,
                 epollVars, up, overlapped>>

\* A step of send_cmd that uses its iterator.
Using == up /\ sending.at # "idle" /\ ~sending.dangling

\* Its entry has been erased by the epoll thread.
SendUndefined ==
  /\ up /\ sending.at # "idle" /\ sending.dangling
  /\ up' = FALSE
  /\ UNCHANGED <<programVars, wire, backlog, listen_event, sock, tableVars,
                 epollVars, sending, overlapped>>

Target == client_to_fd[sending.cmd.to]

\* Mutant: the command is written again when it has been.
SendWriteAgain ==
  /\ Using /\ sending.at = "found"
  /\ IF IsActive(Target)
       THEN /\ wire' = [wire EXCEPT ![sock[Target]] = Append(@, sending.cmd)]
            /\ sending' \in {NotSending, sending}
       ELSE sending' = [sending EXCEPT !.at = "failed"] /\ wire' = wire
  /\ UNCHANGED <<programVars, backlog, listen_event, sock, tableVars, epollVars, up,
                 overlapped>>

\* Mutant: a write that is complete is taken for one that has failed.
SendWriteShort ==
  /\ Using /\ sending.at = "found"
  /\ wire' = IF IsActive(Target)
               THEN [wire EXCEPT ![sock[Target]] = Append(@, sending.cmd)] ELSE wire
  /\ sending' = [sending EXCEPT !.at = "failed"]
  /\ UNCHANGED <<programVars, backlog, listen_event, sock, tableVars, epollVars, up,
                 overlapped>>

\* write(2): to a program that is gone it may succeed once or fail.
SendWrite ==
  /\ Using /\ sending.at = "found"
  /\ LET p == sock[Target] IN
       \/ /\ IsActive(Target)
          /\ wire' = [wire EXCEPT ![p] = Append(@, sending.cmd)]
          /\ sending' = NotSending
       \/ p # NoOne /\ Gone(p) /\ sending' = NotSending /\ wire' = wire
       \/ ~IsActive(Target) /\ sending' = [sending EXCEPT !.at = "failed"] /\ wire' = wire
  /\ UNCHANGED <<programVars, backlog, listen_event, sock, tableVars, epollVars, up,
                 overlapped>>

SendClose ==
  /\ Using /\ sending.at = "failed"
  /\ Closing(Target)
  /\ sending' = [sending EXCEPT !.at = "closed"]
  /\ UNCHANGED <<programVars, wire, backlog, listen_event, tableVars, epollVars, up,
                 overlapped>>

SendErase ==
  /\ Using /\ sending.at = "closed"
  /\ fd_to_client' = [fd_to_client EXCEPT ![Target] = NoOne]
  /\ client_to_fd' = [client_to_fd EXCEPT ![sending.cmd.to] = NoFd]
  /\ sending' = NotSending
  /\ UNCHANGED <<programVars, wire, backlog, listen_event, sock, epollVars, up,
                 overlapped>>

Sending == SendWrite \/ SendClose \/ SendErase \/ SendUndefined

-----------------------------------------------------------------------------
\* A program runs only commands for its own node, each once and in the order
\* given, whatever descriptors have been closed and reused, unless its
\* connection overlapped another (send_cmd, client_to_fd).
OwnCommandsInOrder ==
  \A p \in Proc : NodeOf[p] \notin overlapped =>
    /\ \A i \in DOMAIN got[p] : got[p][i].to = NodeOf[p]
    /\ \A i, j \in DOMAIN got[p] : i < j => got[p][i].id < got[p][j].id

\* Between two handlers the tables are each other's inverse and name an open
\* connection of the node, and every open connection is in them.
TablesAgree ==
  up /\ ctl = Waiting /\ sending = NotSending =>
    \A n \in Node \ overlapped, f \in Fd :
      /\ client_to_fd[n] = f <=> fd_to_client[f] = n
      /\ fd_to_client[f] = n <=> sock[f] # NoOne /\ NodeOf[sock[f]] = n

\* A program is cut off by a closing of its connection only if its node has
\* connected over an earlier connection, or a long command has moved its buffer.
NobodyCutOff ==
  \A p \in Proc : up /\ proc[p] = "deaf" => NodeOf[p] \in overlapped \/ p \in moved

\* The descriptors of programs that have gone are closed in the end, by the
\* epoll thread or by a send_cmd that fails (check_connection_is_active).
GoneAreClosed == []<>(up => {p \in Range(sock) \ {NoOne} : Gone(p)} = {})
=============================================================================
