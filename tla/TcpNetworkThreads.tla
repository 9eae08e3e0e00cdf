-------------------------- MODULE TcpNetworkThreads --------------------------
(* The epoll thread and the command thread of tproxy inside their handlers   *)
(* at the same moment.  The two share fd_to_channel_status and the integers  *)
(* behind self_fd and fd without a lock (strategies FILE and CMD).           *)
(*                                                                           *)
(* Grain.  deliver_msg is split where the epoll thread can come in between:  *)
(* taking the message, looking its connection up, loading the descriptor,    *)
(* write(2), and close_connection after a failed write.  recover is split    *)
(* into collecting the connections to close, looking each up, and the three  *)
(* parts of do_close for each of its ends.  The handlers of the epoll        *)
(* thread, partition, status and each access to the map are atomic.          *)
EXTENDS TcpNetworkProps, FiniteSets, SequencesExt

VARIABLES
  delivering,     \* the command thread inside deliver_msg with a message
  recovering,     \* the command thread inside recover
  overtaken       \* history: a connection was accepted on a descriptor that
                  \* recover had closed but whose entry it had yet to erase

NotDelivering == [at |-> "out"]
NotRecovering == [at |-> "out"]

threadVars == <<vars, delivering, recovering, overtaken>>
inRecover == <<recovering, overtaken>>

ThreadsTypeOK ==
  /\ TypeOK
  /\ delivering \in {NotDelivering}
       \cup [at : {"taken", "checked", "failed"}, msg : Msg]
       \cup [at : {"loaded"}, msg : Msg, fd : Fd \cup {NoFd}]
  /\ recovering \in {NotRecovering}
       \cup [at : {"next", "close", "clear", "erase"}, todo : SUBSET Fd,
             its : Seq(Fd), dangling : SUBSET Fd]
  /\ overtaken \in BOOLEAN

ThreadsInit ==
  /\ Init /\ delivering = NotDelivering /\ recovering = NotRecovering
  /\ overtaken = FALSE

At(place) == up /\ delivering.at = place

\* The message leaves the buffer; its descriptor is not yet -1.
Take ==
  /\ Dequeue /\ fd_cell[HeadMsg.fd] # NoFd
  /\ waiting' = Idle
  /\ delivering' = [at |-> "taken", msg |-> HeadMsg]
  /\ UNCHANGED <<out, tables>>

LookUp ==
  /\ At("taken")
  /\ delivering' = IF Deliverable(delivering.msg)
                   THEN [delivering EXCEPT !.at = "checked"] ELSE NotDelivering
  /\ UNCHANGED vars

\* The argument of write(2).
LoadFd ==
  LET m == delivering.msg
  IN  /\ At("checked") /\ sent[m.from][m.n] # "empty"
      /\ delivering' = [at |-> "loaded", msg |-> m, fd |-> fd_cell[m.fd]]
      /\ UNCHANGED vars

\* An empty body is not written, and an uninitialised variable is tested.
EmptyBody ==
  LET m == delivering.msg
  IN  /\ At("checked") /\ sent[m.from][m.n] = "empty"
      /\ \/ /\ delivering' = NotDelivering
            /\ out' = [out EXCEPT ![m.fd] =
                         Append(@, [from |-> m.from, n |-> m.n, raw |-> FALSE, whole |-> TRUE])]
         \/ delivering' = [delivering EXCEPT !.at = "failed"] /\ out' = out
      /\ UNCHANGED <<kernel, sent, read, up, tables, buffers>>

\* The descriptor loaded need not be the message's own any more.
WriteDone ==
  LET m == delivering.msg
  IN  /\ At("loaded") /\ OnConnection(delivering.fd)
      /\ WriteItem(delivering.fd, [from |-> m.from, n |-> m.n, raw |-> FALSE, whole |-> TRUE])
      /\ delivering' = NotDelivering
      /\ UNCHANGED <<kernel, sent, read, up, tables, buffers>>

WriteFailed ==
  /\ At("loaded")
  /\ OnConnection(delivering.fd) => WriteMayFail(delivering.fd)
  /\ delivering' = [at |-> "failed", msg |-> delivering.msg]
  /\ UNCHANGED vars

\* Mutant: a failed write is not followed up.
CloseOnErrorForgotten ==
  /\ At("failed")
  /\ delivering' = NotDelivering
  /\ UNCHANGED vars

\* Mutant: it is tried again.
CloseOnErrorRetries ==
  /\ At("failed")
  /\ delivering' = [delivering EXCEPT !.at = "checked"]
  /\ UNCHANGED vars

\* close_connection(*msg.fd, true), with the descriptor loaded again.
CloseOnError ==
  LET f == fd_cell[delivering.msg.fd]
  IN  /\ At("failed")
      /\ IF f \in Fd /\ HasEntry(f) THEN Tag(Pair(f)) ELSE UNCHANGED tables
      /\ delivering' = NotDelivering
      /\ UNCHANGED <<kernel, sent, read, out, up, buffers>>

Delivering ==
  Take \/ LookUp \/ LoadFd \/ EmptyBody \/ WriteDone \/ WriteFailed \/ CloseOnError

-----------------------------------------------------------------------------
(* recover, step by step.  its are the entries close_connection has looked   *)
(* up and holds iterators to, dangling those of them that the epoll thread   *)
(* has erased since.                                                         *)

InRecover(place) == up /\ recovering.at = place
Closing == recovering.its[1]

\* The loop of partition: nothing is closed in it.
Collect(node) ==
  LET mine == EntriesOf(node)
      cleared == {Chan(EndOf(f)) : f \in mine}
  IN  /\ Commanding /\ mine # {}
      /\ fd_to_channel_status' = [f \in Fd |->
            IF f \in mine THEN [self_fd |-> EndOf(f), disconnected |-> FALSE]
                          ELSE fd_to_channel_status[f]]
      /\ network' = [ch \in Channel |->
                        IF ch \in cleared THEN <<>> ELSE network[ch]]
      /\ recovering' = [at |-> "next", todo |-> mine, its |-> <<>>, dangling |-> {}]
      /\ UNCHANGED <<kernel, sent, read, out, up, channels, waiting, sock,
                     fd_cell, unintercepted_fd>>

\* Mutant: the other end is tagged but not closed.
FindItsOne(f) ==
  /\ f \in recovering.todo /\ IsLowest(f, recovering.todo)
  /\ HasEntry(f)
  /\ Tag(Pair(f))
  /\ recovering' = [recovering EXCEPT !.at = "close", !.todo = @ \ {f},
                       !.its = <<f>>, !.dangling = {}]

\* close_connection(f, false), as far as the iterators.
FindIts(f) ==
  LET others == Pair(f) \ {f}
  IN  /\ f \in recovering.todo /\ IsLowest(f, recovering.todo)
      /\ HasEntry(f)
      /\ Tag(Pair(f))
      /\ recovering' =
           [recovering EXCEPT !.at = "close", !.todo = @ \ {f},
              !.its = <<f>> \o SetToSeq(others), !.dangling = {}]

\* The epoll thread has closed it: the descriptor is closed once more.
NotFound(f) ==
  /\ f \in recovering.todo /\ IsLowest(f, recovering.todo)
  /\ ~HasEntry(f)
  /\ CloseFds({f}) /\ UNCHANGED <<fd_cell, fd_to_channel_status, unintercepted_fd>>
  /\ recovering' = [recovering EXCEPT !.todo = @ \ {f}]

LookUpNext ==
  /\ InRecover("next")
  /\ \/ \E f \in Fd : FindIts(f) \/ NotFound(f)
     \/ recovering.todo = {} /\ recovering' = NotRecovering /\ UNCHANGED tables
  /\ UNCHANGED <<kernel, sent, read, out, up, buffers>>

Alive(place) == InRecover(place) /\ Closing \notin recovering.dangling

CloseFd ==
  /\ Alive("close")
  /\ EraseUnintercepted({Closing}) /\ CloseFds({Closing})
  /\ recovering' = [recovering EXCEPT !.at = "clear"]
  /\ UNCHANGED <<kernel, sent, read, out, up, buffers, fd_cell, fd_to_channel_status>>

\* The shared integer that the entry holds by now.
ClearCell ==
  /\ Alive("clear")
  /\ ClearCells({Closing})
  /\ recovering' = [recovering EXCEPT !.at = "erase"]
  /\ UNCHANGED <<kernel, sent, read, out, up, buffers, sock, fd_to_channel_status,
                 unintercepted_fd>>

EraseIt ==
  /\ Alive("erase")
  /\ EraseEntries({Closing})
  /\ recovering' =
       [recovering EXCEPT !.its = Tail(@),
                          !.at = IF Len(recovering.its) = 1 THEN "next" ELSE "close"]
  /\ UNCHANGED <<kernel, sent, read, out, up, buffers, sock, fd_cell,
                 unintercepted_fd>>

\* An iterator to an erased entry is used: the behaviour is undefined, and
\* nothing is said of the process from here on.
UseErased ==
  /\ \E place \in {"close", "clear", "erase"} : InRecover(place)
  /\ Closing \in recovering.dangling
  /\ up' = FALSE
  /\ UNCHANGED <<kernel, sent, read, out, buffers, tables, recovering>>

Recovering == LookUpNext \/ CloseFd \/ ClearCell \/ EraseIt \/ UseErased

-----------------------------------------------------------------------------
(* The epoll thread, with descriptors that recover is closing.               *)

Unread(e) == read[e] < Len(sent[e])

\* An event fetched before recover closed f: recv fails, close_connection.
ReceiveClosed(f) ==
  /\ up /\ HasEntry(f) /\ sock[f] = Free /\ Unread(EndOf(f))
  /\ Close(Pair(f))
  /\ UNCHANGED <<kernel, sent, read, out, up, buffers>>

\* An event of a descriptor whose entry recover has erased: it is closed.
ReceiveUnknown(f) ==
  /\ up /\ ~HasEntry(f) /\ sock[f] \in End /\ Unread(sock[f])
  /\ CloseFds({f})
  /\ UNCHANGED <<kernel, sent, read, out, up, buffers, fd_cell,
                 fd_to_channel_status, unintercepted_fd>>

Receive(f) ==
  (sock[f] \in End /\ do_receive(f)) \/ ReceiveClosed(f) \/ ReceiveUnknown(f)

\* What the epoll thread does to the iterators recover holds.
Overlap ==
  /\ recovering' =
       IF recovering = NotRecovering THEN recovering
       ELSE [recovering EXCEPT !.dangling =
               @ \cup {f \in Fd : /\ \E i \in DOMAIN recovering.its :
                                        recovering.its[i] = f
                                /\ HasEntry(f) /\ fd_to_channel_status'[f] = NoEntry}]
  /\ overtaken' =
       (overtaken \/ /\ recovering.at \in {"clear", "erase"}
                     /\ sock[Closing] = Free /\ sock'[Closing] # Free)

EpollThread == Accept \/ \E f \in Fd : Receive(f)

-----------------------------------------------------------------------------
OtherCommands ==
  /\ delivering = NotDelivering /\ recovering = NotRecovering
  /\ UNCHANGED <<delivering, overtaken>>
  /\ \/ /\ UNCHANGED recovering
        /\ \/ \E ch \in Channel : DeliverCmd(ch)
           \/ DequeueDead \/ DeliverTimeout
           \/ \E node \in Node : partition(node)
           \/ print_status
     \/ \E node \in Node : Collect(node)

ThreadsNext ==
  \/ Environment /\ UNCHANGED <<delivering, inRecover>>
  \/ EpollThread /\ Overlap /\ UNCHANGED delivering
  \/ Delivering /\ UNCHANGED inRecover
  \/ Recovering /\ UNCHANGED <<delivering, overtaken>>
  \/ OtherCommands

ThreadsSpec == ThreadsInit /\ [][ThreadsNext]_threadVars

\* Both threads keep running.
ThreadsFairness ==
  /\ WF_threadVars(Accept /\ Overlap /\ UNCHANGED delivering)
  /\ \A f \in Fd : WF_threadVars(Receive(f) /\ Overlap /\ UNCHANGED delivering)
  /\ WF_threadVars(Delivering /\ UNCHANGED inRecover)
  /\ WF_threadVars(Recovering /\ UNCHANGED <<delivering, overtaken>>)
  /\ WF_threadVars((DequeueDead \/ DeliverTimeout)
                     /\ UNCHANGED <<delivering, inRecover>>)

ThreadsFairSpec == ThreadsSpec /\ ThreadsFairness

-----------------------------------------------------------------------------
\* What an end receives of its own peer's frames is still a run of them from
\* the first, each once: a frame lost to the overlap, or to a failed write, is
\* the last its connection carries (deliver_msg, close_connection), unless
\* do_close was overtaken.
OwnAt(e) == {i \in DOMAIN out[e] : ~out[e][i].raw /\ out[e][i].from = Peer(e)}
OwnFramesInOrder ==
  ~overtaken =>
    \A e \in End : \A i \in OwnAt(e) :
      out[e][i].n = Cardinality({j \in OwnAt(e) : j <= i})

\* A frame written to a connection it does not belong to comes from one that
\* has been closed: while both are open the overlap of the threads cannot
\* exchange their frames (deliver_msg), unless do_close was overtaken.
StrayFromClosed ==
  \A e \in End : \A i \in DOMAIN out[e] :
    out[e][i].from # Peer(e) => fd_cell[out[e][i].from] = NoFd \/ overtaken

\* Between two do_close of recover, and whenever no recover is under way, the
\* descriptors, the shared integers and the entries agree, however the epoll
\* thread closes, receives and accepts in between; only an accept on the
\* descriptor being closed breaks that (do_close, do_accept_connect).
TablesSettle ==
  recovering.at \in {"out", "next"} /\ ~overtaken => DescriptorsConsistent

\* The command thread leaves deliver_msg and recover whatever the epoll thread
\* closes or opens meanwhile, unless the process has ended.
CommandEnds ==
  waiting # Idle \/ delivering # NotDelivering \/ recovering # NotRecovering
    ~> (waiting = Idle /\ delivering = NotDelivering /\ recovering = NotRecovering)
       \/ ~up

Gone(c) == fd_cell[<<c, "client">>] = NoFd /\ fd_cell[<<c, "peer">>] = NoFd

\* A connection that recover has found for its node is closed at both ends in
\* the end, whichever of the threads closes it (partition, close_connection).
RecoverCloses ==
  \A c \in Conn :
    recovering # NotRecovering /\ (\E f \in recovering.todo : EndOf(f)[1] = c)
      ~> Gone(c) \/ overtaken \/ ~up

\* An EOF closes both ends also while the other thread delivers and recovers,
\* unless do_close was overtaken (do_receive).
EofStillCloses ==
  \A c \in Conn :
    (\E s \in Side : fd_cell[<<c, s>>] # NoFd /\ HasClosed(<<c, s>>) /\ ~Stalled(<<c, s>>))
      ~> Gone(c) \/ overtaken \/ ~up
=============================================================================
