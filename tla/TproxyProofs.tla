------------------------------ MODULE TproxyProofs ------------------------------
(* The process: its commands, its control connections and its redirections,   *)
(* for any scripts, nodes, programs, descriptors and clients.                 *)
EXTENDS Tproxy, Recursion, TLAPS

-----------------------------------------------------------------------------
(* The control connections: the invariant.                                   *)

\* What is written to a program is for its node.
Addressed ==
  \A p \in Proc : NodeOf[p] \notin overlapped =>
    /\ \A i \in DOMAIN got[p] : got[p][i].to = NodeOf[p]
    /\ \A i \in DOMAIN wire[p] : wire[p][i].to = NodeOf[p]

\* An edge of the listening socket stands for a connection that waits.
OneIf(b) == IF b THEN 1 ELSE 0
EdgesWait == OneIf(Listen \in events) + OneIf(listen_event) <= Len(backlog)

\* The iterator of send_cmd leads to a descriptor.
TargetKnown == sending.at # "idle" /\ ~sending.dangling => Target \in Fd

\* A descriptor kept for a node is not open for another, unless the other came
\* over it.
Owned ==
  \A n \in Node, f \in Fd :
    client_to_fd[n] = f /\ sock[f] # NoOne
      => NodeOf[sock[f]] = n \/ NodeOf[sock[f]] \in overlapped

\* What the epoll thread has found of its connection is still so.
CtlHolds ==
  /\ ctl.at = "accepted" =>
       \/ sock[ctl.fd] = NoOne
       \/ /\ NodeOf[sock[ctl.fd]] = ctl.node
          /\ client_to_fd[ctl.node] = ctl.fd \/ ctl.node \in overlapped
  /\ ctl.at \in {"inactive", "closed"} => fd_to_client[ctl.fd] \in {ctl.node, NoOne}
  /\ ctl.at = "inactive" => sock[ctl.fd] = NoOne \/ Gone(sock[ctl.fd])
  /\ ctl.at = "closed" => sock[ctl.fd] = NoOne

\* What send_cmd has found of its connection is still so, or its node has
\* connected over it.
SendingHolds ==
  sending.at \in {"failed", "closed"} /\ ~sending.dangling =>
    \/ sock[Target] = NoOne
    \/ sending.at = "failed" /\ Gone(sock[Target])
    \/ NodeOf[sock[Target]] \in overlapped

\* A program that runs waits for accept or is connected.
Connected ==
  \A p \in Proc : NodeOf[p] \notin overlapped =>
    /\ proc[p] = "on" => p \in Range(backlog) \cup Range(sock)
    /\ proc[p] = "deaf" => p \in moved

\* A connection of n has been accepted but not recorded; send_cmd has closed
\* the connection of n and not erased it yet; the epoll thread has closed f.
Recording(n, f) == ctl.at = "accepted" /\ ctl.fd = f /\ ctl.node = n
Erasing(n) == sending.at = "closed" /\ sending.cmd.to = n
Ending(f) == ctl.at = "closed" /\ ctl.fd = f

\* The tables and the sockets agree for a node but for what is under way.
TablesAgreeBut ==
  \A n \in Node \ overlapped, f \in Fd :
    /\ client_to_fd[n] = f => Recording(n, f) \/ Erasing(n) \/ fd_to_client[f] = n
    /\ fd_to_client[f] = n => client_to_fd[n] = f
    /\ fd_to_client[f] = n => \/ sock[f] # NoOne /\ NodeOf[sock[f]] = n
                              \/ Ending(f) \/ Erasing(n)
    /\ sock[f] # NoOne /\ NodeOf[sock[f]] = n => Recording(n, f) \/ fd_to_client[f] = n

\* A descriptor is kept for a second node only while send_cmd is about to erase
\* the first.
KeptOnce ==
  \A n \in Node \ overlapped, m \in Node, f \in Fd :
    m # n /\ client_to_fd[m] = f => /\ fd_to_client[f] = n => Erasing(n)
                                    /\ ~Recording(n, f)

Running == /\ EdgesWait /\ TargetKnown /\ Owned /\ CtlHolds /\ SendingHolds
           /\ Connected /\ TablesAgreeBut /\ KeptOnce

ChannelInv == ControlTypeOK /\ Addressed /\ (up => Running)

-----------------------------------------------------------------------------
(* What the types say of the records.                                        *)

LEMMA Shapes ==
  ASSUME ControlTypeOK
  PROVE  /\ ctl = Waiting <=> ctl.at = "wait"
         /\ ctl.at \in {"wait", "accepted", "inactive", "closed"}
         /\ ctl # Waiting => ctl.fd \in Fd /\ ctl.node \in Node
         /\ sending = NotSending <=> sending.at = "idle"
         /\ sending.at \in {"idle", "found", "failed", "closed"}
         /\ sending # NotSending =>
              /\ sending.cmd \in Cmd /\ sending.cmd.to \in Node
              /\ sending.dangling \in BOOLEAN
         /\ \A f \in Fd : sock[f] # NoOne => sock[f] \in Proc /\ NodeOf[sock[f]] \in Node
         /\ Listen \notin Fd /\ NoFd \notin Fd /\ NoOne \notin Node
BY ControlAssumption DEF ControlTypeOK, Waiting, NotSending, Cmd, Listen, NoFd

LEMMA ChannelStart == \A P : ControlInit(P) => ChannelInv
<1> SUFFICES ASSUME NEW P, ControlInit(P) PROVE ChannelInv
  OBVIOUS
<1> USE ControlAssumption DEF ControlInit
<1>1. ControlTypeOK
  <2>1. /\ proc \in [Proc -> {"absent", "off", "on", "deaf", "dead"}]
        /\ sock \in [Fd -> Proc \cup {NoOne}] /\ fd_to_client \in [Fd -> Node \cup {NoOne}]
        /\ client_to_fd \in [Node -> Fd \cup {NoFd}]
    OBVIOUS
  <2>2. /\ got \in [Proc -> Seq(Cmd)] /\ wire \in [Proc -> Seq(Cmd)] /\ backlog \in Seq(Proc)
    OBVIOUS
  <2>3. ctl \in {Waiting} /\ sending \in {NotSending}
    OBVIOUS
  <2>4. moved \subseteq Proc /\ listen_event \in BOOLEAN /\ events \subseteq Fd \cup {Listen}
    OBVIOUS
  <2>5. up \in BOOLEAN /\ overlapped \subseteq Node
    OBVIOUS
  <2> HIDE DEF ControlInit
  <2> QED BY <2>1, <2>2, <2>3, <2>4, <2>5 DEF ControlTypeOK
<1>2. Addressed
  BY DEF Addressed
<1>3. EdgesWait /\ TargetKnown /\ Owned
  BY DEF EdgesWait, OneIf, TargetKnown, NotSending, Owned
<1>4. CtlHolds /\ SendingHolds
  BY DEF CtlHolds, SendingHolds, Waiting, NotSending
<1>5. Connected /\ TablesAgreeBut /\ KeptOnce
  BY DEF Connected, TablesAgreeBut, KeptOnce, NoFd, Recording, Waiting
<1> QED BY <1>1, <1>2, <1>3, <1>4, <1>5 DEF ChannelInv, Running

-----------------------------------------------------------------------------
(* The programs.                                                             *)

\* Who is gone stays gone when the others go on.
LEMMA GoneStays ==
  ASSUME ControlTypeOK, NEW p \in Proc, proc[p] \in {"off", "on"},
         NEW s, proc' = [proc EXCEPT ![p] = s]
  PROVE  \A q : q \in Proc /\ Gone(q) => Gone(q)'
BY DEF ControlTypeOK, Gone

\* A step of a program leaves the tables and the threads of tproxy alone.
LEMMA ProgramStep ==
  ASSUME ChannelInv,
         NEW p \in Proc, connect_router(p) \/ Die(p) \/ do_router_cmd(p) \/ RouterClosed(p),
         ControlTypeOK', Addressed', up => EdgesWait' /\ Connected'
  PROVE  ChannelInv'
<1>1. UNCHANGED <<sock, tableVars, ctl, sending, up, overlapped>>
  BY DEF connect_router, Die, do_router_cmd, RouterClosed, epollVars
<1>2. \A q : q \in Proc /\ Gone(q) => Gone(q)'
  <2>1. \E s : proc' = [proc EXCEPT ![p] = s] /\ proc[p] \in {"off", "on"}
    BY DEF connect_router, Die, do_router_cmd, RouterClosed
  <2> QED BY <2>1, GoneStays DEF ChannelInv
<1>3. ASSUME up, Running PROVE Running'
  <2>1. \A f \in Fd : sock[f] # NoOne /\ Gone(sock[f]) => Gone(sock[f])'
    BY <1>1, <1>2, Shapes DEF ChannelInv
  <2>2. TargetKnown' /\ Owned'
    BY <1>1, <1>3 DEF Running, TargetKnown, Target, Owned, tableVars
  <2>3. CtlHolds'
    <3>1. ctl.at = "inactive" => ctl.fd \in Fd
      BY Shapes DEF ChannelInv, Waiting
    <3> QED BY <1>1, <1>3, <2>1, <3>1 DEF Running, CtlHolds, tableVars
  <2>4. SendingHolds'
    <3>1. sending.at # "idle" /\ ~sending.dangling => Target \in Fd
      BY <1>3 DEF Running, TargetKnown
    <3>2. Target' = Target
      BY <1>1 DEF Target, tableVars
    <3> QED BY <1>1, <1>3, <2>1, <3>1, <3>2 DEF Running, SendingHolds
  <2>5. TablesAgreeBut' /\ KeptOnce'
    BY <1>1, <1>3 DEF Running, TablesAgreeBut, KeptOnce, Recording, Erasing, Ending, tableVars
  <2> QED BY <1>3, <2>2, <2>3, <2>4, <2>5 DEF Running
<1> QED BY <1>1, <1>3 DEF ChannelInv

LEMMA ProgramsKeep == ChannelInv /\ Programs => ChannelInv'
<1> SUFFICES ASSUME ChannelInv, NEW p \in Proc,
                    connect_router(p) \/ Die(p) \/ do_router_cmd(p) \/ RouterClosed(p)
             PROVE  ChannelInv'
  BY DEF Programs
<1>0. ControlTypeOK /\ Addressed /\ (up => EdgesWait /\ Connected)
  BY DEF ChannelInv, Running
<1>1. CASE connect_router(p)
  <2>1. /\ backlog \in Seq(Proc) /\ backlog' = Append(backlog, p)
        /\ Len(backlog') = Len(backlog) + 1 /\ Len(backlog) \in Nat
    BY <1>0, <1>1 DEF connect_router, ControlTypeOK
  <2>2. ControlTypeOK'
    BY <1>0, <1>1, <2>1 DEF connect_router, ControlTypeOK, programVars, tableVars, epollVars
  <2>3. Addressed'
    BY <1>0, <1>1 DEF connect_router, Addressed
  <2>4. EdgesWait'
    <3>1. OneIf(listen_event) \in {0, 1} /\ OneIf(Listen \in events) \in {0, 1} /\ OneIf(listen_event') = 1
      BY <1>1 DEF OneIf, connect_router
    <3>2. up /\ events' = events
      BY <1>1 DEF connect_router, epollVars
    <3> QED BY <1>0, <2>1, <3>1, <3>2 DEF EdgesWait, OneIf
  <2>5. \A q \in Proc : q \in Range(backlog) => q \in Range(backlog')
    BY <2>1 DEF Range
  <2>6. p \in Range(backlog')
    BY <2>1 DEF Range
  <2>7. Connected'
    BY <1>0, <1>1, <2>5, <2>6 DEF connect_router, Connected, ControlTypeOK
  <2> QED BY <2>2, <2>3, <2>4, <2>7, ProgramStep
<1>2. CASE Die(p)
  <2>1. ControlTypeOK'
    BY <1>0, <1>2 DEF Die, ControlTypeOK, programVars, tableVars, epollVars
  <2>2. Addressed' /\ (up => EdgesWait')
    BY <1>0, <1>2 DEF Die, Addressed, EdgesWait, epollVars
  <2>3. up => Connected'
    BY <1>0, <1>2 DEF Die, Connected, ControlTypeOK
  <2> QED BY <2>1, <2>2, <2>3, ProgramStep
<1>3. CASE do_router_cmd(p)
  <2> DEFINE cmd == Head(wire[p])
  <2>1. wire[p] \in Seq(Cmd) /\ got[p] \in Seq(Cmd)
    BY <1>0 DEF ControlTypeOK
  <2>2. wire[p] # <<>>
    BY <1>3 DEF do_router_cmd
  <2>3. cmd \in Cmd /\ Tail(wire[p]) \in Seq(Cmd) /\ cmd = wire[p][1] /\ 1 \in DOMAIN wire[p]
    BY <2>1, <2>2
  <2>4. \A i \in DOMAIN Tail(wire[p]) : i + 1 \in DOMAIN wire[p] /\ Tail(wire[p])[i] = wire[p][i + 1]
    BY <2>1, <2>2
  <2>5. Append(got[p], cmd) \in Seq(Cmd)
    BY <2>1, <2>3
  <2>6. \A i \in DOMAIN Append(got[p], cmd) :
           Append(got[p], cmd)[i] = IF i \in DOMAIN got[p] THEN got[p][i] ELSE cmd
    BY <2>1, <2>3
  <2>7. got'[p] \in {got[p], Append(got[p], cmd)} /\ wire'[p] = Tail(wire[p])
    BY <1>0, <1>3 DEF do_router_cmd, ControlTypeOK
  <2>8. \A q \in Proc \ {p} : got'[q] = got[q] /\ wire'[q] = wire[q]
    BY <1>0, <1>3 DEF do_router_cmd, ControlTypeOK
  <2>9. proc' \in [Proc -> {"absent", "off", "on", "deaf", "dead"}]
    <3>1. PICK s \in After(p, cmd) : proc' = [proc EXCEPT ![p] = s]
      BY <1>3 DEF do_router_cmd
    <3>2. s \in {"on", "deaf", "dead"}
      BY <3>1 DEF After
    <3> QED BY <1>0, <3>1, <3>2 DEF ControlTypeOK
  <2>10. ControlTypeOK'
    <3>1. got' \in [Proc -> Seq(Cmd)] /\ wire' \in [Proc -> Seq(Cmd)]
      BY <1>0, <1>3, <2>1, <2>3, <2>5 DEF do_router_cmd, ControlTypeOK
    <3>2. moved' \subseteq Proc
      BY <1>0, <1>3 DEF do_router_cmd, ControlTypeOK
    <3> QED BY <1>0, <1>3, <2>9, <3>1, <3>2 DEF do_router_cmd, ControlTypeOK, tableVars, epollVars
  <2>11. Addressed'
    <3>1. overlapped' = overlapped
      BY <1>3 DEF do_router_cmd
    <3>2. ASSUME NEW q \in Proc, NodeOf[q] \notin overlapped
          PROVE  /\ \A i \in DOMAIN got'[q] : got'[q][i].to = NodeOf[q]
                 /\ \A i \in DOMAIN wire'[q] : wire'[q][i].to = NodeOf[q]
      <4>1. CASE q = p
        <5>1. \A i \in DOMAIN wire'[p] : wire'[p][i].to = NodeOf[p]
          BY <1>0, <2>4, <2>7, <3>2, <4>1 DEF Addressed
        <5>2. cmd.to = NodeOf[p]
          BY <1>0, <2>3, <3>2, <4>1 DEF Addressed
        <5>3. \A i \in DOMAIN got'[p] : got'[p][i].to = NodeOf[p]
          <6>1. CASE got'[p] = got[p]
            BY <1>0, <3>2, <4>1, <6>1 DEF Addressed
          <6>2. CASE got'[p] = Append(got[p], cmd)
            BY <1>0, <2>6, <3>2, <4>1, <5>2, <6>2 DEF Addressed
          <6> QED BY <2>7, <6>1, <6>2
        <5> QED BY <4>1, <5>1, <5>3
      <4>2. CASE q # p
        BY <1>0, <2>8, <3>2, <4>2 DEF Addressed
      <4> QED BY <4>1, <4>2
    <3> QED BY <3>1, <3>2 DEF Addressed
  <2>12. up => EdgesWait' /\ Connected'
    <3>1. up => EdgesWait'
      BY <1>0, <1>3 DEF do_router_cmd, EdgesWait, epollVars
    <3>2. PICK s \in After(p, cmd) : proc' = [proc EXCEPT ![p] = s]
      BY <1>3 DEF do_router_cmd
    <3>3. moved \subseteq moved' /\ (s = "deaf" => p \in moved) /\ proc[p] = "on"
      BY <1>3, <3>2 DEF do_router_cmd, After
    <3>4. \A q \in Proc : proc'[q] = IF q = p THEN s ELSE proc[q]
      BY <1>0, <3>2 DEF ControlTypeOK
    <3>5. up => Connected'
      BY <1>0, <1>3, <3>3, <3>4 DEF do_router_cmd, Connected
    <3> QED BY <3>1, <3>5
  <2> QED BY <2>10, <2>11, <2>12, ProgramStep
<1>4. CASE RouterClosed(p)
  <2>1. ControlTypeOK'
    BY <1>0, <1>4 DEF RouterClosed, ControlTypeOK, programVars, tableVars, epollVars
  <2>2. Addressed' /\ (up => EdgesWait')
    BY <1>0, <1>4 DEF RouterClosed, Addressed, EdgesWait, epollVars
  <2>3. up => Connected'
    BY <1>0, <1>4 DEF RouterClosed, Connected, ControlTypeOK
  <2> QED BY <2>1, <2>2, <2>3, ProgramStep
<1> QED BY <1>1, <1>2, <1>3, <1>4

-----------------------------------------------------------------------------
(* The epoll thread.                                                         *)

LEMMA WaitKeeps == ChannelInv /\ epoll_wait => ChannelInv'
<1> SUFFICES ASSUME ChannelInv, epoll_wait PROVE ChannelInv'
  OBVIOUS
<1>0. /\ UNCHANGED <<proc, moved, got, wire, backlog, sock, client_to_fd, fd_to_client,
                     ctl, sending, up, overlapped>>
      /\ up /\ ControlTypeOK /\ Addressed /\ Running
  BY DEF epoll_wait, ChannelInv, programVars, tableVars
<1>1. ControlTypeOK'
  BY <1>0 DEF epoll_wait, Ready, ControlTypeOK
<1>2. Addressed'
  BY <1>0 DEF Addressed
<1>3. EdgesWait'
  <2>1. Listen \in events' <=> listen_event
    BY <1>0, Shapes DEF epoll_wait, Ready
  <2>2. events = {} /\ listen_event' = FALSE
    BY DEF epoll_wait
  <2> QED BY <1>0, <2>1, <2>2 DEF Running, EdgesWait, OneIf
<1>4. TargetKnown' /\ Owned' /\ CtlHolds'
  BY <1>0 DEF Running, TargetKnown, Target, Owned, CtlHolds, Gone
<1>5. SendingHolds' /\ Connected'
  BY <1>0 DEF Running, SendingHolds, Target, Connected, Gone
<1>6. TablesAgreeBut' /\ KeptOnce'
  BY <1>0 DEF Running, TablesAgreeBut, KeptOnce, Recording, Erasing, Ending
<1> QED BY <1>0, <1>1, <1>2, <1>3, <1>4, <1>5, <1>6 DEF ChannelInv, Running

LEMMA AcceptKeeps == ChannelInv /\ CtlAccept => ChannelInv'
<1> SUFFICES ASSUME ChannelInv, CtlAccept PROVE ChannelInv'
  OBVIOUS
<1> DEFINE p == Head(backlog)
           n == NodeOf[p]
<1>0. /\ UNCHANGED <<proc, moved, got, wire, listen_event, fd_to_client, sending, up>>
      /\ up /\ ControlTypeOK /\ Addressed /\ Running
      /\ ctl = Waiting /\ Listen \in events /\ events' = events \ {Listen}
  BY DEF CtlAccept, ChannelInv, programVars
<1>1. PICK f \in Free :
        /\ sock' = [sock EXCEPT ![f] = p]
        /\ client_to_fd' = [client_to_fd EXCEPT ![n] = f]
        /\ ctl' = [at |-> "accepted", fd |-> f, node |-> n]
        /\ overlapped' = IF Overlaps(n, f) THEN overlapped \cup {n} ELSE overlapped
  BY DEF CtlAccept
<1>2. f \in Fd /\ sock[f] = NoOne
  BY DEF Free
<1>3. backlog \in Seq(Proc) /\ Len(backlog) \in Nat /\ backlog # <<>>
  <2>1. OneIf(Listen \in events) = 1 /\ OneIf(listen_event) \in {0, 1}
    BY <1>0 DEF OneIf
  <2>2. backlog \in Seq(Proc) /\ Len(backlog) \in Nat
    BY <1>0 DEF ControlTypeOK
  <2> QED BY <1>0, <2>1, <2>2 DEF Running, EdgesWait
<1>4. p \in Proc /\ n \in Node /\ p # NoOne
  BY <1>3, ControlAssumption
<1>5. backlog' = Tail(backlog) /\ backlog' \in Seq(Proc) /\ Len(backlog') = Len(backlog) - 1
  BY <1>3 DEF CtlAccept
<1>6. /\ \A g \in Fd : sock'[g] = IF g = f THEN p ELSE sock[g]
      /\ \A m \in Node : client_to_fd'[m] = IF m = n THEN f ELSE client_to_fd[m]
  BY <1>0, <1>1, <1>2, <1>4 DEF ControlTypeOK
<1>7. overlapped \subseteq overlapped' /\ overlapped' \subseteq overlapped \cup {n}
  BY <1>1
<1>8. n \notin overlapped' =>
        /\ client_to_fd[n] = NoFd /\ fd_to_client[f] = NoOne
        /\ \A g \in Fd : fd_to_client[g] # n
        /\ \A m \in Node : client_to_fd[m] # f
  <2>1. DOMAIN fd_to_client = Fd /\ DOMAIN client_to_fd = Node
    BY <1>0 DEF ControlTypeOK
  <2>2. n \notin overlapped' => ~Overlaps(n, f)
    BY <1>1
  <2> QED BY <2>1, <2>2 DEF Overlaps, Range
<1>9. ControlTypeOK'
  <2>1. /\ sock' \in [Fd -> Proc \cup {NoOne}] /\ client_to_fd' \in [Node -> Fd \cup {NoFd}]
        /\ overlapped' \subseteq Node /\ events' \subseteq Fd \cup {Listen}
    BY <1>0, <1>1, <1>2, <1>4 DEF ControlTypeOK
  <2>2. ctl' \in [at : {"accepted", "inactive", "closed"}, fd : Fd, node : Node]
    BY <1>1, <1>2, <1>4
  <2> QED BY <1>0, <1>5, <2>1, <2>2 DEF ControlTypeOK
<1>10. Addressed'
  BY <1>0, <1>7 DEF Addressed
<1>11. EdgesWait'
  <2>1. OneIf(Listen \in events) = 1 /\ OneIf(Listen \in events') = 0
        /\ OneIf(listen_event) \in {0, 1} /\ listen_event' = listen_event
    BY <1>0 DEF OneIf
  <2> QED BY <1>0, <1>3, <1>5, <2>1 DEF Running, EdgesWait
<1>12. TargetKnown'
  <2>1. sending.at # "idle" => sending.cmd.to \in Node
    BY <1>0, Shapes
  <2> QED BY <1>0, <1>2, <1>6, <2>1 DEF Running, TargetKnown, Target
<1>13. Owned'
  BY <1>0, <1>6, <1>7, <1>8 DEF Running, Owned
<1>14. CtlHolds'
  BY <1>1, <1>2, <1>4, <1>6 DEF CtlHolds
<1>15. SendingHolds'
  <2>1. SUFFICES ASSUME sending.at \in {"failed", "closed"}, ~sending.dangling
                 PROVE  \/ sock'[Target'] = NoOne
                        \/ sending.at = "failed" /\ Gone(sock'[Target'])
                        \/ NodeOf[sock'[Target']] \in overlapped'
    BY <1>0 DEF SendingHolds, Gone
  <2>2. sending.cmd.to \in Node /\ Target \in Fd /\ Target = client_to_fd[sending.cmd.to]
    BY <1>0, <2>1, Shapes DEF Running, TargetKnown, Target, NotSending
  <2>3. CASE sending.cmd.to = n
    <3>1. client_to_fd[n] # NoFd
      BY <2>2, <2>3, Shapes, <1>0
    <3>2. n \in overlapped' /\ sock'[Target'] = p
      BY <1>0, <1>2, <1>4, <1>6, <1>8, <2>3, <3>1 DEF Target
    <3> QED BY <3>2
  <2>4. CASE sending.cmd.to # n
    <3>1. Target' = Target
      BY <1>0, <1>6, <2>2, <2>4 DEF Target
    <3>2. CASE Target = f
      BY <1>4, <1>6, <1>8, <2>2, <3>1, <3>2
    <3>3. CASE Target # f
      BY <1>0, <1>6, <1>7, <2>1, <2>2, <3>1, <3>3 DEF Running, SendingHolds
    <3> QED BY <3>2, <3>3
  <2> QED BY <2>3, <2>4
<1>16. Connected'
  <2>1. \A q \in Range(backlog) : q \in Range(backlog') \/ q = p
    <3>1. \A i \in DOMAIN backlog : i = 1 \/ (i - 1 \in DOMAIN backlog' /\ backlog'[i - 1] = backlog[i])
      BY <1>3, <1>5
    <3>2. p = backlog[1]
      BY <1>3
    <3> QED BY <3>1, <3>2 DEF Range
  <2>2. DOMAIN sock = Fd /\ DOMAIN sock' = Fd
    BY <1>0, <1>1 DEF ControlTypeOK
  <2>3. p \in Range(sock') /\ \A q \in Range(sock) : q # NoOne => q \in Range(sock')
    BY <1>2, <1>6, <2>2 DEF Range
  <2> QED BY <1>0, <1>7, <2>1, <2>3, ControlAssumption DEF Running, Connected
<1>17. TablesAgreeBut'
  <2> SUFFICES ASSUME NEW m \in Node \ overlapped', NEW g \in Fd
               PROVE  /\ client_to_fd'[m] = g
                           => Recording(m, g)' \/ Erasing(m) \/ fd_to_client[g] = m
                      /\ fd_to_client[g] = m => client_to_fd'[m] = g
                      /\ fd_to_client[g] = m => \/ sock'[g] # NoOne /\ NodeOf[sock'[g]] = m
                                                \/ Ending(g)' \/ Erasing(m)
                      /\ sock'[g] # NoOne /\ NodeOf[sock'[g]] = m
                           => Recording(m, g)' \/ fd_to_client[g] = m
    BY <1>0 DEF TablesAgreeBut, Erasing
  <2>1. /\ ~Recording(m, g) /\ ~Ending(g) /\ m \notin overlapped
        /\ Recording(m, g)' <=> m = n /\ g = f
    BY <1>0, <1>1, <1>7 DEF Recording, Ending, Waiting
  <2>2. CASE m = n
    BY <1>0, <1>2, <1>4, <1>6, <1>8, <2>1, <2>2 DEF Running, TablesAgreeBut
  <2>3. CASE m # n
    BY <1>0, <1>2, <1>4, <1>6, <2>1, <2>3 DEF Running, TablesAgreeBut
  <2> QED BY <2>2, <2>3
<1>18. KeptOnce'
  <2> SUFFICES ASSUME NEW m \in Node \ overlapped', NEW k \in Node, NEW g \in Fd,
                      k # m, client_to_fd'[k] = g
               PROVE  (fd_to_client[g] = m => Erasing(m)) /\ ~Recording(m, g)'
    BY <1>0 DEF KeptOnce, Erasing
  <2>1. /\ ~Recording(m, g) /\ ~Ending(g) /\ m \notin overlapped
        /\ Recording(m, g)' <=> m = n /\ g = f
    BY <1>0, <1>1, <1>7 DEF Recording, Ending, Waiting
  <2>2. CASE k = n
    BY <1>0, <1>2, <1>6, <2>1, <2>2 DEF Running, TablesAgreeBut
  <2>3. CASE k # n
    BY <1>0, <1>2, <1>6, <1>8, <2>1, <2>3 DEF Running, KeptOnce
  <2> QED BY <2>2, <2>3
<1> QED
  BY <1>0, <1>9, <1>10, <1>11, <1>12, <1>13, <1>14, <1>15, <1>16, <1>17, <1>18
  DEF ChannelInv, Running

\* The process that ends or is undefined promises only what is written already.
LEMMA DownKeeps ==
  ASSUME ChannelInv, ControlTypeOK', ~up', UNCHANGED <<got, wire, overlapped>>
  PROVE  ChannelInv'
BY DEF ChannelInv, Addressed

LEMMA RecordKeeps == ChannelInv /\ CtlRecord => ChannelInv'
<1> SUFFICES ASSUME ChannelInv, CtlRecord PROVE ChannelInv'
  OBVIOUS
<1> DEFINE n == ctl.node
           f == ctl.fd
<1>0. /\ UNCHANGED <<proc, moved, got, wire, backlog, listen_event, sock, client_to_fd,
                     events, sending, overlapped>>
      /\ up /\ ControlTypeOK /\ Addressed /\ Running
      /\ ctl.at = "accepted" /\ ctl' = Waiting /\ up' = (sock[f] # NoOne)
  BY DEF CtlRecord, ChannelInv, programVars
<1>1. f \in Fd /\ n \in Node
  BY <1>0, Shapes DEF Waiting
<1>2. \A g \in Fd : fd_to_client'[g] = IF g = f THEN n ELSE fd_to_client[g]
  BY <1>0, <1>1 DEF CtlRecord, ControlTypeOK
<1>3. ControlTypeOK'
  BY <1>0, <1>1 DEF CtlRecord, ControlTypeOK
<1>4. CASE sock[f] = NoOne
  BY <1>0, <1>3, <1>4, DownKeeps
<1>5. CASE sock[f] # NoOne
  <2>1. NodeOf[sock[f]] = n /\ (client_to_fd[n] = f \/ n \in overlapped)
    BY <1>0, <1>5 DEF Running, CtlHolds
  <2>2. EdgesWait' /\ TargetKnown' /\ Owned'
    BY <1>0 DEF Running, EdgesWait, TargetKnown, Target, Owned
  <2>3. CtlHolds'
    BY <1>0 DEF CtlHolds, Waiting
  <2>4. SendingHolds' /\ Connected'
    BY <1>0 DEF Running, SendingHolds, Target, Connected, Gone
  <2>5. ASSUME NEW m \in Node \ overlapped, NEW g \in Fd
        PROVE  /\ Recording(m, g) <=> g = f /\ m = n
               /\ ~Recording(m, g)' /\ ~Ending(g) /\ ~Ending(g)' /\ (Erasing(m)' <=> Erasing(m))
    BY <1>0 DEF Recording, Ending, Erasing, Waiting
  <2>6. TablesAgreeBut'
    <3> SUFFICES ASSUME NEW m \in Node \ overlapped, NEW g \in Fd
                 PROVE  /\ client_to_fd[m] = g => Erasing(m) \/ fd_to_client'[g] = m
                        /\ fd_to_client'[g] = m => client_to_fd[m] = g
                        /\ fd_to_client'[g] = m => \/ sock[g] # NoOne /\ NodeOf[sock[g]] = m
                                                   \/ Erasing(m)
                        /\ sock[g] # NoOne /\ NodeOf[sock[g]] = m => fd_to_client'[g] = m
      BY <1>0, <2>5 DEF TablesAgreeBut
    <3>1. CASE m = n
      BY <1>0, <1>2, <1>5, <2>1, <2>5, <3>1 DEF Running, TablesAgreeBut
    <3>2. CASE m # n
      BY <1>0, <1>2, <1>5, <2>1, <2>5, <3>2 DEF Running, TablesAgreeBut
    <3> QED BY <3>1, <3>2
  <2>7. KeptOnce'
    <3> SUFFICES ASSUME NEW m \in Node \ overlapped, NEW k \in Node, NEW g \in Fd,
                        k # m, client_to_fd[k] = g
                 PROVE  fd_to_client'[g] = m => Erasing(m)
      BY <1>0, <2>5 DEF KeptOnce
    <3> QED BY <1>0, <1>2, <2>5 DEF Running, KeptOnce
  <2> QED BY <1>0, <1>3, <2>2, <2>3, <2>4, <2>6, <2>7 DEF ChannelInv, Running, Addressed
<1> QED BY <1>4, <1>5

LEMMA EventKeeps == ASSUME NEW f \in Fd PROVE ChannelInv /\ CtlEvent(f) => ChannelInv'
<1> SUFFICES ASSUME ChannelInv, CtlEvent(f) PROVE ChannelInv'
  OBVIOUS
<1>0. /\ UNCHANGED <<proc, moved, got, wire, backlog, listen_event, client_to_fd,
                     fd_to_client, sending, up, overlapped>>
      /\ up /\ ControlTypeOK /\ Addressed /\ Running
      /\ ctl = Waiting /\ f # Listen /\ events' = events \ {f}
  BY DEF CtlEvent, ChannelInv, programVars, tableVars
<1>1. \/ /\ fd_to_client[f] # NoOne /\ ~IsActive(f) /\ sock' = sock
         /\ ctl' = [at |-> "inactive", fd |-> f, node |-> fd_to_client[f]]
      \/ UNCHANGED <<ctl, sock>>
      \/ fd_to_client[f] = NoOne /\ Closing(f) /\ ctl' = ctl
  BY DEF CtlEvent
<1>2. ControlTypeOK'
  <2>1. sock' \in [Fd -> Proc \cup {NoOne}]
    BY <1>0, <1>1 DEF Closing, ControlTypeOK
  <2>2. ctl' \in {Waiting} \cup [at : {"accepted", "inactive", "closed"}, fd : Fd, node : Node]
    BY <1>0, <1>1 DEF ControlTypeOK
  <2> QED BY <1>0, <2>1, <2>2 DEF ControlTypeOK
<1>3. \A g \in Fd : sock'[g] = sock[g] \/ (g = f /\ sock'[g] = NoOne /\ fd_to_client[f] = NoOne)
  <2>1. sock' = sock \/ (fd_to_client[f] = NoOne /\ sock' = [sock EXCEPT ![f] = NoOne])
    BY <1>1 DEF Closing
  <2>2. CASE sock' = sock
    BY <2>2
  <2>3. CASE fd_to_client[f] = NoOne /\ sock' = [sock EXCEPT ![f] = NoOne]
    BY <1>0, <2>3 DEF ControlTypeOK
  <2> QED BY <2>1, <2>2, <2>3
<1>4. ASSUME NEW m \in Node, NEW g \in Fd
      PROVE  /\ ~Recording(m, g) /\ ~Recording(m, g)' /\ ~Ending(g) /\ ~Ending(g)'
             /\ Erasing(m)' <=> Erasing(m)
  BY <1>0, <1>1 DEF Recording, Ending, Erasing, Waiting
<1>5. EdgesWait'
  BY <1>0 DEF Running, EdgesWait, OneIf
<1>6. TargetKnown' /\ Target' = Target
  BY <1>0 DEF Running, TargetKnown, Target
<1>7. Owned'
  BY <1>0, <1>3 DEF Running, Owned
<1>8. CtlHolds'
  BY <1>0, <1>1 DEF CtlHolds, IsActive, Gone, Waiting
<1>9. SendingHolds'
  BY <1>0, <1>3, <1>6 DEF Running, SendingHolds, TargetKnown, Gone
<1>10. Connected'
  <2>1. sock[f] # NoOne => NodeOf[sock[f]] \in overlapped \/ fd_to_client[f] # NoOne
    BY <1>0, <1>4, Shapes DEF Running, TablesAgreeBut
  <2>2. DOMAIN sock = Fd /\ DOMAIN sock' = Fd
    BY <1>0, <1>2 DEF ControlTypeOK
  <2>3. \A q \in Proc : q \in Range(sock) => q \in Range(sock') \/ NodeOf[q] \in overlapped
    BY <1>3, <2>1, <2>2, ControlAssumption DEF Range
  <2> QED BY <1>0, <2>3 DEF Running, Connected
<1>11. TablesAgreeBut'
  BY <1>0, <1>3, <1>4, Shapes DEF Running, TablesAgreeBut
<1>12. KeptOnce'
  BY <1>0, <1>4 DEF Running, KeptOnce
<1> QED
  BY <1>0, <1>2, <1>5, <1>6, <1>7, <1>8, <1>9, <1>10, <1>11, <1>12
  DEF ChannelInv, Running, Addressed

LEMMA CloseKeeps == ChannelInv /\ CtlClose => ChannelInv'
<1> SUFFICES ASSUME ChannelInv, CtlClose PROVE ChannelInv'
  OBVIOUS
<1> DEFINE f == ctl.fd
<1>0. /\ UNCHANGED <<proc, moved, got, wire, backlog, listen_event, client_to_fd,
                     fd_to_client, events, sending, overlapped>>
      /\ up /\ ControlTypeOK /\ Addressed /\ Running /\ ctl.at = "inactive"
  BY DEF CtlClose, ChannelInv, programVars, tableVars
<1>1. f \in Fd /\ ctl.node \in Node
      /\ ctl \in [at : {"accepted", "inactive", "closed"}, fd : Fd, node : Node]
  BY <1>0, Shapes DEF Waiting, ControlTypeOK
<1>2. CASE fd_to_client[f] = NoOne
  <2>1. ~up' /\ UNCHANGED <<sock, ctl>> /\ up' \in BOOLEAN
    BY <1>2 DEF CtlClose
  <2>2. ControlTypeOK'
    BY <1>0, <2>1 DEF ControlTypeOK
  <2> QED BY <1>0, <2>1, <2>2, DownKeeps
<1>3. CASE fd_to_client[f] # NoOne
  <2>1. sock' = [sock EXCEPT ![f] = NoOne] /\ ctl' = [ctl EXCEPT !.at = "closed"] /\ up' = up
    BY <1>3 DEF CtlClose, Closing
  <2>2. \A g \in Fd : sock'[g] = IF g = f THEN NoOne ELSE sock[g]
    BY <1>0, <1>1, <2>1 DEF ControlTypeOK
  <2>3. ctl'.at = "closed" /\ ctl'.fd = f /\ ctl'.node = ctl.node
    BY <1>1, <2>1
  <2>4. ControlTypeOK'
    BY <1>0, <1>1, <2>1 DEF ControlTypeOK
  <2>5. ASSUME NEW m \in Node, NEW g \in Fd
        PROVE  /\ ~Recording(m, g) /\ ~Recording(m, g)' /\ ~Ending(g) /\ (Ending(g)' <=> g = f)
               /\ Erasing(m)' <=> Erasing(m)
    BY <1>0, <2>3 DEF Recording, Ending, Erasing
  <2>6. EdgesWait'
    BY <1>0 DEF Running, EdgesWait
  <2>7. TargetKnown' /\ Target' = Target
    BY <1>0 DEF Running, TargetKnown, Target
  <2>8. Owned'
    BY <1>0, <2>2 DEF Running, Owned
  <2>9. CtlHolds'
    BY <1>0, <1>1, <2>2, <2>3 DEF Running, CtlHolds
  <2>10. SendingHolds'
    BY <1>0, <2>2, <2>7 DEF Running, SendingHolds, TargetKnown, Gone
  <2>11. Connected'
    <3>1. sock[f] = NoOne \/ Gone(sock[f])
      BY <1>0 DEF Running, CtlHolds
    <3>2. DOMAIN sock = Fd /\ DOMAIN sock' = Fd
      BY <1>0, <2>4 DEF ControlTypeOK
    <3>3. ASSUME NEW q \in Proc, proc[q] = "on", q \in Range(sock)
          PROVE  q \in Range(sock')
      <4>1. PICK g \in Fd : sock[g] = q
        BY <3>2, <3>3 DEF Range
      <4>2. q # NoOne /\ ~Gone(q)
        BY <3>3, ControlAssumption DEF Gone
      <4>3. sock'[g] = q
        BY <2>2, <3>1, <4>1, <4>2
      <4> QED BY <3>2, <4>1, <4>3 DEF Range
    <3> QED BY <1>0, <3>3 DEF Running, Connected
  <2>12. TablesAgreeBut'
    BY <1>0, <2>2, <2>5 DEF Running, TablesAgreeBut
  <2>13. KeptOnce'
    BY <1>0, <2>5 DEF Running, KeptOnce
  <2> QED
    BY <1>0, <2>4, <2>6, <2>7, <2>8, <2>9, <2>10, <2>11, <2>12, <2>13
    DEF ChannelInv, Running, Addressed
<1> QED BY <1>2, <1>3

LEMMA EraseKeeps == ChannelInv /\ CtlErase => ChannelInv'
<1> SUFFICES ASSUME ChannelInv, CtlErase PROVE ChannelInv'
  OBVIOUS
<1> DEFINE n == ctl.node
           f == ctl.fd
<1>0. /\ UNCHANGED <<proc, moved, got, wire, backlog, listen_event, sock, events, overlapped>>
      /\ up /\ ControlTypeOK /\ Addressed /\ Running /\ ctl.at = "closed"
  BY DEF CtlErase, ChannelInv, programVars
<1>1. f \in Fd /\ n \in Node
  BY <1>0, Shapes DEF Waiting
<1>2. CASE fd_to_client[f] = NoOne
  <2>1. ~up' /\ UNCHANGED <<client_to_fd, fd_to_client, sending, ctl>> /\ up' \in BOOLEAN
    BY <1>2 DEF CtlErase, tableVars
  <2>2. ControlTypeOK'
    BY <1>0, <2>1 DEF ControlTypeOK
  <2> QED BY <1>0, <2>1, <2>2, DownKeeps
<1>3. CASE fd_to_client[f] # NoOne
  <2>1. /\ client_to_fd' = [client_to_fd EXCEPT ![n] = NoFd]
        /\ fd_to_client' = [fd_to_client EXCEPT ![f] = NoOne]
        /\ sending' = IF Holds(n) /\ client_to_fd[n] # NoFd
                        THEN [sending EXCEPT !.dangling = TRUE] ELSE sending
        /\ ctl' = Waiting /\ up' = up
    BY <1>3 DEF CtlErase, EraseNode
  <2>2. fd_to_client[f] = n
    BY <1>0, <1>3 DEF Running, CtlHolds
  <2>3. /\ \A m \in Node : client_to_fd'[m] = IF m = n THEN NoFd ELSE client_to_fd[m]
        /\ \A g \in Fd : fd_to_client'[g] = IF g = f THEN NoOne ELSE fd_to_client[g]
    BY <1>0, <1>1, <2>1 DEF ControlTypeOK
  <2>4. sending.at # "idle" => /\ sending \in [at : {"found", "failed", "closed"}, cmd : Cmd,
                                               dangling : BOOLEAN]
                               /\ sending.cmd.to \in Node
    BY <1>0, Shapes DEF NotSending, ControlTypeOK
  <2>5. /\ sending'.at = sending.at /\ (sending.at # "idle" => sending'.cmd = sending.cmd)
        /\ sending.at # "idle" /\ ~sending'.dangling
             => /\ ~sending.dangling
                /\ sending.cmd.to = n => client_to_fd[n] = NoFd
    BY <2>1, <2>4 DEF Holds
  <2>6. ControlTypeOK'
    <3>1. sending' \in {NotSending} \cup
                       [at : {"found", "failed", "closed"}, cmd : Cmd, dangling : BOOLEAN]
      BY <1>0, <2>1, <2>4 DEF Holds, ControlTypeOK
    <3> QED BY <1>0, <1>1, <2>1, <3>1 DEF ControlTypeOK
  <2>7. ASSUME NEW m \in Node, NEW g \in Fd
        PROVE  /\ ~Recording(m, g) /\ ~Recording(m, g)' /\ (Ending(g) <=> g = f) /\ ~Ending(g)'
               /\ Erasing(m)' <=> Erasing(m)
    BY <1>0, <2>1, <2>5 DEF Recording, Ending, Erasing, Waiting
  <2>8. sending.at # "idle" /\ ~sending'.dangling
          => sending.cmd.to # n /\ Target \in Fd /\ Target' = Target
    BY <1>0, <2>3, <2>4, <2>5, Shapes DEF Running, TargetKnown, Target
  <2>9. EdgesWait' /\ TargetKnown'
    BY <1>0, <2>5, <2>8 DEF Running, EdgesWait, TargetKnown
  <2>10. Owned'
    BY <1>0, <2>3, Shapes DEF Running, Owned
  <2>11. CtlHolds'
    BY <2>1 DEF CtlHolds, Waiting
  <2>12. SendingHolds'
    BY <1>0, <2>5, <2>8 DEF Running, SendingHolds, Gone
  <2>13. Connected'
    BY <1>0 DEF Running, Connected
  <2>14. TablesAgreeBut'
    <3> SUFFICES ASSUME NEW m \in Node \ overlapped, NEW g \in Fd
                 PROVE  /\ client_to_fd'[m] = g => Erasing(m) \/ fd_to_client'[g] = m
                        /\ fd_to_client'[g] = m => client_to_fd'[m] = g
                        /\ fd_to_client'[g] = m => \/ sock[g] # NoOne /\ NodeOf[sock[g]] = m
                                                   \/ Erasing(m)
                        /\ sock[g] # NoOne /\ NodeOf[sock[g]] = m => fd_to_client'[g] = m
      BY <1>0, <2>7 DEF TablesAgreeBut
    <3>1. sock[f] = NoOne
      BY <1>0 DEF Running, CtlHolds
    <3>2. CASE m = n
      BY <1>0, <1>1, <2>2, <2>3, <2>7, <3>1, <3>2, Shapes DEF Running, TablesAgreeBut
    <3>3. CASE m # n
      BY <1>0, <1>1, <2>2, <2>3, <2>7, <3>1, <3>3, Shapes DEF Running, TablesAgreeBut
    <3> QED BY <3>2, <3>3
  <2>15. KeptOnce'
    <3> SUFFICES ASSUME NEW m \in Node \ overlapped, NEW k \in Node, NEW g \in Fd,
                        k # m, client_to_fd'[k] = g
                 PROVE  fd_to_client'[g] = m => Erasing(m)
      BY <1>0, <2>7 DEF KeptOnce
    <3> QED BY <1>0, <2>3, <2>7, Shapes DEF Running, KeptOnce
  <2> QED
    BY <1>0, <2>1, <2>6, <2>9, <2>10, <2>11, <2>12, <2>13, <2>14, <2>15
    DEF ChannelInv, Running, Addressed
<1> QED BY <1>2, <1>3

LEMMA EpollKeeps == ChannelInv /\ CtlEpoll => ChannelInv'
<1>1. ChannelInv /\ CtlAcceptDies => ChannelInv'
  <2> SUFFICES ASSUME ChannelInv, CtlAcceptDies PROVE ChannelInv'
    OBVIOUS
  <2>1. /\ UNCHANGED <<proc, moved, got, wire, backlog, listen_event, sock, client_to_fd,
                       fd_to_client, events, ctl, sending, overlapped>>
        /\ ~up' /\ up' \in BOOLEAN
    BY DEF CtlAcceptDies, programVars, tableVars, epollVars
  <2>2. ControlTypeOK'
    BY <2>1 DEF ChannelInv, ControlTypeOK
  <2> QED BY <2>1, <2>2, DownKeeps
<1> QED
  BY <1>1, WaitKeeps, AcceptKeeps, RecordKeeps, EventKeeps, CloseKeeps, EraseKeeps DEF CtlEpoll

-----------------------------------------------------------------------------
(* The command thread.                                                       *)

LEMMA FindKeeps ==
  ASSUME ChannelInv, NEW cmd \in Cmd, send_cmd(cmd)
  PROVE  ChannelInv'
<1>0. /\ UNCHANGED <<proc, moved, got, wire, backlog, listen_event, sock, client_to_fd,
                     fd_to_client, events, ctl, up, overlapped>>
      /\ up /\ ControlTypeOK /\ Addressed /\ Running /\ sending = NotSending
      /\ sending' = IF client_to_fd[cmd.to] = NoFd THEN NotSending
                    ELSE [at |-> "found", cmd |-> cmd, dangling |-> FALSE]
  BY DEF send_cmd, ChannelInv, programVars, tableVars, epollVars
<1>1. ControlTypeOK'
  BY <1>0 DEF ControlTypeOK
<1>2. sending'.at \in {"idle", "found"} /\ \A m \in Node : ~Erasing(m) /\ ~Erasing(m)'
  BY <1>0 DEF NotSending, Erasing
<1>3. TargetKnown'
  <2>1. cmd.to \in Node
    BY DEF Cmd
  <2>2. client_to_fd[cmd.to] \in Fd \cup {NoFd}
    BY <1>0, <2>1 DEF ControlTypeOK
  <2> QED BY <1>0, <2>2 DEF TargetKnown, Target, NotSending
<1>4. EdgesWait' /\ Owned' /\ CtlHolds' /\ Connected'
  BY <1>0 DEF Running, EdgesWait, Owned, CtlHolds, Connected, Gone
<1>5. SendingHolds'
  BY <1>2 DEF SendingHolds
<1>6. TablesAgreeBut' /\ KeptOnce'
  BY <1>0, <1>2 DEF Running, TablesAgreeBut, KeptOnce, Recording, Ending
<1> QED BY <1>0, <1>1, <1>3, <1>4, <1>5, <1>6 DEF ChannelInv, Running, Addressed

LEMMA WriteKeeps == ChannelInv /\ SendWrite => ChannelInv'
<1> SUFFICES ASSUME ChannelInv, SendWrite PROVE ChannelInv'
  OBVIOUS
<1> DEFINE p == sock[Target]
           cmd == sending.cmd
<1>0. /\ UNCHANGED <<proc, moved, got, backlog, listen_event, sock, client_to_fd,
                     fd_to_client, events, ctl, up, overlapped>>
      /\ up /\ ControlTypeOK /\ Addressed /\ Running
      /\ sending.at = "found" /\ ~sending.dangling
  BY DEF SendWrite, Using, ChannelInv, programVars, tableVars, epollVars
<1>1. /\ Target \in Fd /\ cmd \in Cmd /\ cmd.to \in Node /\ client_to_fd[cmd.to] = Target
      /\ sending \in [at : {"found", "failed", "closed"}, cmd : Cmd, dangling : BOOLEAN]
  BY <1>0, Shapes DEF Running, TargetKnown, Target, NotSending, ControlTypeOK
<1>2. \/ /\ IsActive(Target) /\ sending' = NotSending
         /\ wire' = [wire EXCEPT ![p] = Append(@, cmd)]
      \/ sending' = NotSending /\ wire' = wire
      \/ /\ ~IsActive(Target) /\ wire' = wire
         /\ sending' = [sending EXCEPT !.at = "failed"]
  BY DEF SendWrite
<1>3. sending' = NotSending \/ /\ sending'.at = "failed" /\ ~sending'.dangling
                               /\ sending'.cmd = cmd /\ ~IsActive(Target)
  BY <1>0, <1>1, <1>2
<1>4. p # NoOne => p \in Proc /\ (NodeOf[p] = cmd.to \/ NodeOf[p] \in overlapped)
  BY <1>0, <1>1, Shapes DEF Running, Owned
<1>5. ASSUME IsActive(Target), wire' = [wire EXCEPT ![p] = Append(@, cmd)]
      PROVE  wire' \in [Proc -> Seq(Cmd)] /\ Addressed'
  <2>1. p \in Proc /\ wire[p] \in Seq(Cmd)
    BY <1>0, <1>4, <1>5 DEF IsActive, ControlTypeOK
  <2>2. Append(wire[p], cmd) \in Seq(Cmd)
    BY <1>1, <2>1
  <2>3. \A i \in DOMAIN Append(wire[p], cmd) :
           Append(wire[p], cmd)[i] = IF i \in DOMAIN wire[p] THEN wire[p][i] ELSE cmd
    BY <1>1, <2>1
  <2>4. \A q \in Proc : wire'[q] = IF q = p THEN Append(wire[p], cmd) ELSE wire[q]
    BY <1>0, <1>5, <2>1 DEF ControlTypeOK
  <2>5. Addressed'
    <3> SUFFICES ASSUME NEW q \in Proc, NodeOf[q] \notin overlapped
                 PROVE  \A i \in DOMAIN wire'[q] : wire'[q][i].to = NodeOf[q]
      BY <1>0 DEF Addressed
    <3>1. \A i \in DOMAIN wire[q] : wire[q][i].to = NodeOf[q]
      BY <1>0 DEF Addressed
    <3>2. CASE q = p
      <4>1. cmd.to = NodeOf[q] /\ wire'[q] = Append(wire[p], cmd)
        BY <1>4, <2>1, <2>4, <3>2, ControlAssumption
      <4> QED BY <2>3, <3>1, <3>2, <4>1
    <3>3. CASE q # p
      BY <2>4, <3>1, <3>3
    <3> QED BY <3>2, <3>3
  <2> QED BY <1>0, <1>5, <2>2, <2>5 DEF ControlTypeOK
<1>6. wire' \in [Proc -> Seq(Cmd)] /\ Addressed'
  <2>1. wire' = wire => Addressed' /\ wire' \in [Proc -> Seq(Cmd)]
    BY <1>0 DEF Addressed, ControlTypeOK
  <2> QED BY <1>2, <1>5, <2>1
<1>7. ControlTypeOK'
  <2>1. sending' \in {NotSending} \cup
                     [at : {"found", "failed", "closed"}, cmd : Cmd, dangling : BOOLEAN]
    BY <1>1, <1>2
  <2> QED BY <1>0, <1>6, <2>1 DEF ControlTypeOK
<1>8. EdgesWait' /\ Owned' /\ CtlHolds' /\ Connected'
  BY <1>0 DEF Running, EdgesWait, Owned, CtlHolds, Connected, Gone
<1>9. sending' # NotSending => Target' = Target
  BY <1>0, <1>3 DEF Target
<1>10. TargetKnown'
  BY <1>1, <1>3, <1>9 DEF TargetKnown, NotSending
<1>11. SendingHolds'
  BY <1>0, <1>3, <1>9 DEF SendingHolds, NotSending, IsActive, Gone
<1>12. \A m \in Node : ~Erasing(m) /\ ~Erasing(m)'
  BY <1>0, <1>3 DEF NotSending, Erasing
<1>13. TablesAgreeBut' /\ KeptOnce'
  BY <1>0, <1>12 DEF Running, TablesAgreeBut, KeptOnce, Recording, Ending
<1> QED BY <1>0, <1>6, <1>7, <1>8, <1>10, <1>11, <1>13 DEF ChannelInv, Running

LEMMA SendCloseKeeps == ChannelInv /\ SendClose => ChannelInv'
<1> SUFFICES ASSUME ChannelInv, SendClose PROVE ChannelInv'
  OBVIOUS
<1> DEFINE f == Target
           n == sending.cmd.to
<1>0. /\ UNCHANGED <<proc, moved, got, wire, backlog, listen_event, client_to_fd,
                     fd_to_client, events, ctl, up, overlapped>>
      /\ up /\ ControlTypeOK /\ Addressed /\ Running
      /\ sending.at = "failed" /\ ~sending.dangling
      /\ sock' = [sock EXCEPT ![f] = NoOne] /\ sending' = [sending EXCEPT !.at = "closed"]
  BY DEF SendClose, Using, Closing, ChannelInv, programVars, tableVars, epollVars
<1>1. /\ f \in Fd /\ n \in Node /\ client_to_fd[n] = f
      /\ sending \in [at : {"found", "failed", "closed"}, cmd : Cmd, dangling : BOOLEAN]
  BY <1>0, Shapes DEF Running, TargetKnown, Target, NotSending, ControlTypeOK
<1>2. \A g \in Fd : sock'[g] = IF g = f THEN NoOne ELSE sock[g]
  BY <1>0, <1>1 DEF ControlTypeOK
<1>3. /\ sending'.at = "closed" /\ ~sending'.dangling /\ sending'.cmd = sending.cmd
      /\ Target' = f
  BY <1>0, <1>1 DEF Target
<1>4. ControlTypeOK'
  BY <1>0, <1>1 DEF ControlTypeOK
<1>5. ASSUME NEW m \in Node
      PROVE  /\ ~Erasing(m) /\ (Erasing(m)' <=> m = n)
             /\ \A g \in Fd : (Recording(m, g)' <=> Recording(m, g)) /\ (Ending(g)' <=> Ending(g))
  BY <1>0, <1>3 DEF Erasing, Recording, Ending
<1>6. EdgesWait' /\ TargetKnown'
  BY <1>0, <1>1, <1>3 DEF Running, EdgesWait, TargetKnown
<1>7. Owned'
  BY <1>0, <1>2 DEF Running, Owned
<1>8. CtlHolds'
  <2>1. ctl.at \in {"accepted", "inactive", "closed"} => ctl.fd \in Fd
    BY <1>0, Shapes DEF Waiting
  <2> QED BY <1>0, <1>2, <2>1 DEF Running, CtlHolds, Gone
<1>9. SendingHolds'
  BY <1>1, <1>2, <1>3 DEF SendingHolds
<1>10. sock[f] = NoOne \/ Gone(sock[f]) \/ NodeOf[sock[f]] \in overlapped
  BY <1>0 DEF Running, SendingHolds
<1>11. Connected'
  <2>1. DOMAIN sock = Fd /\ DOMAIN sock' = Fd
    BY <1>0, <1>4 DEF ControlTypeOK
  <2>2. \A q \in Proc : proc[q] = "on" /\ q \in Range(sock)
                          => q \in Range(sock') \/ NodeOf[q] \in overlapped
    <3> SUFFICES ASSUME NEW q \in Proc, proc[q] = "on", q \in Range(sock)
                 PROVE  q \in Range(sock') \/ NodeOf[q] \in overlapped
      OBVIOUS
    <3>1. PICK g \in Fd : sock[g] = q
      BY <2>1 DEF Range
    <3>2. CASE g = f
      BY <1>10, <3>1, <3>2, ControlAssumption DEF Gone
    <3>3. CASE g # f
      <4>1. sock'[g] = q
        BY <1>2, <3>1, <3>3
      <4> QED BY <2>1, <4>1 DEF Range
    <3> QED BY <3>2, <3>3
  <2> QED BY <1>0, <2>2 DEF Running, Connected
<1>12. TablesAgreeBut'
  <2> SUFFICES ASSUME NEW m \in Node \ overlapped, NEW g \in Fd
               PROVE  /\ client_to_fd[m] = g
                           => Recording(m, g) \/ Erasing(m)' \/ fd_to_client[g] = m
                      /\ fd_to_client[g] = m => client_to_fd[m] = g
                      /\ fd_to_client[g] = m => \/ sock'[g] # NoOne /\ NodeOf[sock'[g]] = m
                                                \/ Ending(g) \/ Erasing(m)'
                      /\ sock'[g] # NoOne /\ NodeOf[sock'[g]] = m
                           => Recording(m, g) \/ fd_to_client[g] = m
    BY <1>0, <1>5 DEF TablesAgreeBut
  <2>1. sock[f] # NoOne => NodeOf[sock[f]] = n \/ NodeOf[sock[f]] \in overlapped
    BY <1>0, <1>1 DEF Running, Owned
  <2> QED BY <1>0, <1>1, <1>2, <1>5, <2>1 DEF Running, TablesAgreeBut
<1>13. KeptOnce'
  BY <1>0, <1>5 DEF Running, KeptOnce
<1> QED
  BY <1>0, <1>4, <1>6, <1>7, <1>8, <1>9, <1>11, <1>12, <1>13 DEF ChannelInv, Running, Addressed

LEMMA SendEraseKeeps == ChannelInv /\ SendErase => ChannelInv'
<1> SUFFICES ASSUME ChannelInv, SendErase PROVE ChannelInv'
  OBVIOUS
<1> DEFINE f == Target
           n == sending.cmd.to
<1>0. /\ UNCHANGED <<proc, moved, got, wire, backlog, listen_event, sock, events, ctl,
                     up, overlapped>>
      /\ up /\ ControlTypeOK /\ Addressed /\ Running
      /\ sending.at = "closed" /\ ~sending.dangling /\ sending' = NotSending
      /\ fd_to_client' = [fd_to_client EXCEPT ![f] = NoOne]
      /\ client_to_fd' = [client_to_fd EXCEPT ![n] = NoFd]
  BY DEF SendErase, Using, ChannelInv, programVars, epollVars
<1>1. f \in Fd /\ n \in Node /\ client_to_fd[n] = f
  BY <1>0, Shapes DEF Running, TargetKnown, Target, NotSending
<1>2. /\ \A m \in Node : client_to_fd'[m] = IF m = n THEN NoFd ELSE client_to_fd[m]
      /\ \A g \in Fd : fd_to_client'[g] = IF g = f THEN NoOne ELSE fd_to_client[g]
  BY <1>0, <1>1 DEF ControlTypeOK
<1>3. ControlTypeOK'
  BY <1>0, <1>1 DEF ControlTypeOK
<1>4. sock[f] = NoOne \/ NodeOf[sock[f]] \in overlapped
  BY <1>0 DEF Running, SendingHolds
<1>5. ASSUME NEW m \in Node
      PROVE  /\ Erasing(m) <=> m = n
             /\ ~Erasing(m)'
             /\ \A g \in Fd : (Recording(m, g)' <=> Recording(m, g)) /\ (Ending(g)' <=> Ending(g))
  BY <1>0 DEF Erasing, Recording, Ending, NotSending
<1>6. EdgesWait' /\ TargetKnown' /\ SendingHolds'
  BY <1>0 DEF Running, EdgesWait, TargetKnown, SendingHolds, NotSending
<1>7. Owned'
  BY <1>0, <1>2, Shapes DEF Running, Owned
<1>8. CtlHolds'
  <2>1. ctl.at \in {"accepted", "inactive", "closed"} => ctl.fd \in Fd /\ ctl.node \in Node
    BY <1>0, Shapes DEF Waiting
  <2> QED BY <1>0, <1>1, <1>2, <1>4, <2>1 DEF Running, CtlHolds, Gone
<1>9. Connected'
  BY <1>0 DEF Running, Connected
<1>10. TablesAgreeBut'
  <2> SUFFICES ASSUME NEW m \in Node \ overlapped, NEW g \in Fd
               PROVE  /\ client_to_fd'[m] = g => Recording(m, g) \/ fd_to_client'[g] = m
                      /\ fd_to_client'[g] = m => client_to_fd'[m] = g
                      /\ fd_to_client'[g] = m => \/ sock[g] # NoOne /\ NodeOf[sock[g]] = m
                                                 \/ Ending(g)
                      /\ sock[g] # NoOne /\ NodeOf[sock[g]] = m
                           => Recording(m, g) \/ fd_to_client'[g] = m
    BY <1>0, <1>5 DEF TablesAgreeBut
  <2>1. CASE m = n
    BY <1>0, <1>1, <1>2, <1>4, <1>5, <2>1, Shapes DEF Running, TablesAgreeBut
  <2>2. CASE m # n
    <3>1. fd_to_client[f] # m
      BY <1>0, <1>1, <1>5, <2>2 DEF Running, KeptOnce
    <3> QED BY <1>0, <1>1, <1>2, <1>5, <2>2, <3>1, Shapes DEF Running, TablesAgreeBut
  <2> QED BY <2>1, <2>2
<1>11. KeptOnce'
  <2> SUFFICES ASSUME NEW m \in Node \ overlapped, NEW k \in Node, NEW g \in Fd,
                      k # m, client_to_fd'[k] = g
               PROVE  fd_to_client'[g] # m /\ ~Recording(m, g)
    BY <1>0, <1>5 DEF KeptOnce
  <2>1. k # n /\ client_to_fd[k] = g
    BY <1>2, Shapes, <1>0
  <2>2. ~Recording(m, g) /\ (fd_to_client[g] = m => m = n)
    BY <1>0, <1>5, <2>1 DEF Running, KeptOnce
  <2>3. fd_to_client[g] = n /\ n \notin overlapped => g = f
    BY <1>0, <1>1 DEF Running, TablesAgreeBut
  <2> QED BY <1>0, <1>1, <1>2, <2>2, <2>3, Shapes
<1> QED
  BY <1>0, <1>3, <1>6, <1>7, <1>8, <1>9, <1>10, <1>11 DEF ChannelInv, Running, Addressed

LEMMA SendingKeeps == ChannelInv /\ Sending => ChannelInv'
<1>1. ChannelInv /\ SendUndefined => ChannelInv'
  <2> SUFFICES ASSUME ChannelInv, SendUndefined PROVE ChannelInv'
    OBVIOUS
  <2>1. /\ UNCHANGED <<proc, moved, got, wire, backlog, listen_event, sock, client_to_fd,
                       fd_to_client, events, ctl, sending, overlapped>>
        /\ ~up' /\ up' \in BOOLEAN
    BY DEF SendUndefined, programVars, tableVars, epollVars
  <2>2. ControlTypeOK'
    BY <2>1 DEF ChannelInv, ControlTypeOK
  <2> QED BY <2>1, <2>2, DownKeeps
<1> QED BY <1>1, WriteKeeps, SendCloseKeeps, SendEraseKeeps DEF Sending

-----------------------------------------------------------------------------
(* The other invariants.                                                    *)

\* An "exit" has been read or typed.
ExitEntered == \E i \in DOMAIN given : IsExit(given[i])

\* The descriptors in the hands of main are those of the place it is at.
HoldsWhatItServes ==
  /\ at # "accept" => now \in Client
  /\ at \in {"accept", "begin"} => peer_fd = Nobody
  /\ at \in {"accept", "destroy"} => socket_fd = Nobody

RedirectInv == RedirectTypeOK /\ HoldsWhatItServes

\* What a program has taken and what it has still to take are commands in the
\* order in which run_read_cmd has begun them.
Increasing(s) == \A i, j \in DOMAIN s : i < j => s[i].id < s[j].id
Below(s, n) == \A i \in DOMAIN s : s[i].id < n
Numbered ==
  /\ \A p \in Proc :
       /\ Increasing(got[p]) /\ Increasing(wire[p])
       /\ \A i \in DOMAIN got[p], j \in DOMAIN wire[p] : got[p][i].id < wire[p][j].id
       /\ Below(got[p], Len(ran) + 1) /\ Below(wire[p], Len(ran) + 1)
  /\ sending.at = "found" =>
       /\ sending.cmd.id <= Len(ran)
       /\ \A p \in Proc : Below(got[p], sending.cmd.id) /\ Below(wire[p], sending.cmd.id)

-----------------------------------------------------------------------------
(* The commands.                                                             *)

\* A line more in the history does not take an "exit" from it.
LEMMA ExitStays ==
  ASSUME CommandsTypeOK, NEW g \in Given, given' = Append(given, g)
  PROVE  /\ ExitEntered => ExitEntered'
         /\ IsExit(g) => ExitEntered'
         /\ given' \in Seq(Given)
<1>1. given \in Seq(Given)
  BY DEF CommandsTypeOK
<1>2. \A i \in DOMAIN given : i \in DOMAIN given' /\ given'[i] = given[i]
  BY <1>1
<1>3. Len(given) + 1 \in DOMAIN given' /\ given'[Len(given) + 1] = g
  BY <1>1
<1>4. given' \in Seq(Given)
  BY <1>1
<1> QED BY <1>2, <1>3, <1>4 DEF ExitEntered

LEMMA CommandsStart == TproxyInit => CommandsTypeOK
<1> SUFFICES ASSUME TproxyInit PROVE CommandsTypeOK
  OBVIOUS
<1>1. PICK s \in Script : CommandsInit(s)
  BY DEF TproxyInit
<1>2. /\ s.strategy \in {"not_set", "direct", "cmd", "file"} /\ s.lines \in Seq(Line)
      /\ s.strategy \in {r.strategy : r \in Script}
  BY <1>1, CommandsAssumption
<1> QED BY <1>1, <1>2 DEF CommandsInit, CommandsTypeOK, MainOf

\* Reading a line, from a file or the prompt.
LEMMA EnteringKeeps ==
  ASSUME CommandsTypeOK, Entering
  PROVE  CommandsTypeOK'
<1>0. /\ cmds \in Seq(Line \cup {[op |-> "exit"]}) /\ input \in Seq(Line)
      /\ given \in Seq(Given) /\ ran \in Seq(Line)
  BY DEF CommandsTypeOK
<1>1. ASSUME NEW line \in Line, ReadLine(line) PROVE CommandsTypeOK'
  <2> DEFINE g == [line |-> line, by |-> "file"]
  <2>1. g \in Given /\ given' = Append(given, g)
    BY <1>1 DEF ReadLine, Enter, Given
  <2>2. given' \in Seq(Given)
    BY <2>1, ExitStays
  <2>3. cmds' \in Seq(Line \cup {[op |-> "exit"]})
    BY <1>0, <1>1 DEF ReadLine, Enqueue
  <2> QED BY <1>0, <1>1, <2>2, <2>3 DEF ReadLine, Enter, CommandsTypeOK
<1>2. ASSUME NEW line \in Line, TypeLine(line) PROVE CommandsTypeOK'
  <2> DEFINE g == [line |-> line, by |-> "prompt"]
  <2>1. g \in Given /\ given' = Append(given, g)
    BY <1>2 DEF TypeLine, Enter, Given
  <2>2. given' \in Seq(Given)
    BY <2>1, ExitStays
  <2>3. cmds' \in Seq(Line \cup {[op |-> "exit"]})
    <3>1. cmds' \in {cmds, Append(cmds, line)}
      BY <1>2 DEF TypeLine, Enqueue
    <3>2. Append(cmds, line) \in Seq(Line \cup {[op |-> "exit"]})
      BY <1>0
    <3> QED BY <1>0, <3>1, <3>2
  <2> QED BY <1>0, <1>2, <2>2, <2>3 DEF TypeLine, Enter, CommandsTypeOK
<1>3. CASE EndOfFile
  BY <1>3 DEF EndOfFile, is_file, StrategyWhenConstructed, CommandsTypeOK
<1>4. CASE LeavePrompt
  <2>1. cmds' \in Seq(Line \cup {[op |-> "exit"]})
    BY <1>0, <1>4 DEF LeavePrompt, Exit
  <2> QED BY <1>4, <2>1 DEF LeavePrompt, CommandsTypeOK
<1> QED BY <1>1, <1>2, <1>3, <1>4 DEF Entering

\* Taking a command.
LEMMA DequeueKeeps ==
  ASSUME CommandsTypeOK, Dequeue
  PROVE  CommandsTypeOK'
<1>1. cmds # <<>> /\ cmds' = Tail(cmds)
  BY DEF Dequeue, is_file, StrategyWhenConstructed
<1>2. cmds \in Seq(Line \cup {[op |-> "exit"]}) /\ ran \in Seq(Line)
  BY DEF CommandsTypeOK
<1>3. Head(cmds) \in Line \cup {[op |-> "exit"]} /\ cmds' \in Seq(Line \cup {[op |-> "exit"]})
  BY <1>1, <1>2
<1>4. ran' \in Seq(Line) /\ runner' \in {"on", "returned"}
  <2>1. CASE Head(cmds).op = "exit"
    BY <1>1, <1>2, <2>1 DEF Dequeue
  <2>2. CASE Head(cmds).op # "exit"
    <3>1. Head(cmds) \in Line
      BY <1>3, <2>2
    <3> QED BY <1>1, <1>2, <2>2, <3>1 DEF Dequeue
  <2> QED BY <2>1, <2>2
<1> QED BY <1>3, <1>4 DEF Dequeue, CommandsTypeOK

LEMMA CommandsKept == CommandsTypeOK /\ [TproxyNext]_tproxyVars => CommandsTypeOK'
<1> SUFFICES ASSUME CommandsTypeOK, [TproxyNext]_tproxyVars PROVE CommandsTypeOK'
  OBVIOUS
<1>1. CASE MainThread
  BY <1>1, EnteringKeeps DEF MainThread
<1>2. CASE RunCommand
  BY <1>2, DequeueKeeps DEF RunCommand
<1>3. CASE Return
  BY <1>3 DEF Return, EndMain, CommandsTypeOK
<1>4. CASE UNCHANGED commandVars
  BY <1>4 DEF commandVars, CommandsTypeOK
<1> QED
  BY <1>1, <1>2, <1>3, <1>4 DEF TproxyNext, ControlSteps, RedirectSteps, tproxyVars

-----------------------------------------------------------------------------
(* What has been entered has been run or waits.                              *)

\* The recursion behind CommandsIn, as a function from the lengths of prefixes.
Keeps(gs, n) == Runs(gs[n]) /\ \A i \in 1..n : ~IsExit(gs[i])
Collects(gs, u) ==
  /\ u[0] = <<>>
  /\ \A n \in 1..Len(gs) : u[n] = IF Keeps(gs, n) THEN Append(u[n - 1], gs[n].line) ELSE u[n - 1]

\* The lines of an entered sequence.
LEMMA LinesGiven ==
  ASSUME NEW gs \in Seq(Given)
  PROVE  \A n \in 1..Len(gs) : gs[n].line \in Line
<1>1. ASSUME NEW n \in 1..Len(gs) PROVE gs[n] \in Given
  OBVIOUS
<1> QED BY <1>1 DEF Given

\* CommandsIn takes its value from a function that meets the equation.
LEMMA CommandsCollected ==
  ASSUME NEW gs \in Seq(Given)
  PROVE  \E u \in [0..Len(gs) -> Seq(Line)] : Collects(gs, u) /\ CommandsIn(gs) = u[Len(gs)]
<1> DEFINE len == Len(gs)
           S == Seq(Line)
           step == [n \in 1..len |->
                      [q \in S |-> IF Keeps(gs, n) THEN Append(q, gs[n].line) ELSE q]]
           Meets(u) == u = [n \in 0..len |->
                              IF n = 0 THEN <<>>
                              ELSE IF Runs(gs[n]) /\ \A i \in 1..n : ~IsExit(gs[i])
                                   THEN Append(u[n - 1], gs[n].line) ELSE u[n - 1]]
<1>1. len \in Nat /\ <<>> \in S
  OBVIOUS
<1>2. step \in [1..len -> [S -> S]]
  <2>1. ASSUME NEW n \in 1..len, NEW q \in S PROVE Append(q, gs[n].line) \in S
    BY LinesGiven
  <2> QED BY <2>1
<1>3. PICK f \in [0..len -> S] : Recursive(f, len, <<>>, step)
  <2> HIDE DEF S, step
  <2> QED BY <1>1, <1>2, RecursionExists
<1>4. f[0] = <<>>
  BY <1>1, <1>3 DEF Recursive
<1>5. ASSUME NEW n \in 1..len
      PROVE  f[n] = IF Keeps(gs, n) THEN Append(f[n - 1], gs[n].line) ELSE f[n - 1]
  <2>1. n \in 0..len /\ n # 0 /\ n - 1 \in 0..len
    BY <1>1
  <2>2. f[n] = step[n][f[n - 1]] /\ f[n - 1] \in S
    <3> HIDE DEF S, step
    <3> QED BY <1>3, <2>1 DEF Recursive
  <2> QED BY <2>2
<1>6. Meets(f)
  <2>1. f = [n \in 0..len |-> f[n]]
    <3> HIDE DEF S
    <3> QED BY <1>3
  <2>2. ASSUME NEW n \in 0..len
        PROVE  f[n] = IF n = 0 THEN <<>>
                      ELSE IF Runs(gs[n]) /\ \A i \in 1..n : ~IsExit(gs[i])
                           THEN Append(f[n - 1], gs[n].line) ELSE f[n - 1]
    <3>1. CASE n = 0
      BY <1>4, <3>1
    <3>2. CASE n # 0
      <4>1. n \in 1..len
        BY <1>1, <3>2
      <4> QED BY <1>5, <3>2, <4>1 DEF Keeps
    <3> QED BY <3>1, <3>2
  <2> HIDE DEF len
  <2> QED BY <2>1, <2>2, Zenon
<1>7. CommandsIn(gs) = (CHOOSE u : Meets(u))[len]
  BY Zenon DEF CommandsIn
<1> DEFINE u == CHOOSE v : Meets(v)
<1>8. Meets(u)
  <2> HIDE DEF Meets
  <2> QED BY <1>6, Zenon
<1>9. u[0] = <<>>
  <2> HIDE DEF u
  <2> QED BY <1>1, <1>8
<1>10. ASSUME NEW n \in 1..len
       PROVE  u[n] = IF Keeps(gs, n) THEN Append(u[n - 1], gs[n].line) ELSE u[n - 1]
  <2> HIDE DEF u
  <2>1. n \in 0..len /\ n # 0
    BY <1>1
  <2> QED BY <1>8, <2>1 DEF Keeps
<1> DEFINE T == {n \in 0..len : u[n] \in S}
<1>11. 0..len \subseteq T
  <2> HIDE DEF u
  <2>1. 0 \in T
    BY <1>1, <1>9
  <2>2. ASSUME NEW n \in 0..len - 1, n \in T PROVE n + 1 \in T
    <3>1. n + 1 \in 1..len /\ n + 1 \in 0..len /\ (n + 1) - 1 = n
      BY <1>1
    <3>2. u[n] \in S /\ gs[n + 1].line \in Line
      BY <2>2, <3>1, LinesGiven
    <3>3. u[n + 1] \in {u[n], Append(u[n], gs[n + 1].line)}
      BY <1>10, <3>1
    <3>4. u[n + 1] \in S
      <4>1. \A q \in Seq(Line), l \in Line : Append(q, l) \in Seq(Line)
        OBVIOUS
      <4> QED BY <3>2, <3>3, <4>1
    <3> QED BY <3>1, <3>4
  <2> HIDE DEF T
  <2>3. 0 \in Int /\ len \in Int
    BY <1>1
  <2> QED BY <2>1, <2>2, <2>3, Induction
<1>12. u \in [0..len -> S]
  <2> HIDE DEF u, S, len
  <2> QED BY <1>8, <1>11
<1> QED BY <1>7, <1>9, <1>10, <1>12 DEF Collects

\* A line more is run unless it says nothing or an "exit" stands before it.
LEMMA CommandsGrow ==
  ASSUME NEW gs \in Seq(Given), NEW g \in Given
  PROVE  CommandsIn(Append(gs, g)) =
           IF Runs(g) /\ ~IsExit(g) /\ \A i \in DOMAIN gs : ~IsExit(gs[i])
           THEN Append(CommandsIn(gs), g.line) ELSE CommandsIn(gs)
<1> DEFINE more == Append(gs, g)
           n == Len(gs)
<1>1. /\ more \in Seq(Given) /\ Len(more) = n + 1 /\ n \in Nat
      /\ \A i \in 1..n : more[i] = gs[i]
      /\ more[n + 1] = g
      /\ DOMAIN gs = 1..n
  OBVIOUS
<1> HIDE DEF more, n
<1>2. PICK u : Collects(gs, u) /\ CommandsIn(gs) = u[n]
  BY CommandsCollected DEF n
<1>3. PICK v : Collects(more, v) /\ CommandsIn(more) = v[n + 1]
  BY <1>1, CommandsCollected
<1> DEFINE T == {i \in 0..n : v[i] = u[i]}
<1>4. 0..n \subseteq T
  <2>1. 0 \in T
    BY <1>1, <1>2, <1>3 DEF Collects
  <2>2. ASSUME NEW i \in 0..n - 1, i \in T PROVE i + 1 \in T
    <3>1. /\ i + 1 \in 1..n /\ i + 1 \in 1..n + 1 /\ i + 1 \in 0..n /\ (i + 1) - 1 = i
          /\ 1..i + 1 \subseteq 1..n
      BY <1>1
    <3>2. Keeps(more, i + 1) <=> Keeps(gs, i + 1)
      BY <1>1, <3>1 DEF Keeps
    <3>3. v[i + 1] = IF Keeps(more, i + 1) THEN Append(v[i], more[i + 1].line) ELSE v[i]
      BY <1>1, <1>3, <3>1 DEF Collects
    <3>4. u[i + 1] = IF Keeps(gs, i + 1) THEN Append(u[i], gs[i + 1].line) ELSE u[i]
      BY <1>1, <1>2, <3>1 DEF Collects, n
    <3> QED BY <1>1, <2>2, <3>1, <3>2, <3>3, <3>4
  <2> HIDE DEF T
  <2>3. 0 \in Int /\ n \in Int
    BY <1>1
  <2> QED BY <2>1, <2>2, <2>3, Induction
<1>5. v[n] = CommandsIn(gs)
  BY <1>1, <1>2, <1>4
<1>6. n + 1 \in 1..n + 1 /\ (n + 1) - 1 = n /\ 1..n + 1 = (1..n) \cup {n + 1}
  BY <1>1
<1>7. v[n + 1] = IF Keeps(more, n + 1) THEN Append(v[n], g.line) ELSE v[n]
  BY <1>1, <1>3, <1>6 DEF Collects
<1>8. Keeps(more, n + 1) <=> Runs(g) /\ ~IsExit(g) /\ \A i \in DOMAIN gs : ~IsExit(gs[i])
  BY <1>1, <1>6 DEF Keeps
<1> QED BY <1>3, <1>5, <1>7, <1>8 DEF more

\* Before any line.
LEMMA CommandsNone == CommandsIn(<<>>) = <<>>
<1>1. <<>> \in Seq(Given) /\ Len(<<>>) = 0
  OBVIOUS
<1> QED BY <1>1, CommandsCollected DEF Collects

\* What has been run, and then the first k in the queue, is what has been entered,
\* and an "exit" comes next.
Aligned(entered, done, queued, k) ==
  /\ k \in 0..Len(queued) /\ Len(entered) = Len(done) + k
  /\ \A i \in 1..Len(done) : entered[i] = done[i]
  /\ \A i \in 1..k : entered[Len(done) + i] = queued[i] /\ queued[i].op # "exit"
  /\ k < Len(queued) => queued[k + 1].op = "exit"

\* No more commands come: an "exit" has been entered or main waits for the end.
Over == main \in {"joining", "ended"} \/ ExitEntered
QueueHolds ==
  /\ runner # "returned" =>
       \E k \in 0..Len(cmds) : Aligned(Entered, ran, cmds, k) /\ (k < Len(cmds) <=> Over)
  /\ runner = "returned" => Over /\ Entered = ran
  /\ main = "ended" => runner = "returned"
  /\ main = "file" => runner = "off"

\* A command is entered.
LEMMA AlignedTakes ==
  ASSUME NEW es \in Seq(Line), NEW rs \in Seq(Line), NEW cs \in Seq(Line \cup {Exit}),
         NEW x \in Line, x.op # "exit", Aligned(es, rs, cs, Len(cs))
  PROVE  Aligned(Append(es, x), rs, Append(cs, x), Len(Append(cs, x)))
<1> DEFINE k == Len(cs)
           es1 == Append(es, x)
           cs1 == Append(cs, x)
<1>1. /\ k \in Nat /\ Len(rs) \in Nat /\ Len(es) = Len(rs) + k
      /\ Len(es1) = Len(es) + 1 /\ Len(cs1) = k + 1
      /\ es1[Len(es) + 1] = x /\ cs1[k + 1] = x
      /\ \A i \in 1..Len(es) : es1[i] = es[i]
      /\ \A i \in 1..k : cs1[i] = cs[i]
  BY DEF Aligned
<1> HIDE DEF k, es1, cs1
<1>2. \A i \in 1..Len(rs) : es1[i] = rs[i]
  BY <1>1 DEF Aligned
<1>3. ASSUME NEW i \in 1..k + 1 PROVE es1[Len(rs) + i] = cs1[i] /\ cs1[i].op # "exit"
  <2>1. CASE i = k + 1
    <3>1. Len(rs) + i = Len(es) + 1
      BY <1>1, <2>1
    <3> QED BY <1>1, <2>1, <3>1
  <2>2. CASE i # k + 1
    <3>1. i \in 1..k /\ Len(rs) + i \in 1..Len(es)
      BY <1>1, <2>2
    <3> QED BY <1>1, <3>1 DEF Aligned, k
  <2> QED BY <2>1, <2>2
<1>4. Len(es1) = Len(rs) + (k + 1) /\ k + 1 \in 0..k + 1 /\ ~(k + 1 < k + 1)
  BY <1>1
<1>5. Aligned(es1, rs, cs1, Len(cs1))
  BY <1>1, <1>2, <1>3, <1>4 DEF Aligned
<1> QED BY <1>5 DEF es1, cs1

\* Something is put behind an "exit", or is one.
LEMMA AlignedBars ==
  ASSUME NEW es \in Seq(Line), NEW rs \in Seq(Line), NEW cs \in Seq(Line \cup {Exit}),
         NEW x \in Line \cup {Exit}, NEW k \in 0..Len(cs),
         Aligned(es, rs, cs, k), k < Len(cs) \/ x.op = "exit"
  PROVE  /\ k \in 0..Len(Append(cs, x)) /\ k < Len(Append(cs, x))
         /\ Aligned(es, rs, Append(cs, x), k)
<1> DEFINE cs1 == Append(cs, x)
<1>1. /\ Len(cs) \in Nat /\ Len(cs1) = Len(cs) + 1 /\ cs1[Len(cs) + 1] = x
      /\ \A i \in 1..Len(cs) : cs1[i] = cs[i]
  OBVIOUS
<1> HIDE DEF cs1
<1>2. cs1[k + 1].op = "exit"
  BY <1>1 DEF Aligned
<1>3. \A i \in 1..k : cs1[i] = cs[i]
  BY <1>1
<1>4. k \in 0..Len(cs1) /\ k < Len(cs1)
  BY <1>1
<1>5. Aligned(es, rs, cs1, k)
  BY <1>2, <1>3, <1>4 DEF Aligned
<1> QED BY <1>4, <1>5 DEF cs1

\* The next command is run.
LEMMA AlignedRuns ==
  ASSUME NEW es \in Seq(Line), NEW rs \in Seq(Line), NEW cs \in Seq(Line \cup {Exit}),
         NEW k \in 0..Len(cs), Aligned(es, rs, cs, k), cs # <<>>, Head(cs).op # "exit"
  PROVE  /\ k - 1 \in 0..Len(Tail(cs))
         /\ k - 1 < Len(Tail(cs)) <=> k < Len(cs)
         /\ Aligned(es, Append(rs, Head(cs)), Tail(cs), k - 1)
<1> DEFINE rs1 == Append(rs, Head(cs))
           cs1 == Tail(cs)
<1>1. /\ Len(cs) \in Nat \ {0} /\ Len(rs) \in Nat /\ Head(cs) = cs[1]
      /\ Len(cs1) = Len(cs) - 1 /\ Len(rs1) = Len(rs) + 1
      /\ \A i \in 1..Len(cs) - 1 : cs1[i] = cs[i + 1]
      /\ rs1[Len(rs) + 1] = Head(cs)
      /\ \A i \in 1..Len(rs) : rs1[i] = rs[i]
  OBVIOUS
<1> HIDE DEF rs1, cs1
<1>2. k # 0
  BY <1>1 DEF Aligned
<1>3. k - 1 \in 0..Len(cs1) /\ (k - 1 < Len(cs1) <=> k < Len(cs))
  BY <1>1, <1>2
<1>4. \A i \in 1..Len(rs1) : es[i] = rs1[i]
  <2>1. es[Len(rs) + 1] = cs[1]
    BY <1>2 DEF Aligned
  <2>2. ASSUME NEW i \in 1..Len(rs) PROVE es[i] = rs1[i]
    BY <1>1, <2>2 DEF Aligned
  <2>3. 1..Len(rs1) = (1..Len(rs)) \cup {Len(rs) + 1}
    BY <1>1
  <2> QED BY <1>1, <2>1, <2>2, <2>3
<1>5. ASSUME NEW i \in 1..k - 1 PROVE es[Len(rs1) + i] = cs1[i] /\ cs1[i].op # "exit"
  <2>1. i + 1 \in 1..k /\ i \in 1..Len(cs) - 1 /\ Len(rs1) + i = Len(rs) + (i + 1)
    BY <1>1
  <2> QED BY <1>1, <2>1 DEF Aligned
<1>6. k - 1 < Len(cs1) => cs1[(k - 1) + 1].op = "exit"
  <2>1. k < Len(cs) => k \in 1..Len(cs) - 1 /\ (k - 1) + 1 = k
    BY <1>1, <1>2
  <2> QED BY <1>1, <1>3, <2>1 DEF Aligned
<1>7. Len(es) = Len(rs1) + (k - 1)
  BY <1>1 DEF Aligned
<1>8. Aligned(es, rs1, cs1, k - 1)
  BY <1>3, <1>4, <1>5, <1>6, <1>7 DEF Aligned
<1> QED BY <1>3, <1>8 DEF rs1, cs1

\* An "exit" is next: all that was entered has been run.
LEMMA AlignedEnds ==
  ASSUME NEW es \in Seq(Line), NEW rs \in Seq(Line), NEW cs \in Seq(Line \cup {Exit}),
         NEW k \in 0..Len(cs), Aligned(es, rs, cs, k), cs # <<>>, Head(cs).op = "exit"
  PROVE  es = rs /\ k = 0 /\ k < Len(cs)
<1>1. Len(cs) \in Nat \ {0} /\ Head(cs) = cs[1]
  OBVIOUS
<1>2. k = 0
  BY <1>1 DEF Aligned
<1>3. Len(es) = Len(rs) /\ \A i \in 1..Len(es) : es[i] = rs[i]
  BY <1>2 DEF Aligned
<1> QED BY <1>1, <1>2, <1>3

\* What has been entered is a sequence of lines.
LEMMA EnteredIs == CommandsTypeOK => Entered \in Seq(Line) /\ Entered' = CommandsIn(given')
<1> SUFFICES ASSUME CommandsTypeOK PROVE Entered \in Seq(Line)
  BY DEF Entered
<1>1. given \in Seq(Given) /\ Len(given) \in 0..Len(given)
  BY DEF CommandsTypeOK
<1>2. PICK u \in [0..Len(given) -> Seq(Line)] : CommandsIn(given) = u[Len(given)]
  BY <1>1, CommandsCollected
<1> HIDE DEF CommandsTypeOK
<1> QED BY <1>1, <1>2 DEF Entered

\* A line of a file or of the prompt goes into the queue.
LEMMA LineEnqueued ==
  ASSUME CommandsTypeOK, QueueHolds, NEW g \in Given, given' = Append(given, g),
         UNCHANGED <<ran, runner>>, main \notin {"joining", "ended"},
         main' = "file" => main = "file",
         main' \notin {"joining", "ended"},
         IF Runs(g) THEN cmds' = Append(cmds, g.line) ELSE cmds' = cmds /\ ~IsExit(g)
  PROVE  QueueHolds'
<1>1. /\ given \in Seq(Given) /\ ran \in Seq(Line) /\ cmds \in Seq(Line \cup {Exit})
      /\ Entered \in Seq(Line) /\ Entered' = CommandsIn(given') /\ g.line \in Line
  BY EnteredIs DEF CommandsTypeOK, Exit, Given
<1>2. Over <=> ExitEntered
  BY DEF Over
<1>3. Over' <=> ExitEntered \/ IsExit(g)
  <2>1. ExitEntered \/ IsExit(g) => ExitEntered'
    BY ExitStays
  <2>2. ASSUME ExitEntered' PROVE ExitEntered \/ IsExit(g)
    <3>1. PICK i \in DOMAIN given' : IsExit(given'[i])
      BY <2>2 DEF ExitEntered, IsExit
    <3>2. (i \in DOMAIN given /\ given'[i] = given[i]) \/ given'[i] = g
      BY <1>1
    <3> QED BY <3>1, <3>2 DEF ExitEntered
  <2> QED BY <2>1, <2>2 DEF Over
<1>4. Entered' = IF Runs(g) /\ ~IsExit(g) /\ ~ExitEntered
                 THEN Append(Entered, g.line) ELSE Entered
  BY <1>1, CommandsGrow DEF Entered, ExitEntered
<1>5. CASE runner = "returned"
  BY <1>2, <1>3, <1>4, <1>5 DEF QueueHolds
<1>6. CASE runner # "returned"
  <2>1. PICK k \in 0..Len(cmds) : Aligned(Entered, ran, cmds, k) /\ (k < Len(cmds) <=> Over)
    BY <1>6 DEF QueueHolds
  <2>2. Len(cmds) \in Nat
    BY <1>1
  <2>3. \E j \in 0..Len(cmds') : Aligned(Entered', ran, cmds', j) /\ (j < Len(cmds') <=> Over')
    <3>1. CASE ~Runs(g)
      BY <1>2, <1>3, <1>4, <2>1, <3>1
    <3>2. CASE Runs(g) /\ (ExitEntered \/ IsExit(g))
      <4>1. Entered' = Entered /\ Over'
        BY <1>3, <1>4, <3>2
      <4>2. k < Len(cmds) \/ g.line.op = "exit"
        BY <1>2, <2>1, <3>2 DEF IsExit
      <4>3. /\ k \in 0..Len(cmds') /\ k < Len(cmds')
            /\ Aligned(Entered, ran, cmds', k)
        BY <1>1, <2>1, <3>2, <4>2, AlignedBars
      <4> QED BY <4>1, <4>3
    <3>3. CASE Runs(g) /\ ~ExitEntered /\ ~IsExit(g)
      <4>1. Entered' = Append(Entered, g.line) /\ ~Over'
        BY <1>3, <1>4, <3>3
      <4>2. k = Len(cmds) /\ g.line.op # "exit"
        BY <1>2, <2>1, <2>2, <3>3 DEF IsExit
      <4>3. Aligned(Append(Entered, g.line), ran, cmds', Len(cmds'))
        BY <1>1, <2>1, <3>3, <4>2, AlignedTakes
      <4>4. Len(cmds') \in 0..Len(cmds') /\ ~(Len(cmds') < Len(cmds'))
        BY <1>1, <3>3
      <4> QED BY <4>1, <4>3, <4>4
    <3> QED BY <3>1, <3>2, <3>3
  <2> QED BY <1>6, <2>3 DEF QueueHolds
<1> QED BY <1>5, <1>6

\* Reading a line, the end of a file and of the prompt.
LEMMA QueueEntering ==
  ASSUME CommandsTypeOK, QueueHolds, Entering
  PROVE  QueueHolds'
<1>1. /\ given \in Seq(Given) /\ ran \in Seq(Line) /\ cmds \in Seq(Line \cup {Exit})
      /\ Entered \in Seq(Line) /\ Entered' = CommandsIn(given')
  BY EnteredIs DEF CommandsTypeOK, Exit
<1>2. ASSUME NEW line \in Line, ReadLine(line) PROVE QueueHolds'
  <2> DEFINE g == [line |-> line, by |-> "file"]
  <2>1. g \in Given /\ g.line = line /\ g.by = "file"
    BY DEF Given
  <2>2. given' = Append(given, g) /\ UNCHANGED <<ran, runner, main>> /\ main \in {"file", "nested"}
    BY <1>2 DEF ReadLine, Enter
  <2>3. IF Runs(g) THEN cmds' = Append(cmds, g.line) ELSE cmds' = cmds /\ ~IsExit(g)
    BY <1>2 DEF ReadLine, Enqueue, Runs, IsExit
  <2> QED BY <2>1, <2>2, <2>3, LineEnqueued
<1>3. ASSUME NEW line \in Line, TypeLine(line) PROVE QueueHolds'
  <2> DEFINE g == [line |-> line, by |-> "prompt"]
  <2>1. g \in Given /\ g.line = line /\ g.by = "prompt"
    BY DEF Given
  <2>2. /\ given' = Append(given, g) /\ UNCHANGED <<ran, runner>>
        /\ main = "prompt" /\ main' \in {"nested", "prompt"}
    BY <1>3 DEF TypeLine, Enter
  <2>3. IF Runs(g) THEN cmds' = Append(cmds, g.line) ELSE cmds' = cmds /\ ~IsExit(g)
    BY <1>3 DEF TypeLine, Enqueue, Runs, IsExit
  <2> QED BY <2>1, <2>2, <2>3, LineEnqueued
<1>4. CASE EndOfFile
  <2>1. UNCHANGED <<cmds, given, ran>>
    BY <1>4 DEF EndOfFile, is_file, StrategyWhenConstructed
  <2>2. /\ main \in {"file", "nested"} /\ main' \in {"commands", "prompt"}
        /\ (main # "file" /\ runner' = runner) \/ (runner = "off" /\ runner' = "on")
    BY <1>4 DEF EndOfFile, QueueHolds
  <2> QED BY <1>1, <2>1, <2>2 DEF QueueHolds, Over, ExitEntered, Entered
<1>5. CASE LeavePrompt
  <2>1. /\ cmds' = Append(cmds, Exit) /\ Exit.op = "exit" /\ Entered' = Entered
        /\ UNCHANGED <<runner, ran>> /\ main' = "joining" /\ Over'
    BY <1>5 DEF LeavePrompt, Exit, Over, Entered
  <2>2. CASE runner = "returned"
    BY <2>1, <2>2 DEF QueueHolds
  <2>3. CASE runner # "returned"
    <3>1. PICK k \in 0..Len(cmds) : Aligned(Entered, ran, cmds, k)
      BY <2>3 DEF QueueHolds
    <3>2. k \in 0..Len(cmds') /\ k < Len(cmds') /\ Aligned(Entered, ran, cmds', k)
      BY <1>1, <2>1, <3>1, AlignedBars
    <3> QED BY <2>1, <2>3, <3>2 DEF QueueHolds
  <2> QED BY <2>2, <2>3
<1> QED BY <1>2, <1>3, <1>4, <1>5 DEF Entering

\* run_read_cmd takes a command.
LEMMA QueueDequeue ==
  ASSUME CommandsTypeOK, QueueHolds, Dequeue
  PROVE  QueueHolds'
<1>1. /\ ran \in Seq(Line) /\ cmds \in Seq(Line \cup {Exit}) /\ Entered \in Seq(Line)
  BY EnteredIs DEF CommandsTypeOK, Exit
<1>2. /\ cmds # <<>> /\ cmds' = Tail(cmds) /\ UNCHANGED <<main, given>>
      /\ runner = "on" /\ Entered' = Entered
  BY DEF Dequeue, is_file, StrategyWhenConstructed, Entered
<1>3. PICK k \in 0..Len(cmds) : Aligned(Entered, ran, cmds, k) /\ (k < Len(cmds) <=> Over)
  BY <1>2 DEF QueueHolds
<1>4. Over' <=> Over
  BY <1>2 DEF Over, ExitEntered
<1>5. main # "ended" /\ main # "file"
  BY <1>2 DEF QueueHolds
<1>6. CASE Head(cmds).op = "exit"
  <2>1. runner' = "returned" /\ ran' = ran
    BY <1>2, <1>6 DEF Dequeue
  <2>2. Entered = ran /\ Over
    BY <1>1, <1>2, <1>3, <1>6, AlignedEnds
  <2> QED BY <1>2, <1>4, <2>1, <2>2 DEF QueueHolds
<1>7. CASE Head(cmds).op # "exit"
  <2>1. runner' = "on" /\ ran' = Append(ran, Head(cmds))
    BY <1>2, <1>7 DEF Dequeue
  <2>2. /\ k - 1 \in 0..Len(cmds')
        /\ k - 1 < Len(cmds') <=> k < Len(cmds)
        /\ Aligned(Entered, ran', cmds', k - 1)
    BY <1>1, <1>2, <1>3, <1>7, <2>1, AlignedRuns
  <2> QED BY <1>2, <1>3, <1>4, <1>5, <2>1, <2>2 DEF QueueHolds
<1> QED BY <1>6, <1>7

\* The whole of it is inductive.
LEMMA QueueKept == CommandsTypeOK /\ QueueHolds /\ [TproxyNext]_tproxyVars => QueueHolds'
<1> SUFFICES ASSUME CommandsTypeOK, QueueHolds, [TproxyNext]_tproxyVars PROVE QueueHolds'
  OBVIOUS
<1>1. CASE MainThread
  BY <1>1, QueueEntering DEF MainThread
<1>2. CASE RunCommand
  BY <1>2, QueueDequeue DEF RunCommand
<1>3. CASE Return
  <2>1. /\ runner = "returned" /\ main' = "ended" /\ UNCHANGED <<runner, cmds, given, ran>>
    BY <1>3 DEF Return, EndMain
  <2> QED BY <2>1 DEF QueueHolds, Over, Entered, ExitEntered
<1>4. CASE UNCHANGED commandVars
  BY <1>4 DEF commandVars, QueueHolds, Over, Entered, ExitEntered
<1> QED
  BY <1>1, <1>2, <1>3, <1>4 DEF TproxyNext, ControlSteps, RedirectSteps, tproxyVars

\* Before any line.
LEMMA QueueStarts == TproxyInit => QueueHolds
<1> SUFFICES ASSUME TproxyInit PROVE QueueHolds
  OBVIOUS
<1>1. PICK s \in Script : CommandsInit(s)
  BY DEF TproxyInit
<1>2. s.strategy \in {"not_set", "direct", "cmd", "file"}
  BY CommandsAssumption
<1>3. /\ cmds = <<>> /\ ran = <<>> /\ given = <<>> /\ runner # "returned"
      /\ main = "file" => runner = "off"
      /\ main \notin {"joining", "ended"}
  BY <1>1, <1>2 DEF CommandsInit, MainOf
<1>4. Entered = <<>>
  BY <1>3, CommandsNone DEF Entered
<1>5. Aligned(Entered, ran, cmds, 0)
  BY <1>3, <1>4 DEF Aligned
<1>6. 0 \in 0..Len(cmds) /\ ~(0 < Len(cmds)) /\ ~Over
  BY <1>3 DEF Over, ExitEntered
<1> QED BY <1>3, <1>5, <1>6 DEF QueueHolds

\* The commands run are those entered.
LEMMA QueueSuffices == CommandsTypeOK /\ QueueHolds => RunsWhatWasEntered
<1> SUFFICES ASSUME CommandsTypeOK, QueueHolds PROVE RunsWhatWasEntered
  OBVIOUS
<1>1. ran \in Seq(Line)
  BY DEF CommandsTypeOK
<1>2. CASE runner = "returned"
  BY <1>1, <1>2 DEF QueueHolds, RunsWhatWasEntered
<1>3. CASE runner # "returned"
  <2>1. PICK k \in 0..Len(cmds) : Aligned(Entered, ran, cmds, k)
    BY <1>3 DEF QueueHolds
  <2>2. k \in Nat /\ Len(ran) \in Nat /\ DOMAIN ran = 1..Len(ran)
    BY <1>1
  <2>3. /\ Len(Entered) = Len(ran) + k
        /\ \A i \in 1..Len(ran) : Entered[i] = ran[i]
    BY <2>1 DEF Aligned
  <2>4. Len(ran) <= Len(Entered) /\ \A i \in DOMAIN ran : Entered[i] = ran[i]
    BY <2>2, <2>3
  <2> QED BY <1>3, <2>4 DEF QueueHolds, RunsWhatWasEntered
<1> QED BY <1>2, <1>3

-----------------------------------------------------------------------------
(* The redirections.                                                         *)

LEMMA RedirectStart == TproxyInit => RedirectInv
BY RedirectAssumption
DEF TproxyInit, RedirectInit, RedirectInv, RedirectTypeOK, HoldsWhatItServes

LEMMA RedirectKept == RedirectInv /\ [TproxyNext]_tproxyVars => RedirectInv'
<1> SUFFICES ASSUME RedirectInv, [TproxyNext]_tproxyVars PROVE RedirectInv'
  OBVIOUS
<1> USE RedirectAssumption DEF RedirectInv
<1>1. ASSUME NEW c \in Client,
             Connects(c) \/ Asks(c) \/ Leaves(c) \/ Answers(c) \/ Ends(c)
      PROVE  RedirectInv'
  <2>1. CASE Connects(c)
    <3>1. queue' \in Seq(Client)
      BY <2>1 DEF Connects, RedirectTypeOK
    <3> QED BY <2>1, <3>1 DEF Connects, RedirectTypeOK, HoldsWhatItServes, streamVars
  <2>2. CASE Asks(c)
    BY <2>2 DEF Asks, RedirectTypeOK, HoldsWhatItServes
  <2>3. CASE Leaves(c)
    BY <2>3 DEF Leaves, RedirectTypeOK, HoldsWhatItServes, streamVars
  <2>4. CASE Answers(c)
    BY <2>4 DEF Answers, RedirectTypeOK, HoldsWhatItServes
  <2>5. CASE Ends(c)
    BY <2>5 DEF Ends, RedirectTypeOK, HoldsWhatItServes, streamVars
  <2> QED BY <1>1, <2>1, <2>2, <2>3, <2>4, <2>5
<1>2. CASE Accepts
  <2>1. Head(queue) \in Client /\ Tail(queue) \in Seq(Client)
    BY <1>2 DEF Accepts, RedirectTypeOK
  <2> QED BY <1>2, <2>1 DEF Accepts, RedirectTypeOK, HoldsWhatItServes, streamVars
<1>3. CASE Redirects
  BY <1>3 DEF Redirects, RedirectTypeOK, HoldsWhatItServes, streamVars
<1>4. CASE ReadRequest \/ WriteRequest
  BY <1>4 DEF ReadRequest, WriteRequest, RedirectTypeOK, HoldsWhatItServes, streamVars
<1>5. CASE ReadResponse
  <2>1. now \in Client /\ response[now] \in 0..MaxPieces /\ returned[now] \in 0..MaxPieces
    BY <1>5 DEF ReadResponse, RedirectTypeOK, HoldsWhatItServes
  <2>2. returned' \in [Client -> 0..MaxPieces]
    <3>1. returned' = returned \/ \E k \in 0..MaxPieces : returned' = [returned EXCEPT ![now] = k]
      BY <1>5, <2>1 DEF ReadResponse
    <3> QED BY <3>1 DEF RedirectTypeOK
  <2>3. /\ at' \in {"write_client", "close"}
        /\ outcome' \in [Client -> {"-", "none", "router", "failed", "ended", "timeout", "write"}]
    BY <1>5 DEF ReadResponse, Stop, RedirectTypeOK
  <2> QED BY <1>5, <2>1, <2>2, <2>3 DEF ReadResponse, RedirectTypeOK, HoldsWhatItServes
<1>6. CASE ClosesClient
  BY <1>6 DEF ClosesClient, RedirectTypeOK, HoldsWhatItServes, streamVars
<1>7. CASE Destroys
  BY <1>7 DEF Destroys, RedirectTypeOK, HoldsWhatItServes, streamVars
<1>8. CASE WriteResponse
  BY <1>8 DEF WriteResponse, Stop, RedirectTypeOK, HoldsWhatItServes, streamVars
<1>9. ASSUME NEW end \in {"client", "server"}, StopsReading(end) \/ ReadsAgain(end)
       PROVE  RedirectInv'
  BY <1>9 DEF StopsReading, ReadsAgain, RedirectTypeOK, HoldsWhatItServes, streamVars
<1>10. CASE UNCHANGED redirectVars
  BY <1>10 DEF redirectVars, streamVars, RedirectTypeOK, HoldsWhatItServes
<1> QED
  BY <1>1, <1>2, <1>3, <1>4, <1>5, <1>6, <1>7, <1>8, <1>9, <1>10
  DEF TproxyNext, MainThread, RunCommand, Return, ControlSteps, RedirectSteps,
      Redirecting, Others, tproxyVars

-----------------------------------------------------------------------------
(* The control connections.                                                  *)

\* run_read_cmd gives send_cmd a command for a node.
LEMMA CommandGiven ==
  ASSUME CommandsTypeOK, Dequeue, ran' # ran, ran'[Len(ran')].op = "cmd"
  PROVE  CmdOf(ran'[Len(ran')]) \in Cmd
<1>1. ran \in Seq(Line) /\ ran' \in Seq(Line)
  BY DequeueKeeps DEF CommandsTypeOK
<1>2. ran' = Append(ran, Head(cmds))
  BY DEF Dequeue
<1>3. Len(ran') = Len(ran) + 1 /\ Len(ran) \in Nat /\ ran'[Len(ran')] \in Line
  BY <1>1, <1>2
<1> QED BY <1>3, TproxyAssumption DEF CmdOf, Cmd

LEMMA ChannelBegins == TproxyInit => ChannelInv
BY ChannelStart DEF TproxyInit

LEMMA ChannelKept ==
  CommandsTypeOK /\ ChannelInv /\ [TproxyNext]_tproxyVars => ChannelInv'
<1> SUFFICES ASSUME CommandsTypeOK, ChannelInv, [TproxyNext]_tproxyVars PROVE ChannelInv'
  OBVIOUS
<1>1. CASE UNCHANGED controlVars
  <2>1. UNCHANGED <<proc, moved, got, wire, backlog, listen_event, sock, client_to_fd,
                    fd_to_client, events, ctl, sending, up, overlapped>>
    BY <1>1 DEF controlVars, programVars, tableVars, epollVars
  <2>2. ControlTypeOK' /\ Addressed'
    BY <2>1 DEF ChannelInv, ControlTypeOK, Addressed
  <2>3. up => EdgesWait' /\ TargetKnown' /\ Owned' /\ CtlHolds'
    BY <2>1 DEF ChannelInv, Running, EdgesWait, TargetKnown, Target, Owned, CtlHolds, Gone
  <2>4. up => SendingHolds' /\ Connected'
    BY <2>1 DEF ChannelInv, Running, SendingHolds, Target, Connected, Gone
  <2>5. up => TablesAgreeBut' /\ KeptOnce'
    BY <2>1 DEF ChannelInv, Running, TablesAgreeBut, KeptOnce, Recording, Erasing, Ending
  <2> QED BY <2>1, <2>2, <2>3, <2>4, <2>5 DEF ChannelInv, Running
<1>2. CASE RunCommand
  <2>1. CASE ran' # ran /\ ran'[Len(ran')].op = "cmd"
    BY <1>2, <2>1, CommandGiven, FindKeeps DEF RunCommand
  <2> QED BY <1>1, <1>2, <2>1 DEF RunCommand
<1>3. CASE Return
  <2>1. /\ UNCHANGED <<proc, moved, got, wire, backlog, listen_event, client_to_fd,
                       fd_to_client, events, ctl, sending, overlapped>>
        /\ ~up' /\ up' \in BOOLEAN /\ sock' \in [Fd -> Proc \cup {NoOne}]
    BY <1>3 DEF Return, programVars, tableVars, epollVars
  <2>2. ControlTypeOK'
    BY <2>1 DEF ChannelInv, ControlTypeOK
  <2> QED BY <2>1, <2>2, DownKeeps
<1>4. CASE ControlSteps
  BY <1>4, ProgramsKeep, EpollKeeps, SendingKeeps DEF ControlSteps
<1> QED
  BY <1>1, <1>2, <1>3, <1>4 DEF TproxyNext, MainThread, RedirectSteps, tproxyVars

-----------------------------------------------------------------------------
(* The order of the commands.                                                *)

\* What the history of the commands adds to the rest of the state.
OrderInv == CommandsTypeOK /\ ChannelInv /\ Numbered

\* No command more, no program takes one and none is written.
LEMMA NumberedStays ==
  ASSUME Numbered, ran' = ran, got' = got, wire' = wire,
         sending'.at = "found" => sending.at = "found" /\ sending'.cmd = sending.cmd
  PROVE  Numbered'
BY DEF Numbered

\* A number more.
LEMMA NumberedBeyond ==
  ASSUME OrderInv, ran' \in Seq(Line), Len(ran') >= Len(ran), got' = got, wire' = wire,
         sending'.at = "found" =>
           \/ sending.at = "found" /\ sending'.cmd = sending.cmd
           \/ sending'.cmd.id = Len(ran) + 1 /\ Len(ran') = Len(ran) + 1
  PROVE  Numbered'
<1>1. Len(ran) \in Nat /\ Len(ran') \in Nat
  BY DEF OrderInv, CommandsTypeOK
<1>2. \A p \in Proc : got[p] \in Seq(Cmd) /\ wire[p] \in Seq(Cmd)
  BY DEF OrderInv, ChannelInv, ControlTypeOK
<1>3. \A p \in Proc : /\ \A i \in DOMAIN got[p] : got[p][i].id \in Nat
                      /\ \A i \in DOMAIN wire[p] : wire[p][i].id \in Nat
  <2> SUFFICES ASSUME NEW p \in Proc
               PROVE  /\ \A i \in DOMAIN got[p] : got[p][i].id \in Nat
                      /\ \A i \in DOMAIN wire[p] : wire[p][i].id \in Nat
    OBVIOUS
  <2>1. /\ \A i \in DOMAIN got[p] : got[p][i] \in Cmd
        /\ \A i \in DOMAIN wire[p] : wire[p][i] \in Cmd
    BY <1>2
  <2> QED BY <2>1 DEF Cmd
<1>4. \A p \in Proc : Below(got[p], Len(ran) + 1) /\ Below(wire[p], Len(ran) + 1)
  BY DEF OrderInv, Numbered
<1>5. \A p \in Proc : Below(got[p], Len(ran') + 1) /\ Below(wire[p], Len(ran') + 1)
  BY <1>1, <1>3, <1>4 DEF Below
<1>6. CASE sending'.at = "found" /\ sending.at = "found" /\ sending'.cmd = sending.cmd
  <2>1. sending.cmd.id \in Nat
    BY <1>6, Shapes DEF OrderInv, ChannelInv, NotSending, Cmd
  <2>2. sending.cmd.id <= Len(ran')
    BY <1>1, <1>6, <2>1 DEF OrderInv, Numbered
  <2> QED BY <1>5, <1>6, <2>2 DEF OrderInv, Numbered
<1>7. CASE sending'.at = "found" /\ sending'.cmd.id = Len(ran) + 1 /\ Len(ran') = Len(ran) + 1
  BY <1>1, <1>4, <1>5, <1>7 DEF OrderInv, Numbered
<1>8. CASE sending'.at # "found"
  BY <1>5, <1>8 DEF OrderInv, Numbered
<1> QED BY <1>6, <1>7, <1>8

LEMMA NumberedBegins == TproxyInit => Numbered
<1> SUFFICES ASSUME TproxyInit PROVE Numbered
  OBVIOUS
<1>1. /\ \A p \in Proc : got[p] = <<>> /\ wire[p] = <<>>
      /\ sending = NotSending
  BY DEF TproxyInit, ControlInit
<1> QED BY <1>1 DEF Numbered, Increasing, Below, NotSending

\* A program takes the next command.
LEMMA TakingKeepsOrder ==
  ASSUME OrderInv, NEW p \in Proc, do_router_cmd(p), ran' = ran
  PROVE  Numbered'
<1> DEFINE cmd == Head(wire[p])
<1>1. /\ got \in [Proc -> Seq(Cmd)] /\ wire \in [Proc -> Seq(Cmd)] /\ wire[p] # <<>>
      /\ wire' = [wire EXCEPT ![p] = Tail(@)] /\ sending' = sending
      /\ got' = [got EXCEPT ![p] = IF p \in moved THEN @ ELSE Append(@, cmd)]
  BY DEF OrderInv, ChannelInv, ControlTypeOK, do_router_cmd
<1>2. /\ wire[p] \in Seq(Cmd) /\ got[p] \in Seq(Cmd)
      /\ got'[p] \in {got[p], Append(got[p], cmd)} /\ wire'[p] = Tail(wire[p])
      /\ \A q \in Proc \ {p} : got'[q] = got[q] /\ wire'[q] = wire[q]
  BY <1>1
<1>3. cmd \in Cmd /\ cmd = wire[p][1] /\ 1 \in DOMAIN wire[p]
  BY <1>1, <1>2
<1>4. \A i \in DOMAIN wire'[p] :
        i \in Nat \ {0} /\ i + 1 \in DOMAIN wire[p] /\ wire'[p][i] = wire[p][i + 1]
  BY <1>1, <1>2
<1>5. \A i \in DOMAIN got'[p] :
        \/ i \in DOMAIN got[p] /\ got'[p][i] = got[p][i]
        \/ i = Len(got[p]) + 1 /\ got'[p][i] = cmd
  <2>1. CASE got'[p] = got[p]
    BY <2>1
  <2>2. CASE got'[p] = Append(got[p], cmd)
    BY <1>2, <1>3, <2>2
  <2> QED BY <1>2, <2>1, <2>2
<1>6. /\ Increasing(got[p]) /\ Increasing(wire[p])
      /\ \A i \in DOMAIN got[p], j \in DOMAIN wire[p] : got[p][i].id < wire[p][j].id
      /\ Below(got[p], Len(ran) + 1) /\ Below(wire[p], Len(ran) + 1)
  BY DEF OrderInv, Numbered
<1>7. \A j \in DOMAIN wire'[p] : cmd.id < wire'[p][j].id
  BY <1>3, <1>4, <1>6 DEF Increasing
<1>8. Increasing(wire'[p])
  <2> SUFFICES ASSUME NEW i \in DOMAIN wire'[p], NEW j \in DOMAIN wire'[p], i < j
               PROVE  wire'[p][i].id < wire'[p][j].id
    BY DEF Increasing
  <2>1. i \in Nat /\ j \in Nat /\ i + 1 < j + 1
    BY <1>4
  <2> QED BY <1>4, <1>6, <2>1 DEF Increasing
<1>9. Increasing(got'[p])
  <2> SUFFICES ASSUME NEW i \in DOMAIN got'[p], NEW j \in DOMAIN got'[p], i < j
               PROVE  got'[p][i].id < got'[p][j].id
    BY DEF Increasing
  <2>1. \A k \in DOMAIN got[p] : k \in Nat /\ k <= Len(got[p])
    BY <1>2
  <2>2. i \in DOMAIN got[p] /\ got'[p][i] = got[p][i]
    <3>1. ~(i = Len(got[p]) + 1)
      BY <1>2, <1>5, <2>1
    <3> QED BY <1>5, <3>1
  <2> QED BY <1>3, <1>5, <1>6, <2>2 DEF Increasing
<1>10. \A i \in DOMAIN got'[p], j \in DOMAIN wire'[p] : got'[p][i].id < wire'[p][j].id
  BY <1>4, <1>5, <1>6, <1>7
<1>11. \A n : Below(got[p], n) /\ Below(wire[p], n) => Below(got'[p], n) /\ Below(wire'[p], n)
  BY <1>3, <1>4, <1>5 DEF Below
<1>12. ASSUME NEW q \in Proc
       PROVE  /\ Increasing(got'[q]) /\ Increasing(wire'[q])
              /\ \A i \in DOMAIN got'[q], j \in DOMAIN wire'[q] : got'[q][i].id < wire'[q][j].id
              /\ Below(got'[q], Len(ran) + 1) /\ Below(wire'[q], Len(ran) + 1)
  <2>1. CASE q = p
    BY <1>6, <1>8, <1>9, <1>10, <1>11, <2>1
  <2>2. CASE q # p
    BY <1>2, <2>2 DEF OrderInv, Numbered
  <2> QED BY <2>1, <2>2
<1>13. sending.at = "found" =>
         /\ sending.cmd.id <= Len(ran)
         /\ \A q \in Proc : Below(got'[q], sending.cmd.id) /\ Below(wire'[q], sending.cmd.id)
  BY <1>2, <1>11 DEF OrderInv, Numbered
<1> QED BY <1>1, <1>12, <1>13 DEF Numbered

\* send_cmd writes the command that run_read_cmd has begun last.
LEMMA WritingKeepsOrder ==
  ASSUME OrderInv, SendWrite, ran' = ran
  PROVE  Numbered'
<1> DEFINE p == sock[Target]
           cmd == sending.cmd
<1>1. /\ got \in [Proc -> Seq(Cmd)] /\ wire \in [Proc -> Seq(Cmd)]
      /\ sending.at = "found" /\ cmd \in Cmd /\ got' = got /\ Target \in Fd
  BY Shapes DEF OrderInv, ChannelInv, ControlTypeOK, SendWrite, Using, NotSending, programVars,
     Running, TargetKnown
<1>2. sending'.at # "found"
  BY <1>1, Shapes DEF OrderInv, ChannelInv, ControlTypeOK, SendWrite, NotSending
<1>3. CASE wire' = wire
  BY <1>1, <1>2, <1>3, NumberedStays DEF OrderInv
<1>4. CASE wire' # wire
  <2>1. IsActive(Target) /\ wire' = [wire EXCEPT ![p] = Append(@, cmd)]
    BY <1>4 DEF SendWrite
  <2>2. p \in Proc
    BY <1>1, <2>1, Shapes DEF IsActive, OrderInv, ChannelInv
  <2>3. /\ wire[p] \in Seq(Cmd) /\ wire'[p] = Append(wire[p], cmd)
        /\ \A q \in Proc \ {p} : wire'[q] = wire[q]
    BY <1>1, <2>1, <2>2
  <2>4. \A i \in DOMAIN wire'[p] :
          \/ i \in DOMAIN wire[p] /\ wire'[p][i] = wire[p][i]
          \/ i = Len(wire[p]) + 1 /\ wire'[p][i] = cmd
    BY <1>1, <2>3
  <2>5. /\ Increasing(got[p]) /\ Increasing(wire[p])
        /\ \A i \in DOMAIN got[p], j \in DOMAIN wire[p] : got[p][i].id < wire[p][j].id
        /\ Below(wire[p], Len(ran) + 1)
        /\ cmd.id <= Len(ran) /\ Below(got[p], cmd.id) /\ Below(wire[p], cmd.id)
    BY <1>1, <2>2 DEF OrderInv, Numbered
  <2>6. Increasing(wire'[p])
    <3> SUFFICES ASSUME NEW i \in DOMAIN wire'[p], NEW j \in DOMAIN wire'[p], i < j
                 PROVE  wire'[p][i].id < wire'[p][j].id
      BY DEF Increasing
    <3>1. \A k \in DOMAIN wire[p] : k \in Nat /\ k <= Len(wire[p])
      BY <2>3
    <3>2. i \in DOMAIN wire[p] /\ wire'[p][i] = wire[p][i]
      <4>1. ~(i = Len(wire[p]) + 1)
        BY <2>3, <2>4, <3>1
      <4> QED BY <2>4, <4>1
    <3> QED BY <2>4, <2>5, <3>2 DEF Increasing, Below
  <2>7. \A i \in DOMAIN got[p], j \in DOMAIN wire'[p] : got[p][i].id < wire'[p][j].id
    BY <2>4, <2>5 DEF Below
  <2>8. Below(wire'[p], Len(ran) + 1)
    <3>1. cmd.id < Len(ran) + 1
      <4>1. cmd.id \in Nat /\ Len(ran) \in Nat
        BY <1>1 DEF Cmd, OrderInv, CommandsTypeOK
      <4> QED BY <2>5, <4>1
    <3> QED BY <2>4, <2>5, <3>1 DEF Below
  <2>9. ASSUME NEW q \in Proc
        PROVE  /\ Increasing(got[q]) /\ Increasing(wire'[q])
               /\ \A i \in DOMAIN got[q], j \in DOMAIN wire'[q] : got[q][i].id < wire'[q][j].id
               /\ Below(got[q], Len(ran) + 1) /\ Below(wire'[q], Len(ran) + 1)
    <3>1. CASE q = p
      BY <2>2, <2>6, <2>7, <2>8, <3>1 DEF OrderInv, Numbered
    <3>2. CASE q # p
      BY <2>3, <3>2 DEF OrderInv, Numbered
    <3> QED BY <3>1, <3>2
  <2> QED BY <1>1, <1>2, <2>9 DEF Numbered
<1> QED BY <1>3, <1>4

LEMMA OrderKept == OrderInv /\ [TproxyNext]_tproxyVars => OrderInv'
<1> SUFFICES ASSUME OrderInv, [TproxyNext]_tproxyVars PROVE OrderInv'
  OBVIOUS
<1>0. CommandsTypeOK' /\ ChannelInv' /\ Numbered
  BY CommandsKept, ChannelKept DEF OrderInv
<1>1. CASE UNCHANGED controlVars /\ ran' = ran
  BY <1>0, <1>1, NumberedStays DEF OrderInv, controlVars, programVars
<1>2. CASE MainThread
  BY <1>1, <1>2 DEF MainThread, Entering, ReadLine, TypeLine, EndOfFile, LeavePrompt
<1>3. CASE RunCommand
  <2>1. ran \in Seq(Line) /\ ran' \in Seq(Line)
    BY <1>0 DEF OrderInv, CommandsTypeOK
  <2>2. ran' # ran => ran' = Append(ran, Head(cmds))
    BY <1>3 DEF RunCommand, Dequeue
  <2>3. Len(ran') = Len(ran) + 1 \/ ran' = ran
    <3>1. CASE ran' # ran
      <4>1. Append(ran, Head(cmds)) \in Seq(Line)
        BY <2>1, <2>2, <3>1
      <4>2. Len(Append(ran, Head(cmds))) = Len(ran) + 1
        BY <2>1
      <4> QED BY <2>2, <3>1, <4>2
    <3> QED BY <3>1
  <2>4. got' = got /\ wire' = wire
    BY <1>3 DEF RunCommand, send_cmd, controlVars, programVars
  <2>5. CASE sending'.at = "found" /\ ~(sending.at = "found")
    <3>1. ran' # ran /\ send_cmd(CmdOf(ran'[Len(ran')]))
      BY <1>3, <2>5 DEF RunCommand, controlVars
    <3>2. sending'.cmd.id = Len(ran) + 1
      BY <2>5, <3>1 DEF send_cmd, CmdOf, NotSending
    <3> QED BY <1>0, <2>1, <2>3, <2>4, <2>5, <3>1, <3>2, NumberedBeyond DEF OrderInv
  <2>6. CASE ~(sending'.at = "found") \/ sending.at = "found"
    <3>1. sending'.at = "found" => sending.at = "found" /\ sending'.cmd = sending.cmd
      BY <1>3, <2>6 DEF RunCommand, send_cmd, controlVars, NotSending
    <3>2. Len(ran') >= Len(ran)
      BY <2>1, <2>3
    <3> QED BY <1>0, <2>1, <2>4, <3>1, <3>2, NumberedBeyond DEF OrderInv
  <2> QED BY <2>5, <2>6
<1>4. CASE Return
  BY <1>0, <1>4, NumberedStays DEF Return, EndMain, programVars, OrderInv
<1>5. CASE ControlSteps
  <2>0. ran' = ran
    BY <1>5 DEF ControlSteps, commandVars
  <2>1. CASE Programs
    <3>1. PICK p \in Proc : connect_router(p) \/ Die(p) \/ do_router_cmd(p) \/ RouterClosed(p)
      BY <2>1 DEF Programs
    <3>2. CASE do_router_cmd(p)
      BY <1>0, <2>0, <3>2, TakingKeepsOrder DEF OrderInv
    <3>3. CASE connect_router(p) \/ Die(p) \/ RouterClosed(p)
      BY <1>0, <2>0, <3>3, NumberedStays DEF connect_router, Die, RouterClosed, OrderInv
    <3> QED BY <3>1, <3>2, <3>3
  <2>2. CASE CtlEpoll
    <3>1. got' = got /\ wire' = wire
      BY <2>2 DEF CtlEpoll, epoll_wait, CtlAccept, CtlAcceptDies, CtlRecord, CtlEvent, CtlClose,
         CtlErase, programVars
    <3>2. sending' \in {sending, [sending EXCEPT !.dangling = TRUE]}
      BY <2>2 DEF CtlEpoll, epoll_wait, CtlAccept, CtlAcceptDies, CtlRecord, CtlEvent, CtlClose,
         CtlErase
    <3>3. sending'.at = "found" => sending.at = "found" /\ sending'.cmd = sending.cmd
      <4>1. CASE sending = NotSending
        BY <2>2, <4>1 DEF CtlEpoll, epoll_wait, CtlAccept, CtlAcceptDies, CtlRecord, CtlEvent,
           CtlClose, CtlErase, Holds, NotSending
      <4>2. CASE sending # NotSending
        BY <3>2, <4>2 DEF OrderInv, ChannelInv, ControlTypeOK
      <4> QED BY <4>1, <4>2
    <3> QED BY <1>0, <2>0, <3>1, <3>3, NumberedStays DEF OrderInv
  <2>3. CASE SendWrite
    BY <1>0, <2>0, <2>3, WritingKeepsOrder DEF OrderInv
  <2>4. CASE SendClose \/ SendErase \/ SendUndefined
    <3>1. got' = got /\ wire' = wire
      BY <2>4 DEF SendClose, SendErase, SendUndefined, programVars
    <3>2. sending'.at = "found" => sending' = sending
      BY <2>4, Shapes DEF SendClose, SendErase, SendUndefined, Using, NotSending, OrderInv, ChannelInv,
         ControlTypeOK
    <3> QED BY <1>0, <2>0, <3>1, <3>2, NumberedStays DEF OrderInv
  <2> QED BY <1>5, <2>1, <2>2, <2>3, <2>4 DEF ControlSteps, Sending
<1> QED
  BY <1>1, <1>2, <1>3, <1>4, <1>5 DEF TproxyNext, RedirectSteps, tproxyVars, commandVars

-----------------------------------------------------------------------------
(* What follows for the process.                                             *)

\* Back at accept, main holds no descriptor of an earlier connection
\* (~SimpleRedirect, close in main).
THEOREM DescriptorsReturned == TproxySpec => []NothingLeaks
<1>1. RedirectInv => NothingLeaks
  BY DEF RedirectInv, HoldsWhatItServes, NothingLeaks
<1> QED BY <1>1, RedirectStart, RedirectKept, PTL DEF TproxySpec

\* The variables of all three parts keep their types.
THEOREM ProcessTyped == TproxySpec => []TproxyTypeOK
<1>1. TproxyInit => OrderInv
  BY CommandsStart, ChannelBegins, NumberedBegins DEF OrderInv
<1>2. OrderInv /\ RedirectInv => TproxyTypeOK
  BY DEF OrderInv, ChannelInv, RedirectInv, TproxyTypeOK
<1> QED BY <1>1, <1>2, OrderKept, RedirectStart, RedirectKept, PTL DEF TproxySpec

\* A program whose node has had no overlapping connections runs only commands
\* for its node, in the order given (send_cmd, client_to_fd).
THEOREM CommandsForOwnNode == TproxySpec => []OwnCommandsInOrder
<1>1. TproxyInit => OrderInv
  BY CommandsStart, ChannelBegins, NumberedBegins DEF OrderInv
<1>2. OrderInv => OwnCommandsInOrder
  BY DEF OrderInv, ChannelInv, Addressed, Numbered, Increasing, OwnCommandsInOrder
<1> QED BY <1>1, <1>2, OrderKept, PTL DEF TproxySpec

\* Between two handlers of the two threads the tables agree with each other and
\* with the sockets (do_accept_connect, check_connection_is_active, send_cmd).
THEOREM TablesAgreeAtRest == TproxySpec => []TablesAgree
<1>1. TproxyInit => CommandsTypeOK /\ ChannelInv
  BY CommandsStart, ChannelBegins
<1>2. ChannelInv => TablesAgree
  <2> SUFFICES ASSUME ChannelInv, up, ctl = Waiting, sending = NotSending,
                      NEW n \in Node \ overlapped, NEW f \in Fd
               PROVE  /\ client_to_fd[n] = f <=> fd_to_client[f] = n
                      /\ fd_to_client[f] = n <=> sock[f] # NoOne /\ NodeOf[sock[f]] = n
    BY DEF TablesAgree
  <2>1. ~Recording(n, f) /\ ~Erasing(n) /\ ~Ending(f)
    BY DEF Recording, Erasing, Ending, Waiting, NotSending
  <2> QED BY <2>1 DEF ChannelInv, Running, TablesAgreeBut
<1> QED BY <1>1, <1>2, CommandsKept, ChannelKept, PTL DEF TproxySpec

\* A program loses its control connection only where two connections of its
\* node overlap or a long command has moved its buffer (send_cmd,
\* check_connection_is_active, do_router_cmd).
THEOREM OnlyOverlapsCutOff == TproxySpec => []NobodyCutOff
<1>1. TproxyInit => CommandsTypeOK /\ ChannelInv
  BY CommandsStart, ChannelBegins
<1>2. ChannelInv => NobodyCutOff
  BY DEF ChannelInv, Running, Connected, NobodyCutOff
<1> QED BY <1>1, <1>2, CommandsKept, ChannelKept, PTL DEF TproxySpec

\* For every script: what has been run is what was entered before the first
\* "exit", in order and without a gap, and all of it when the process has ended
\* (read_file, readline, dequeue).
THEOREM EnteredIsRun == TproxySpec => []RunsWhatWasEntered
<1>1. CommandsTypeOK /\ QueueHolds /\ [TproxyNext]_tproxyVars => (CommandsTypeOK /\ QueueHolds)'
  BY CommandsKept, QueueKept
<1> QED BY <1>1, CommandsStart, QueueStarts, QueueSuffices, PTL DEF TproxySpec
================================================================================
